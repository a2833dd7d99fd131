\* Two frames, with a byte too few or two bytes too many where the size is fixed.
\* The system stops when the peer has nothing more to say.
CONSTANTS
    InfoHash = "hash"
    Handshakes <- MCHandshakes
    Messages <- MCMessages
    Pads <- MCPads
    MaxFrames = 2
SPECIFICATION FairSpec
INVARIANTS TypeOK ReturnsWhatWasSent StopsAtTheNextFrame FailsForAReason
PROPERTIES EveryFrameIsReturned
CHECK_DEADLOCK FALSE
