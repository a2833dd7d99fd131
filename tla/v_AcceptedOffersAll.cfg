\* The comment on State::Interested against Bitfield::all on a received bitfield.
CONSTANTS
    MaxPieces = 10
    Vectors <- MCVectors
SPECIFICATION Spec
INVARIANTS AcceptedOffersAll
