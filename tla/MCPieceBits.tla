----------------------------- MODULE MCPieceBits -----------------------------
(* Payloads of one and two bytes: every last byte, and a first byte that is *)
(* complete, misses one piece or is empty.                                  *)
EXTENDS PieceBits

MCVectors ==
    {<<b>> : b \in Byte} \cup {AllBits, AllBits \ {7}, {}} \X Byte
===============================================================================
