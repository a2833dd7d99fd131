-------------------------------- MODULE MCWire --------------------------------
(* One message of each kind that is read differently, with numbers whose    *)
(* bytes differ, and the payloads at the limits of what is accepted.        *)
EXTENDS Wire

MCHandshakes ==
    {[length |-> 19, protocol |-> P_STR, hash |-> InfoHash],
     [length |-> 19, protocol |-> P_STR, hash |-> "other"],
     [length |-> 19, protocol |-> "other", hash |-> InfoHash],
     [length |-> 18, protocol |-> P_STR, hash |-> InfoHash]}

MCMessages ==
    {[type |-> t] : t \in {"keepAlive", "unchoke", "port"}}
        \cup {[type |-> "have", index |-> 258]}
        \cup {[type |-> "bitfield", bytes |-> b] : b \in {<<>>, <<5, 4>>}}
        \cup {[type |-> "piece", index |-> 3, begin |-> 256, bytes |-> b] : b \in {<<>>, <<7>>}}
        \cup {[type |-> t, index |-> 1, begin |-> 512, length |-> 2] : t \in {"request", "cancel"}}

MCPads == {-1, 0, 2}
===============================================================================
