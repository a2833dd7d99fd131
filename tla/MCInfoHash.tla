------------------------------ MODULE MCInfoHash ------------------------------
(* The marks, signs and digits one by one, and strings in one piece: alone,   *)
(* or as a key with an empty value.  Two of them have a leading zero in their *)
(* length.                                                                    *)
EXTENDS InfoHash

MCFragments ==
    {<<b>> : b \in {EndMark, IntegerMark, ListMark, DictionaryMark, Minus, Colon, 48, 49, 120}}
        \cup {<<48, 58>>, <<49, 58, 97, 48, 58>>, <<48, 49, 58, 98, 48, 48, 58>>,
              <<50, 58, 97, 128>>}
===============================================================================
