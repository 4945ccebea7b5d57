------------------------------ MODULE MCDiskFS ------------------------------
(* Names, sector values and boot lists for the storage runs. *)
EXTENDS DiskFS

CONSTANTS a, b, c, x, y

(* An empty file, a sector, and two sectors that tell apart where each lies *)
ThreeTexts == {<<>>, <<x>>, <<y, x>>}

NoDefaults == <<>>

(* A default file that is only created when missing, as readme.txt, and    *)
(* one that every boot writes, as home.url                                 *)
TwoDefaults == <<[name |-> a, text |-> <<x>>, keep |-> TRUE],
                 [name |-> b, text |-> <<>>, keep |-> FALSE]>>
=============================================================================
