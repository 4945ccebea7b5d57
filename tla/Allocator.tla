------------------------------ MODULE Allocator ------------------------------
(* What kmalloc, krealloc and kfree promise: grants that never overlap, as  *)
(* large as asked for, and a refusal only when no gap is large enough.      *)
EXTENDS Integers

CONSTANTS
    HeapUnits, Header, Requests,
    Round(_)      \* the size a request is rounded to

VARIABLES grants, got

vars == <<grants, got>>

Apart(g, h) == g.at + g.size <= h.at - Header \/ h.at + h.size <= g.at - Header

(* g is a place for n words that no grant reaches into *)
Fits(g, n) == /\ g.at >= Header /\ g.size >= n /\ g.at + g.size <= HeapUnits
              /\ \A h \in grants : Apart(g, h)

NoRoom(n) == \A at \in Header .. HeapUnits : ~Fits([at |-> at, size |-> Round(n)], n)

Init == grants = {} /\ got = 0

Alloc(n) ==
    \/ \E g \in grants' \ grants : Fits(g, n) /\ grants' = grants \cup {g} /\ got' = g.at
    \/ got' = 0 /\ UNCHANGED grants /\ NoRoom(n)

Free(g) == grants' = grants \ {g} /\ UNCHANGED got

(* The grant stays, or moves to a larger place and the old one is given    *)
(* back only then. *)
Realloc(g, n) ==
    \/ g.size >= n /\ got' = g.at /\ UNCHANGED grants
    \/ \E h \in grants' \ grants :
        Fits(h, n) /\ grants' = (grants \ {g}) \cup {h} /\ got' = h.at
    \/ g.size < n /\ got' = 0 /\ UNCHANGED grants /\ NoRoom(n)

Next ==
    \/ \E n \in Requests : Alloc(n) \/ \E g \in grants : Realloc(g, n)
    \/ \E g \in grants : Free(g)

Spec == Init /\ [][Next]_vars
=============================================================================
