-------------------------------- MODULE Heap --------------------------------
(***************************************************************************)
(* The kernel heap, kernel/heap.c: a doubly linked list of blocks, first   *)
(* fit, split on allocation and merged with both neighbours on release.    *)
(* Sizes and addresses are in words of 8 bytes from HEAP_BASE.  One task   *)
(* calls it, and gives back only what it was given.                        *)
(***************************************************************************)
EXTENDS Integers

CONSTANTS
    HeapUnits,    \* HEAP_SIZE
    Header,       \* sizeof(struct block)
    Grain,        \* 16 bytes: sizes are rounded to it, no split leaves less
    Requests      \* the sizes callers ask for

ASSUME HeapAssumption ==
    /\ Header \in Nat \ {0} /\ Grain \in Nat \ {0}
    /\ HeapUnits \in Nat /\ HeapUnits > Header
    /\ Requests \subseteq Nat

VARIABLES
    blk,          \* the headers in the list, by address
    held,         \* the pointers callers hold
    returned      \* the pointer the last call returned; 0 is NULL

heapVars == <<blk, held, returned>>

NoBlock == -1
Addresses == 0 .. HeapUnits - Header
Block == [size : 0 .. HeapUnits, used : BOOLEAN,
          next : Addresses \cup {NoBlock}, prev : Addresses \cup {NoBlock}]

HeapInit ==
    /\ blk = [a \in {0} |-> [size |-> HeapUnits - Header, used |-> FALSE,
                             next |-> NoBlock, prev |-> NoBlock]]
    /\ held = {} /\ returned = 0

-----------------------------------------------------------------------------
(* Operations on the list b *)

Round(n) == ((n + Grain - 1) \div Grain) * Grain
Ptr(a) == a + Header
BlockOf(p) == p - Header

(* The list with the new block c, which starts at n words into a's room    *)
Carved(b, a, n) ==
    LET c == a + Header + n
    IN  [x \in DOMAIN b \cup {c} |->
          IF x = a THEN [b[a] EXCEPT !.size = n, !.next = c]
          ELSE IF x = c THEN [size |-> b[a].size - n - Header, used |-> FALSE,
                              next |-> b[a].next, prev |-> a]
          ELSE IF x = b[a].next THEN [b[x] EXCEPT !.prev = c]
          ELSE b[x]]

(* Bug: nothing need be left for the new block. *)
SplitUnchecked(b, a, n) == Carved(b, a, n)

Split(b, a, n) == IF b[a].size < n + Header + Grain THEN b ELSE Carved(b, a, n)

Taken(b, a, n) == [Split(b, a, n) EXCEPT ![a].used = TRUE]

(* Bug: the block after the two keeps its back link. *)
MergeForward(b, p, n) ==
    [x \in DOMAIN b \ {n} |->
      IF x = p THEN [b[p] EXCEPT !.size = @ + Header + b[n].size, !.next = b[n].next]
      ELSE b[x]]

(* p takes the room of n and leaves it out of the list *)
Merge(b, p, n) ==
    [x \in DOMAIN b \ {n} |->
      IF x = p THEN [b[p] EXCEPT !.size = @ + Header + b[n].size, !.next = b[n].next]
      ELSE IF x = b[n].next THEN [b[x] EXCEPT !.prev = p]
      ELSE b[x]]

IsFree(b, a) == a # NoBlock /\ ~b[a].used

MergeNext(b, a) == IF IsFree(b, b[a].next) THEN Merge(b, a, b[a].next) ELSE b

(* Bug: only the block after is looked at. *)
MergePrevNever(b, a) == b

MergePrev(b, a) == IF IsFree(b, b[a].prev) THEN Merge(b, b[a].prev, a) ELSE b

Freed(b, a) == MergePrev(MergeNext([b EXCEPT ![a].used = FALSE], a), a)

(* The block the loop of kmalloc stops at: the list is in address order    *)
(* (Linked), so the first that fits is the lowest. *)
FirstFit(b, n) ==
    LET fit == {a \in DOMAIN b : ~b[a].used /\ b[a].size >= n}
    IN  {a \in fit : \A c \in fit : a <= c}

-----------------------------------------------------------------------------
(* The calls *)

Kmalloc(n) ==
    \/ \E a \in FirstFit(blk, Round(n)) :
        /\ blk' = Taken(blk, a, Round(n))
        /\ held' = held \cup {Ptr(a)}
        /\ returned' = Ptr(a)
    \/ /\ FirstFit(blk, Round(n)) = {}
       /\ returned' = 0
       /\ UNCHANGED <<blk, held>>

Kfree(p) ==
    /\ blk' = Freed(blk, BlockOf(p))
    /\ held' = held \ {p}
    /\ UNCHANGED returned

(* A block that is large enough is never shrunk. *)
ReallocInPlace(p, n) ==
    /\ blk[BlockOf(p)].size >= n
    /\ returned' = p
    /\ UNCHANGED <<blk, held>>

(* Bug: the old block is not freed. *)
ReallocLeak(p, n) ==
    /\ blk[BlockOf(p)].size < n
    /\ \E a \in FirstFit(blk, Round(n)) :
        /\ blk' = Taken(blk, a, Round(n))
        /\ held' = (held \ {p}) \cup {Ptr(a)}
        /\ returned' = Ptr(a)

(* kmalloc, memcpy and kfree of the old block, in this order *)
ReallocMove(p, n) ==
    /\ blk[BlockOf(p)].size < n
    /\ \E a \in FirstFit(blk, Round(n)) :
        /\ blk' = Freed(Taken(blk, a, Round(n)), BlockOf(p))
        /\ held' = (held \ {p}) \cup {Ptr(a)}
        /\ returned' = Ptr(a)

ReallocFails(p, n) ==
    /\ blk[BlockOf(p)].size < n
    /\ FirstFit(blk, Round(n)) = {}
    /\ returned' = 0
    /\ UNCHANGED <<blk, held>>

Krealloc(p, n) == ReallocInPlace(p, n) \/ ReallocMove(p, n) \/ ReallocFails(p, n)

HeapNext ==
    \/ \E n \in Requests : Kmalloc(n) \/ \E p \in held : Krealloc(p, n)
    \/ \E p \in held : Kfree(p)

HeapSpec == HeapInit /\ [][HeapNext]_heapVars

-----------------------------------------------------------------------------
(* Properties *)

HeapTypeOK ==
    /\ DOMAIN blk \subseteq Addresses
    /\ \A a \in DOMAIN blk : blk[a] \in Block
    /\ held \subseteq 1 .. HeapUnits
    /\ returned \in 0 .. HeapUnits

End(a) == a + Header + blk[a].size

(* The list runs through the heap in address order without a gap or an     *)
(* overlap, and its back links mirror its forward links.                   *)
Linked ==
    /\ 0 \in DOMAIN blk /\ blk[0].prev = NoBlock
    /\ \A a \in DOMAIN blk :
        \/ blk[a].next = NoBlock /\ End(a) = HeapUnits
        \/ /\ blk[a].next \in DOMAIN blk
           /\ blk[a].next = End(a) /\ blk[End(a)].prev = a
    /\ \A a, c \in DOMAIN blk : a < c => End(a) <= c

(* No two free blocks are neighbours.                                      *)
Coalesced ==
    \A a \in DOMAIN blk : blk[a].next # NoBlock => blk[a].used \/ blk[blk[a].next].used

(* The used blocks are those that callers hold: nothing leaks.             *)
Owned == {a \in DOMAIN blk : blk[a].used} = {BlockOf(p) : p \in held}

(* What holds of the heap between calls: the list covers it without gap or *)
(* overlap, no two free blocks are neighbours, and nothing leaks.          *)
HeapSound == HeapTypeOK /\ Linked /\ Coalesced /\ Owned

(* The heap implements the allocator: no two grants overlap, each is large *)
(* enough, krealloc gives nothing back before it has the new place, and a  *)
(* refusal means that no gap has the room.                                 *)
Grants == {[at |-> p, size |-> blk[BlockOf(p)].size] : p \in held}
Alloc == INSTANCE Allocator WITH grants <- Grants, got <- returned
AllocatorSpec == Alloc!Spec
=============================================================================
