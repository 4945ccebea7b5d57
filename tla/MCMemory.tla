------------------------------ MODULE MCMemory ------------------------------
(***************************************************************************)
(* Memory on small instances: the frames and those who take them, and the  *)
(* blocks within the heap.  Once its pages are mapped the heap takes no    *)
(* more frames, so the two keep no state in common: a behaviour is one of  *)
(* one of them, which part names from the first state on.                  *)
(***************************************************************************)
EXTENDS Memory, Heap

VARIABLES part

allVars == <<part, memVars, heapVars>>

(* A memory map with a hole and a reserved region that is not aligned, and *)
(* a kernel that ends inside a page; a page is two units.                  *)
Region(b, l) == [base |-> b, length |-> l]
Entry(b, l, avail) == [base |-> b, length |-> l, available |-> avail]

SmallMap == {Entry(0, 1, TRUE), Entry(1, 1, FALSE), Entry(4, 11, TRUE), Entry(15, 2, FALSE),
             Entry(17, 14, TRUE)}
SmallFixed == {Region(0, 2), Region(2, 1)}

(* A heap of two pages in one table, and one for whose tables there are    *)
(* too few frames                                                          *)
CompactHeap == << <<1, 0, 0, 0>>, <<1, 0, 0, 1>> >>
SpreadHeap == << <<1, 0, 0, 0>>, <<1, 0, 1, 0>>, <<2, 0, 0, 0>>, <<1, 0, 0, 1>> >>
SmallHeaps == {CompactHeap, SpreadHeap}

-----------------------------------------------------------------------------
AllInit ==
    /\ part \in {"frames", "blocks"}
    /\ MemInit /\ (part = "blocks" => heap = CompactHeap /\ \A m \in Modes : mode <= m)
    /\ HeapInit

AllNext ==
    /\ \/ part = "frames" /\ MemNext /\ UNCHANGED heapVars
       \/ part = "blocks" /\ HeapNext /\ UNCHANGED memVars
    /\ UNCHANGED part

AllSpec == AllInit /\ [][AllNext]_allVars

=============================================================================
