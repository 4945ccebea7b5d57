-------------------------------- MODULE PMM --------------------------------
(***************************************************************************)
(* The physical memory manager, kernel/pmm.c: a bitmap of page frames, a   *)
(* count of the clear bits and a next-fit cursor.  kmain, the heap, the    *)
(* page tables, the frame buffer and the network card call it, never two   *)
(* at a time, and give back only what they were given.                     *)
(***************************************************************************)
EXTENDS Integers, FiniteSets

CONSTANTS
    PageSize,     \* PAGE_SIZE, in the units of the memory map
    MinPages,     \* what is assumed without a memory map (128 MB)
    BitmapPages,  \* PMM_BITMAP_SIZE * 8
    AddressSpace, \* 2^64, where no entry of the memory map ends beyond
    MemoryMap,    \* the entries of the Multiboot2 memory map
    Fixed,        \* low memory, the kernel, the bitmap, the boot information
    RunSizes      \* the arguments of pmm_alloc_frames

ASSUME SizesAssumption ==
    /\ PageSize \in Nat \ {0} /\ MinPages \in Nat \ {0} /\ BitmapPages \in Nat \ {0}
    /\ MemoryMap \subseteq [base : Nat, length : Nat, available : BOOLEAN]
    /\ AddressSpace \in Nat /\ \A e \in MemoryMap : e.base + e.length <= AddressSpace
    /\ Fixed \subseteq [base : Nat, length : Nat]
    /\ RunSizes \subseteq Nat \ {0}

(* mark_used(0, 0x100000) *)
ASSUME LowMemoryAssumption == \E r \in Fixed : r.base = 0 /\ r.length > 0

-----------------------------------------------------------------------------
(* pmm_init *)

Tops == {(e.base + e.length) \div PageSize : e \in {f \in MemoryMap : f.available}}
Largest(S) == CHOOSE m \in S : \A k \in S : k <= m

(* g_total_pages, capped by the size of the bitmap *)
Total ==
    LET top == Largest(Tops \cup {MinPages})
    IN  IF top > BitmapPages THEN BitmapPages ELSE top

Pages == 0 .. Total - 1

(* Bug: a partial last page counts as usable. *)
MarkedDown(r) == r.base \div PageSize .. (r.base + r.length) \div PageSize - 1

(* The frames mark_used(base, len) sets: every one the region touches *)
Marked(r) == r.base \div PageSize .. (r.base + r.length + PageSize - 1) \div PageSize - 1

Reserved ==
    Pages \cap UNION {Marked(r) : r \in Fixed \cup {e \in MemoryMap : ~e.available}}

VARIABLES
    used,         \* the set bits of g_bitmap
    free,         \* g_free_pages
    last,         \* g_last_index
    grants,       \* the runs of frames callers hold
    got           \* the frame the last allocation returned; 0 is failure

vars == <<used, free, last, grants, got>>

Run(first, n) == first .. first + n - 1
Grant(first, n) == [first |-> first, n |-> n]
Clear == Pages \ used

Init ==
    /\ used = Reserved
    /\ free = Cardinality(Clear)
    /\ last = 1
    /\ grants = {}
    /\ got = 0

-----------------------------------------------------------------------------
(* Allocation and release *)

Least(S) == {i \in S : \A j \in S : i <= j}

(* Bug: the search does not wrap around. *)
NextFitForward == Least({i \in Clear : i >= last})

(* The frame the two loops of pmm_alloc_frame find *)
NextFit ==
    LET above == {i \in Clear : i >= last}
        below == {i \in Clear : 1 <= i /\ i < last}
    IN  IF above # {} THEN Least(above) ELSE Least(below)

AllocFrame ==
    \/ \E i \in NextFit :
        /\ used' = used \cup {i}
        /\ free' = free - 1
        /\ last' = i + 1
        /\ grants' = grants \cup {Grant(i, 1)}
        /\ got' = i
    \/ /\ NextFit = {}
       /\ got' = 0
       /\ UNCHANGED <<used, free, last, grants>>

(* Bug: the bound is on the first frame of the run only. *)
FirstRunUnbounded(n) == Least({i \in Clear : i >= 1 /\ Pages \cap Run(i, n) \subseteq Clear})

(* The first clear run pmm_alloc_frames accepts: the strict bound keeps it *)
(* off the last frame. *)
FirstRun(n) == Least({i \in Pages : i >= 1 /\ i + n < Total /\ Run(i, n) \subseteq Clear})

AllocFrames(n) ==
    \/ \E i \in FirstRun(n) :
        /\ used' = used \cup Run(i, n)
        /\ free' = free - n
        /\ grants' = grants \cup {Grant(i, n)}
        /\ got' = i
        /\ UNCHANGED last
    \/ /\ FirstRun(n) = {}
       /\ got' = 0
       /\ UNCHANGED <<used, free, last, grants>>

(* Bug: the counter is not given the frames back. *)
FreeFramesUncounted(g) ==
    /\ used' = used \ Run(g.first, g.n)
    /\ grants' = grants \ {g}
    /\ UNCHANGED <<free, last, got>>

(* pmm_free_frames, and pmm_free_frame for one frame *)
FreeFrames(g) ==
    LET freed == Pages \cap Run(g.first, g.n) \cap used
    IN  /\ used' = used \ freed
        /\ free' = free + Cardinality(freed)
        /\ grants' = grants \ {g}
        /\ UNCHANGED <<last, got>>

Next ==
    \/ AllocFrame
    \/ \E n \in RunSizes : AllocFrames(n)
    \/ \E g \in grants : FreeFrames(g)

Spec == Init /\ [][Next]_vars

-----------------------------------------------------------------------------
(* Properties *)

TypeOK ==
    /\ used \subseteq Pages
    /\ free \in 0 .. Total
    /\ last \in Nat \ {0}
    /\ grants \subseteq [first : Pages \ {0}, n : Nat \ {0}]
    /\ got \in Pages \cup {0}

Held(g) == Run(g.first, g.n)

(* The frames that memory somebody else uses reaches into *)
Occupied ==
    {i \in Pages : \E r \in Fixed \cup {e \in MemoryMap : ~e.available} :
        r.base < (i + 1) * PageSize /\ i * PageSize < r.base + r.length}

(* Every set bit is a reserved frame or in exactly one caller's hands: no  *)
(* frame is granted twice, none that the firmware, the kernel or the boot  *)
(* information occupies is granted, and none is lost.                      *)
Accounted ==
    /\ used = Reserved \cup UNION {Held(g) : g \in grants}
    /\ \A g \in grants : Held(g) \cap (Reserved \cup Occupied) = {}
    /\ \A g, h \in grants : g # h => Held(g) \cap Held(h) = {}

(* g_free_pages, which the terminal and the settings panel show, is the    *)
(* number of clear bits.                                                   *)
CountExact == free = Cardinality(Clear)

(* pmm_alloc_frame fails only when there is no frame left: the cursor      *)
(* never hides one.                                                        *)
FailsWhenFull == [][AllocFrame /\ got' = 0 => free = 0]_vars
=============================================================================
