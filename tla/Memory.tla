------------------------------- MODULE Memory -------------------------------
(***************************************************************************)
(* The users of the frame allocator: heap_init, which maps the heap page   *)
(* by page with the page tables of kernel/vmm.c, and the back buffer of    *)
(* kernel/fb.c, which every change of resolution gives back and takes      *)
(* anew.  A table is named by the path of indices that leads to it; the    *)
(* top one, <<>>, is where the boot code pointed cr3.                      *)
(***************************************************************************)
EXTENDS PMM, Sequences

CONSTANTS
    Heaps,        \* where the heap may lie: sequences of page addresses
    Modes         \* the sizes a back buffer may have, in frames

(* A virtual page is the four indices vmm_map_page takes from its address. *)
ASSUME RegionsAssumption == Heaps \subseteq Seq([1 .. 4 -> Nat]) /\ Modes \subseteq Nat \ {0}

VARIABLES
    stage,        \* where boot is, "up" after it, "resize" within fb_resize
    heap,         \* the pages of the heap, in the order heap_init maps them
    page,         \* how many of them it has done
    pa,           \* the frame it is mapping
    depth,        \* how many tables vmm_map_page has gone down
    tables,       \* the tables below the top, by path
    leaf,         \* the present entries of the last tables: page -> frame
    back,         \* g_back_phys
    backFrames,   \* g_back_frames
    mode          \* what the back buffer of the present resolution needs

boot == <<stage, heap, page, pa, depth, tables, leaf>>
screen == <<back, backFrames, mode>>
memVars == <<vars, boot, screen>>

MemInit ==
    /\ Init
    /\ stage = "heap" /\ heap \in Heaps /\ page = 0 /\ pa = 0 /\ depth = 0
    /\ tables = << >> /\ leaf = << >>
    /\ back = 0 /\ backFrames = 0 /\ mode \in Modes

With(f, x, v) == [y \in DOMAIN f \cup {x} |-> IF y = x THEN v ELSE f[y]]

-----------------------------------------------------------------------------
(* vmm_map_page, called by heap_init, which ignores what it returns *)

Va == heap[page + 1]
Path == SubSeq(Va, 1, depth + 1)

HeapFrame ==
    /\ stage = "heap" /\ page < Len(heap)
    /\ AllocFrame
    /\ pa' = got' /\ depth' = 0
    /\ stage' = "walk"
    /\ UNCHANGED <<heap, page, tables, leaf, screen>>

NextPage == stage' = "heap" /\ page' = page + 1

(* next_table: the entry is present *)
Descend ==
    /\ stage = "walk" /\ depth < 3 /\ Path \in DOMAIN tables
    /\ depth' = depth + 1
    /\ UNCHANGED <<vars, stage, heap, page, pa, tables, leaf, screen>>

(* Bug: the entry is set before the frame is looked at. *)
AddTableUnchecked ==
    /\ stage = "walk" /\ depth < 3 /\ Path \notin DOMAIN tables
    /\ AllocFrame
    /\ tables' = With(tables, Path, got') /\ depth' = depth + 1
    /\ UNCHANGED <<stage, heap, page, pa, leaf, screen>>

(* next_table: the entry is filled, or there is no frame for it *)
AddTable ==
    /\ stage = "walk" /\ depth < 3 /\ Path \notin DOMAIN tables
    /\ AllocFrame
    /\ \/ /\ got' # 0
          /\ tables' = With(tables, Path, got') /\ depth' = depth + 1
          /\ UNCHANGED <<stage, page>>
       \/ /\ got' = 0
          /\ NextPage
          /\ UNCHANGED <<tables, depth>>
    /\ UNCHANGED <<heap, pa, leaf, screen>>

SetEntry ==
    /\ stage = "walk" /\ depth = 3
    /\ leaf' = With(leaf, Va, pa)
    /\ NextPage
    /\ UNCHANGED <<vars, heap, pa, depth, tables, screen>>

(* vmm_get_phys: 0 where nothing is mapped *)
GetPhys(v) ==
    IF (\A d \in 1 .. 3 : SubSeq(v, 1, d) \in DOMAIN tables) /\ v \in DOMAIN leaf
    THEN leaf[v] ELSE 0

-----------------------------------------------------------------------------
(* The back buffer *)

(* alloc_back_buffer *)
AllocBack ==
    /\ AllocFrames(mode)
    /\ back' = got' /\ backFrames' = mode
    /\ UNCHANGED mode

(* fb_back_init; without a back buffer kmain stops. *)
BackInit ==
    /\ stage = "heap" /\ page = Len(heap)
    /\ AllocBack
    /\ stage' = IF back' = 0 THEN "halted" ELSE "up"
    /\ UNCHANGED <<heap, page, pa, depth, tables, leaf>>

Halted == stage = "halted" /\ UNCHANGED memVars

(* Bug: the frames given back are as many as the new mode needs. *)
ResizeFreeNew(m) ==
    /\ stage = "up"
    /\ \/ /\ back # 0 /\ FreeFrames(Grant(back, m))
          /\ back' = 0 /\ backFrames' = 0
       \/ back = 0 /\ UNCHANGED <<vars, back, backFrames>>
    /\ mode' = m
    /\ stage' = "resize"
    /\ UNCHANGED <<heap, page, pa, depth, tables, leaf>>

(* fb_resize up to the allocation: the mode is set already *)
ResizeFree(m) ==
    /\ stage = "up"
    /\ \/ /\ back # 0 /\ FreeFrames(Grant(back, backFrames))
          /\ back' = 0 /\ backFrames' = 0
       \/ back = 0 /\ UNCHANGED <<vars, back, backFrames>>
    /\ mode' = m
    /\ stage' = "resize"
    /\ UNCHANGED <<heap, page, pa, depth, tables, leaf>>

ResizeAlloc ==
    /\ stage = "resize"
    /\ AllocBack
    /\ stage' = "up"
    /\ UNCHANGED <<heap, page, pa, depth, tables, leaf>>

-----------------------------------------------------------------------------

TableFrames == {tables[p] : p \in DOMAIN tables}
HeapFrames == {leaf[v] : v \in DOMAIN leaf} \ {0}
BackGrants == IF back = 0 THEN {} ELSE {Grant(back, backFrames)}
InUse == {Grant(f, 1) : f \in TableFrames \cup HeapFrames} \cup BackGrants

(* The card's buffers, and whoever else takes frames and gives them back *)
Others ==
    /\ stage = "up"
    /\ \/ AllocFrame
       \/ \E n \in RunSizes : AllocFrames(n)
       \/ \E g \in grants \ InUse : FreeFrames(g)
    /\ UNCHANGED <<boot, screen>>

MemNext ==
    \/ HeapFrame \/ Descend \/ AddTable \/ SetEntry
    \/ BackInit \/ Halted \/ ResizeAlloc \/ \E m \in Modes : ResizeFree(m)
    \/ Others

MemSpec == MemInit /\ [][MemNext]_memVars

-----------------------------------------------------------------------------
(* Properties *)

MemTypeOK ==
    /\ TypeOK
    /\ stage \in {"heap", "walk", "up", "resize", "halted"}
    /\ heap \in Heaps /\ page \in 0 .. Len(heap)
    /\ pa \in Pages /\ depth \in 0 .. 3
    /\ \A p \in DOMAIN tables : tables[p] \in Pages
    /\ \A v \in DOMAIN leaf : leaf[v] \in Pages
    /\ back \in Pages /\ backFrames \in Nat /\ mode \in Modes

(* The frames of the tables, of the heap and of the back buffer are        *)
(* granted, and none serves two of these: no release by anybody, no failed *)
(* resize and no failed mapping takes one from under its user.             *)
UsersApart ==
    /\ InUse \subseteq grants
    /\ \A p, q \in DOMAIN tables : p # q => tables[p] # tables[q]
    /\ \A v, w \in DOMAIN leaf : v # w /\ leaf[v] # 0 => leaf[v] # leaf[w]
    /\ TableFrames \cap HeapFrames = {}

(* The tables a heap needs *)
Prefixes(h) == {SubSeq(h[i], 1, d) : i \in DOMAIN h, d \in 1 .. 3}

(* Boot maps every page of the heap to a frame of its own whenever there   *)
(* is memory for the pages and the tables.  (With less, vmm_map_page fails *)
(* or a page is mapped to frame 0, and heap_init does not notice.)         *)
HeapMapped ==
    stage \in {"up", "resize"}
      /\ Cardinality(Pages \ Reserved) >= Len(heap) + Cardinality(Prefixes(heap))
    => \A i \in DOMAIN heap : GetPhys(heap[i]) # 0

(* pmm.c, vmm.c and fb.c: whoever has frames keeps them to themselves, and *)
(* the heap is mapped wherever there is memory for it and its tables.      *)
FramesMapped == MemTypeOK /\ UsersApart /\ HeapMapped
=============================================================================
