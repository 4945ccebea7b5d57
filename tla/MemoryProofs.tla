---------------------------- MODULE MemoryProofs ----------------------------
(***************************************************************************)
(* Proofs about the frame allocator, for every memory map, and about those *)
(* who use it, for every region the heap may lie in and every size of the  *)
(* back buffer.                                                            *)
(***************************************************************************)
EXTENDS Memory, FiniteSetTheorems, FunctionTheorems, SequenceTheorems,
        WellFoundedInduction, TLAPS

-----------------------------------------------------------------------------
(* The size of memory *)

LEMMA LeastExists ==
    ASSUME NEW S \in SUBSET Nat, S # {}
    PROVE  \E n \in S : \A m \in S : n <= m
<1>1. PICK n \in S : \A m \in S : ~ (<<m, n>> \in OpToRel(<, Nat))
  BY NatLessThanWellFounded, WFMin, Zenon
<1>2. ASSUME NEW m \in S PROVE n <= m
  <2>1. n \in Nat /\ m \in Nat
    OBVIOUS
  <2>2. ~ (m < n)
    BY <1>1, <2>1 DEF OpToRel
  <2> QED
    BY <2>1, <2>2
<1> QED
  BY <1>2

(* The largest of a bounded set of naturals: its least upper bound *)
LEMMA LargestExists ==
    ASSUME NEW S \in SUBSET Nat, S # {}, NEW B \in Nat, \A k \in S : k <= B
    PROVE  Largest(S) \in S /\ \A k \in S : k <= Largest(S)
<1> DEFINE U == {m \in Nat : \A k \in S : k <= m}
<1>1. PICK m \in U : \A u \in U : m <= u
  <2>1. B \in U /\ U \in SUBSET Nat
    OBVIOUS
  <2> QED
    BY <2>1, LeastExists
<1>2. m \in S
  <2> SUFFICES ASSUME m \notin S PROVE FALSE
    OBVIOUS
  <2>1. \A k \in S : k <= m - 1 /\ k \in Nat
    BY <1>1
  <2>2. m - 1 \in Nat
    <3>1. PICK k \in S : TRUE
      OBVIOUS
    <3> QED
      BY <2>1, <3>1
  <2>3. m - 1 \in U
    BY <2>1, <2>2
  <2> QED
    BY <1>1, <2>3
<1>3. \A k \in S : k <= m
  BY <1>1
<1> QED
  BY <1>2, <1>3 DEF Largest

LEMMA TotalType == Total \in Nat \ {0}
<1> USE SizesAssumption
<1> DEFINE T == Tops \cup {MinPages}
<1>1. \A e \in MemoryMap :
        (e.base + e.length) \div PageSize \in Nat /\ (e.base + e.length) \div PageSize <= AddressSpace
  <2> TAKE e \in MemoryMap
  <2>1. e.base + e.length \in Nat /\ e.base + e.length <= AddressSpace
    OBVIOUS
  <2> DEFINE a == e.base + e.length
  <2> HIDE DEF a
  <2>2. a \div PageSize \in Nat /\ a \div PageSize <= a
    BY <2>1 DEF a
  <2> QED
    BY <2>1, <2>2 DEF a
<1>2. T \in SUBSET Nat /\ T # {}
  BY <1>1 DEF Tops
<1>3. \A k \in T : k <= AddressSpace + MinPages
  BY <1>1 DEF Tops
<1>4. AddressSpace + MinPages \in Nat
  OBVIOUS
<1>5. Largest(T) \in T /\ MinPages <= Largest(T)
  <2> HIDE DEF T
  <2>1. Largest(T) \in T /\ \A k \in T : k <= Largest(T)
    BY <1>2, <1>3, <1>4, LargestExists
  <2> QED
    BY <2>1 DEF T
<1>6. Largest(T) \in Nat \ {0}
  BY <1>2, <1>5
<1> QED
  BY <1>6 DEF Total

LEMMA PagesFinite ==
    /\ Pages \subseteq Nat /\ Pages \subseteq Int
    /\ \A S \in SUBSET Pages : IsFiniteSet(S) /\ Cardinality(S) \in Nat /\ Cardinality(S) <= Total
<1>1. Pages \subseteq Nat /\ IsFiniteSet(Pages) /\ Cardinality(Pages) = Total
  BY TotalType, FS_Interval DEF Pages
<1>2. \A S \in SUBSET Pages : IsFiniteSet(S) /\ Cardinality(S) <= Total
  BY <1>1, FS_Subset
<1>3. \A S \in SUBSET Pages : Cardinality(S) \in Nat
  BY <1>2, FS_CardinalityType
<1> QED
  BY <1>1, <1>2, <1>3

(* mark_used rounds outwards: every frame a region reaches into is marked. *)
LEMMA RoundedOut ==
    ASSUME NEW P \in Nat \ {0}, NEW base \in Nat, NEW len \in Nat, NEW i \in Nat,
           base < (i + 1) * P, i * P < base + len
    PROVE  i \in base \div P .. (base + len + P - 1) \div P - 1
<1> DEFINE q == base \div P
           r == (base + len + P - 1) \div P
<1>1. q \in Nat /\ q * P <= base
  OBVIOUS
<1>2. r \in Nat /\ base + len + P - 1 < (r + 1) * P
  OBVIOUS
<1> HIDE DEF q, r
<1>3. \A x, y \in Nat : x * P < y * P => x < y
  OBVIOUS
<1>4. q * P \in Nat /\ (i + 1) * P \in Nat /\ i * P \in Nat /\ (r + 1) * P \in Nat
  BY <1>1, <1>2
<1>5. q < i + 1
  <2>1. q * P < (i + 1) * P
    BY <1>1, <1>4
  <2> QED
    BY <2>1, <1>1, <1>3
<1>6. i + 1 < r + 1
  <2>1. (i + 1) * P = i * P + P
    OBVIOUS
  <2>2. (i + 1) * P < (r + 1) * P
    BY <2>1, <1>2, <1>4
  <2> QED
    BY <2>2, <1>2, <1>3
<1> QED
  BY <1>1, <1>2, <1>5, <1>6 DEF q, r

LEMMA ReservedFrames ==
    /\ Reserved \subseteq Pages /\ Occupied \subseteq Reserved /\ 0 \in Reserved
<1> USE SizesAssumption
<1>1. Reserved \subseteq Pages
  BY DEF Reserved
<1>2. ASSUME NEW i \in Occupied PROVE i \in Reserved
  <2>1. i \in Pages /\ i \in Nat
    BY PagesFinite DEF Occupied
  <2>2. PICK r \in Fixed \cup {e \in MemoryMap : ~e.available} :
          r.base < (i + 1) * PageSize /\ i * PageSize < r.base + r.length
    BY DEF Occupied
  <2>3. r.base \in Nat /\ r.length \in Nat
    OBVIOUS
  <2>4. i \in Marked(r)
    BY <2>1, <2>2, <2>3, RoundedOut DEF Marked
  <2> QED
    BY <2>1, <2>4 DEF Reserved
<1>3. 0 \in Reserved
  <2>1. PICK r \in Fixed : r.base = 0 /\ r.length > 0
    BY LowMemoryAssumption
  <2>2. 0 \in Marked(r)
    <3>1. r.base < (0 + 1) * PageSize /\ 0 * PageSize < r.base + r.length
      BY <2>1
    <3> QED
      BY <2>1, <3>1, RoundedOut DEF Marked
  <2> QED
    BY <2>1, <2>2, TotalType DEF Reserved, Pages
<1> QED
  BY <1>1, <1>2, <1>3

-----------------------------------------------------------------------------
(* The searches *)

LEMMA LeastFound ==
    ASSUME NEW S \in SUBSET Nat
    PROVE  Least(S) \subseteq S /\ (S # {} => Least(S) # {})
BY LeastExists DEF Least

(* The two scans of pmm_alloc_frame together see every frame but 0. *)
LEMMA NextFitComplete ==
    ASSUME TypeOK
    PROVE  /\ NextFit \subseteq Clear
           /\ NextFit = {} => Clear \subseteq {0}
<1> DEFINE above == {i \in Clear : i >= last}
           below == {i \in Clear : 1 <= i /\ i < last}
<1>1. above \in SUBSET Nat /\ below \in SUBSET Nat /\ Clear \subseteq Nat /\ last \in Nat
  BY PagesFinite DEF TypeOK, Clear
<1>2. NextFit = IF above # {} THEN Least(above) ELSE Least(below)
  BY DEF NextFit
<1>3. Clear \subseteq above \cup below \cup {0}
  BY <1>1
<1>4. /\ Least(above) \subseteq above /\ (above # {} => Least(above) # {})
      /\ Least(below) \subseteq below /\ (below # {} => Least(below) # {})
  BY <1>1, LeastFound
<1>5. above \subseteq Clear /\ below \subseteq Clear
  OBVIOUS
<1> HIDE DEF above, below
<1> QED
  BY <1>2, <1>3, <1>4, <1>5

LEMMA FirstRunClear ==
    ASSUME NEW n \in Nat \ {0}, NEW i \in FirstRun(n)
    PROVE  /\ i \in Pages \ {0} /\ Run(i, n) \subseteq Clear
           /\ IsFiniteSet(Run(i, n)) /\ Cardinality(Run(i, n)) = n
<1>1. i \in Pages /\ i >= 1 /\ Run(i, n) \subseteq Clear /\ i \in Nat
  BY PagesFinite DEF FirstRun, Least
<1>2. IsFiniteSet(Run(i, n)) /\ Cardinality(Run(i, n)) = n
  BY <1>1, FS_Interval DEF Run
<1> QED
  BY <1>1, <1>2

-----------------------------------------------------------------------------
(* The invariant *)

IInv == TypeOK /\ Accounted /\ CountExact

LEMMA InitIInv == Init => IInv
<1> SUFFICES ASSUME Init PROVE IInv
  OBVIOUS
<1>1. Clear \in SUBSET Pages /\ used = Reserved /\ grants = {}
  BY DEF Clear, Init
<1>2. TypeOK
  BY <1>1, PagesFinite, ReservedFrames, TotalType DEF TypeOK, Init
<1>3. Accounted /\ CountExact
  BY <1>1 DEF Accounted, CountExact, Init
<1> QED
  BY <1>2, <1>3 DEF IInv

(* Granting a clear run keeps the books. *)
LEMMA GrantStep ==
    ASSUME IInv, NEW n \in Nat \ {0}, NEW i \in Pages \ {0},
           Run(i, n) \subseteq Clear, IsFiniteSet(Run(i, n)), Cardinality(Run(i, n)) = n,
           used' = used \cup Run(i, n),
           free' = free - n,
           last' \in Nat \ {0},
           grants' = grants \cup {Grant(i, n)},
           got' = i
    PROVE  IInv'
<1>1. /\ Clear \in SUBSET Pages /\ Clear' = Clear \ Run(i, n)
      /\ used \cap Run(i, n) = {} /\ Run(i, n) \subseteq Pages
  BY DEF Clear, IInv, TypeOK
<1>2. CountExact'
  <2>1. IsFiniteSet(Clear) /\ Cardinality(Clear) \in Nat
    BY <1>1, PagesFinite
  <2>2. /\ IsFiniteSet(Clear') /\ Cardinality(Clear') \in Nat
    BY <1>1, PagesFinite, FS_Subset DEF Clear
  <2>3. Clear = Clear' \cup Run(i, n) /\ Clear' \cap Run(i, n) = {}
    BY <1>1
  <2>4. Cardinality(Clear) = Cardinality(Clear') + n - Cardinality({})
    BY <2>2, <2>3, FS_Union
  <2> QED
    BY <2>1, <2>2, <2>4, FS_EmptySet DEF IInv, CountExact
<1>3. TypeOK'
  <2>1. used' \subseteq Pages /\ Clear' \in SUBSET Pages
    BY <1>1 DEF IInv, TypeOK
  <2>2. free' \in 0 .. Total
    BY <2>1, <1>2, PagesFinite, TotalType DEF CountExact
  <2>3. grants' \subseteq [first : Pages \ {0}, n : Nat \ {0}]
    BY DEF IInv, TypeOK, Grant
  <2> QED
    BY <2>1, <2>2, <2>3 DEF TypeOK
<1>4. Accounted'
  <2>1. Held(Grant(i, n)) = Run(i, n)
    BY DEF Held, Grant
  <2>2. \A g \in grants : Held(g) \subseteq used
    BY DEF IInv, Accounted
  <2>3. Reserved \subseteq used /\ Occupied \subseteq Reserved
    BY ReservedFrames DEF IInv, Accounted
  <2>4. used' = Reserved \cup UNION {Held(g) : g \in grants'}
    BY <2>1 DEF IInv, Accounted
  <2>5. \A g \in grants' : Held(g) \cap (Reserved \cup Occupied) = {}
    BY <1>1, <2>1, <2>3 DEF IInv, Accounted
  <2>6. \A g, h \in grants' : g # h => Held(g) \cap Held(h) = {}
    BY <1>1, <2>1, <2>2 DEF IInv, Accounted
  <2> QED
    BY <2>4, <2>5, <2>6 DEF Accounted
<1> QED
  BY <1>2, <1>3, <1>4 DEF IInv

LEMMA AllocFrameStep ==
    ASSUME IInv, AllocFrame
    PROVE  IInv'
<1>1. CASE NextFit = {} /\ got' = 0 /\ UNCHANGED <<used, free, last, grants>>
  BY <1>1 DEF IInv, TypeOK, Accounted, CountExact, Clear
<1>2. ASSUME NEW i \in NextFit,
             used' = used \cup {i}, free' = free - 1, last' = i + 1,
             grants' = grants \cup {Grant(i, 1)}, got' = i
      PROVE  IInv'
  <2>1. i \in Clear /\ Clear \subseteq Pages
    BY NextFitComplete DEF IInv, Clear
  <2>2. i \in Pages /\ i \in Nat /\ i # 0
    BY <2>1, PagesFinite, ReservedFrames DEF Clear, IInv, Accounted
  <2>3. Run(i, 1) = {i}
    BY <2>2 DEF Run
  <2>4. IsFiniteSet(Run(i, 1)) /\ Cardinality(Run(i, 1)) = 1
    BY <2>3, FS_Singleton
  <2>5. Run(i, 1) \subseteq Clear /\ used' = used \cup Run(i, 1)
    BY <2>1, <2>3, <1>2
  <2>6. last' \in Nat \ {0} /\ 1 \in Nat \ {0}
    BY <2>2, <1>2
  <2> QED
    BY <1>2, <2>2, <2>4, <2>5, <2>6, GrantStep
<1> QED
  BY <1>1, <1>2 DEF AllocFrame

LEMMA AllocFramesStep ==
    ASSUME IInv, NEW n \in Nat \ {0}, AllocFrames(n)
    PROVE  IInv'
<1>1. CASE got' = 0 /\ UNCHANGED <<used, free, last, grants>>
  BY <1>1 DEF IInv, TypeOK, Accounted, CountExact, Clear
<1>2. ASSUME NEW i \in FirstRun(n),
             used' = used \cup Run(i, n), free' = free - n,
             grants' = grants \cup {Grant(i, n)}, got' = i, UNCHANGED last
      PROVE  IInv'
  <2>1. last' \in Nat \ {0}
    BY <1>2 DEF IInv, TypeOK
  <2> QED
    BY <1>2, <2>1, FirstRunClear, GrantStep
<1> QED
  BY <1>1, <1>2 DEF AllocFrames

LEMMA FreeFramesStep ==
    ASSUME IInv, NEW g \in grants, FreeFrames(g)
    PROVE  IInv'
<1>1. Held(g) \subseteq used /\ used \subseteq Pages
  BY DEF IInv, Accounted, TypeOK
<1>2. Pages \cap Run(g.first, g.n) \cap used = Held(g)
  BY <1>1 DEF Held
<1>3. /\ used' = used \ Held(g) /\ grants' = grants \ {g}
      /\ free' = free + Cardinality(Held(g)) /\ UNCHANGED <<last, got>>
  BY <1>2 DEF FreeFrames
<1>4. Clear' = Clear \cup Held(g) /\ Clear \cap Held(g) = {} /\ Clear \subseteq Pages
  BY <1>1, <1>3 DEF Clear
<1>5. CountExact'
  <2>1. /\ IsFiniteSet(Clear) /\ Cardinality(Clear) \in Nat
        /\ IsFiniteSet(Held(g)) /\ Cardinality(Held(g)) \in Nat
    BY <1>1, <1>4, PagesFinite
  <2>2. Cardinality(Clear') = Cardinality(Clear) + Cardinality(Held(g)) - Cardinality({})
    BY <1>4, <2>1, FS_Union
  <2> QED
    BY <2>1, <2>2, <1>3, FS_EmptySet DEF IInv, CountExact
<1>6. TypeOK'
  <2>1. Clear' \in SUBSET Pages
    BY <1>1, <1>4
  <2>2. free' \in 0 .. Total
    BY <2>1, <1>5, PagesFinite, TotalType DEF CountExact
  <2> QED
    BY <2>2, <1>3 DEF IInv, TypeOK
<1>7. Accounted'
  <2>1. Held(g) \cap Reserved = {}
    BY DEF IInv, Accounted
  <2>2. \A h \in grants' : Held(h) \cap Held(g) = {}
    BY <1>3 DEF IInv, Accounted
  <2>3. used' = Reserved \cup UNION {Held(h) : h \in grants'}
    BY <1>3, <2>1, <2>2 DEF IInv, Accounted
  <2> QED
    BY <1>3, <2>3 DEF IInv, Accounted
<1> QED
  BY <1>5, <1>6, <1>7 DEF IInv

LEMMA Inductive == IInv /\ [Next]_vars => IInv'
<1> SUFFICES ASSUME IInv, [Next]_vars PROVE IInv'
  OBVIOUS
<1>1. CASE UNCHANGED vars
  BY <1>1 DEF IInv, TypeOK, Accounted, CountExact, Clear, vars
<1>2. RunSizes \subseteq Nat \ {0}
  BY SizesAssumption
<1> QED
  BY <1>1, <1>2, AllocFrameStep, AllocFramesStep, FreeFramesStep DEF Next

LEMMA Invariant == Spec => []IInv
<1>1. Init => IInv
  BY InitIInv
<1>2. IInv /\ [Next]_vars => IInv'
  BY Inductive
<1> QED
  BY <1>1, <1>2, PTL DEF Spec

(* Every bit of the bitmap, every grant and the cursor keep to the frames. *)
THEOREM FramesTyped == Spec => []TypeOK
<1>1. IInv => TypeOK
  BY DEF IInv
<1> QED
  BY <1>1, Invariant, PTL

(* For every memory map: no frame is granted twice, lost, or granted while *)
(* the firmware, the kernel or the boot information occupies it.           *)
THEOREM FramesAccounted == Spec => []Accounted
<1>1. IInv => Accounted
  BY DEF IInv
<1> QED
  BY <1>1, Invariant, PTL

(* g_free_pages always equals the number of clear bits.                    *)
THEOREM FreeCounted == Spec => []CountExact
<1>1. IInv => CountExact
  BY DEF IInv
<1> QED
  BY <1>1, Invariant, PTL

(* pmm_alloc_frame returns 0 only when g_free_pages is 0.                  *)
THEOREM AllocFrameComplete == Spec => FailsWhenFull
<1>1. IInv /\ [Next]_vars => [AllocFrame /\ got' = 0 => free = 0]_vars
  <2> SUFFICES ASSUME IInv, AllocFrame, got' = 0 PROVE free = 0
    OBVIOUS
  <2>1. NextFit \subseteq Clear /\ (NextFit = {} => Clear \subseteq {0})
    BY NextFitComplete DEF IInv
  <2>2. 0 \notin Clear
    BY ReservedFrames DEF IInv, Accounted, Clear
  <2>3. NextFit = {}
    BY <2>1, <2>2 DEF AllocFrame
  <2>4. Clear = {}
    BY <2>1, <2>2, <2>3
  <2> QED
    BY <2>4, FS_EmptySet DEF IInv, CountExact
<1> QED
  BY <1>1, Invariant, PTL DEF Spec, FailsWhenFull

-----------------------------------------------------------------------------
(* The users of the allocator *)

Booting == stage \in {"heap", "walk"}
Enough == Cardinality(Pages \ Reserved) >= Len(heap) + Cardinality(Prefixes(heap))

(* vmm_get_phys finds a frame *)
Mapped(v) ==
    (\A d \in 1 .. 3 : SubSeq(v, 1, d) \in DOMAIN tables) /\ v \in DOMAIN leaf /\ leaf[v] # 0

(* f is a frame somebody has got and that none of the users is told of *)
Fresh(f) == f \notin TableFrames \cup HeapFrames \cup {back}

(* Whoever has frames *)
Users ==
    /\ \A p \in DOMAIN tables : tables[p] \in Pages \ {0} /\ Grant(tables[p], 1) \in grants
    /\ \A v \in DOMAIN leaf :
         leaf[v] \in Pages /\ (leaf[v] # 0 => Grant(leaf[v], 1) \in grants)
    /\ \A p, q \in DOMAIN tables : p # q => tables[p] # tables[q]
    /\ \A v, w \in DOMAIN leaf : v # w /\ leaf[v] # 0 => leaf[v] # leaf[w]
    /\ \A p \in DOMAIN tables : \A v \in DOMAIN leaf : tables[p] # leaf[v]
    /\ back \in Pages /\ backFrames \in Nat
    /\ back # 0 => /\ backFrames # 0 /\ Grant(back, backFrames) \in grants
                   /\ back \notin TableFrames \cup HeapFrames

(* Where boot is *)
Stages ==
    /\ stage \in {"heap", "walk", "up", "resize", "halted"}
    /\ heap \in Heaps /\ page \in 0 .. Len(heap) /\ depth \in 0 .. 3 /\ mode \in Modes
    /\ pa \in Pages
    /\ Booting \/ stage = "resize" => back = 0
    /\ stage = "walk" => /\ page < Len(heap)
                         /\ pa # 0 => Grant(pa, 1) \in grants /\ Fresh(pa)
    /\ ~Booting => page = Len(heap)

(* No frame is taken during boot but for a page or for a table the heap    *)
(* needs, so one that is needed is there: this is what HeapMapped rests on *)
Books ==
    /\ DOMAIN tables \subseteq Prefixes(heap)
    /\ Booting => Cardinality(used \ Reserved)
                    <= page + (IF stage = "walk" THEN 1 ELSE 0) + Cardinality(DOMAIN tables)
    /\ Enough => \A i \in 1 .. page : Mapped(heap[i])
    /\ Enough /\ stage = "walk" => pa # 0 /\ \A d \in 1 .. depth : SubSeq(Va, 1, d) \in DOMAIN tables

MemInv == IInv /\ Users /\ Stages /\ Books

-----------------------------------------------------------------------------
(* What the allocator gives *)

LEMMA ZeroFrame == 0 \in Pages
BY TotalType DEF Pages

LEMMA FrameTaken ==
    ASSUME IInv, AllocFrame
    PROVE  /\ IInv' /\ grants \subseteq grants'
           /\ \/ got' = 0 /\ Clear = {} /\ UNCHANGED <<used, grants>>
              \/ /\ got' \in Pages \ {0} /\ got' \notin used /\ used' = used \cup {got'}
                 /\ Grant(got', 1) \in grants'
<1>1. NextFit \subseteq Clear /\ (NextFit = {} => Clear \subseteq {0}) /\ 0 \notin Clear
  BY NextFitComplete, ReservedFrames DEF IInv, Accounted, Clear
<1>2. IInv'
  BY AllocFrameStep
<1> QED
  BY <1>1, <1>2 DEF AllocFrame, Clear

LEMMA RunTaken ==
    ASSUME IInv, NEW n \in Nat \ {0}, AllocFrames(n)
    PROVE  /\ IInv' /\ grants \subseteq grants'
           /\ \/ got' = 0 /\ UNCHANGED <<used, grants>>
              \/ got' \in Pages \ {0} /\ got' \notin used /\ Grant(got', n) \in grants'
<1>1. IInv'
  BY AllocFramesStep
<1>2. ASSUME NEW i \in FirstRun(n) PROVE i \in Pages \ {0} /\ i \notin used
  <2>1. i \in Pages \ {0} /\ Run(i, n) \subseteq Clear
    BY FirstRunClear
  <2>2. i \in Run(i, n)
    BY <2>1, PagesFinite DEF Run
  <2> QED
    BY <2>1, <2>2 DEF Clear
<1> QED
  BY <1>1, <1>2 DEF AllocFrames

(* A frame in somebody's hands is marked. *)
LEMMA HeldUsed ==
    ASSUME IInv, NEW f \in Pages, NEW n \in Nat \ {0}, Grant(f, n) \in grants
    PROVE  f \in used
<1>1. f \in Held(Grant(f, n))
  BY PagesFinite DEF Held, Grant, Run
<1> QED
  BY <1>1 DEF IInv, Accounted

LEMMA UsersUsed ==
    ASSUME IInv, Users
    PROVE  /\ \A p \in DOMAIN tables : tables[p] \in used
           /\ \A v \in DOMAIN leaf : leaf[v] # 0 => leaf[v] \in used
           /\ back # 0 => back \in used
BY HeldUsed DEF Users

(* What the heap's pages need *)
LEMMA PrefixesFinite ==
    ASSUME NEW h \in Heaps
    PROVE  IsFiniteSet(Prefixes(h)) /\ Cardinality(Prefixes(h)) \in Nat /\ Len(h) \in Nat
<1>1. h \in Seq([1 .. 4 -> Nat])
  BY RegionsAssumption
<1>2. Len(h) \in Nat /\ DOMAIN h = 1 .. Len(h)
  BY <1>1, LenProperties
<1> DEFINE S == (DOMAIN h) \X (1 .. 3)
           F == [x \in S |-> SubSeq(h[x[1]], 1, x[2])]
<1>3. IsFiniteSet(S)
  <2>1. 1 \in Int /\ 3 \in Int /\ Len(h) \in Int
    BY <1>2
  <2>2. IsFiniteSet(1 .. Len(h)) /\ IsFiniteSet(1 .. 3)
    BY <2>1, FS_Interval
  <2> QED
    BY <1>2, <2>2, FS_Product
<1>4. F \in [S -> Prefixes(h)] /\ \A t \in Prefixes(h) : \E s \in S : F[s] = t
  <2>1. \A x \in S : F[x] \in Prefixes(h)
    BY DEF Prefixes
  <2>2. ASSUME NEW t \in Prefixes(h) PROVE \E s \in S : F[s] = t
    <3>1. PICK i \in DOMAIN h, d \in 1 .. 3 : t = SubSeq(h[i], 1, d)
      BY DEF Prefixes
    <3>2. <<i, d>> \in S /\ F[<<i, d>>] = t
      BY <3>1
    <3> QED
      BY <3>2
  <2> QED
    BY <2>1, <2>2
<1>5. F \in Surjection(S, Prefixes(h))
  BY <1>4, Fun_IsSurj
<1>6. IsFiniteSet(Prefixes(h))
  BY <1>3, <1>5, FS_Surjection
<1> QED
  BY <1>2, <1>6, FS_CardinalityType

(* With memory for the pages and their tables, boot finds a frame. *)
LEMMA NotExhausted ==
    ASSUME MemInv, Booting, Enough, page < Len(heap), Clear = {},
           stage = "walk" => Path \in Prefixes(heap) \ DOMAIN tables
    PROVE  FALSE
<1> DEFINE P == Prefixes(heap)
           D == DOMAIN tables
<1>1. IsFiniteSet(P) /\ Cardinality(P) \in Nat /\ Len(heap) \in Nat /\ page \in Nat
  BY PrefixesFinite DEF MemInv, Stages
<1>2. D \in SUBSET P
  BY DEF MemInv, Books
<1>3. /\ IsFiniteSet(D) /\ Cardinality(D) \in Nat /\ Cardinality(D) <= Cardinality(P)
      /\ Cardinality(D) = Cardinality(P) => P = D
  BY <1>1, <1>2, FS_Subset, FS_CardinalityType
<1>4. used = Pages /\ Cardinality(Pages \ Reserved) \in Nat
  BY PagesFinite DEF Clear, MemInv, IInv, TypeOK
<1>5. /\ Cardinality(Pages \ Reserved) >= Len(heap) + Cardinality(P)
      /\ Cardinality(Pages \ Reserved)
           <= page + (IF stage = "walk" THEN 1 ELSE 0) + Cardinality(D)
  BY <1>4 DEF Enough, MemInv, Books
<1>6. stage = "walk" => Cardinality(D) # Cardinality(P)
  BY <1>3
<1> HIDE DEF P, D
<1> QED
  BY <1>1, <1>3, <1>4, <1>5, <1>6

-----------------------------------------------------------------------------
(* Boot *)

LEMMA MemInitInv == MemInit => MemInv
<1> SUFFICES ASSUME MemInit PROVE MemInv
  OBVIOUS
<1>1. IInv
  BY InitIInv DEF MemInit
<1>2. DOMAIN tables = {} /\ DOMAIN leaf = {} /\ 0 \in Pages
  BY ZeroFrame DEF MemInit
<1>3. Users
  BY <1>2 DEF MemInit, Users
<1>4. Len(heap) \in Nat
  BY PrefixesFinite DEF MemInit
<1>5. Stages
  BY <1>2, <1>4 DEF MemInit, Stages, Booting
<1>6. Books
  <2>1. used \ Reserved = {} /\ Cardinality({}) = 0
    BY FS_EmptySet DEF MemInit, Init
  <2> QED
    BY <1>2, <2>1 DEF MemInit, Books, Booting
<1> QED
  BY <1>1, <1>3, <1>5, <1>6 DEF MemInv

LEMMA UsersKept ==
    ASSUME Users, grants \subseteq grants', UNCHANGED <<tables, leaf, back, backFrames>>
    PROVE  Users'
BY DEF Users, TableFrames, HeapFrames

(* The books while boot neither maps nor is done *)
LEMMA OneMoreUsed ==
    ASSUME IInv, NEW f \in Pages
    PROVE  /\ Cardinality((used \cup {f}) \ Reserved) \in Nat /\ Cardinality(used \ Reserved) \in Nat
           /\ Cardinality((used \cup {f}) \ Reserved) <= Cardinality(used \ Reserved) + 1
<1> DEFINE S == used \ Reserved
           T == (used \cup {f}) \ Reserved
<1>1. S \in SUBSET Pages /\ T \in SUBSET Pages
  BY DEF IInv, TypeOK
<1>2. IsFiniteSet(S) /\ Cardinality(S) \in Nat /\ Cardinality(T) \in Nat
  BY <1>1, PagesFinite
<1>3. T \in SUBSET (S \cup {f})
  OBVIOUS
<1>4. /\ IsFiniteSet(S \cup {f})
      /\ Cardinality(S \cup {f}) = IF f \in S THEN Cardinality(S) ELSE Cardinality(S) + 1
  BY <1>2, FS_AddElement
<1>5. Cardinality(T) <= Cardinality(S \cup {f})
  BY <1>3, <1>4, FS_Subset
<1> QED
  BY <1>2, <1>4, <1>5

LEMMA TablesCounted ==
    ASSUME MemInv
    PROVE  /\ IsFiniteSet(DOMAIN tables) /\ Cardinality(DOMAIN tables) \in Nat
           /\ page \in Nat /\ Len(heap) \in Nat
<1>1. IsFiniteSet(Prefixes(heap)) /\ DOMAIN tables \in SUBSET Prefixes(heap)
      /\ Len(heap) \in Nat
  BY PrefixesFinite DEF MemInv, Stages, Books
<1>2. IsFiniteSet(DOMAIN tables)
  BY <1>1, FS_Subset
<1> QED
  BY <1>1, <1>2, FS_CardinalityType DEF MemInv, Stages

LEMMA HeapFrameStep == ASSUME MemInv, HeapFrame PROVE MemInv'
<1>1. /\ stage = "heap" /\ page < Len(heap) /\ AllocFrame
      /\ pa' = got' /\ depth' = 0 /\ stage' = "walk"
      /\ UNCHANGED <<heap, page, tables, leaf, back, backFrames, mode>>
  BY DEF HeapFrame, screen
<1>2. /\ IInv' /\ grants \subseteq grants'
      /\ \/ got' = 0 /\ Clear = {} /\ UNCHANGED <<used, grants>>
         \/ /\ got' \in Pages \ {0} /\ got' \notin used /\ used' = used \cup {got'}
            /\ Grant(got', 1) \in grants'
  BY <1>1, FrameTaken DEF MemInv
<1>3. Users'
  BY <1>1, <1>2, UsersKept DEF MemInv
<1>4. Booting /\ back = 0
  BY <1>1 DEF Booting, MemInv, Stages
<1>5. Stages'
  <2>1. pa' \in Pages
    BY <1>1, <1>2, ZeroFrame
  <2>2. TableFrames \cup HeapFrames \subseteq used
    BY UsersUsed DEF MemInv, TableFrames, HeapFrames
  <2>3. pa' # 0 => Grant(pa', 1) \in grants' /\ Fresh(pa)'
    <3>1. TableFrames' = TableFrames /\ HeapFrames' = HeapFrames /\ back' = 0
      BY <1>1, <1>4 DEF TableFrames, HeapFrames
    <3> QED
      BY <1>1, <1>2, <2>2, <3>1 DEF Fresh
  <2> QED
    BY <1>1, <1>4, <2>1, <2>3 DEF MemInv, Stages, Booting
<1>6. Books'
  <2>1. DOMAIN tables' \subseteq Prefixes(heap')
    BY <1>1 DEF MemInv, Books
  <2>2. Cardinality(used' \ Reserved) <= page' + 1 + Cardinality(DOMAIN tables')
    <3>1. Cardinality(used \ Reserved) <= page + Cardinality(DOMAIN tables)
      BY <1>1, <1>4, TablesCounted DEF MemInv, Books
    <3>2. Cardinality(used \ Reserved) \in Nat
      BY ZeroFrame, OneMoreUsed DEF MemInv
    <3>3. \/ used' = used
          \/ used' = used \cup {got'} /\ got' \in Pages
      BY <1>2
    <3>4. Cardinality(used' \ Reserved) \in Nat
          /\ Cardinality(used' \ Reserved) <= Cardinality(used \ Reserved) + 1
      BY <3>2, <3>3, OneMoreUsed DEF MemInv
    <3> QED
      BY <1>1, <3>1, <3>2, <3>4, TablesCounted
  <2>3. Enough' => pa' # 0
    <3>1. Enough' = Enough
      BY <1>1 DEF Enough
    <3> QED
      BY <1>1, <1>2, <1>4, <3>1, NotExhausted
  <2>4. Enough' => \A i \in 1 .. page' : Mapped(heap[i])'
    BY <1>1 DEF MemInv, Books, Enough, Mapped
  <2> QED
    BY <1>1, <2>1, <2>2, <2>3, <2>4 DEF Books, Booting
<1> QED
  BY <1>2, <1>3, <1>5, <1>6 DEF MemInv

LEMMA DescendStep == ASSUME MemInv, Descend PROVE MemInv'
<1>1. /\ stage = "walk" /\ depth < 3 /\ Path \in DOMAIN tables /\ depth' = depth + 1
      /\ UNCHANGED <<used, free, last, grants, got, stage, heap, page, pa, tables, leaf,
                     back, backFrames, mode>>
  BY DEF Descend, vars, screen
<1>2. IInv'
  BY <1>1 DEF MemInv, IInv, TypeOK, Accounted, CountExact, Clear
<1>3. Users'
  BY <1>1, UsersKept DEF MemInv
<1>4. Stages'
  BY <1>1 DEF MemInv, Stages, Booting, Fresh, TableFrames, HeapFrames
<1>5. Books'
  <2>1. \A d \in 1 .. depth + 1 : d \in 1 .. depth \/ d = depth + 1
    BY DEF MemInv, Stages
  <2>2. Enough => pa # 0 /\ \A d \in 1 .. depth + 1 : SubSeq(Va, 1, d) \in DOMAIN tables
    BY <1>1, <2>1 DEF MemInv, Books, Path
  <2> QED
    BY <1>1, <2>2 DEF MemInv, Books, Booting, Enough, Mapped, Va
<1> QED
  BY <1>2, <1>3, <1>4, <1>5 DEF MemInv

(* vmm_map_page asks for tables the heap needs. *)
LEMMA PathNeeded ==
    ASSUME MemInv, stage = "walk", depth < 3
    PROVE  Path \in Prefixes(heap) /\ Va = heap[page + 1] /\ page + 1 \in DOMAIN heap
<1>1. heap \in Seq([1 .. 4 -> Nat])
  BY RegionsAssumption DEF MemInv, Stages
<1>2. page + 1 \in 1 .. Len(heap)
  BY TablesCounted DEF MemInv, Stages
<1>3. page + 1 \in DOMAIN heap
  BY <1>1, <1>2, LenProperties
<1>4. depth + 1 \in 1 .. 3
  BY DEF MemInv, Stages
<1> QED
  BY <1>3, <1>4 DEF Path, Va, Prefixes

LEMMA AddTableStep == ASSUME MemInv, AddTable PROVE MemInv'
<1>1. /\ stage = "walk" /\ depth < 3 /\ Path \notin DOMAIN tables /\ AllocFrame
      /\ UNCHANGED <<heap, pa, leaf, back, backFrames, mode>>
  BY DEF AddTable, screen
<1>2. /\ IInv' /\ grants \subseteq grants'
      /\ \/ got' = 0 /\ Clear = {} /\ UNCHANGED <<used, grants>>
         \/ /\ got' \in Pages \ {0} /\ got' \notin used /\ used' = used \cup {got'}
            /\ Grant(got', 1) \in grants'
  BY <1>1, FrameTaken DEF MemInv
<1>3. Booting /\ back = 0 /\ page < Len(heap) /\ page \in Nat /\ Len(heap) \in Nat
  BY <1>1, TablesCounted DEF Booting, MemInv, Stages
<1>4. Path \in Prefixes(heap) \ DOMAIN tables
  BY <1>1, PathNeeded
<1>5. CASE got' = 0
  <2>1. stage' = "heap" /\ page' = page + 1 /\ UNCHANGED <<tables, depth>>
    BY <1>5, <1>1 DEF AddTable, NextPage
  <2>2. UNCHANGED <<used, grants>> /\ Clear = {}
    BY <1>2, <1>5
  <2>3. Users'
    BY <2>1, <1>1, <1>2, UsersKept DEF MemInv
  <2>4. Stages'
    BY <2>1, <1>1, <1>3 DEF MemInv, Stages, Booting
  <2>5. ~Enough
    BY <2>2, <1>3, <1>4, NotExhausted
  <2>6. Books'
    <3>1. Cardinality(used \ Reserved) <= page + 1 + Cardinality(DOMAIN tables)
      BY <1>1, <1>3 DEF MemInv, Books
    <3>2. Cardinality(used \ Reserved) \in Nat /\ Cardinality(DOMAIN tables) \in Nat
      BY ZeroFrame, OneMoreUsed, TablesCounted DEF MemInv
    <3>3. ~Enough'
      BY <2>5, <1>1 DEF Enough
    <3>4. DOMAIN tables' \subseteq Prefixes(heap')
      BY <2>1, <1>1 DEF MemInv, Books
    <3>5. Cardinality(used' \ Reserved) <= page' + 0 + Cardinality(DOMAIN tables')
      BY <2>1, <2>2, <3>1, <3>2, <1>3
    <3> QED
      BY <2>1, <3>3, <3>4, <3>5 DEF Books
  <2> QED
    BY <2>3, <2>4, <2>6, <1>2 DEF MemInv
<1>6. CASE got' # 0
  <2>1. /\ UNCHANGED <<stage, page>> /\ depth' = depth + 1
        /\ DOMAIN tables' = DOMAIN tables \cup {Path} /\ tables'[Path] = got'
        /\ \A p \in DOMAIN tables : tables'[p] = tables[p]
    BY <1>6, <1>1 DEF AddTable, With
  <2>2. got' \in Pages \ {0} /\ got' \notin used /\ Grant(got', 1) \in grants' /\ used' = used \cup {got'}
    BY <1>2, <1>6
  <2>3. /\ \A p \in DOMAIN tables : tables[p] # got'
        /\ \A v \in DOMAIN leaf : leaf[v] # got'
    BY <2>2, UsersUsed DEF MemInv
  <2>4. Users'
    <3>1. \A p \in DOMAIN tables' : tables'[p] \in Pages \ {0} /\ Grant(tables'[p], 1) \in grants'
      BY <2>1, <2>2, <1>2 DEF MemInv, Users
    <3>2. \A p, q \in DOMAIN tables' : p # q => tables'[p] # tables'[q]
      BY <2>1, <2>3 DEF MemInv, Users
    <3>3. \A p \in DOMAIN tables' : \A v \in DOMAIN leaf : tables'[p] # leaf[v]
      BY <2>1, <2>3 DEF MemInv, Users
    <3> QED
      BY <3>1, <3>2, <3>3, <1>1, <1>2, <1>3 DEF MemInv, Users
  <2>5. Stages'
    <3>1. depth' \in 0 .. 3
      BY <2>1, <1>1 DEF MemInv, Stages
    <3>2. pa # 0 => Grant(pa, 1) \in grants' /\ Fresh(pa)'
      <4>1. pa # 0 => pa # got'
        BY <1>1, <2>2, HeldUsed DEF MemInv, Stages
      <4>2. pa # 0 => Fresh(pa) /\ Grant(pa, 1) \in grants
        BY <1>1 DEF MemInv, Stages
      <4>3. TableFrames' = TableFrames \cup {got'} /\ HeapFrames' = HeapFrames /\ back' = back
        BY <2>1, <1>1 DEF TableFrames, HeapFrames
      <4> QED
        BY <4>1, <4>2, <4>3, <1>1, <1>2 DEF Fresh
    <3> QED
      BY <3>1, <3>2, <2>1, <1>1, <1>3 DEF MemInv, Stages, Booting, Fresh
  <2>6. Books'
    <3>1. DOMAIN tables' \subseteq Prefixes(heap')
      BY <2>1, <1>1, <1>4 DEF MemInv, Books
    <3>2. Cardinality(used' \ Reserved) <= page' + 1 + Cardinality(DOMAIN tables')
      <4>1. Cardinality(used \ Reserved) <= page + 1 + Cardinality(DOMAIN tables)
        BY <1>1, <1>3 DEF MemInv, Books
      <4>2. /\ Cardinality(used' \ Reserved) \in Nat /\ Cardinality(used \ Reserved) \in Nat
            /\ Cardinality(used' \ Reserved) <= Cardinality(used \ Reserved) + 1
        BY <2>2, OneMoreUsed DEF MemInv
      <4>3. /\ Cardinality(DOMAIN tables') = Cardinality(DOMAIN tables) + 1
            /\ Cardinality(DOMAIN tables) \in Nat
        BY <2>1, <1>1, TablesCounted, FS_AddElement
      <4> QED
        BY <4>1, <4>2, <4>3, <2>1, <1>3
    <3>3. Enough' => \A i \in 1 .. page' : Mapped(heap[i])'
      BY <2>1, <1>1 DEF MemInv, Books, Enough, Mapped
    <3>4. Enough' => pa' # 0 /\ \A d \in 1 .. depth' : SubSeq(Va', 1, d) \in DOMAIN tables'
      <4>1. \A d \in 1 .. depth + 1 : d \in 1 .. depth \/ d = depth + 1
        BY DEF MemInv, Stages
      <4>2. Va' = Va /\ Enough' = Enough
        BY <2>1, <1>1 DEF Va, Enough
      <4> QED
        BY <4>1, <4>2, <2>1, <1>1 DEF MemInv, Books, Path
    <3> QED
      BY <2>1, <1>1, <3>1, <3>2, <3>3, <3>4 DEF Books
  <2> QED
    BY <2>4, <2>5, <2>6, <1>2 DEF MemInv
<1> QED
  BY <1>5, <1>6

LEMMA SetEntryStep == ASSUME MemInv, SetEntry PROVE MemInv'
<1>1. /\ stage = "walk" /\ depth = 3 /\ stage' = "heap" /\ page' = page + 1
      /\ UNCHANGED <<used, free, last, grants, got, heap, pa, depth, tables,
                     back, backFrames, mode>>
      /\ DOMAIN leaf' = DOMAIN leaf \cup {Va} /\ leaf'[Va] = pa
      /\ \A v \in DOMAIN leaf : v # Va => leaf'[v] = leaf[v]
  BY DEF SetEntry, NextPage, With, vars, screen
<1>2. IInv'
  BY <1>1 DEF MemInv, IInv, TypeOK, Accounted, CountExact, Clear
<1>3. Booting /\ back = 0 /\ page < Len(heap) /\ page \in Nat /\ Len(heap) \in Nat
  BY <1>1, TablesCounted DEF Booting, MemInv, Stages
<1>4. /\ pa \in Pages /\ (pa # 0 => Grant(pa, 1) \in grants)
      /\ \A p \in DOMAIN tables : tables[p] # pa
      /\ \A v \in DOMAIN leaf : leaf[v] # 0 => leaf[v] # pa
  BY <1>1 DEF MemInv, Stages, Users, Fresh, TableFrames, HeapFrames
<1>5. Users'
  <2>1. \A v \in DOMAIN leaf' :
          leaf'[v] \in Pages /\ (leaf'[v] # 0 => Grant(leaf'[v], 1) \in grants')
    BY <1>1, <1>4 DEF MemInv, Users
  <2>2. \A v, w \in DOMAIN leaf' : v # w /\ leaf'[v] # 0 => leaf'[v] # leaf'[w]
    BY <1>1, <1>4 DEF MemInv, Users
  <2>3. \A p \in DOMAIN tables : \A v \in DOMAIN leaf' : tables[p] # leaf'[v]
    BY <1>1, <1>4 DEF MemInv, Users
  <2> QED
    BY <1>1, <1>3, <2>1, <2>2, <2>3 DEF MemInv, Users
<1>6. Stages'
  BY <1>1, <1>3 DEF MemInv, Stages, Booting
<1>7. Books'
  <2>1. Cardinality(used \ Reserved) <= page + 1 + Cardinality(DOMAIN tables)
    BY <1>1, <1>3 DEF MemInv, Books
  <2>2. Cardinality(used \ Reserved) \in Nat /\ Cardinality(DOMAIN tables) \in Nat
    BY ZeroFrame, OneMoreUsed, TablesCounted DEF MemInv
  <2>3. Cardinality(used' \ Reserved) <= page' + 0 + Cardinality(DOMAIN tables')
    BY <1>1, <2>1, <2>2, <1>3
  <2>4. ASSUME Enough, NEW i \in 1 .. page + 1 PROVE Mapped(heap[i])'
    <3>1. pa # 0 /\ \A d \in 1 .. 3 : SubSeq(Va, 1, d) \in DOMAIN tables
      BY <2>4, <1>1 DEF MemInv, Books
    <3>2. CASE heap[i] = Va
      BY <3>1, <3>2, <1>1 DEF Mapped
    <3>3. CASE heap[i] # Va
      <4>1. i # page + 1 /\ i \in 1 .. page
        BY <3>3, <1>3 DEF Va
      <4>2. Mapped(heap[i])
        BY <4>1, <2>4 DEF MemInv, Books
      <4> QED
        BY <4>2, <3>3, <1>1 DEF Mapped
    <3> QED
      BY <3>2, <3>3
  <2>5. Enough' => Enough
    BY <1>1 DEF Enough
  <2>6. Enough' => \A i \in 1 .. page' : Mapped(heap[i])'
    BY <2>4, <2>5, <1>1
  <2> QED
    BY <1>1, <2>3, <2>6 DEF MemInv, Books
<1> QED
  BY <1>2, <1>5, <1>6, <1>7 DEF MemInv

-----------------------------------------------------------------------------
(* After boot *)

(* The heap is mapped when boot is done, and stays so. *)
LEMMA BooksKept ==
    ASSUME Books, ~Booting', UNCHANGED <<heap, page, tables, leaf>>
    PROVE  Books'
<1>1. Enough' = Enough /\ stage' # "walk"
  BY DEF Enough, Booting
<1>2. \A i \in 1 .. page : Mapped(heap[i])' <=> Mapped(heap[i])
  BY DEF Mapped
<1> QED
  BY <1>1, <1>2 DEF Books

(* A back buffer of frames nobody had *)
LEMMA BackTaken ==
    ASSUME MemInv, AllocBack, back = 0, UNCHANGED <<tables, leaf>>
    PROVE  IInv' /\ Users' /\ mode' = mode
<1>1. /\ mode \in Nat \ {0} /\ AllocFrames(mode)
      /\ back' = got' /\ backFrames' = mode /\ mode' = mode
  BY RegionsAssumption DEF AllocBack, MemInv, Stages
<1>2. /\ IInv' /\ grants \subseteq grants'
      /\ \/ got' = 0 /\ UNCHANGED <<used, grants>>
         \/ got' \in Pages \ {0} /\ got' \notin used /\ Grant(got', mode) \in grants'
  BY <1>1, RunTaken DEF MemInv
<1>3. TableFrames' = TableFrames /\ HeapFrames' = HeapFrames
  BY DEF TableFrames, HeapFrames
<1>4. TableFrames \cup HeapFrames \subseteq used
  BY UsersUsed DEF MemInv, TableFrames, HeapFrames
<1>5. back' \in Pages /\ backFrames' \in Nat
  BY <1>1, <1>2, ZeroFrame
<1>6. back' # 0 => /\ backFrames' # 0 /\ Grant(back', backFrames') \in grants'
                   /\ back' \notin TableFrames' \cup HeapFrames'
  BY <1>1, <1>2, <1>3, <1>4
<1> QED
  BY <1>1, <1>2, <1>5, <1>6 DEF MemInv, Users

LEMMA BackInitStep == ASSUME MemInv, BackInit PROVE MemInv'
<1>1. /\ stage = "heap" /\ page = Len(heap) /\ AllocBack /\ stage' \in {"halted", "up"}
      /\ UNCHANGED <<heap, page, pa, depth, tables, leaf>>
  BY DEF BackInit
<1>2. back = 0
  BY <1>1 DEF MemInv, Stages, Booting
<1>3. IInv' /\ Users' /\ mode' = mode
  BY <1>1, <1>2, BackTaken
<1>4. Stages'
  BY <1>1, <1>3 DEF MemInv, Stages, Booting
<1>5. Books'
  BY <1>1, BooksKept DEF MemInv, Booting
<1> QED
  BY <1>3, <1>4, <1>5 DEF MemInv

LEMMA ResizeAllocStep == ASSUME MemInv, ResizeAlloc PROVE MemInv'
<1>1. /\ stage = "resize" /\ AllocBack /\ stage' = "up" /\ back = 0
      /\ UNCHANGED <<heap, page, pa, depth, tables, leaf>>
  BY DEF ResizeAlloc, MemInv, Stages
<1>2. IInv' /\ Users' /\ mode' = mode
  BY <1>1, BackTaken
<1>3. Stages'
  BY <1>1, <1>2 DEF MemInv, Stages, Booting
<1>4. Books'
  BY <1>1, BooksKept DEF MemInv, Booting
<1> QED
  BY <1>2, <1>3, <1>4 DEF MemInv

(* A grant that no user has is given back. *)
LEMMA UsersKeptFree ==
    ASSUME Users, NEW g, grants' = grants \ {g}, UNCHANGED <<tables, leaf>>,
           \A p \in DOMAIN tables : Grant(tables[p], 1) # g,
           \A v \in DOMAIN leaf : leaf[v] # 0 => Grant(leaf[v], 1) # g,
           \/ back' = 0 /\ backFrames' = 0
           \/ UNCHANGED <<back, backFrames>> /\ (back # 0 => Grant(back, backFrames) # g)
    PROVE  Users'
<1>1. /\ \A p \in DOMAIN tables : tables[p] \in Pages \ {0} /\ Grant(tables[p], 1) \in grants'
      /\ \A v \in DOMAIN leaf :
           leaf[v] \in Pages /\ (leaf[v] # 0 => Grant(leaf[v], 1) \in grants')
  BY DEF Users
<1>2. TableFrames' = TableFrames /\ HeapFrames' = HeapFrames
  BY DEF TableFrames, HeapFrames
<1>3. /\ back' \in Pages /\ backFrames' \in Nat
      /\ back' # 0 => /\ backFrames' # 0 /\ Grant(back', backFrames') \in grants'
                      /\ back' \notin TableFrames' \cup HeapFrames'
  BY <1>2, ZeroFrame DEF Users
<1> QED
  BY <1>1, <1>3 DEF Users

LEMMA ResizeFreeStep == ASSUME MemInv, NEW m \in Modes, ResizeFree(m) PROVE MemInv'
<1>1. /\ stage = "up" /\ stage' = "resize" /\ mode' = m
      /\ UNCHANGED <<heap, page, pa, depth, tables, leaf>>
  BY DEF ResizeFree
<1>2. Stages' /\ Books'
  <2>1. back' = 0
    BY DEF ResizeFree
  <2>2. Stages'
    BY <1>1, <2>1 DEF MemInv, Stages, Booting
  <2> QED
    BY <2>2, <1>1, BooksKept DEF MemInv, Booting
<1>3. CASE back # 0 /\ FreeFrames(Grant(back, backFrames)) /\ back' = 0 /\ backFrames' = 0
  <2> DEFINE g == Grant(back, backFrames)
  <2>1. g \in grants /\ g.first = back
    BY <1>3 DEF MemInv, Users, Grant
  <2>2. IInv' /\ grants' = grants \ {g}
    BY <2>1, <1>3, FreeFramesStep DEF MemInv, FreeFrames
  <2>3. /\ \A p \in DOMAIN tables : Grant(tables[p], 1).first # back
        /\ \A v \in DOMAIN leaf : leaf[v] # 0 => Grant(leaf[v], 1).first # back
    BY <1>3 DEF MemInv, Users, TableFrames, HeapFrames, Grant
  <2>4. Users'
    <3> HIDE DEF g
    <3> QED
      BY <2>1, <2>2, <2>3, <1>1, <1>3, UsersKeptFree DEF MemInv
  <2> QED
    BY <2>2, <2>4, <1>2 DEF MemInv
<1>4. CASE back = 0 /\ UNCHANGED <<vars, back, backFrames>>
  <2>1. UNCHANGED <<used, free, last, grants, got>>
    BY <1>4 DEF vars
  <2>2. IInv'
    BY <2>1 DEF MemInv, IInv, TypeOK, Accounted, CountExact, Clear
  <2>3. Users'
    BY <2>1, <1>1, <1>4, UsersKept DEF MemInv
  <2> QED
    BY <2>2, <2>3, <1>2 DEF MemInv
<1> QED
  BY <1>3, <1>4 DEF ResizeFree

LEMMA OthersStep == ASSUME MemInv, Others PROVE MemInv'
<1>1. stage = "up" /\ UNCHANGED <<stage, heap, page, pa, depth, tables, leaf, back, backFrames, mode>>
  BY DEF Others, boot, screen
<1>2. Stages' /\ Books'
  <2>1. Stages'
    BY <1>1 DEF MemInv, Stages, Booting
  <2> QED
    BY <2>1, <1>1, BooksKept DEF MemInv, Booting
<1>3. CASE AllocFrame
  <2>1. IInv' /\ grants \subseteq grants'
    BY <1>3, FrameTaken DEF MemInv
  <2> QED
    BY <2>1, <1>1, <1>2, UsersKept DEF MemInv
<1>4. ASSUME NEW n \in RunSizes, AllocFrames(n) PROVE MemInv'
  <2>1. n \in Nat \ {0}
    BY SizesAssumption
  <2>2. IInv' /\ grants \subseteq grants'
    BY <2>1, <1>4, RunTaken DEF MemInv
  <2> QED
    BY <2>2, <1>1, <1>2, UsersKept DEF MemInv
<1>5. ASSUME NEW g \in grants \ InUse, FreeFrames(g) PROVE MemInv'
  <2>1. IInv' /\ grants' = grants \ {g}
    BY <1>5, FreeFramesStep DEF MemInv, FreeFrames
  <2>2. /\ \A p \in DOMAIN tables : Grant(tables[p], 1) # g
        /\ \A v \in DOMAIN leaf : leaf[v] # 0 => Grant(leaf[v], 1) # g
        /\ back # 0 => Grant(back, backFrames) # g
    BY DEF InUse, TableFrames, HeapFrames, BackGrants
  <2>3. Users'
    BY <2>1, <2>2, <1>1, UsersKeptFree DEF MemInv
  <2> QED
    BY <2>1, <2>3, <1>2 DEF MemInv
<1> QED
  BY <1>3, <1>4, <1>5 DEF Others

-----------------------------------------------------------------------------
(* The invariant *)

LEMMA MemInductive == MemInv /\ [MemNext]_memVars => MemInv'
<1> SUFFICES ASSUME MemInv, [MemNext]_memVars PROVE MemInv'
  OBVIOUS
<1>1. CASE UNCHANGED memVars
  <2>1. UNCHANGED <<used, free, last, grants, got>>
        /\ UNCHANGED <<stage, heap, page, pa, depth, tables, leaf, back, backFrames, mode>>
    BY <1>1 DEF memVars, vars, boot, screen
  <2>2. IInv'
    BY <2>1 DEF MemInv, IInv, TypeOK, Accounted, CountExact, Clear
  <2>3. Users'
    BY <2>1, UsersKept DEF MemInv
  <2>4. Stages'
    BY <2>1 DEF MemInv, Stages, Booting, Fresh, TableFrames, HeapFrames
  <2>5. Books'
    BY <2>1 DEF MemInv, Books, Booting, Enough, Mapped, Va
  <2> QED
    BY <2>2, <2>3, <2>4, <2>5 DEF MemInv
<1>2. CASE Halted
  BY <1>1, <1>2 DEF Halted
<1> QED
  BY <1>1, <1>2, HeapFrameStep, DescendStep, AddTableStep, SetEntryStep, BackInitStep,
     ResizeAllocStep, ResizeFreeStep, OthersStep DEF MemNext

LEMMA MemInvariant == MemSpec => []MemInv
<1>1. MemInit => MemInv
  BY MemInitInv
<1>2. MemInv /\ [MemNext]_memVars => MemInv'
  BY MemInductive
<1> QED
  BY <1>1, <1>2, PTL DEF MemSpec

LEMMA MemInvMapped == MemInv => FramesMapped
<1> SUFFICES ASSUME MemInv PROVE FramesMapped
  OBVIOUS
<1>1. MemTypeOK
  BY DEF MemInv, IInv, Users, Stages, MemTypeOK
<1>2. UsersApart
  <2>1. InUse \subseteq grants
    BY DEF MemInv, Users, InUse, TableFrames, HeapFrames, BackGrants
  <2>2. TableFrames \cap HeapFrames = {}
    BY DEF MemInv, Users, TableFrames, HeapFrames
  <2> QED
    BY <2>1, <2>2 DEF MemInv, Users, UsersApart
<1>3. HeapMapped
  <2> SUFFICES ASSUME stage \in {"up", "resize"}, Enough, NEW i \in DOMAIN heap
               PROVE  GetPhys(heap[i]) # 0
    BY DEF HeapMapped, Enough
  <2>1. heap \in Seq([1 .. 4 -> Nat])
    BY RegionsAssumption DEF MemInv, Stages
  <2>2. page = Len(heap) /\ i \in 1 .. Len(heap)
    BY <2>1, LenProperties DEF MemInv, Stages, Booting
  <2>3. Mapped(heap[i])
    BY <2>2 DEF MemInv, Books
  <2> QED
    BY <2>3 DEF Mapped, GetPhys
<1> QED
  BY <1>1, <1>2, <1>3 DEF FramesMapped

(* For every memory map, heap region and screen size: the frames of the    *)
(* page tables, of the heap's pages and of the back buffer are granted and *)
(* none has two uses, and boot maps the whole heap wherever the free       *)
(* frames suffice for its pages and the tables above them.                 *)
THEOREM FramesKept == MemSpec => []FramesMapped
<1>1. MemInv => FramesMapped
  BY MemInvMapped
<1> QED
  BY <1>1, MemInvariant, PTL

(* The frame allocator keeps its books under these users too: its grants   *)
(* and its count are right through boot and every change of resolution.    *)
THEOREM FramesAccountedInUse == MemSpec => [](Accounted /\ CountExact)
<1>1. MemInv => Accounted /\ CountExact
  BY DEF MemInv, IInv
<1> QED
  BY <1>1, MemInvariant, PTL
=============================================================================
