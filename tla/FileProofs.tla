----------------------------- MODULE FileProofs -----------------------------
(* Proofs about the table of files in memory and its users: what storing   *)
(* and removing do to every name, and, for every set of files, commands    *)
(* and scripts and any number of notepads, what commands, saves and the    *)
(* list of files make of the table.                                        *)
EXTENDS Shell, Documents, FiniteSetTheorems, SequenceTheorems, WellFoundedInduction, TLAPS

-----------------------------------------------------------------------------
(* The table *)

LEMMA LeastIs ==
    ASSUME NEW S \in SUBSET Nat, S # {}
    PROVE  Min(S) \in S /\ \A x \in S : Min(S) <= x
<1>1. PICK n \in S : \A m \in S : ~ (<<m, n>> \in OpToRel(<, Nat))
  BY NatLessThanWellFounded, WFMin, Zenon
<1>2. ASSUME NEW m \in S PROVE n <= m
  <2>1. ~ (m < n)
    BY <1>1 DEF OpToRel
  <2> QED
    BY <2>1
<1> QED
  BY <1>2 DEF Min

LEMMA MaxOfTwo ==
    ASSUME NEW a \in Int, NEW b \in Int
    PROVE  Max({a, b}) = IF a >= b THEN a ELSE b
<1> DEFINE m == IF a >= b THEN a ELSE b
<1>1. m \in {a, b} /\ \A y \in {a, b} : m >= y
  OBVIOUS
<1>2. \A x \in {a, b} : (\A y \in {a, b} : x >= y) => x = m
  OBVIOUS
<1> QED
  BY <1>1, <1>2 DEF Max

LEMMA MinOfTwo ==
    ASSUME NEW a \in Int, NEW b \in Int
    PROVE  Min({a, b}) = IF a <= b THEN a ELSE b
<1> DEFINE m == IF a <= b THEN a ELSE b
<1>1. m \in {a, b} /\ \A y \in {a, b} : m <= y
  OBVIOUS
<1>2. \A x \in {a, b} : (\A y \in {a, b} : x <= y) => x = m
  OBVIOUS
<1> QED
  BY <1>1, <1>2 DEF Min

(* The files at the start, and after them slots without one *)
LEMMA FilesAtStartAre ==
    ASSUME NEW E, Files \in Seq(E), Apart(Files), Slots \in Nat, Len(Files) <= Slots
    PROVE  /\ FilesAtStart \in [1 .. Slots -> E \cup {Unused}] /\ Apart(FilesAtStart)
           /\ \A i \in 1 .. Slots : FilesAtStart[i] # Unused => FilesAtStart[i] \in E
<1> DEFINE n == Slots - Len(Files)
           U == E \cup {Unused}
           f == FilesAtStart
<1>1. Len(Files) \in Nat /\ n \in Nat /\ Slots = Len(Files) + n
  BY LenProperties
<1>2. Files \in Seq(U) /\ DOMAIN Files = 1 .. Len(Files) /\ \A i \in 1 .. Len(Files) : Files[i] \in E
  <2>1. E \subseteq U
    OBVIOUS
  <2>2. Files \in Seq(U)
    BY <2>1, SeqMonotonic, Zenon
  <2> QED
    BY <2>2, LenProperties
<1> HIDE DEF n, U
<1>3. EmptySlots(n) \in Seq(U) /\ Len(EmptySlots(n)) = n /\ \A i \in 1 .. n : EmptySlots(n)[i] = Unused
  <2>1. EmptySlots(n) \in [1 .. n -> U]
    BY DEF EmptySlots, U
  <2>2. EmptySlots(n) \in Seq(U)
    BY <1>1, <2>1, SeqDef
  <2> QED
    BY <1>1, <2>1, <2>2, LenProperties DEF EmptySlots
<1>4. /\ f \in Seq(U) /\ Len(f) = Slots
      /\ \A i \in 1 .. Slots : f[i] = IF i <= Len(Files) THEN Files[i] ELSE EmptySlots(n)[i - Len(Files)]
  BY <1>1, <1>2, <1>3, ConcatProperties DEF FilesAtStart, n
<1> HIDE DEF f
<1>5. f \in [1 .. Slots -> U]
  BY <1>1, <1>4, LenProperties
<1>6. \A i \in 1 .. Slots : f[i] # Unused => i \in DOMAIN Files /\ f[i] = Files[i]
  <2> SUFFICES ASSUME NEW i \in 1 .. Slots, f[i] # Unused PROVE i \in DOMAIN Files /\ f[i] = Files[i]
    OBVIOUS
  <2>1. f[i] = IF i <= Len(Files) THEN Files[i] ELSE EmptySlots(n)[i - Len(Files)]
    BY <1>4
  <2>2. CASE i <= Len(Files)
    <3>1. i \in 1 .. Len(Files)
      BY <1>1, <2>2
    <3> QED
      BY <1>2, <2>1, <2>2, <3>1
  <2>3. CASE ~ (i <= Len(Files))
    <3>1. i - Len(Files) \in 1 .. n
      BY <1>1, <2>3
    <3> QED
      BY <1>3, <2>1, <2>3, <3>1
  <2> QED
    BY <2>2, <2>3
<1>7. Apart(f)
  BY <1>1, <1>5, <1>6 DEF Apart
<1> QED
  BY <1>2, <1>5, <1>6, <1>7 DEF f, U

(* In a table without double names the file of a name is in one slot. *)
LEMMA SlotIs ==
    ASSUME NEW f, DOMAIN f \subseteq Nat, Apart(f), NEW n, Has(f, n)
    PROVE  \E k \in DOMAIN f :
              /\ Slot(f, n) = {k} /\ Min(Slot(f, n)) = k
              /\ f[k] # Unused /\ f[k].name = n /\ TextOf(f, n) = f[k].text
<1>1. PICK k \in DOMAIN f : f[k] # Unused /\ f[k].name = n
  BY DEF Has, Slot
<1>2. ASSUME NEW i \in Slot(f, n) PROVE i = k
  <2>1. i \in DOMAIN f /\ f[i] # Unused /\ f[i].name = n
    BY DEF Slot
  <2> QED
    BY <1>1, <2>1 DEF Apart
<1>3. Slot(f, n) = {k}
  BY <1>1, <1>2 DEF Slot
<1>4. Min(Slot(f, n)) = k
  BY <1>3, LeastIs
<1> QED
  BY <1>1, <1>3, <1>4 DEF TextOf

LEMMA TextIs ==
    ASSUME NEW f, DOMAIN f \subseteq Nat, Apart(f), NEW k \in DOMAIN f, f[k] # Unused
    PROVE  Has(f, f[k].name) /\ TextOf(f, f[k].name) = f[k].text
<1>1. k \in Slot(f, f[k].name)
  BY DEF Slot
<1>2. Has(f, f[k].name)
  BY <1>1 DEF Has
<1> QED
  BY <1>1, <1>2, SlotIs

(* The text of a name depends on the slots with that name only. *)
LEMMA TextSame ==
    ASSUME NEW f, NEW g, DOMAIN g = DOMAIN f, DOMAIN f \subseteq Nat, NEW n,
           \A i \in DOMAIN f : f[i] = g[i] \/ (i \notin Slot(f, n) /\ i \notin Slot(g, n))
    PROVE  TextOf(g, n) = TextOf(f, n) /\ Slot(g, n) = Slot(f, n)
<1>1. Slot(g, n) = Slot(f, n)
  BY DEF Slot
<1>2. CASE Slot(f, n) = {}
  BY <1>1, <1>2 DEF TextOf, Has
<1>3. CASE Slot(f, n) # {}
  <2>1. Min(Slot(f, n)) \in Slot(f, n)
    BY <1>3, LeastIs DEF Slot
  <2>2. Slot(f, n) \subseteq DOMAIN f
    BY DEF Slot
  <2>3. f[Min(Slot(f, n))] = g[Min(Slot(f, n))]
    BY <1>1, <2>1, <2>2
  <2> QED
    BY <1>1, <1>3, <2>3 DEF TextOf, Has
<1> QED
  BY <1>1, <1>2, <1>3

(* The slot fs_create finds. *)
LEMMA StoredIs ==
    ASSUME NEW f, DOMAIN f \subseteq Nat, Apart(f), NEW n, NEW t, ~Full(f, n)
    PROVE  \E k \in DOMAIN f :
              /\ WithFile(f, n, t) = [f EXCEPT ![k] = [name |-> n, text |-> t]]
              /\ \/ Has(f, n) /\ Slot(f, n) = {k}
                 \/ ~Has(f, n) /\ f[k] = Unused
<1>1. CASE Has(f, n)
  <2>1. PICK k \in DOMAIN f : Slot(f, n) = {k} /\ Min(Slot(f, n)) = k
    BY <1>1, SlotIs
  <2> QED
    BY <1>1, <2>1 DEF WithFile
<1>2. CASE ~Has(f, n)
  <2>1. Free(f) # {} /\ Free(f) \subseteq Nat
    BY <1>2 DEF Full, Free
  <2>2. Min(Free(f)) \in Free(f)
    BY <2>1, LeastIs
  <2> QED
    BY <1>2, <2>2 DEF WithFile, Free
<1> QED
  BY <1>1, <1>2

(* fs_write keeps names apart, leaves every other file as it is, and       *)
(* leaves the text under the name unless there is no room.                 *)
LEMMA StoredText ==
    ASSUME NEW f, DOMAIN f \subseteq Nat, Apart(f), NEW n, NEW t
    PROVE  LET g == WithFile(f, n, t)
           IN  /\ DOMAIN g = DOMAIN f /\ Apart(g)
               /\ \A m : m # n => TextOf(g, m) = TextOf(f, m)
               /\ ~Full(f, n) => TextOf(g, n) = t
               /\ Full(f, n) => g = f
<1> DEFINE g == WithFile(f, n, t)
           e == [name |-> n, text |-> t]
<1>1. CASE Full(f, n)
  BY <1>1 DEF WithFile
<1>2. CASE ~Full(f, n)
  <2>1. PICK k \in DOMAIN f :
           /\ g = [f EXCEPT ![k] = e]
           /\ \/ Has(f, n) /\ Slot(f, n) = {k}
              \/ ~Has(f, n) /\ f[k] = Unused
    BY <1>2, StoredIs
  <2>2. DOMAIN g = DOMAIN f /\ g[k] = e /\ \A i \in DOMAIN f \ {k} : g[i] = f[i]
    BY <2>1
  <2>3. e.name = n /\ e.text = t
    OBVIOUS
  <2> HIDE DEF g, e
  <2>4. \A i \in DOMAIN f \ {k} : i \notin Slot(f, n)
    BY <2>1 DEF Has
  <2>5. Apart(g)
    <3> SUFFICES ASSUME NEW i \in DOMAIN f, NEW j \in DOMAIN f,
                        g[i] # Unused, g[j] # Unused, g[i].name = g[j].name
                 PROVE  i = j
      BY <2>2 DEF Apart
    <3>1. CASE i # k /\ j # k
      BY <2>2, <3>1 DEF Apart
    <3>2. CASE i = k /\ j # k
      BY <2>2, <2>3, <2>4, <3>2 DEF Slot
    <3>3. CASE i # k /\ j = k
      BY <2>2, <2>3, <2>4, <3>3 DEF Slot
    <3> QED
      BY <3>1, <3>2, <3>3
  <2>6. ASSUME NEW m, m # n PROVE TextOf(g, m) = TextOf(f, m)
    <3>1. k \notin Slot(f, m) /\ k \notin Slot(g, m)
      BY <2>1, <2>2, <2>3, <2>6 DEF Slot
    <3> QED
      BY <2>2, <3>1, TextSame
  <2>7. TextOf(g, n) = t
    <3>1. CASE e # Unused
      BY <2>2, <2>3, <2>5, <3>1, TextIs
    <3>2. CASE e = Unused
      <4>1. t = Missing
        BY <2>3, <3>2 DEF Unused
      <4>2. Slot(g, n) = {}
        BY <2>2, <2>4, <3>2 DEF Slot
      <4> QED
        BY <4>1, <4>2 DEF TextOf, Has
    <3> QED
      BY <3>1, <3>2
  <2> QED
    BY <1>2, <2>2, <2>5, <2>6, <2>7 DEF g
<1> QED
  BY <1>1, <1>2

(* fs_remove keeps names apart, leaves every other file as it is, and      *)
(* leaves none under the name.                                             *)
LEMMA RemovedText ==
    ASSUME NEW f, DOMAIN f \subseteq Nat, Apart(f), NEW n
    PROVE  LET g == Removed(f, n)
           IN  /\ DOMAIN g = DOMAIN f /\ Apart(g)
               /\ \A m : m # n => TextOf(g, m) = TextOf(f, m)
               /\ TextOf(g, n) = Missing
<1> DEFINE g == Removed(f, n)
<1>1. CASE ~Has(f, n)
  BY <1>1 DEF Removed, TextOf
<1>2. CASE Has(f, n)
  <2>1. PICK k \in DOMAIN f :
           Slot(f, n) = {k} /\ Min(Slot(f, n)) = k /\ f[k] # Unused /\ f[k].name = n
    BY <1>2, SlotIs
  <2>2. DOMAIN g = DOMAIN f /\ g[k] = Unused /\ \A i \in DOMAIN f \ {k} : g[i] = f[i]
    BY <1>2, <2>1 DEF Removed
  <2> HIDE DEF g
  <2>3. Apart(g)
    BY <2>2 DEF Apart
  <2>4. ASSUME NEW m, m # n PROVE TextOf(g, m) = TextOf(f, m)
    <3>1. k \notin Slot(f, m) /\ k \notin Slot(g, m)
      BY <2>1, <2>2, <2>4 DEF Slot
    <3> QED
      BY <2>2, <3>1, TextSame
  <2>5. Slot(g, n) = {}
    BY <2>1, <2>2 DEF Slot
  <2>6. TextOf(g, n) = Missing
    BY <2>5 DEF TextOf, Has
  <2> QED
    BY <2>2, <2>3, <2>4, <2>6 DEF g
<1> QED
  BY <1>1, <1>2

-----------------------------------------------------------------------------
(* The list of the files *)

(* A set of numbers has an element of every rank. *)
LEMMA RankedElement ==
    ASSUME NEW n \in Nat, NEW S \in SUBSET (1 .. n), NEW k \in 1 .. Cardinality(S)
    PROVE  \E i \in S : Cardinality({j \in S : j <= i}) = k
<1> DEFINE Low(i) == {j \in S : j <= i}
<1>1. /\ \A i : Low(i) \subseteq S
      /\ Low(n) = S /\ Low(0) = {}
      /\ \A i \in Nat \ {0} : i \notin S => Low(i) = Low(i - 1)
      /\ \A i \in Nat \ {0} : i \in S => Low(i) = Low(i - 1) \cup {i} /\ i \notin Low(i - 1)
  <2>1. \A j \in S : j \in Nat /\ 1 <= j /\ j <= n
    OBVIOUS
  <2>2. \A i : Low(i) \subseteq S
    OBVIOUS
  <2>3. Low(n) = S
    BY <2>1
  <2>4. Low(0) = {}
    <3>1. \A j \in S : ~ (j <= 0)
      BY <2>1
    <3> QED
      BY <3>1, Zenon
  <2>5. ASSUME NEW i \in Nat \ {0}
        PROVE  /\ \A j \in S \ {i} : j <= i <=> j <= i - 1
               /\ ~ (i <= i - 1)
    BY <2>1
  <2>6. \A i \in Nat \ {0} : i \notin S => Low(i) = Low(i - 1)
    BY <2>5, Zenon
  <2>7. ASSUME NEW i \in Nat \ {0}, i \in S
        PROVE  Low(i) = Low(i - 1) \cup {i} /\ i \notin Low(i - 1)
    <3>1. i <= i
      OBVIOUS
    <3>2. \A j : j \in Low(i) <=> j \in Low(i - 1) \/ j = i
      BY <2>5, <2>7, <3>1
    <3>3. i \notin Low(i - 1)
      BY <2>5, Zenon
    <3> HIDE DEF Low
    <3> QED
      BY <3>2, <3>3
  <2> QED
    BY <2>2, <2>3, <2>4, <2>6, <2>7
<1>2. IsFiniteSet(S)
  <2>1. IsFiniteSet(1 .. n)
    BY FS_Interval
  <2> QED
    BY <2>1, FS_Subset
<1>3. Cardinality(S) \in Nat /\ k \in Nat /\ 1 <= k /\ k <= Cardinality(S)
  BY <1>2, FS_CardinalityType
<1> DEFINE C(i) == Cardinality(Low(i))
<1> HIDE DEF Low
<1>4. \A i : IsFiniteSet(Low(i)) /\ C(i) \in Nat
  BY <1>1, <1>2, FS_Subset, FS_CardinalityType
<1>5. C(n) = Cardinality(S) /\ C(0) = 0
  BY <1>1, FS_EmptySet
<1>6. \A i \in Nat \ {0} : C(i) = IF i \in S THEN C(i - 1) + 1 ELSE C(i - 1)
  <2> SUFFICES ASSUME NEW i \in Nat \ {0}
               PROVE  C(i) = IF i \in S THEN C(i - 1) + 1 ELSE C(i - 1)
    OBVIOUS
  <2>1. CASE i \notin S
    BY <1>1, <2>1
  <2>2. CASE i \in S
    <3>1. Low(i) = Low(i - 1) \cup {i} /\ i \notin Low(i - 1) /\ IsFiniteSet(Low(i - 1))
      BY <1>1, <1>4, <2>2
    <3> QED
      BY <2>2, <3>1, FS_AddElement
  <2> QED
    BY <2>1, <2>2
<1> HIDE DEF C
<1> DEFINE Ranks == {i \in Nat : C(i) >= k}
<1>7. Ranks \in SUBSET Nat /\ n \in Ranks
  BY <1>3, <1>5
<1>8. PICK i \in Ranks : \A j \in Ranks : i <= j
  <2> HIDE DEF Ranks
  <2> QED
    BY <1>7, LeastIs
<1>9. i \in Nat /\ i # 0 /\ C(i) >= k
  BY <1>3, <1>5, <1>8
<1>10. i - 1 \in Nat /\ ~ (C(i - 1) >= k)
  <2>1. i - 1 \in Nat /\ i - 1 \notin Ranks
    <3> HIDE DEF Ranks
    <3> QED
      BY <1>8, <1>9
  <2> QED
    BY <2>1
<1>11. C(i - 1) \in Nat /\ C(i) = IF i \in S THEN C(i - 1) + 1 ELSE C(i - 1)
  BY <1>4, <1>6, <1>9 DEF C
<1>12. i \in S /\ C(i) = k
  BY <1>3, <1>9, <1>10, <1>11
<1> QED
  BY <1>12 DEF C, Low

(* fs_list gives every name once. *)
LEMMA ListedIs ==
    ASSUME NEW n \in Nat, NEW f, DOMAIN f = 1 .. n, Apart(f),
           NEW N, \A i \in DOMAIN f : f[i] # Unused => f[i].name \in N
    PROVE  Listed(f) \in Seq(N) /\ IsInjective(Listed(f))
<1> DEFINE used == DOMAIN f \ Free(f)
           Rank(i) == Cardinality({j \in used : j <= i})
           c == Cardinality(used)
<1>1. used \in SUBSET (1 .. n)
  OBVIOUS
<1>2. c \in Nat
  <2>1. IsFiniteSet(1 .. n)
    BY FS_Interval
  <2> HIDE DEF used
  <2>2. IsFiniteSet(used)
    BY <1>1, <2>1, FS_Subset
  <2> QED
    BY <2>2, FS_CardinalityType
<1>3. \A i \in used : i \in DOMAIN f /\ f[i] # Unused /\ f[i].name \in N
  BY DEF Free
<1>4. Listed(f) = [k \in 1 .. c |-> f[Nth(used, k)].name]
  BY DEF Listed
<1> HIDE DEF used
<1>5. \A k \in 1 .. c : Nth(used, k) \in used /\ Rank(Nth(used, k)) = k
  <2> SUFFICES ASSUME NEW k \in 1 .. c PROVE \E i \in used : Rank(i) = k
    BY DEF Nth
  <2> QED
    BY <1>1, RankedElement
<1> HIDE DEF Rank, c
<1>6. Listed(f) \in [1 .. c -> N]
  BY <1>5, <1>3, <1>4
<1>7. Listed(f) \in Seq(N)
  BY <1>2, <1>6, SeqDef
<1>8. ASSUME NEW k \in 1 .. c, NEW l \in 1 .. c, Listed(f)[k] = Listed(f)[l] PROVE k = l
  <2>1. f[Nth(used, k)].name = f[Nth(used, l)].name
    BY <1>4, <1>8
  <2>2. Nth(used, k) = Nth(used, l)
    BY <1>5, <1>3, <2>1 DEF Apart
  <2> QED
    BY <1>5, <2>2
<1> QED
  BY <1>4, <1>7, <1>8 DEF IsInjective

-----------------------------------------------------------------------------
(* The terminal *)

(* What a command may make of the files. *)
LEMMA ResultIs ==
    ASSUME NEW w
    PROVE  LET op == w[1]  a == w[2]  b == w[3]
               copied == WithFile(fs, b, TextOf(fs, a))
           IN  \/ Result(w).fs = fs
               \/ op = "touch" /\ Result(w).fs = WithFile(fs, a, NoText)
               \/ op = "write" /\ Result(w).fs = WithFile(fs, a, b)
               \/ op = "rm" /\ Result(w).fs = Removed(fs, a)
               \/ op = "cp" /\ ~Full(fs, b) /\ Result(w).fs = copied
               \/ op = "mv" /\ Has(fs, a) /\ ~Full(fs, b) /\ Result(w).fs = Removed(copied, a)
BY DEF Result, Answer

(* Every command leaves names apart and does to the files what it says.    *)
LEMMA CommandDoes ==
    ASSUME DOMAIN fs \subseteq Nat, Apart(fs), NEW w, fs' = Result(w).fs
    PROVE  /\ DOMAIN fs' = DOMAIN fs /\ Apart(fs')
           /\ fs' = fs \/ (w[1] = "mv" /\ w[2] = w[3]) \/ Meant(w)
<1> DEFINE op == w[1]
           a == w[2]
           b == w[3]
           copied == WithFile(fs, b, TextOf(fs, a))
<1>1. CASE fs' = fs
  BY <1>1
<1>2. ASSUME NEW n, NEW t, fs' = WithFile(fs, n, t),
             \/ op = "touch" /\ n = a /\ t = NoText
             \/ op = "write" /\ n = a /\ t = b
             \/ op = "cp" /\ n = b /\ t = TextOf(fs, a)
      PROVE  DOMAIN fs' = DOMAIN fs /\ Apart(fs') /\ Meant(w)
  <2>1. /\ DOMAIN fs' = DOMAIN fs /\ Apart(fs')
        /\ \A m : m # n => TextOf(fs', m) = TextOf(fs, m)
        /\ TextOf(fs', n) = t \/ TextOf(fs', n) = TextOf(fs, n)
    BY <1>2, StoredText
  <2> QED
    BY <1>2, <2>1 DEF Meant, Kept
<1>3. CASE op = "rm" /\ fs' = Removed(fs, a)
  <2>1. /\ DOMAIN fs' = DOMAIN fs /\ Apart(fs')
        /\ \A m : m # a => TextOf(fs', m) = TextOf(fs, m)
    BY <1>3, RemovedText
  <2> QED
    BY <1>3, <2>1 DEF Meant, Kept
<1>4. CASE op = "mv" /\ Has(fs, a) /\ ~Full(fs, b) /\ fs' = Removed(copied, a)
  <2>1. /\ DOMAIN copied = DOMAIN fs /\ Apart(copied)
        /\ \A m : m # b => TextOf(copied, m) = TextOf(fs, m)
        /\ TextOf(copied, b) = TextOf(fs, a)
    BY <1>4, StoredText
  <2> HIDE DEF copied
  <2>2. /\ DOMAIN fs' = DOMAIN fs /\ Apart(fs')
        /\ \A m : m # a => TextOf(fs', m) = TextOf(copied, m)
        /\ TextOf(fs', a) = Missing
    BY <1>4, <2>1, RemovedText
  <2>3. a # b => TextOf(fs', b) = TextOf(fs, a)
    BY <2>1, <2>2
  <2>4. \A m : m \notin {a, b} => TextOf(fs', m) = TextOf(fs, m)
    BY <2>1, <2>2
  <2>5. a # b => Meant(w)
    BY <1>4, <2>2, <2>3, <2>4 DEF Meant, Kept
  <2> QED
    BY <1>4, <2>2, <2>5
<1> QED
  BY <1>1, <1>2, <1>3, <1>4, ResultIs

-----------------------------------------------------------------------------
(* The screen *)

IsSeq(q) == \E S : q \in Seq(S)

LEMMA SeqIs ==
    ASSUME NEW n \in Nat, NEW q, q = [i \in 1 .. n |-> q[i]]
    PROVE  IsSeq(q) /\ Len(q) = n
<1> DEFINE S == {q[i] : i \in 1 .. n}
<1>1. q \in [1 .. n -> S]
  OBVIOUS
<1>2. q \in Seq(S)
  BY <1>1, SeqDef
<1>3. Len(q) = n
  BY <1>1, <1>2, LenProperties
<1> QED
  BY <1>2, <1>3 DEF IsSeq

LEMMA IsSeqLen ==
    ASSUME NEW q, IsSeq(q)
    PROVE  Len(q) \in Nat /\ DOMAIN q = 1 .. Len(q)
BY LenProperties DEF IsSeq

LEMMA SameSeq ==
    ASSUME NEW q, IsSeq(q), NEW r, IsSeq(r), Len(q) = Len(r), \A i \in 1 .. Len(q) : q[i] = r[i]
    PROVE  q = r
<1>1. q = [i \in 1 .. Len(q) |-> q[i]] /\ r = [i \in 1 .. Len(r) |-> r[i]]
  BY LenProperties DEF IsSeq
<1> QED
  BY <1>1

LEMMA IsSeqAppend ==
    ASSUME NEW q, IsSeq(q), NEW x
    PROVE  /\ IsSeq(Append(q, x)) /\ Len(Append(q, x)) = Len(q) + 1
           /\ \A i \in 1 .. Len(q) : Append(q, x)[i] = q[i]
           /\ Append(q, x)[Len(q) + 1] = x
<1>1. PICK S : q \in Seq(S)
  BY DEF IsSeq
<1>2. q \in Seq(S \cup {x})
  <2>1. S \subseteq S \cup {x}
    OBVIOUS
  <2> QED
    BY <1>1, <2>1, SeqMonotonic, Zenon
<1>3. Append(q, x) \in Seq(S \cup {x})
  BY <1>2, AppendProperties
<1> QED
  BY <1>2, <1>3, AppendProperties DEF IsSeq

LEMMA IsSeqConcat ==
    ASSUME NEW q, IsSeq(q), NEW r, IsSeq(r)
    PROVE  /\ IsSeq(q \o r) /\ Len(q \o r) = Len(q) + Len(r)
           /\ \A i \in 1 .. Len(q) + Len(r) :
                 (q \o r)[i] = IF i <= Len(q) THEN q[i] ELSE r[i - Len(q)]
<1>1. PICK S : q \in Seq(S)
  BY DEF IsSeq
<1>2. PICK T : r \in Seq(T)
  BY DEF IsSeq
<1>3. S \subseteq S \cup T /\ T \subseteq S \cup T
  OBVIOUS
<1>4. q \in Seq(S \cup T) /\ r \in Seq(S \cup T)
  BY <1>1, <1>2, <1>3, SeqMonotonic, Zenon
<1>5. q \o r \in Seq(S \cup T)
  BY <1>4, ConcatProperties
<1> QED
  BY <1>4, <1>5, ConcatProperties DEF IsSeq

(* The last k of a sequence *)
LEMMA LastOfIs ==
    ASSUME NEW q, IsSeq(q), NEW k \in Nat
    PROVE  LET d == IF Len(q) <= k THEN 0 ELSE Len(q) - k
           IN  /\ IsSeq(LastOf(q, k)) /\ Len(LastOf(q, k)) = Len(q) - d
               /\ \A i \in 1 .. Len(q) - d : LastOf(q, k)[i] = q[d + i]
<1> DEFINE d == IF Len(q) <= k THEN 0 ELSE Len(q) - k
           n == Len(q) - d
           r == LastOf(q, k)
<1>1. Len(q) \in Nat /\ d \in Nat /\ n \in Nat /\ Len(q) = d + n
  BY IsSeqLen
<1>2. r = SubSeq(q, d + 1, Len(q))
  <2>1. Len(q) - k + 1 \in Int
    BY <1>1
  <2>2. Max({1, Len(q) - k + 1}) = IF 1 >= Len(q) - k + 1 THEN 1 ELSE Len(q) - k + 1
    BY <2>1, MaxOfTwo
  <2>3. Max({1, Len(q) - k + 1}) = d + 1
    BY <1>1, <2>2
  <2> QED
    BY <2>3 DEF LastOf
<1> HIDE DEF d, n, r
<1>3. SubSeq(q, d + 1, Len(q)) = [i \in 1 .. n |-> q[d + i]]
  <2>1. SubSeq(q, d + 1, Len(q)) = [i \in 1 .. (1 + Len(q) - (d + 1)) |-> q[i + (d + 1) - 1]]
    BY <1>1
  <2>2. 1 + Len(q) - (d + 1) = n /\ \A i \in 1 .. n : i + (d + 1) - 1 = d + i
    BY <1>1
  <2> QED
    BY <2>1, <2>2
<1>4. IsSeq(r) /\ Len(r) = n /\ \A i \in 1 .. n : r[i] = q[d + i]
  <2>1. r = [i \in 1 .. n |-> q[d + i]]
    BY <1>2, <1>3
  <2>2. r = [i \in 1 .. n |-> r[i]]
    BY <2>1
  <2> QED
    BY <1>1, <2>1, <2>2, SeqIs
<1> QED
  BY <1>1, <1>4 DEF d, n, r

(* The screen s shows what was printed last of u, all the lines since the  *)
(* screen was cleared: line i is the one that many from the row, but for a *)
(* gap above which everything is one line older.                           *)
Shows(s, u) ==
    /\ IsSeq(u) /\ IsSeq(s.lines) /\ Len(s.lines) = Rows
    /\ s.row = IF Len(u) < Rows THEN Len(u) ELSE Rows
    /\ \A i \in s.row + 1 .. Rows : s.lines[i] = Blank
    /\ \E gap \in 0 .. Rows - 1 :
         /\ gap # 0 => s.row = Rows /\ s.lines[gap] = Blank
         /\ \A i \in 1 .. s.row :
              /\ i > gap => s.lines[i] = u[Len(u) - s.row + i]
              /\ i < gap => s.lines[i] = u[Len(u) - s.row + i + 1]

(* Without the top line, and with another at the end *)
LEMMA ScrolledIs ==
    ASSUME NEW q, IsSeq(q), NEW n \in Nat \ {0}, Len(q) = n, NEW x
    PROVE  LET r == Append(Tail(q), x)
           IN  /\ IsSeq(r) /\ Len(r) = n
               /\ \A i \in 1 .. n - 1 : r[i] = q[i + 1]
               /\ r[n] = x
<1>1. PICK S : q \in Seq(S)
  BY DEF IsSeq
<1>2. q # << >>
  BY <1>1, EmptySeq
<1>3. /\ Tail(q) \in Seq(S) /\ Len(Tail(q)) = n - 1
      /\ \A i \in 1 .. n - 1 : Tail(q)[i] = q[i + 1]
  BY <1>1, <1>2, HeadTailProperties
<1>4. IsSeq(Tail(q))
  BY <1>3 DEF IsSeq
<1> QED
  BY <1>3, <1>4, IsSeqAppend

(* term_push_line shows one line more. *)
LEMMA PushedShows ==
    ASSUME ShellAssumption, NEW s, NEW u, Shows(s, u), NEW w
    PROVE  Shows(Pushed(s, w), Append(u, w))
<1> DEFINE r == Pushed(s, w)
           v == Append(u, w)
<1>1. Rows \in Nat /\ Rows > 1
  BY DEF ShellAssumption
<1>2. /\ IsSeq(v) /\ Len(v) = Len(u) + 1 /\ v[Len(v)] = w
      /\ \A i \in 1 .. Len(u) : v[i] = u[i]
      /\ Len(u) \in Nat
  BY IsSeqAppend, IsSeqLen DEF Shows
<1>3. /\ IsSeq(s.lines) /\ Len(s.lines) = Rows
      /\ s.row = IF Len(u) < Rows THEN Len(u) ELSE Rows
      /\ \A i \in s.row + 1 .. Rows : s.lines[i] = Blank
  BY DEF Shows
<1>4. PICK gap \in 0 .. Rows - 1 :
         /\ gap # 0 => s.row = Rows /\ s.lines[gap] = Blank
         /\ \A i \in 1 .. s.row :
              /\ i > gap => s.lines[i] = u[Len(u) - s.row + i]
              /\ i < gap => s.lines[i] = u[Len(u) - s.row + i + 1]
  BY DEF Shows
<1> DEFINE Right(g) ==
             /\ g # 0 => r.row = Rows /\ r.lines[g] = Blank
             /\ \A i \in 1 .. r.row :
                  /\ i > g => r.lines[i] = v[Len(v) - r.row + i]
                  /\ i < g => r.lines[i] = v[Len(v) - r.row + i + 1]
<1>5. CASE s.row < Rows - 1
  <2>1. r = [lines |-> [s.lines EXCEPT ![s.row + 1] = w], row |-> s.row + 1]
    BY <1>1, <1>2, <1>3, <1>5 DEF Pushed
  <2>2. s.row = Len(u) /\ gap = 0 /\ r.row = Len(v) /\ r.row < Rows
    BY <1>1, <1>2, <1>3, <1>4, <1>5, <2>1
  <2>3. /\ DOMAIN r.lines = 1 .. Rows /\ r.lines = [i \in 1 .. Rows |-> r.lines[i]]
        /\ r.lines[s.row + 1] = w
        /\ \A i \in 1 .. Rows : i # s.row + 1 => r.lines[i] = s.lines[i]
    <3>1. DOMAIN s.lines = 1 .. Rows
      BY <1>3, IsSeqLen
    <3> QED
      BY <1>1, <1>2, <2>1, <2>2, <3>1
  <2> HIDE DEF r, v
  <2>4. IsSeq(r.lines) /\ Len(r.lines) = Rows
    BY <1>1, <2>3, SeqIs
  <2>5. \A i \in r.row + 1 .. Rows : r.lines[i] = Blank
    BY <1>1, <1>2, <1>3, <2>2, <2>3
  <2>6. ASSUME NEW i \in 1 .. r.row PROVE r.lines[i] = v[Len(v) - r.row + i]
    <3>1. Len(v) - r.row + i = i /\ i \in 1 .. Rows /\ i \in 1 .. s.row + 1 /\ Len(u) - s.row + i = i
      BY <1>1, <1>2, <2>1, <2>2
    <3>2. CASE i = s.row + 1
      BY <1>2, <2>2, <2>3, <3>1, <3>2
    <3>3. CASE i # s.row + 1
      <4>1. i \in 1 .. s.row /\ i \in 1 .. Len(u) /\ i > gap
        BY <1>2, <2>2, <3>1, <3>3
      <4> QED
        BY <1>2, <1>4, <2>3, <3>1, <3>3, <4>1
    <3> QED
      BY <3>2, <3>3
  <2>7. Right(0)
    BY <1>2, <2>2, <2>6
  <2>8. 0 \in 0 .. Rows - 1
    BY <1>1
  <2>9. \E g \in 0 .. Rows - 1 : Right(g)
    <3> HIDE DEF Right
    <3> QED
      BY <2>7, <2>8
  <2> QED
    BY <1>1, <1>2, <2>2, <2>4, <2>5, <2>9 DEF Shows, r, v
<1>6. CASE s.row >= Rows - 1
  <2>1. r = [lines |-> Append(Tail(s.lines), w), row |-> Rows]
    BY <1>6 DEF Pushed
  <2>2. /\ IsSeq(r.lines) /\ Len(r.lines) = Rows /\ r.row = Rows
        /\ \A i \in 1 .. Rows - 1 : r.lines[i] = s.lines[i + 1]
        /\ r.lines[Rows] = w
    BY <1>1, <1>3, <2>1, ScrolledIs
  <2> HIDE DEF r, v
  <2>3. Len(v) >= Rows
    BY <1>1, <1>2, <1>3, <1>6
  <2>4. \E g \in 0 .. Rows - 1 : Right(g)
    <3>1. CASE s.row = Rows - 1
      <4>1. Len(u) = Rows - 1 /\ gap = 0 /\ Len(v) = Rows
        BY <1>1, <1>2, <1>3, <1>4, <3>1
      <4>2. r.lines[Rows - 1] = Blank
        <5>1. Rows - 1 \in 1 .. Rows - 1 /\ Rows - 1 + 1 = Rows /\ Rows \in s.row + 1 .. Rows
          BY <1>1, <3>1
        <5> QED
          BY <1>3, <2>2, <5>1
      <4>3. \A i \in 1 .. Rows : i > Rows - 1 => r.lines[i] = v[Len(v) - r.row + i]
        BY <1>1, <1>2, <2>2, <4>1
      <4>4. ASSUME NEW i \in 1 .. Rows, i < Rows - 1
            PROVE  r.lines[i] = v[Len(v) - r.row + i + 1]
        <5>1. r.lines[i] = s.lines[i + 1] /\ s.lines[i + 1] = u[Len(u) - s.row + (i + 1)]
          BY <1>1, <1>4, <2>2, <3>1, <4>1, <4>4
        <5>2. Len(u) - s.row + (i + 1) = i + 1 /\ Len(v) - r.row + i + 1 = i + 1 /\ i + 1 \in 1 .. Len(u)
          BY <1>1, <2>2, <3>1, <4>1, <4>4
        <5> QED
          BY <1>2, <5>1, <5>2
      <4>5. Right(Rows - 1)
        BY <2>2, <4>2, <4>3, <4>4
      <4>6. Rows - 1 \in 0 .. Rows - 1
        BY <1>1
      <4> HIDE DEF Right
      <4> QED
        BY <4>5, <4>6
    <3>2. CASE s.row = Rows
      <4> DEFINE g == IF gap = 0 THEN 0 ELSE gap - 1
                 d == Len(u) - Rows
      <4>1. d \in Nat /\ Len(u) = d + Rows /\ Len(v) - r.row = d + 1
        <5>1. Len(u) \in Nat /\ Len(v) = Len(u) + 1 /\ r.row = Rows /\ Rows \in Nat
          BY <1>1, <1>2, <2>2
        <5>2. ~ (Len(u) < Rows)
          <6> SUFFICES ASSUME Len(u) < Rows PROVE FALSE
            OBVIOUS
          <6>1. s.row = Len(u)
            BY <1>3
          <6> QED
            BY <3>2, <5>1, <6>1
        <5> QED
          BY ONLY <5>1, <5>2
      <4>2. g \in 0 .. Rows - 1 /\ (g # 0 => r.lines[g] = Blank)
        BY <1>1, <1>4, <2>2
      <4>3. ASSUME NEW i \in 1 .. Rows, i > g PROVE r.lines[i] = v[d + 1 + i]
        <5>1. CASE i = Rows
          <6>1. d + 1 + i = Len(v)
            BY <1>1, <1>2, <4>1, <5>1
          <6> QED
            BY <1>2, <2>2, <5>1, <6>1
        <5>2. CASE i # Rows
          <6>1. i + 1 \in 1 .. Rows /\ i + 1 > gap /\ d + (i + 1) = d + 1 + i /\ d + 1 + i \in 1 .. Len(u)
                /\ i \in 1 .. Rows - 1
            BY <1>1, <4>1, <4>3, <5>2
          <6>2. s.lines[i + 1] = u[d + (i + 1)]
            BY <1>4, <3>2, <6>1
          <6> QED
            BY <1>2, <2>2, <6>1, <6>2
        <5> QED
          BY <5>1, <5>2
      <4>4. ASSUME NEW i \in 1 .. Rows, i < g PROVE r.lines[i] = v[d + 1 + i + 1]
        <5>1. i + 1 \in 1 .. Rows /\ i + 1 < gap /\ d + (i + 1) + 1 = d + 1 + i + 1
              /\ d + 1 + i + 1 \in 1 .. Len(u) /\ i \in 1 .. Rows - 1
          BY <1>1, <4>1, <4>4
        <5>2. s.lines[i + 1] = u[d + (i + 1) + 1]
          BY <1>4, <3>2, <5>1
        <5> QED
          BY <1>2, <2>2, <5>1, <5>2
      <4> HIDE DEF g, d
      <4>5. Right(g)
        BY <2>2, <4>1, <4>2, <4>3, <4>4
      <4> HIDE DEF Right
      <4> QED
        BY <4>2, <4>5
    <3>3. s.row = Rows - 1 \/ s.row = Rows
      BY <1>1, <1>2, <1>3, <1>6
    <3> HIDE DEF Right
    <3> QED
      BY <3>1, <3>2, <3>3
  <2>5. /\ r.row = IF Len(v) < Rows THEN Len(v) ELSE Rows
        /\ \A i \in r.row + 1 .. Rows : r.lines[i] = Blank
    BY <1>1, <1>2, <2>2, <2>3
  <2>6. Shows(r, v)
    BY <1>2, <2>2, <2>4, <2>5 DEF Shows
  <2> QED
    BY <2>6 DEF r, v
<1> QED
  BY <1>1, <1>2, <1>3, <1>5, <1>6

(* f is the screen after so many lines: the recursion of Printed. *)
AfterLines(f, s, out, n) == f = [k \in 0 .. n |-> IF k = 0 THEN s ELSE Pushed(f[k - 1], out[k])]

LEMMA AfterExists ==
    ASSUME NEW s, NEW out, NEW n \in Nat
    PROVE  \E f : AfterLines(f, s, out, n)
<1> DEFINE Def(f, m) == f = [k \in 0 .. m |-> IF k = 0 THEN s ELSE Pushed(f[k - 1], out[k])]
           Bad == {m \in Nat : ~ \E f : Def(f, m)}
<1>1. CASE Bad = {}
  BY <1>1 DEF AfterLines
<1>2. CASE Bad # {}
  <2>1. PICK m \in Bad : \A j \in Bad : m <= j
    <3>1. Bad \in SUBSET Nat
      OBVIOUS
    <3> HIDE DEF Bad
    <3> QED
      BY <1>2, <3>1, LeastIs
  <2>2. m # 0
    <3> DEFINE f == [k \in 0 .. 0 |-> s]
    <3>1. Def(f, 0)
      OBVIOUS
    <3>2. \E g : Def(g, 0)
      <4> HIDE DEF f, Def
      <4> QED
        BY <3>1
    <3> HIDE DEF Def
    <3> QED
      BY <2>1, <3>2
  <2>3. m \in Nat /\ m - 1 \in Nat /\ m - 1 \notin Bad
    <3>1. m \in Nat /\ m - 1 \in Nat /\ ~ (m <= m - 1)
      BY <2>1, <2>2
    <3> HIDE DEF Bad
    <3> QED
      BY <2>1, <3>1
  <2>4. PICK f : Def(f, m - 1)
    BY <2>3
  <2> DEFINE g == [k \in 0 .. m |-> IF k < m THEN f[k] ELSE Pushed(f[m - 1], out[m])]
  <2>5. \A k \in 0 .. m - 1 : f[k] = IF k = 0 THEN s ELSE Pushed(f[k - 1], out[k])
    BY <2>4
  <2>6. ASSUME NEW k \in 0 .. m
        PROVE  g[k] = IF k = 0 THEN s ELSE Pushed(g[k - 1], out[k])
    <3>1. CASE k = m
      <4>1. g[k] = Pushed(f[m - 1], out[m]) /\ g[k - 1] = f[m - 1]
        BY <2>2, <2>3, <3>1
      <4> HIDE DEF g
      <4> QED
        BY <2>2, <3>1, <4>1
    <3>2. CASE k # m
      <4>1. k \in 0 .. m - 1 /\ g[k] = f[k] /\ (k # 0 => g[k - 1] = f[k - 1])
        BY <2>3, <3>2
      <4> HIDE DEF g
      <4> QED
        BY <2>5, <4>1
    <3> QED
      BY <3>1, <3>2
  <2>7. g = [k \in 0 .. m |-> g[k]]
    OBVIOUS
  <2> HIDE DEF g
  <2>8. Def(g, m)
    BY <2>6, <2>7
  <2> QED
    BY <2>1, <2>8
<1> QED
  BY <1>1, <1>2

(* What a command prints is shown after what was. *)
LEMMA PrintedShows ==
    ASSUME ShellAssumption, NEW s, NEW u, Shows(s, u), NEW out, IsSeq(out)
    PROVE  Shows(Printed(s, out), u \o out)
<1> DEFINE n == Len(out)
           f == CHOOSE g : g = [k \in 0 .. n |-> IF k = 0 THEN s ELSE Pushed(g[k - 1], out[k])]
           v(k) == u \o SubSeq(out, 1, k)
<1>1. n \in Nat /\ IsSeq(u) /\ Len(u) \in Nat
  BY IsSeqLen DEF Shows
<1>2. AfterLines(f, s, out, n)
  <2> HIDE DEF n
  <2>1. \E g : AfterLines(g, s, out, n)
    BY <1>1, AfterExists
  <2> QED
    BY <2>1, Zenon DEF AfterLines
<1>3. Printed(s, out) = f[n]
  BY DEF Printed
<1> HIDE DEF f
<1>4. f[0] = s /\ \A k \in 1 .. n : f[k] = Pushed(f[k - 1], out[k])
  BY <1>1, <1>2 DEF AfterLines
<1>5. ASSUME NEW k \in 0 .. n
      PROVE  IsSeq(SubSeq(out, 1, k)) /\ Len(SubSeq(out, 1, k)) = k
             /\ \A i \in 1 .. k : SubSeq(out, 1, k)[i] = out[i]
  <2>1. PICK S : out \in Seq(S)
    BY DEF IsSeq
  <2>2. SubSeq(out, 1, k) \in Seq(S) /\ Len(SubSeq(out, 1, k)) = k
        /\ \A i \in 1 .. k : SubSeq(out, 1, k)[i] = out[i]
    BY <1>1, <2>1
  <2> QED
    BY <2>2 DEF IsSeq
<1>6. \A k \in 0 .. n : /\ IsSeq(v(k)) /\ Len(v(k)) = Len(u) + k
                        /\ \A i \in 1 .. Len(u) + k :
                              v(k)[i] = IF i <= Len(u) THEN u[i] ELSE out[i - Len(u)]
  <2> SUFFICES ASSUME NEW k \in 0 .. n
               PROVE  /\ IsSeq(v(k)) /\ Len(v(k)) = Len(u) + k
                      /\ \A i \in 1 .. Len(u) + k :
                            v(k)[i] = IF i <= Len(u) THEN u[i] ELSE out[i - Len(u)]
    OBVIOUS
  <2>1. /\ IsSeq(v(k)) /\ Len(v(k)) = Len(u) + k
        /\ \A i \in 1 .. Len(u) + k :
              v(k)[i] = IF i <= Len(u) THEN u[i] ELSE SubSeq(out, 1, k)[i - Len(u)]
    <3> DEFINE w == SubSeq(out, 1, k)
    <3>1. IsSeq(w) /\ Len(w) = k
      BY <1>5
    <3>2. v(k) = u \o w
      OBVIOUS
    <3> HIDE DEF w, v
    <3>3. /\ IsSeq(v(k)) /\ Len(v(k)) = Len(u) + k
          /\ \A i \in 1 .. Len(u) + k : v(k)[i] = IF i <= Len(u) THEN u[i] ELSE w[i - Len(u)]
      BY <1>1, <3>1, <3>2, IsSeqConcat
    <3> QED
      BY <3>3 DEF w
  <2>2. \A i \in 1 .. Len(u) + k : i <= Len(u) \/ i - Len(u) \in 1 .. k
    BY <1>1
  <2> HIDE DEF v
  <2> QED
    BY <1>5, <2>1, <2>2
<1> HIDE DEF v
<1>7. Shows(f[0], v(0))
  <2>1. v(0) = u
    BY <1>1, <1>6, SameSeq
  <2> QED
    BY <1>4, <2>1
<1>8. ASSUME NEW k \in 1 .. n, Shows(f[k - 1], v(k - 1)) PROVE Shows(f[k], v(k))
  <2>1. v(k) = Append(v(k - 1), out[k])
    <3>1. k - 1 \in 0 .. n /\ k \in 0 .. n /\ Len(u) + (k - 1) + 1 = Len(u) + k
      BY <1>1
    <3>2. /\ IsSeq(Append(v(k - 1), out[k])) /\ Len(Append(v(k - 1), out[k])) = Len(u) + k
          /\ \A i \in 1 .. Len(u) + (k - 1) : Append(v(k - 1), out[k])[i] = v(k - 1)[i]
          /\ Append(v(k - 1), out[k])[Len(u) + k] = out[k]
      BY <1>6, <3>1, IsSeqAppend
    <3>3. ASSUME NEW i \in 1 .. Len(u) + k PROVE v(k)[i] = Append(v(k - 1), out[k])[i]
      <4>1. CASE i = Len(u) + k
        <5>1. i - Len(u) = k /\ ~ (i <= Len(u))
          BY <1>1, <4>1
        <5> QED
          BY <1>6, <3>1, <3>2, <4>1, <5>1
      <4>2. CASE i # Len(u) + k
        <5>1. i \in 1 .. Len(u) + (k - 1)
          BY <1>1, <4>2
        <5> QED
          BY <1>6, <3>1, <3>2, <5>1
      <4> QED
        BY <4>1, <4>2
    <3> DEFINE q == Append(v(k - 1), out[k])
    <3>4. IsSeq(q) /\ Len(q) = Len(v(k)) /\ IsSeq(v(k)) /\ \A i \in 1 .. Len(v(k)) : v(k)[i] = q[i]
      BY <1>6, <3>1, <3>2, <3>3
    <3> HIDE DEF q
    <3>5. v(k) = q
      BY <3>4, SameSeq
    <3> QED
      BY <3>5 DEF q
  <2> QED
    BY <1>4, <1>8, <2>1, PushedShows
<1>9. Shows(f[n], v(n))
  <2> DEFINE Bad == {k \in 0 .. n : ~Shows(f[k], v(k))}
  <2>1. CASE Bad = {}
    BY <1>1, <2>1
  <2>2. CASE Bad # {}
    <3>1. PICK k \in Bad : \A j \in Bad : k <= j
      <4>1. Bad \in SUBSET Nat
        BY <1>1
      <4> HIDE DEF Bad
      <4> QED
        BY <2>2, <4>1, LeastIs
    <3>2. k \in 1 .. n
      BY <1>1, <1>7, <3>1
    <3>3. k - 1 \notin Bad /\ k - 1 \in 0 .. n
      <4>1. k - 1 \in 0 .. n /\ ~ (k <= k - 1)
        BY <1>1, <3>2
      <4> HIDE DEF Bad
      <4> QED
        BY <3>1, <4>1
    <3> QED
      BY <1>8, <3>1, <3>2, <3>3
  <2> QED
    BY <2>1, <2>2
<1>10. v(n) = u \o out
  <2>1. SubSeq(out, 1, n) = out
    <3> DEFINE w == SubSeq(out, 1, n)
    <3>1. IsSeq(w) /\ Len(w) = Len(out) /\ \A i \in 1 .. Len(w) : w[i] = out[i]
      BY <1>1, <1>5
    <3> HIDE DEF w, n
    <3>2. w = out
      BY <3>1, SameSeq
    <3> QED
      BY <3>2 DEF w
  <2> QED
    BY <2>1 DEF v
<1> QED
  BY <1>3, <1>9, <1>10

LEMMA ShowsLast ==
    ASSUME ShellAssumption, NEW s, NEW u, Shows(s, u)
    PROVE  Shows(s, LastOf(u, Rows)) /\ Len(LastOf(u, Rows)) <= Rows
<1> DEFINE t == LastOf(u, Rows)
           d == IF Len(u) <= Rows THEN 0 ELSE Len(u) - Rows
<1>1. Rows \in Nat /\ Len(u) \in Nat /\ IsSeq(u)
  BY IsSeqLen DEF ShellAssumption, Shows
<1>2. IsSeq(t) /\ Len(t) = Len(u) - d /\ \A i \in 1 .. Len(u) - d : t[i] = u[d + i]
  BY <1>1, LastOfIs
<1> HIDE DEF t
<1>3. Len(t) = s.row /\ Len(u) = d + s.row /\ d \in Nat /\ s.row \in Nat /\ s.row <= Rows
      /\ s.row = IF Len(t) < Rows THEN Len(t) ELSE Rows
  <2>1. s.row = IF Len(u) < Rows THEN Len(u) ELSE Rows
    BY DEF Shows
  <2>2. CASE Len(u) < Rows
    <3>1. d = 0 /\ s.row = Len(u)
      BY <1>1, <2>1, <2>2
    <3> QED
      BY <1>1, <1>2, <2>2, <3>1
  <2>3. CASE ~(Len(u) < Rows)
    <3>1. d = Len(u) - Rows /\ s.row = Rows
      BY <1>1, <2>1, <2>3
    <3> QED
      BY <1>1, <1>2, <2>3, <3>1
  <2> QED
    BY <2>2, <2>3
<1> HIDE DEF d
<1>4. PICK gap \in 0 .. Rows - 1 :
         /\ gap # 0 => s.row = Rows /\ s.lines[gap] = Blank
         /\ \A i \in 1 .. s.row :
              /\ i > gap => s.lines[i] = u[Len(u) - s.row + i]
              /\ i < gap => s.lines[i] = u[Len(u) - s.row + i + 1]
  BY DEF Shows
<1>5. ASSUME NEW i \in 1 .. s.row
      PROVE  /\ i > gap => s.lines[i] = t[Len(t) - s.row + i]
             /\ i < gap => s.lines[i] = t[Len(t) - s.row + i + 1]
  <2>1. Len(u) - s.row + i = d + i /\ Len(t) - s.row + i = i /\ i \in 1 .. Len(u) - d
    BY <1>3
  <2>2. i < gap => /\ Len(u) - s.row + i + 1 = d + (i + 1) /\ Len(t) - s.row + i + 1 = i + 1
                   /\ i + 1 \in 1 .. Len(u) - d
    <3> SUFFICES ASSUME i < gap
                 PROVE  /\ Len(u) - s.row + i + 1 = d + (i + 1) /\ Len(t) - s.row + i + 1 = i + 1
                        /\ i + 1 \in 1 .. Len(u) - d
      OBVIOUS
    <3>1. gap # 0 /\ s.row = Rows /\ gap <= Rows - 1 /\ gap \in Nat
      BY <1>1, <1>4
    <3> QED
      BY <1>1, <1>3, <3>1
  <2> QED
    BY <1>2, <1>4, <2>1, <2>2
<1>6. Shows(s, t)
  BY <1>2, <1>3, <1>4, <1>5 DEF Shows
<1> QED
  BY <1>3, <1>6 DEF t

LEMMA ShowsTail == ASSUME ShellAssumption, Shows(screen, said), Len(said) <= Rows PROVE ScreenTail
<1>1. Rows \in Nat /\ Len(said) \in Nat /\ screen.row = Len(said)
  BY IsSeqLen DEF ShellAssumption, Shows
<1>2. PICK gap \in 0 .. Rows - 1 :
         /\ gap # 0 => screen.row = Rows /\ screen.lines[gap] = Blank
         /\ \A i \in 1 .. screen.row :
              /\ i > gap => screen.lines[i] = said[Len(said) - screen.row + i]
              /\ i < gap => screen.lines[i] = said[Len(said) - screen.row + i + 1]
  BY DEF Shows
<1>3. ASSUME NEW i \in (1 .. screen.row) \ {gap}
      PROVE  screen.lines[i] = said[IF i > gap THEN i ELSE i + 1]
  <2>1. i \in 1 .. screen.row /\ Len(said) - screen.row + i = i /\ (i > gap \/ i < gap)
        /\ Len(said) - screen.row + i + 1 = i + 1 /\ ~(i > gap /\ i < gap)
    BY <1>1, <1>2
  <2> QED
    BY <1>2, <2>1
<1> QED
  BY <1>1, <1>2, <1>3 DEF Shows, ScreenTail

-----------------------------------------------------------------------------
(* What the terminal keeps *)

(* What a variable may hold: a word of the script, or nothing *)
Held == STRING \cup {""}

Frames ==
    [lines : {Lines[t] : t \in Texts}, pc : Nat \ {0}, vars : Seq([name : Held, value : Held]),
     quiet : BOOLEAN]

FilesTyped(f) ==
    /\ f = [i \in 1 .. Slots |-> f[i]] /\ Apart(f)
    /\ \A i \in 1 .. Slots : f[i] # Unused => f[i].text \in Texts

StackTyped(s) ==
    s \in Seq(Frames) /\ Len(s) <= MaxScripts /\ \A i \in DOMAIN s : Len(s[i].vars) <= MaxVars

(* The history is the commands typed, as many as it has room for; what is  *)
(* said is on the screen.                                                  *)
ShellInv ==
    /\ FilesTyped(fs) /\ StackTyped(stack)
    /\ history = typed /\ history \in Seq(Commands) /\ Len(history) <= HistMax
    /\ Shows(screen, said) /\ Len(said) <= Rows
    /\ number \in 0 .. MaxTyped

LEMMA ShellNumbers ==
    ASSUME ShellAssumption
    PROVE  /\ Slots \in Nat /\ HistMax \in Nat \ {0} /\ HeadMax \in Nat \ {0} /\ MaxScripts \in Nat \ {0}
           /\ MaxVars \in Nat /\ MaxTyped \in Nat
           /\ Rows \in Nat /\ Rows > 1
           /\ NoText \in Texts /\ Missing \notin Texts
BY DEF ShellAssumption

LEMMA FilesAre ==
    ASSUME ShellAssumption, NEW f, FilesTyped(f)
    PROVE  /\ DOMAIN f = 1 .. Slots /\ DOMAIN f \subseteq Nat /\ Apart(f)
           /\ \A n : Has(f, n) => TextOf(f, n) \in Texts
<1>1. DOMAIN f = 1 .. Slots /\ Apart(f)
  BY DEF FilesTyped
<1>2. DOMAIN f \subseteq Nat
  BY <1>1, ShellNumbers
<1>3. ASSUME NEW n, Has(f, n) PROVE TextOf(f, n) \in Texts
  <2>1. PICK k \in DOMAIN f :
           /\ Slot(f, n) = {k} /\ Min(Slot(f, n)) = k
           /\ f[k] # Unused /\ f[k].name = n /\ TextOf(f, n) = f[k].text
    <3>1. DOMAIN f \subseteq Nat /\ Apart(f) /\ Has(f, n)
      BY <1>1, <1>2, <1>3
    <3> QED
      BY <3>1, SlotIs
  <2> QED
    BY <1>1, <2>1 DEF FilesTyped
<1> QED
  BY <1>1, <1>2, <1>3

LEMMA StoredIsTyped ==
    ASSUME ShellAssumption, NEW f, FilesTyped(f), NEW n, NEW t \in Texts
    PROVE  FilesTyped(WithFile(f, n, t))
<1>1. DOMAIN f = 1 .. Slots /\ DOMAIN f \subseteq Nat /\ Apart(f)
  BY FilesAre
<1>2. Apart(WithFile(f, n, t))
  BY <1>1, StoredText
<1>3. CASE Full(f, n)
  BY <1>3 DEF WithFile
<1>4. CASE ~Full(f, n)
  <2>1. PICK k \in DOMAIN f :
           /\ WithFile(f, n, t) = [f EXCEPT ![k] = [name |-> n, text |-> t]]
           /\ \/ Has(f, n) /\ Slot(f, n) = {k}
              \/ ~Has(f, n) /\ f[k] = Unused
    BY <1>1, <1>4, StoredIs
  <2> DEFINE g == WithFile(f, n, t)
  <2>2. /\ g = [i \in 1 .. Slots |-> g[i]]
        /\ \A i \in 1 .. Slots : g[i] = f[i] \/ g[i].text = t
    <3> DEFINE e == [name |-> n, text |-> t]
    <3>1. g = [f EXCEPT ![k] = e] /\ e.text = t
      BY <2>1
    <3> HIDE DEF g, e
    <3> QED
      BY <1>1, <3>1
  <2> HIDE DEF g
  <2>3. \A i \in 1 .. Slots : g[i] # Unused => g[i].text \in Texts
    BY <2>2 DEF FilesTyped
  <2> QED
    BY <1>2, <2>2, <2>3 DEF FilesTyped, g
<1> QED
  BY <1>3, <1>4

LEMMA RemovedIsTyped ==
    ASSUME ShellAssumption, NEW f, FilesTyped(f), NEW n
    PROVE  FilesTyped(Removed(f, n))
<1>1. DOMAIN f = 1 .. Slots /\ DOMAIN f \subseteq Nat /\ Apart(f)
  BY FilesAre
<1> DEFINE g == Removed(f, n)
<1>2. Apart(g)
  BY <1>1, RemovedText
<1>3. /\ g = [i \in 1 .. Slots |-> g[i]]
      /\ \A i \in 1 .. Slots : g[i] = f[i] \/ g[i] = Unused
  BY <1>1 DEF Removed, FilesTyped
<1> HIDE DEF g
<1> QED
  BY <1>2, <1>3 DEF FilesTyped, g

LEMMA SmallSeqs == IsSeq(<< >>) /\ \A x, y : IsSeq(<<x>>) /\ IsSeq(<<x, y>>)
<1>1. IsSeq(<< >>)
  BY EmptySeq DEF IsSeq
<1>2. ASSUME NEW x, NEW y PROVE IsSeq(<<x>>) /\ IsSeq(<<x, y>>)
  <2>1. <<x>> \in Seq({x, y}) /\ <<x, y>> \in Seq({x, y})
    OBVIOUS
  <2> QED
    BY <2>1 DEF IsSeq
<1> QED
  BY <1>1, <1>2

LEMMA StartOfIs ==
    ASSUME NEW q, IsSeq(q), NEW k \in Nat, k <= Len(q)
    PROVE  IsSeq(SubSeq(q, 1, k))
<1>1. PICK S : q \in Seq(S)
  BY DEF IsSeq
<1>2. SubSeq(q, 1, k) \in Seq(S)
  BY <1>1, IsSeqLen
<1> QED
  BY <1>2 DEF IsSeq

(* What a command prints is a sequence of lines. *)
LEMMA OutIs ==
    ASSUME NEW w
    PROVE  LET op == w[1]  a == w[2]  b == w[3]  out == Result(w).out
           IN  \/ \E x : out = <<x>>
               \/ op \in {"cat", "head", "tail", "wc"} /\ Has(fs, a) /\ out = Reader(op, a)
               \/ Has(fs, b) /\ out = Grep(a, b)
               \/ out = Ls \/ out = history \/ out = << >>
BY DEF Result, Answer

LEMMA ReaderIs ==
    ASSUME ShellAssumption, FilesTyped(fs), NEW n, Has(fs, n), NEW op \in {"cat", "head", "tail", "wc"}
    PROVE  IsSeq(Reader(op, n))
<1> DEFINE text == Lines[TextOf(fs, n)]
           printed == [i \in DOMAIN text |-> Words(text[i])]
<1>1. IsSeq(text)
  <2>1. TextOf(fs, n) \in Texts
    BY FilesAre
  <2> QED
    BY <2>1 DEF ShellAssumption, IsSeq
<1>2. Len(text) \in Nat /\ DOMAIN text = 1 .. Len(text)
  BY <1>1, IsSeqLen
<1> HIDE DEF text
<1>3. IsSeq(printed) /\ Len(printed) = Len(text)
  <2>1. printed = [i \in 1 .. Len(text) |-> printed[i]]
    BY <1>2
  <2> HIDE DEF printed
  <2> QED
    BY <1>2, <2>1, SeqIs
<1>4. IsSeq(SubSeq(printed, 1, Min({Len(text), HeadMax})))
  <2>1. Min({Len(text), HeadMax}) = IF Len(text) <= HeadMax THEN Len(text) ELSE HeadMax
    BY <1>2, ShellNumbers, MinOfTwo
  <2> HIDE DEF printed
  <2>2. Min({Len(text), HeadMax}) \in Nat /\ Min({Len(text), HeadMax}) <= Len(printed)
    BY <1>2, <1>3, <2>1, ShellNumbers
  <2> QED
    BY <1>3, <2>2, StartOfIs
<1>5. IsSeq(LastOf(printed, HeadMax))
  <2> HIDE DEF printed
  <2> QED
    BY <1>3, LastOfIs, ShellNumbers
<1>6. Reader(op, n) =
        CASE op = "cat" -> IF text = <<>> THEN <<Say("empty")>> ELSE printed
          [] op = "head" -> IF text = <<>> THEN <<Blank>> ELSE SubSeq(printed, 1, Min({Len(text), HeadMax}))
          [] op = "tail" -> IF text = <<>> THEN <<Blank>> ELSE LastOf(printed, HeadMax)
          [] op = "wc" -> <<<<"wc", ToString(Len(text)), "">>>>
  BY Zenon DEF Reader, text
<1> HIDE DEF printed
<1> QED
  BY <1>3, <1>4, <1>5, <1>6, SmallSeqs

LEMMA GrepIs ==
    ASSUME ShellAssumption, FilesTyped(fs), NEW word, NEW n, Has(fs, n)
    PROVE  IsSeq(Grep(word, n))
<1> DEFINE text == Lines[TextOf(fs, n)]
           found == {i \in DOMAIN text : word \in Range(Words(text[i]))}
           c == Cardinality(found)
<1>1. IsSeq(text)
  <2>1. TextOf(fs, n) \in Texts
    BY FilesAre
  <2> QED
    BY <2>1 DEF ShellAssumption, IsSeq
<1>2. Len(text) \in Nat /\ DOMAIN text = 1 .. Len(text)
  BY <1>1, IsSeqLen
<1>3. c \in Nat
  <2>1. found \in SUBSET (1 .. Len(text))
    BY <1>2
  <2> HIDE DEF found, text
  <2>2. IsFiniteSet(found)
    <3>1. IsFiniteSet(1 .. Len(text))
      BY <1>2, FS_Interval
    <3> QED
      BY <2>1, <3>1, FS_Subset
  <2> QED
    BY <2>2, FS_CardinalityType
<1>4. Grep(word, n) = [k \in 1 .. c |-> Words(text[Nth(found, k)])]
  BY DEF Grep
<1> DEFINE g == Grep(word, n)
<1>5. g = [k \in 1 .. c |-> g[k]]
  <2> HIDE DEF text, found, c
  <2> QED
    BY <1>4
<1> HIDE DEF g, c
<1> QED
  BY <1>3, <1>5, SeqIs DEF g

LEMMA LsIs == ASSUME ShellAssumption, FilesTyped(fs) PROVE IsSeq(Ls)
<1>1. IsSeq(Listed(fs))
  <2>1. DOMAIN fs = 1 .. Slots /\ Apart(fs) /\ Slots \in Nat
    BY FilesAre, ShellNumbers
  <2> DEFINE N == {fs[i].name : i \in DOMAIN fs}
  <2>2. \A i \in DOMAIN fs : fs[i] # Unused => fs[i].name \in N
    OBVIOUS
  <2> HIDE DEF N
  <2>3. Listed(fs) \in Seq(N)
    BY <2>1, <2>2, ListedIs
  <2> QED
    BY <2>3 DEF IsSeq
<1> DEFINE l == Listed(fs)
           r == [i \in DOMAIN l |-> <<l[i], "", "">>]
<1> HIDE DEF l
<1>2. Len(l) \in Nat /\ DOMAIN l = 1 .. Len(l)
  BY <1>1, IsSeqLen DEF l
<1>3. r = [i \in 1 .. Len(l) |-> r[i]]
  BY <1>2
<1>4. Ls = IF l = << >> THEN <<Say("empty")>> ELSE r
  BY DEF Ls, l
<1> HIDE DEF r
<1> QED
  BY <1>2, <1>3, <1>4, SeqIs, SmallSeqs

(* A command leaves the files typed. *)
LEMMA ResultTyped ==
    ASSUME ShellAssumption, ShellInv, NEW w, w[1] = "write" => w[3] \in Texts
    PROVE  FilesTyped(Result(w).fs) /\ IsSeq(Result(w).out)
<1>1. FilesTyped(fs) /\ NoText \in Texts /\ DOMAIN fs \subseteq Nat
  BY FilesAre, ShellNumbers DEF ShellInv
<1>2. IsSeq(history)
  BY DEF ShellInv, IsSeq
<1>3. IsSeq(Result(w).out)
  BY <1>1, <1>2, OutIs, ReaderIs, GrepIs, LsIs, SmallSeqs
<1>4. FilesTyped(Result(w).fs)
  <2> DEFINE a == w[2]
             b == w[3]
             copied == WithFile(fs, b, TextOf(fs, a))
  <2>1. Has(fs, a) => TextOf(fs, a) \in Texts /\ FilesTyped(copied)
    BY <1>1, FilesAre, StoredIsTyped
  <2>2. /\ Result(w).fs = fs \/ Result(w).fs = WithFile(fs, a, NoText)
           \/ (w[1] = "write" /\ Result(w).fs = WithFile(fs, a, b))
           \/ Result(w).fs = Removed(fs, a)
           \/ (Has(fs, a) /\ Result(w).fs = copied)
           \/ (Has(fs, a) /\ Result(w).fs = Removed(copied, a))
    BY DEF Result, Answer
  <2>3. FilesTyped(WithFile(fs, a, NoText)) /\ FilesTyped(Removed(fs, a))
    BY <1>1, StoredIsTyped, RemovedIsTyped
  <2>4. w[1] = "write" => FilesTyped(WithFile(fs, a, b))
    BY <1>1, StoredIsTyped
  <2>5. Has(fs, a) => FilesTyped(Removed(copied, a))
    BY <2>1, RemovedIsTyped
  <2> QED
    BY <1>1, <2>1, <2>2, <2>3, <2>4, <2>5
<1> QED
  BY <1>3, <1>4

LEMMA ShellInitInv == ShellAssumption /\ ShellInit => ShellInv
<1> SUFFICES ASSUME ShellAssumption, ShellInit PROVE ShellInv
  OBVIOUS
<1>1. FilesTyped(fs)
  <2> DEFINE E == [name : STRING, text : Texts]
  <2>1. Files \in Seq(E) /\ Apart(Files) /\ Slots \in Nat /\ Len(Files) <= Slots
    BY DEF ShellAssumption
  <2> HIDE DEF E
  <2>2. /\ fs \in [1 .. Slots -> E \cup {Unused}] /\ Apart(fs)
        /\ \A i \in 1 .. Slots : fs[i] # Unused => fs[i] \in E
    BY <2>1, FilesAtStartAre DEF ShellInit
  <2>3. \A e \in E : e.text \in Texts
    BY DEF E
  <2> QED
    BY <2>2, <2>3 DEF FilesTyped
<1>2. history = typed /\ history \in Seq(Commands) /\ Len(history) <= HistMax
      /\ StackTyped(stack) /\ number \in 0 .. MaxTyped
  <2>1. << >> \in Seq(Commands) /\ << >> \in Seq(Frames) /\ Len(<< >>) = 0 /\ DOMAIN << >> = {}
    BY EmptySeq
  <2>2. StackTyped(<< >>)
    BY <2>1, ShellNumbers DEF StackTyped
  <2> QED
    BY <2>1, <2>2, ShellNumbers DEF ShellInit
<1>3. Shows(screen, said) /\ Len(said) <= Rows
  <2> DEFINE lines == [i \in 1 .. Rows |-> IF i = 1 THEN Banner ELSE Blank]
  <2>1. Rows \in Nat /\ Rows > 1
    BY ShellNumbers
  <2>2. IsSeq(lines) /\ Len(lines) = Rows
    <3>1. lines = [i \in 1 .. Rows |-> lines[i]]
      OBVIOUS
    <3> HIDE DEF lines
    <3> QED
      BY <2>1, <3>1, SeqIs
  <2>3. IsSeq(<<Banner>>) /\ Len(<<Banner>>) = 1 /\ <<Banner>>[1] = Banner
    BY SmallSeqs
  <2>4. screen = [lines |-> lines, row |-> 1] /\ said = <<Banner>>
    BY DEF ShellInit
  <2>5. lines[1] = Banner /\ \A i \in 2 .. Rows : lines[i] = Blank
    BY <2>1
  <2> HIDE DEF lines
  <2>6. screen.lines = lines /\ screen.row = 1 /\ Len(said) = 1 /\ said[1] = Banner /\ IsSeq(said)
    BY <2>3, <2>4
  <2>7. 0 \in 0 .. Rows - 1 /\ \A i \in 1 .. 1 : i > 0 /\ ~(i < 0) /\ i = 1 /\ 1 - 1 + i = 1
    BY <2>1
  <2> QED
    BY <2>1, <2>2, <2>5, <2>6, <2>7 DEF Shows
<1> QED
  BY <1>1, <1>2, <1>3 DEF ShellInv

(* Keeping the last commands by dropping the first. *)
LEMMA HistoryKeeps ==
    ASSUME ShellAssumption, ShellInv, NEW w \in Commands, Type(w)
    PROVE  history' = typed' /\ history' \in Seq(Commands) /\ Len(history') <= HistMax
<1> DEFINE s == Append(history, w)
<1>1. HistMax \in Nat \ {0} /\ history \in Seq(Commands) /\ Len(history) \in Nat
      /\ Len(history) <= HistMax
  BY LenProperties DEF ShellAssumption, ShellInv
<1>2. typed' = LastOf(s, HistMax)
  BY DEF Type, ShellInv
<1>3. history' = IF Len(history) < HistMax THEN s ELSE Append(Tail(history), w)
  BY DEF Type, Remember
<1>4. s \in Seq(Commands) /\ Len(s) = Len(history) + 1
  BY <1>1, AppendProperties
<1>5. CASE Len(history) < HistMax
  <2>1. Max({1, Len(s) - HistMax + 1}) = 1
    <3>1. Len(s) - HistMax + 1 \in Int /\ Len(s) - HistMax + 1 <= 1
      BY <1>1, <1>4, <1>5
    <3> QED
      BY <3>1, MaxOfTwo
  <2>2. typed' = SubSeq(s, 1, Len(s))
    BY <1>2, <2>1 DEF LastOf
  <2>3. SubSeq(s, 1, Len(s)) = s
    BY <1>4
  <2> QED
    BY <1>1, <1>3, <1>4, <1>5, <2>2, <2>3
<1>6. CASE Len(history) = HistMax
  <2>1. Max({1, Len(s) - HistMax + 1}) = 2
    <3>1. Len(s) - HistMax + 1 = 2
      BY <1>1, <1>4, <1>6
    <3> QED
      BY <3>1, MaxOfTwo
  <2>2. typed' = SubSeq(s, 2, Len(s))
    BY <1>2, <2>1 DEF LastOf
  <2>3. history # << >>
    BY <1>1, <1>6
  <2>4. Append(Tail(history), w) = SubSeq(s, 2, Len(s))
    BY <1>1, <1>4, <2>3
  <2>5. Append(Tail(history), w) \in Seq(Commands) /\ Len(Append(Tail(history), w)) = HistMax
    BY <1>1, <1>6, <2>3, HeadTailProperties, AppendProperties
  <2> QED
    BY <1>1, <1>3, <1>6, <2>2, <2>4, <2>5
<1> QED
  BY <1>1, <1>5, <1>6

(* Of the steps only those that execute a command touch the files.         *)
LEMMA FilesChange ==
    ASSUME ShellAssumption, [ShellNext]_shellVars
    PROVE  \/ UNCHANGED fs
           \/ fs' = Result(did').fs
BY DEF ShellNext, shellVars, Type, Step, Skip, Echo, Set, Goto, Pause, Exit, Command, Done, Directive, Execute

(* What is printed on the screen as it was, or on an empty one, is shown.  *)
LEMMA ShowKeeps ==
    ASSUME ShellAssumption, ShellInv, NEW s, NEW out, IsSeq(out), Show(s, out),
           s = screen \/ s = [lines |-> [i \in 1 .. Rows |-> Blank], row |-> 0]
    PROVE  Shows(screen', said') /\ Len(said') <= Rows
<1> DEFINE u == IF s = screen THEN said ELSE << >>
<1>1. Shows(s, u)
  <2>1. CASE s = screen
    BY <2>1 DEF ShellInv
  <2>2. CASE s # screen
    <3> DEFINE lines == [i \in 1 .. Rows |-> Blank]
    <3>1. Rows \in Nat /\ Rows > 1
      BY ShellNumbers
    <3>2. lines = [i \in 1 .. Rows |-> lines[i]] /\ \A i \in 1 .. Rows : lines[i] = Blank
      OBVIOUS
    <3>3. s = [lines |-> lines, row |-> 0] /\ u = << >>
      BY <2>2
    <3> HIDE DEF lines, u
    <3>4. IsSeq(lines) /\ Len(lines) = Rows
      BY <3>1, <3>2, SeqIs
    <3>5. s.lines = lines /\ s.row = 0 /\ IsSeq(u) /\ Len(u) = 0
      BY <3>3, SmallSeqs, EmptySeq
    <3>6. 0 \in 0 .. Rows - 1 /\ 1 .. 0 = {}
      BY <3>1
    <3> QED
      BY <3>1, <3>2, <3>4, <3>5, <3>6 DEF Shows
  <2> QED
    BY <2>1, <2>2
<1>2. screen' = Printed(s, out) /\ said' = LastOf(u \o out, Rows)
  BY DEF Show
<1> HIDE DEF u
<1>3. Shows(screen', u \o out)
  BY <1>1, <1>2, PrintedShows
<1> QED
  BY <1>2, <1>3, ShowsLast

(* script_run: the lines of a file, from the first on *)
LEMMA FrameIs ==
    ASSUME ShellAssumption, FilesTyped(fs), NEW n, Has(fs, n)
    PROVE  ScriptFrame(n) \in Frames /\ Len(ScriptFrame(n).vars) <= MaxVars
<1>1. TextOf(fs, n) \in Texts
  BY FilesAre
<1>2. << >> \in Seq([name : Held, value : Held]) /\ Len(<< >>) = 0 /\ MaxVars \in Nat
  BY EmptySeq, ShellNumbers
<1> QED
  BY <1>1, <1>2 DEF ScriptFrame, Frames

(* term_execute keeps all of it, by whomever it is called. *)
LEMMA ExecuteKeeps ==
    ASSUME ShellAssumption, ShellInv, NEW w, w[1] = "write" => w[3] \in Texts,
           NEW frames, StackTyped(frames), NEW before, IsSeq(before), Execute(w, frames, before)
    PROVE  /\ FilesTyped(fs') /\ StackTyped(stack')
           /\ Shows(screen', said') /\ Len(said') <= Rows
<1> DEFINE prompt == Append(before, <<"> ", w[1], w[2]>>)
<1>1. IsSeq(prompt)
  BY IsSeqAppend
<1>2. FilesTyped(fs)
  BY DEF ShellInv
<1> HIDE DEF prompt
<1>3. CASE w[1] = "run"
  <2>1. \E more : IsSeq(more) /\ Show(screen, prompt \o more)
    <3>1. IsSeq(<<Say("not found")>>) /\ IsSeq(<<Say("running")>>)
          /\ IsSeq(<<Say("running")>> \o <<Say("script"), Say("done")>>)
      BY SmallSeqs, IsSeqConcat
    <3> QED
      BY <1>3, <3>1 DEF Execute, prompt
  <2>2. Shows(screen', said') /\ Len(said') <= Rows
    BY <1>1, <2>1, IsSeqConcat, ShowKeeps
  <2>3. StackTyped(stack')
    <3>1. CASE Runs(w, frames)
      <4>1. stack' = Append(frames, ScriptFrame(w[2])) /\ Has(fs, w[2]) /\ Len(frames) < MaxScripts
        BY <1>3, <3>1 DEF Execute, Runs
      <4>2. ScriptFrame(w[2]) \in Frames /\ Len(ScriptFrame(w[2]).vars) <= MaxVars
        BY <1>2, <4>1, FrameIs
      <4>3. frames \in Seq(Frames) /\ Len(frames) \in Nat /\ MaxScripts \in Nat
            /\ DOMAIN frames = 1 .. Len(frames)
        BY LenProperties, ShellNumbers DEF StackTyped
      <4> DEFINE r == Append(frames, ScriptFrame(w[2]))
      <4>4. /\ r \in Seq(Frames) /\ Len(r) = Len(frames) + 1 /\ r[Len(frames) + 1] = ScriptFrame(w[2])
            /\ \A i \in 1 .. Len(frames) : r[i] = frames[i]
        BY <4>2, <4>3, AppendProperties
      <4> HIDE DEF r
      <4>5. DOMAIN r = 1 .. Len(frames) + 1 /\ Len(r) <= MaxScripts
        BY <4>1, <4>3, <4>4, LenProperties
      <4>6. ASSUME NEW i \in DOMAIN r PROVE Len(r[i].vars) <= MaxVars
        <5>1. i = Len(frames) + 1 \/ i \in 1 .. Len(frames)
          BY <4>3, <4>5
        <5> QED
          BY <4>2, <4>3, <4>4, <5>1 DEF StackTyped
      <4> QED
        BY <4>1, <4>4, <4>5, <4>6 DEF StackTyped, r
    <3>2. CASE ~Runs(w, frames)
      BY <1>3, <3>2 DEF Execute
    <3> QED
      BY <3>1, <3>2
  <2> QED
    BY <1>2, <1>3, <2>2, <2>3 DEF Execute
<1>4. CASE w[1] # "run"
  <2>1. fs' = Result(w).fs /\ stack' = frames
    BY <1>4 DEF Execute
  <2>2. FilesTyped(fs') /\ IsSeq(Result(w).out)
    BY <2>1, ResultTyped
  <2>3. \/ Show([lines |-> [i \in 1 .. Rows |-> Blank], row |-> 0], << >>)
        \/ Show(screen, prompt \o Result(w).out)
    BY <1>4 DEF Execute, prompt
  <2>4. IsSeq(prompt \o Result(w).out) /\ IsSeq(<< >>)
    BY <1>1, <2>2, IsSeqConcat, SmallSeqs
  <2>5. Shows(screen', said') /\ Len(said') <= Rows
    BY <2>3, <2>4, ShowKeeps
  <2> QED
    BY <2>1, <2>2, <2>5
<1> QED
  BY <1>3, <1>4

(* The script on top of the stack and its line *)
LEMMA TopIs ==
    ASSUME ShellAssumption, ShellInv, stack # << >>
    PROVE  /\ Len(stack) \in Nat \ {0} /\ DOMAIN stack = 1 .. Len(stack)
           /\ Top \in Frames /\ Len(Top.vars) <= MaxVars
           /\ IsSeq(Top.lines) /\ Len(Top.lines) \in Nat /\ Top.pc \in Nat \ {0}
           /\ Top.vars \in Seq([name : Held, value : Held])
<1>1. stack \in Seq(Frames) /\ \A i \in DOMAIN stack : Len(stack[i].vars) <= MaxVars
  BY DEF ShellInv, StackTyped
<1>2. Len(stack) \in Nat \ {0} /\ DOMAIN stack = 1 .. Len(stack) /\ Top \in Frames
      /\ Len(Top.vars) <= MaxVars
  BY <1>1, EmptySeq, LenProperties DEF Top
<1>3. PICK t \in Texts : Top.lines = Lines[t]
  BY <1>2 DEF Frames
<1>4. IsSeq(Top.lines)
  BY <1>3 DEF ShellAssumption, IsSeq
<1> QED
  BY <1>2, <1>4, IsSeqLen DEF Frames

LEMMA LineIs ==
    ASSUME ShellAssumption, ShellInv, Running
    PROVE  /\ Line \in [op : STRING, a : STRING, b : STRING, at : BOOLEAN]
           /\ Expanded[1] = "write" => Expanded[3] \in Texts
           /\ Expanded[2] \in Held /\ Expanded[3] \in Held
<1>1. PICK t \in Texts : Top.lines = Lines[t]
  BY TopIs DEF Running, Frames
<1>2. Top.pc \in 1 .. Len(Lines[t])
  BY <1>1, TopIs DEF Running
<1>3. Line = Lines[t][Top.pc] /\ Line \in [op : STRING, a : STRING, b : STRING, at : BOOLEAN]
  BY <1>1, <1>2, ElementOfSeq DEF ShellAssumption, Line
<1>4. Line.op = "write" => Line.b \in Texts \ DOMAIN Refs
  BY <1>1, <1>2, <1>3, LenProperties DEF ShellAssumption
<1>5. ASSUME NEW v PROVE Value(v) \in Held
  <2> DEFINE found == {i \in DOMAIN Top.vars : Top.vars[i].name = v}
  <2>1. DOMAIN Top.vars = 1 .. Len(Top.vars) /\ Len(Top.vars) \in Nat
        /\ \A i \in DOMAIN Top.vars : Top.vars[i].value \in Held
    <3> DEFINE V == [name : Held, value : Held]
    <3>1. Top.vars \in Seq(V)
      BY TopIs DEF Running
    <3>2. \A x \in V : x.value \in Held
      OBVIOUS
    <3> HIDE DEF V
    <3> QED
      BY <3>1, <3>2, LenProperties
  <2>2. CASE found = {}
    BY <2>2, Zenon DEF Value, Held
  <2>3. CASE found # {}
    <3>1. found \in SUBSET Nat /\ found \subseteq DOMAIN Top.vars
      BY <2>1
    <3>2. Min(found) \in DOMAIN Top.vars
      <4> HIDE DEF found
      <4> QED
        BY <2>3, <3>1, LeastIs
    <3> QED
      BY <2>1, <2>3, <3>2 DEF Value
  <2> QED
    BY <2>2, <2>3
<1>6. ASSUME NEW w \in STRING PROVE Word(w) \in Held
  BY <1>5, <1>6 DEF Word, Held
<1>7. Expanded[1] = Line.op /\ Expanded[2] = Word(Line.a) /\ Expanded[3] = Word(Line.b)
  BY DEF Expanded
<1>8. Line.b \notin DOMAIN Refs => Word(Line.b) = Line.b
  BY DEF Word
<1> QED
  BY <1>3, <1>4, <1>6, <1>7, <1>8

(* Another frame in place of the top one *)
LEMMA ToppedIs ==
    ASSUME ShellAssumption, ShellInv, stack # << >>, NEW r \in Frames, Len(r.vars) <= MaxVars
    PROVE  StackTyped(Topped(r))
<1>1. stack \in Seq(Frames) /\ Len(stack) \in 1 .. Len(stack) /\ Len(stack) <= MaxScripts
  BY TopIs DEF ShellInv, StackTyped
<1>2. /\ Topped(r) \in Seq(Frames) /\ Len(Topped(r)) = Len(stack)
      /\ \A j \in 1 .. Len(stack) : Topped(r)[j] = IF j = Len(stack) THEN r ELSE stack[j]
  BY <1>1, ExceptSeq DEF Topped
<1>3. DOMAIN Topped(r) = 1 .. Len(stack) /\ DOMAIN stack = 1 .. Len(stack)
  BY <1>1, <1>2, LenProperties
<1>4. \A j \in DOMAIN stack : Len(stack[j].vars) <= MaxVars
  BY DEF ShellInv, StackTyped
<1> QED
  BY <1>1, <1>2, <1>3, <1>4 DEF StackTyped

(* Directives print, and move or set what the script has. *)
LEMMA DirectiveKeeps ==
    ASSUME ShellAssumption, ShellInv, Skip \/ Echo \/ Set \/ Goto \/ Pause \/ Exit \/ Done
    PROVE  StackTyped(stack') /\ Shows(screen', said') /\ Len(said') <= Rows
<1>1. stack # << >>
  BY DEF Skip, Echo, Set, Goto, Pause, Exit, Done, Directive, Running
<1> DEFINE top == Top
           V == [name : Held, value : Held]
<1>2. /\ top \in Frames /\ Len(top.vars) <= MaxVars /\ top.pc \in Nat \ {0}
      /\ Len(top.lines) \in Nat /\ IsSeq(top.lines) /\ top.vars \in Seq(V)
  BY <1>1, TopIs
<1>3. IsSeq(Shown)
  BY SmallSeqs DEF Shown
<1>4. Shows(screen', said') /\ Len(said') <= Rows
  <2>1. CASE UNCHANGED <<screen, said>>
    BY <2>1 DEF ShellInv
  <2>2. CASE \E out : IsSeq(out) /\ Show(screen, out)
    BY <2>2, ShowKeeps
  <2>3. \A x : IsSeq(Shown \o <<x>>) /\ IsSeq(Append(Shown, x)) /\ IsSeq(<<x>>) /\ IsSeq(Shown \o << >>)
    BY <1>3, SmallSeqs, IsSeqConcat, IsSeqAppend
  <2>4. CASE Goto
    <3>1. PICK out : Show(screen, Shown \o out) /\ (out = << >> \/ \E x : out = <<x>>)
      BY <2>4 DEF Goto
    <3> QED
      BY <2>2, <2>3, <3>1
  <2> QED
    BY <1>3, <2>1, <2>2, <2>3, <2>4 DEF Skip, Echo, Set, Pause, Exit, Done
<1>5. \A n \in Nat \ {0} : [top EXCEPT !.pc = n] \in Frames /\ [top EXCEPT !.pc = n].vars = top.vars
  BY <1>2 DEF Frames
<1> HIDE DEF top
<1>6. top.pc + 1 \in Nat \ {0} /\ Len(top.lines) + 1 \in Nat \ {0}
  BY <1>2
<1>7. StackTyped(Stepped)
  <2>1. Stepped = Topped([top EXCEPT !.pc = top.pc + 1])
    BY DEF Stepped, top
  <2> QED
    BY <1>1, <1>2, <1>5, <1>6, <2>1, ToppedIs
<1>8. CASE Skip
  <2>1. PICK q \in BOOLEAN : stack' = Topped([top EXCEPT !.pc = top.pc + 1, !.quiet = q])
    <3>1. top.quiet \in BOOLEAN
      BY <1>2 DEF Frames
    <3> QED
      BY <1>8, <3>1 DEF Skip, top
  <2> DEFINE r == [top EXCEPT !.pc = top.pc + 1, !.quiet = q]
  <2>2. r \in Frames /\ r.vars = top.vars
    BY <1>2, <1>6 DEF Frames
  <2> HIDE DEF r
  <2>3. StackTyped(Topped(r))
    BY <1>1, <1>2, <2>2, ToppedIs
  <2> QED
    BY <1>4, <2>1, <2>3 DEF r
<1>9. CASE Set
  <2> DEFINE vs == WithVar(Expanded[2], Expanded[3])
             r == [top EXCEPT !.pc = top.pc + 1, !.vars = vs]
  <2>1. vs \in Seq(V) /\ Len(vs) <= MaxVars
    <3> DEFINE e == Expanded[2]
               x == Expanded[3]
               new == [name |-> e, value |-> x]
               found == {i \in DOMAIN top.vars : top.vars[i].name = e}
    <3>1. e \in Held /\ x \in Held
      BY <1>9, LineIs DEF Set, Directive
    <3>2. new \in V /\ MaxVars \in Nat /\ Len(top.vars) \in Nat /\ DOMAIN top.vars = 1 .. Len(top.vars)
      BY <1>2, <3>1, ShellNumbers, LenProperties
    <3>3. vs = IF found # {} THEN [top.vars EXCEPT ![Min(found)].value = x]
               ELSE IF Len(top.vars) >= MaxVars THEN top.vars ELSE Append(top.vars, new)
      BY Zenon DEF WithVar, top
    <3>4. CASE found # {}
      <4>1. found \in SUBSET Nat /\ found \subseteq DOMAIN top.vars
        BY <3>2
      <4> HIDE DEF found
      <4>2. Min(found) \in 1 .. Len(top.vars)
        BY <3>2, <3>4, <4>1, LeastIs
      <4> DEFINE k == Min(found)
                 f == [top.vars[k] EXCEPT !.value = x]
      <4>3. top.vars[k] \in V
        BY <1>2, <4>2, ElementOfSeq
      <4>4. f \in V
        BY <3>1, <4>3
      <4>5. vs = [top.vars EXCEPT ![k] = f]
        BY <3>3, <3>4
      <4> HIDE DEF f, k, vs, V
      <4>6. [top.vars EXCEPT ![k] = f] \in Seq(V) /\ Len([top.vars EXCEPT ![k] = f]) = Len(top.vars)
        BY <1>2, <4>2, <4>4, ExceptSeq DEF k
      <4> QED
        BY <1>2, <4>5, <4>6
    <3>5. CASE found = {} /\ Len(top.vars) >= MaxVars
      BY <1>2, <3>3, <3>5
    <3>6. CASE found = {} /\ ~(Len(top.vars) >= MaxVars)
      <4>1. vs = Append(top.vars, new)
        BY <3>3, <3>6
      <4> HIDE DEF vs, new, V
      <4>2. Append(top.vars, new) \in Seq(V) /\ Len(Append(top.vars, new)) = Len(top.vars) + 1
        BY <1>2, <3>2, AppendProperties
      <4> QED
        BY <3>2, <3>6, <4>1, <4>2
    <3> HIDE DEF found
    <3> QED
      BY <3>4, <3>5, <3>6
  <2>2. stack' = Topped(r)
    BY <1>9 DEF Set, top
  <2> HIDE DEF vs
  <2>3. r \in Frames /\ r.vars = vs
    BY <1>2, <1>6, <2>1 DEF Frames
  <2> HIDE DEF r
  <2> QED
    BY <1>1, <1>4, <2>1, <2>2, <2>3, ToppedIs
<1>10. CASE Goto \/ Exit
  <2>1. PICK n \in Nat \ {0} : stack' = Topped([top EXCEPT !.pc = n])
    <3>1. CASE Exit
      BY <1>6, <3>1 DEF Exit, top
    <3>2. CASE Goto
      <4>1. PICK labels \in SUBSET DOMAIN top.lines : stack' = Topped([top EXCEPT !.pc = GotoLine(labels)])
        BY <3>2 DEF Goto, top
      <4>2. labels \in SUBSET Nat
        BY <1>2, IsSeqLen
      <4>3. CASE labels = {}
        BY <1>6, <4>1, <4>3 DEF GotoLine, top
      <4>4. CASE labels # {}
        <5>1. Min(labels) \in Nat
          BY <4>2, <4>4, LeastIs
        <5>2. GotoLine(labels) = Min(labels) + 1 /\ Min(labels) + 1 \in Nat \ {0}
          BY <4>4, <5>1 DEF GotoLine
        <5> QED
          BY <4>1, <5>2
      <4> QED
        BY <4>3, <4>4
    <3> QED
      BY <1>10, <3>1, <3>2
  <2>2. StackTyped(Topped([top EXCEPT !.pc = n]))
    BY <1>1, <1>2, <1>5, ToppedIs
  <2> QED
    BY <1>4, <2>1, <2>2
<1>11. CASE Done
  <2>1. stack' = SubSeq(stack, 1, Len(stack) - 1)
    BY <1>11 DEF Done, Front
  <2>2. stack \in Seq(Frames) /\ Len(stack) \in Nat \ {0} /\ Len(stack) <= MaxScripts
        /\ MaxScripts \in Nat /\ DOMAIN stack = 1 .. Len(stack)
        /\ \A i \in DOMAIN stack : stack[i] \in Frames /\ Len(stack[i].vars) <= MaxVars
    BY <1>1, TopIs, ShellNumbers, LenProperties DEF ShellInv, StackTyped
  <2>3. /\ stack' \in Seq(Frames) /\ Len(stack') = Len(stack) - 1
        /\ \A i \in 1 .. Len(stack) - 1 : stack'[i] = stack[i]
    BY <2>1, <2>2
  <2>4. DOMAIN stack' = 1 .. Len(stack) - 1
    BY <2>3, LenProperties
  <2>5. StackTyped(stack')
    BY <2>2, <2>3, <2>4 DEF StackTyped
  <2> QED
    BY <1>4, <2>5
<1>12. CASE Echo \/ Pause
  BY <1>4, <1>7, <1>12 DEF Echo, Pause
<1> QED
  BY <1>8, <1>9, <1>10, <1>11, <1>12

LEMMA ShellStep == ShellAssumption /\ ShellInv /\ [ShellNext]_shellVars => ShellInv'
<1> SUFFICES ASSUME ShellAssumption, ShellInv, [ShellNext]_shellVars PROVE ShellInv'
  OBVIOUS
<1>1. history' = typed' /\ history' \in Seq(Commands) /\ Len(history') <= HistMax
  <2>1. CASE \E w \in Commands : Type(w)
    BY <2>1, HistoryKeeps
  <2>2. CASE Step \/ UNCHANGED shellVars
    <3>1. UNCHANGED <<history, typed>>
      BY <2>2 DEF shellVars, log, Step, Skip, Echo, Set, Goto, Pause, Exit, Command, Done, Directive,
                  Remember, Running
    <3> QED
      BY <3>1 DEF ShellInv
  <2> QED
    BY <2>1, <2>2 DEF ShellNext
<1>2. number' \in 0 .. MaxTyped
  <2>1. number' = number \/ (number < MaxTyped /\ number' = number + 1)
    BY DEF ShellNext, shellVars, log, Type, Step, Skip, Echo, Set, Goto, Pause, Exit, Command, Done, Directive
  <2> QED
    BY <2>1, ShellNumbers DEF ShellInv
<1>3. FilesTyped(fs') /\ StackTyped(stack') /\ Shows(screen', said') /\ Len(said') <= Rows
  <2>1. ASSUME NEW w \in Commands, Type(w)
        PROVE  FilesTyped(fs') /\ StackTyped(stack') /\ Shows(screen', said') /\ Len(said') <= Rows
    <3>1. Execute(w, stack, << >>) /\ (w[1] = "write" => w[3] \in Texts)
      BY <2>1 DEF Type, ShellAssumption
    <3> QED
      BY <3>1, SmallSeqs, ExecuteKeeps DEF ShellInv
  <2>2. CASE Command
    <3>1. Running /\ Execute(Expanded, Stepped, Shown)
      BY <2>2 DEF Command
    <3>2. StackTyped(Stepped)
      <4> DEFINE top == Top
      <4>1. stack # << >> /\ top \in Frames /\ top.pc \in Nat \ {0} /\ Len(top.vars) <= MaxVars
        BY <3>1, TopIs DEF Running
      <4> DEFINE r == [top EXCEPT !.pc = top.pc + 1]
      <4> HIDE DEF top
      <4>2. r \in Frames /\ r.vars = top.vars
        BY <4>1 DEF Frames
      <4>3. Stepped = Topped(r)
        BY DEF Stepped, top
      <4> HIDE DEF r
      <4> QED
        BY <4>1, <4>2, <4>3, ToppedIs
    <3>3. IsSeq(Shown)
      BY SmallSeqs DEF Shown
    <3>4. Expanded[1] = "write" => Expanded[3] \in Texts
      BY <3>1, LineIs
    <3> QED
      BY <3>1, <3>2, <3>3, <3>4, ExecuteKeeps
  <2>3. CASE Skip \/ Echo \/ Set \/ Goto \/ Pause \/ Exit \/ Done
    <3>1. fs' = fs
      BY <2>3 DEF Skip, Echo, Set, Goto, Pause, Exit, Done, Directive
    <3> QED
      BY <2>3, <3>1, DirectiveKeeps DEF ShellInv
  <2>4. CASE UNCHANGED shellVars
    BY <2>4 DEF shellVars, log, ShellInv
  <2> QED
    BY <2>1, <2>2, <2>3, <2>4 DEF ShellNext, Step
<1> QED
  BY <1>1, <1>2, <1>3 DEF ShellInv

(* For every set of files, commands and scripts: no name is in the table    *)
(* twice, the history holds the commands typed last and none of a script's, *)
(* and the screen shows the last lines printed, in order.                   *)
THEOREM TerminalStaysSound ==
    ASSUME ShellAssumption
    PROVE  ShellSpec => []ShellTypeOK /\ []TerminalSound
<1>1. ShellInv => ShellTypeOK /\ TerminalSound
  <2> SUFFICES ASSUME ShellInv PROVE ShellTypeOK /\ TerminalSound
    OBVIOUS
  <2>1. NamesApart /\ HistoryIsTyped /\ ScreenTail
    BY FilesAre, ShowsTail DEF ShellInv, NamesApart, HistoryIsTyped
  <2>2. Len(fs) = Slots /\ \A i \in DOMAIN fs : fs[i].text \in Texts \cup {Missing}
    <3>1. fs = [i \in 1 .. Slots |-> fs[i]] /\ Slots \in Nat
          /\ \A i \in 1 .. Slots : fs[i] # Unused => fs[i].text \in Texts
      BY ShellNumbers DEF ShellInv, FilesTyped
    <3>2. Len(fs) = Slots /\ DOMAIN fs = 1 .. Slots
      BY <3>1, SeqIs
    <3>3. Unused.text = Missing
      BY DEF Unused
    <3> QED
      BY <3>1, <3>2, <3>3
  <2>3. Len(screen.lines) = Rows /\ screen.row \in 0 .. Rows
    <3>1. /\ Rows \in Nat /\ Len(said) \in Nat
          /\ Len(screen.lines) = Rows /\ screen.row = IF Len(said) < Rows THEN Len(said) ELSE Rows
      BY ShellNumbers, IsSeqLen DEF ShellInv, Shows
    <3> QED
      BY <3>1
  <2> QED
    BY <2>1, <2>2, <2>3 DEF ShellInv, StackTyped, ShellTypeOK, TerminalSound
<1>2. ShellInit => ShellInv
  BY ShellInitInv
<1>3. ShellInv /\ [ShellNext]_shellVars => ShellInv'
  BY ShellStep
<1> QED
  BY <1>1, <1>2, <1>3, PTL DEF ShellSpec

(* Every command does to the files what it says and touches no other,      *)
(* whatever slots are reused and however scripts write over, move, remove   *)
(* and run one another.                                                     *)
THEOREM CommandsDoAsMeant ==
    ASSUME ShellAssumption
    PROVE  ShellSpec => FilesAsMeant
<1>1. ShellInv /\ [ShellNext]_shellVars
        => [fs' = fs \/ (did'[1] = "mv" /\ did'[2] = did'[3]) \/ Meant(did')]_shellVars
  <2> SUFFICES ASSUME ShellInv, [ShellNext]_shellVars
               PROVE  fs' = fs \/ (did'[1] = "mv" /\ did'[2] = did'[3]) \/ Meant(did')
    OBVIOUS
  <2>1. DOMAIN fs \subseteq Nat /\ Apart(fs)
    BY FilesAre DEF ShellInv
  <2> QED
    BY <2>1, FilesChange, CommandDoes
<1>2. ShellInit => ShellInv
  BY ShellInitInv
<1>3. ShellInv /\ [ShellNext]_shellVars => ShellInv'
  BY ShellStep
<1> QED
  BY <1>1, <1>2, <1>3, PTL DEF ShellSpec, FilesAsMeant

-----------------------------------------------------------------------------
(* Notepads and the list *)

Entry == [name : Names, text : Contents]

TableTyped(f) == f \in [1 .. Slots -> Entry \cup {Unused}] /\ Apart(f)

(* The selection of the list is on the list; without names it is 1. *)
OnTheList(l) ==
    /\ l.names \in Seq(Names) /\ IsInjective(l.names)
    /\ l.selected \in Nat /\ l.selected >= 1
    /\ IF l.names = << >> THEN l.selected = 1 ELSE l.selected <= Len(l.names)

Pad == [shown : BOOLEAN, text : Contents, name : Names \cup {""}, naming : BOOLEAN]
List == [shown : BOOLEAN, names : Seq(Names), selected : Nat]

(* A notepad nothing was typed into holds what it took of its file. *)
PadsKept ==
    /\ pads \in [PadSlots -> Pad]
    /\ \A p \in PadSlots : Len(pads[p].text) <= Cap
    /\ opened \in [PadSlots -> Contents \cup {Missing}]
    /\ \A p \in PadSlots : opened[p] # Missing => pads[p].text = Start(opened[p])

ListKept == list \in List /\ (list.shown => OnTheList(list))

CountsKept == made \in 0 .. Len(Made) /\ icons \subseteq Names /\ keys \in 0 .. Steps

DocumentsInv == TableTyped(files) /\ PadsKept /\ ListKept /\ CountsKept

LEMMA DocumentsNumbers ==
    ASSUME DocumentsAssumption
    PROVE  /\ Slots \in Nat /\ Cap \in Nat /\ Cap > 0 /\ Steps \in Nat /\ Len(Made) \in Nat
           /\ \A i \in 1 .. Len(Made) : Made[i] \in Names
           /\ << >> \in Contents /\ Len(<< >>) = 0 /\ Hello \in Contents
<1>1. Made \in Seq(Names) /\ {Slots, Cap, Steps} \subseteq Nat /\ Cap > 0 /\ Hello \in Contents
  BY DEF DocumentsAssumption
<1>2. Len(Made) \in Nat /\ \A i \in 1 .. Len(Made) : Made[i] \in Names
  BY <1>1, LenProperties
<1>3. << >> \in Contents /\ Len(<< >>) = 0
  BY EmptySeq DEF Contents
<1> QED
  BY <1>1, <1>2, <1>3

LEMMA EntryIs ==
    ASSUME DocumentsAssumption, NEW n \in Names, NEW t \in Contents
    PROVE  [name |-> n, text |-> t] \in Entry /\ Unused \notin Entry /\ n # ""
BY DEF DocumentsAssumption, Entry, Unused

LEMMA StoredTyped ==
    ASSUME DocumentsAssumption, NEW f, TableTyped(f), NEW n \in Names, NEW t \in Contents
    PROVE  TableTyped(WithFile(f, n, t))
<1>1. DOMAIN f = 1 .. Slots /\ DOMAIN f \subseteq Nat /\ Apart(f)
  BY DEF TableTyped
<1>2. Apart(WithFile(f, n, t))
  BY <1>1, StoredText
<1>3. CASE Full(f, n)
  BY <1>3 DEF WithFile
<1>4. CASE ~Full(f, n)
  <2>1. PICK k \in DOMAIN f :
           /\ WithFile(f, n, t) = [f EXCEPT ![k] = [name |-> n, text |-> t]]
           /\ \/ Has(f, n) /\ Slot(f, n) = {k}
              \/ ~Has(f, n) /\ f[k] = Unused
    BY <1>1, <1>4, StoredIs
  <2>2. [name |-> n, text |-> t] \in Entry
    BY EntryIs
  <2>3. WithFile(f, n, t) \in [1 .. Slots -> Entry \cup {Unused}]
    BY <1>1, <2>1, <2>2 DEF TableTyped
  <2> QED
    BY <1>2, <2>3 DEF TableTyped
<1> QED
  BY <1>3, <1>4

LEMMA RemovedTyped ==
    ASSUME NEW f, TableTyped(f), NEW n
    PROVE  TableTyped(Removed(f, n))
<1>1. DOMAIN f = 1 .. Slots /\ DOMAIN f \subseteq Nat /\ Apart(f)
  BY DEF TableTyped
<1>2. Apart(Removed(f, n))
  BY <1>1, RemovedText
<1>3. Removed(f, n) \in [1 .. Slots -> Entry \cup {Unused}]
  BY <1>1 DEF Removed, TableTyped
<1> QED
  BY <1>2, <1>3 DEF TableTyped

LEMMA TextTyped ==
    ASSUME DocumentsAssumption, NEW f, TableTyped(f), NEW n
    PROVE  /\ TextOf(f, n) \in Contents \cup {Missing}
           /\ TextOf(f, n) # Missing => Has(f, n) /\ n # ""
<1>1. DOMAIN f \subseteq Nat /\ Apart(f)
  BY DEF TableTyped
<1>2. CASE ~Has(f, n)
  BY <1>2 DEF TextOf
<1>3. CASE Has(f, n)
  <2>1. PICK k \in DOMAIN f :
           /\ Slot(f, n) = {k} /\ Min(Slot(f, n)) = k
           /\ f[k] # Unused /\ f[k].name = n /\ TextOf(f, n) = f[k].text
    BY <1>1, <1>3, SlotIs
  <2>2. f[k] \in Entry
    BY <2>1 DEF TableTyped
  <2> QED
    BY <1>3, <2>1, <2>2 DEF Entry, DocumentsAssumption
<1> QED
  BY <1>2, <1>3

(* What a notepad takes of a text fits it. *)
LEMMA StartIs ==
    ASSUME DocumentsAssumption, NEW t \in Contents \cup {Missing}
    PROVE  /\ Start(t) \in Contents /\ Len(Start(t)) <= Cap
           /\ t # Missing /\ Len(t) <= Cap => Start(t) = t
<1>1. Cap \in Nat /\ Cap > 0
  BY DEF DocumentsAssumption
<1>2. CASE t = Missing
  <2>1. Start(t) = << >>
    BY <1>2 DEF Start
  <2> QED
    BY <1>1, <1>2, <2>1, EmptySeq DEF Contents
<1>3. CASE t # Missing
  <2>1. t \in Seq(Typeable) /\ Len(t) \in Nat
    BY <1>3, LenProperties DEF Contents
  <2>2. Start(t) = SubSeq(t, 1, IF Len(t) <= Cap THEN Len(t) ELSE Cap)
    BY <1>1, <1>3, <2>1, MinOfTwo DEF Start
  <2>3. CASE Len(t) <= Cap
    <3>1. SubSeq(t, 1, Len(t)) = t
      BY <2>1
    <3> QED
      BY <1>1, <2>1, <2>2, <2>3, <3>1 DEF Contents
  <2>4. CASE ~(Len(t) <= Cap)
    <3>1. SubSeq(t, 1, Cap) \in Seq(Typeable) /\ Len(SubSeq(t, 1, Cap)) = Cap
      BY <1>1, <2>1, <2>4
    <3> QED
      BY <1>1, <2>1, <2>2, <2>4, <3>1 DEF Contents
  <2> QED
    BY <2>3, <2>4
<1> QED
  BY <1>2, <1>3

(* files_refresh leaves the selection on the list. *)
LEMMA RefreshedIs ==
    ASSUME DocumentsAssumption, NEW f, TableTyped(f),
           NEW l \in [shown : BOOLEAN, names : Seq(Names), selected : Nat]
    PROVE  /\ Refreshed(l, f) \in [shown : BOOLEAN, names : Seq(Names), selected : Nat]
           /\ OnTheList(Refreshed(l, f))
<1> DEFINE r == Refreshed(l, f)
           len == Len(Listed(f))
<1>1. Listed(f) \in Seq(Names) /\ IsInjective(Listed(f))
  <2>1. DOMAIN f = 1 .. Slots /\ Slots \in Nat /\ Apart(f)
    BY DEF TableTyped, DocumentsAssumption
  <2>2. \A i \in DOMAIN f : f[i] # Unused => f[i].name \in Names
    BY DEF TableTyped, Entry
  <2> QED
    BY <2>1, <2>2, ListedIs
<1>2. len \in Nat /\ (Listed(f) = << >> <=> len = 0)
  BY <1>1, LenProperties, EmptySeq
<1>3. Min({l.selected, len}) = IF l.selected <= len THEN l.selected ELSE len
  BY <1>2, MinOfTwo
<1>4. Max({1, Min({l.selected, len})})
        = IF 1 >= Min({l.selected, len}) THEN 1 ELSE Min({l.selected, len})
  <2> DEFINE m == Min({l.selected, len})
  <2>1. m \in Int
    BY <1>2, <1>3
  <2> HIDE DEF m
  <2>2. Max({1, m}) = IF 1 >= m THEN 1 ELSE m
    BY <2>1, MaxOfTwo
  <2> QED
    BY <2>2 DEF m
<1> DEFINE m == Max({1, Min({l.selected, len})})
<1>5. /\ r.shown = l.shown /\ r.names = Listed(f) /\ r.selected = m
      /\ m \in Nat => r \in [shown : BOOLEAN, names : Seq(Names), selected : Nat]
  <2> HIDE DEF m
  <2>1. r = [l EXCEPT !.names = Listed(f), !.selected = m]
    BY DEF Refreshed, m
  <2> HIDE DEF r
  <2> QED
    BY <1>1, <2>1
<1> HIDE DEF r, len
<1>6. r.selected \in Nat /\ m \in Nat /\ r.selected >= 1
      /\ (IF len = 0 THEN r.selected = 1 ELSE r.selected <= len)
  BY <1>2, <1>3, <1>4, <1>5
<1>7. OnTheList(r) /\ r \in [shown : BOOLEAN, names : Seq(Names), selected : Nat]
  BY <1>1, <1>2, <1>5, <1>6 DEF OnTheList, len
<1> QED
  BY <1>7 DEF r

LEMMA DocumentsInitInv == DocumentsAssumption /\ DocumentsInit => DocumentsInv
<1> SUFFICES ASSUME DocumentsAssumption, DocumentsInit PROVE DocumentsInv
  OBVIOUS
<1>1. TableTyped(files)
  <2>1. Files \in Seq(Entry) /\ Apart(Files) /\ Slots \in Nat /\ Len(Files) <= Slots
    BY DEF DocumentsAssumption, Entry
  <2> QED
    BY <2>1, FilesAtStartAre DEF DocumentsInit, TableTyped
<1>2. PadsKept
  <2>1. << >> \in Contents /\ Len(<< >>) = 0 /\ Cap \in Nat
    BY EmptySeq DEF Contents, DocumentsAssumption
  <2>2. NoPad \in Pad /\ NoPad.text = << >>
    BY <2>1 DEF NoPad, Pad
  <2>3. pads = [p \in PadSlots |-> NoPad] /\ opened = [p \in PadSlots |-> Missing]
    BY DEF DocumentsInit
  <2> QED
    BY <2>1, <2>2, <2>3 DEF PadsKept
<1>3. ListKept
  BY EmptySeq DEF ListKept, List, DocumentsInit, NoList
<1>4. CountsKept
  <2>1. Len(Made) \in Nat /\ Steps \in Nat
    BY LenProperties DEF DocumentsAssumption
  <2>2. \A i \in DOMAIN Files : Files[i].name \in Names
    <3>1. Files \in Seq([name : Names, text : Contents])
      BY DEF DocumentsAssumption
    <3>2. \A i \in DOMAIN Files : Files[i] \in [name : Names, text : Contents]
      BY <3>1, LenProperties
    <3> QED
      BY <3>2
  <2> QED
    BY <2>1, <2>2 DEF CountsKept, DocumentsInit
<1> QED
  BY <1>1, <1>2, <1>3, <1>4 DEF DocumentsInv

(* A notepad is shown, in a slot of its own. *)
LEMMA ShowPadKeeps ==
    ASSUME DocumentsAssumption, DocumentsInv,
           NEW text \in Contents, Len(text) <= Cap, NEW name \in Names \cup {""},
           NEW of \in Contents \cup {Missing}, of # Missing => text = Start(of),
           ShowPad(text, name, of)
    PROVE  DocumentsInv'
<1> DEFINE p == Min(PadSlots \ ShownPads)
           new == [shown |-> TRUE, text |-> text, name |-> name, naming |-> FALSE]
<1>1. p \in PadSlots
  <2>1. PadSlots \ ShownPads \in SUBSET Nat /\ PadSlots \ ShownPads # {}
    BY DEF ShowPad, DocumentsAssumption, ShownPads
  <2>2. p \in PadSlots \ ShownPads
    BY <2>1, LeastIs
  <2> QED
    BY <2>2
<1>2. pads' = [pads EXCEPT ![p] = new] /\ opened' = [opened EXCEPT ![p] = of]
      /\ UNCHANGED <<files, list, made, icons, keys>>
  BY DEF ShowPad
<1>3. new \in Pad /\ new.text = text
  BY DEF Pad
<1> HIDE DEF p, new
<1>4. PadsKept
  BY DEF DocumentsInv
<1>5. PadsKept'
  BY <1>1, <1>2, <1>3, <1>4 DEF PadsKept
<1>6. TableTyped(files)' /\ ListKept' /\ CountsKept'
  BY <1>2 DEF DocumentsInv, TableTyped, ListKept, CountsKept
<1> QED
  BY <1>5, <1>6 DEF DocumentsInv

(* What is typed into a notepad ends what is known of its file. *)
LEMMA PadChanges ==
    ASSUME DocumentsAssumption, DocumentsInv, NEW p \in PadSlots, NEW q \in Pad,
           Len(q.text) <= Cap, pads' = [pads EXCEPT ![p] = q],
           \/ opened' = [opened EXCEPT ![p] = Missing]
           \/ opened' = opened /\ q.text = pads[p].text
    PROVE  PadsKept'
BY DEF DocumentsInv, PadsKept

(* The keys that go to a notepad, its field and its button. *)
LEMMA PadStep ==
    ASSUME DocumentsAssumption, DocumentsInv, NEW p \in ShownPads,
           CloseNotepad(p) \/ TypeText(p) \/ TypeName(p) \/ Focus(p) \/ SavePad(p)
    PROVE  DocumentsInv'
<1>1. p \in PadSlots /\ PadsKept /\ pads[p] \in Pad /\ Len(pads[p].text) <= Cap /\ Cap \in Nat
  BY DEF ShownPads, DocumentsInv, PadsKept, DocumentsAssumption
<1>2. pads[p].text \in Seq(Typeable) /\ pads[p].name \in Names \cup {""}
  BY <1>1 DEF Pad, Contents
<1>3. UNCHANGED <<list, made>>
  BY DEF CloseNotepad, TypeText, TypeName, Focus, SavePad
<1>4. ListKept'
  BY <1>3 DEF DocumentsInv, ListKept
<1>5. CASE CloseNotepad(p)
  <2>1. NoPad \in Pad /\ Len(NoPad.text) <= Cap
    BY DocumentsNumbers DEF NoPad, Pad
  <2>2. PadsKept'
    BY <1>1, <1>5, <2>1, PadChanges DEF CloseNotepad
  <2> QED
    BY <1>4, <1>5, <2>2 DEF CloseNotepad, DocumentsInv, TableTyped, CountsKept
<1>6. CASE TypeText(p)
  <2>1. PICK t \in Edited(pads[p].text) : pads' = [pads EXCEPT ![p].text = t]
    BY <1>6 DEF TypeText
  <2>2. t \in Seq(Typeable) /\ Len(t) <= Cap
    <3> DEFINE s == pads[p].text
    <3>1. s \in Seq(Typeable) /\ Len(s) \in Nat /\ Len(s) <= Cap
      BY <1>1, <1>2, LenProperties
    <3>2. CASE \E c \in Typeable : t = Append(s, c) /\ Len(s) < Cap
      BY <1>1, <3>1, <3>2, AppendProperties
    <3>3. CASE s # << >> /\ t = Front(s)
      BY <1>1, <3>1, <3>3 DEF Front
    <3> QED
      BY <2>1, <3>2, <3>3 DEF Edited
  <2> DEFINE q == [pads[p] EXCEPT !.text = t]
  <2>3. q \in Pad /\ q.text = t /\ pads' = [pads EXCEPT ![p] = q]
    BY <1>1, <2>1, <2>2 DEF Pad, Contents, PadsKept
  <2>4. PadsKept'
    <3> HIDE DEF q
    <3> QED
      BY <1>1, <1>6, <2>2, <2>3, PadChanges DEF TypeText
  <2>5. keys' \in 0 .. Steps /\ TableTyped(files)' /\ UNCHANGED <<made, icons>>
    <3>1. keys < Steps /\ keys' = keys + 1 /\ UNCHANGED <<files, made, icons>>
      BY <1>6 DEF TypeText
    <3>2. keys \in 0 .. Steps /\ Steps \in Nat /\ TableTyped(files)
      BY DocumentsNumbers DEF DocumentsInv, CountsKept
    <3> QED
      BY <3>1, <3>2 DEF TableTyped
  <2> QED
    BY <1>4, <2>4, <2>5 DEF DocumentsInv, CountsKept
<1>7. CASE TypeName(p)
  <2>1. keys < Steps /\ keys' = keys + 1 /\ UNCHANGED <<files, made, icons>>
    BY <1>7 DEF TypeName
  <2>2. keys' \in 0 .. Steps
    BY <2>1, DocumentsNumbers DEF DocumentsInv, CountsKept
  <2>3. PICK n \in Names \cup {""} : pads' = [pads EXCEPT ![p].name = n]
    BY <1>7 DEF TypeName
  <2> DEFINE q == [pads[p] EXCEPT !.name = n]
  <2>4. q \in Pad /\ q.text = pads[p].text /\ pads' = [pads EXCEPT ![p] = q]
    BY <1>1, <2>3 DEF Pad, PadsKept
  <2>5. PadsKept'
    <3> HIDE DEF q
    <3> QED
      BY <1>1, <1>7, <2>4, PadChanges DEF TypeName
  <2> QED
    BY <1>4, <2>1, <2>2, <2>5 DEF DocumentsInv, TableTyped, CountsKept
<1>8. CASE Focus(p)
  <2> DEFINE q == [pads[p] EXCEPT !.naming = ~@]
  <2>1. q \in Pad /\ q.text = pads[p].text /\ pads' = [pads EXCEPT ![p] = q]
    BY <1>1, <1>8 DEF Pad, PadsKept, Focus
  <2>2. PadsKept'
    <3> HIDE DEF q
    <3> QED
      BY <1>1, <1>8, <2>1, PadChanges DEF Focus
  <2> QED
    BY <1>4, <1>8, <2>2 DEF Focus, DocumentsInv, TableTyped, CountsKept
<1>9. CASE SavePad(p)
  <2> DEFINE name == IF pads[p].name = "" THEN Untitled ELSE pads[p].name
             q == [pads[p] EXCEPT !.name = name, !.naming = FALSE]
  <2>1. name \in Names
    BY <1>2 DEF DocumentsAssumption
  <2>2. /\ files' = WithFile(files, name, pads[p].text)
        /\ icons' = icons \cup {name}
        /\ pads' = [pads EXCEPT ![p].name = name, ![p].naming = FALSE]
        /\ UNCHANGED <<list, made, keys, opened>>
    BY <1>9 DEF SavePad
  <2>3. TableTyped(files)'
    <3>1. TableTyped(files) /\ pads[p].text \in Contents
      BY <1>2 DEF DocumentsInv, Contents
    <3>2. TableTyped(WithFile(files, name, pads[p].text))
      BY <2>1, <3>1, StoredTyped
    <3> QED
      BY <2>2, <3>2
  <2> HIDE DEF name
  <2>4. q \in Pad /\ q.text = pads[p].text
    BY <1>1, <2>1 DEF Pad
  <2>5. pads' = [pads EXCEPT ![p] = q]
    BY <1>1, <2>2 DEF PadsKept
  <2>6. PadsKept'
    <3> HIDE DEF q
    <3> QED
      BY <1>1, <2>2, <2>4, <2>5, PadChanges
  <2>7. CountsKept'
    BY <2>1, <2>2 DEF DocumentsInv, CountsKept
  <2> QED
    BY <1>4, <2>3, <2>6, <2>7 DEF DocumentsInv
<1> QED
  BY <1>5, <1>6, <1>7, <1>8, <1>9

(* The list, its keys and a terminal. *)
LEMMA ListStep ==
    ASSUME DocumentsAssumption, DocumentsInv,
           LaunchFiles \/ CloseFiles \/ SelectName \/ RemoveFile \/ MakeFile
             \/ \E n \in Names : Elsewhere(n)
    PROVE  DocumentsInv'
<1>1. PadsKept'
  <2>1. UNCHANGED <<pads, opened>>
    BY DEF LaunchFiles, CloseFiles, SelectName, RemoveFile, MakeFile, Elsewhere
  <2> QED
    BY <2>1 DEF DocumentsInv, PadsKept
<1>2. TableTyped(files) /\ list \in List /\ (list.shown => OnTheList(list))
  BY DEF DocumentsInv, ListKept
<1>3. CASE LaunchFiles
  <2> DEFINE l == [NoList EXCEPT !.shown = TRUE]
  <2>1. l \in List
    BY EmptySeq DEF NoList, List
  <2>2. list' = Refreshed(l, files) /\ UNCHANGED <<files, made, icons, keys>>
    BY <1>3 DEF LaunchFiles
  <2> HIDE DEF l
  <2>3. Refreshed(l, files) \in List /\ OnTheList(Refreshed(l, files))
    BY <1>2, <2>1, RefreshedIs DEF List
  <2> QED
    BY <1>1, <2>2, <2>3 DEF DocumentsInv, TableTyped, ListKept, CountsKept
<1>4. CASE CloseFiles
  <2>1. NoList \in List /\ ~NoList.shown
    BY EmptySeq DEF NoList, List
  <2> QED
    BY <1>1, <1>4, <2>1 DEF CloseFiles, DocumentsInv, TableTyped, ListKept, CountsKept
<1>5. CASE SelectName
  <2>1. list' \in List /\ OnTheList(list')
    <3>1. OnTheList(list) /\ Len(list.names) \in Nat
          /\ list.names \in Seq(Names) /\ list.selected \in Nat /\ (list.names = << >> => Len(list.names) = 0)
      BY <1>2, <1>5, LenProperties, EmptySeq DEF SelectName, OnTheList
    <3>2. PICK s \in Nat : /\ list' = [list EXCEPT !.selected = s]
                           /\ \/ s = list.selected
                              \/ list.selected > 1 /\ s = list.selected - 1
                              \/ list.selected < Len(list.names) /\ s = list.selected + 1
      <4> DEFINE up == IF list.selected > 1 THEN list.selected - 1 ELSE list.selected
                 down == IF list.selected < Len(list.names) THEN list.selected + 1 ELSE list.selected
      <4>1. CASE list' = [list EXCEPT !.selected = up]
        <5>1. up \in Nat /\ (up = list.selected \/ (list.selected > 1 /\ up = list.selected - 1))
          BY <3>1
        <5> HIDE DEF up
        <5> QED
          BY <4>1, <5>1
      <4>2. CASE list' = [list EXCEPT !.selected = down]
        <5>1. down \in Nat /\ (down = list.selected
                                 \/ (list.selected < Len(list.names) /\ down = list.selected + 1))
          BY <3>1
        <5> HIDE DEF down
        <5> QED
          BY <4>2, <5>1
      <4> QED
        BY <1>5, <4>1, <4>2 DEF SelectName
    <3>3. list' \in List /\ list'.names = list.names /\ list'.selected = s
      BY <1>2, <3>2 DEF List
    <3> QED
      BY <3>1, <3>2, <3>3 DEF OnTheList
  <2> QED
    BY <1>1, <1>5, <2>1 DEF SelectName, DocumentsInv, TableTyped, ListKept, CountsKept
<1>6. CASE RemoveFile \/ MakeFile
  <2>1. TableTyped(files)' /\ list' = Refreshed(list, files') /\ CountsKept'
    <3>1. CASE RemoveFile
      BY <1>2, <3>1, RemovedTyped DEF RemoveFile, DocumentsInv, CountsKept
    <3>2. CASE MakeFile
      <4>1. made' \in 0 .. Len(Made) /\ made' # 0 /\ Len(Made) \in Nat
        BY <3>2, DocumentsNumbers DEF MakeFile, DocumentsInv, CountsKept
      <4>2. Made[made'] \in Names /\ Hello \in Contents
        BY <4>1, DocumentsNumbers
      <4>3. TableTyped(WithFile(files, Made[made'], Hello))
        BY <1>2, <4>2, StoredTyped
      <4> QED
        BY <3>2, <4>1, <4>3 DEF MakeFile, DocumentsInv, CountsKept
    <3> QED
      BY <1>6, <3>1, <3>2
  <2>2. list' \in List /\ OnTheList(list')
    BY <1>2, <2>1, RefreshedIs DEF List
  <2> QED
    BY <1>1, <2>1, <2>2 DEF DocumentsInv, ListKept
<1>7. ASSUME NEW n \in Names, Elsewhere(n) PROVE DocumentsInv'
  <2>1. TableTyped(Removed(files, n)) /\ TableTyped(WithFile(files, n, Hello))
    BY <1>2, RemovedTyped, StoredTyped DEF DocumentsAssumption
  <2>2. TableTyped(files)'
    BY <1>7, <2>1 DEF Elsewhere
  <2>3. keys' \in 0 .. Steps /\ UNCHANGED <<list, made, icons>>
    BY <1>7, DocumentsNumbers DEF Elsewhere, DocumentsInv, CountsKept
  <2> QED
    BY <1>1, <2>2, <2>3 DEF DocumentsInv, ListKept, CountsKept
<1> QED
  BY <1>3, <1>4, <1>5, <1>6, <1>7

LEMMA DocumentsStep ==
    DocumentsAssumption /\ DocumentsInv /\ [DocumentsNext]_docVars => DocumentsInv'
<1> SUFFICES ASSUME DocumentsAssumption, DocumentsInv, [DocumentsNext]_docVars PROVE DocumentsInv'
  OBVIOUS
<1>1. CASE LaunchNotepad
  <2>1. << >> \in Contents /\ Len(<< >>) <= Cap
    BY DocumentsNumbers
  <2> QED
    BY <1>1, <2>1, ShowPadKeeps DEF LaunchNotepad
<1>2. ASSUME NEW n \in Names, LaunchNotepadFile(n) PROVE DocumentsInv'
  <2> DEFINE t == TextOf(files, n)
  <2>1. t \in Contents \cup {Missing}
    BY TextTyped DEF DocumentsInv
  <2>2. ShowPad(Start(t), n, t)
    BY <1>2 DEF LaunchNotepadFile
  <2> HIDE DEF t
  <2>3. Start(t) \in Contents /\ Len(Start(t)) <= Cap
    BY <2>1, StartIs
  <2> QED
    BY <2>1, <2>2, <2>3, ShowPadKeeps
<1>3. CASE UNCHANGED docVars
  BY <1>3 DEF docVars, DocumentsInv, TableTyped, PadsKept, ListKept, CountsKept
<1> QED
  BY <1>1, <1>2, <1>3, PadStep, ListStep DEF DocumentsNext

(* A save stores the text under one name; of what was opened as it is, the *)
(* same text.                                                              *)
LEMMA SaveHarms ==
    ASSUME DocumentsAssumption, DocumentsInv, NEW p \in ShownPads, SavePad(p)
    PROVE  /\ \A n \in Names \ {pads'[p].name} : TextOf(files', n) = TextOf(files, n)
           /\ opened[p] # Missing /\ opened[p] = TextOf(files, pads[p].name) /\ Len(opened[p]) <= Cap
                => files' = files
<1> DEFINE name == IF pads[p].name = "" THEN Untitled ELSE pads[p].name
<1>1. p \in PadSlots /\ pads \in [PadSlots -> Pad] /\ TableTyped(files)
  BY DEF ShownPads, DocumentsInv, PadsKept
<1>2. DOMAIN files \subseteq Nat /\ Apart(files) /\ DOMAIN files = 1 .. Slots
  BY <1>1 DEF TableTyped
<1>3. files' = WithFile(files, name, pads[p].text) /\ pads'[p].name = name
  BY <1>1 DEF SavePad, Pad
<1>4. ASSUME NEW n, n # name PROVE TextOf(files', n) = TextOf(files, n)
  <2>1. DOMAIN files \subseteq Nat /\ Apart(files)
    BY <1>2
  <2> HIDE DEF name
  <2> QED
    BY <1>3, <1>4, <2>1, StoredText
<1>5. ASSUME opened[p] # Missing, opened[p] = TextOf(files, pads[p].name), Len(opened[p]) <= Cap
      PROVE  files' = files
  <2>1. Has(files, pads[p].name) /\ pads[p].name # ""
    BY <1>1, <1>5, TextTyped
  <2>2. pads[p].text = opened[p]
    <3>1. opened[p] \in Contents \cup {Missing} /\ pads[p].text = Start(opened[p])
      BY <1>1, <1>5 DEF DocumentsInv, PadsKept
    <3> QED
      BY <1>5, <3>1, StartIs
  <2>3. name = pads[p].name
    BY <2>1
  <2>4. PICK k \in DOMAIN files :
           /\ Slot(files, name) = {k} /\ Min(Slot(files, name)) = k
           /\ files[k] # Unused /\ files[k].name = name /\ TextOf(files, name) = files[k].text
    <3>1. Has(files, name) /\ DOMAIN files \subseteq Nat /\ Apart(files)
      BY <1>2, <2>1, <2>3
    <3> HIDE DEF name
    <3> QED
      BY <3>1, SlotIs
  <2>5. files[k] \in Entry
    BY <1>1, <1>2, <2>4 DEF TableTyped
  <2>6. files[k] = [name |-> name, text |-> pads[p].text]
    BY <1>5, <2>2, <2>3, <2>4, <2>5 DEF Entry
  <2>7. files' = [files EXCEPT ![k] = [name |-> name, text |-> pads[p].text]]
    BY <1>3, <2>1, <2>3, <2>4 DEF WithFile, Full
  <2> HIDE DEF name
  <2>8. [files EXCEPT ![k] = files[k]] = files
    BY <1>1 DEF TableTyped
  <2> QED
    BY <2>6, <2>7, <2>8
<1> HIDE DEF name
<1> QED
  BY <1>3, <1>4, <1>5

LEMMA InvListed == DocumentsInv => SelectionListed
<1> SUFFICES ASSUME DocumentsInv, list.shown
             PROVE  /\ list.names # << >> => list.selected \in DOMAIN list.names
                    /\ IsInjective(list.names)
  BY DEF SelectionListed
<1>1. OnTheList(list)
  BY DEF DocumentsInv, ListKept
<1> QED
  BY <1>1, LenProperties DEF OnTheList

(* For every set of files, notepads and keys, while a terminal writes and  *)
(* removes files as well: saving a notepad nothing was typed into harms no *)
(* file, no save touches another file, and the list of files, however many *)
(* went meanwhile, has its selection on a name it shows, each name once.   *)
THEOREM SavesAreHarmless ==
    ASSUME DocumentsAssumption
    PROVE  DocumentsSpec => []DocumentsTypeOK /\ DocumentsKept
<1>1. DocumentsInit => DocumentsInv
  BY DocumentsInitInv
<1>2. DocumentsInv /\ [DocumentsNext]_docVars => DocumentsInv'
  BY DocumentsStep
<1>3. DocumentsInv => SelectionListed
  BY InvListed
<1>4. DocumentsInv => DocumentsTypeOK
  <2> SUFFICES ASSUME DocumentsInv PROVE DocumentsTypeOK
    OBVIOUS
  <2>1. Len(files) = Slots
    <3>1. Slots \in Nat /\ files \in [1 .. Slots -> Entry \cup {Unused}]
      BY DocumentsNumbers DEF DocumentsInv, TableTyped
    <3>2. files \in Seq(Entry \cup {Unused}) /\ DOMAIN files = 1 .. Slots
      BY <3>1, SeqDef
    <3> QED
      BY <3>1, <3>2, LenProperties
  <2>2. \A p \in PadSlots : Len(pads[p].text) <= Cap /\ pads[p].name \in Names \cup {""}
    BY DEF DocumentsInv, PadsKept, Pad
  <2> QED
    BY <2>1, <2>2 DEF DocumentsInv, CountsKept, DocumentsTypeOK
<1> DEFINE Harmless(p) ==
             SavePad(p) =>
               /\ \A n \in Names \ {pads'[p].name} : TextOf(files', n) = TextOf(files, n)
               /\ opened[p] # Missing /\ opened[p] = TextOf(files, pads[p].name)
                    /\ Len(opened[p]) <= Cap => files' = files
<1>5. DocumentsInv /\ [DocumentsNext]_docVars => [\A p \in ShownPads : Harmless(p)]_docVars
  BY SaveHarms
<1> QED
  BY <1>1, <1>2, <1>3, <1>4, <1>5, PTL DEF DocumentsSpec, DocumentsKept, SaveHarmless

=============================================================================
