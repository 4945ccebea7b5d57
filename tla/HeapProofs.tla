----------------------------- MODULE HeapProofs -----------------------------
(***************************************************************************)
(* Proofs about the kernel heap for every size of the heap, of its headers *)
(* and of the requests.  The operations are functions of a list b, so the  *)
(* invariant is stated of any list: krealloc passes through lists that are *)
(* never the heap between two calls.                                       *)
(***************************************************************************)
EXTENDS Heap, WellFoundedInduction, NaturalsInduction, TLAPS

Stop(b, a) == a + Header + b[a].size

Typed(b) ==
    /\ b = [x \in DOMAIN b |-> b[x]]
    /\ DOMAIN b \subseteq Addresses
    /\ \A a \in DOMAIN b : b[a] \in Block

Chained(b) ==
    /\ 0 \in DOMAIN b /\ b[0].prev = NoBlock
    /\ \A a \in DOMAIN b :
        \/ b[a].next = NoBlock /\ Stop(b, a) = HeapUnits
        \/ /\ b[a].next \in DOMAIN b
           /\ b[a].next = Stop(b, a) /\ b[Stop(b, a)].prev = a
    /\ \A a, c \in DOMAIN b : a < c => Stop(b, a) <= c

(* Two free neighbours, but for the block x and the one before it *)
LonelyBut(b, x) ==
    \A a \in DOMAIN b :
        b[a].next # NoBlock => b[a].used \/ b[b[a].next].used \/ b[a].next = x

Lonely(b) ==
    \A a \in DOMAIN b : b[a].next # NoBlock => b[a].used \/ b[b[a].next].used

UsedIn(b) == {a \in DOMAIN b : b[a].used}

Good(b) == Typed(b) /\ Chained(b) /\ Lonely(b)

-----------------------------------------------------------------------------
(* Numbers *)

LEMMA LeastExists ==
    ASSUME NEW S \in SUBSET Nat, S # {}
    PROVE  \E n \in S : \A m \in S : n <= m
<1>1. PICK n \in S : \A m \in S : ~ (<<m, n>> \in OpToRel(<, Nat))
  BY NatLessThanWellFounded, WFMin, Zenon
<1>2. ASSUME NEW m \in S PROVE n <= m
  <2>1. n \in Nat /\ m \in Nat
    OBVIOUS
  <2>2. ~ (m < n)
    BY <1>1, <2>1 DEF OpToRel
  <2> QED
    BY <2>1, <2>2
<1> QED
  BY <1>2

LEMMA LargestBelow ==
    ASSUME NEW x \in Nat, NEW S \in SUBSET Nat, 0 \in S
    PROVE  \E a \in S : a <= x /\ \A c \in S : c <= x => c <= a
<1> DEFINE D == {d \in Nat : x - d \in S}
<1>1. x \in D /\ D \in SUBSET Nat
  OBVIOUS
<1>2. PICK d \in D : \A e \in D : d <= e
  BY <1>1, LeastExists
<1>3. ASSUME NEW c \in S, c <= x PROVE c <= x - d
  <2>1. c \in Nat /\ x - c \in Nat /\ x - (x - c) = c
    BY <1>3
  <2>2. x - c \in D
    BY <2>1
  <2>3. d <= x - c
    BY <1>2, <2>2
  <2> QED
    BY <2>1, <2>3
<1> QED
  BY <1>2, <1>3

(* The mask of kmalloc rounds up. *)
LEMMA RoundUp == ASSUME NEW n \in Nat PROVE Round(n) \in Nat /\ Round(n) >= n
<1> USE HeapAssumption
<1> DEFINE q == (n + Grain - 1) \div Grain
<1>1. q \in Nat /\ n + Grain - 1 < (q + 1) * Grain
  OBVIOUS
<1>2. (q + 1) * Grain = q * Grain + Grain /\ q * Grain \in Nat
  BY <1>1
<1> HIDE DEF q
<1>3. q * Grain >= n
  BY <1>1, <1>2
<1> QED
  BY <1>2, <1>3 DEF Round, q

-----------------------------------------------------------------------------
(* Lists *)

LEMMA Sizes ==
    /\ Header \in Nat \ {0} /\ Grain \in Nat \ {0} /\ HeapUnits \in Nat /\ HeapUnits > Header
    /\ Addresses \subseteq Nat /\ NoBlock \notin Addresses
    /\ \A r \in Block : /\ r.size \in Nat /\ r.used \in BOOLEAN
                        /\ r.next \in Addresses \cup {NoBlock}
                        /\ r.prev \in Addresses \cup {NoBlock}
    /\ \A a \in Addresses : a \in Nat /\ a <= HeapUnits - Header
BY HeapAssumption DEF Addresses, NoBlock, Block

(* A block that ends the list or not ends within the heap. *)
LEMMA StopType ==
    ASSUME NEW b, Typed(b), Chained(b), NEW a \in DOMAIN b
    PROVE  /\ a \in Nat /\ b[a].size \in Nat /\ Stop(b, a) \in Nat
           /\ a < Stop(b, a) /\ Stop(b, a) <= HeapUnits
<1>1. a \in Nat /\ b[a].size \in Nat
  BY Sizes DEF Typed
<1>2. Stop(b, a) \in Nat /\ a < Stop(b, a)
  BY <1>1, Sizes DEF Stop
<1>3. Stop(b, a) <= HeapUnits
  <2>1. CASE Stop(b, a) = HeapUnits
    BY <2>1, Sizes
  <2>2. CASE Stop(b, a) \in DOMAIN b
    BY <2>2, Sizes DEF Typed
  <2> QED
    BY <2>1, <2>2 DEF Chained
<1> QED
  BY <1>1, <1>2, <1>3

(* Every word of the heap is in a block: there are no gaps. *)
LEMMA Covered ==
    ASSUME NEW b, Typed(b), Chained(b), NEW x \in Nat, x < HeapUnits
    PROVE  \E a \in DOMAIN b : a <= x /\ x < Stop(b, a)
<1>1. DOMAIN b \in SUBSET Nat /\ 0 \in DOMAIN b
  BY Sizes DEF Typed, Chained
<1>2. PICK a \in DOMAIN b : a <= x /\ \A c \in DOMAIN b : c <= x => c <= a
  BY <1>1, LargestBelow
<1>3. Stop(b, a) \in Nat /\ a < Stop(b, a)
  BY StopType
<1>4. ASSUME Stop(b, a) <= x PROVE FALSE
  <2>1. Stop(b, a) # HeapUnits
    BY <1>4, Sizes
  <2>2. Stop(b, a) \in DOMAIN b
    BY <2>1 DEF Chained
  <2>3. Stop(b, a) <= a
    BY <1>2, <1>4, <2>2
  <2> QED
    BY <1>1, <1>3, <2>3
<1> QED
  BY <1>2, <1>3, <1>4

(* Back links are forward links of the block before. *)
LEMMA BackLink ==
    ASSUME NEW b, Typed(b), Chained(b), NEW a \in DOMAIN b, b[a].prev # NoBlock
    PROVE  /\ b[a].prev \in DOMAIN b /\ b[b[a].prev].next = a
           /\ b[a].prev < a
<1>1. a \in Nat /\ a # 0 /\ a <= HeapUnits - Header
  BY Sizes DEF Typed, Chained
<1>2. a - 1 \in Nat /\ a - 1 < HeapUnits
  BY <1>1, Sizes
<1>3. PICK c \in DOMAIN b : c <= a - 1 /\ a - 1 < Stop(b, c)
  BY <1>2, Covered
<1>4. c \in Nat /\ Stop(b, c) \in Nat
  BY StopType
<1>5. c < a
  BY <1>1, <1>3, <1>4
<1>6. Stop(b, c) <= a
  BY <1>5 DEF Chained
<1>7. Stop(b, c) = a
  BY <1>1, <1>3, <1>4, <1>6
<1>8. b[c].next = a /\ b[a].prev = c
  BY <1>1, <1>7, Sizes DEF Chained
<1> QED
  BY <1>5, <1>8

-----------------------------------------------------------------------------
(* split *)

(* d is the list b with the block c cut from the end of a, which keeps n *)
CutAt(b, a, n, c, d) ==
    /\ Typed(d) /\ Chained(d)
    /\ c \notin DOMAIN b /\ DOMAIN d = DOMAIN b \cup {c} /\ a # c
    /\ d[a].size = n /\ d[a].used = b[a].used /\ d[a].next = c
    /\ d[c].used = FALSE /\ d[c].next = b[a].next
    /\ \A x \in DOMAIN b \ {a} :
         d[x].size = b[x].size /\ d[x].used = b[x].used /\ d[x].next = b[x].next

LEMMA CarvedList ==
    ASSUME NEW b, Typed(b), Chained(b), NEW a \in DOMAIN b, NEW n \in Nat,
           b[a].size >= n + Header + Grain
    PROVE  CutAt(b, a, n, a + Header + n, Carved(b, a, n))
<1> DEFINE c == a + Header + n
           d == Carved(b, a, n)
           e == b[a].next
<1>1. /\ a \in Nat /\ a \in Addresses /\ c \in Nat /\ a < c
      /\ Stop(b, a) = a + Header + b[a].size /\ Stop(b, a) \in Nat
      /\ c + Header <= Stop(b, a) /\ Stop(b, a) <= HeapUnits
  BY Sizes, StopType DEF Typed, Stop
<1>2. c \in Addresses
  BY <1>1, Sizes DEF Addresses
<1>3. \A x \in DOMAIN b : x \in Nat /\ (x < a => Stop(b, x) <= a) /\ (a < x => Stop(b, a) <= x)
  BY StopType DEF Chained
<1>4. c \notin DOMAIN b
  BY <1>1, <1>3, Sizes
<1>5. b[a] \in Block /\ \A x \in DOMAIN b : b[x] \in Block
  BY DEF Typed
<1>6. /\ DOMAIN d = DOMAIN b \cup {c}
      /\ d[a] = [b[a] EXCEPT !.size = n, !.next = c]
      /\ d[c] = [size |-> b[a].size - n - Header, used |-> FALSE, next |-> e, prev |-> a]
      /\ \A x \in DOMAIN b \ {a} : x # e => d[x] = b[x]
      /\ \A x \in DOMAIN b \ {a} : x = e => d[x] = [b[x] EXCEPT !.prev = c]
      /\ d = [x \in DOMAIN d |-> d[x]]
  BY <1>1, <1>4 DEF Carved
<1> HIDE DEF d
<1>7. /\ d[a].size = n /\ d[a].used = b[a].used /\ d[a].next = c /\ d[a].prev = b[a].prev
      /\ d[c].size = b[a].size - n - Header /\ d[c].used = FALSE /\ d[c].next = e /\ d[c].prev = a
  BY <1>5, <1>6 DEF Block
<1>8. \A x \in DOMAIN b \ {a} :
        /\ d[x].size = b[x].size /\ d[x].used = b[x].used /\ d[x].next = b[x].next
        /\ d[x].prev = IF x = e THEN c ELSE b[x].prev
  BY <1>5, <1>6 DEF Block
<1>9. Typed(d)
  <2>1. d[a] \in Block
    <3>1. n \in 0 .. HeapUnits
      BY <1>1, Sizes, <1>5
    <3> QED
      BY <1>2, <1>5, <1>6, <3>1 DEF Block
  <2>2. d[c] \in Block
    <3>1. b[a].size - n - Header \in 0 .. HeapUnits
      BY <1>1, Sizes, <1>5
    <3> QED
      BY <1>1, <1>5, <1>6, <3>1 DEF Block
  <2>3. ASSUME NEW x \in DOMAIN b \ {a} PROVE d[x] \in Block
    BY <1>2, <1>5, <1>6 DEF Block
  <2>4. DOMAIN d \subseteq Addresses
    BY <1>2, <1>6 DEF Typed
  <2> QED
    BY <1>6, <2>1, <2>2, <2>3, <2>4 DEF Typed
<1>10. /\ Stop(d, a) = c /\ Stop(d, c) = Stop(b, a)
       /\ \A x \in DOMAIN b \ {a} : Stop(d, x) = Stop(b, x)
  BY <1>1, <1>5, <1>7, <1>8, Sizes DEF Stop
<1>11. Chained(d)
  <2>1. 0 \in DOMAIN d /\ d[0].prev = NoBlock
    <3>1. 0 \in DOMAIN b /\ b[0].prev = NoBlock
      BY DEF Chained
    <3>2. e # 0
      <4>1. e = NoBlock \/ e = Stop(b, a)
        BY DEF Chained
      <4> QED
        BY <4>1, <1>1, Sizes DEF NoBlock
    <3> QED
      BY <3>1, <3>2, <1>6, <1>7, <1>8
  <2>2. ASSUME NEW x \in DOMAIN d
        PROVE  \/ d[x].next = NoBlock /\ Stop(d, x) = HeapUnits
               \/ /\ d[x].next \in DOMAIN d
                  /\ d[x].next = Stop(d, x) /\ d[Stop(d, x)].prev = x
    <3>1. CASE x = a
      BY <3>1, <1>6, <1>7, <1>10
    <3>2. CASE x = c
      <4>1. CASE e = NoBlock
        BY <4>1, <3>2, <1>7, <1>10, Sizes DEF Chained, Typed
      <4>2. CASE e \in DOMAIN b /\ e = Stop(b, a)
        <5>1. e # a /\ e \in DOMAIN d
          BY <4>2, <1>1, <1>6, Sizes
        <5> QED
          BY <4>2, <5>1, <3>2, <1>7, <1>8, <1>10
      <4> QED
        BY <4>1, <4>2, Sizes DEF Chained, Typed
    <3>3. CASE x \in DOMAIN b \ {a}
      <4>1. CASE b[x].next = NoBlock
        BY <4>1, <3>3, <1>8, <1>10, Sizes DEF Chained, Typed
      <4>2. CASE b[x].next \in DOMAIN b /\ b[x].next = Stop(b, x) /\ b[Stop(b, x)].prev = x
        <5>1. b[x].next # e
          BY <4>2, <3>3, <1>1, Sizes DEF Chained, Typed
        <5>2. CASE b[x].next = a
          <6>1. d[x].next = a /\ Stop(d, x) = a /\ d[a].prev = x /\ a \in DOMAIN d
            BY <5>2, <4>2, <3>3, <1>6, <1>7, <1>8, <1>10
          <6> QED
            BY <6>1
        <5>3. CASE b[x].next # a
          BY <5>1, <5>3, <4>2, <3>3, <1>6, <1>8, <1>10
        <5> QED
          BY <5>2, <5>3
      <4> QED
        BY <4>1, <4>2, <3>3 DEF Chained
    <3> QED
      BY <3>1, <3>2, <3>3, <1>6
  <2>3. ASSUME NEW x \in DOMAIN d, NEW y \in DOMAIN d, x < y
        PROVE  Stop(d, x) <= y
    <3>1. CASE x = c
      BY <3>1, <2>3, <1>1, <1>3, <1>6, <1>10
    <3>2. CASE y = c
      BY <3>2, <2>3, <1>1, <1>3, <1>6, <1>10, StopType, Sizes
    <3>3. CASE x \in DOMAIN b /\ y \in DOMAIN b
      BY <3>3, <2>3, <1>1, <1>3, <1>10, Sizes DEF Chained
    <3> QED
      BY <3>1, <3>2, <3>3, <1>6
  <2> QED
    BY <2>1, <2>2, <2>3 DEF Chained
<1> HIDE DEF c
<1>12. CutAt(b, a, n, c, d)
  BY <1>1, <1>4, <1>6, <1>7, <1>8, <1>9, <1>11 DEF CutAt
<1> QED
  BY <1>12 DEF c, d

(* d is the list b with the block a taken for n words *)
TakenAt(b, a, n, d) ==
    /\ Good(d) /\ UsedIn(d) = UsedIn(b) \cup {a}
    /\ d[a].size >= n /\ Stop(d, a) <= Stop(b, a)
    /\ \A x \in UsedIn(b) : d[x].size = b[x].size

(* kmalloc takes a free block: the rest it leaves has used neighbours. *)
LEMMA TakenList ==
    ASSUME NEW b, Good(b), NEW a \in DOMAIN b, ~b[a].used, NEW n \in Nat, b[a].size >= n
    PROVE  TakenAt(b, a, n, Taken(b, a, n))
<1> DEFINE s == Split(b, a, n)
           d == Taken(b, a, n)
<1> HIDE DEF s, d
<1>1. /\ Typed(s) /\ Chained(s) /\ a \in DOMAIN s
      /\ DOMAIN b \subseteq DOMAIN s
      /\ \A x \in DOMAIN s \ DOMAIN b : s[x].used = FALSE /\ s[x].next = b[a].next /\ s[a].next = x
      /\ \A x \in DOMAIN b : s[x].used = b[x].used
      /\ \A x \in DOMAIN b \ {a} : s[x].size = b[x].size /\ s[x].next = b[x].next
      /\ s[a].size >= n /\ s[a].size <= b[a].size
      /\ s[a].next = b[a].next \/ s[a].next \notin DOMAIN b
  <2>0. b[a].size \in Nat /\ n + Header + Grain \in Nat
    BY Sizes, StopType DEF Good
  <2>1. CASE b[a].size < n + Header + Grain
    <3>1. s = b
      BY <2>1 DEF Split, s
    <3> QED
      BY <3>1, <2>0 DEF Good
  <2>2. CASE b[a].size >= n + Header + Grain
    <3>1. s = Carved(b, a, n)
      BY <2>0, <2>2 DEF Split, s
    <3> DEFINE c == a + Header + n
    <3> HIDE DEF c
    <3>2. CutAt(b, a, n, c, s)
      BY <2>2, <3>1, CarvedList DEF Good, c
    <3>3. n <= b[a].size
      BY <2>0, <2>2, Sizes
    <3> QED
      BY <3>2, <3>3 DEF CutAt
  <2>3. b[a].size < n + Header + Grain \/ b[a].size >= n + Header + Grain
    BY <2>0
  <2> QED
    BY <2>1, <2>2, <2>3, Zenon
<1>2. /\ DOMAIN d = DOMAIN s /\ d = [x \in DOMAIN d |-> d[x]]
      /\ d[a] = [s[a] EXCEPT !.used = TRUE]
      /\ \A x \in DOMAIN s \ {a} : d[x] = s[x]
  BY <1>1 DEF Taken, s, d, Typed
<1>3. /\ d[a].used = TRUE /\ d[a].size = s[a].size /\ d[a].next = s[a].next /\ d[a].prev = s[a].prev
      /\ d[a] \in Block
  BY <1>1, <1>2, ZenonT(60) DEF Typed, Block
<1>4. \A x \in DOMAIN s : d[x].size = s[x].size /\ d[x].next = s[x].next /\ d[x].prev = s[x].prev
                          /\ Stop(d, x) = Stop(s, x)
  BY <1>2, <1>3 DEF Stop
<1>5. Typed(d)
  BY <1>1, <1>2, <1>3 DEF Typed
<1>6. Chained(d)
  BY <1>1, <1>2, <1>4 DEF Chained
<1>7. Lonely(d)
  <2> SUFFICES ASSUME NEW x \in DOMAIN s, s[x].next # NoBlock
               PROVE  d[x].used \/ d[s[x].next].used
    BY <1>2, <1>4 DEF Lonely
  <2>1. s[x].next \in DOMAIN s
    BY <1>1 DEF Chained
  <2>2. CASE x = a \/ s[x].next = a
    BY <2>2, <1>3
  <2>3. CASE x \in DOMAIN b /\ x # a /\ s[x].next # a
    BY <2>1, <2>3, <1>1, <1>2 DEF Good, Lonely, Chained
  <2>4. CASE x \notin DOMAIN b /\ s[x].next # a /\ x # a
    <3>1. s[x].next = b[a].next /\ b[a].next # NoBlock
      BY <1>1, <2>4
    <3>2. b[a].next \in DOMAIN b /\ b[b[a].next].used
      BY <3>1 DEF Good, Lonely, Chained
    <3> QED
      BY <3>1, <3>2, <2>4, <1>1, <1>2
  <2> QED
    BY <2>2, <2>3, <2>4
<1>8. UsedIn(d) = UsedIn(b) \cup {a}
  BY <1>1, <1>2, <1>3, ZenonT(60) DEF UsedIn
<1>9. Stop(d, a) <= Stop(b, a)
  <2>1. a \in Nat /\ d[a].size \in Nat /\ b[a].size \in Nat
    BY <1>1, <1>3, Sizes, StopType DEF Good
  <2> QED
    BY <2>1, <1>1, <1>3, Sizes DEF Stop
<1>10. \A x \in UsedIn(b) : d[x].size = b[x].size
  BY <1>1, <1>2 DEF UsedIn
<1> QED
  BY <1>1, <1>3, <1>5, <1>6, <1>7, <1>8, <1>9, <1>10 DEF Good, d, TakenAt

-----------------------------------------------------------------------------
(* coalesce *)

(* d is the list b in which p has taken the room of the block n after it *)
Joined(b, p, n, d) ==
    /\ Typed(d) /\ Chained(d)
    /\ DOMAIN d = DOMAIN b \ {n}
    /\ d[p].used = b[p].used /\ d[p].next = b[n].next
    /\ \A x \in DOMAIN b \ {p, n} :
         d[x].size = b[x].size /\ d[x].used = b[x].used /\ d[x].next = b[x].next

LEMMA MergedList ==
    ASSUME NEW b, Typed(b), Chained(b), NEW p \in DOMAIN b,
           NEW n, b[p].next = n, n # NoBlock
    PROVE  n \in DOMAIN b /\ p # n /\ Joined(b, p, n, Merge(b, p, n))
<1> DEFINE e == b[n].next
           d == Merge(b, p, n)
<1> HIDE DEF e, d
<1>1. /\ n \in DOMAIN b /\ n = Stop(b, p) /\ b[n].prev = p
  BY DEF Chained
<1>2. /\ p \in Nat /\ n \in Nat /\ p < n /\ n < Stop(b, n)
      /\ Stop(b, n) \in Nat /\ Stop(b, n) <= HeapUnits
      /\ b[p].size \in Nat /\ b[n].size \in Nat
  BY <1>1, StopType
<1>3. b[p] \in Block /\ \A x \in DOMAIN b : b[x] \in Block /\ x \in Nat
  BY Sizes DEF Typed
<1>4. /\ DOMAIN d = DOMAIN b \ {n}
      /\ d[p] = [b[p] EXCEPT !.size = @ + Header + b[n].size, !.next = e]
      /\ \A x \in DOMAIN b \ {p, n} : x # e => d[x] = b[x]
      /\ \A x \in DOMAIN b \ {p, n} : x = e => d[x] = [b[x] EXCEPT !.prev = p]
      /\ d = [x \in DOMAIN d |-> d[x]]
  BY <1>2 DEF Merge, d, e
<1>5. /\ d[p].size = b[p].size + Header + b[n].size
      /\ d[p].used = b[p].used /\ d[p].next = e /\ d[p].prev = b[p].prev
  BY <1>3, <1>4 DEF Block
<1>6. \A x \in DOMAIN b \ {p, n} :
        /\ d[x].size = b[x].size /\ d[x].used = b[x].used /\ d[x].next = b[x].next
        /\ d[x].prev = IF x = e THEN p ELSE b[x].prev
  <2> TAKE x \in DOMAIN b \ {p, n}
  <2>1. CASE x # e
    BY <2>1, <1>4
  <2>2. CASE x = e
    <3>1. d[x] = [b[x] EXCEPT !.prev = p] /\ b[x] \in Block
      BY <2>2, <1>3, <1>4
    <3> QED
      BY <2>2, <3>1 DEF Block
  <2> QED
    BY <2>1, <2>2
<1>7. /\ Stop(d, p) = Stop(b, n)
      /\ \A x \in DOMAIN b \ {p, n} : Stop(d, x) = Stop(b, x)
  <2>1. Stop(d, p) = p + Header + (b[p].size + Header + b[n].size)
    BY <1>5 DEF Stop
  <2>2. n = p + Header + b[p].size /\ Stop(b, n) = n + Header + b[n].size
    BY <1>1 DEF Stop
  <2>3. Stop(d, p) = Stop(b, n)
    BY <2>1, <2>2, <1>2, Sizes
  <2> QED
    BY <2>3, <1>6 DEF Stop
<1>8. /\ e = NoBlock /\ Stop(b, n) = HeapUnits
      \/ /\ e \in DOMAIN b \ {p, n} /\ e = Stop(b, n) /\ b[e].prev = n
  BY <1>1, <1>2 DEF Chained, e
<1>9. Typed(d)
  <2>1. b[p].size + Header + b[n].size \in 0 .. HeapUnits
    BY <1>1, <1>2, Sizes DEF Stop
  <2>2. e \in Addresses \cup {NoBlock} /\ p \in Addresses
    BY <1>1, <1>3 DEF Block, e, Typed
  <2>3. d[p] \in Block
    BY <1>3, <1>4, <2>1, <2>2 DEF Block
  <2>4. ASSUME NEW x \in DOMAIN b \ {p, n} PROVE d[x] \in Block
    <3>1. CASE x # e
      BY <3>1, <1>3, <1>4
    <3>2. CASE x = e
      <4>1. d[x] = [b[x] EXCEPT !.prev = p] /\ b[x] \in Block
        BY <3>2, <1>3, <1>4
      <4> QED
        BY <2>2, <4>1 DEF Block
    <3> QED
      BY <3>1, <3>2
  <2> QED
    BY <1>4, <2>3, <2>4 DEF Typed
<1>10. Chained(d)
  <2>1. 0 \in DOMAIN d /\ d[0].prev = NoBlock
    <3>1. 0 \in DOMAIN b /\ b[0].prev = NoBlock /\ n # 0
      BY <1>2 DEF Chained
    <3>2. e # 0
      BY <1>2, <1>8 DEF NoBlock
    <3> QED
      BY <3>1, <3>2, <1>4, <1>5, <1>6
  <2>2. ASSUME NEW x \in DOMAIN d
        PROVE  \/ d[x].next = NoBlock /\ Stop(d, x) = HeapUnits
               \/ /\ d[x].next \in DOMAIN d
                  /\ d[x].next = Stop(d, x) /\ d[Stop(d, x)].prev = x
    <3>1. CASE x = p
      BY <3>1, <1>4, <1>5, <1>6, <1>7, <1>8
    <3>2. CASE x # p
      <4>1. x \in DOMAIN b \ {p, n}
        BY <3>2, <1>4
      <4>2. CASE b[x].next = NoBlock
        BY <4>1, <4>2, <1>6, <1>7, Sizes DEF Chained, Typed
      <4>3. CASE b[x].next \in DOMAIN b /\ b[x].next = Stop(b, x) /\ b[Stop(b, x)].prev = x
        <5>1. b[x].next # n /\ b[x].next # e
          BY <4>1, <4>3, <1>1, <1>8, Sizes DEF Typed
        <5>2. d[x].next = Stop(d, x) /\ d[x].next = b[x].next /\ d[x].next \in DOMAIN d
          BY <4>1, <4>3, <5>1, <1>4, <1>6, <1>7
        <5>3. d[b[x].next].prev = x
          BY <4>1, <4>3, <5>1, <1>5, <1>6
        <5> QED
          BY <5>2, <5>3
      <4> QED
        BY <4>1, <4>2, <4>3 DEF Chained
    <3> QED
      BY <3>1, <3>2
  <2>3. ASSUME NEW x \in DOMAIN d, NEW y \in DOMAIN d, x < y
        PROVE  Stop(d, x) <= y
    <3>1. x \in DOMAIN b \ {n} /\ y \in DOMAIN b \ {n}
      BY <1>4
    <3>2. CASE x = p
      <4>1. Stop(b, p) <= y
        BY <3>1, <3>2, <2>3 DEF Chained
      <4>2. n < y
        BY <4>1, <3>1, <1>1, <1>2, <1>3
      <4>3. Stop(b, n) <= y
        BY <4>2, <3>1, <1>1 DEF Chained
      <4> QED
        BY <4>3, <3>2, <1>7
    <3>3. CASE x # p
      BY <3>1, <3>3, <2>3, <1>7 DEF Chained
    <3> QED
      BY <3>2, <3>3
  <2> QED
    BY <2>1, <2>2, <2>3 DEF Chained
<1>11. Joined(b, p, n, d)
  BY <1>4, <1>5, <1>6, <1>9, <1>10 DEF Joined, e
<1> QED
  BY <1>1, <1>2, <1>11 DEF d

(* d is the list b with the used block a given back *)
FreedAt(b, a, d) ==
    /\ Good(d) /\ UsedIn(d) = UsedIn(b) \ {a}
    /\ \A x \in UsedIn(d) : d[x].size = b[x].size

(* The block after: what is left is that a is free beside a free block     *)
(* before it.                                                              *)
LEMMA MergedNext ==
    ASSUME NEW b, Good(b), NEW a \in UsedIn(b),
           NEW m, m = MergeNext([b EXCEPT ![a].used = FALSE], a)
    PROVE  /\ Typed(m) /\ Chained(m) /\ LonelyBut(m, a)
           /\ a \in DOMAIN m /\ ~m[a].used /\ UsedIn(m) = UsedIn(b) \ {a}
           /\ \A x \in UsedIn(m) : m[x].size = b[x].size
<1> DEFINE u == [b EXCEPT ![a].used = FALSE]
           n == b[a].next
<1> HIDE DEF u, n
<1>1. /\ DOMAIN u = DOMAIN b /\ u = [x \in DOMAIN u |-> u[x]] /\ a \in DOMAIN b
      /\ u[a] = [b[a] EXCEPT !.used = FALSE] /\ b[a] \in Block /\ b[a].used
      /\ \A x \in DOMAIN b \ {a} : u[x] = b[x]
  BY DEF UsedIn, Good, Typed, u
<1>2. /\ u[a] \in Block /\ u[a].used = FALSE /\ u[a].size = b[a].size
      /\ u[a].next = b[a].next /\ u[a].prev = b[a].prev
  BY <1>1 DEF Block
<1>3. \A x \in DOMAIN b : /\ u[x].size = b[x].size /\ u[x].next = b[x].next
                          /\ u[x].prev = b[x].prev /\ Stop(u, x) = Stop(b, x)
  BY <1>1, <1>2 DEF Stop
<1>4. Typed(u)
  BY <1>1, <1>2 DEF Typed, Good
<1>5. Chained(u)
  BY <1>1, <1>3 DEF Chained, Good
<1>6. \A x \in DOMAIN b :
        b[x].next # NoBlock => x = a \/ b[x].next = a \/ u[x].used \/ u[b[x].next].used
  BY <1>1 DEF Good, Lonely, Chained
<1>7. UsedIn(u) = UsedIn(b) \ {a}
  BY <1>1, <1>2 DEF UsedIn
<1>8. CASE IsFree(u, n)
  <2>1. m = Merge(u, a, n) /\ n # NoBlock /\ u[a].next = n /\ ~u[n].used
    BY <1>2, <1>8 DEF MergeNext, IsFree, u, n
  <2>2. n \in DOMAIN u /\ a # n /\ Joined(u, a, n, m)
    <3>1. a \in DOMAIN u /\ u[a].next = n /\ n # NoBlock
      BY <1>1, <2>1
    <3>2. n \in DOMAIN u /\ a # n /\ Joined(u, a, n, Merge(u, a, n))
      BY <1>4, <1>5, <3>1, MergedList
    <3> QED
      BY <2>1, <3>2
  <2>3. Typed(m) /\ Chained(m) /\ a \in DOMAIN m /\ DOMAIN m = DOMAIN u \ {n} /\ ~m[a].used
    BY <1>1, <1>2, <2>2 DEF Joined
  <2>4. UsedIn(m) = UsedIn(u)
    BY <1>2, <2>1, <2>2 DEF UsedIn, Joined
  <2>5. \A x \in UsedIn(m) : m[x].size = b[x].size
    <3> TAKE x \in UsedIn(m)
    <3>1. x \in DOMAIN m /\ x # a /\ x # n
      BY <2>3 DEF UsedIn
    <3> QED
      BY <3>1, <1>3, <1>1, <2>2, <2>3, ZenonT(60) DEF Joined
  <2>6. LonelyBut(m, a)
    <3> SUFFICES ASSUME NEW x \in DOMAIN m, m[x].next # NoBlock
                 PROVE  m[x].used \/ m[m[x].next].used \/ m[x].next = a
      BY DEF LonelyBut
    <3>1. m[x].next \in DOMAIN m
      BY <2>3 DEF Chained
    <3>2. CASE x = a
      <4>1. m[a].next = b[n].next /\ n # a /\ n \in DOMAIN b
        BY <1>1, <1>3, <2>2 DEF Joined
      <4>2. b[n].next # a
        <5>1. b[n].next # NoBlock
          BY <3>2, <4>1
        <5>2. a \in Nat /\ a < n /\ n < Stop(b, n) /\ b[n].next = Stop(b, n)
          <6>1. b[n].next = Stop(b, n)
            BY <4>1, <5>1 DEF Good, Chained
          <6>2. n = Stop(b, a)
            BY <1>1, <2>1 DEF Good, Chained, n
          <6> QED
            BY <1>1, <4>1, <6>1, <6>2, StopType DEF Good
        <5> QED
          BY <5>2, <4>1, StopType DEF Good
      <4>3. u[b[n].next].used
        BY <3>2, <4>1, <4>2, <1>6, <2>1
      <4>4. b[n].next \in UsedIn(m)
        BY <4>1, <4>3, <3>1, <3>2, <2>3, <2>4 DEF UsedIn
      <4> QED
        BY <3>2, <4>1, <4>4 DEF UsedIn
    <3>3. CASE x # a
      <4>1. x \in DOMAIN b \ {a, n} /\ m[x].next = b[x].next /\ m[x].used = u[x].used
        BY <3>3, <1>1, <1>3, <2>2, <2>3, ZenonT(60) DEF Joined
      <4>2. b[x].next = a \/ u[x].used \/ u[b[x].next].used
        BY <4>1, <1>6
      <4>3. u[b[x].next].used => b[x].next \in UsedIn(m)
        BY <4>1, <3>1, <2>3, <2>4 DEF UsedIn
      <4> QED
        BY <4>1, <4>2, <4>3 DEF UsedIn
    <3> QED
      BY <3>2, <3>3
  <2> QED
    BY <2>3, <2>4, <2>5, <2>6, <1>7
<1>9. CASE ~IsFree(u, n)
  <2>1. m = u
    BY <1>2, <1>9 DEF MergeNext, u, n
  <2>2. LonelyBut(u, a)
    BY <1>1, <1>3, <1>6, <1>9 DEF LonelyBut, IsFree, n
  <2> QED
    BY <2>1, <2>2, <1>1, <1>2, <1>3, <1>4, <1>5, <1>7 DEF UsedIn
<1> QED
  BY <1>8, <1>9

(* kfree gives a used block back: the block before it is the last that can *)
(* be free beside it.                                                      *)
LEMMA FreedList ==
    ASSUME NEW b, Good(b), NEW a \in UsedIn(b)
    PROVE  FreedAt(b, a, Freed(b, a))
<1> DEFINE m == MergeNext([b EXCEPT ![a].used = FALSE], a)
           d == Freed(b, a)
           p == m[a].prev
<1> HIDE DEF m, d, p
<1>1. /\ Typed(m) /\ Chained(m) /\ LonelyBut(m, a)
      /\ a \in DOMAIN m /\ ~m[a].used /\ UsedIn(m) = UsedIn(b) \ {a}
      /\ \A x \in UsedIn(m) : m[x].size = b[x].size
  BY MergedNext, ZenonT(60) DEF m
<1>2. \A x \in DOMAIN m : m[x].next = a => x = p
  BY <1>1, Sizes DEF Chained, p, Typed
<1>3. CASE IsFree(m, p)
  <2>1. d = Merge(m, p, a) /\ p # NoBlock /\ ~m[p].used
    BY <1>3 DEF d, Freed, MergePrev, IsFree, m, p
  <2>2. p \in DOMAIN m /\ m[p].next = a
    BY <1>1, <2>1, BackLink DEF p
  <2>3. p # a /\ Joined(m, p, a, d) /\ a # NoBlock
    <3>1. a # NoBlock
      BY <1>1, Sizes DEF Typed
    <3> QED
      BY <1>1, <2>1, <2>2, <3>1, MergedList
  <2>4. Typed(d) /\ Chained(d) /\ DOMAIN d = DOMAIN m \ {a}
    BY <2>3 DEF Joined
  <2>5. UsedIn(d) = UsedIn(m)
    BY <1>1, <2>1, <2>2, <2>3 DEF UsedIn, Joined
  <2>6. \A x \in UsedIn(d) : d[x].size = b[x].size
    BY <1>1, <2>1, <2>3, <2>4, <2>5 DEF UsedIn, Joined
  <2>7. Lonely(d)
    <3> SUFFICES ASSUME NEW x \in DOMAIN d, d[x].next # NoBlock
                 PROVE  d[x].used \/ d[d[x].next].used
      BY DEF Lonely
    <3>1. d[x].next \in DOMAIN d
      BY <2>4 DEF Chained
    <3>2. CASE x = p
      <4>1. d[x].next = m[a].next
        BY <3>2, <2>3 DEF Joined
      <4>2. m[m[a].next].used
        BY <4>1, <3>1, <2>4, <1>1 DEF LonelyBut
      <4>3. m[a].next \in UsedIn(d)
        BY <4>1, <4>2, <3>1, <2>4, <2>5 DEF UsedIn
      <4> QED
        BY <4>1, <4>3 DEF UsedIn
    <3>3. CASE x # p
      <4>1. x \in DOMAIN m \ {p, a} /\ d[x].next = m[x].next /\ d[x].used = m[x].used
        BY <3>3, <2>3, <2>4 DEF Joined
      <4>2. m[x].used \/ m[m[x].next].used
        BY <4>1, <3>3, <1>1, <1>2 DEF LonelyBut
      <4>3. m[m[x].next].used => m[x].next \in UsedIn(d)
        BY <4>1, <3>1, <2>4, <2>5 DEF UsedIn
      <4> QED
        BY <4>1, <4>2, <4>3 DEF UsedIn
    <3> QED
      BY <3>2, <3>3
  <2> QED
    BY <2>4, <2>5, <2>6, <2>7, <1>1 DEF FreedAt, Good, d
<1>4. CASE ~IsFree(m, p)
  <2>1. d = m
    BY <1>4 DEF d, Freed, MergePrev, m, p
  <2>2. Lonely(m)
    <3> SUFFICES ASSUME NEW x \in DOMAIN m, m[x].next = a
                 PROVE  m[x].used
      BY <1>1 DEF Lonely, LonelyBut
    <3>1. x = p /\ p # NoBlock
      BY <1>1, <1>2, Sizes DEF Typed
    <3> QED
      BY <3>1, <1>4 DEF IsFree
  <2> QED
    BY <2>1, <2>2, <1>1 DEF FreedAt, Good, d
<1> QED
  BY <1>3, <1>4 DEF d

-----------------------------------------------------------------------------
(* The invariant *)

HeapInv ==
    /\ Good(blk) /\ Owned
    /\ held \subseteq 1 .. HeapUnits /\ returned \in 0 .. HeapUnits

LEMMA Pointers ==
    ASSUME HeapInv
    PROVE  /\ \A p \in held : BlockOf(p) \in UsedIn(blk) /\ Ptr(BlockOf(p)) = p
           /\ \A a \in DOMAIN blk : a \in Nat /\ BlockOf(Ptr(a)) = a /\ Ptr(a) \in 1 .. HeapUnits
           /\ \A a \in UsedIn(blk) : Ptr(a) \in held
<1>1. \A a \in DOMAIN blk : a \in Nat /\ BlockOf(Ptr(a)) = a /\ Ptr(a) \in 1 .. HeapUnits
  BY Sizes DEF HeapInv, Good, Typed, BlockOf, Ptr
<1>2. \A p \in held : Ptr(BlockOf(p)) = p /\ p \in Int
  BY Sizes DEF HeapInv, BlockOf, Ptr
<1>3. UsedIn(blk) = {BlockOf(p) : p \in held}
  BY DEF HeapInv, Owned, UsedIn
<1>4. \A a \in UsedIn(blk) : Ptr(a) \in held
  BY <1>2, <1>3
<1> QED
  BY <1>1, <1>2, <1>3, <1>4

LEMMA InvariantSound == HeapInv => HeapSound
<1> SUFFICES ASSUME HeapInv PROVE HeapSound
  OBVIOUS
<1>1. HeapTypeOK
  BY DEF HeapInv, Good, Typed, HeapTypeOK
<1>2. Linked
  BY DEF HeapInv, Good, Chained, Linked, End, Stop
<1>3. Coalesced
  BY DEF HeapInv, Good, Lonely, Coalesced
<1> QED
  BY <1>1, <1>2, <1>3 DEF HeapSound, HeapInv

LEMMA HeapInitInv == HeapInit => HeapInv
<1> SUFFICES ASSUME HeapInit PROVE HeapInv
  OBVIOUS
<1>1. /\ DOMAIN blk = {0} /\ blk = [x \in DOMAIN blk |-> blk[x]]
      /\ blk[0] = [size |-> HeapUnits - Header, used |-> FALSE, next |-> NoBlock, prev |-> NoBlock]
  BY DEF HeapInit
<1>2. blk[0] \in Block /\ 0 \in Addresses
  BY <1>1, Sizes DEF Block, Addresses
<1>3. Stop(blk, 0) = HeapUnits
  BY <1>1, Sizes DEF Stop
<1>4. Typed(blk)
  BY <1>1, <1>2 DEF Typed
<1>5. Chained(blk)
  <2>1. 0 \in DOMAIN blk /\ blk[0].prev = NoBlock /\ blk[0].next = NoBlock
    BY <1>1
  <2>2. \A a \in DOMAIN blk : blk[a].next = NoBlock /\ Stop(blk, a) = HeapUnits
    BY <1>1, <1>3, <2>1
  <2>3. \A a, c \in DOMAIN blk : a < c => Stop(blk, a) <= c
    BY <1>1
  <2> QED
    BY <2>1, <2>2, <2>3 DEF Chained
<1>6. Lonely(blk)
  BY <1>1 DEF Lonely
<1>7. Owned
  BY <1>1 DEF HeapInit, Owned
<1>8. held \subseteq 1 .. HeapUnits /\ returned \in 0 .. HeapUnits
  BY Sizes DEF HeapInit
<1> QED
  BY <1>4, <1>5, <1>6, <1>7, <1>8 DEF HeapInv, Good

LEMMA FirstFitFree ==
    ASSUME HeapInv, NEW n \in Requests, NEW a \in FirstFit(blk, Round(n))
    PROVE  /\ a \in DOMAIN blk /\ ~blk[a].used /\ n \in Nat /\ Round(n) \in Nat /\ Round(n) >= n
           /\ blk[a].size >= Round(n)
           /\ TakenAt(blk, a, Round(n), Taken(blk, a, Round(n)))
<1>1. a \in DOMAIN blk /\ ~blk[a].used /\ blk[a].size >= Round(n)
  BY DEF FirstFit
<1>2. n \in Nat /\ Round(n) \in Nat /\ Round(n) >= n
  BY RoundUp, HeapAssumption
<1> QED
  BY <1>1, <1>2, TakenList DEF HeapInv

(* The block krealloc gives back when it has the new one *)
LEMMA MovedList ==
    ASSUME HeapInv, NEW n \in Requests, NEW a \in FirstFit(blk, Round(n)), NEW p \in held,
           NEW t, t = Taken(blk, a, Round(n))
    PROVE  /\ BlockOf(p) \in UsedIn(t) /\ BlockOf(p) # a /\ Good(t)
           /\ FreedAt(t, BlockOf(p), Freed(t, BlockOf(p)))
<1>1. TakenAt(blk, a, Round(n), t) /\ ~blk[a].used
  BY FirstFitFree
<1>2. BlockOf(p) \in UsedIn(blk)
  BY Pointers
<1>3. Good(t) /\ BlockOf(p) \in UsedIn(t) /\ BlockOf(p) # a
  BY <1>1, <1>2 DEF TakenAt, UsedIn
<1> QED
  BY <1>3, FreedList

LEMMA TakeStep ==
    ASSUME HeapInv, NEW n \in Requests, NEW a \in FirstFit(blk, Round(n)),
           blk' = Taken(blk, a, Round(n)), held' = held \cup {Ptr(a)}, returned' = Ptr(a)
    PROVE  HeapInv'
<1>1. /\ TakenAt(blk, a, Round(n), blk') /\ a \in DOMAIN blk
  BY FirstFitFree
<1>2. UsedIn(blk') = {BlockOf(p) : p \in held'}
  BY <1>1, Pointers DEF TakenAt, HeapInv, Owned, UsedIn
<1>3. Ptr(a) \in 1 .. HeapUnits
  BY <1>1, Pointers
<1>4. held' \subseteq 1 .. HeapUnits /\ returned' \in 0 .. HeapUnits
  <2>1. held \subseteq 1 .. HeapUnits
    BY DEF HeapInv
  <2>2. Ptr(a) \in 0 .. HeapUnits
    BY <1>3
  <2> QED
    BY <1>3, <2>1, <2>2
<1>5. Good(blk')
  BY <1>1 DEF TakenAt
<1>6. Owned'
  BY <1>2 DEF Owned, UsedIn
<1> QED
  BY <1>4, <1>5, <1>6 DEF HeapInv, Good, Typed, Chained, Lonely, Stop

LEMMA FreeStep ==
    ASSUME HeapInv, NEW p \in held, Kfree(p)
    PROVE  HeapInv'
<1>1. FreedAt(blk, BlockOf(p), blk')
  BY FreedList, Pointers DEF HeapInv, Kfree
<1>2. UsedIn(blk') = {BlockOf(q) : q \in held'}
  BY <1>1, Pointers DEF FreedAt, HeapInv, Owned, UsedIn, Kfree
<1> QED
  BY <1>1, <1>2 DEF FreedAt, HeapInv, Owned, UsedIn, Kfree

LEMMA MoveStep ==
    ASSUME HeapInv, NEW p \in held, NEW n \in Requests, ReallocMove(p, n)
    PROVE  HeapInv'
<1>1. PICK a \in FirstFit(blk, Round(n)) :
        /\ blk' = Freed(Taken(blk, a, Round(n)), BlockOf(p))
        /\ held' = (held \ {p}) \cup {Ptr(a)} /\ returned' = Ptr(a)
  BY DEF ReallocMove
<1> DEFINE t == Taken(blk, a, Round(n))
<1> HIDE DEF t
<1>2. /\ TakenAt(blk, a, Round(n), t) /\ a \in DOMAIN blk
  BY FirstFitFree DEF t
<1>3. BlockOf(p) # a /\ FreedAt(t, BlockOf(p), blk')
  BY <1>1, MovedList DEF t
<1>4. UsedIn(blk') = (UsedIn(blk) \cup {a}) \ {BlockOf(p)}
  BY <1>2, <1>3 DEF TakenAt, FreedAt
<1>5. UsedIn(blk') = {BlockOf(q) : q \in held'}
  <2>1. UsedIn(blk) = {BlockOf(q) : q \in held}
    BY DEF HeapInv, Owned, UsedIn
  <2>2. \A q \in held : BlockOf(q) = BlockOf(p) => q = p
    BY Pointers
  <2>3. BlockOf(Ptr(a)) = a
    BY <1>2, Pointers
  <2> QED
    BY <1>1, <1>3, <1>4, <2>1, <2>2, <2>3
<1>6. Ptr(a) \in 1 .. HeapUnits
  BY <1>2, Pointers
<1>7. held' \subseteq 1 .. HeapUnits /\ returned' \in 0 .. HeapUnits
  <2>1. held \subseteq 1 .. HeapUnits
    BY DEF HeapInv
  <2>2. Ptr(a) \in 0 .. HeapUnits
    BY <1>6
  <2> QED
    BY <1>1, <1>6, <2>1, <2>2
<1>8. Good(blk')
  BY <1>3 DEF FreedAt
<1>9. Owned'
  BY <1>5 DEF Owned, UsedIn
<1> QED
  BY <1>7, <1>8, <1>9 DEF HeapInv, Good, Typed, Chained, Lonely, Stop

LEMMA HeapInductive == HeapInv /\ [HeapNext]_heapVars => HeapInv'
<1> SUFFICES ASSUME HeapInv, [HeapNext]_heapVars PROVE HeapInv'
  OBVIOUS
<1>1. CASE UNCHANGED heapVars
  BY <1>1 DEF HeapInv, Owned, heapVars
<1>2. ASSUME NEW n \in Requests, Kmalloc(n) PROVE HeapInv'
  <2>1. CASE returned' = 0 /\ UNCHANGED <<blk, held>>
    BY <2>1, Sizes DEF HeapInv, Owned
  <2> QED
    BY <1>2, <2>1, TakeStep DEF Kmalloc
<1>3. ASSUME NEW p \in held, NEW n \in Requests, Krealloc(p, n) PROVE HeapInv'
  <2>1. CASE ReallocInPlace(p, n)
    BY <2>1 DEF HeapInv, Owned, ReallocInPlace
  <2>2. CASE ReallocFails(p, n)
    BY <2>2, Sizes DEF HeapInv, Owned, ReallocFails
  <2> QED
    BY <1>3, <2>1, <2>2, MoveStep DEF Krealloc
<1> QED
  BY <1>1, <1>2, <1>3, FreeStep DEF HeapNext

LEMMA HeapInvariant == HeapSpec => []HeapInv
<1>1. HeapInit => HeapInv
  BY HeapInitInv
<1>2. HeapInv /\ [HeapNext]_heapVars => HeapInv'
  BY HeapInductive
<1> QED
  BY <1>1, <1>2, PTL DEF HeapSpec

(* Whatever is allocated, resized and freed, in heaps of every size: the   *)
(* list of kernel/heap.c covers the heap without gap or overlap, with back *)
(* links that match, no two free blocks are neighbours, and the used       *)
(* blocks are those that callers hold.                                     *)
THEOREM HeapCorrect == HeapSpec => []HeapSound
<1>1. HeapInv => HeapSound
  BY InvariantSound
<1> QED
  BY <1>1, HeapInvariant, PTL

-----------------------------------------------------------------------------
(* The heap implements the allocator *)

GrantOf(b, a) == [at |-> Ptr(a), size |-> b[a].size]
GrantsIn(b) == {GrantOf(b, a) : a \in UsedIn(b)}

LEMMA GrantsHeld ==
    ASSUME NEW b, NEW h, UsedIn(b) = {BlockOf(p) : p \in h}, h \subseteq 1 .. HeapUnits
    PROVE  {[at |-> p, size |-> b[BlockOf(p)].size] : p \in h} = GrantsIn(b)
<1>1. \A p \in h : BlockOf(p) \in UsedIn(b) /\ Ptr(BlockOf(p)) = p
  <2> TAKE p \in h
  <2>1. p \in Int /\ Header \in Int
    BY HeapAssumption
  <2> QED
    BY <2>1 DEF BlockOf, Ptr
<1>2. \A a \in UsedIn(b) : \E p \in h : a = BlockOf(p) /\ Ptr(a) = p
  BY <1>1
<1> QED
  BY <1>1, <1>2 DEF GrantsIn, GrantOf

LEMMA GrantsNow == HeapInv => Grants = GrantsIn(blk)
BY GrantsHeld DEF HeapInv, Owned, UsedIn, Grants

LEMMA GrantsThen == HeapInv' => Grants' = GrantsIn(blk')
<1> SUFFICES ASSUME HeapInv' PROVE Grants' = GrantsIn(blk')
  OBVIOUS
<1>1. UsedIn(blk') = {BlockOf(p) : p \in held'} /\ held' \subseteq 1 .. HeapUnits
  BY DEF HeapInv, Owned, UsedIn
<1> QED
  BY <1>1, GrantsHeld DEF Grants

(* Blocks of one list are apart, and within the heap. *)
LEMMA BlocksApart ==
    ASSUME NEW b, Good(b), NEW a \in DOMAIN b, NEW c \in DOMAIN b
    PROVE  /\ a # c => Alloc!Apart(GrantOf(b, a), GrantOf(b, c)) /\ Ptr(a) # Ptr(c)
           /\ Ptr(a) \in Int /\ Ptr(a) >= Header /\ Ptr(a) + b[a].size <= HeapUnits
           /\ GrantOf(b, a).at = Ptr(a) /\ GrantOf(b, a).size = b[a].size
<1>1. /\ a \in Nat /\ b[a].size \in Nat /\ Stop(b, a) <= HeapUnits
      /\ c \in Nat /\ b[c].size \in Nat
  BY StopType DEF Good
<1>2. (a < c => Stop(b, a) <= c) /\ (c < a => Stop(b, c) <= a)
  BY DEF Good, Chained
<1> QED
  BY <1>1, <1>2, Sizes DEF Stop, Alloc!Apart, GrantOf, Ptr

(* A block that kmalloc takes is a new grant, apart from all others. *)
LEMMA TakenGrants ==
    ASSUME NEW b, Good(b), NEW a \in DOMAIN b, ~b[a].used,
           NEW n \in Nat, NEW d, TakenAt(b, a, n, d)
    PROVE  /\ GrantsIn(d) = GrantsIn(b) \cup {GrantOf(d, a)} /\ GrantOf(d, a) \notin GrantsIn(b)
           /\ \A h \in GrantsIn(b) : Alloc!Apart(GrantOf(d, a), h)
<1>1. UsedIn(d) = UsedIn(b) \cup {a} /\ UsedIn(d) \subseteq DOMAIN d /\ a \notin UsedIn(b)
  BY DEF TakenAt, UsedIn
<1>2. \A x \in UsedIn(b) : GrantOf(d, x) = GrantOf(b, x)
  BY DEF TakenAt, GrantOf
<1>3. Good(d)
  BY DEF TakenAt
<1>4. GrantsIn(d) = GrantsIn(b) \cup {GrantOf(d, a)}
  BY <1>1, <1>2 DEF GrantsIn
<1>5. ASSUME NEW x \in UsedIn(b)
      PROVE  Alloc!Apart(GrantOf(d, a), GrantOf(b, x)) /\ GrantOf(d, a) # GrantOf(b, x)
  <2>1. x \in DOMAIN d /\ a \in DOMAIN d /\ x # a
    BY <1>1
  <2>2. Alloc!Apart(GrantOf(d, a), GrantOf(d, x)) /\ GrantOf(d, a).at # GrantOf(d, x).at
    BY <1>3, <2>1, BlocksApart
  <2> QED
    BY <2>2, <1>2
<1> QED
  BY <1>4, <1>5 DEF GrantsIn

LEMMA FreedGrants ==
    ASSUME NEW b, Good(b), NEW a \in UsedIn(b), NEW d, FreedAt(b, a, d)
    PROVE  GrantsIn(d) = GrantsIn(b) \ {GrantOf(b, a)}
<1>1. UsedIn(d) = UsedIn(b) \ {a} /\ UsedIn(b) \subseteq DOMAIN b
  BY DEF FreedAt, UsedIn
<1>2. \A x \in UsedIn(d) : GrantOf(d, x) = GrantOf(b, x)
  BY DEF FreedAt, GrantOf
<1>3. \A x \in UsedIn(b) : x # a => GrantOf(b, x) # GrantOf(b, a)
  <2> TAKE x \in UsedIn(b)
  <2>1. x # a => GrantOf(b, x).at # GrantOf(b, a).at
    BY <1>1, BlocksApart
  <2> QED
    BY <2>1
<1> QED
  BY <1>1, <1>2, <1>3 DEF GrantsIn

(* When the loop of kmalloc finds nothing, there is no gap with the room:  *)
(* the gap would lie in one free block, as no two are neighbours.          *)
LEMMA Refusal ==
    ASSUME HeapInv, NEW n \in Requests, FirstFit(blk, Round(n)) = {}
    PROVE  Alloc!NoRoom(n)
<1> DEFINE r == Round(n)
<1>1. r \in Nat
  BY RoundUp, HeapAssumption
<1> HIDE DEF r
<1> SUFFICES ASSUME NEW at \in Header .. HeapUnits, at + r <= HeapUnits,
                    \A h \in Grants : Alloc!Apart([at |-> at, size |-> r], h)
             PROVE  FALSE
  BY DEF Alloc!NoRoom, Alloc!Fits, r
<1>2. at \in Nat /\ at - Header \in Nat /\ at - Header < HeapUnits
  BY Sizes
<1>3. Good(blk)
  BY DEF HeapInv
<1>4. PICK a \in DOMAIN blk : a <= at - Header /\ at - Header < Stop(blk, a)
  BY <1>2, <1>3, Covered DEF Good
<1>5. /\ a \in Nat /\ blk[a].size \in Nat /\ Stop(blk, a) \in Nat
      /\ Stop(blk, a) = a + Header + blk[a].size
  BY <1>3, StopType DEF Good, Stop
<1>6. ASSUME NEW x \in UsedIn(blk)
      PROVE  at + r <= x \/ Stop(blk, x) <= at - Header
  <2>1. GrantOf(blk, x) \in Grants
    BY GrantsNow DEF GrantsIn
  <2>2. Alloc!Apart([at |-> at, size |-> r], GrantOf(blk, x))
    BY <2>1
  <2>3. x \in Nat /\ blk[x].size \in Nat
    BY <1>3, StopType DEF Good, UsedIn
  <2> QED
    BY <2>2, <2>3, Sizes DEF Alloc!Apart, GrantOf, Ptr, Stop
<1>7. ~blk[a].used
  <2>1. ASSUME a \in UsedIn(blk) PROVE FALSE
    <3>1. at + r <= a \/ Stop(blk, a) <= at - Header
      BY <1>6, <2>1
    <3> QED
      BY <3>1, <1>1, <1>2, <1>4, <1>5, Sizes
  <2> QED
    BY <2>1 DEF UsedIn
<1>8. at + r <= Stop(blk, a)
  <2>1. CASE blk[a].next = NoBlock /\ Stop(blk, a) = HeapUnits
    BY <2>1
  <2>2. CASE blk[a].next \in DOMAIN blk /\ blk[a].next = Stop(blk, a)
    <3> DEFINE c == blk[a].next
    <3>1. c \in DOMAIN blk /\ c # NoBlock /\ blk[c].used
      BY <2>2, <1>3, <1>7, Sizes DEF Good, Typed, Lonely
    <3>2. at + r <= c \/ Stop(blk, c) <= at - Header
      BY <3>1, <1>6 DEF UsedIn
    <3>3. c < Stop(blk, c) /\ Stop(blk, c) \in Nat
      BY <3>1, <1>3, StopType DEF Good
    <3> QED
      BY <3>2, <3>3, <2>2, <1>1, <1>2, <1>4, <1>5
  <2> QED
    BY <2>1, <2>2, <1>3 DEF Good, Chained
<1>9. blk[a].size >= r
  BY <1>1, <1>2, <1>4, <1>5, <1>8, Sizes
<1> DEFINE fit == {c \in DOMAIN blk : ~blk[c].used /\ blk[c].size >= r}
<1>10. fit \in SUBSET Nat /\ a \in fit
  BY <1>3, <1>7, <1>9, StopType DEF Good
<1>11. \E c \in fit : \A e \in fit : c <= e
  BY <1>10, LeastExists
<1> QED
  BY <1>11 DEF FirstFit, r

LEMMA AllocStep ==
    ASSUME HeapInv, HeapInv', NEW n \in Requests, Kmalloc(n)
    PROVE  Alloc!Alloc(n)
<1>1. CASE FirstFit(blk, Round(n)) = {} /\ returned' = 0 /\ UNCHANGED <<blk, held>>
  BY <1>1, Refusal DEF Alloc!Alloc, Grants
<1>2. ASSUME NEW a \in FirstFit(blk, Round(n)), blk' = Taken(blk, a, Round(n)), returned' = Ptr(a)
      PROVE  Alloc!Alloc(n)
  <2> DEFINE g == GrantOf(blk', a)
  <2>1. /\ a \in DOMAIN blk /\ ~blk[a].used /\ n \in Nat /\ Round(n) \in Nat /\ Round(n) >= n
        /\ TakenAt(blk, a, Round(n), blk')
    BY <1>2, FirstFitFree
  <2>2. /\ Grants' = Grants \cup {g} /\ g \notin Grants
        /\ \A h \in Grants : Alloc!Apart(g, h)
    BY <2>1, TakenGrants, GrantsNow, GrantsThen DEF HeapInv
  <2>3. a \in DOMAIN blk' /\ Good(blk') /\ blk'[a].size >= Round(n) /\ blk'[a].size \in Nat
    BY <2>1, StopType DEF TakenAt, UsedIn, Good
  <2>4. g.at = Ptr(a) /\ g.at >= Header /\ g.size >= n /\ g.at + g.size <= HeapUnits
    BY <2>1, <2>3, BlocksApart
  <2> QED
    BY <1>2, <2>2, <2>4 DEF Alloc!Alloc, Alloc!Fits
<1> QED
  BY <1>1, <1>2 DEF Kmalloc

LEMMA ReallocStep ==
    ASSUME HeapInv, HeapInv', NEW p \in held, NEW n \in Requests, Krealloc(p, n)
    PROVE  \E g \in Grants : Alloc!Realloc(g, n)
<1> DEFINE g == GrantOf(blk, BlockOf(p))
<1>1. g \in Grants /\ g.at = p /\ g.size = blk[BlockOf(p)].size
  BY Pointers, GrantsNow DEF GrantsIn, GrantOf
<1>2. CASE ReallocInPlace(p, n)
  BY <1>1, <1>2 DEF ReallocInPlace, Alloc!Realloc, Grants
<1>3. CASE ReallocFails(p, n)
  BY <1>1, <1>3, Refusal DEF ReallocFails, Alloc!Realloc, Grants
<1>4. CASE ReallocMove(p, n)
  <2>1. PICK a \in FirstFit(blk, Round(n)) :
          blk' = Freed(Taken(blk, a, Round(n)), BlockOf(p)) /\ returned' = Ptr(a)
    BY <1>4 DEF ReallocMove
  <2> DEFINE t == Taken(blk, a, Round(n))
             h == GrantOf(t, a)
  <2> HIDE DEF t
  <2>2. /\ a \in DOMAIN blk /\ ~blk[a].used /\ n \in Nat /\ Round(n) \in Nat /\ Round(n) >= n
        /\ TakenAt(blk, a, Round(n), t)
    BY FirstFitFree DEF t
  <2>3. /\ GrantsIn(t) = Grants \cup {h} /\ h \notin Grants
        /\ \A x \in Grants : Alloc!Apart(h, x)
    BY <2>2, TakenGrants, GrantsNow DEF HeapInv
  <2>4. BlockOf(p) \in UsedIn(t) /\ BlockOf(p) # a /\ Good(t) /\ FreedAt(t, BlockOf(p), blk')
    BY <2>1, MovedList DEF t
  <2>5. Grants' = GrantsIn(t) \ {GrantOf(t, BlockOf(p))}
    BY <2>4, FreedGrants, GrantsThen
  <2>6. GrantOf(t, BlockOf(p)) = g
    BY <2>2, Pointers DEF TakenAt, GrantOf
  <2>7. Grants' = (Grants \ {g}) \cup {h} /\ h \in Grants' \ Grants
    BY <1>1, <2>3, <2>5, <2>6
  <2>8. a \in DOMAIN t /\ t[a].size >= Round(n) /\ t[a].size \in Nat
    BY <2>2, <2>4, StopType DEF TakenAt, UsedIn, Good
  <2>9. h.at = Ptr(a) /\ h.at >= Header /\ h.size >= n /\ h.at + h.size <= HeapUnits
    BY <2>2, <2>4, <2>8, BlocksApart
  <2>10. Alloc!Realloc(g, n)
    BY <2>1, <2>3, <2>7, <2>9 DEF Alloc!Realloc, Alloc!Fits
  <2> QED
    BY <1>1, <2>10
<1> QED
  BY <1>2, <1>3, <1>4, <1>1 DEF Krealloc

LEMMA FreeImplements ==
    ASSUME HeapInv, HeapInv', NEW p \in held, Kfree(p)
    PROVE  \E g \in Grants : Alloc!Free(g)
<1>1. BlockOf(p) \in UsedIn(blk) /\ Good(blk)
  BY Pointers DEF HeapInv
<1>2. FreedAt(blk, BlockOf(p), blk')
  BY <1>1, FreedList DEF Kfree
<1>3. Grants' = Grants \ {GrantOf(blk, BlockOf(p))}
  BY <1>1, <1>2, FreedGrants, GrantsNow, GrantsThen
<1>4. GrantOf(blk, BlockOf(p)) \in Grants
  BY <1>1, GrantsNow DEF GrantsIn
<1> QED
  BY <1>3, <1>4 DEF Alloc!Free, Kfree

(* Every call of the heap is the call of the allocator of the same name:   *)
(* kmalloc and krealloc grant memory that no one else has and that is      *)
(* large enough, krealloc gives the old place back only with the new one   *)
(* in hand, and NULL is returned only when no gap of the heap would do.    *)
THEOREM HeapImplements == HeapSpec => AllocatorSpec
<1>1. HeapInit => Alloc!Init
  BY DEF HeapInit, Alloc!Init, Grants
<1>2. HeapInv /\ HeapInv' /\ [HeapNext]_heapVars => [Alloc!Next]_(Alloc!vars)
  <2> SUFFICES ASSUME HeapInv, HeapInv', [HeapNext]_heapVars
               PROVE  Alloc!Next \/ UNCHANGED Alloc!vars
    OBVIOUS
  <2>1. CASE UNCHANGED heapVars
    BY <2>1 DEF heapVars, Alloc!vars, Grants
  <2>2. ASSUME NEW n \in Requests, Kmalloc(n) PROVE Alloc!Next
    BY <2>2, AllocStep DEF Alloc!Next
  <2>3. ASSUME NEW p \in held, NEW n \in Requests, Krealloc(p, n) PROVE Alloc!Next
    BY <2>3, ReallocStep DEF Alloc!Next
  <2>4. ASSUME NEW p \in held, Kfree(p) PROVE Alloc!Next
    BY <2>4, FreeImplements DEF Alloc!Next
  <2> QED
    BY <2>1, <2>2, <2>3, <2>4 DEF HeapNext
<1> QED
  BY <1>1, <1>2, HeapInvariant, PTL DEF HeapSpec, AllocatorSpec, Alloc!Spec
=============================================================================
