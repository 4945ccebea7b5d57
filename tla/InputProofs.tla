---------------------------- MODULE InputProofs -----------------------------
(* Proofs about what the devices hand to the system: the keyboard ring and *)
(* the layout switch for every size of the ring and every set of letters,  *)
(* the mouse for every screen, every movement and any bytes lost, and the  *)
(* clock for every instant, format of its registers and time zone.         *)
EXTENDS Keyboard, Mouse, Clock, SequenceTheorems, TLAPS

-----------------------------------------------------------------------------
(* Indices of the ring *)

LEMMA SuccIs ==
    ASSUME NEW i \in Places
    PROVE  /\ Succ(i) = IF i = Size - 1 THEN 0 ELSE i + 1
           /\ Succ(i) \in Places
<1>1. i \in Nat /\ i < Size /\ Size \in Nat /\ Size > 1
  BY SizesAssumption DEF Places
<1>2. CASE i = Size - 1
  BY <1>1, <1>2 DEF Succ, Places
<1>3. CASE i # Size - 1
  BY <1>1, <1>3 DEF Succ, Places
<1> QED
  BY <1>2, <1>3

LEMMA WrapIs ==
    ASSUME NEW t \in Places, NEW i \in 0 .. Size - 1
    PROVE  /\ (t + i) % Size = IF t + i < Size THEN t + i ELSE t + i - Size
           /\ (t + i) % Size \in Places
<1>1. t \in Nat /\ t < Size /\ i \in Nat /\ i < Size /\ Size \in Nat
  BY SizesAssumption DEF Places
<1> QED
  BY <1>1 DEF Places

-----------------------------------------------------------------------------
(* The invariant *)

(* Until a modifier goes up or a program sets the layout, the latch of the *)
(* last switch holds.                                                      *)
Latched == /\ latch => shift /\ alt
           /\ ~rearmed => latch

IInv == TypeOK /\ SlotStable /\ Latched

LEMMA InitIInv == Init => IInv
<1> SUFFICES ASSUME Init PROVE IInv
  OBVIOUS
<1>1. 0 \in Places
  BY SizesAssumption DEF Places
<1> QED
  BY <1>1 DEF Init, IInv, TypeOK, SlotStable, Latched, Layouts

LEMMA ModifierStep ==
    ASSUME IInv, NEW k, Press(k) \/ Release(k)
    PROVE  IInv' /\ (layout' # layout => rearmed)
<1> USE DEF IInv
<1>1. UNCHANGED <<buf, head, tail, pc, char, taken>>
  BY DEF Press, Release, ring, task
<1>2. /\ shift' \in BOOLEAN /\ alt' \in BOOLEAN /\ rearmed' \in BOOLEAN
      /\ layout' \in Layouts /\ latch' \in BOOLEAN
  BY DEF Press, Release, CheckToggle, TypeOK, Other, Layouts
<1>3. CheckToggle(shift', alt')
  BY DEF Press, Release
<1>4. CASE Press(k)
  <2>1. (shift => shift') /\ (alt => alt') /\ rearmed' = (rearmed /\ layout' = layout)
    BY <1>4 DEF Press, TypeOK
  <2>2. Latched' /\ (layout' # layout => rearmed)
    BY <1>3, <2>1 DEF CheckToggle, Latched, TypeOK
  <2> QED
    BY <1>1, <1>2, <2>2 DEF TypeOK, SlotStable
<1>5. CASE Release(k) /\ k \in Keys
  <2>1. rearmed' = TRUE /\ ~ (shift' /\ alt')
    BY <1>5 DEF Release, Keys, ShiftKeys, TypeOK
  <2>2. Latched' /\ layout' = layout
    BY <1>3, <2>1 DEF CheckToggle, Latched
  <2> QED
    BY <1>1, <1>2, <2>2 DEF TypeOK, SlotStable
<1>6. CASE Release(k) /\ k \notin Keys
  <2>1. shift' = shift /\ alt' = alt /\ rearmed' = (rearmed /\ layout' = layout)
    BY <1>6 DEF Release, Keys, ShiftKeys, TypeOK
  <2>2. Latched' /\ (layout' # layout => rearmed)
    BY <1>3, <2>1 DEF CheckToggle, Latched, TypeOK
  <2> QED
    BY <1>1, <1>2, <2>2 DEF TypeOK, SlotStable
<1> QED
  BY <1>4, <1>5, <1>6

LEMMA TypeStep ==
    ASSUME IInv, NEW k \in Letters, Type(k)
    PROVE  IInv' /\ layout' = layout
<1> USE DEF IInv
<1>1. UNCHANGED <<shift, alt, layout, latch, tail, pc, char, taken, rearmed>>
  BY DEF Type, task
<1>2. CASE Succ(head) # tail
  <2> DEFINE ch == [key |-> k, layout |-> layout, shifted |-> shift]
  <2>1. ch \in Chars
    BY DEF Chars, TypeOK
  <2>2. buf' = [buf EXCEPT ![head] = ch] /\ head' = Succ(head)
    BY <1>2 DEF Type
  <2> HIDE DEF ch
  <2>3. buf' \in [Places -> Chars] /\ head' \in Places
    BY <2>1, <2>2, SuccIs DEF TypeOK
  <2>4. tail # head => buf'[tail] = buf[tail]
    BY <2>2 DEF TypeOK
  <2>5. SlotStable'
    BY <1>1, <1>2, <2>2, <2>4 DEF SlotStable
  <2> QED
    BY <1>1, <2>3, <2>5 DEF TypeOK, Latched
<1>3. CASE ~ (Succ(head) # tail)
  BY <1>1, <1>3 DEF Type, TypeOK, SlotStable, Latched
<1> QED
  BY <1>2, <1>3

LEMMA UiStep ==
    ASSUME IInv, Ui
    PROVE  IInv'
<1> USE DEF IInv
<1>1. CASE HasChar
  BY <1>1 DEF HasChar, ring, TypeOK, SlotStable, Latched
<1>2. CASE ReadChar
  BY <1>2 DEF ReadChar, ring, TypeOK, SlotStable, Latched
<1>3. CASE TakeChar
  <2>1. Succ(tail) \in Places
    BY SuccIs DEF TypeOK
  <2> QED
    BY <1>3, <2>1 DEF TakeChar, TypeOK, SlotStable, Latched
<1>4. CASE ClearLatch
  BY <1>4 DEF ClearLatch, ring, TypeOK, SlotStable, Latched
<1>5. ASSUME NEW l \in Layouts, SetLayout(l) PROVE IInv'
  BY <1>5 DEF SetLayout, ring, TypeOK, SlotStable, Latched
<1> QED
  BY <1>1, <1>2, <1>3, <1>4, <1>5 DEF Ui

LEMMA Inductive == IInv /\ [Next]_vars => IInv'
<1> SUFFICES ASSUME IInv, [Next]_vars PROVE IInv'
  OBVIOUS
<1>1. CASE UNCHANGED vars
  BY <1>1 DEF IInv, TypeOK, SlotStable, Latched, vars, ring, task
<1> QED
  BY <1>1, ModifierStep, TypeStep, UiStep DEF Next, Interrupt

LEMMA Invariant == Spec => []IInv
<1>1. Init => IInv
  BY InitIInv
<1>2. IInv /\ [Next]_vars => IInv'
  BY Inductive
<1> QED
  BY <1>1, <1>2, PTL DEF Spec

(* The interrupt never writes the slot the task is reading, and the state  *)
(* of the driver keeps its types.                                          *)
THEOREM StableSlot == Spec => []TypeOK /\ []SlotStable
<1>1. IInv => TypeOK /\ SlotStable
  BY DEF IInv
<1> QED
  BY <1>1, Invariant, PTL

(* A held Shift+Alt switches the layout once.                              *)
THEOREM OneSwitch == Spec => OneSwitchPerChord
<1>1. IInv /\ [Next]_vars => [Interrupt /\ layout' # layout => rearmed]_vars
  BY ModifierStep, TypeStep DEF Interrupt
<1> QED
  BY <1>1, Invariant, PTL DEF Spec, OneSwitchPerChord

-----------------------------------------------------------------------------
(* The ring is a bounded queue *)

(* Queue for any ring: what the indices h and t cut out of b               *)
Filled(h, t) == IF h >= t THEN h - t ELSE h - t + Size
Content(b, h, t) == [i \in 1 .. Filled(h, t) |-> b[(t + i - 1) % Size]]

LEMMA ContentIs ==
    ASSUME NEW b \in [Places -> Chars], NEW h \in Places, NEW t \in Places
    PROVE  /\ Filled(h, t) \in 0 .. Size - 1
           /\ Filled(h, t) = 0 <=> h = t
           /\ Filled(h, t) = (h - t + Size) % Size
           /\ Content(b, h, t) \in Seq(Chars)
           /\ Len(Content(b, h, t)) = Filled(h, t)
           /\ \A i \in 1 .. Filled(h, t) :
                /\ Content(b, h, t)[i] =
                     b[IF t + i - 1 < Size THEN t + i - 1 ELSE t + i - 1 - Size]
                /\ (IF t + i - 1 < Size THEN t + i - 1 ELSE t + i - 1 - Size) \in Places
<1>1. h \in Nat /\ h < Size /\ t \in Nat /\ t < Size /\ Size \in Nat /\ Size > 1
  BY SizesAssumption DEF Places
<1>2. /\ Filled(h, t) \in 0 .. Size - 1
      /\ Filled(h, t) = 0 <=> h = t
      /\ Filled(h, t) = (h - t + Size) % Size
  BY <1>1 DEF Filled
<1>3. ASSUME NEW i \in 1 .. Filled(h, t)
      PROVE  /\ (t + i - 1) % Size = IF t + i - 1 < Size THEN t + i - 1 ELSE t + i - 1 - Size
             /\ (t + i - 1) % Size \in Places
  <2>1. /\ i - 1 \in 0 .. Size - 1 /\ t + i - 1 = t + (i - 1)
        /\ t + i - 1 - Size = t + (i - 1) - Size
    BY <1>1, <1>2
  <2> DEFINE j == i - 1
  <2> HIDE DEF j
  <2>2. j \in 0 .. Size - 1 /\ t + i - 1 = t + j /\ t + i - 1 - Size = t + j - Size
    BY <2>1 DEF j
  <2>3. /\ (t + j) % Size = IF t + j < Size THEN t + j ELSE t + j - Size
        /\ (t + j) % Size \in Places
    BY <2>2, WrapIs
  <2> QED
    BY <2>2, <2>3
<1>4. \A i \in 1 .. Filled(h, t) : b[(t + i - 1) % Size] \in Chars
  BY <1>3
<1>5. Filled(h, t) \in Nat
  BY <1>1, <1>2
<1>6. Content(b, h, t) \in Seq(Chars)
  BY <1>4, <1>5, IsASeq DEF Content
<1>7. Content(b, h, t) = [i \in 1 .. Filled(h, t) |-> b[(t + i - 1) % Size]]
  BY DEF Content
<1>8. Len(Content(b, h, t)) = Filled(h, t)
  BY <1>5, <1>6, <1>7, LenProperties
<1>9. \A i \in 1 .. Filled(h, t) : Content(b, h, t)[i] = b[(t + i - 1) % Size]
  BY <1>7
<1> QED
  BY <1>2, <1>3, <1>6, <1>8, <1>9

(* g_buf[g_head] = c; g_head = n appends.                                  *)
LEMMA PushAppends ==
    ASSUME NEW b \in [Places -> Chars], NEW h \in Places, NEW t \in Places,
           NEW c \in Chars, Succ(h) # t
    PROVE  /\ Content([b EXCEPT ![h] = c], Succ(h), t) = Append(Content(b, h, t), c)
           /\ Filled(h, t) < Size - 1
<1> DEFINE q == Content(b, h, t)
           bb == [b EXCEPT ![h] = c]
           r == Content(bb, Succ(h), t)
           n == Filled(h, t)
<1>1. h \in Nat /\ h < Size /\ t \in Nat /\ t < Size /\ Size \in Nat /\ Size > 1
  BY SizesAssumption DEF Places
<1>2. Succ(h) = (IF h = Size - 1 THEN 0 ELSE h + 1) /\ Succ(h) \in Places
  BY SuccIs
<1>3. n \in Nat /\ n < Size - 1 /\ Filled(Succ(h), t) = n + 1
  BY <1>1, <1>2 DEF Filled
<1>4. bb \in [Places -> Chars]
  OBVIOUS
<1>5. /\ q \in Seq(Chars) /\ Len(q) = n
      /\ \A i \in 1 .. n :
          /\ q[i] = b[IF t + i - 1 < Size THEN t + i - 1 ELSE t + i - 1 - Size]
          /\ (IF t + i - 1 < Size THEN t + i - 1 ELSE t + i - 1 - Size) \in Places
  BY ContentIs
<1>6. /\ r \in Seq(Chars) /\ Len(r) = n + 1
      /\ \A i \in 1 .. n + 1 :
           r[i] = bb[IF t + i - 1 < Size THEN t + i - 1 ELSE t + i - 1 - Size]
  <2> DEFINE h2 == Succ(h)
  <2>1. bb \in [Places -> Chars] /\ h2 \in Places
    BY <1>2, <1>4
  <2> HIDE DEF bb, h2
  <2>2. /\ Content(bb, h2, t) \in Seq(Chars)
        /\ Len(Content(bb, h2, t)) = Filled(h2, t)
        /\ \A i \in 1 .. Filled(h2, t) : Content(bb, h2, t)[i] =
             bb[IF t + i - 1 < Size THEN t + i - 1 ELSE t + i - 1 - Size]
    BY <2>1, ContentIs, SMTT(30)
  <2>3. Filled(h2, t) = n + 1
    BY <1>3 DEF h2
  <2> HIDE DEF n
  <2>4. r = Content(bb, h2, t)
    BY DEF h2
  <2> HIDE DEF r
  <2> QED
    BY <2>2, <2>3, <2>4
<1> DEFINE a == Append(q, c)
<1>7. /\ a \in Seq(Chars) /\ Len(a) = n + 1
      /\ \A i \in 1 .. n + 1 : a[i] = IF i <= n THEN q[i] ELSE c
  <2> HIDE DEF q, n
  <2> QED
    BY <1>3, <1>5
<1>8. ASSUME NEW i \in 1 .. n + 1 PROVE r[i] = a[i]
  <2> DEFINE p == IF t + i - 1 < Size THEN t + i - 1 ELSE t + i - 1 - Size
  <2>1. CASE i <= n
    <3>1. i \in 1 .. n
      BY <2>1, <1>3
    <3>2. p # h
      BY <3>1, <1>1, <1>3 DEF Filled
    <3>3. p \in Places /\ q[i] = b[p]
      BY <3>1, <1>5
    <3>4. r[i] = bb[p]
      BY <1>6
    <3>5. bb[p] = b[p]
      <4> HIDE DEF p
      <4> QED
        BY <3>2, <3>3
    <3> QED
      BY <3>3, <3>4, <3>5, <2>1, <1>7
  <2>2. CASE i = n + 1
    <3>1. p = h
      BY <2>2, <1>1, <1>3 DEF Filled
    <3>2. r[i] = bb[p]
      BY <1>6
    <3>3. r[i] = c
      BY <3>1, <3>2
    <3>4. ~ (i <= n)
      BY <2>2, <1>3
    <3> QED
      BY <3>3, <3>4, <1>7
  <2> HIDE DEF n, r, a
  <2>3. i <= n \/ i = n + 1
    BY <1>3
  <2> QED
    BY <2>1, <2>2, <2>3
<1>9. r = a
  <2> HIDE DEF r, a, n
  <2> QED
    BY <1>6, <1>7, <1>8, SeqEqual
<1> QED
  BY <1>3, <1>9

(* g_tail = (g_tail + 1) % KBD_BUF drops the first character.              *)
LEMMA PopDrops ==
    ASSUME NEW b \in [Places -> Chars], NEW h \in Places, NEW t \in Places, h # t
    PROVE  /\ Content(b, h, t) # <<>>
           /\ Head(Content(b, h, t)) = b[t]
           /\ Content(b, h, Succ(t)) = Tail(Content(b, h, t))
<1> DEFINE q == Content(b, h, t)
           r == Content(b, h, Succ(t))
           n == Filled(h, t)
<1>1. h \in Nat /\ h < Size /\ t \in Nat /\ t < Size /\ Size \in Nat /\ Size > 1
  BY SizesAssumption DEF Places
<1>2. Succ(t) = (IF t = Size - 1 THEN 0 ELSE t + 1) /\ Succ(t) \in Places
  BY SuccIs
<1>3. n \in Nat \ {0} /\ n < Size /\ Filled(h, Succ(t)) = n - 1
  BY <1>1, <1>2 DEF Filled
<1>4. /\ q \in Seq(Chars) /\ Len(q) = n
      /\ \A i \in 1 .. n :
           q[i] = b[IF t + i - 1 < Size THEN t + i - 1 ELSE t + i - 1 - Size]
  BY ContentIs
<1> DEFINE s == Succ(t)
<1>5. /\ r \in Seq(Chars) /\ Len(r) = n - 1
      /\ \A i \in 1 .. n - 1 :
           r[i] = b[IF s + i - 1 < Size THEN s + i - 1 ELSE s + i - 1 - Size]
  <2>1. s \in Places /\ r = Content(b, h, s) /\ Filled(h, s) = n - 1
    BY <1>2, <1>3
  <2> HIDE DEF s, r, n, q
  <2>2. ASSUME NEW x \in Places
        PROVE  /\ Content(b, h, x) \in Seq(Chars)
               /\ Len(Content(b, h, x)) = Filled(h, x)
               /\ \A i \in 1 .. Filled(h, x) : Content(b, h, x)[i] =
                    b[IF x + i - 1 < Size THEN x + i - 1 ELSE x + i - 1 - Size]
    BY ContentIs, SMTT(30)
  <2> QED
    BY <2>1, <2>2
<1>6. q # <<>>
  BY <1>3, <1>4, EmptySeq
<1>7. Head(q) = b[t]
  <2>1. Head(q) = q[1]
    BY <1>4, <1>6
  <2>2. 1 \in 1 .. n /\ (IF t + 1 - 1 < Size THEN t + 1 - 1 ELSE t + 1 - 1 - Size) = t
    BY <1>1, <1>3
  <2> QED
    BY <2>1, <2>2, <1>4
<1> DEFINE u == Tail(q)
<1>8. /\ u \in Seq(Chars) /\ Len(u) = n - 1
      /\ \A i \in 1 .. n - 1 : u[i] = q[i + 1]
  <2> HIDE DEF q, n
  <2> QED
    BY <1>3, <1>4, <1>6, HeadTailProperties
<1>9. ASSUME NEW i \in 1 .. n - 1 PROVE r[i] = u[i]
  <2>1. i \in Nat /\ i >= 1 /\ i + 1 \in 1 .. n
    BY <1>3
  <2>2. q[i + 1] = b[IF t + (i + 1) - 1 < Size THEN t + (i + 1) - 1 ELSE t + (i + 1) - 1 - Size]
    BY <2>1, <1>4
  <2>3. (IF s + i - 1 < Size THEN s + i - 1 ELSE s + i - 1 - Size)
        = (IF t + (i + 1) - 1 < Size THEN t + (i + 1) - 1 ELSE t + (i + 1) - 1 - Size)
    BY <2>1, <1>1, <1>2, <1>3
  <2> QED
    BY <2>2, <2>3, <1>5, <1>8
<1>10. r = u
  <2> HIDE DEF r, u, n
  <2> QED
    BY <1>5, <1>8, <1>9, SeqEqual
<1> QED
  BY <1>6, <1>7, <1>10

LEMMA QueueIsContent ==
    ASSUME TypeOK
    PROVE  Queue = Content(buf, head, tail)
<1>1. Waiting = Filled(head, tail)
  BY ContentIs DEF TypeOK, Waiting
<1> QED
  BY <1>1 DEF Queue, Content

LEMMA QueueIsContentNext ==
    ASSUME TypeOK'
    PROVE  Queue' = Content(buf', head', tail')
<1>1. Waiting' = Filled(head', tail')
  <2>1. buf' \in [Places -> Chars] /\ head' \in Places /\ tail' \in Places
    BY DEF TypeOK
  <2>2. Filled(head', tail') = (head' - tail' + Size) % Size
    BY <2>1, ContentIs
  <2> QED
    BY <2>2 DEF Waiting
<1> QED
  BY <1>1 DEF Queue, Content

LEMMA FifoStep ==
    ASSUME IInv, IInv', [Next]_vars
    PROVE  [Fifo!Next]_(Fifo!vars)
<1>1. /\ buf \in [Places -> Chars] /\ head \in Places /\ tail \in Places
      /\ Queue = Content(buf, head, tail)
      /\ Queue' = Content(buf', head', tail')
  BY QueueIsContent, QueueIsContentNext DEF IInv, TypeOK
<1>2. ASSUME UNCHANGED <<buf, head, tail, taken>> PROVE UNCHANGED Fifo!vars
  BY <1>2, <1>1 DEF Fifo!vars
<1>3. ASSUME NEW k \in Letters, Type(k) PROVE [Fifo!Next]_(Fifo!vars)
  <2>1. UNCHANGED <<tail, taken>>
    BY <1>3 DEF Type, task
  <2>2. CASE Succ(head) # tail
    <3> DEFINE ch == [key |-> k, layout |-> layout, shifted |-> shift]
    <3>1. ch \in Chars
      BY DEF Chars, IInv, TypeOK
    <3>2. buf' = [buf EXCEPT ![head] = ch] /\ head' = Succ(head)
      BY <2>2, <1>3 DEF Type
    <3> HIDE DEF ch
    <3>3. Queue' = Append(Queue, ch)
      BY <1>1, <2>1, <2>2, <3>1, <3>2, PushAppends
    <3>4. Len(Queue) < Size - 1
      BY <1>1, <2>2, <3>1, PushAppends, ContentIs
    <3>5. Fifo!Type(ch)
      BY <2>1, <3>3, <3>4 DEF Fifo!Type
    <3> QED
      BY <3>1, <3>5 DEF Fifo!Next
  <2>3. CASE ~ (Succ(head) # tail)
    BY <2>1, <2>3, <1>2, <1>3 DEF Type
  <2> QED
    BY <2>2, <2>3
<1>4. CASE TakeChar
  <2>1. UNCHANGED <<buf, head>> /\ tail' = Succ(tail) /\ taken' = char
    BY <1>4 DEF TakeChar
  <2>2. head # tail /\ char = buf[tail]
    BY <1>4 DEF TakeChar, IInv, SlotStable
  <2>3. /\ Queue # <<>> /\ Head(Queue) = buf[tail] /\ Queue' = Tail(Queue)
    BY <1>1, <2>1, <2>2, PopDrops
  <2>4. Fifo!Take
    BY <2>1, <2>2, <2>3 DEF Fifo!Take
  <2> QED
    BY <2>4 DEF Fifo!Next
<1>5. CASE HasChar \/ ReadChar \/ ClearLatch
  BY <1>2, <1>5 DEF HasChar, ReadChar, ClearLatch, ring
<1>6. ASSUME NEW l \in Layouts, SetLayout(l) PROVE [Fifo!Next]_(Fifo!vars)
  BY <1>2, <1>6 DEF SetLayout, ring
<1>7. ASSUME NEW k, Press(k) \/ Release(k) PROVE [Fifo!Next]_(Fifo!vars)
  BY <1>2, <1>7 DEF Press, Release, ring, task
<1>8. CASE UNCHANGED vars
  BY <1>2, <1>8 DEF vars, ring, task
<1> QED
  BY <1>3, <1>4, <1>5, <1>6, <1>7, <1>8 DEF Next, Interrupt, Ui

LEMMA FifoInit == Init => Fifo!Init
<1> SUFFICES ASSUME Init PROVE Fifo!Init
  OBVIOUS
<1>1. TypeOK /\ head = tail
  BY InitIInv DEF IInv, Init
<1>2. Queue \in Seq(Chars) /\ Len(Queue) = 0
  BY <1>1, QueueIsContent, ContentIs DEF TypeOK
<1>3. Queue = <<>>
  BY <1>2, EmptySeq
<1> QED
  BY <1>1, <1>3 DEF Fifo!Init, TypeOK

(* The driver and its reader implement the bounded queue of KeyQueue.      *)
THEOREM RingIsQueue == Spec => FifoSpec
<1>1. Init => Fifo!Init
  BY FifoInit
<1>2. IInv /\ IInv' /\ [Next]_vars => [Fifo!Next]_(Fifo!vars)
  BY FifoStep
<1> QED
  BY <1>1, <1>2, Invariant, PTL DEF Spec, FifoSpec, Fifo!Spec

-----------------------------------------------------------------------------
(* The mouse *)

(* The bytes of a packet *)

Movements == [dx : -128 .. 127, dy : -128 .. 127, buttons : 0 .. 3]

LEMMA BitIs ==
    ASSUME NEW mask \in {1, 2, 8, 16, 32, 64, 128}, NEW q \in Nat, NEW r \in 0 .. mask - 1
    PROVE  Bit(mask, mask * q + r) = q % 2
<1>1. (mask * q + r) \div mask = q
  <2>1. CASE mask = 1
    BY <2>1
  <2>2. CASE mask = 2
    BY <2>2
  <2>3. CASE mask = 8
    BY <2>3
  <2>4. CASE mask = 16
    BY <2>4
  <2>5. CASE mask = 32
    BY <2>5
  <2>6. CASE mask = 64
    BY <2>6
  <2>7. CASE mask = 128
    BY <2>7
  <2> QED
    BY <2>1, <2>2, <2>3, <2>4, <2>5, <2>6, <2>7
<1> QED
  BY <1>1 DEF Bit

LEMMA ModThree ==
    ASSUME NEW a \in Int, NEW b \in Int, b % 3 = 0
    PROVE  (a + b) % 3 = a % 3 /\ (a - 3) % 3 = a % 3
OBVIOUS

(* The flags of any movement pass the check, and its signs and buttons can *)
(* be read back from them.                                                 *)
LEMMA FlagsReadBack ==
    ASSUME NEW m \in Movements
    PROVE  LET f == FlagsOf(m)
           IN  /\ f \in Bytes /\ FlagsValid(f)
               /\ Bit(16, f) = (IF m.dx < 0 THEN 1 ELSE 0)
               /\ Bit(32, f) = (IF m.dy < 0 THEN 1 ELSE 0)
               /\ Bit(1, f) \in {0, 1} /\ Bit(2, f) \in {0, 1}
               /\ Bit(1, f) + 2 * Bit(2, f) = m.buttons
<1> DEFINE f == FlagsOf(m)
<1>1. PICK b \in 0 .. 3, u \in {0, 1}, w \in {0, 1} :
        /\ b = m.buttons /\ f = 8 + b + 16 * u + 32 * w
        /\ u = (IF m.dx < 0 THEN 1 ELSE 0) /\ w = (IF m.dy < 0 THEN 1 ELSE 0)
  <2> DEFINE u == IF m.dx < 0 THEN 1 ELSE 0
             w == IF m.dy < 0 THEN 1 ELSE 0
  <2>1. f = 8 + m.buttons + 16 * u + 32 * w
    BY DEF FlagsOf, Movements
  <2>2. m.buttons \in 0 .. 3 /\ u \in {0, 1} /\ w \in {0, 1}
    BY DEF Movements
  <2> HIDE DEF f
  <2> QED
    BY <2>1, <2>2
<1> HIDE DEF f
<1>2. f \in Bytes
  BY <1>1 DEF Bytes
<1>3. FlagsValid(f)
  <2>1. Bit(8, f) = (1 + 2 * u + 4 * w) % 2
    <3>1. f = 8 * (1 + 2 * u + 4 * w) + b
      BY <1>1
    <3> QED
      BY <1>1, <3>1, BitIs
  <2>2. (1 + 2 * u + 4 * w) % 2 = 1
    BY <1>1
  <2>3. Bit(64, f) = 0 /\ Bit(128, f) = 0
    <3>1. f = 64 * 0 + f /\ f = 128 * 0 + f /\ f \in 0 .. 63
      BY <1>1
    <3>2. Bit(64, f) = 0 % 2 /\ Bit(128, f) = 0 % 2
      BY <3>1, BitIs
    <3> QED
      BY <3>2
  <2> QED
    BY <2>1, <2>2, <2>3 DEF FlagsValid
<1>4. Bit(16, f) = u /\ Bit(32, f) = w
  <2>1. f = 16 * (u + 2 * w) + (8 + b) /\ f = 32 * w + (8 + b + 16 * u)
    BY <1>1
  <2>2. u + 2 * w \in Nat /\ 8 + b \in 0 .. 15 /\ 8 + b + 16 * u \in 0 .. 31
    BY <1>1
  <2>3. Bit(16, f) = (u + 2 * w) % 2
    <3> DEFINE q == u + 2 * w
               r == 8 + b
    <3>1. f = 16 * q + r /\ q \in Nat /\ r \in 0 .. 16 - 1
      BY <2>1, <2>2
    <3> HIDE DEF q, r
    <3>2. Bit(16, 16 * q + r) = q % 2
      BY <3>1, BitIs, ZenonT(30)
    <3> QED
      BY <3>1, <3>2 DEF q
  <2>4. Bit(32, f) = w % 2
    <3>1. w \in Nat
      BY <1>1
    <3> QED
      BY <2>1, <2>2, <3>1, BitIs
  <2> QED
    BY <1>1, <2>3, <2>4
<1>5. Bit(1, f) \in {0, 1} /\ Bit(2, f) \in {0, 1} /\ Bit(1, f) + 2 * Bit(2, f) = b
  <2>1. PICK c \in {0, 1}, d \in {0, 1} : b = c + 2 * d
    <3>1. b = 0 \/ b = 1 \/ b = 2 \/ b = 3
      BY <1>1
    <3>2. 0 = 0 + 2 * 0 /\ 1 = 1 + 2 * 0 /\ 2 = 0 + 2 * 1 /\ 3 = 1 + 2 * 1
      OBVIOUS
    <3> QED
      BY <3>1, <3>2
  <2>2. f = 1 * f + 0 /\ f = 2 * (4 + d + 8 * u + 16 * w) + c
    BY <1>1, <2>1
  <2>3. Bit(1, f) = f % 2 /\ Bit(2, f) = (4 + d + 8 * u + 16 * w) % 2
    <3> DEFINE q == 4 + d + 8 * u + 16 * w
    <3>1. f \in Nat /\ q \in Nat /\ 0 \in 0 .. 1 - 1 /\ c \in 0 .. 2 - 1
      BY <1>1, <2>1
    <3>2. f = 1 * f + 0 /\ f = 2 * q + c
      BY <2>2
    <3> HIDE DEF q
    <3>3. Bit(1, 1 * f + 0) = f % 2
      BY <3>1, BitIs, ZenonT(60)
    <3>4. Bit(2, 2 * q + c) = q % 2
      BY <3>1, BitIs, ZenonT(60)
    <3> QED
      BY <3>2, <3>3, <3>4 DEF q
  <2>4. f % 2 = c /\ (4 + d + 8 * u + 16 * w) % 2 = d
    BY <1>1, <2>1, <2>2
  <2> QED
    BY <2>1, <2>3, <2>4
<1> QED
  BY <1>1, <1>2, <1>3, <1>4, <1>5 DEF f

LEMMA PacketTyped ==
    ASSUME NEW m \in Movements
    PROVE  PacketOf(m) \in Seq(Bytes) /\ Len(PacketOf(m)) = 3
<1>1. m.dx % 256 \in Bytes /\ m.dy % 256 \in Bytes
  BY DEF Movements, Bytes
<1>2. FlagsOf(m) \in Bytes
  BY FlagsReadBack
<1> QED
  BY <1>1, <1>2 DEF PacketOf

(* The bytes of a packet in their places. *)
Holds(p, m) == \A j \in 0 .. 2 : p[j] = PacketOf(m)[j + 1]

(* The handler reads the movement back from a packet whole. *)
LEMMA PacketReadBack ==
    ASSUME NEW m \in Movements, NEW p, Holds(p, m)
    PROVE  Count(p, 1) = m.dx /\ Count(p, 2) = m.dy /\ p[0] = FlagsOf(m)
<1>1. p[0] = FlagsOf(m) /\ p[1] = m.dx % 256 /\ p[2] = m.dy % 256
  BY DEF Holds, PacketOf
<1>2. m.dx \in -128 .. 127 /\ m.dy \in -128 .. 127
  BY DEF Movements
<1>3. Count(p, 1) = p[1] - (IF m.dx < 0 THEN 256 ELSE 0)
  BY <1>1, FlagsReadBack DEF Count
<1>4. Count(p, 2) = p[2] - (IF m.dy < 0 THEN 256 ELSE 0)
  BY <1>1, FlagsReadBack DEF Count
<1> QED
  BY <1>1, <1>2, <1>3, <1>4

LEMMA ScaleInt == Scale \in {1, 2, 4}
BY DEF Scale

LEMMA HalfIs ==
    ASSUME NEW n \in Int
    PROVE  Halved(n) \in Int /\ Halved(n) = Half(n)
BY DEF Halved, Half

LEMMA ClampIn ==
    ASSUME NEW v \in Int, NEW size \in Nat \ {0}
    PROVE  Clamp(v, size) \in 0 .. size - 1
BY DEF Clamp

LEMMA CountInt ==
    ASSUME NEW p \in [0 .. 2 -> Bytes], NEW i \in 1 .. 2
    PROVE  Count(p, i) \in Int
<1>1. p[i] \in Int
  BY DEF Bytes
<1> QED
  BY <1>1 DEF Count

-----------------------------------------------------------------------------
(* Bytes received, bytes to come and bytes lost add up to whole packets.   *)
InStep == (cycle + Len(sending) + lostBytes) % 3 = 0

(* What is to come of a packet whole are its last bytes. *)
RestOfPacket ==
    whole => \A i \in 1 .. Len(sending) : sending[i] = PacketOf(move)[3 - Len(sending) + i]

(* In step, the bytes received of a packet whole are in their places. *)
StartOfPacket ==
    whole /\ lostBytes % 3 = 0 => \A j \in 0 .. cycle - 1 : packet[j] = PacketOf(move)[j + 1]

MouseInv == MouseTypeOK /\ move \in Movements /\ InStep /\ RestOfPacket /\ StartOfPacket

LEMMA MouseInitInv == MouseInit => MouseInv
<1> SUFFICES ASSUME MouseInit PROVE MouseInv
  OBVIOUS
<1>1. px \in 0 .. Width - 1 /\ py \in 0 .. Height - 1
  BY MouseAssumption DEF MouseInit
<1>2. packet \in [0 .. 2 -> Bytes] /\ cycle = 0 /\ lostBytes = 0
  BY DEF MouseInit, Bytes
<1>3. sending = << >> /\ sending \in Seq(Bytes) /\ Len(sending) = 0
  BY DEF MouseInit
<1>4. move \in Movements
  BY DEF MouseInit, Movements, Still
<1>5. lostBytes \in 0 .. MaxLost
  BY <1>2, MouseAssumption
<1>6. leftButton = 0 /\ rightButton = 0 /\ speed \in MouseSpeeds /\ whole = TRUE
  BY DEF MouseInit
<1>7. MouseTypeOK
  BY <1>1, <1>2, <1>3, <1>5, <1>6 DEF MouseTypeOK
<1>8. InStep /\ RestOfPacket /\ StartOfPacket
  BY <1>2, <1>3 DEF InStep, RestOfPacket, StartOfPacket
<1> QED
  BY <1>4, <1>7, <1>8 DEF MouseInv

(* A byte leaves the device. *)
LEMMA NextByte ==
    ASSUME MouseTypeOK, sending # << >>, sending' = Tail(sending)
    PROVE  /\ Len(sending) \in 1 .. 3 /\ Len(sending') = Len(sending) - 1
           /\ sending' \in Seq(Bytes) /\ Head(sending) = sending[1] /\ sending[1] \in Bytes
           /\ \A i \in 1 .. Len(sending') : sending'[i] = sending[i + 1]
<1>1. sending \in Seq(Bytes) /\ Len(sending) <= 3
  BY DEF MouseTypeOK
<1>2. Len(sending) \in Nat /\ Len(sending) # 0
  BY <1>1, EmptySeq, LenProperties
<1>3. Len(sending) \in 1 .. 3
  <2>1. \A n \in Nat : n # 0 /\ n <= 3 => n \in 1 .. 3
    OBVIOUS
  <2> QED
    BY <1>1, <1>2, <2>1
<1>4. /\ Head(sending) \in Bytes /\ Tail(sending) \in Seq(Bytes)
      /\ Len(Tail(sending)) = Len(sending) - 1
      /\ \A i \in 1 .. Len(Tail(sending)) : Tail(sending)[i] = sending[i + 1]
  BY <1>1, HeadTailProperties
<1>5. Head(sending) = sending[1]
  BY <1>1
<1> QED
  BY <1>3, <1>4, <1>5

LEMMA MovedInv == MouseInv /\ Moved => MouseInv'
<1> SUFFICES ASSUME MouseInv, Moved PROVE MouseInv'
  OBVIOUS
<1>1. /\ sending = << >> /\ sending' = PacketOf(move') /\ whole' = TRUE
      /\ UNCHANGED <<px, py, leftButton, rightButton, cycle, packet, speed, lostBytes>>
  BY DEF Moved, pointer
<1>2. move' \in Movements
  <2>1. PICK d \in Moves, b \in ButtonStates : move' = [dx |-> d[1], dy |-> d[2], buttons |-> b]
    BY DEF Moved
  <2>2. d[1] \in -128 .. 127 /\ d[2] \in -128 .. 127 /\ b \in 0 .. 3
    BY MouseAssumption
  <2> QED
    BY <2>1, <2>2 DEF Movements
<1>3. sending' \in Seq(Bytes) /\ Len(sending') = 3 /\ Len(sending) = 0
  BY <1>1, <1>2, PacketTyped
<1>4. MouseTypeOK'
  BY <1>1, <1>3 DEF MouseInv, MouseTypeOK
<1>5. cycle \in 0 .. 2 /\ lostBytes \in Nat /\ (cycle + lostBytes) % 3 = 0
  BY <1>3 DEF MouseInv, MouseTypeOK, InStep
<1>6. InStep'
  <2>1. (cycle + 3 + lostBytes) % 3 = 0
    BY <1>5
  <2> QED
    BY <1>1, <1>3, <2>1 DEF InStep
<1>7. RestOfPacket'
  BY <1>1, <1>3 DEF RestOfPacket
<1>8. StartOfPacket'
  <2>1. lostBytes % 3 = 0 => cycle = 0
    BY <1>5
  <2> QED
    BY <1>1, <2>1 DEF StartOfPacket
<1> QED
  BY <1>2, <1>4, <1>6, <1>7, <1>8 DEF MouseInv

LEMMA LostInv == MouseInv /\ Lost => MouseInv'
<1> SUFFICES ASSUME MouseInv, Lost PROVE MouseInv'
  OBVIOUS
<1>1. /\ sending # << >> /\ sending' = Tail(sending) /\ lostBytes < MaxLost
      /\ lostBytes' = lostBytes + 1 /\ whole' = FALSE
      /\ UNCHANGED <<px, py, leftButton, rightButton, cycle, packet, speed, move>>
  BY DEF Lost, pointer
<1>2. Len(sending) \in 1 .. 3 /\ Len(sending') = Len(sending) - 1 /\ sending' \in Seq(Bytes)
  BY <1>1, NextByte DEF MouseInv
<1>3. lostBytes' \in 0 .. MaxLost
  BY <1>1, MouseAssumption DEF MouseInv, MouseTypeOK
<1>4. MouseTypeOK'
  <2>1. whole' \in BOOLEAN
    BY <1>1
  <2>2. Len(sending') <= 3
    <3>1. \A n \in 1 .. 3 : n - 1 <= 3
      OBVIOUS
    <3> QED
      BY <1>2, <3>1
  <2> QED
    BY <1>1, <1>2, <1>3, <2>1, <2>2 DEF MouseInv, MouseTypeOK
<1>5. InStep'
  <2>1. cycle' + Len(sending') + lostBytes' = cycle + Len(sending) + lostBytes
    BY <1>1, <1>2 DEF MouseInv, MouseTypeOK
  <2> QED
    BY <2>1 DEF MouseInv, InStep
<1> QED
  BY <1>1, <1>4, <1>5 DEF MouseInv, RestOfPacket, StartOfPacket

(* What the handler does with a byte of a packet whole. *)
LEMMA IrqPlaces ==
    ASSUME MouseInv, MouseIrq, whole, lostBytes % 3 = 0
    PROVE  /\ cycle = 3 - Len(sending)
           /\ \A j \in 0 .. cycle : packet'[j] = PacketOf(move)[j + 1]
<1>1. /\ sending # << >> /\ sending' = Tail(sending)
      /\ packet' = [packet EXCEPT ![cycle] = Head(sending)]
  BY DEF MouseIrq
<1>2. Len(sending) \in 1 .. 3 /\ Head(sending) = sending[1]
  BY <1>1, NextByte DEF MouseInv
<1>3. cycle \in 0 .. 2 /\ lostBytes \in Nat /\ packet \in [0 .. 2 -> Bytes]
  BY DEF MouseInv, MouseTypeOK
<1>4. cycle = 3 - Len(sending)
  <2>1. (cycle + Len(sending) + lostBytes) % 3 = 0
    BY DEF MouseInv, InStep
  <2> DEFINE a == cycle + Len(sending)
  <2>2. a \in 1 .. 5 /\ a \in Int
    <3>1. \A c \in 0 .. 2, n \in 1 .. 3 : c + n \in 1 .. 5 /\ c + n \in Int
      OBVIOUS
    <3> QED
      BY <1>2, <1>3, <3>1
  <2>3. (a + lostBytes) % 3 = a % 3
    <3> HIDE DEF a
    <3> QED
      BY <1>3, <2>2, ModThree
  <2>4. a % 3 = 0
    BY <2>1, <2>3
  <2>5. a = 3
    <3> HIDE DEF a
    <3> QED
      BY <2>2, <2>4
  <2> QED
    BY <1>2, <1>3, <2>5
<1>5. sending[1] = PacketOf(move)[cycle + 1]
  BY <1>2, <1>4 DEF MouseInv, RestOfPacket
<1>6. \A j \in 0 .. cycle - 1 : packet[j] = PacketOf(move)[j + 1]
  BY DEF MouseInv, StartOfPacket
<1>7. ASSUME NEW j \in 0 .. cycle PROVE packet'[j] = PacketOf(move)[j + 1]
  <2>1. CASE j = cycle
    BY <1>1, <1>2, <1>3, <1>5, <2>1
  <2>2. CASE j # cycle
    <3>1. j \in 0 .. cycle - 1 /\ j \in 0 .. 2
      BY <1>3, <2>2
    <3> QED
      BY <1>1, <1>3, <1>6, <2>2, <3>1
  <2> QED
    BY <2>1, <2>2
<1> QED
  BY <1>4, <1>7

LEMMA ApplyTyped ==
    ASSUME MouseTypeOK, packet' \in [0 .. 2 -> Bytes], Apply(packet')
    PROVE  /\ px' \in 0 .. Width - 1 /\ py' \in 0 .. Height - 1
           /\ leftButton' \in {0, 1} /\ rightButton' \in {0, 2}
<1>1. CASE FlagsValid(packet'[0])
  <2> DEFINE f == packet'[0]
             x == Halved(Count(packet', 1) * Scale)
             y == Halved(Count(packet', 2) * Scale)
  <2>1. px' = Clamp(px + x, Width) /\ py' = Clamp(py - y, Height)
    BY <1>1 DEF Apply
  <2>2. leftButton' = Bit(1, f) /\ rightButton' = 2 * Bit(2, f)
    BY <1>1 DEF Apply
  <2>3. x \in Int /\ y \in Int
    <3>1. Count(packet', 1) * Scale \in Int /\ Count(packet', 2) * Scale \in Int
      BY CountInt, ScaleInt
    <3> QED
      BY <3>1, HalfIs
  <2>4. px + x \in Int /\ py - y \in Int
    <3> HIDE DEF x, y
    <3> QED
      BY <2>3, MouseAssumption DEF MouseTypeOK
  <2>5. f \in Nat
    BY DEF Bytes
  <2>6. Bit(1, f) \in {0, 1} /\ Bit(2, f) \in {0, 1}
    <3> HIDE DEF f
    <3> QED
      BY <2>5 DEF Bit
  <2>7. px' \in 0 .. Width - 1 /\ py' \in 0 .. Height - 1
    <3> HIDE DEF x, y
    <3> QED
      BY <2>1, <2>4, ClampIn, MouseAssumption
  <2> QED
    BY <2>2, <2>6, <2>7
<1>2. CASE ~FlagsValid(packet'[0])
  BY <1>2 DEF Apply, pointer, MouseTypeOK
<1> QED
  BY <1>1, <1>2

LEMMA IrqInv == MouseInv /\ MouseIrq => MouseInv'
<1> SUFFICES ASSUME MouseInv, MouseIrq PROVE MouseInv'
  OBVIOUS
<1>1. /\ sending # << >> /\ sending' = Tail(sending)
      /\ packet' = [packet EXCEPT ![cycle] = Head(sending)]
      /\ UNCHANGED <<speed, move, lostBytes, whole>>
  BY DEF MouseIrq
<1>2. /\ Len(sending) \in 1 .. 3 /\ Len(sending') = Len(sending) - 1 /\ sending' \in Seq(Bytes)
      /\ Head(sending) \in Bytes
      /\ \A i \in 1 .. Len(sending') : sending'[i] = sending[i + 1]
  BY <1>1, NextByte DEF MouseInv
<1>3. cycle \in 0 .. 2 /\ lostBytes \in Nat
  BY DEF MouseInv, MouseTypeOK
<1>4. packet' \in [0 .. 2 -> Bytes]
  BY <1>1, <1>2 DEF MouseInv, MouseTypeOK
<1>5. cycle' = IF cycle = 2 THEN 0 ELSE cycle + 1
  BY <1>3 DEF MouseIrq
<1>6. /\ px' \in 0 .. Width - 1 /\ py' \in 0 .. Height - 1
      /\ leftButton' \in {0, 1} /\ rightButton' \in {0, 2}
  <2>1. CASE Apply(packet')
    BY <1>4, <2>1, ApplyTyped DEF MouseInv
  <2>2. CASE UNCHANGED pointer
    BY <2>2 DEF pointer, MouseInv, MouseTypeOK
  <2> QED
    BY <2>1, <2>2 DEF MouseIrq
<1>7. MouseTypeOK'
  BY <1>1, <1>2, <1>3, <1>4, <1>5, <1>6 DEF MouseInv, MouseTypeOK
<1>8. InStep'
  <2>1. (cycle + Len(sending) + lostBytes) % 3 = 0
    BY DEF MouseInv, InStep
  <2>2. (cycle' + Len(sending') + lostBytes) % 3 = 0
    <3> DEFINE a == cycle + Len(sending) + lostBytes
    <3>1. a \in Int /\ (a - 3) % 3 = a % 3
      BY <1>2, <1>3, ModThree
    <3>2. cycle' + Len(sending') + lostBytes = IF cycle = 2 THEN a - 3 ELSE a
      BY <1>2, <1>3, <1>5
    <3> HIDE DEF a
    <3> QED
      BY <2>1, <3>1, <3>2 DEF a
  <2> QED
    BY <1>1, <2>2 DEF InStep
<1>9. RestOfPacket'
  <2> SUFFICES ASSUME whole, NEW i \in 1 .. Len(sending')
               PROVE  sending'[i] = PacketOf(move)[3 - Len(sending') + i]
    BY <1>1 DEF RestOfPacket
  <2>1. i + 1 \in 1 .. Len(sending) /\ 3 - Len(sending') + i = 3 - Len(sending) + (i + 1)
    BY <1>2
  <2> QED
    BY <1>2, <2>1 DEF MouseInv, RestOfPacket
<1>10. StartOfPacket'
  <2> SUFFICES ASSUME whole, lostBytes % 3 = 0, NEW j \in 0 .. cycle' - 1
               PROVE  packet'[j] = PacketOf(move)[j + 1]
    BY <1>1 DEF StartOfPacket
  <2>1. j \in 0 .. cycle
    BY <1>3, <1>5
  <2> QED
    BY <2>1, IrqPlaces
<1> QED
  BY <1>1, <1>7, <1>8, <1>9, <1>10 DEF MouseInv

LEMMA MouseStep == MouseInv /\ [MouseNext]_mouseVars => MouseInv'
<1> SUFFICES ASSUME MouseInv, [MouseNext]_mouseVars PROVE MouseInv'
  OBVIOUS
<1>1. ASSUME NEW s \in MouseSpeeds, SetSpeed(s) PROVE MouseInv'
  BY <1>1 DEF SetSpeed, pointer, MouseInv, MouseTypeOK, InStep, RestOfPacket, StartOfPacket
<1>2. CASE UNCHANGED mouseVars
  BY <1>2 DEF mouseVars, pointer, MouseInv, MouseTypeOK, InStep, RestOfPacket, StartOfPacket
<1> QED
  BY <1>1, <1>2, MovedInv, LostInv, IrqInv DEF MouseNext

(* The pointer follows when the last byte of a packet arrives in step. *)
LEMMA CompletesInStep ==
    ASSUME MouseInv, [MouseNext]_mouseVars, Completes, lostBytes % 3 = 0
    PROVE  /\ px' = Clamp(px + Half(move.dx * Scale), Width)
           /\ py' = Clamp(py - Half(move.dy * Scale), Height)
           /\ leftButton' + rightButton' = move.buttons
<1>1. Len(sending) = 1 /\ Len(sending') = 0 /\ lostBytes' = lostBytes /\ whole
  BY DEF Completes
<1>2. MouseIrq
  <2>1. ~Moved
    BY <1>1 DEF Moved
  <2>2. ~Lost
    BY <1>1 DEF Lost, MouseInv, MouseTypeOK
  <2>3. sending' # sending
    BY <1>1
  <2> QED
    BY <2>1, <2>2, <2>3 DEF MouseNext, SetSpeed, mouseVars
<1>3. cycle = 2 /\ Holds(packet', move)
  BY <1>1, <1>2, IrqPlaces DEF Holds
<1>4. Apply(packet')
  BY <1>2, <1>3 DEF MouseIrq
<1>5. move \in Movements
  BY DEF MouseInv
<1>6. /\ Count(packet', 1) = move.dx /\ Count(packet', 2) = move.dy
      /\ packet'[0] = FlagsOf(move)
  BY <1>3, <1>5, PacketReadBack
<1>7. FlagsValid(packet'[0])
  BY <1>5, <1>6, FlagsReadBack
<1>8. /\ px' = Clamp(px + Halved(move.dx * Scale), Width)
      /\ py' = Clamp(py - Halved(move.dy * Scale), Height)
      /\ leftButton' = Bit(1, FlagsOf(move)) /\ rightButton' = 2 * Bit(2, FlagsOf(move))
  BY <1>4, <1>6, <1>7 DEF Apply
<1>9. Halved(move.dx * Scale) = Half(move.dx * Scale) /\ Halved(move.dy * Scale) = Half(move.dy * Scale)
  <2>1. move.dx * Scale \in Int /\ move.dy * Scale \in Int
    BY <1>5, ScaleInt DEF Movements
  <2> QED
    BY <2>1, HalfIs
<1>10. Bit(1, FlagsOf(move)) + 2 * Bit(2, FlagsOf(move)) = move.buttons
  BY <1>5, FlagsReadBack
<1> QED
  BY <1>8, <1>9, <1>10

(* For any screen, movements, speeds and bytes lost: whenever the bytes    *)
(* lost add up to whole packets, the pointer goes where the device went,   *)
(* no farther than the edge, and the buttons are those of the device.      *)
THEOREM PointerFollows == MouseSpec => []MouseTypeOK /\ FollowsInStep
<1>1. MouseInv /\ [MouseNext]_mouseVars =>
        [Completes /\ lostBytes % 3 = 0 =>
           /\ px' = Clamp(px + Half(move.dx * Scale), Width)
           /\ py' = Clamp(py - Half(move.dy * Scale), Height)
           /\ leftButton' + rightButton' = move.buttons]_mouseVars
  BY CompletesInStep
<1>2. MouseInv => MouseTypeOK
  BY DEF MouseInv
<1> QED
  BY <1>1, <1>2, MouseInitInv, MouseStep, PTL DEF MouseSpec, FollowsInStep

-----------------------------------------------------------------------------
(* The calendar *)

(* The days of a year before its months *)
FirstOf(y, m) ==
    (CASE m = 1 -> 0 [] m = 2 -> 31 [] m = 3 -> 59 [] m = 4 -> 90 [] m = 5 -> 120 [] m = 6 -> 151
       [] m = 7 -> 181 [] m = 8 -> 212 [] m = 9 -> 243 [] m = 10 -> 273 [] m = 11 -> 304
       [] m = 12 -> 334)
      + (IF m > 2 /\ IsLeap(y) THEN 1 ELSE 0)

(* f is the sum of the days of the months: the recursion of DaysBefore. *)
SumsMonths(f, y) == f = [k \in 0 .. 11 |-> IF k = 0 THEN 0 ELSE f[k - 1] + DaysInMonth(y, k)]

LEMMA MonthSteps ==
    ASSUME NEW y \in Int, NEW k \in Int, 1 <= k, k <= 11
    PROVE  /\ FirstOf(y, k) \in Int /\ FirstOf(y, 1) = 0 /\ FirstOf(y, k + 1) \in Int
           /\ FirstOf(y, k + 1) = FirstOf(y, k) + DaysInMonth(y, k)
<1>1. k \in {1, 2, 3, 4, 5, 6, 7, 8, 9, 10, 11}
  OBVIOUS
<1> DEFINE leap == IsLeap(y)
<1>2. DaysInMonth(y, k) = IF k = 2 THEN (IF leap THEN 29 ELSE 28) ELSE IF k \in {4, 6, 9, 11} THEN 30 ELSE 31
  BY DEF DaysInMonth
<1>3. \A m : FirstOf(y, m) =
        (CASE m = 1 -> 0 [] m = 2 -> 31 [] m = 3 -> 59 [] m = 4 -> 90 [] m = 5 -> 120 [] m = 6 -> 151
           [] m = 7 -> 181 [] m = 8 -> 212 [] m = 9 -> 243 [] m = 10 -> 273 [] m = 11 -> 304
           [] m = 12 -> 334)
          + (IF m > 2 /\ leap THEN 1 ELSE 0)
  BY DEF FirstOf
<1> HIDE DEF leap
<1> QED
  BY <1>1, <1>2, <1>3

LEMMA DaysBeforeIs ==
    ASSUME NEW y \in Int, NEW m \in Months
    PROVE  DaysBefore(y, m) = FirstOf(y, m) /\ FirstOf(y, m) \in Int
<1> DEFINE g == [k \in 0 .. 11 |-> FirstOf(y, k + 1)]
           h == CHOOSE f : f = [k \in 0 .. 11 |-> IF k = 0 THEN 0 ELSE f[k - 1] + DaysInMonth(y, k)]
<1>1. SumsMonths(g, y)
  <2>1. \A k \in 0 .. 11 : g[k] = IF k = 0 THEN 0 ELSE g[k - 1] + DaysInMonth(y, k)
    <3> SUFFICES ASSUME NEW k \in 0 .. 11
                 PROVE  g[k] = IF k = 0 THEN 0 ELSE g[k - 1] + DaysInMonth(y, k)
      OBVIOUS
    <3>1. CASE k = 0
      <4>1. 1 <= 11 /\ FirstOf(y, 1) = 0
        BY MonthSteps
      <4> QED
        BY <3>1, <4>1
    <3>2. CASE k # 0
      <4>1. 1 <= k /\ k <= 11 /\ k \in Int /\ k - 1 \in 0 .. 11 /\ (k - 1) + 1 = k
        BY <3>2
      <4>2. FirstOf(y, k + 1) = FirstOf(y, k) + DaysInMonth(y, k)
        BY <4>1, MonthSteps
      <4> QED
        BY <3>2, <4>1, <4>2
    <3> QED
      BY <3>1, <3>2
  <2> QED
    BY <2>1 DEF SumsMonths
<1>2. SumsMonths(h, y)
  <2>1. \E f : SumsMonths(f, y)
    <3> HIDE DEF g
    <3> QED
      BY <1>1
  <2> QED
    BY <2>1, Zenon DEF SumsMonths
<1>3. DaysBefore(y, m) = h[m - 1]
  BY DEF DaysBefore
<1>4. h[0] = 0 /\ \A k \in 1 .. 11 : h[k] = h[k - 1] + DaysInMonth(y, k)
  <2> HIDE DEF h
  <2> QED
    BY <1>2 DEF SumsMonths
<1> HIDE DEF h
<1>5. \A k \in 0 .. 10 : h[k] = FirstOf(y, k + 1) => h[k + 1] = FirstOf(y, k + 2)
  <2> SUFFICES ASSUME NEW k \in 0 .. 10, h[k] = FirstOf(y, k + 1) PROVE h[k + 1] = FirstOf(y, k + 2)
    OBVIOUS
  <2>1. k + 1 <= 11 /\ (k + 1) - 1 = k /\ (k + 1) + 1 = k + 2
    OBVIOUS
  <2>2. FirstOf(y, (k + 1) + 1) = FirstOf(y, k + 1) + DaysInMonth(y, k + 1)
    BY <2>1, MonthSteps
  <2>3. h[k + 1] = h[(k + 1) - 1] + DaysInMonth(y, k + 1)
    BY <1>4, <2>1
  <2> QED
    BY <2>1, <2>2, <2>3
<1>6. h[0] = FirstOf(y, 1)
  BY <1>4, MonthSteps
<1>7. /\ h[1] = FirstOf(y, 2) /\ h[2] = FirstOf(y, 3) /\ h[3] = FirstOf(y, 4) /\ h[4] = FirstOf(y, 5)
      /\ h[5] = FirstOf(y, 6) /\ h[6] = FirstOf(y, 7) /\ h[7] = FirstOf(y, 8) /\ h[8] = FirstOf(y, 9)
      /\ h[9] = FirstOf(y, 10) /\ h[10] = FirstOf(y, 11) /\ h[11] = FirstOf(y, 12)
  BY <1>5, <1>6
<1>8. m \in {1, 2, 3, 4, 5, 6, 7, 8, 9, 10, 11, 12}
  BY DEF Months
<1>9. h[m - 1] = FirstOf(y, m)
  BY <1>6, <1>7, <1>8
<1>10. FirstOf(y, m) \in Int
  <2>1. CASE m = 12
    <3>1. 11 <= 11 /\ FirstOf(y, 11 + 1) \in Int
      BY MonthSteps
    <3> QED
      BY <2>1, <3>1
  <2>2. CASE m # 12
    <3>1. m \in Int /\ 1 <= m /\ m <= 11
      BY <2>2, <1>8
    <3> QED
      BY <3>1, MonthSteps
  <2> QED
    BY <2>1, <2>2
<1> QED
  BY <1>3, <1>9, <1>10

(* The years follow on one another. *)
LEMMA YearSteps ==
    ASSUME NEW y \in Int, 1 <= y
    PROVE  /\ YearDays(y) \in Int
           /\ YearDays(y + 1) = YearDays(y) + 365 + (IF IsLeap(y) THEN 1 ELSE 0)
<1> DEFINE q == y - 1
<1>1. q \in Int /\ y = q + 1 /\ q >= 0
  OBVIOUS
<1>2. /\ (q + 1) \div 4 = q \div 4 + (IF (q + 1) % 4 = 0 THEN 1 ELSE 0)
      /\ (q + 1) \div 100 = q \div 100 + (IF (q + 1) % 100 = 0 THEN 1 ELSE 0)
      /\ (q + 1) \div 400 = q \div 400 + (IF (q + 1) % 400 = 0 THEN 1 ELSE 0)
      /\ q \div 4 \in Int /\ q \div 100 \in Int /\ q \div 400 \in Int
  <2> HIDE DEF q
  <2> QED
    BY <1>1
<1>3. ((q + 1) % 400 = 0 => (q + 1) % 100 = 0) /\ ((q + 1) % 100 = 0 => (q + 1) % 4 = 0)
  <2> HIDE DEF q
  <2> QED
    BY <1>1
<1>4. YearDays(y) = 365 * q + q \div 4 - q \div 100 + q \div 400
  BY DEF YearDays
<1>5. YearDays(y + 1) = 365 * (q + 1) + (q + 1) \div 4 - (q + 1) \div 100 + (q + 1) \div 400
  BY DEF YearDays
<1>6. IsLeap(y) <=> ((q + 1) % 4 = 0 /\ (q + 1) % 100 # 0) \/ (q + 1) % 400 = 0
  BY DEF IsLeap
<1> HIDE DEF q
<1> QED
  BY <1>1, <1>2, <1>3, <1>4, <1>5, <1>6

(* days_from_civil counts the days of the calendar, from 1970 on. *)
LEMMA CivilIs ==
    ASSUME NEW t, NEW Y \in Int, 1 <= Y, NEW m \in Months, NEW d \in Int,
           t.year = Y, t.mon = m, t.day = d
    PROVE  DayNumber(t) \in Int /\ DaysFromCivil(t) = DayNumber(t) - 719163
<1> DEFINE y == IF m <= 2 THEN Y - 1 ELSE Y
           era == y \div 400
           yoe == y - era * 400
           months == (153 * (m + (IF m > 2 THEN -3 ELSE 9)) + 2) \div 5
           leap == IF IsLeap(Y) THEN 1 ELSE 0
           first == FirstOf(Y, m)
<1>1. Y \in Int /\ Y >= 1
  OBVIOUS
<1>2. m \in {1, 2, 3, 4, 5, 6, 7, 8, 9, 10, 11, 12}
  BY DEF Months
<1>3. DaysFromCivil(t) = era * 146097 + (yoe * 365 + yoe \div 4 - yoe \div 100 + (months + d - 1)) - 719468
  BY DEF DaysFromCivil
<1>4. DayNumber(t) = YearDays(Y) + first + d /\ first \in Int
  BY <1>1, <1>2, DaysBeforeIs DEF DayNumber
<1>5. YearDays(Y) \in Int /\ YearDays(Y + 1) = YearDays(Y) + 365 + leap
  BY YearSteps
<1>6. leap \in {0, 1}
  OBVIOUS
<1>7. era * 146097 + yoe * 365 + yoe \div 4 - yoe \div 100 = 365 * y + y \div 4 - y \div 100 + y \div 400
      /\ era \in Int /\ yoe \in Int /\ yoe \div 4 \in Int /\ yoe \div 100 \in Int /\ y \in Int
  <2>1. y \in Int /\ y >= 0
    BY <1>1, <1>2
  <2> HIDE DEF y
  <2>2. era \in Int /\ yoe \in 0 .. 399 /\ y = 400 * era + yoe
    BY <2>1
  <2>3. y \div 400 = era
    OBVIOUS
  <2> HIDE DEF era, yoe
  <2>4. y \div 4 = 100 * era + yoe \div 4 /\ y \div 100 = 4 * era + yoe \div 100
    BY <2>1, <2>2
  <2> QED
    BY <2>1, <2>2, <2>3, <2>4
<1>8. YearDays(y + 1) = 365 * y + y \div 4 - y \div 100 + y \div 400
  <2>1. y \in Int /\ (y + 1) - 1 = y
    BY <1>7
  <2> HIDE DEF y
  <2> QED
    BY <2>1 DEF YearDays
<1>9. months \in Int /\ months = IF m <= 2 THEN first + 306 ELSE first - 59 - leap
  <2>1. first = (CASE m = 1 -> 0 [] m = 2 -> 31 [] m = 3 -> 59 [] m = 4 -> 90 [] m = 5 -> 120 [] m = 6 -> 151
                   [] m = 7 -> 181 [] m = 8 -> 212 [] m = 9 -> 243 [] m = 10 -> 273 [] m = 11 -> 304
                   [] m = 12 -> 334) + (IF m > 2 THEN leap ELSE 0)
    BY <1>2 DEF FirstOf
  <2> HIDE DEF first, leap
  <2> QED
    BY <1>2, <1>6, <2>1
<1>10. y + 1 = (IF m <= 2 THEN Y ELSE Y + 1) /\ m \in Int
  BY <1>1, <1>2
<1> HIDE DEF y, era, yoe, months, leap, first
<1> QED
  BY <1>1, <1>3, <1>4, <1>5, <1>7, <1>8, <1>9, <1>10, <1>2, <1>6

LEMMA MonthIs ==
    ASSUME NEW y \in Int, NEW m \in Months
    PROVE  DaysInMonth(y, m) \in 28 .. 31 /\ (m \in {1, 12} => DaysInMonth(y, m) = 31)
BY DEF DaysInMonth, Months

(* The number of a day of a date *)
LEMMA NumberIs ==
    ASSUME NEW t, NEW Y \in Int, 1 <= Y, NEW m \in Months, NEW d \in Int,
           t.year = Y, t.mon = m, t.day = d
    PROVE  DayNumber(t) = YearDays(Y) + FirstOf(Y, m) + d
BY DaysBeforeIs DEF DayNumber

(* The dates next to a date *)
LEMMA NextMonth ==
    ASSUME NEW Y \in Int, 1 <= Y, NEW m \in Months
    PROVE  /\ m < 12 => FirstOf(Y, m + 1) = FirstOf(Y, m) + DaysInMonth(Y, m)
           /\ m = 12 => YearDays(Y + 1) + FirstOf(Y + 1, 1) = YearDays(Y) + FirstOf(Y, 12) + 31
           /\ YearDays(Y) \in Int /\ FirstOf(Y, m) \in Int
<1>1. Y \in Int /\ Y + 1 \in Int /\ 1 <= Y
  OBVIOUS
<1>2. YearDays(Y) \in Int /\ FirstOf(Y, m) \in Int
  BY <1>1, YearSteps, DaysBeforeIs
<1>3. ASSUME m < 12 PROVE FirstOf(Y, m + 1) = FirstOf(Y, m) + DaysInMonth(Y, m)
  <2>1. m \in Int /\ 1 <= m /\ m <= 11
    BY <1>3 DEF Months
  <2> QED
    BY <1>1, <2>1, MonthSteps
<1>4. YearDays(Y + 1) + FirstOf(Y + 1, 1) = YearDays(Y) + FirstOf(Y, 12) + 31
  <2> DEFINE leap == IF IsLeap(Y) THEN 1 ELSE 0
  <2>1. YearDays(Y + 1) = YearDays(Y) + 365 + leap
    BY <1>1, YearSteps
  <2>2. leap \in {0, 1}
    OBVIOUS
  <2>3. FirstOf(Y, 12) = 334 + leap
    BY DEF FirstOf
  <2>4. FirstOf(Y + 1, 1) = 0
    BY <1>1, MonthSteps
  <2> HIDE DEF leap
  <2> QED
    BY <1>2, <2>1, <2>2, <2>3, <2>4
<1> QED
  BY <1>2, <1>3, <1>4

(* The record of an instant *)
Dated(t, y, m, d) ==
    [sec |-> t.sec, min |-> t.min, hour |-> t.hour, day |-> d, mon |-> m, year |-> y, weekday |-> t.weekday]

LEMMA BackADayIs ==
    ASSUME NEW t, NEW y \in Int, NEW k \in Months, NEW e \in Int
    PROVE  /\ e >= 1 => BackADay(Dated(t, y, k, e)) = Dated(t, y, k, e)
           /\ e < 1 /\ k > 1 => BackADay(Dated(t, y, k, e)) = Dated(t, y, k - 1, e + DaysInMonth(y, k - 1))
           /\ e < 1 /\ k = 1 => BackADay(Dated(t, y, k, e)) = Dated(t, y - 1, 12, e + DaysInMonth(y - 1, 12))
<1> DEFINE x == Dated(t, y, k, e)
           m == IF x.mon - 1 < 1 THEN [x EXCEPT !.mon = 12, !.year = @ - 1]
                ELSE [x EXCEPT !.mon = @ - 1]
<1>1. BackADay(x) = IF x.day >= 1 THEN x ELSE [m EXCEPT !.day = @ + Days(m)]
  BY DEF BackADay
<1>2. x.day = e /\ x.mon = k /\ x.year = y
  BY DEF Dated
<1>3. k \in Int /\ 1 <= k /\ k <= 12
  BY DEF Months
<1>4. ASSUME k > 1, e < 1 PROVE BackADay(x) = Dated(t, y, k - 1, e + DaysInMonth(y, k - 1))
  <2>1. m = Dated(t, y, k - 1, e)
    BY <1>2, <1>3, <1>4 DEF Dated
  <2>2. k - 1 \in Months
    BY <1>3, <1>4 DEF Months
  <2>3. Days(m) = DaysInMonth(y, k - 1) /\ m.day = e
    BY <2>1, <2>2 DEF Days, Dated
  <2>4. BackADay(x) = [m EXCEPT !.day = e + DaysInMonth(y, k - 1)]
    BY <1>1, <1>2, <1>4, <2>3
  <2> HIDE DEF m
  <2> QED
    BY <2>1, <2>4 DEF Dated
<1>5. ASSUME k = 1, e < 1 PROVE BackADay(x) = Dated(t, y - 1, 12, e + DaysInMonth(y - 1, 12))
  <2>1. m = Dated(t, y - 1, 12, e)
    <3>1. m = [x EXCEPT !.mon = 12, !.year = @ - 1]
      BY <1>2, <1>5
    <3> HIDE DEF m
    <3> QED
      BY <1>2, <3>1 DEF Dated
  <2>2. 12 \in Months
    BY DEF Months
  <2>3. Days(m) = DaysInMonth(y - 1, 12) /\ m.day = e
    BY <2>1, <2>2 DEF Days, Dated
  <2>4. BackADay(x) = [m EXCEPT !.day = e + DaysInMonth(y - 1, 12)]
    <3>1. BackADay(x) = [m EXCEPT !.day = @ + Days(m)]
      <4> HIDE DEF x, m
      <4> QED
        BY <1>1, <1>2, <1>5
    <3> HIDE DEF x, m
    <3> QED
      BY <2>3, <3>1
  <2> HIDE DEF m
  <2> QED
    BY <2>1, <2>4 DEF Dated
<1> HIDE DEF x, m
<1> QED
  BY <1>1, <1>2, <1>4, <1>5 DEF x

LEMMA OnADayIs ==
    ASSUME NEW t, NEW y \in Int, NEW k \in Months, NEW e \in Int
    PROVE  /\ e <= DaysInMonth(y, k) => OnADay(Dated(t, y, k, e)) = Dated(t, y, k, e)
           /\ e > DaysInMonth(y, k) /\ k < 12 =>
                OnADay(Dated(t, y, k, e)) = Dated(t, y, k + 1, e - DaysInMonth(y, k))
           /\ e > DaysInMonth(y, k) /\ k = 12 =>
                OnADay(Dated(t, y, k, e)) = Dated(t, y + 1, 1, e - DaysInMonth(y, k))
<1> DEFINE x == Dated(t, y, k, e)
           n == [x EXCEPT !.day = @ - Days(x)]
<1>1. OnADay(x) = IF x.day <= Days(x) THEN x
                  ELSE IF n.mon + 1 > 12 THEN [n EXCEPT !.mon = 1, !.year = @ + 1]
                  ELSE [n EXCEPT !.mon = @ + 1]
  BY DEF OnADay
<1>2. Days(x) = DaysInMonth(y, k) /\ x.day = e
  BY DEF Days, Dated
<1>3. n = Dated(t, y, k, e - DaysInMonth(y, k))
  BY <1>2 DEF Dated
<1>4. k \in Int /\ 1 <= k /\ k <= 12 /\ DaysInMonth(y, k) \in Int
  BY MonthIs DEF Months
<1>5. n.mon = k /\ n.year = y
  BY <1>3 DEF Dated
<1> HIDE DEF n, x
<1>6. k < 12 => [n EXCEPT !.mon = @ + 1] = Dated(t, y, k + 1, e - DaysInMonth(y, k))
  BY <1>3 DEF Dated
<1>7. k = 12 => [n EXCEPT !.mon = 1, !.year = @ + 1] = Dated(t, y + 1, 1, e - DaysInMonth(y, k))
  <2>1. [n EXCEPT !.mon = 1, !.year = @ + 1] = [n EXCEPT !.mon = 1, !.year = y + 1]
    BY <1>5
  <2>2. [n EXCEPT !.mon = 1, !.year = y + 1] = Dated(t, y + 1, 1, e - DaysInMonth(y, k))
    <3> DEFINE f == e - DaysInMonth(y, k)
               z == y + 1
               u == Dated(t, y, k, f)
    <3> HIDE DEF f, z, u
    <3>1. [u EXCEPT !.mon = 1, !.year = z] = Dated(t, z, 1, f)
      <4>1. [u EXCEPT !.mon = 1] = Dated(t, y, 1, f)
        BY DEF Dated, u
      <4>2. [Dated(t, y, 1, f) EXCEPT !.year = z] = Dated(t, z, 1, f)
        BY DEF Dated
      <4>3. [u EXCEPT !.mon = 1, !.year = z] = [[u EXCEPT !.mon = 1] EXCEPT !.year = z]
        BY DEF Dated, u
      <4> QED
        BY <4>1, <4>2, <4>3
    <3> QED
      BY <1>3, <3>1 DEF f, z, u
  <2> QED
    BY <2>1, <2>2
<1> QED
  BY <1>1, <1>2, <1>4, <1>5, <1>6, <1>7 DEF x

(* x is the record of the date that is day N of the calendar. *)
IsDate(x, t, N, y, m, d) ==
    /\ y \in Int /\ 1 <= y /\ m \in Months /\ d \in Int /\ 1 <= d /\ d <= DaysInMonth(y, m)
    /\ x = Dated(t, y, m, d)
    /\ YearDays(y) + FirstOf(y, m) + d = N

IsADate(x, t, N) == \E y, m, d : IsDate(x, t, N, y, m, d)

(* A day just before or behind its month becomes the date it stands for. *)
LEMMA NormalizedIs ==
    ASSUME NEW t, NEW Y \in Int, 1900 <= Y, Y <= LastYear, NEW m \in Months,
           NEW d \in 0 .. DaysInMonth(Y, m) + 1
    PROVE  IsADate(OnADay(BackADay(Dated(t, Y, m, d))), t, YearDays(Y) + FirstOf(Y, m) + d)
<1> DEFINE x == OnADay(BackADay(Dated(t, Y, m, d)))
           N == YearDays(Y) + FirstOf(Y, m) + d
<1>1. /\ m \in Int /\ m >= 1 /\ m <= 12 /\ d \in Int /\ DaysInMonth(Y, m) \in 28 .. 31
      /\ 0 <= d /\ d <= DaysInMonth(Y, m) + 1 /\ Y <= 2199
  BY MonthIs DEF Months, LastYear
<1>2. ASSUME d = 0 /\ m > 1 PROVE IsADate(x, t, N)
  <2> DEFINE k == m - 1
             e == DaysInMonth(Y, k)
  <2>1. k \in Months /\ k < 12 /\ k + 1 = m
    BY <1>1, <1>2 DEF Months
  <2>2. e \in 28 .. 31
    BY <2>1, MonthIs
  <2>3. BackADay(Dated(t, Y, m, d)) = Dated(t, Y, k, 0 + e)
    BY <1>1, <1>2, BackADayIs
  <2>4. FirstOf(Y, m) = FirstOf(Y, k) + e /\ YearDays(Y) \in Int /\ FirstOf(Y, k) \in Int
    BY <1>1, <2>1, NextMonth
  <2>5. 0 + e = e /\ e <= DaysInMonth(Y, k) /\ e \in Int
    BY <2>2
  <2>6. OnADay(Dated(t, Y, k, e)) = Dated(t, Y, k, e)
    BY <2>1, <2>5, OnADayIs
  <2>7. YearDays(Y) + FirstOf(Y, k) + e = YearDays(Y) + FirstOf(Y, m) + d
    BY <1>2, <2>4, <2>5
  <2>8. OnADay(BackADay(Dated(t, Y, m, d))) = Dated(t, Y, k, e)
    BY <2>3, <2>5, <2>6
  <2>9. Y \in 1899 .. 2200 /\ e \in 1 .. 31
    BY <1>1, <2>2
  <2>10. IsDate(x, t, N, Y, k, e)
    <3>1. 1 <= Y /\ 1 <= e
      BY <1>1, <2>2
    <3> HIDE DEF k, e, x, N
    <3> QED
      BY <2>1, <2>5, <2>7, <2>8, <3>1 DEF IsDate, x, N
  <2> HIDE DEF k, e, x, N
  <2> QED
    BY <2>1, <2>9, <2>10 DEF IsADate
<1>3. ASSUME d = 0 /\ m = 1 PROVE IsADate(x, t, N)
  <2>1. BackADay(Dated(t, Y, m, d)) = Dated(t, Y - 1, 12, 0 + DaysInMonth(Y - 1, 12))
    BY <1>1, <1>3, BackADayIs
  <2>2. 12 \in Months /\ DaysInMonth(Y - 1, 12) = 31 /\ Y - 1 \in Int /\ 1 <= Y - 1 /\ (Y - 1) + 1 = Y
    BY <1>1, MonthIs DEF Months
  <2>3. YearDays(Y) + FirstOf(Y, 1) = YearDays(Y - 1) + FirstOf(Y - 1, 12) + 31
        /\ YearDays(Y - 1) \in Int /\ FirstOf(Y - 1, 12) \in Int
    BY <1>1, <2>2, NextMonth
  <2>4. OnADay(Dated(t, Y - 1, 12, 31)) = Dated(t, Y - 1, 12, 31)
    BY <2>2, OnADayIs
  <2>5. Y - 1 \in 1899 .. 2200 /\ 31 \in 1 .. 31 /\ 31 <= DaysInMonth(Y - 1, 12)
    BY <1>1, <2>2
  <2>6. OnADay(BackADay(Dated(t, Y, m, d))) = Dated(t, Y - 1, 12, 31)
    BY <2>1, <2>2, <2>4
  <2>7. YearDays(Y - 1) + FirstOf(Y - 1, 12) + 31 = YearDays(Y) + FirstOf(Y, m) + d
    BY <1>3, <2>3
  <2>8. IsDate(x, t, N, Y - 1, 12, 31)
    <3> HIDE DEF x, N
    <3> QED
      BY <2>2, <2>5, <2>6, <2>7 DEF IsDate, x, N
  <2> HIDE DEF x, N
  <2> QED
    BY <2>2, <2>5, <2>8 DEF IsADate
<1>4. ASSUME 1 <= d /\ d <= DaysInMonth(Y, m) PROVE IsADate(x, t, N)
  <2>1. OnADay(BackADay(Dated(t, Y, m, d))) = Dated(t, Y, m, d)
    BY <1>1, <1>4, BackADayIs, OnADayIs
  <2>2. Y \in 1899 .. 2200 /\ d \in 1 .. 31
    BY <1>1, <1>4
  <2>3. IsDate(x, t, N, Y, m, d)
    BY <1>4, <2>1 DEF IsDate
  <2> HIDE DEF x, N
  <2> QED
    BY <2>2, <2>3 DEF IsADate
<1>5. ASSUME d = DaysInMonth(Y, m) + 1 /\ m < 12 PROVE IsADate(x, t, N)
  <2>1. BackADay(Dated(t, Y, m, d)) = Dated(t, Y, m, d)
    BY <1>1, <1>5, BackADayIs
  <2>2. OnADay(Dated(t, Y, m, d)) = Dated(t, Y, m + 1, d - DaysInMonth(Y, m))
    BY <1>1, <1>5, OnADayIs
  <2>3. m + 1 \in Months /\ d - DaysInMonth(Y, m) = 1 /\ Y \in 1899 .. 2200 /\ 1 \in 1 .. 31
    BY <1>1, <1>5 DEF Months
  <2>4. 1 <= DaysInMonth(Y, m + 1)
    BY <2>3, MonthIs
  <2>5. FirstOf(Y, m + 1) = FirstOf(Y, m) + DaysInMonth(Y, m) /\ YearDays(Y) \in Int /\ FirstOf(Y, m) \in Int
    BY <1>1, <1>5, NextMonth
  <2>6. YearDays(Y) + FirstOf(Y, m + 1) + 1 = YearDays(Y) + FirstOf(Y, m) + d
    BY <1>1, <1>5, <2>5
  <2>7. OnADay(BackADay(Dated(t, Y, m, d))) = Dated(t, Y, m + 1, 1)
    BY <2>1, <2>2, <2>3
  <2>8. IsDate(x, t, N, Y, m + 1, 1)
    <3> HIDE DEF x, N
    <3> QED
      BY <1>1, <2>3, <2>4, <2>6, <2>7 DEF IsDate, x, N
  <2> HIDE DEF x, N
  <2> QED
    BY <2>3, <2>8 DEF IsADate
<1>6. ASSUME d = DaysInMonth(Y, m) + 1 /\ m = 12 PROVE IsADate(x, t, N)
  <2>1. BackADay(Dated(t, Y, m, d)) = Dated(t, Y, m, d)
    BY <1>1, <1>6, BackADayIs
  <2>2. OnADay(Dated(t, Y, m, d)) = Dated(t, Y + 1, 1, d - DaysInMonth(Y, m))
    BY <1>1, <1>6, OnADayIs
  <2>3. 1 \in Months /\ d - DaysInMonth(Y, m) = 1 /\ Y + 1 \in 1899 .. 2200 /\ 1 \in 1 .. 31
        /\ Y + 1 \in Int /\ d = 32
    BY <1>1, <1>6, MonthIs DEF Months
  <2>4. 1 <= DaysInMonth(Y + 1, 1)
    BY <2>3, MonthIs
  <2>5. YearDays(Y + 1) + FirstOf(Y + 1, 1) = YearDays(Y) + FirstOf(Y, 12) + 31
        /\ YearDays(Y) \in Int /\ FirstOf(Y, 12) \in Int
    BY <1>1, <1>6, NextMonth
  <2>6. YearDays(Y + 1) + FirstOf(Y + 1, 1) + 1 = YearDays(Y) + FirstOf(Y, m) + d
    BY <1>6, <2>3, <2>5
  <2>7. OnADay(BackADay(Dated(t, Y, m, d))) = Dated(t, Y + 1, 1, 1)
    BY <2>1, <2>2, <2>3
  <2>8. IsDate(x, t, N, Y + 1, 1, 1)
    <3>1. 1 <= Y + 1
      BY <1>1
    <3> HIDE DEF x, N
    <3> QED
      BY <2>3, <2>4, <2>6, <2>7, <3>1 DEF IsDate, x, N
  <2> HIDE DEF x, N
  <2> QED
    BY <2>3, <2>8 DEF IsADate
<1>7. /\ d = 0 \/ (1 <= d /\ d <= DaysInMonth(Y, m)) \/ d = DaysInMonth(Y, m) + 1
      /\ m > 1 \/ m = 1
      /\ m < 12 \/ m = 12
  <2> DEFINE n == DaysInMonth(Y, m)
  <2> HIDE DEF n
  <2>1. d \in Int /\ n \in Int /\ 0 <= d /\ d <= n + 1
    BY <1>1 DEF n
  <2>2. d = 0 \/ (1 <= d /\ d <= n) \/ d = n + 1
    BY <2>1
  <2> QED
    BY <1>1, <2>2 DEF n
<1> HIDE DEF x, N
<1>8. ASSUME d = 0 PROVE IsADate(x, t, N)
  BY <1>2, <1>3, <1>7, <1>8
<1>9. ASSUME 1 <= d, d <= DaysInMonth(Y, m) PROVE IsADate(x, t, N)
  BY <1>4, <1>9
<1>10. ASSUME d = DaysInMonth(Y, m) + 1 PROVE IsADate(x, t, N)
  BY <1>5, <1>6, <1>7, <1>10
<1> QED
  BY <1>7, <1>8, <1>9, <1>10 DEF x, N

(* x is an instant of day N and of minute T of the calendar, with the day  *)
(* of the week of its date if that is not day D, and the old one if it is. *)
IsMoved(x, s, old, D, T, H, M, y, m, d, w) ==
    /\ x = [sec |-> s, min |-> M, hour |-> H, day |-> d, mon |-> m, year |-> y, weekday |-> w]
    /\ y \in Int /\ 1 <= y /\ m \in Months /\ d \in Int /\ 1 <= d /\ d <= DaysInMonth(y, m)
    /\ H \in 0 .. 23 /\ M \in 0 .. 59
    /\ LET N == YearDays(y) + FirstOf(y, m) + d
       IN  1440 * N + 60 * H + M = T /\ w = IF N # D THEN N % 7 ELSE old

IsAMove(x, s, old, D, T) == \E H, M, y, m, d, w : IsMoved(x, s, old, D, T, H, M, y, m, d, w)

LEMMA TotalIs ==
    ASSUME NEW total \in Int, -720 <= total, total <= 2279
    PROVE  /\ total \div 1440 \in {-1, 0, 1} /\ total = 1440 * (total \div 1440) + (total % 1440)
           /\ (total % 1440) \div 60 \in 0 .. 23 /\ (total % 1440) % 60 \in 0 .. 59
           /\ 60 * ((total % 1440) \div 60) + ((total % 1440) % 60) = total % 1440
           /\ total % 1440 \in Int
<1> DEFINE rest == total % 1440
<1>1. total \div 1440 \in {-1, 0, 1} /\ rest \in 0 .. 1439 /\ total = 1440 * (total \div 1440) + rest
  OBVIOUS
<1>2. rest \in Int /\ 0 <= rest /\ rest <= 1439
  BY <1>1
<1> HIDE DEF rest
<1>3. rest \div 60 \in 0 .. 23 /\ rest % 60 \in 0 .. 59 /\ 60 * (rest \div 60) + (rest % 60) = rest
  BY <1>2
<1> QED
  BY <1>1, <1>2, <1>3 DEF rest

(* What rtc_read returns *)
Rec(s, mi, h, d, m, y, w) ==
    [sec |-> s, min |-> mi, hour |-> h, day |-> d, mon |-> m, year |-> y, weekday |-> w]

LEMMA HourSet ==
    ASSUME NEW s, NEW mi, NEW h, NEW d, NEW m, NEW y, NEW w, NEW H,
           NEW r, r = Rec(s, mi, h, d, m, y, w)
    PROVE  [r EXCEPT !.hour = H] = Rec(s, mi, H, d, m, y, w)
BY DEF Rec

LEMMA MinSet ==
    ASSUME NEW s, NEW mi, NEW h, NEW d, NEW m, NEW y, NEW w, NEW M,
           NEW r, r = Rec(s, mi, h, d, m, y, w)
    PROVE  [r EXCEPT !.min = M] = Rec(s, M, h, d, m, y, w)
BY DEF Rec

(* t is an instant of day D, and T the minute the offset takes it to. *)
ToMove(s, mi, h, Y, m, d, w, t, D, T) ==
    /\ t = [sec |-> s, min |-> mi, hour |-> h, day |-> d, mon |-> m, year |-> Y, weekday |-> w]
    /\ mi \in 0 .. 59 /\ h \in 0 .. 23 /\ w \in Int /\ offset \in -720 .. 840
    /\ Y \in Int /\ 1900 <= Y /\ Y <= LastYear /\ m \in Months /\ d \in 1 .. DaysInMonth(Y, m)
    /\ D = YearDays(Y) + FirstOf(Y, m) + d
    /\ T = 1440 * D + 60 * h + mi + offset

LEMMA OffsetIs ==
    ASSUME NEW s, NEW mi, NEW h, NEW Y, NEW m, NEW d, NEW w, NEW t, NEW D, NEW T,
           ToMove(s, mi, h, Y, m, d, w, t, D, T)
    PROVE  IsAMove(ApplyOffset(t), s, w, D, T)
<1> USE DEF ToMove
<1> DEFINE total == h * 60 + mi + offset
           rest == total % 1440
           delta == total \div 1440
           H == rest \div 60
           M == rest % 60
           timed == [t EXCEPT !.hour = H, !.min = M]
           shifted == [timed EXCEPT !.day = @ + delta]
           dated == OnADay(BackADay(shifted))
           u == [sec |-> s, min |-> M, hour |-> H, weekday |-> w]
           x == ApplyOffset(t)
<1>1. /\ delta \in {-1, 0, 1} /\ total = 1440 * delta + rest
      /\ H \in 0 .. 23 /\ M \in 0 .. 59 /\ 60 * H + M = rest /\ rest \in Int
  <2>1. total \in Int /\ -720 <= total /\ total <= 2279
    OBVIOUS
  <2> HIDE DEF total
  <2> QED
    BY <2>1, TotalIs
<1>2. x = IF offset = 0 THEN t
          ELSE IF delta = 0 THEN timed
          ELSE [dated EXCEPT !.weekday = (DaysFromCivil(dated) + 4) % 7]
  BY DEF ApplyOffset
<1>3. /\ DaysInMonth(Y, m) \in 28 .. 31 /\ d \in Int /\ 1 <= d /\ d <= DaysInMonth(Y, m) /\ d \in 1 .. 31
      /\ Y \in 1899 .. 2200
  BY MonthIs DEF LastYear
<1>4. D \in Int /\ T \in Int /\ offset \in Int /\ h \in Int /\ mi \in Int
  <2>1. YearDays(Y) \in Int /\ FirstOf(Y, m) \in Int
    BY NextMonth
  <2> QED
    BY <2>1, <1>3
<1>5. timed = Dated(u, Y, m, d)
  <2> HIDE DEF H, M
  <2> DEFINE r == [t EXCEPT !.hour = H]
  <2>1. r = Rec(s, mi, H, d, m, Y, w)
    BY HourSet DEF Rec
  <2>2. timed = [r EXCEPT !.min = M]
    <3> HIDE DEF u
    <3> QED
      OBVIOUS
  <2> HIDE DEF r, timed
  <2>3. timed = Rec(s, M, H, d, m, Y, w)
    <3> HIDE DEF u
    <3> QED
      BY <2>1, <2>2, MinSet
  <2> QED
    BY <2>3 DEF Dated, Rec
<1>6. ASSUME offset = 0 PROVE IsAMove(x, s, w, D, T)
  <2>1. IsMoved(x, s, w, D, T, h, mi, Y, m, d, w)
    <3>1. T = 1440 * D + 60 * h + mi
      BY <1>4, <1>6
    <3>2. x = [sec |-> s, min |-> mi, hour |-> h, day |-> d, mon |-> m, year |-> Y, weekday |-> w]
      BY <1>2, <1>6 DEF Rec
    <3> HIDE DEF x
    <3> QED
      BY <1>3, <1>6, <3>1, <3>2 DEF IsMoved
  <2> HIDE DEF x
  <2> QED
    BY <1>3, <2>1 DEF IsAMove
<1>7. ASSUME offset # 0, delta = 0 PROVE IsAMove(x, s, w, D, T)
  <2>1. x = Dated(u, Y, m, d)
    BY <1>2, <1>5, <1>7
  <2>2. T = 1440 * D + 60 * H + M
    <3> HIDE DEF H, M, rest, delta
    <3> QED
      BY <1>1, <1>4, <1>7
  <2>3. IsMoved(x, s, w, D, T, H, M, Y, m, d, w)
    <3> HIDE DEF x, H, M
    <3> QED
      BY <1>1, <1>3, <2>1, <2>2 DEF IsMoved, Dated, u
  <2> HIDE DEF x, H, M
  <2> QED
    BY <1>1, <1>3, <2>3 DEF IsAMove
<1>8. ASSUME offset # 0, delta # 0 PROVE IsAMove(x, s, w, D, T)
  <2>1. shifted = Dated(u, Y, m, d + delta)
    <3> HIDE DEF timed, delta, u
    <3> QED
      BY <1>5 DEF Dated
  <2>2. d + delta \in 0 .. DaysInMonth(Y, m) + 1
    <3> HIDE DEF delta
    <3> QED
      BY <1>1, <1>3
  <2>3. IsADate(dated, u, YearDays(Y) + FirstOf(Y, m) + (d + delta))
    <3> DEFINE c == d + delta
    <3>1. c \in 0 .. DaysInMonth(Y, m) + 1
      BY <2>2
    <3> HIDE DEF u, timed, c
    <3>2. IsADate(OnADay(BackADay(Dated(u, Y, m, c))), u, YearDays(Y) + FirstOf(Y, m) + c)
      BY <3>1, NormalizedIs
    <3> HIDE DEF delta, shifted
    <3> QED
      BY <2>1, <3>2 DEF c
  <2>4. PICK Z, k, e :
           IsDate(dated, u, YearDays(Y) + FirstOf(Y, m) + (d + delta), Z, k, e)
    <3> HIDE DEF dated, u, delta
    <3> QED
      BY <2>3 DEF IsADate
  <2> DEFINE N == YearDays(Z) + FirstOf(Z, k) + e
             v == (DaysFromCivil(dated) + 4) % 7
  <2>5. dated = Dated(u, Z, k, e) /\ e <= DaysInMonth(Z, k) /\ N = D + delta
    <3>1. YearDays(Y) + FirstOf(Y, m) + (d + delta) = D + delta
      <4>1. YearDays(Y) \in Int /\ FirstOf(Y, m) \in Int
        BY NextMonth
      <4> HIDE DEF delta
      <4> QED
        BY <4>1, <1>1, <1>3
    <3> HIDE DEF dated, delta, u
    <3> QED
      BY <2>4, <3>1 DEF IsDate
  <2>6. dated.year = Z /\ dated.mon = k /\ dated.day = e
    <3> HIDE DEF dated, u
    <3> QED
      BY <2>5 DEF Dated
  <2>7. DaysFromCivil(dated) = N - 719163 /\ N \in Int
    <3>1. Z \in Int /\ 1 <= Z /\ e \in Int /\ k \in Months
      BY <2>4 DEF IsDate
    <3> HIDE DEF dated
    <3>2. DayNumber(dated) \in Int /\ DaysFromCivil(dated) = DayNumber(dated) - 719163
      BY <2>6, <3>1, CivilIs
    <3>3. DayNumber(dated) = N
      BY <2>6, <3>1, NumberIs
    <3> QED
      BY <3>2, <3>3
  <2>8. v = N % 7 /\ v \in Int
    <3> HIDE DEF dated, N
    <3>1. (N - 719163 + 4) % 7 = N % 7 /\ N % 7 \in Int
      BY <2>7
    <3> QED
      BY <2>7, <3>1
  <2>9. x = [Dated(u, Z, k, e) EXCEPT !.weekday = v]
    <3> HIDE DEF x, v, dated, timed, delta
    <3> QED
      BY <1>2, <1>8, <2>5 DEF v
  <2>10. x = [sec |-> s, min |-> M, hour |-> H, day |-> e, mon |-> k, year |-> Z, weekday |-> v]
    <3> HIDE DEF x, v, M, H
    <3> QED
      BY <2>9 DEF Dated
  <2>11. 1440 * N + 60 * H + M = T
    <3>1. delta \in Int /\ N = D + delta
      BY <1>1, <2>5
    <3>2. H \in Int /\ M \in Int /\ 60 * H + M = rest /\ rest \in Int /\ total = 1440 * delta + rest
      BY <1>1
    <3> HIDE DEF H, M, rest, delta, N
    <3> QED
      BY <1>4, <2>7, <3>1, <3>2, SMTT(30)
  <2>12. IsMoved(x, s, w, D, T, H, M, Z, k, e, v)
    <3> HIDE DEF x, v, M, H
    <3> QED
      BY <1>1, <1>4, <1>8, <2>5, <2>8, <2>10, <2>11, <2>4 DEF IsMoved, IsDate
  <2> HIDE DEF x, H, M, v
  <2> QED
    BY <1>1, <2>8, <2>12 DEF IsAMove
<1>9. IsAMove(x, s, w, D, T)
  <2> HIDE DEF x, delta
  <2> QED
    BY <1>6, <1>7, <1>8
<1> QED
  BY <1>9

-----------------------------------------------------------------------------
(* The clock goes on *)

Fields == [sec : 0 .. 59, min : 0 .. 59, hour : 0 .. 23, day : 1 .. 31, mon : Months,
           year : 1900 .. LastYear]

LEMMA NextDayIs ==
    ASSUME NEW t \in Instant, NextDay(t).year <= LastYear
    PROVE  NextDay(t) \in Instant
<1>1. t \in Fields /\ t.day \in Int /\ 1 <= t.day /\ t.day <= DaysInMonth(t.year, t.mon)
  BY DEF Instant, Fields
<1>2. t.year \in Int /\ 1900 <= t.year /\ t.mon \in Months /\ t.mon \in Int
  BY <1>1 DEF Fields, Months
<1>3. \A y \in Int, m \in Months : DaysInMonth(y, m) \in 28 .. 31
  BY MonthIs
<1>4. CASE t.day < DaysInMonth(t.year, t.mon)
  <2>1. NextDay(t) = [t EXCEPT !.day = t.day + 1]
    BY <1>4 DEF NextDay
  <2>2. t.day + 1 \in 1 .. 31 /\ t.day + 1 <= DaysInMonth(t.year, t.mon)
    BY <1>1, <1>2, <1>3, <1>4
  <2>3. [t EXCEPT !.day = t.day + 1] \in Fields
    BY <1>1, <2>2 DEF Fields
  <2>4. [t EXCEPT !.day = t.day + 1].day = t.day + 1 /\ [t EXCEPT !.day = t.day + 1].mon = t.mon
        /\ [t EXCEPT !.day = t.day + 1].year = t.year
    BY <1>1 DEF Fields
  <2> QED
    BY <2>1, <2>2, <2>3, <2>4 DEF Instant, Fields
<1>5. CASE ~(t.day < DaysInMonth(t.year, t.mon)) /\ t.mon < 12
  <2> DEFINE n == t.mon + 1
             a == [t EXCEPT !.day = 1]
             b == [a EXCEPT !.mon = n]
  <2>1. NextDay(t) = b
    BY <1>5, <1>1 DEF NextDay, Fields
  <2>2. n \in Months
    BY <1>2, <1>5 DEF Months
  <2> HIDE DEF n
  <2>3. a \in Fields /\ a.day = 1 /\ a.year = t.year
    BY <1>1 DEF Fields
  <2> HIDE DEF a
  <2>4. b \in Fields /\ b.day = 1 /\ b.year = t.year /\ b.mon = n
    BY <2>2, <2>3 DEF Fields
  <2> HIDE DEF b
  <2> QED
    BY <1>2, <1>3, <2>1, <2>2, <2>4 DEF Instant, Fields
<1>6. CASE ~(t.day < DaysInMonth(t.year, t.mon)) /\ ~(t.mon < 12)
  <2> DEFINE z == t.year + 1
             a == [t EXCEPT !.day = 1]
             b == [a EXCEPT !.mon = 1]
             c == [b EXCEPT !.year = z]
  <2>1. NextDay(t) = c
    BY <1>6, <1>1 DEF NextDay, Fields
  <2>2. z \in Int /\ 1900 <= z /\ 1 \in Months
    BY <1>2 DEF Months
  <2>3. c.year = z
    BY <1>1 DEF Fields
  <2>4. z \in 1900 .. LastYear
    BY <2>1, <2>2, <2>3 DEF LastYear
  <2> HIDE DEF z
  <2>5. a \in Fields /\ a.day = 1
    BY <1>1 DEF Fields
  <2> HIDE DEF a
  <2>6. b \in Fields /\ b.day = 1 /\ b.mon = 1
    BY <2>2, <2>5 DEF Fields
  <2> HIDE DEF b
  <2>7. c \in Fields /\ c.day = 1 /\ c.mon = 1 /\ c.year = z
    BY <2>4, <2>6 DEF Fields
  <2> HIDE DEF c
  <2> QED
    BY <1>2, <1>3, <2>1, <2>2, <2>7 DEF Instant, Fields
<1> QED
  BY <1>4, <1>5, <1>6

LEMMA NextSecondIs ==
    ASSUME NEW t \in Instant, NextSecond(t).year <= LastYear
    PROVE  NextSecond(t) \in Instant
<1>1. t \in Fields /\ t.day <= DaysInMonth(t.year, t.mon)
  BY DEF Instant, Fields
<1> DEFINE s == [t EXCEPT !.sec = 0]
           m == [s EXCEPT !.min = 0]
           h == [m EXCEPT !.hour = 0]
<1>2. s \in Fields /\ s.min = t.min /\ s.hour = t.hour /\ s.day = t.day /\ s.mon = t.mon /\ s.year = t.year
  BY <1>1 DEF Fields
<1>3. m \in Fields /\ m.hour = t.hour /\ m.day = t.day /\ m.mon = t.mon /\ m.year = t.year
  <2> HIDE DEF s
  <2> QED
    BY <1>2 DEF Fields
<1>4. h \in Fields /\ h.day = t.day /\ h.mon = t.mon /\ h.year = t.year
  <2> HIDE DEF m
  <2> QED
    BY <1>3 DEF Fields
<1>5. CASE t.sec < 59
  <2>1. NextSecond(t) = [t EXCEPT !.sec = t.sec + 1]
    BY <1>5 DEF NextSecond
  <2> QED
    BY <1>1, <1>5, <2>1 DEF Instant, Fields
<1>6. CASE ~(t.sec < 59) /\ t.min < 59
  <2>1. NextSecond(t) = [s EXCEPT !.min = t.min + 1]
    BY <1>1, <1>6 DEF NextSecond, Fields
  <2> HIDE DEF s
  <2> QED
    BY <1>1, <1>2, <1>6, <2>1 DEF Instant, Fields
<1>7. CASE ~(t.sec < 59) /\ ~(t.min < 59) /\ t.hour < 23
  <2>1. NextSecond(t) = [m EXCEPT !.hour = t.hour + 1]
    BY <1>1, <1>7 DEF NextSecond, Fields
  <2> HIDE DEF m
  <2> QED
    BY <1>1, <1>3, <1>7, <2>1 DEF Instant, Fields
<1>8. CASE ~(t.sec < 59) /\ ~(t.min < 59) /\ ~(t.hour < 23)
  <2>1. NextSecond(t) = NextDay(h)
    BY <1>1, <1>8 DEF NextSecond, Fields
  <2> HIDE DEF h
  <2>2. h \in Instant
    BY <1>1, <1>4 DEF Instant, Fields
  <2> QED
    BY <2>1, <2>2, NextDayIs
<1> QED
  BY <1>5, <1>6, <1>7, <1>8

-----------------------------------------------------------------------------
(* What the registers hold reads back *)

LEMMA BcdIs ==
    ASSUME NEW n \in Int, 0 <= n, n <= 99
    PROVE  /\ FromBcd(Bcd(n)) = n /\ Bcd(n) \in 0 .. 255
           /\ n < 80 => Bcd(n) < 128
<1> DEFINE q == n \div 10
           r == n % 10
<1>1. q \in 0 .. 9 /\ r \in 0 .. 9 /\ n = 10 * q + r /\ n \in Int
  OBVIOUS
<1> HIDE DEF q, r
<1>2. (16 * q + r) % 16 = r /\ (16 * q + r) \div 16 = q
  BY <1>1
<1>3. Bcd(n) = 16 * q + r
  BY DEF Bcd, q, r
<1> QED
  BY <1>1, <1>2, <1>3 DEF FromBcd

Formatted == format \in [bcd : BOOLEAN, h12 : BOOLEAN]

(* What is read of a register that holds v *)
Back(v) == IF format.bcd THEN FromBcd(v) ELSE v

LEMMA EncodedIs ==
    ASSUME NEW n \in Int, 0 <= n, n <= 99, Formatted
    PROVE  /\ Encoded(n) \in 0 .. 255 /\ (n < 80 => Encoded(n) < 128)
           /\ Back(Encoded(n)) = n
<1>1. CASE format.bcd
  BY <1>1, BcdIs DEF Encoded, Back
<1>2. CASE ~format.bcd
  BY <1>2 DEF Encoded, Back
<1> QED
  BY <1>1, <1>2

(* The format as register B gives it *)
LEMMA FormatIs ==
    ASSUME Formatted, got[RegB] = Register(RegB)
    PROVE  /\ Register(RegB) \in 0 .. 255
           /\ \A v : Decoded(v) = Back(v)
           /\ Hours12 <=> format.h12
<1>1. Register(RegB) = (IF format.bcd THEN 0 ELSE 4) + (IF format.h12 THEN 0 ELSE 2)
  BY DEF Register, RegA, RegB
<1>2. Register(RegB) \in {0, 2, 4, 6}
      /\ (Register(RegB) < 4 <=> format.bcd) /\ (Register(RegB) \in {0, 4} <=> format.h12)
  BY <1>1 DEF Formatted
<1> DEFINE b == got[RegB]
<1>3. b \in {0, 2, 4, 6} /\ (b < 4 <=> format.bcd) /\ (b \in {0, 4} <=> format.h12)
  BY <1>2
<1>4. \A v : Decoded(v) = IF b % 8 < 4 THEN FromBcd(v) ELSE v
  BY DEF Decoded
<1>5. Hours12 <=> (b \div 2) % 2 = 0
  BY DEF Hours12
<1> HIDE DEF b
<1>6. (b % 8 < 4 <=> format.bcd) /\ ((b \div 2) % 2 = 0 <=> format.h12)
  BY <1>3
<1> QED
  BY <1>2, <1>4, <1>5, <1>6 DEF Back

LEMMA HourIs ==
    ASSUME Formatted, NEW h \in 0 .. 23, h = now.hour,
           got[RegB] = Register(RegB), got[4] = Register(4)
    PROVE  Register(4) \in 0 .. 255 /\ Hour = h
<1>1. Register(4) = EncodedHour(h)
  BY DEF Register, RegA, RegB
<1>2. /\ \A v : Decoded(v) = Back(v)
      /\ Hours12 <=> format.h12
  BY FormatIs
<1>3. CASE ~format.h12
  <2>1. EncodedHour(h) = Encoded(h)
    BY <1>3 DEF EncodedHour
  <2>2. Hour = Decoded(got[4])
    BY <1>2, <1>3 DEF Hour
  <2>3. h \in Int /\ 0 <= h /\ h <= 99
    OBVIOUS
  <2>4. /\ Encoded(h) \in 0 .. 255
        /\ Back(Encoded(h)) = h
    BY <2>3, EncodedIs
  <2> QED
    BY <1>1, <1>2, <2>1, <2>2, <2>4
<1>4. CASE format.h12
  <2> DEFINE k == IF h % 12 = 0 THEN 12 ELSE h % 12
             e == Encoded(k)
             g == got[4]
  <2>1. k \in 1 .. 12 /\ k \in Int /\ 0 <= k /\ k <= 99 /\ (h >= 12 => h = IF k = 12 THEN 12 ELSE k + 12)
        /\ (h < 12 => h = IF k = 12 THEN 0 ELSE k)
    OBVIOUS
  <2>2. g = e + (IF h >= 12 THEN 128 ELSE 0)
    BY <1>1, <1>4 DEF EncodedHour
  <2>3. Hour = (IF g >= 128 /\ Decoded(g % 128) # 12 THEN Decoded(g % 128) + 12
                ELSE IF ~(g >= 128) /\ Decoded(g % 128) = 12 THEN 0 ELSE Decoded(g % 128))
    BY <1>2, <1>4 DEF Hour
  <2> HIDE DEF k
  <2>4. e \in 0 .. 255 /\ e < 128 /\ Back(e) = k
    <3>1. k < 80
      BY <2>1
    <3> QED
      BY <2>1, <3>1, EncodedIs
  <2> HIDE DEF e, g
  <2>5. g % 128 = e /\ (g >= 128 <=> h >= 12) /\ g \in 0 .. 255
    BY <2>2, <2>4
  <2>6. Decoded(g % 128) = k
    BY <1>2, <2>4, <2>5
  <2>7. Hour = h
    BY <2>1, <2>3, <2>5, <2>6
  <2> QED
    BY <2>5, <2>7 DEF g
<1> QED
  BY <1>3, <1>4

LEMMA RegisterIs ==
    ASSUME now \in Instant, Formatted, NEW r \in Registers
    PROVE  Register(r) \in 0 .. 255
<1>1. /\ now.sec \in 0 .. 59 /\ now.min \in 0 .. 59 /\ now.hour \in 0 .. 23 /\ now.day \in 1 .. 31
      /\ now.mon \in 1 .. 12 /\ now.year \in 1900 .. 2199
  BY DEF Instant, Months, LastYear
<1>2. CASE r = 4
  <2> DEFINE k == IF now.hour % 12 = 0 THEN 12 ELSE now.hour % 12
  <2>1. k \in Int /\ 0 <= k /\ k <= 99 /\ k < 80
    BY <1>1
  <2>2. now.hour \in Int /\ 0 <= now.hour /\ now.hour <= 99
    BY <1>1
  <2>3. Encoded(now.hour) \in 0 .. 255
    BY <2>2, EncodedIs
  <2>4. EncodedHour(now.hour) = IF format.h12 THEN Encoded(k) + (IF now.hour >= 12 THEN 128 ELSE 0)
                                ELSE Encoded(now.hour)
    BY DEF EncodedHour
  <2> HIDE DEF k
  <2>5. Encoded(k) \in 0 .. 255 /\ Encoded(k) < 128
    BY <2>1, EncodedIs
  <2>6. Register(r) = EncodedHour(now.hour)
    BY <1>2 DEF Register, RegA, RegB
  <2> QED
    BY <2>3, <2>4, <2>5, <2>6
<1>3. CASE r = RegA \/ r = RegB
  BY <1>3 DEF Register, RegA, RegB
<1>4. CASE r = 6
  <2> DEFINE n == DayNumber(now)
  <2>1. n \in Int
    <3>1. now.year \in Int /\ 1 <= now.year /\ now.mon \in Months /\ now.day \in Int
      BY <1>1 DEF Months
    <3> QED
      BY <3>1, CivilIs
  <2>2. Register(r) = DayOfWeek(now) + 1 /\ DayOfWeek(now) = n % 7
    BY <1>4 DEF Register, RegA, RegB, DayOfWeek
  <2> HIDE DEF n
  <2> QED
    BY <2>1, <2>2
<1>5. CASE r # 4 /\ r # RegA /\ r # RegB /\ r # 6
  <2>1. now.year % 100 \in 0 .. 99 /\ now.year \div 100 \in 19 .. 21
    BY <1>1
  <2>2. Register(r) \in {Encoded(now.sec), Encoded(now.min), Encoded(now.day), Encoded(now.mon),
                         Encoded(now.year % 100), Encoded(now.year \div 100)}
    BY <1>5 DEF Register, RegA, RegB
  <2>3. PICK n \in 0 .. 99 : Register(r) = Encoded(n)
    BY <1>1, <2>1, <2>2
  <2>4. n \in Int /\ 0 <= n /\ n <= 99
    OBVIOUS
  <2> QED
    BY <2>3, <2>4, EncodedIs
<1> QED
  BY <1>2, <1>3, <1>4, <1>5

-----------------------------------------------------------------------------
(* The invariant of a read *)

(* What an undisturbed attempt has read is what the clock still holds, and *)
(* the index port is where the access in progress left it.                 *)
Faithful ==
    ~disturbed =>
       /\ \A i \in 2 .. access - 1 : got[Order[i]] = Register(Order[i])
       /\ pointed => index = Order[access]

(* Outside rtc_read nothing is pointed, and an update that has begun is   *)
(* one that may end.                                                       *)
Paced ==
    /\ Formatted
    /\ access = 0 => ~pointed
    /\ updating => NextSecond(now).year <= LastYear /\ passed < MaxUpdates

ClockInv == ClockTypeOK /\ Paced /\ Faithful

LEMMA OrderIs ==
    /\ Len(Order) = 11 /\ DOMAIN Order = 1 .. 11
    /\ \A i \in 1 .. 11 : Order[i] \in Registers
    /\ Order[1] = 10 /\ Order[2] = 0 /\ Order[3] = 2 /\ Order[4] = 4 /\ Order[5] = 6 /\ Order[6] = 7
    /\ Order[7] = 8 /\ Order[8] = 9 /\ Order[9] = 11 /\ Order[10] = 50 /\ Order[11] = 10
    /\ Registers = {10, 0, 2, 4, 6, 7, 8, 9, 11, 50}
<1>1. Order = <<10, 0, 2, 4, 6, 7, 8, 9, 11, 50, 10>>
  BY DEF Order, RegA, RegB, Century
<1>2. Len(Order) = 11 /\ DOMAIN Order = 1 .. 11
  BY <1>1
<1>3. /\ Order[1] = 10 /\ Order[2] = 0 /\ Order[3] = 2 /\ Order[4] = 4 /\ Order[5] = 6 /\ Order[6] = 7
      /\ Order[7] = 8 /\ Order[8] = 9 /\ Order[9] = 11 /\ Order[10] = 50 /\ Order[11] = 10
  BY <1>1
<1>4. Registers = {10, 0, 2, 4, 6, 7, 8, 9, 11, 50}
  <2>1. \A x : x \in Registers <=> \E i \in 1 .. 11 : x = Order[i]
    BY <1>2 DEF Registers
  <2>2. 1 .. 11 = {1, 2, 3, 4, 5, 6, 7, 8, 9, 10, 11}
    OBVIOUS
  <2> QED
    BY <1>3, <2>1, <2>2
<1>5. \A i \in 1 .. 11 : Order[i] \in Registers
  BY <1>2 DEF Registers
<1> QED
  BY <1>2, <1>3, <1>4, <1>5

LEMMA ClockInitInv == ASSUME ClockAssumption PROVE ClockInit => ClockInv
<1> SUFFICES ASSUME ClockInit PROVE ClockInv
  OBVIOUS
<1>1. ClockTypeOK
  <2>1. Attempts \in Nat /\ Attempts > 0 /\ MaxUpdates \in Nat /\ now \in Instant
    BY DEF ClockAssumption, ClockInit
  <2>2. got \in [Registers -> 0 .. 255]
    BY DEF ClockInit, Blank
  <2>3. index \in Registers /\ Len(Order) = 11
    BY OrderIs DEF ClockInit
  <2>4. access \in 0 .. Len(Order) /\ attempt \in 0 .. Attempts - 1 /\ passed \in 0 .. MaxUpdates
    BY <2>1, <2>3 DEF ClockInit
  <2>5. updating \in BOOLEAN /\ pointed \in BOOLEAN /\ disturbed \in BOOLEAN
    BY DEF ClockInit
  <2>6. offset \in -720 .. 840
    BY DEF ClockInit
  <2> QED
    BY <2>1, <2>2, <2>3, <2>4, <2>5, <2>6 DEF ClockTypeOK
<1>2. Faithful
  BY DEF ClockInit, Faithful
<1> QED
  BY <1>1, <1>2 DEF ClockInit, ClockInv, Paced, Formatted

LEMMA ClockTypeStep ==
    ASSUME ClockAssumption, ClockInv, ClockNext
    PROVE  ClockTypeOK'
<1>1. Attempts \in Nat /\ MaxUpdates \in Nat /\ Attempts > 0 /\ Len(Order) = 11
  BY OrderIs DEF ClockAssumption
<1>2. \A i \in 1 .. 11 : Order[i] \in Registers
  BY OrderIs
<1>3. ClockTypeOK /\ Paced
  BY DEF ClockInv
<1>4. CASE UpdateBegins
  <2>1. updating' = TRUE
        /\ UNCHANGED <<now, passed, index, access, pointed, attempt, got, offset, disturbed>>
    BY <1>4 DEF UpdateBegins, reader
  <2> QED
    BY <1>3, <2>1, Zenon DEF ClockTypeOK
<1>5. CASE UpdateEnds
  <2>1. now' \in Instant
    BY <1>3, <1>5, NextSecondIs DEF UpdateEnds, ClockTypeOK, Paced
  <2>2. passed' \in 0 .. MaxUpdates
    BY <1>1, <1>3, <1>5 DEF UpdateEnds, ClockTypeOK, Paced
  <2>3. updating' = FALSE /\ disturbed' = TRUE
        /\ UNCHANGED <<index, access, pointed, attempt, got, offset>>
    BY <1>5 DEF UpdateEnds
  <2> QED
    BY <1>3, <2>1, <2>2, <2>3, Zenon DEF ClockTypeOK
<1>6. CASE RtcRead
  <2>1. access' \in 0 .. Len(Order) /\ attempt' \in 0 .. Attempts - 1
    BY <1>1, <1>6 DEF RtcRead
  <2>2. UNCHANGED <<now, updating, passed, index, pointed, got, offset, disturbed>>
    BY <1>6 DEF RtcRead, clock
  <2> QED
    BY <1>3, <2>1, <2>2, Zenon DEF ClockTypeOK
<1>7. CASE Select
  <2>1. index' \in Registers
    BY <1>1, <1>2, <1>3, <1>7 DEF Select, ClockTypeOK
  <2>2. pointed' = TRUE /\ UNCHANGED <<now, updating, passed, access, attempt, got, offset, disturbed>>
    BY <1>7 DEF Select, clock
  <2> QED
    BY <1>3, <2>1, <2>2, Zenon DEF ClockTypeOK
<1>8. CASE Wait
  <2>1. access' \in 0 .. Len(Order)
    BY <1>1, <1>8 DEF Wait
  <2>2. pointed' = FALSE /\ disturbed' = FALSE
        /\ UNCHANGED <<now, updating, passed, index, attempt, got, offset>>
    BY <1>8 DEF Wait, clock
  <2> QED
    BY <1>3, <2>1, <2>2, Zenon DEF ClockTypeOK
<1>9. CASE ReadRegister
  <2>1. access \in 2 .. 10 /\ access' = access + 1 /\ index \in Registers /\ now \in Instant
    BY <1>1, <1>3, <1>9 DEF ReadRegister, ClockTypeOK
  <2>2. access' \in 0 .. Len(Order)
    BY <1>1, <2>1
  <2>3. Register(index) \in 0 .. 255
    BY <1>3, <2>1, RegisterIs DEF Paced
  <2>4. got' \in [Registers -> 0 .. 255]
    BY <1>3, <1>9, <2>3, Zenon DEF ReadRegister, ClockTypeOK
  <2>5. pointed' = FALSE /\ UNCHANGED <<now, updating, passed, index, attempt, offset, disturbed>>
    BY <1>9 DEF ReadRegister, clock
  <2> QED
    BY <1>3, <2>2, <2>4, <2>5, Zenon DEF ClockTypeOK
<1>10. CASE Check
  <2>1. /\ access' \in {0, 1} /\ got' \in {got, Blank}
        /\ attempt' = attempt \/ (attempt' = attempt + 1 /\ attempt + 1 < Attempts)
    BY <1>10 DEF Check
  <2>2. got' \in [Registers -> 0 .. 255]
    <3>1. Blank \in [Registers -> 0 .. 255]
      BY DEF Blank
    <3>2. got \in [Registers -> 0 .. 255]
      BY <1>3 DEF ClockTypeOK
    <3>3. got' = got \/ got' = Blank
      BY <2>1
    <3> QED
      BY <3>1, <3>2, <3>3
  <2>3. access' \in 0 .. Len(Order) /\ attempt' \in 0 .. Attempts - 1
    BY <1>1, <1>3, <2>1 DEF ClockTypeOK
  <2>4. pointed' = FALSE /\ UNCHANGED <<now, updating, passed, index, offset, disturbed>>
    BY <1>10 DEF Check, clock
  <2> QED
    BY <1>3, <2>2, <2>3, <2>4, Zenon DEF ClockTypeOK
<1>11. CASE UiReads
  <2>1. index' \in Registers
    BY <1>11, OrderIs DEF UiReads, RegA
  <2>2. disturbed' \in BOOLEAN
    BY <1>11 DEF UiReads
  <2>3. UNCHANGED <<now, updating, passed, access, pointed, attempt, got, offset>>
    BY <1>11 DEF UiReads, clock
  <2> QED
    BY <1>3, <2>1, <2>2, <2>3, Zenon DEF ClockTypeOK
<1>12. CASE \E m \in Minutes : RtcSetOffset(m)
  <2>1. PICK m \in Minutes : RtcSetOffset(m)
    BY <1>12
  <2>2. m \in Int
    BY DEF ClockAssumption
  <2>3. offset' \in -720 .. 840
    BY <2>1, <2>2 DEF RtcSetOffset, Clamped
  <2>4. UNCHANGED <<now, updating, passed, index, access, pointed, attempt, got, disturbed>>
    BY <2>1 DEF RtcSetOffset, clock, reader
  <2> QED
    BY <1>3, <2>3, <2>4 DEF ClockTypeOK
<1> QED
  BY <1>4, <1>5, <1>6, <1>7, <1>8, <1>9, <1>10, <1>11, <1>12 DEF ClockNext

LEMMA PacedStep ==
    ASSUME ClockInv, ClockNext
    PROVE  Paced'
<1>1. Paced /\ Len(Order) = 11 /\ access \in 0 .. Len(Order)
  BY OrderIs DEF ClockInv, ClockTypeOK
<1>2. format' = format
  BY DEF ClockNext, UpdateBegins, UpdateEnds, RtcRead, Select, Wait, ReadRegister, Check, UiReads,
         RtcSetOffset, clock
<1>3. access' = 0 => ~pointed'
  BY <1>1 DEF Paced, ClockNext, UpdateBegins, UpdateEnds, RtcRead, Select, Wait, ReadRegister, Check,
         UiReads, RtcSetOffset, reader
<1>4. updating' => /\ now' = now /\ passed' = passed
                   /\ NextSecond(now).year <= LastYear /\ passed < MaxUpdates
  BY <1>1 DEF Paced, ClockNext, UpdateBegins, UpdateEnds, RtcRead, Select, Wait, ReadRegister, Check,
         UiReads, RtcSetOffset, clock
<1> QED
  BY <1>1, <1>2, <1>3, <1>4 DEF Paced, Formatted

LEMMA FaithfulStep ==
    ASSUME ClockInv, ClockNext
    PROVE  Faithful'
<1>1. Faithful /\ ClockTypeOK /\ Paced /\ access \in 0 .. 11
  BY OrderIs DEF ClockInv, ClockTypeOK
<1>2. ASSUME UpdateEnds PROVE Faithful'
  BY <1>2 DEF UpdateEnds, Faithful
<1>3. ASSUME RtcRead \/ Wait \/ Check PROVE Faithful'
  <2>1. access' \in {0, 1, 2}
    BY <1>3 DEF RtcRead, Wait, Check
  <2>2. ~pointed'
    BY <1>1, <1>3 DEF RtcRead, Wait, Check, Paced
  <2>3. \A x \in {0, 1, 2} : \A i \in 2 .. x - 1 : FALSE
    OBVIOUS
  <2> QED
    BY <2>1, <2>2, <2>3 DEF Faithful
<1>4. ASSUME UpdateBegins PROVE Faithful'
  <2>1. \A r : r # RegA => Register(r)' = Register(r)
    BY <1>4 DEF UpdateBegins, Register, Encoded, EncodedHour
  <2>2. \A i \in 2 .. 10 : Order[i] # RegA
    BY OrderIs DEF RegA
  <2>3. \A i \in 2 .. access - 1 : i \in 2 .. 10
    BY <1>1
  <2>4. UNCHANGED <<index, access, pointed, got, disturbed>>
    BY <1>4 DEF UpdateBegins, reader
  <2> QED
    BY <1>1, <2>1, <2>2, <2>3, <2>4 DEF Faithful
<1>5. ASSUME Select \/ ReadRegister \/ UiReads \/ \E m \in Minutes : RtcSetOffset(m)
      PROVE  \A r : Register(r)' = Register(r)
  <2>1. UNCHANGED <<now, format, updating>>
    BY <1>5 DEF Select, ReadRegister, UiReads, RtcSetOffset, clock
  <2> QED
    BY <2>1 DEF Register, Encoded, EncodedHour
<1>6. ASSUME Select PROVE Faithful'
  BY <1>1, <1>5, <1>6 DEF Select, Faithful
<1>7. ASSUME UiReads PROVE Faithful'
  BY <1>1, <1>5, <1>7 DEF UiReads, Faithful
<1>8. ASSUME NEW m \in Minutes, RtcSetOffset(m) PROVE Faithful'
  BY <1>1, <1>5, <1>8 DEF RtcSetOffset, Faithful, reader
<1>9. ASSUME ReadRegister PROVE Faithful'
  <2> SUFFICES ASSUME ~disturbed', NEW i \in 2 .. access' - 1
               PROVE  got'[Order[i]] = Register(Order[i])
    BY <1>5, <1>9 DEF ReadRegister, Faithful
  <2>1. ~disturbed /\ index = Order[access] /\ got' = [got EXCEPT ![Order[access]] = Register(index)]
        /\ access' = access + 1
    BY <1>1, <1>9 DEF ReadRegister, Faithful
  <2>2. i \in 2 .. access /\ i \in 1 .. 11
    BY <1>1, <2>1
  <2>3. Order[i] \in Registers /\ got \in [Registers -> 0 .. 255]
    BY <1>1, <2>2, OrderIs DEF ClockTypeOK
  <2>4. ASSUME Order[i] = Order[access] PROVE got'[Order[i]] = Register(Order[i])
    BY <2>1, <2>3, <2>4
  <2>5. ASSUME Order[i] # Order[access] PROVE got'[Order[i]] = Register(Order[i])
    <3>1. got'[Order[i]] = got[Order[i]]
      BY <2>1, <2>3, <2>5
    <3>2. i \in 2 .. access - 1
      BY <1>1, <2>2, <2>5
    <3> QED
      BY <1>1, <2>1, <3>1, <3>2 DEF Faithful
  <2> QED
    BY <2>4, <2>5
<1> QED
  BY <1>2, <1>3, <1>4, <1>6, <1>7, <1>8, <1>9 DEF ClockNext

LEMMA ClockStepInv == ClockAssumption /\ ClockInv /\ [ClockNext]_clockVars => ClockInv'
<1> SUFFICES ASSUME ClockAssumption, ClockInv, [ClockNext]_clockVars PROVE ClockInv'
  OBVIOUS
<1>1. CASE ClockNext
  BY <1>1, ClockTypeStep, PacedStep, FaithfulStep DEF ClockInv
<1>2. CASE UNCHANGED clockVars
  <2>1. UNCHANGED <<now, format, updating, passed, index, access, pointed, attempt, got, offset, disturbed>>
    BY <1>2 DEF clockVars, clock, reader
  <2>2. \A r : Register(r)' = Register(r)
    BY <2>1 DEF Register, Encoded, EncodedHour
  <2>3. ClockTypeOK' /\ Paced'
    BY <2>1 DEF ClockInv, ClockTypeOK, Paced, Formatted
  <2>4. Faithful'
    BY <2>1, <2>2 DEF ClockInv, Faithful
  <2> QED
    BY <2>3, <2>4 DEF ClockInv
<1> QED
  BY <1>1, <1>2

-----------------------------------------------------------------------------
(* An undisturbed reading *)

LEMMA NowIs ==
    ASSUME now \in Instant
    PROVE  /\ now.sec \in Int /\ 0 <= now.sec /\ now.sec <= 99
           /\ now.min \in Int /\ 0 <= now.min /\ now.min <= 99 /\ now.min \in 0 .. 59
           /\ now.hour \in 0 .. 23
           /\ now.day \in Int /\ 1 <= now.day /\ 0 <= now.day /\ now.day <= 99
           /\ now.day \in 1 .. DaysInMonth(now.year, now.mon)
           /\ now.mon \in Int /\ 0 <= now.mon /\ now.mon <= 99 /\ now.mon \in Months
           /\ now.year \in Int /\ 1 <= now.year /\ 1900 <= now.year /\ now.year <= LastYear
           /\ now.year % 100 \in Int /\ 0 <= now.year % 100 /\ now.year % 100 <= 99
           /\ now.year \div 100 \in Int /\ 0 <= now.year \div 100 /\ now.year \div 100 <= 99
           /\ now.year \div 100 \in 19 .. 21
           /\ (now.year \div 100) * 100 + (now.year % 100) = now.year
<1>1. /\ now.sec \in 0 .. 59 /\ now.min \in 0 .. 59 /\ now.hour \in 0 .. 23 /\ now.day \in 1 .. 31
      /\ now.mon \in 1 .. 12 /\ now.year \in 1900 .. 2199 /\ now.day <= DaysInMonth(now.year, now.mon)
      /\ now.mon \in Months
  BY DEF Instant, Months, LastYear
<1>2. DaysInMonth(now.year, now.mon) \in 28 .. 31
  BY <1>1, MonthIs
<1>3. \A y \in 1900 .. 2199 : /\ y % 100 \in 0 .. 99 /\ y \div 100 \in 19 .. 21
                              /\ (y \div 100) * 100 + (y % 100) = y
  OBVIOUS
<1>4. now.year % 100 \in 0 .. 99 /\ now.year \div 100 \in 19 .. 21
      /\ (now.year \div 100) * 100 + (now.year % 100) = now.year
  BY <1>1, <1>3
<1>5. now.day \in 1 .. DaysInMonth(now.year, now.mon)
  BY <1>1, <1>2
<1>6. now.year \in Int /\ 1 <= now.year /\ 1900 <= now.year /\ now.year <= LastYear
  BY <1>1 DEF LastYear
<1>7. now.sec \in Int /\ 0 <= now.sec /\ now.sec <= 99 /\ now.min \in Int /\ 0 <= now.min /\ now.min <= 99
  BY <1>1
<1>8. now.day \in Int /\ 1 <= now.day /\ 0 <= now.day /\ now.day <= 99
      /\ now.mon \in Int /\ 0 <= now.mon /\ now.mon <= 99
  BY <1>1
<1>9. /\ now.year % 100 \in Int /\ 0 <= now.year % 100 /\ now.year % 100 <= 99
      /\ now.year \div 100 \in Int /\ 0 <= now.year \div 100 /\ now.year \div 100 <= 99
  <2> DEFINE c == now.year \div 100
             d == now.year % 100
  <2>1. c \in 19 .. 21 /\ d \in 0 .. 99
    BY <1>4
  <2> HIDE DEF c, d
  <2>2. d \in Int /\ 0 <= d /\ d <= 99 /\ c \in Int /\ 0 <= c /\ c <= 99
    BY <2>1
  <2> QED
    BY <2>2 DEF c, d
<1> QED
  BY <1>1, <1>4, <1>5, <1>6, <1>7, <1>8, <1>9

LEMMA RawIs ==
    ASSUME ClockInv, ~disturbed, access = Len(Order)
    PROVE  /\ DayOfWeek(now) + 1 \in Int
           /\ Raw = Rec(now.sec, now.min, now.hour, now.day, now.mon, now.year, DayOfWeek(now) + 1)
<1>1. now \in Instant
  BY DEF ClockInv, ClockTypeOK
<1>2. Formatted
  BY DEF ClockInv, Paced
<1>3. \A i \in 2 .. 10 : got[Order[i]] = Register(Order[i])
  BY OrderIs DEF ClockInv, Faithful
<1>4. /\ got[0] = Register(0) /\ got[2] = Register(2) /\ got[4] = Register(4) /\ got[6] = Register(6)
      /\ got[7] = Register(7) /\ got[8] = Register(8) /\ got[9] = Register(9) /\ got[11] = Register(11)
      /\ got[50] = Register(50)
  BY <1>3, OrderIs
<1>5. /\ got[0] = Encoded(now.sec) /\ got[2] = Encoded(now.min) /\ got[7] = Encoded(now.day)
      /\ got[8] = Encoded(now.mon) /\ got[9] = Encoded(now.year % 100)
      /\ got[Century] = Encoded(now.year \div 100) /\ got[RegB] = Register(RegB)
      /\ got[6] = DayOfWeek(now) + 1
  BY <1>4 DEF Register, RegA, RegB, Century
<1>6. \A v : Decoded(v) = Back(v)
  BY <1>2, <1>5, FormatIs
<1>7. \A n \in Int : 0 <= n /\ n <= 99 => Decoded(Encoded(n)) = n
  <2> SUFFICES ASSUME NEW n \in Int, 0 <= n, n <= 99 PROVE Decoded(Encoded(n)) = n
    OBVIOUS
  <2> QED
    BY <1>2, <1>6, EncodedIs
<1>8. /\ Decoded(got[0]) = now.sec /\ Decoded(got[2]) = now.min /\ Decoded(got[7]) = now.day
      /\ Decoded(got[8]) = now.mon
  <2>1. /\ now.sec \in Int /\ 0 <= now.sec /\ now.sec <= 99
        /\ now.min \in Int /\ 0 <= now.min /\ now.min <= 99
        /\ now.day \in Int /\ 0 <= now.day /\ now.day <= 99
        /\ now.mon \in Int /\ 0 <= now.mon /\ now.mon <= 99
    BY <1>1, NowIs
  <2> QED
    BY <1>5, <1>7, <2>1
<1>9. CenturyRead * 100 + Decoded(got[9]) = now.year
  <2>1. /\ now.year % 100 \in Int /\ 0 <= now.year % 100 /\ now.year % 100 <= 99
        /\ now.year \div 100 \in Int /\ 0 <= now.year \div 100 /\ now.year \div 100 <= 99
        /\ now.year \div 100 \in 19 .. 21
        /\ (now.year \div 100) * 100 + (now.year % 100) = now.year
    BY <1>1, NowIs
  <2>2. Decoded(got[9]) = now.year % 100 /\ Decoded(got[Century]) = now.year \div 100
    BY <1>5, <1>7, <2>1
  <2> QED
    BY <2>1, <2>2 DEF CenturyRead
<1>10. Hour = now.hour
  <2>1. now.hour \in 0 .. 23
    BY <1>1, NowIs
  <2> DEFINE h == now.hour
  <2>2. h \in 0 .. 23 /\ h = now.hour
    BY <2>1
  <2> HIDE DEF h
  <2>3. Hour = h
    BY <1>2, <1>4, <1>5, <2>2, HourIs
  <2> QED
    BY <2>3 DEF h
<1> DEFINE w == Decoded(got[6]) % 8
<1>11. w = DayOfWeek(now) + 1 /\ w \in Int
  <2> DEFINE n == DayNumber(now)
             g == got[6]
  <2>1. n \in Int
    <3>1. now.year \in Int /\ 1 <= now.year /\ now.mon \in Months /\ now.day \in Int
      BY <1>1, NowIs
    <3> QED
      BY <3>1, CivilIs
  <2>2. g = (n % 7) + 1
    BY <1>5 DEF DayOfWeek
  <2>3. Decoded(g) \in {g, (g % 16) + 10 * (g \div 16)}
    BY <1>6 DEF Back, FromBcd
  <2> HIDE DEF n, g
  <2>4. g \in 1 .. 7
    BY <2>1, <2>2
  <2>5. Decoded(g) = g /\ g % 8 = g /\ g \in Int
    BY <2>3, <2>4
  <2> QED
    BY <2>2, <2>5 DEF g, n, DayOfWeek
<1>12. Raw = Rec(now.sec, now.min, now.hour, now.day, now.mon, now.year, w)
  BY <1>8, <1>9, <1>10 DEF Raw, Rec
<1> HIDE DEF w
<1> QED
  BY <1>11, <1>12

(* Only Check returns, and then the reading is the instant moved. *)
LEMMA ReturnedIs ==
    ASSUME ClockInv, [ClockNext]_clockVars, Returned, ~disturbed
    PROVE  LET D == DayNumber(now)
           IN  IsAMove(reading', now.sec, DayOfWeek(now) + 1, D, 1440 * D + 60 * now.hour + now.min + offset)
<1> DEFINE D == DayNumber(now)
<1>1. access = 11 /\ access' = 0
  BY OrderIs DEF Returned
<1>2. Check
  <2>1. ~UNCHANGED clockVars /\ ~UpdateBegins /\ ~UpdateEnds
    BY <1>1 DEF clockVars, reader, UpdateBegins, UpdateEnds
  <2>2. ~RtcRead /\ ~Select /\ ~Wait /\ ~ReadRegister /\ ~UiReads
    BY <1>1 DEF RtcRead, Select, Wait, ReadRegister, UiReads
  <2>3. ~\E m \in Minutes : RtcSetOffset(m)
    BY <1>1 DEF RtcSetOffset
  <2> QED
    BY <2>1, <2>2, <2>3 DEF ClockNext
<1>3. reading' = ApplyOffset(Raw)
  BY <1>1, <1>2 DEF Check
<1> DEFINE w == DayOfWeek(now) + 1
<1>4. w \in Int /\ Raw = Rec(now.sec, now.min, now.hour, now.day, now.mon, now.year, w)
  BY RawIs DEF Returned
<1>5. /\ now.min \in 0 .. 59 /\ now.hour \in 0 .. 23 /\ now.year \in Int /\ 1900 <= now.year
      /\ now.year <= LastYear /\ now.mon \in Months /\ now.day \in 1 .. DaysInMonth(now.year, now.mon)
      /\ offset \in -720 .. 840 /\ now.day \in Int /\ 1 <= now.year
  BY NowIs DEF ClockInv, ClockTypeOK
<1>6. D = YearDays(now.year) + FirstOf(now.year, now.mon) + now.day
  BY <1>5, NumberIs
<1>7. Raw = [sec |-> now.sec, min |-> now.min, hour |-> now.hour, day |-> now.day, mon |-> now.mon,
             year |-> now.year, weekday |-> w]
  BY <1>4 DEF Rec
<1> HIDE DEF D, w
<1>8. IsAMove(ApplyOffset(Raw), now.sec, w, D, 1440 * D + 60 * now.hour + now.min + offset)
  <2> DEFINE t == Raw
             T == 1440 * D + 60 * now.hour + now.min + offset
             s == now.sec
             mi == now.min
             h == now.hour
             Y == now.year
             m == now.mon
             d == now.day
  <2>1. t = [sec |-> s, min |-> mi, hour |-> h, day |-> d, mon |-> m, year |-> Y, weekday |-> w]
    BY <1>7
  <2>2. /\ mi \in 0 .. 59 /\ h \in 0 .. 23 /\ Y \in Int /\ 1900 <= Y /\ Y <= LastYear
        /\ m \in Months /\ d \in 1 .. DaysInMonth(Y, m)
    BY <1>5
  <2>3. D = YearDays(Y) + FirstOf(Y, m) + d /\ T = 1440 * D + 60 * h + mi + offset
    BY <1>6
  <2> HIDE DEF t, T, s, mi, h, Y, m, d
  <2>4. IsAMove(ApplyOffset(t), s, w, D, T)
    <3>1. ToMove(s, mi, h, Y, m, d, w, t, D, T)
      BY <1>4, <1>5, <2>1, <2>2, <2>3 DEF ToMove
    <3> QED
      BY <3>1, OffsetIs
  <2> QED
    BY <2>4 DEF t, T, s
<1> QED
  BY <1>3, <1>8 DEF D, w

LEMMA MovedIs ==
    ASSUME NEW x, NEW s, NEW old, NEW D, NEW T, IsAMove(x, s, old, D, T)
    PROVE  /\ x.sec = s
           /\ 1440 * DayNumber(x) + 60 * x.hour + x.min = T
           /\ x.hour \in 0 .. 23 /\ x.min \in 0 .. 59
           /\ x.mon \in Months
           /\ x.day \in 1 .. DaysInMonth(x.year, x.mon)
           /\ x.weekday = IF DayNumber(x) # D THEN DayOfWeek(x) ELSE old
<1>1. PICK H, M, y, m, d, w : IsMoved(x, s, old, D, T, H, M, y, m, d, w)
  BY DEF IsAMove
<1>2. /\ x.sec = s /\ x.hour = H /\ x.min = M /\ x.mon = m /\ x.day = d /\ x.year = y /\ x.weekday = w
      /\ y \in Int /\ 1 <= y /\ m \in Months /\ d \in Int /\ 1 <= d /\ d <= DaysInMonth(y, m)
      /\ H \in 0 .. 23 /\ M \in 0 .. 59
  BY <1>1 DEF IsMoved
<1> DEFINE N == YearDays(y) + FirstOf(y, m) + d
<1>3. DayNumber(x) = N /\ DaysInMonth(y, m) \in 28 .. 31
  BY <1>2, NumberIs, MonthIs
<1>4. 1440 * N + 60 * H + M = T /\ w = IF N # D THEN N % 7 ELSE old
  BY <1>1 DEF IsMoved
<1> HIDE DEF N
<1> QED
  BY <1>2, <1>3, <1>4 DEF DayOfWeek

(* For any instants, formats of the registers and zones: a reading that no *)
(* update and no other reader disturbed is the instant of the clock in the *)
(* zone chosen; its day of the week is that of its date, counted from 0    *)
(* when the offset has changed the date and from 1 when it has not.        *)
THEOREM ReadingsAreExact == ASSUME ClockAssumption PROVE ClockSpec => []ClockTypeOK /\ ReadingExact
<1>1. ClockInv /\ [ClockNext]_clockVars =>
        [Returned /\ ~disturbed =>
           /\ reading'.sec = now.sec
           /\ 1440 * DayNumber(reading') + 60 * reading'.hour + reading'.min
                = 1440 * DayNumber(now) + 60 * now.hour + now.min + offset
           /\ reading'.hour \in 0 .. 23 /\ reading'.min \in 0 .. 59
           /\ reading'.mon \in Months
           /\ reading'.day \in 1 .. DaysInMonth(reading'.year, reading'.mon)]_clockVars
  BY ReturnedIs, MovedIs
<1>2. ClockInv /\ [ClockNext]_clockVars =>
        [Returned /\ ~disturbed =>
           reading'.weekday = IF DayNumber(reading') # DayNumber(now)
                              THEN DayOfWeek(reading')
                              ELSE DayOfWeek(now) + 1]_clockVars
  BY ReturnedIs, MovedIs
<1>3. ClockInit => ClockInv
  BY ClockInitInv
<1>4. ClockInv /\ [ClockNext]_clockVars => ClockInv'
  BY ClockStepInv
<1>5. ClockInv => ClockTypeOK
  BY DEF ClockInv
<1> QED
  BY <1>1, <1>2, <1>3, <1>4, <1>5, PTL DEF ClockSpec, ReadingExact, InstantExact, WeekdayNumbered
=============================================================================
