----------------------------- MODULE NetProofs -----------------------------
(* Proofs about the network code: the TCP client for every length of       *)
(* stream, segment and buffer, the calls that wait for an answer for every *)
(* set of hosts, the receive ring of the card for every length of the ring *)
(* and of frames, and the HTTP client for every set of hosts and responses *)
(* and every size of the buffer and the cookie jar.                        *)
EXTENDS Tcp, Net, Card, Http, SequenceTheorems, FiniteSetTheorems, WellFoundedInduction, TLAPS

-----------------------------------------------------------------------------
(* The inductive invariant of the TCP client *)

(* What the peers have been told: only connections that were made, only    *)
(* numbers this client has sent, and on this connection none beyond        *)
(* g_tcp_rcv_nxt.                                                          *)
Told ==
    /\ heard \subseteq 1 .. conn
    /\ \A c \in Ids : c > conn => acked[c] = {}
    /\ \A c \in Ids : una[c] \in acked[c] \cup {-1}
    /\ \A c \in Ids : c = conn => \A a \in acked[c] : a <= rcvNxt

(* What the buffer holds: the stream up to g_tcp_rcv_nxt, or to its end,   *)
(* or to the end of the buffer.  The end is not reached before the data.   *)
Held ==
    /\ st = "SYN_SENT" => rcvNxt = 0
    /\ Len(rx) = Least(Least(rcvNxt, Length), RxSize)
    /\ RxInOrder
    /\ gotFin => rcvNxt >= Length

StreamInv == TypeOK /\ Told /\ PeerKnows /\ Held /\ RecvInOrder

-----------------------------------------------------------------------------
(* Sequences that count up *)

LEMMA PrefixIsSeq ==
    ASSUME NEW n \in Nat
    PROVE  /\ Prefix(n) \in Seq(Nat)
           /\ Len(Prefix(n)) = n
           /\ \A i \in 1 .. n : Prefix(n)[i] = i - 1
<1>1. Prefix(n) \in [1 .. n -> Nat]
  BY DEF Prefix
<1> QED
  BY <1>1 DEF Prefix

(* The stream goes on: what follows the first n bytes is byte n. *)
LEMMA PrefixGrows ==
    ASSUME NEW n \in Nat, NEW k \in Nat
    PROVE  Prefix(n) \o [i \in 1 .. k |-> n + i - 1] = Prefix(n + k)
<1> DEFINE t == [i \in 1 .. k |-> n + i - 1]
<1>1. t \in Seq(Nat) /\ Len(t) = k
  <2>1. t \in [1 .. k -> Nat]
    OBVIOUS
  <2> QED
    BY <2>1
<1>t. \A i \in 1 .. k : t[i] = n + i - 1
  OBVIOUS
<1> HIDE DEF t
<1>2. /\ Prefix(n) \in Seq(Nat) /\ Len(Prefix(n)) = n
      /\ Prefix(n + k) \in Seq(Nat) /\ Len(Prefix(n + k)) = n + k
  BY PrefixIsSeq
<1>3. /\ Prefix(n) \o t \in Seq(Nat)
      /\ Len(Prefix(n) \o t) = n + k
      /\ \A i \in 1 .. n + k : (Prefix(n) \o t)[i] = IF i <= n THEN Prefix(n)[i] ELSE t[i - n]
  <2> DEFINE p == Prefix(n)
  <2>1. p \in Seq(Nat) /\ Len(p) = n
    BY <1>2
  <2> HIDE DEF p
  <2>2. /\ p \o t \in Seq(Nat)
        /\ Len(p \o t) = Len(p) + Len(t)
        /\ \A i \in 1 .. Len(p) + Len(t) :
              (p \o t)[i] = IF i <= Len(p) THEN p[i] ELSE t[i - Len(p)]
    BY <1>1, <2>1, ConcatProperties, Zenon
  <2>3. /\ p \o t \in Seq(Nat)
        /\ Len(p \o t) = n + k
        /\ \A i \in 1 .. n + k : (p \o t)[i] = IF i <= n THEN p[i] ELSE t[i - n]
    BY <1>1, <2>1, <2>2, Zenon
  <2> QED
    BY <2>3 DEF p
<1>4. ASSUME NEW i \in 1 .. n + k
      PROVE  (Prefix(n) \o t)[i] = Prefix(n + k)[i]
  <2>1. Prefix(n + k)[i] = i - 1
    BY PrefixIsSeq
  <2>2. CASE i <= n
    BY <1>3, <2>1, <2>2, PrefixIsSeq
  <2>3. CASE i > n
    <3>1. i - n \in 1 .. k
      BY <2>3
    <3>2. t[i - n] = i - 1
      BY <3>1, <2>3, <1>t
    <3> QED
      BY <1>3, <2>1, <2>3, <3>2
  <2>4. i <= n \/ i > n
    OBVIOUS
  <2> QED
    BY <2>2, <2>3, <2>4, Zenon
<1>5. Prefix(n) \o t = Prefix(n + k)
  BY <1>2, <1>3, <1>4, SeqEqual
<1> QED
  BY <1>5 DEF t

LEMMA SubPrefix ==
    ASSUME NEW m \in Nat, NEW n \in Nat, NEW k \in 0 .. n, n <= m
    PROVE  SubSeq(Prefix(m), k + 1, n) = [i \in 1 .. n - k |-> k + i - 1]
<1>1. \A i \in k + 1 .. n : Prefix(m)[i] = i - 1
  BY PrefixIsSeq
<1>2. /\ SubSeq(Prefix(m), k + 1, n) \in Seq(Nat)
      /\ Len(SubSeq(Prefix(m), k + 1, n)) = n - k
      /\ \A i \in 1 .. n - k : SubSeq(Prefix(m), k + 1, n)[i] = Prefix(m)[k + i]
  <2>1. \A i \in k + 1 .. n : Prefix(m)[i] \in Nat
    BY <1>1
  <2>2. /\ SubSeq(Prefix(m), k + 1, n) \in Seq(Nat)
        /\ Len(SubSeq(Prefix(m), k + 1, n)) = IF k + 1 <= n THEN n - (k + 1) + 1 ELSE 0
        /\ \A i \in 1 .. n - (k + 1) + 1 : SubSeq(Prefix(m), k + 1, n)[i] = Prefix(m)[k + 1 + i - 1]
    BY <2>1, SubSeqProperties
  <2> QED
    BY <2>2
<1>3. \A i \in 1 .. n - k : SubSeq(Prefix(m), k + 1, n)[i] = k + i - 1
  BY <1>1, <1>2
<1> DEFINE t == [i \in 1 .. n - k |-> k + i - 1]
<1>4. t \in Seq(Nat) /\ Len(t) = n - k
  <2>1. t \in [1 .. n - k -> Nat] /\ n - k \in Nat
    OBVIOUS
  <2> QED
    BY <2>1
<1>5. \A i \in 1 .. Len(t) : SubSeq(Prefix(m), k + 1, n)[i] = t[i]
  BY <1>3, <1>4
<1> HIDE DEF t
<1>6. SubSeq(Prefix(m), k + 1, n) = t
  BY <1>2, <1>4, <1>5, SeqEqual
<1> QED
  BY <1>6 DEF t

-----------------------------------------------------------------------------
(* What the TCP client handles *)

LEMMA Sizes ==
    /\ Conns \in Nat /\ Conns > 0 /\ Length \in Nat /\ Length > 0
    /\ MaxSegment \in Nat /\ RxSize \in Nat /\ RxSize > 0 /\ BodyCap \in Nat /\ BodyCap > 0
    /\ NxtBound \in Nat /\ NxtBound > Length
BY SizesAssumption

(* A segment a peer may have sent: what HandleTcp relies on *)
FromPeer(s) ==
    /\ conn \in heard
    /\ s.kind = "synack" => s.seq = -1
    /\ s.kind = "data" =>
          /\ s.seq \in 0 .. Length /\ s.len \in Nat /\ s.seq + s.len <= Length
          /\ s.fin \in BOOLEAN
          /\ s.fin => (FinWaits => una[conn] >= Length)

LEMMA SegmentFromPeer ==
    ASSUME TypeOK, NEW s \in InFlight, ForUs(s)
    PROVE  FromPeer(s)
<1>1. PICK c \in heard : s \in {Segment(c, "synack", -1, 0, FALSE),
                                Segment(c, "rst", 0, 0, FALSE)} \cup DataSent(c)
  BY DEF InFlight
<1>2. CASE s = Segment(c, "synack", -1, 0, FALSE)
  BY <1>1, <1>2 DEF Segment, ForUs, FromPeer
<1>3. CASE s = Segment(c, "rst", 0, 0, FALSE)
  BY <1>1, <1>3 DEF Segment, ForUs, FromPeer
<1>4. CASE s \in DataSent(c)
  <2>1. /\ s \in [conn : {c}, kind : {"data"}, seq : 0 .. Length, len : 0 .. MaxSegment,
                  fin : BOOLEAN]
        /\ s.seq + s.len <= Length
        /\ s.fin => s.seq + s.len = Length /\ (FinWaits => una[c] >= Length)
    BY <1>4 DEF DataSent
  <2>2. /\ s.conn = c /\ s.kind = "data" /\ s.seq \in 0 .. Length /\ s.len \in 0 .. MaxSegment
        /\ s.fin \in BOOLEAN
    BY <2>1
  <2>3. c = conn
    BY <2>2 DEF ForUs
  <2> QED
    BY <1>1, <2>1, <2>2, <2>3, Sizes DEF FromPeer
<1> QED
  BY <1>1, <1>2, <1>3, <1>4

(* g_tcp_rx after a segment *)
LEMMA StoredTyped ==
    ASSUME TypeOK, NEW s, FromPeer(s), s.kind = "data"
    PROVE  Stored(s) \in Seq(0 .. Length - 1) /\ Len(Stored(s)) <= RxSize
<1>1. /\ rx \in Seq(0 .. Length - 1) /\ Len(rx) \in Nat /\ Len(rx) <= RxSize
      /\ s.seq \in 0 .. Length /\ s.len \in Nat /\ s.seq + s.len <= Length
  BY DEF TypeOK, FromPeer
<1>2. CASE ~ InOrder(s)
  BY <1>1, <1>2 DEF Stored
<1>3. CASE InOrder(s)
  <2> DEFINE k == Least(s.len, RxSize - Len(rx))
             t == [i \in 1 .. k |-> s.seq + i - 1]
  <2>1. k \in Nat /\ k <= s.len /\ k <= RxSize - Len(rx)
    BY <1>1, Sizes DEF Least
  <2> HIDE DEF k
  <2>2. t \in [1 .. k -> 0 .. Length - 1]
    BY <1>1, <2>1, Sizes
  <2>3. t \in Seq(0 .. Length - 1) /\ Len(t) = k
    BY <2>1, <2>2
  <2>4. Stored(s) = rx \o t
    BY <1>3 DEF Stored, k
  <2> HIDE DEF t
  <2>5. rx \o t \in Seq(0 .. Length - 1) /\ Len(rx \o t) = Len(rx) + Len(t)
    BY <1>1, <2>3, ConcatProperties, Zenon
  <2> QED
    BY <1>1, <2>1, <2>3, <2>4, <2>5, Sizes
<1> QED
  BY <1>2, <1>3

LEMMA PollTyped == TypeOK /\ Poll => TypeOK'
<1> SUFFICES ASSUME TypeOK, Poll PROVE TypeOK'
  OBVIOUS
<1>1. PICK s \in InFlight : HandleTcp(s)
  BY DEF Poll
<1>2. FromPeer(s)
  BY <1>1, SegmentFromPeer DEF HandleTcp
<1>3. UNCHANGED <<pc, body, total, heard, una>>
  BY DEF Poll, caller, peers
<1>4. CASE HandleRst(s)
  BY <1>3, <1>4 DEF HandleRst, TypeOK, States
<1>5. CASE HandleSynAck(s)
  <2>1. rcvNxt' = 0 /\ st' \in States
    BY <1>2, <1>5 DEF HandleSynAck, FromPeer, States
  <2>2. acked' = [acked EXCEPT ![conn] = @ \cup {rcvNxt'}] /\ {rcvNxt'} \in SUBSET (0 .. NxtBound)
    BY <1>5, <2>1, Sizes DEF HandleSynAck, Acknowledge
  <2>3. acked' \in [Ids -> SUBSET (0 .. NxtBound)]
    BY <2>2 DEF TypeOK
  <2> QED
    BY <1>3, <1>5, <2>1, <2>3, Sizes DEF HandleSynAck, TypeOK
<1>6. CASE HandleData(s)
  <2> DEFINE next == IF InOrder(s) THEN rcvNxt + s.len ELSE rcvNxt
             last == IF s.fin THEN next + 1 ELSE next
             sent == (IF s.len > 0 THEN {next} ELSE {}) \cup (IF s.fin THEN {last} ELSE {})
  <2>1. /\ s.kind = "data" /\ last <= NxtBound
        /\ rx' = Stored(s) /\ rcvNxt' = last
        /\ gotFin' = (gotFin \/ s.fin)
        /\ st' = IF s.fin THEN "CLOSE_WAIT" ELSE st
        /\ acked' = [acked EXCEPT ![conn] = @ \cup sent]
        /\ UNCHANGED conn
    BY <1>6 DEF HandleData, Acknowledge
  <2>2. next \in 0 .. NxtBound /\ last \in 0 .. NxtBound
    <3>1. rcvNxt \in Nat /\ s.len \in Nat /\ s.fin \in BOOLEAN
      BY <1>2, <2>1, Sizes DEF TypeOK, FromPeer
    <3>2. next \in Nat
      BY <3>1
    <3> HIDE DEF next
    <3>3. last \in Nat /\ next <= last
      BY <3>1, <3>2
    <3> QED
      BY <2>1, <3>2, <3>3, Sizes
  <2>3. sent \in SUBSET (0 .. NxtBound)
    BY <2>2
  <2> HIDE DEF next, last, sent
  <2>4. acked' \in [Ids -> SUBSET (0 .. NxtBound)]
    BY <2>1, <2>3 DEF TypeOK
  <2>5. st' \in States /\ gotFin' \in BOOLEAN
    BY <1>2, <2>1 DEF TypeOK, States, FromPeer
  <2>6. rx' \in Seq(0 .. Length - 1) /\ Len(rx') <= RxSize
    BY <1>2, <2>1, StoredTyped
  <2> QED
    BY <1>3, <2>1, <2>2, <2>4, <2>5, <2>6 DEF TypeOK
<1> QED
  BY <1>1, <1>4, <1>5, <1>6 DEF HandleTcp

-----------------------------------------------------------------------------
(* The caller *)

(* How far one turn of the loop of net_tcp_recv copies *)
LEMMA ReceiveCopies ==
    ASSUME TypeOK, Receive
    PROVE  \E now \in Nat :
              /\ Len(body) - total <= now
              /\ now <= Len(rx) \/ now = Len(body) - total
              /\ total + now < BodyCap
              /\ body' = body \o SubSeq(rx, (Len(body) - total) + 1, now)
              /\ total' = total \/ total' = total + now
              /\ pc' \in {pc, "returned"}
              /\ UNCHANGED <<client, acked, peers>>
<1> DEFINE max == BodyCap - 1 - total
           copied == Len(body) - total
           now == IF copied < max /\ copied < Len(rx) THEN Least(max, Len(rx)) ELSE copied
<1>1. /\ total \in Nat /\ Len(body) \in Nat /\ total <= Len(body) /\ Len(body) < BodyCap
      /\ Len(rx) \in Nat /\ BodyCap \in Nat
  BY Sizes DEF TypeOK
<1>2. copied \in Nat /\ max \in Int
  BY <1>1
<1>3. now \in Nat /\ copied <= now /\ (now <= Len(rx) \/ now = copied)
  BY <1>1, <1>2 DEF Least
<1>4. total + now < BodyCap
  BY <1>1, <1>2 DEF Least
<1>5. /\ body' = body \o SubSeq(rx, copied + 1, now)
      /\ total' = total \/ total' = total + now
      /\ pc' \in {pc, "returned"}
      /\ UNCHANGED <<client, acked, peers>>
  BY DEF Receive
<1> QED
  BY <1>3, <1>4, <1>5

LEMMA ReceiveTyped == TypeOK /\ Receive => TypeOK'
<1> SUFFICES ASSUME TypeOK, Receive PROVE TypeOK'
  OBVIOUS
<1>1. PICK now \in Nat :
              /\ Len(body) - total <= now
              /\ now <= Len(rx) \/ now = Len(body) - total
              /\ total + now < BodyCap
              /\ body' = body \o SubSeq(rx, (Len(body) - total) + 1, now)
              /\ total' = total \/ total' = total + now
              /\ pc' \in {pc, "returned"}
              /\ UNCHANGED <<client, acked, peers>>
  BY ReceiveCopies
<1>2. /\ body \in Seq(0 .. Length - 1) /\ total \in Nat /\ Len(body) \in Nat /\ total <= Len(body)
      /\ rx \in Seq(0 .. Length - 1) /\ Len(rx) \in Nat
  BY DEF TypeOK
<1> DEFINE copied == Len(body) - total
           more == SubSeq(rx, copied + 1, now)
<1>3. copied \in Nat /\ copied <= now
  BY <1>1, <1>2
<1>4. more \in Seq(0 .. Length - 1) /\ Len(more) = now - copied
  <2>1. ASSUME NEW i \in copied + 1 .. now PROVE rx[i] \in 0 .. Length - 1
    <3>1. now <= Len(rx) \/ now = copied
      BY <1>1
    <3> HIDE DEF copied
    <3>2. i \in 1 .. Len(rx)
      BY <3>1, <1>2, <1>3
    <3> QED
      BY <3>2, <1>2, ElementOfSeq, Zenon
  <2>2. /\ more \in Seq(0 .. Length - 1)
        /\ Len(more) = IF copied + 1 <= now THEN now - (copied + 1) + 1 ELSE 0
    BY <2>1, <1>3, SubSeqProperties
  <2> QED
    BY <1>3, <2>2
<1>5. body' = body \o more
  BY <1>1
<1> HIDE DEF more
<1>6. body \o more \in Seq(0 .. Length - 1) /\ Len(body \o more) = Len(body) + Len(more)
  BY <1>2, <1>4, ConcatProperties, Zenon
<1>7. body' \in Seq(0 .. Length - 1) /\ Len(body') = total + now
  BY <1>2, <1>3, <1>4, <1>5, <1>6
<1>8. total' \in 0 .. Len(body') /\ Len(body') < BodyCap
  BY <1>1, <1>2, <1>7
<1> QED
  BY <1>1, <1>7, <1>8 DEF TypeOK, client, peers, States

LEMMA CallerTyped == TypeOK /\ Caller => TypeOK'
<1> SUFFICES ASSUME TypeOK, Caller PROVE TypeOK'
  OBVIOUS
<1>1. <<>> \in Seq(0 .. Length - 1) /\ 0 \in 0 .. Len(<<>>) /\ Len(<<>>) = 0
  OBVIOUS
<1>2. CASE Connect
  <2>1. conn' \in 0 .. Conns
    BY <1>2, Sizes DEF Connect, TypeOK
  <2> QED
    <3>1. /\ body' = <<>> /\ total' = 0 /\ rx' = <<>> /\ rcvNxt' = 0 /\ gotFin' = FALSE
          /\ st' = "SYN_SENT" /\ pc' = "connecting"
          /\ UNCHANGED <<acked, heard, una>>
      BY <1>2 DEF Connect, peers
    <3>2. /\ rx' \in Seq(0 .. Length - 1) /\ Len(rx') <= RxSize
          /\ body' \in Seq(0 .. Length - 1) /\ total' \in 0 .. Len(body') /\ Len(body') < BodyCap
      BY <1>1, <3>1, Sizes
    <3>3. rcvNxt' \in 0 .. NxtBound /\ st' \in States
      BY <3>1, Sizes DEF States
    <3>4. gotFin' \in BOOLEAN
      BY <3>1, Zenon
    <3> QED
      BY <2>1, <3>1, <3>2, <3>3, <3>4 DEF TypeOK
<1>3. CASE Connected \/ Refused
  BY <1>3 DEF Connected, Refused, TypeOK, client, peers
<1>4. CASE ConnectTimesOut \/ CloseReturns
  BY <1>4 DEF ConnectTimesOut, CloseReturns, TypeOK, States, peers
<1>5. {rcvNxt} \in SUBSET (0 .. NxtBound)
  BY DEF TypeOK
<1>6. CASE SendRequest
  <2>1. acked' = acked \/ acked' = [acked EXCEPT ![conn] = @ \cup {rcvNxt}]
    BY <1>6 DEF SendRequest, Acknowledge
  <2>2. acked' \in [Ids -> SUBSET (0 .. NxtBound)]
    BY <2>1, <1>5 DEF TypeOK
  <2> QED
    BY <1>6, <2>2 DEF SendRequest, TypeOK, client, peers
<1>7. CASE Receive
  BY <1>7, ReceiveTyped
<1>8. CASE Close
  <2>1. acked' = acked \/ acked' = [acked EXCEPT ![conn] = @ \cup {rcvNxt}]
    BY <1>8 DEF Close, Acknowledge
  <2>2. acked' \in [Ids -> SUBSET (0 .. NxtBound)]
    BY <2>1, <1>5 DEF TypeOK
  <2> QED
    BY <1>8, <2>2 DEF Close, TypeOK, States, peers
<1> QED
  BY <1>2, <1>3, <1>4, <1>6, <1>7, <1>8 DEF Caller

LEMMA PeerTyped ==
    ASSUME TypeOK, NEW c \in Ids, PeerHears(c) \/ PeerGetsAck(c)
    PROVE  TypeOK'
<1>1. CASE PeerHears(c)
  BY <1>1 DEF PeerHears, TypeOK, client, caller
<1>2. CASE PeerGetsAck(c)
  <2>1. PICK a \in acked[c] : a <= Length + 1 /\ una' = [una EXCEPT ![c] = a]
    BY <1>2 DEF PeerGetsAck
  <2>2. a \in -1 .. Length + 1
    BY <2>1, Sizes DEF TypeOK
  <2>3. una' \in [Ids -> -1 .. Length + 1]
    BY <2>1, <2>2 DEF TypeOK
  <2> QED
    BY <1>2, <2>3 DEF PeerGetsAck, TypeOK, client, caller
<1> QED
  BY <1>1, <1>2

LEMMA TcpTypeStep == TypeOK /\ [Next]_vars => TypeOK'
<1> SUFFICES ASSUME TypeOK, [Next]_vars PROVE TypeOK'
  OBVIOUS
<1>1. CASE Next
  BY <1>1, CallerTyped, PollTyped, PeerTyped DEF Next
<1>2. CASE UNCHANGED vars
  BY <1>2 DEF vars, client, caller, peers, TypeOK
<1> QED
  BY <1>1, <1>2

LEMMA InitTyped == Init => TypeOK
<1> SUFFICES ASSUME Init PROVE TypeOK
  OBVIOUS
<1>1. <<>> \in Seq(0 .. Length - 1) /\ 0 \in 0 .. Len(<<>>) /\ Len(<<>>) = 0
  OBVIOUS
<1>2. /\ rx \in Seq(0 .. Length - 1) /\ Len(rx) <= RxSize
      /\ body \in Seq(0 .. Length - 1) /\ total \in 0 .. Len(body) /\ Len(body) < BodyCap
  BY <1>1, Sizes DEF Init
<1>3. st \in States /\ conn \in 0 .. Conns /\ rcvNxt \in 0 .. NxtBound
  BY Sizes DEF Init, States
<1>4. acked \in [Ids -> SUBSET (0 .. NxtBound)] /\ una \in [Ids -> -1 .. Length + 1]
  BY Sizes DEF Init
<1> QED
  BY <1>2, <1>3, <1>4 DEF Init, TypeOK

(* The state of the TCP client and of its caller is of its type: the       *)
(* buffer keeps to g_tcp_rx, the body to body_cap, and what is in them are *)
(* bytes of a stream - whatever a peer sends and even if it does not hold  *)
(* back its FIN.                                                           *)
THEOREM TcpTyped == Spec => []TypeOK
  BY InitTyped, TcpTypeStep, PTL DEF Spec

-----------------------------------------------------------------------------
(* The stream *)

LEMMA ToldMore ==
    ASSUME TypeOK, Told, UNCHANGED <<conn, heard, una>>,
           rcvNxt' \in Nat, rcvNxt <= rcvNxt',
           NEW sent, \A a \in sent : a <= rcvNxt',
           acked' = [acked EXCEPT ![conn] = @ \cup sent]
    PROVE  Told'
<1>1. \A c \in Ids : acked'[c] = IF c = conn THEN acked[c] \cup sent ELSE acked[c]
  BY DEF TypeOK
<1>2. ASSUME NEW c \in Ids, c = conn, NEW a \in acked'[c] PROVE a <= rcvNxt'
  <2>1. CASE a \in sent
    BY <2>1
  <2>2. CASE a \in acked[c]
    <3>1. a <= rcvNxt /\ a \in Int /\ rcvNxt \in Int
      BY <1>2, <2>2 DEF Told, TypeOK
    <3> QED
      BY <3>1
  <2> QED
    BY <1>1, <1>2, <2>1, <2>2
<1>3. \A c \in Ids : c > conn => acked'[c] = {}
  <2>1. ASSUME NEW c \in Ids, c > conn PROVE acked'[c] = {}
    <3>1. c # conn
      BY <2>1 DEF TypeOK, Ids
    <3> QED
      BY <1>1, <2>1, <3>1 DEF Told
  <2> QED
    BY <2>1
<1>4. \A c \in Ids : una[c] \in acked'[c] \cup {-1}
  BY <1>1 DEF Told
<1> QED
  BY <1>2, <1>3, <1>4 DEF Told

(* A FIN is only handled when its data has been. *)
LEMMA FinLast ==
    ASSUME FinWaits, TypeOK, Told, NEW s, FromPeer(s), s.kind = "data", s.fin
    PROVE  rcvNxt >= Length
<1>1. conn \in Ids /\ una[conn] >= Length
  BY DEF FromPeer, TypeOK
<1>2. una[conn] \in acked[conn]
  BY <1>1, Sizes DEF Told
<1>3. una[conn] <= rcvNxt /\ una[conn] \in Int /\ rcvNxt \in Int
  BY <1>1, <1>2 DEF Told, TypeOK
<1> QED
  BY <1>1, <1>3, Sizes

(* g_tcp_rx goes on with the stream. *)
LEMMA StoredGoesOn ==
    ASSUME TypeOK, Held, NEW s, FromPeer(s), s.kind = "data", InOrder(s)
    PROVE  /\ Stored(s) = Prefix(Len(Stored(s)))
           /\ Len(Stored(s)) = Least(Least(rcvNxt + s.len, Length), RxSize)
<1>1. /\ Len(rx) \in Nat /\ rx = Prefix(Len(rx)) /\ rcvNxt \in Nat
      /\ Len(rx) = Least(Least(rcvNxt, Length), RxSize)
      /\ s.len \in Nat /\ s.len > 0 /\ s.seq = rcvNxt /\ rcvNxt + s.len <= Length
  BY Sizes DEF TypeOK, Held, RxInOrder, FromPeer, InOrder
<1> DEFINE k == Least(s.len, RxSize - Len(rx))
           t == [i \in 1 .. k |-> s.seq + i - 1]
<1>2. k \in Nat /\ Len(rx) + k = Least(Least(rcvNxt + s.len, Length), RxSize)
  BY <1>1, Sizes DEF Least
<1>3. k = 0 \/ s.seq = Len(rx)
  BY <1>1, Sizes DEF Least
<1>4. Stored(s) = rx \o t
  BY DEF Stored
<1> HIDE DEF k
<1>5. t = [i \in 1 .. k |-> Len(rx) + i - 1]
  BY <1>1, <1>2, <1>3
<1>6. Prefix(Len(rx)) \o [i \in 1 .. k |-> Len(rx) + i - 1] = Prefix(Len(rx) + k)
  BY <1>1, <1>2, PrefixGrows, Zenon
<1> HIDE DEF t
<1>7. Stored(s) = Prefix(Len(rx) + k)
  BY <1>1, <1>4, <1>5, <1>6, Zenon
<1>8. Len(rx) + k \in Nat
  BY <1>1, <1>2
<1>9. Len(Prefix(Len(rx) + k)) = Len(rx) + k
  BY <1>8, PrefixIsSeq
<1> QED
  BY <1>2, <1>7, <1>9, Zenon

LEMMA PollStream == FinWaits /\ StreamInv /\ Poll => (Told /\ PeerKnows /\ Held /\ RecvInOrder)'
<1> SUFFICES ASSUME FinWaits, StreamInv, Poll
             PROVE  Told' /\ PeerKnows' /\ Held' /\ RecvInOrder'
  OBVIOUS
<1>1. TypeOK /\ Told /\ PeerKnows /\ Held /\ RecvInOrder
  BY DEF StreamInv
<1>2. PICK s \in InFlight : HandleTcp(s)
  BY DEF Poll
<1>3. FromPeer(s)
  BY <1>1, <1>2, SegmentFromPeer DEF HandleTcp
<1>4. UNCHANGED <<body, total, heard, una>>
  BY DEF Poll, caller, peers
<1>5. RecvInOrder'
  BY <1>1, <1>4 DEF RecvInOrder, Prefix
<1>6. rcvNxt \in Nat /\ Len(rx) \in Nat /\ Length > 0
  BY <1>1, Sizes DEF TypeOK
<1>7. CASE HandleRst(s)
  BY <1>1, <1>4, <1>5, <1>7 DEF HandleRst, Told, PeerKnows, Held, Open, RxInOrder
<1>8. CASE HandleSynAck(s)
  <2>1. /\ rcvNxt = 0 /\ rcvNxt' = 0 /\ st' = "ESTABLISHED"
        /\ acked' = [acked EXCEPT ![conn] = @ \cup {rcvNxt'}]
        /\ UNCHANGED <<conn, rx, gotFin>>
    BY <1>1, <1>3, <1>8 DEF HandleSynAck, FromPeer, Held, Acknowledge
  <2>2. Told'
    <3> DEFINE sent == {rcvNxt'}
    <3>1. /\ rcvNxt' \in Nat /\ rcvNxt <= rcvNxt' /\ \A a \in sent : a <= rcvNxt'
          /\ acked' = [acked EXCEPT ![conn] = @ \cup sent]
      BY <2>1
    <3>2. UNCHANGED <<conn, heard, una>>
      BY <1>4, <2>1
    <3> HIDE DEF sent
    <3> QED
      BY <1>1, <3>1, <3>2, ToldMore
  <2>3. PeerKnows'
    BY <1>3, <1>4, <2>1 DEF PeerKnows, FromPeer
  <2>4. Held'
    BY <1>1, <2>1 DEF Held, RxInOrder
  <2> QED
    BY <1>5, <2>2, <2>3, <2>4
<1>9. CASE HandleData(s)
  <2> DEFINE next == IF InOrder(s) THEN rcvNxt + s.len ELSE rcvNxt
             last == IF s.fin THEN next + 1 ELSE next
             sent == (IF s.len > 0 THEN {next} ELSE {}) \cup (IF s.fin THEN {last} ELSE {})
  <2>1. /\ s.kind = "data" /\ st \in Open
        /\ rx' = Stored(s) /\ rcvNxt' = last
        /\ gotFin' = (gotFin \/ s.fin)
        /\ st' = IF s.fin THEN "CLOSE_WAIT" ELSE st
        /\ acked' = [acked EXCEPT ![conn] = @ \cup sent]
        /\ UNCHANGED conn
    BY <1>9 DEF HandleData, Acknowledge
  <2>2. /\ s.seq \in Nat /\ s.len \in Nat /\ s.seq + s.len <= Length /\ s.fin \in BOOLEAN
    BY <1>3, <2>1 DEF FromPeer
  <2>3. next \in Nat /\ rcvNxt <= next
    BY <1>6, <2>2
  <2>4. last \in Nat /\ next <= last
    BY <2>2, <2>3
  <2>5. \A a \in sent : a <= last
    BY <2>3, <2>4
  <2>6. Told'
    <3> HIDE DEF next, last, sent
    <3>1. rcvNxt' \in Nat /\ rcvNxt <= rcvNxt' /\ \A a \in sent : a <= rcvNxt'
      BY <1>6, <2>1, <2>3, <2>4, <2>5
    <3> QED
      BY <1>1, <1>4, <2>1, <3>1, ToldMore
  <2>7. PeerKnows'
    BY <1>3, <1>4, <2>1 DEF PeerKnows, FromPeer
  <2>8. st' # "SYN_SENT"
    BY <2>1 DEF Open
  <2>9. s.fin => ~ InOrder(s) /\ rcvNxt >= Length
    <3>1. s.fin => rcvNxt >= Length
      BY <1>1, <1>3, <2>1, FinLast
    <3> QED
      BY <1>6, <2>2, <3>1, Sizes DEF InOrder
  <2>10. Held'
    <3>1. CASE InOrder(s)
      <4>1. rcvNxt' = rcvNxt + s.len /\ gotFin' = gotFin
        BY <2>1, <2>9, <3>1, <1>1 DEF TypeOK
      <4>2. /\ rx' = Prefix(Len(rx'))
            /\ Len(rx') = Least(Least(rcvNxt', Length), RxSize)
        BY <1>1, <1>3, <2>1, <3>1, <4>1, StoredGoesOn
      <4>3. gotFin' => rcvNxt' >= Length
        BY <1>1, <1>6, <2>2, <4>1, Sizes DEF Held
      <4> QED
        BY <2>8, <4>2, <4>3 DEF Held, RxInOrder
    <3>2. CASE ~ InOrder(s)
      <4>1. rx' = rx /\ rcvNxt' = (IF s.fin THEN rcvNxt + 1 ELSE rcvNxt)
        BY <2>1, <3>2 DEF Stored
      <4>2. Least(rcvNxt', Length) = Least(rcvNxt, Length)
        BY <1>6, <2>9, <4>1, Sizes DEF Least
      <4>3. gotFin' => rcvNxt >= Length
        BY <1>1, <2>1, <2>9 DEF Held
      <4>4. gotFin' => rcvNxt' >= Length
        BY <1>6, <4>1, <4>3, Sizes
      <4> QED
        BY <1>1, <2>8, <4>1, <4>2, <4>4 DEF Held, RxInOrder
    <3> QED
      BY <3>1, <3>2
  <2> QED
    BY <1>5, <2>6, <2>7, <2>10
<1> QED
  BY <1>2, <1>7, <1>8, <1>9 DEF HandleTcp

LEMMA EmptyCopy == SubSeq(<<>>, 0 + 1, Len(<<>>)) = Prefix(Len(<<>>) - 0)
<1>1. SubSeq(<<>>, 1, 0) = <<>> /\ Prefix(0) = <<>>
  BY SubSeqEmpty DEF Prefix
<1>2. Len(<<>>) = 0 /\ 0 + 1 = 1 /\ 0 - 0 = 0
  OBVIOUS
<1> QED
  BY <1>1, <1>2, Zenon

(* What a call has copied goes on with the stream. *)
LEMMA CopiedGoesOn ==
    ASSUME TypeOK, RecvInOrder, NEW now \in Nat, Len(body) - total <= now,
           NEW more \in Seq(Nat), Len(more) = now - (Len(body) - total),
           \A i \in 1 .. Len(more) : more[i] = (Len(body) - total) + i - 1
    PROVE  /\ Len(body \o more) = total + now
           /\ SubSeq(body \o more, total + 1, total + now) = Prefix(now)
<1>1. /\ body \in Seq(Nat) /\ Len(body) \in Nat /\ total \in Nat /\ total <= Len(body)
      /\ \A i \in 1 .. Len(body) : body[i] \in Nat
  <2>1. /\ body \in Seq(0 .. Length - 1) /\ total \in 0 .. Len(body)
    BY DEF TypeOK
  <2>2. 0 .. Length - 1 \subseteq Nat
    BY Sizes
  <2>3. body \in Seq(Nat)
    BY <2>1, <2>2, SeqMonotonic, Zenon
  <2> QED
    BY <2>1, <2>3
<1> DEFINE c == Len(body) - total
           all == body \o more
<1>2. c \in Nat /\ c <= now /\ Len(more) = now - c
  BY <1>1
<1>3. /\ all \in Seq(Nat) /\ Len(all) = Len(body) + Len(more)
      /\ \A i \in 1 .. Len(body) + Len(more) :
            all[i] = IF i <= Len(body) THEN body[i] ELSE more[i - Len(body)]
  BY <1>1, ConcatProperties, Zenon
<1>4. Len(all) = total + now
  BY <1>1, <1>2, <1>3
<1>5. \A i \in 1 .. c : body[total + i] = i - 1
  <2>1. \A i \in total + 1 .. Len(body) : body[i] \in Nat
    BY <1>1
  <2>2. \A i \in 1 .. Len(body) - (total + 1) + 1 :
           SubSeq(body, total + 1, Len(body))[i] = body[total + 1 + i - 1]
    BY <1>1, <2>1, SubSeqProperties, SMTT(30)
  <2>3. ASSUME NEW i \in 1 .. c PROVE body[total + i] = i - 1
    <3>1. SubSeq(body, total + 1, Len(body)) = Prefix(c)
      BY DEF RecvInOrder
    <3>2. i \in 1 .. Len(body) - (total + 1) + 1 /\ total + 1 + i - 1 = total + i
      BY <1>1
    <3>3. SubSeq(body, total + 1, Len(body))[i] = body[total + i]
      BY <2>2, <3>2
    <3> HIDE DEF c
    <3>4. Prefix(c)[i] = i - 1
      BY <1>2, PrefixIsSeq
    <3> QED
      BY <3>1, <3>3, <3>4
  <2> QED
    BY <2>3
<1>6. ASSUME NEW i \in 1 .. now PROVE all[total + i] = i - 1
  <2>1. total + i \in 1 .. Len(body) + Len(more)
    BY <1>1, <1>2
  <2>2. CASE i <= c
    <3>1. total + i <= Len(body) /\ i \in 1 .. c
      BY <1>1, <2>2
    <3> HIDE DEF all
    <3> QED
      BY <1>3, <1>5, <2>1, <3>1
  <2>3. CASE i > c
    <3>1. /\ ~ (total + i <= Len(body)) /\ total + i - Len(body) = i - c
          /\ i - c \in 1 .. Len(more) /\ c + (i - c) - 1 = i - 1
      BY <1>1, <1>2, <2>3
    <3>2. all[total + i] = more[i - c]
      <4> HIDE DEF all, c
      <4> DEFINE j == total + i
      <4>1. j \in 1 .. Len(body) + Len(more) /\ ~ (j <= Len(body)) /\ j - Len(body) = i - c
        BY <1>1, <1>2, <2>1, <3>1
      <4> HIDE DEF j
      <4>2. all[j] = IF j <= Len(body) THEN body[j] ELSE more[j - Len(body)]
        BY <1>3, <4>1, Zenon
      <4>3. all[j] = more[i - c]
        BY <4>1, <4>2, Zenon
      <4> QED
        BY <4>3 DEF j
    <3>3. more[i - c] = c + (i - c) - 1
      <4>1. \A j \in 1 .. Len(more) : more[j] = c + j - 1
        OBVIOUS
      <4> HIDE DEF c
      <4> QED
        BY <3>1, <4>1
    <3> QED
      BY <3>1, <3>2, <3>3
  <2>4. i <= c \/ i > c
    BY <1>2
  <2> QED
    BY <2>2, <2>3, <2>4
<1> HIDE DEF all
<1>7. /\ SubSeq(all, total + 1, total + now) \in Seq(Nat)
      /\ Len(SubSeq(all, total + 1, total + now)) = now
      /\ \A i \in 1 .. now : SubSeq(all, total + 1, total + now)[i] = all[total + i]
  <2>1. \A i \in total + 1 .. total + now : all[i] \in Nat
    BY <1>1, <1>3, <1>4
  <2>2. /\ SubSeq(all, total + 1, total + now) \in Seq(Nat)
        /\ Len(SubSeq(all, total + 1, total + now)) =
              IF total + 1 <= total + now THEN (total + now) - (total + 1) + 1 ELSE 0
        /\ \A i \in 1 .. (total + now) - (total + 1) + 1 :
              SubSeq(all, total + 1, total + now)[i] = all[total + 1 + i - 1]
    BY <1>1, <2>1, SubSeqProperties, SMTT(30)
  <2> QED
    BY <1>1, <2>2
<1>8. SubSeq(all, total + 1, total + now) = Prefix(now)
  <2>1. /\ Prefix(now) \in Seq(Nat) /\ Len(Prefix(now)) = now
        /\ \A i \in 1 .. now : Prefix(now)[i] = i - 1
    BY PrefixIsSeq
  <2> DEFINE u == SubSeq(all, total + 1, total + now)
             p == Prefix(now)
  <2>2. u \in Seq(Nat) /\ p \in Seq(Nat) /\ Len(u) = Len(p) /\ \A i \in 1 .. Len(u) : u[i] = p[i]
    BY <1>6, <1>7, <2>1
  <2> HIDE DEF u, p
  <2>3. u = p
    BY <2>2, SeqEqual
  <2> QED
    BY <2>3 DEF u, p
<1> QED
  BY <1>4, <1>8 DEF all

LEMMA ReceiveStream == StreamInv /\ Receive => RecvInOrder'
<1> SUFFICES ASSUME StreamInv, Receive PROVE RecvInOrder'
  OBVIOUS
<1>1. TypeOK /\ RxInOrder /\ RecvInOrder
  BY DEF StreamInv, Held
<1>2. PICK now \in Nat :
              /\ Len(body) - total <= now
              /\ now <= Len(rx) \/ now = Len(body) - total
              /\ total + now < BodyCap
              /\ body' = body \o SubSeq(rx, (Len(body) - total) + 1, now)
              /\ total' = total \/ total' = total + now
              /\ pc' \in {pc, "returned"}
              /\ UNCHANGED <<client, acked, peers>>
  BY <1>1, ReceiveCopies
<1>3. /\ Len(body) \in Nat /\ total \in Nat /\ total <= Len(body) /\ Len(rx) \in Nat
  BY <1>1 DEF TypeOK
<1> DEFINE c == Len(body) - total
           more == SubSeq(rx, c + 1, now)
<1>4. c \in Nat /\ c <= now
  BY <1>2, <1>3
<1>5. more = [i \in 1 .. now - c |-> c + i - 1]
  <2>1. CASE now <= Len(rx)
    <3>1. rx = Prefix(Len(rx))
      BY <1>1 DEF RxInOrder
    <3>2. c \in 0 .. now
      BY <1>4
    <3> HIDE DEF c
    <3>3. SubSeq(Prefix(Len(rx)), c + 1, now) = [i \in 1 .. now - c |-> c + i - 1]
      BY <1>3, <1>4, <2>1, <3>2, SubPrefix, Zenon
    <3> QED
      BY <3>1, <3>3, Zenon
  <2>2. CASE now = c
    <3>1. more = <<>>
      BY <1>4, <2>2, SubSeqEmpty
    <3>2. [i \in 1 .. now - c |-> c + i - 1] = <<>>
      BY <1>4, <2>2
    <3> QED
      BY <3>1, <3>2
  <2> QED
    BY <1>2, <2>1, <2>2
<1>6. /\ more \in Seq(Nat) /\ Len(more) = now - c
      /\ \A i \in 1 .. Len(more) : more[i] = c + i - 1
  <2> HIDE DEF more
  <2>1. more \in [1 .. now - c -> Nat] /\ now - c \in Nat
    <3> HIDE DEF c
    <3> QED
      BY <1>4, <1>5
  <2> HIDE DEF c
  <2> QED
    BY <1>5, <2>1
<1> HIDE DEF more
<1>7. body' = body \o more
  BY <1>2 DEF more
<1>8. /\ Len(body \o more) = total + now
      /\ SubSeq(body \o more, total + 1, total + now) = Prefix(now)
  BY <1>1, <1>2, <1>6, CopiedGoesOn
<1>9. CASE total' = total
  <2>1. Len(body') - total' = now
    BY <1>3, <1>7, <1>8, <1>9
  <2> QED
    BY <1>7, <1>8, <1>9, <2>1 DEF RecvInOrder, Prefix
<1>10. CASE total' = total + now
  <2>1. total' \in Nat /\ Len(body') = total'
    BY <1>3, <1>7, <1>8, <1>10
  <2> DEFINE n == total'
             l == Len(body')
  <2>2. n \in Nat /\ l = n
    BY <2>1
  <2> HIDE DEF n, l
  <2>3. SubSeq(body', n + 1, l) = <<>>
    <3>1. n + 1 \in Int /\ l \in Int /\ l < n + 1
      BY <2>2
    <3> QED
      BY <3>1, SubSeqEmpty, Zenon
  <2>4. [i \in 1 .. l - n |-> i - 1] = <<>>
    BY <2>2
  <2> QED
    BY <2>3, <2>4 DEF RecvInOrder, Prefix, n, l
<1> QED
  BY <1>2, <1>9, <1>10

(* What a step that leaves the stream alone keeps *)
LEMMA ToldKept ==
    ASSUME Told, UNCHANGED <<conn, rcvNxt, acked, heard, una>>
    PROVE  Told'
<1>1. conn' = conn /\ rcvNxt' = rcvNxt /\ acked' = acked /\ heard' = heard /\ una' = una
  OBVIOUS
<1> QED
  BY <1>1, Zenon DEF Told, Ids

LEMMA HeldKept ==
    ASSUME Held, UNCHANGED <<rcvNxt, rx, gotFin>>, st' = st \/ st' # "SYN_SENT"
    PROVE  Held'
BY DEF Held, RxInOrder

LEMMA CopiesKept ==
    ASSUME RecvInOrder, UNCHANGED <<body, total>>
    PROVE  RecvInOrder'
BY DEF RecvInOrder, Prefix

LEMMA CallerStream ==
    ASSUME StreamInv, Caller
    PROVE  Told' /\ PeerKnows' /\ Held' /\ RecvInOrder'
<1>1. TypeOK /\ Told /\ PeerKnows /\ Held /\ RecvInOrder
  BY DEF StreamInv
<1>2. rcvNxt \in Nat /\ conn \in Nat /\ total \in Nat /\ Len(body) \in Nat
  BY <1>1, Sizes DEF TypeOK
<1>3. CASE Connect
  <2>1. /\ conn' = conn + 1 /\ rcvNxt' = 0 /\ rx' = <<>> /\ gotFin' = FALSE
        /\ st' = "SYN_SENT" /\ body' = <<>> /\ total' = 0
        /\ UNCHANGED <<acked, heard, una>>
    BY <1>3 DEF Connect, peers
  <2>2. Told'
    <3>1. heard \subseteq 1 .. conn + 1
      BY <1>1, <1>2 DEF Told
    <3>2. ASSUME NEW c \in Ids, c >= conn + 1 PROVE acked[c] = {}
      <4>1. c > conn
        BY <1>2, <3>2 DEF Ids
      <4> QED
        BY <1>1, <4>1 DEF Told
    <3>3. \A c \in Ids : c > conn + 1 => c >= conn + 1
      BY <1>2 DEF Ids
    <3>4. \A c \in Ids : c = conn + 1 => c >= conn + 1
      BY <1>2 DEF Ids
    <3> QED
      BY <1>1, <2>1, <3>1, <3>2, <3>3, <3>4 DEF Told, Ids
  <2>3. PeerKnows'
    BY <2>1 DEF PeerKnows, Open
  <2>4. Held'
    <3>1. Len(<<>>) = 0 /\ <<>> = Prefix(0)
      BY DEF Prefix
    <3>2. Least(Least(0, Length), RxSize) = 0
      BY Sizes DEF Least
    <3> QED
      BY <2>1, <3>1, <3>2 DEF Held, RxInOrder
  <2>5. RecvInOrder'
    <3>1. SubSeq(<<>>, 0 + 1, Len(<<>>)) = Prefix(Len(<<>>) - 0)
      BY EmptyCopy
    <3> QED
      BY <2>1, <3>1, Zenon DEF RecvInOrder
  <2> QED
    BY <2>2, <2>3, <2>4, <2>5
<1>4. CASE Connected \/ Refused
  <2>1. UNCHANGED <<st, conn, rcvNxt, rx, gotFin, body, total, acked, heard, una>>
    BY <1>4 DEF Connected, Refused, client, peers
  <2> QED
    BY <1>1, <2>1, ToldKept, HeldKept, CopiesKept DEF PeerKnows
<1>5. CASE ConnectTimesOut \/ CloseReturns
  <2>1. st' = "CLOSED" /\ UNCHANGED <<conn, rcvNxt, rx, gotFin, body, total, acked, heard, una>>
    BY <1>5 DEF ConnectTimesOut, CloseReturns, peers
  <2> QED
    BY <1>1, <2>1, ToldKept, HeldKept, CopiesKept DEF PeerKnows, Open
<1> DEFINE now == {rcvNxt}
<1>6. \A a \in now : a <= rcvNxt
  BY <1>2
<1>7. CASE SendRequest
  <2>1. /\ acked' = acked \/ acked' = [acked EXCEPT ![conn] = @ \cup now]
        /\ UNCHANGED <<st, conn, rcvNxt, rx, gotFin, body, total, heard, una>>
    BY <1>7 DEF SendRequest, Acknowledge, client, peers
  <2> HIDE DEF now
  <2>2. Told'
    <3>1. CASE acked' = [acked EXCEPT ![conn] = @ \cup now]
      <4>1. rcvNxt' \in Nat /\ rcvNxt <= rcvNxt' /\ \A a \in now : a <= rcvNxt'
        BY <1>2, <1>6, <2>1
      <4>2. UNCHANGED <<conn, heard, una>>
        BY <2>1
      <4> QED
        BY <1>1, <3>1, <4>1, <4>2, ToldMore
    <3>2. CASE acked' = acked
      <4>1. UNCHANGED <<conn, rcvNxt, acked, heard, una>>
        BY <2>1, <3>2
      <4> QED
        BY <1>1, <4>1, ToldKept
    <3> QED
      BY <2>1, <3>1, <3>2
  <2> QED
    BY <1>1, <2>1, <2>2, HeldKept, CopiesKept DEF PeerKnows
<1>8. CASE Receive
  <2>1. UNCHANGED <<st, conn, rcvNxt, rx, gotFin, acked, heard, una>>
    BY <1>8 DEF Receive, client, peers
  <2>2. RecvInOrder'
    BY <1>8, ReceiveStream
  <2> QED
    BY <1>1, <2>1, <2>2, ToldKept, HeldKept DEF PeerKnows
<1>9. CASE Close
  <2>1. /\ acked' = acked \/ acked' = [acked EXCEPT ![conn] = @ \cup now]
        /\ st' \in {"LAST_ACK", "CLOSED"}
        /\ UNCHANGED <<conn, rcvNxt, rx, gotFin, body, total, heard, una>>
    BY <1>9 DEF Close, Acknowledge, peers
  <2> HIDE DEF now
  <2>2. Told'
    <3>1. CASE acked' = [acked EXCEPT ![conn] = @ \cup now]
      <4>1. rcvNxt' \in Nat /\ rcvNxt <= rcvNxt' /\ \A a \in now : a <= rcvNxt'
        BY <1>2, <1>6, <2>1
      <4>2. UNCHANGED <<conn, heard, una>>
        BY <2>1
      <4> QED
        BY <1>1, <3>1, <4>1, <4>2, ToldMore
    <3>2. CASE acked' = acked
      <4>1. UNCHANGED <<conn, rcvNxt, acked, heard, una>>
        BY <2>1, <3>2
      <4> QED
        BY <1>1, <4>1, ToldKept
    <3> QED
      BY <2>1, <3>1, <3>2
  <2> QED
    BY <1>1, <2>1, <2>2, HeldKept, CopiesKept DEF PeerKnows, Open
<1> QED
  BY <1>3, <1>4, <1>5, <1>7, <1>8, <1>9 DEF Caller

LEMMA PeerStream ==
    ASSUME StreamInv, NEW c \in Ids, PeerHears(c) \/ PeerGetsAck(c)
    PROVE  Told' /\ PeerKnows' /\ Held' /\ RecvInOrder'
<1>1. TypeOK /\ Told /\ PeerKnows /\ Held /\ RecvInOrder
  BY DEF StreamInv
<1>2. UNCHANGED <<st, conn, rcvNxt, rx, gotFin, body, total, acked>>
  BY DEF PeerHears, PeerGetsAck, client, caller
<1>3. CASE PeerHears(c)
  <2>1. heard' = heard \cup {c} /\ c \in 1 .. conn /\ una' = una
    BY <1>1, <1>3 DEF PeerHears, TypeOK, Ids
  <2> QED
    BY <1>1, <1>2, <2>1 DEF Told, PeerKnows, Held, RecvInOrder, RxInOrder, Prefix
<1>4. CASE PeerGetsAck(c)
  <2>1. PICK a \in acked[c] : una' = [una EXCEPT ![c] = a] /\ heard' = heard
    BY <1>4 DEF PeerGetsAck
  <2>2. \A d \in Ids : una'[d] \in acked[d] \cup {-1}
    BY <1>1, <2>1 DEF Told, TypeOK
  <2> QED
    BY <1>1, <1>2, <2>1, <2>2 DEF Told, PeerKnows, Held, RecvInOrder, RxInOrder, Prefix
<1> QED
  BY <1>3, <1>4

LEMMA StreamStep == FinWaits /\ StreamInv /\ [Next]_vars => StreamInv'
<1> SUFFICES ASSUME FinWaits, StreamInv, [Next]_vars PROVE StreamInv'
  OBVIOUS
<1>1. TypeOK'
  BY TcpTypeStep DEF StreamInv
<1>2. Told' /\ PeerKnows' /\ Held' /\ RecvInOrder'
  <2>1. CASE Next
    BY <2>1, CallerStream, PollStream, PeerStream DEF Next
  <2>2. CASE UNCHANGED vars
    <3>1. UNCHANGED <<st, conn, rcvNxt, rx, gotFin, body, total, acked, heard, una>>
      BY <2>2 DEF vars, client, caller, peers
    <3> QED
      BY <3>1, ToldKept, HeldKept, CopiesKept DEF StreamInv, PeerKnows
  <2> QED
    BY <2>1, <2>2
<1> QED
  BY <1>1, <1>2 DEF StreamInv

(* With a peer that holds its FIN until its data is acknowledged, and a    *)
(* network that loses, repeats, delays and reorders as it likes: the       *)
(* buffer is the stream in order, a byte that was acknowledged is kept     *)
(* unless the buffer is full, the end of the stream means all of it, an    *)
(* open connection is one its peer knows of, and a call of net_tcp_recv    *)
(* has copied the stream from its start.                                   *)
THEOREM StreamIsSound ==
    ASSUME FinWaits
    PROVE  Spec => []StreamSound
<1>1. Init => StreamInv
  <2> SUFFICES ASSUME Init PROVE StreamInv
    OBVIOUS
  <2>1. TypeOK
    BY InitTyped
  <2>2. Told
    BY DEF Init, Told, Ids
  <2>3. PeerKnows
    BY DEF Init, PeerKnows, Open
  <2>4. Held
    <3>1. Len(<<>>) = 0 /\ <<>> = Prefix(0)
      BY DEF Prefix
    <3>2. Least(Least(0, Length), RxSize) = 0
      BY Sizes DEF Least
    <3> QED
      BY <3>1, <3>2 DEF Init, Held, RxInOrder
  <2>5. RecvInOrder
    BY EmptyCopy, Zenon DEF Init, RecvInOrder
  <2> QED
    BY <2>1, <2>2, <2>3, <2>4, <2>5 DEF StreamInv
<1>2. StreamInv => StreamSound
  <2> SUFFICES ASSUME StreamInv PROVE StreamSound
    OBVIOUS
  <2>1. TypeOK /\ Told /\ PeerKnows /\ Held /\ RecvInOrder
    BY DEF StreamInv
  <2>2. rcvNxt \in Nat /\ Len(rx) = Least(Least(rcvNxt, Length), RxSize)
    BY <2>1, Sizes DEF TypeOK, Held
  <2>3. AckedIsKept
    <3> SUFFICES ASSUME conn > 0
                 PROVE  Least(una[conn], Length) <= Len(rx) \/ Len(rx) = RxSize
      BY DEF AckedIsKept
    <3>1. conn \in Ids
      BY <2>1 DEF TypeOK, Ids
    <3>2. una[conn] \in -1 .. Length + 1
      BY <2>1, <3>1 DEF TypeOK
    <3>3. una[conn] <= rcvNxt
      BY <2>1, <2>2, <3>1 DEF Told
    <3> QED
      BY <2>2, <3>2, <3>3, Sizes DEF Least
  <2>4. EndMeansAll
    BY <2>1, <2>2, Sizes DEF EndMeansAll, Held, Least
  <2> QED
    BY <2>1, <2>3, <2>4 DEF StreamSound, Held
<1> QED
  BY <1>1, <1>2, StreamStep, PTL DEF Spec

-----------------------------------------------------------------------------
(* Addresses, ping and names: the inductive invariant *)

(* What holds whoever speaks: the answer of a wait is that of its call,    *)
(* and ARP frames come from our /24 only.                                  *)
Answering ==
    /\ call # "ui" => dest \in Hosts
    /\ call = "ping" => pingDest = dest
    /\ call = "ping" /\ pingReply => answered
    /\ call \in {"dns arp", "dns"} => asked \in HostNames
    /\ asked # "none" /\ udp \in HostNames => udp \in arrived
    /\ cache \in Lan \cup {None}
    /\ \A f \in wire : f.kind \in {"arp request", "arp reply"} => f.from \in Lan

(* On a calm network the wire holds only what the call in progress has     *)
(* brought on it, and the answer has come when the wire is empty.          *)
OnlyOurs ==
    /\ call = "ui" => wire = {}
    /\ call \in {"ping arp", "connect arp"} =>
          /\ wire \subseteq ArpRequest(dest)
          /\ dest \in Lan => cache = dest \/ wire # {}
    /\ call = "ping" =>
          /\ wire \subseteq {Frame("echo reply", dest)}
          /\ pingReply \/ wire # {}
          /\ pingReply => wire = {}
    /\ call = "dns arp" => wire \subseteq ArpRequest(Gateway) /\ udp = "none"
    /\ call = "dns" => wire \subseteq ArpRequest(Dns) /\ udp = "none"

NetInv == NetTypeOK /\ Answering /\ (calm => OnlyOurs)

(* On a calm network no lookup ever returns an address.                    *)
NeverResolves == [][calm => ~ Ended({"dns arp", "dns"}, "address")]_netVars

-----------------------------------------------------------------------------
(* Frames *)

LEMMA FrameFields ==
    ASSUME NEW k, NEW h
    PROVE  Frame(k, h).kind = k /\ Frame(k, h).from = h
BY DEF Frame

LEMMA FramesTyped ==
    ASSUME NEW h \in Hosts
    PROVE  /\ \A k \in {"arp request", "arp reply", "echo request", "echo reply"} : Frame(k, h) \in Frames
           /\ \A a \in Answers : Datagram(h, a) \in Frames
           /\ ArpRequest(h) \subseteq Frames
<1>1. \A k \in {"arp request", "arp reply", "echo request", "echo reply"} : Frame(k, h) \in Frames
  BY DEF Frame, Frames
<1>2. \A a \in Answers : Datagram(h, a) \in Frames
  BY DEF Datagram, Frames
<1>3. ArpRequest(h) \subseteq Frames
  BY <1>1 DEF ArpRequest
<1> QED
  BY <1>1, <1>2, <1>3

LEMMA FrameIs ==
    ASSUME NEW f \in Frames, f.kind # "udp"
    PROVE  f = Frame(f.kind, f.from)
<1>1. CASE f \in [kind : {"arp request", "arp reply", "echo request", "echo reply"}, from : Hosts]
  BY <1>1 DEF Frame
<1>2. CASE f \in [kind : {"udp"}, from : Hosts, answer : Answers]
  BY <1>2
<1> QED
  BY <1>1, <1>2 DEF Frames

LEMMA FrameParts ==
    ASSUME NEW f \in Frames
    PROVE  f.from \in Hosts /\ (f.kind = "udp" => f.answer \in Answers)
<1>1. CASE f \in [kind : {"arp request", "arp reply", "echo request", "echo reply"}, from : Hosts]
  BY <1>1
<1>2. CASE f \in [kind : {"udp"}, from : Hosts, answer : Answers]
  BY <1>2
<1> QED
  BY <1>1, <1>2 DEF Frames

LEMMA GatewayHosts ==
    /\ Gateway \in Lan /\ Dns \in Lan /\ Gateway # Dns
    /\ Lan \subseteq Hosts /\ None \notin Hosts /\ Chatty \subseteq Lan
BY HostsAssumption DEF Hosts

(* An ARP request brings at most the reply of its host, which is near. *)
LEMMA ArpReplies ==
    ASSUME NEW h, NEW f \in ArpRequest(h)
    PROVE  f.kind = "arp reply" /\ f.from = h /\ h \in Lan
<1>1. CASE h \in Lan
  <2>1. f = Frame("arp reply", h)
    BY <1>1 DEF ArpRequest
  <2> QED
    BY <1>1, <2>1, FrameFields
<1>2. CASE h \notin Lan
  BY <1>2 DEF ArpRequest
<1> QED
  BY <1>1, <1>2

(* A wait for one reply is over when that reply is handled. *)
LEMMA OneReply ==
    ASSUME NEW h, NEW f \in ArpRequest(h), wire \subseteq ArpRequest(h)
    PROVE  wire \ {f} = {}
BY DEF ArpRequest

-----------------------------------------------------------------------------
(* Handling a frame *)

LEMMA RxTyped ==
    ASSUME NetInv, NEW f \in wire, RxFrame(f), UNCHANGED calm
    PROVE  NetTypeOK'
<1>1. /\ f \in Frames /\ wire \subseteq Frames /\ f.from \in Hosts
      /\ f.kind = "udp" => f.answer \in Answers
  BY FrameParts DEF NetInv, NetTypeOK
<1>2. wire' \subseteq Frames
  <2>1. NextHop(f.from) \in Hosts
    BY <1>1, GatewayHosts DEF NextHop
  <2>2. Send(f.from, {}) \subseteq Frames
    BY <2>1, FramesTyped DEF Send
  <2> QED
    BY <1>1, <2>2 DEF RxFrame
<1>3. UNCHANGED <<call, dest, asked, result>> /\ answered' \in BOOLEAN
  BY DEF RxFrame, NetInv, NetTypeOK
<1>4. cache' \in Hosts \cup {None} /\ pingDest' = pingDest /\ udp' \in Answers \cup {"none"}
  BY <1>1 DEF RxFrame, HandleArp, HandleEchoReply, HandleEchoRequest, HandleUdp, received,
              NetInv, NetTypeOK
<1>5. pingReply' \in BOOLEAN /\ arrived' \subseteq HostNames
  BY DEF RxFrame, HandleArp, HandleEchoReply, HandleEchoRequest, HandleUdp, received,
              NetInv, NetTypeOK
<1> QED
  BY <1>2, <1>3, <1>4, <1>5 DEF NetInv, NetTypeOK

LEMMA RxAnswering ==
    ASSUME NetInv, NEW f \in wire, RxFrame(f), UNCHANGED calm
    PROVE  Answering'
<1>1. f \in Frames /\ f.from \in Hosts /\ NetTypeOK /\ Answering
  BY FrameParts DEF NetInv, NetTypeOK
<1>2. UNCHANGED <<call, dest, asked, result>> /\ pingDest' = pingDest
  BY DEF RxFrame, HandleArp, HandleEchoReply, HandleEchoRequest, HandleUdp, received
<1>3. answered' = (answered \/ f = Frame("echo reply", dest))
  BY DEF RxFrame
<1>4. call = "ping" /\ pingReply' => answered'
  <2>1. pingReply' => pingReply \/ (f.kind = "echo reply" /\ f.from = pingDest)
    BY DEF RxFrame, HandleArp, HandleEchoReply, HandleEchoRequest, HandleUdp, received
  <2>2. f.kind = "echo reply" => f = Frame("echo reply", f.from)
    BY <1>1, FrameIs
  <2> QED
    BY <1>1, <1>3, <2>1, <2>2 DEF Answering
<1>5. asked # "none" /\ udp' \in HostNames => udp' \in arrived'
  <2>1. CASE HandleUdp(f)
    BY <2>1 DEF HandleUdp
  <2>2. CASE UNCHANGED <<udp, arrived>>
    BY <1>1, <2>2 DEF Answering
  <2> QED
    BY <2>1, <2>2 DEF RxFrame, HandleArp, HandleEchoReply, HandleEchoRequest, received
<1>6. cache' \in Lan \cup {None}
  BY <1>1 DEF RxFrame, HandleArp, HandleEchoReply, HandleEchoRequest, HandleUdp, received, Answering
<1>7. \A g \in wire' : g.kind \in {"arp request", "arp reply"} => g.from \in Lan
  <2>1. \A g \in wire' : g \in wire \/ g \in Send(f.from, {})
    BY DEF RxFrame
  <2>2. \A g \in Send(f.from, {}) : g \in ArpRequest(NextHop(f.from))
    BY DEF Send
  <2>3. \A g \in Send(f.from, {}) : g.from \in Lan
    BY <2>2, ArpReplies
  <2> QED
    BY <1>1, <2>1, <2>3 DEF Answering
<1> QED
  BY <1>1, <1>2, <1>4, <1>5, <1>6, <1>7 DEF Answering

LEMMA RxOurs ==
    ASSUME NetInv, NEW f \in wire, RxFrame(f), UNCHANGED calm, calm
    PROVE  OnlyOurs'
<1>1. NetTypeOK /\ Answering /\ OnlyOurs /\ f \in Frames
  BY DEF NetInv, NetTypeOK
<1>2. UNCHANGED <<call, dest, result>>
  BY DEF RxFrame
<1>3. call # "ui"
  BY <1>1 DEF OnlyOurs
<1>4. f.kind # "echo request" => wire' = wire \ {f}
  BY DEF RxFrame
<1>5. CASE call \in {"ping arp", "connect arp"}
  <2>1. wire \subseteq ArpRequest(dest)
    BY <1>1, <1>5 DEF OnlyOurs
  <2>2. f.kind = "arp reply" /\ f.from = dest
    BY <2>1, ArpReplies
  <2>3. wire' = {}
    BY <1>4, <2>1, <2>2, OneReply
  <2>4. cache' = dest
    BY <2>2 DEF RxFrame, HandleArp, HandleEchoReply, HandleEchoRequest, HandleUdp
  <2> QED
    BY <1>2, <1>5, <2>3, <2>4 DEF OnlyOurs
<1>6. CASE call = "ping"
  <2>1. f = Frame("echo reply", dest) /\ wire = {f}
    BY <1>1, <1>6 DEF OnlyOurs
  <2>2. f.kind = "echo reply" /\ f.from = dest
    BY <2>1, FrameFields
  <2>3. wire' = {}
    BY <1>4, <2>1, <2>2
  <2>4. pingReply'
    BY <1>1, <1>6, <2>2 DEF RxFrame, HandleArp, HandleEchoReply, HandleEchoRequest, HandleUdp, Answering
  <2> QED
    BY <1>2, <1>6, <2>3, <2>4 DEF OnlyOurs
<1>7. CASE call \in {"dns arp", "dns"}
  <2>1. PICK h \in {Gateway, Dns} :
           /\ wire \subseteq ArpRequest(h) /\ udp = "none"
           /\ call = "dns arp" => h = Gateway
           /\ call = "dns" => h = Dns
    BY <1>1, <1>7 DEF OnlyOurs
  <2>2. f.kind = "arp reply"
    BY <2>1, ArpReplies
  <2>3. wire' = {}
    BY <1>4, <2>1, <2>2, OneReply
  <2>4. udp' = "none"
    BY <2>1, <2>2 DEF RxFrame, HandleArp, HandleEchoReply, HandleEchoRequest, HandleUdp
  <2> QED
    BY <1>2, <1>7, <2>3, <2>4 DEF OnlyOurs
<1> QED
  BY <1>1, <1>3, <1>5, <1>6, <1>7 DEF NetTypeOK

-----------------------------------------------------------------------------
(* Speaking and calling *)

Near(frames) ==
    /\ frames \subseteq Frames
    /\ \A f \in frames : f.kind \in {"arp request", "arp reply"} => f.from \in Lan

LEMMA ArpNear ==
    ASSUME NEW h \in Hosts
    PROVE  Near(ArpRequest(h))
BY FramesTyped, ArpReplies DEF Near

LEMMA SendNear ==
    ASSUME NEW h \in Hosts, NEW replies, Near(replies)
    PROVE  Near(Send(h, replies))
<1>1. NextHop(h) \in Hosts
  BY GatewayHosts DEF NextHop
<1> QED
  BY <1>1, ArpNear DEF Send

LEMMA BothNear ==
    ASSUME NEW a, NEW b, Near(a), Near(b)
    PROVE  Near(a \cup b)
BY DEF Near

LEMMA WireNear == NetInv => Near(wire)
BY DEF NetInv, NetTypeOK, Answering, Near

LEMMA ChatterStep ==
    ASSUME NetInv, NEW h \in Chatty, Chatter(h), UNCHANGED calm
    PROVE  NetInv'
<1>1. h \in Lan /\ h \in Hosts
  BY GatewayHosts
<1>2. PICK f \in {Frame("arp request", h), Frame("echo request", h)}
                    \cup {Datagram(h, a) : a \in Answers} :
         wire' = wire \cup {f}
  BY DEF Chatter
<1>3. f \in Frames /\ f.from = h
  <2>1. CASE f = Frame("arp request", h) \/ f = Frame("echo request", h)
    BY <1>1, <2>1, FramesTyped, FrameFields
  <2>2. CASE \E a \in Answers : f = Datagram(h, a)
    <3>1. PICK a \in Answers : f = Datagram(h, a)
      BY <2>2
    <3>2. f \in Frames
      BY <1>1, <3>1, FramesTyped
    <3> QED
      BY <3>1, <3>2 DEF Datagram
  <2> QED
    BY <1>2, <2>1, <2>2
<1>4. Near({f})
  BY <1>1, <1>3 DEF Near
<1>5. Near(wire')
  BY <1>2, <1>4, WireNear, BothNear
<1>6. UNCHANGED <<cache, pingDest, pingReply, udp, call, dest, asked, result, answered, arrived>>
  BY DEF Chatter, received
<1>7. ~ calm'
  BY DEF Chatter
<1>8. NetTypeOK'
  <2>1. NetTypeOK /\ wire' \subseteq Frames
    BY <1>5 DEF NetInv, Near
  <2>2. calm' \in BOOLEAN
    BY <2>1 DEF NetTypeOK
  <2> QED
    BY ONLY <2>1, <2>2, <1>6, ZenonT(60) DEF NetTypeOK
<1>9. Answering'
  BY <1>5, <1>6 DEF NetInv, Answering, Near
<1> QED
  BY <1>7, <1>8, <1>9 DEF NetInv

LEMMA EchoStep ==
    ASSUME NetInv, NEW h \in Hosts, cache = h, calm => wire = {},
           SendEcho(h), dest' = h, UNCHANGED <<calm, asked, arrived, result>>
    PROVE  NetInv'
<1>1. NetTypeOK /\ Answering
  BY DEF NetInv
<1>2. h \in Lan
  BY <1>1, GatewayHosts DEF Answering
<1>3. wire' = wire \cup {Frame("echo reply", h)}
  BY <1>2 DEF SendEcho, Send, Sends, NextHop
<1>4. Near({Frame("echo reply", h)})
  <2>1. Frame("echo reply", h) \in Frames /\ Frame("echo reply", h).kind = "echo reply"
    BY FramesTyped, FrameFields
  <2> QED
    BY <2>1 DEF Near
<1>5. Near(wire')
  BY <1>3, <1>4, WireNear, BothNear
<1>6. /\ pingReply' = FALSE /\ pingDest' = h /\ answered' = FALSE /\ call' = "ping"
      /\ UNCHANGED <<cache, udp>>
  BY DEF SendEcho
<1>7. NetTypeOK'
  BY <1>1, <1>5, <1>6 DEF NetTypeOK, Near
<1>8. Answering'
  BY <1>1, <1>5, <1>6 DEF Answering, Near
<1>9. calm' => OnlyOurs'
  BY <1>3, <1>6 DEF OnlyOurs
<1> QED
  BY <1>7, <1>8, <1>9 DEF NetInv

LEMMA PingStep ==
    ASSUME NetInv, NEW h \in Hosts, Ping(h), UNCHANGED calm
    PROVE  NetInv'
<1>1. NetTypeOK /\ Answering /\ call = "ui" /\ dest' = h /\ UNCHANGED <<result, asked, arrived>>
  BY DEF NetInv, Ping
<1>2. calm => wire = {}
  BY <1>1 DEF NetInv, OnlyOurs
<1>3. CASE cache = h /\ SendEcho(h)
  BY <1>1, <1>2, <1>3, EchoStep
<1>4. CASE Resolves(h, "ping arp") /\ UNCHANGED <<received, answered>>
  <2>1. /\ cache # h /\ wire' = wire \cup ArpRequest(h) /\ call' = "ping arp"
        /\ UNCHANGED <<cache, pingDest, pingReply, udp, answered>>
    BY <1>4 DEF Resolves, received
  <2>2. Near(wire')
    BY <2>1, WireNear, ArpNear, BothNear
  <2>3. NetTypeOK'
    BY <1>1, <2>1, <2>2 DEF NetTypeOK, Near
  <2>4. Answering'
    BY <1>1, <2>1, <2>2 DEF Answering, Near
  <2>5. h \in Lan => ArpRequest(h) # {}
    BY DEF ArpRequest
  <2>6. calm' => OnlyOurs'
    BY <1>1, <1>2, <2>1, <2>5 DEF OnlyOurs
  <2> QED
    BY <2>3, <2>4, <2>6 DEF NetInv
<1> QED
  BY <1>3, <1>4 DEF Ping

(* A call that returns leaves a calm wire empty. *)
LEMMA ReturnStep ==
    ASSUME NetInv, NEW r \in {"reply", "address", "syn sent", "failed"}, Returns(r),
           calm => wire = {}, wire' = wire,
           UNCHANGED <<calm, cache, pingDest, pingReply, udp, answered>>, dest' \in Hosts,
           UNCHANGED <<asked, arrived>> \/ (asked' = "none" /\ arrived' = {})
    PROVE  NetInv'
<1>1. NetTypeOK /\ Answering /\ call' = "ui" /\ result' = r
  BY DEF NetInv, Returns
<1>2. NetTypeOK'
  BY <1>1 DEF NetTypeOK
<1>3. Answering'
  BY <1>1 DEF Answering
<1>4. calm' => OnlyOurs'
  BY <1>1 DEF OnlyOurs
<1> QED
  BY <1>2, <1>3, <1>4 DEF NetInv

LEMMA PingResolvedStep ==
    ASSUME NetInv, PingResolved, UNCHANGED calm
    PROVE  NetInv'
<1>1. /\ call = "ping arp" /\ dest \in Hosts /\ UNCHANGED <<dest, asked, arrived>>
      /\ calm => wire = {}
  BY DEF PingResolved, WaitOver, NetInv, Answering
<1>2. CASE cache = dest /\ SendEcho(dest) /\ UNCHANGED result
  <2> DEFINE h == dest
  <2>1. h \in Hosts /\ cache = h /\ SendEcho(h) /\ dest' = h
    BY <1>1, <1>2
  <2> HIDE DEF h
  <2> QED
    BY <1>1, <1>2, <2>1, EchoStep
<1>3. CASE Returns("failed") /\ UNCHANGED <<received, wire, answered>>
  BY <1>1, <1>3, ReturnStep DEF received
<1> QED
  BY <1>2, <1>3 DEF PingResolved

LEMMA PingReturnsStep ==
    ASSUME NetInv, PingReturns, UNCHANGED calm
    PROVE  NetInv'
<1>1. /\ call = "ping" /\ dest \in Hosts
      /\ UNCHANGED <<cache, pingDest, pingReply, udp, dest, asked, wire, answered, arrived>>
  BY DEF PingReturns, received, NetInv, Answering
<1>2. calm => wire = {}
  BY <1>1 DEF PingReturns, WaitOver, NetInv, OnlyOurs
<1>3. Returns("reply") \/ Returns("failed")
  BY DEF PingReturns
<1> QED
  BY <1>1, <1>2, <1>3, ReturnStep

(* What a query brings: nothing but the address of the name server *)
LEMMA QueryBrings ==
    ASSUME NetInv, cache = Gateway
    PROVE  /\ \A n : Send(Dns, {Datagram(Dns, n)}) = ArpRequest(Dns)
           /\ Near(ArpRequest(Dns))
<1>1. ~ Sends(Dns)
  BY GatewayHosts DEF Sends, NextHop
<1>2. \A n : Send(Dns, {Datagram(Dns, n)}) = ArpRequest(Dns)
  BY <1>1, GatewayHosts DEF Send, NextHop
<1> QED
  BY <1>2, GatewayHosts, ArpNear

LEMMA LookupStep ==
    ASSUME NetInv, NEW n \in HostNames, Lookup(n), UNCHANGED calm
    PROVE  NetInv'
<1>1. /\ NetTypeOK /\ Answering /\ call = "ui" /\ dest' = Dns /\ udp' = "none" /\ asked' = n
      /\ UNCHANGED <<cache, pingDest, pingReply, result, answered, arrived>>
  BY DEF NetInv, Lookup
<1>2. calm => wire = {}
  BY <1>1 DEF NetInv, OnlyOurs
<1>3. PICK h \in {Gateway, Dns} :
         /\ wire' = wire \cup ArpRequest(h)
         /\ call' = IF h = Gateway THEN "dns arp" ELSE "dns"
  <2>1. CASE Resolves(Gateway, "dns arp")
    BY <2>1 DEF Resolves
  <2>2. CASE cache = Gateway /\ SendQuery(n)
    BY <2>2, QueryBrings, GatewayHosts DEF SendQuery
  <2> QED
    BY <2>1, <2>2 DEF Lookup
<1>4. Near(wire')
  BY <1>3, GatewayHosts, WireNear, ArpNear, BothNear
<1>5. NetTypeOK'
  BY <1>1, <1>3, <1>4, GatewayHosts DEF NetTypeOK, Near
<1>6. Answering'
  BY <1>1, <1>3, <1>4, GatewayHosts, NamesAssumption DEF Answering, Near
<1>7. calm' => OnlyOurs'
  BY <1>1, <1>2, <1>3 DEF OnlyOurs
<1> QED
  BY <1>5, <1>6, <1>7 DEF NetInv

LEMMA LookupResolvedStep ==
    ASSUME NetInv, LookupResolved, UNCHANGED calm
    PROVE  NetInv'
<1>1. /\ NetTypeOK /\ Answering /\ call = "dns arp" /\ dest \in Hosts
      /\ UNCHANGED <<cache, pingDest, pingReply, udp, dest, answered>>
      /\ calm => wire = {}
  BY DEF NetInv, LookupResolved, WaitOver, received, Answering
<1>2. CASE cache = Gateway /\ SendQuery(asked) /\ UNCHANGED <<result, asked, arrived>>
  <2>1. wire' = wire \cup ArpRequest(Dns) /\ Near(ArpRequest(Dns)) /\ call' = "dns"
    BY <1>2, QueryBrings DEF SendQuery
  <2>2. Near(wire')
    BY <2>1, WireNear, BothNear
  <2>3. NetTypeOK'
    BY <1>1, <1>2, <2>1, <2>2 DEF NetTypeOK, Near
  <2>4. Answering'
    BY <1>1, <1>2, <2>1, <2>2 DEF Answering, Near
  <2>5. calm' => OnlyOurs'
    BY <1>1, <2>1 DEF OnlyOurs, NetInv
  <2> QED
    BY <2>3, <2>4, <2>5 DEF NetInv
<1>3. CASE LookupEnds("failed") /\ UNCHANGED wire
  BY <1>1, <1>3, ReturnStep DEF LookupEnds
<1> QED
  BY <1>2, <1>3 DEF LookupResolved

LEMMA LookupReturnsStep ==
    ASSUME NetInv, LookupReturns, UNCHANGED calm
    PROVE  NetInv'
<1>1. /\ call = "dns" /\ dest \in Hosts
      /\ UNCHANGED <<cache, pingDest, pingReply, udp, dest, wire, answered>>
  BY DEF LookupReturns, received, NetInv, Answering
<1>2. calm => wire = {}
  BY <1>1 DEF LookupReturns, WaitOver, NetInv, OnlyOurs
<1>3. /\ Returns("address") \/ Returns("failed")
      /\ asked' = "none" /\ arrived' = {}
  BY DEF LookupReturns, LookupEnds
<1> QED
  BY <1>1, <1>2, <1>3, ReturnStep

LEMMA SynStep ==
    ASSUME NetInv, NEW h \in Hosts, cache = h, SendSyn(h), calm => wire = {}, dest' = h,
           UNCHANGED <<calm, cache, pingDest, pingReply, udp, asked, answered, arrived>>
    PROVE  NetInv'
<1>1. h \in Lan
  BY GatewayHosts DEF NetInv, Answering
<1>2. wire' = wire
  BY <1>1 DEF SendSyn, Send, Sends, NextHop
<1>3. Returns("syn sent") \/ Returns("failed")
  BY DEF SendSyn
<1> QED
  BY <1>2, <1>3, ReturnStep

LEMMA ConnectToStep ==
    ASSUME NetInv, NEW h \in Hosts, ConnectTo(h), UNCHANGED calm
    PROVE  NetInv'
<1>1. /\ NetTypeOK /\ Answering /\ call = "ui" /\ dest' = h
      /\ UNCHANGED <<cache, pingDest, pingReply, udp, asked, answered, arrived>>
  BY DEF NetInv, ConnectTo, received
<1>2. calm => wire = {}
  BY <1>1 DEF NetInv, OnlyOurs
<1>3. CASE cache = h /\ SendSyn(h)
  BY <1>1, <1>2, <1>3, SynStep
<1>4. CASE Resolves(h, "connect arp") /\ UNCHANGED result
  <2>1. cache # h /\ wire' = wire \cup ArpRequest(h) /\ call' = "connect arp"
    BY <1>4 DEF Resolves
  <2>2. Near(wire')
    BY <2>1, WireNear, ArpNear, BothNear
  <2>3. NetTypeOK'
    BY <1>1, <1>4, <2>1, <2>2 DEF NetTypeOK, Near
  <2>4. Answering'
    BY <1>1, <2>1, <2>2 DEF Answering, Near
  <2>5. h \in Lan => ArpRequest(h) # {}
    BY DEF ArpRequest
  <2>6. calm' => OnlyOurs'
    BY <1>1, <1>2, <2>1, <2>5 DEF OnlyOurs
  <2> QED
    BY <2>3, <2>4, <2>6 DEF NetInv
<1> QED
  BY <1>3, <1>4 DEF ConnectTo

LEMMA ConnectResolvedStep ==
    ASSUME NetInv, ConnectResolved, UNCHANGED calm
    PROVE  NetInv'
<1>1. /\ dest \in Hosts
      /\ calm => wire = {}
      /\ UNCHANGED <<cache, pingDest, pingReply, udp, dest, asked, answered, arrived>>
  BY DEF ConnectResolved, WaitOver, received, NetInv, Answering
<1>2. CASE cache = dest /\ SendSyn(dest)
  <2> DEFINE h == dest
  <2>1. h \in Hosts /\ dest' = h
    BY <1>1
  <2>2. cache = h /\ SendSyn(h)
    BY <1>2
  <2> HIDE DEF h
  <2> QED
    BY <1>1, <2>1, <2>2, SynStep
<1>3. CASE Returns("failed") /\ UNCHANGED wire
  <2>1. wire' = wire /\ dest' \in Hosts
    BY <1>1, <1>3
  <2> QED
    BY <1>1, <1>3, <2>1, ReturnStep
<1> QED
  BY <1>2, <1>3 DEF ConnectResolved

LEMMA NetStep == NetInv /\ [NetNext]_netVars => NetInv'
<1> SUFFICES ASSUME NetInv, [NetNext]_netVars PROVE NetInv'
  OBVIOUS
<1>1. CASE NetNext
  <2>1. UNCHANGED calm
    BY <1>1 DEF NetNext
  <2>2. CASE Begin
    BY <2>1, <2>2, LookupStep, PingStep, ConnectToStep DEF Begin
  <2>3. CASE Waiting
    BY <2>1, <2>3, PingResolvedStep, PingReturnsStep, LookupResolvedStep, LookupReturnsStep,
       ConnectResolvedStep DEF Waiting
  <2>4. CASE Arriving
    <3>1. PICK f \in wire : RxFrame(f)
      BY <2>4 DEF Arriving
    <3>2. NetTypeOK' /\ Answering' /\ (calm' => OnlyOurs')
      BY <2>1, <3>1, RxTyped, RxAnswering, RxOurs
    <3> QED
      BY <3>2 DEF NetInv
  <2>5. CASE \E h \in Chatty : Chatter(h)
    BY <2>1, <2>5, ChatterStep
  <2> QED
    BY <1>1, <2>2, <2>3, <2>4, <2>5 DEF NetNext
<1>2. CASE UNCHANGED netVars
  <2>1. /\ UNCHANGED <<calm, cache, pingDest, pingReply, udp>>
        /\ UNCHANGED <<call, dest, asked, result, wire, answered, arrived>>
    BY <1>2 DEF netVars, received
  <2>2. NetTypeOK'
    BY <2>1, ZenonT(60) DEF NetInv, NetTypeOK
  <2>3. Answering'
    BY <2>1 DEF NetInv, Answering
  <2>4. calm' => OnlyOurs'
    BY <2>1 DEF NetInv, OnlyOurs
  <2> QED
    BY <2>2, <2>3, <2>4 DEF NetInv
<1> QED
  BY <1>1, <1>2

LEMMA NetInvariant == NetSpec => []NetInv
<1>1. NetInit => NetInv
  BY DEF NetInit, NetInv, NetTypeOK, Answering, OnlyOurs
<1> QED
  BY <1>1, NetStep, PTL DEF NetSpec

-----------------------------------------------------------------------------
(* What the calls report *)

(* A step that ends a wait is a step of the call in that wait. *)
LEMMA WhoEnds ==
    ASSUME NetNext, NEW r, NEW from, Ended(from, r), "ui" \notin from
    PROVE  \/ call = "ping arp" /\ PingResolved
           \/ call = "ping" /\ PingReturns
           \/ call = "dns arp" /\ LookupResolved
           \/ call = "dns" /\ LookupReturns
           \/ call = "connect arp" /\ ConnectResolved
<1>1. call # "ui" /\ call' = "ui"
  BY DEF Ended
<1>2. ~ Begin
  BY <1>1 DEF Begin, Lookup, Ping, ConnectTo
<1>3. ~ Arriving /\ ~ \E h \in Chatty : Chatter(h)
  BY <1>1 DEF Arriving, RxFrame, Chatter
<1>4. Waiting
  BY <1>2, <1>3 DEF NetNext
<1> QED
  BY <1>4 DEF Waiting, PingResolved, PingReturns, LookupResolved, LookupReturns, ConnectResolved

LEMMA PingHonestStep ==
    ASSUME NetInv, NetNext, Ended({"ping"}, "reply")
    PROVE  answered
<1>1. call = "ping"
  BY DEF Ended
<1>2. PingReturns
  BY <1>1, WhoEnds
<1>3. pingReply
  BY <1>2 DEF PingReturns, Returns, Ended
<1> QED
  BY <1>1, <1>3 DEF NetInv, Answering

LEMMA LookupFreshStep ==
    ASSUME NetInv, NetNext, Ended({"dns"}, "address")
    PROVE  udp \in arrived
<1>1. call = "dns"
  BY DEF Ended
<1>2. LookupReturns
  BY <1>1, WhoEnds
<1>3. udp \in HostNames
  BY <1>2 DEF LookupReturns, LookupEnds, Returns, Ended
<1>4. asked # "none"
  BY <1>1, NamesAssumption DEF NetInv, Answering
<1> QED
  BY <1>3, <1>4 DEF NetInv, Answering

LEMMA PingReachesStep ==
    ASSUME NetInv, NetNext, calm, Ended({"ping arp", "ping"}, "failed")
    PROVE  dest \notin Lan
<1>1. OnlyOurs
  BY DEF NetInv
<1>2. CASE call = "ping arp"
  <2>1. PingResolved
    BY <1>2, WhoEnds
  <2>2. wire = {} /\ cache # dest
    BY <2>1 DEF PingResolved, WaitOver, SendEcho, Ended
  <2> QED
    BY <1>1, <1>2, <2>2 DEF OnlyOurs
<1>3. CASE call = "ping"
  <2>1. PingReturns
    BY <1>3, WhoEnds
  <2>2. ~ pingReply /\ wire = {}
    BY <2>1 DEF PingReturns, WaitOver, Returns, Ended
  <2> QED
    BY <1>1, <1>3, <2>2 DEF OnlyOurs
<1> QED
  BY <1>2, <1>3 DEF Ended

LEMMA NeverResolvesStep ==
    ASSUME NetInv, NetNext, calm
    PROVE  ~ Ended({"dns arp", "dns"}, "address")
<1> SUFFICES ASSUME Ended({"dns arp", "dns"}, "address") PROVE FALSE
  OBVIOUS
<1>1. OnlyOurs
  BY DEF NetInv
<1>2. CASE call = "dns arp"
  <2>1. LookupResolved
    BY <1>2, WhoEnds
  <2> QED
    BY <2>1 DEF LookupResolved, SendQuery, LookupEnds, Returns, Ended
<1>3. CASE call = "dns"
  <2>1. LookupReturns /\ udp = "none"
    BY <1>1, <1>3, WhoEnds DEF OnlyOurs
  <2> QED
    BY <2>1, NamesAssumption DEF LookupReturns, LookupEnds, Returns, Ended
<1> QED
  BY <1>2, <1>3 DEF Ended

(* For any hosts and names, whoever speaks unasked and whatever answers    *)
(* late: a ping reports a reply only if one of its own destination came; a *)
(* lookup returns no address that came before it began, and that of        *)
(* another name only if it came meanwhile; and on a calm network a ping of *)
(* our /24 gets its reply, whatever the one entry of the cache held.       *)
THEOREM AnswersAreFresh == NetSpec => AnswersFresh
<1>1. NetInv /\ [NetNext]_netVars => [Ended({"ping"}, "reply") => answered]_netVars
  BY PingHonestStep
<1>2. NetInv /\ [NetNext]_netVars => [Ended({"dns"}, "address") =>
         udp \in arrived /\ (udp = asked \/ arrived # {asked})]_netVars
  BY LookupFreshStep
<1>3. NetInv /\ [NetNext]_netVars =>
         [calm /\ Ended({"ping arp", "ping"}, "failed") => dest \notin Lan]_netVars
  BY PingReachesStep
<1> QED
  BY <1>1, <1>2, <1>3, NetInvariant, PTL
     DEF NetSpec, AnswersFresh, PingHonest, LookupFresh, PingReaches

(* The one entry of the ARP cache never lets a query through: with a name  *)
(* server on our own /24, no lookup on a calm network returns an address,  *)
(* however often it is tried and whatever was pinged before.               *)
THEOREM NoNameResolves == NetSpec => NeverResolves
<1>1. NetInv /\ [NetNext]_netVars =>
         [calm => ~ Ended({"dns arp", "dns"}, "address")]_netVars
  BY NeverResolvesStep
<1> QED
  BY <1>1, NetInvariant, PTL DEF NetSpec, NeverResolves

(* The state of the calls is of its type, whoever speaks.                  *)
THEOREM NetTyped == NetSpec => []NetTypeOK
<1>1. NetInv => NetTypeOK
  BY DEF NetInv
<1> QED
  BY <1>1, NetInvariant, PTL

-----------------------------------------------------------------------------
(* Sums of the lengths of frames *)

LEMMA LeastOf ==
    ASSUME NEW S \in SUBSET Nat, S # {}
    PROVE  \E n \in S : \A m \in S : n <= m
<1>1. PICK n \in S : \A m \in S : ~ (<<m, n>> \in OpToRel(<, Nat))
  BY NatLessThanWellFounded, WFMin, Zenon
<1>2. ASSUME NEW m \in S PROVE n <= m
  <2>1. n \in Nat /\ m \in Nat
    OBVIOUS
  <2>2. ~ (m < n)
    BY <1>1, <2>1 DEF OpToRel
  <2> QED
    BY <2>1, <2>2
<1> QED
  BY <1>2

(* f[i] is the length of the first i frames of s. *)
Sums(f, s, n) == f = [i \in 0 .. n |-> IF i = 0 THEN 0 ELSE f[i - 1] + s[i]]

LEMMA SumsExist ==
    ASSUME NEW s, NEW n \in Nat
    PROVE  \E f : Sums(f, s, n)
<1> DEFINE Bad == {m \in Nat : ~ \E f : Sums(f, s, m)}
<1>1. CASE Bad = {}
  BY <1>1
<1>2. CASE Bad # {}
  <2>1. PICK m \in Bad : \A j \in Bad : m <= j
    <3>1. Bad \in SUBSET Nat
      OBVIOUS
    <3> HIDE DEF Bad
    <3> QED
      BY <1>2, <3>1, LeastOf
  <2>2. m # 0
    <3> DEFINE f == [k \in 0 .. 0 |-> 0]
    <3>1. Sums(f, s, 0)
      BY DEF Sums
    <3> HIDE DEF f
    <3> QED
      BY <2>1, <3>1
  <2>3. m \in Nat /\ m - 1 \in Nat /\ m - 1 \notin Bad
    <3>1. m \in Nat /\ m - 1 \in Nat /\ ~ (m <= m - 1)
      BY <2>1, <2>2
    <3> HIDE DEF Bad
    <3> QED
      BY <2>1, <3>1
  <2>4. PICK f : Sums(f, s, m - 1)
    BY <2>3
  <2> DEFINE g == [k \in 0 .. m |-> IF k < m THEN f[k] ELSE f[m - 1] + s[m]]
  <2>5. \A k \in 0 .. m - 1 : f[k] = IF k = 0 THEN 0 ELSE f[k - 1] + s[k]
    BY <2>4 DEF Sums
  <2>6. ASSUME NEW k \in 0 .. m
        PROVE  g[k] = IF k = 0 THEN 0 ELSE g[k - 1] + s[k]
    <3>1. CASE k = m
      <4>1. g[k] = f[m - 1] + s[m] /\ g[k - 1] = f[m - 1]
        BY <2>2, <2>3, <3>1
      <4> HIDE DEF g
      <4> QED
        BY <2>2, <3>1, <4>1
    <3>2. CASE k # m
      <4>1. k \in 0 .. m - 1 /\ g[k] = f[k] /\ (k # 0 => g[k - 1] = f[k - 1])
        BY <2>3, <3>2
      <4> HIDE DEF g
      <4> QED
        BY <2>5, <4>1
    <3> QED
      BY <3>1, <3>2
  <2>7. g = [k \in 0 .. m |-> g[k]]
    OBVIOUS
  <2> HIDE DEF g
  <2>8. Sums(g, s, m)
    BY <2>6, <2>7 DEF Sums
  <2> QED
    BY <2>1, <2>8
<1> QED
  BY <1>1, <1>2

(* Where frame i + 1 of s begins, counted on without end *)
Starts(s) == CHOOSE f : f = [i \in 0 .. Len(s) |-> IF i = 0 THEN 0 ELSE f[i - 1] + s[i]]

LEMMA StartsAre ==
    ASSUME NEW s, Len(s) \in Nat
    PROVE  /\ Starts(s)[0] = 0
           /\ \A i \in 1 .. Len(s) : Starts(s)[i] = Starts(s)[i - 1] + s[i]
<1> DEFINE n == Len(s)
<1>1. Sums(Starts(s), s, n)
  <2> HIDE DEF n
  <2>1. \E f : Sums(f, s, n)
    BY SumsExist DEF n
  <2> QED
    BY <2>1, Zenon DEF Sums, Starts, n
<1>2. \A i \in 0 .. n : Starts(s)[i] = IF i = 0 THEN 0 ELSE Starts(s)[i - 1] + s[i]
  <2> DEFINE f == Starts(s)
  <2>1. f = [i \in 0 .. n |-> IF i = 0 THEN 0 ELSE f[i - 1] + s[i]]
    BY <1>1, Zenon DEF Sums
  <2> HIDE DEF f, n
  <2>2. \A i \in 0 .. n : f[i] = IF i = 0 THEN 0 ELSE f[i - 1] + s[i]
    BY <2>1
  <2> QED
    BY <2>2 DEF f
<1> HIDE DEF n
<1>3. n \in Nat
  BY DEF n
<1> QED
  BY <1>2, <1>3 DEF n

(* Frames lie one behind the other. *)
LEMMA StartsRise ==
    ASSUME NEW s \in Seq(Nat \ {0})
    PROVE  /\ \A i \in 0 .. Len(s) : Starts(s)[i] \in Nat
           /\ \A i, j \in 0 .. Len(s) : i < j => Starts(s)[i] + s[i + 1] <= Starts(s)[j]
<1> DEFINE f == Starts(s)
           n == Len(s)
<1>1. n \in Nat /\ \A i \in 1 .. n : s[i] \in Nat /\ s[i] > 0
  OBVIOUS
<1>2. f[0] = 0 /\ \A i \in 1 .. n : f[i] = f[i - 1] + s[i]
  BY <1>1, StartsAre
<1> HIDE DEF f, n
<1>3. \A i \in 0 .. n : f[i] \in Nat
  <2> DEFINE Bad == {i \in 0 .. n : f[i] \notin Nat}
  <2>1. ASSUME Bad # {} PROVE FALSE
    <3>1. PICK m \in Bad : \A j \in Bad : m <= j
      <4>1. Bad \in SUBSET Nat
        OBVIOUS
      <4> HIDE DEF Bad
      <4> QED
        BY <2>1, <4>1, LeastOf
    <3>2. m \in 0 .. n /\ f[m] \notin Nat /\ m # 0
      BY <1>2
    <3>3. m \in 1 .. n /\ m - 1 \in 0 .. n /\ ~ (m <= m - 1)
      BY <1>1, <3>2
    <3>4. f[m - 1] \in Nat
      BY <3>1, <3>3
    <3> QED
      BY <1>1, <1>2, <3>2, <3>3, <3>4
  <2> QED
    BY <2>1
<1>4. ASSUME NEW i \in 0 .. n
      PROVE  \A j \in 0 .. n : i < j => f[i] + s[i + 1] <= f[j]
  <2> DEFINE Bad == {j \in 0 .. n : i < j /\ ~ (f[i] + s[i + 1] <= f[j])}
  <2>1. ASSUME Bad # {} PROVE FALSE
    <3>1. PICK m \in Bad : \A j \in Bad : m <= j
      <4>1. Bad \in SUBSET Nat
        OBVIOUS
      <4> HIDE DEF Bad
      <4> QED
        BY <2>1, <4>1, LeastOf
    <3>2. m \in 0 .. n /\ i < m /\ ~ (f[i] + s[i + 1] <= f[m])
      OBVIOUS
    <3>3. m \in 1 .. n /\ m - 1 \in 0 .. n /\ ~ (m <= m - 1) /\ i \in Nat /\ m \in Nat
      BY <1>1, <3>2
    <3>4. f[m] = f[m - 1] + s[m] /\ s[m] \in Nat /\ f[m - 1] \in Nat
      BY <1>1, <1>2, <1>3, <3>3
    <3>5. CASE i = m - 1
      <4>1. i + 1 = m
        BY <3>3, <3>5
      <4> QED
        BY <3>2, <3>4, <3>5, <4>1
    <3>6. CASE i # m - 1
      <4>1. i < m - 1 /\ i + 1 \in 1 .. n
        BY <1>1, <3>2, <3>3, <3>6
      <4>2. f[i] + s[i + 1] <= f[m - 1]
        BY <3>1, <3>3, <4>1
      <4>3. f[i] \in Nat /\ s[i + 1] \in Nat
        BY <1>1, <1>3, <4>1
      <4> QED
        BY <3>2, <3>4, <4>2, <4>3
    <3> QED
      BY <3>5, <3>6
  <2> QED
    BY <2>1
<1> QED
  BY <1>3, <1>4 DEF f, n

(* A frame more leaves the others where they are. *)
LEMMA StartsKept ==
    ASSUME NEW s \in Seq(Nat \ {0}), NEW x \in Nat \ {0}
    PROVE  /\ \A i \in 0 .. Len(s) : Starts(Append(s, x))[i] = Starts(s)[i]
           /\ Starts(Append(s, x))[Len(s) + 1] = Starts(s)[Len(s)] + x
<1> DEFINE t == Append(s, x)
           f == Starts(s)
           g == Starts(t)
           n == Len(s)
<1>1. n \in Nat /\ Len(t) = n + 1 /\ t[n + 1] = x /\ \A i \in 1 .. n : t[i] = s[i]
  BY AppendProperties
<1>2. f[0] = 0 /\ \A i \in 1 .. n : f[i] = f[i - 1] + s[i]
  BY <1>1, StartsAre
<1>3. g[0] = 0 /\ \A i \in 1 .. n + 1 : g[i] = g[i - 1] + t[i]
  <2> HIDE DEF t
  <2>1. Len(t) \in Nat
    BY <1>1
  <2> QED
    BY <1>1, <2>1, StartsAre
<1> HIDE DEF f, g, t, n
<1>4. \A i \in 0 .. n : g[i] = f[i]
  <2> DEFINE Bad == {i \in 0 .. n : g[i] # f[i]}
  <2>1. ASSUME Bad # {} PROVE FALSE
    <3>1. PICK m \in Bad : \A j \in Bad : m <= j
      <4>1. Bad \in SUBSET Nat
        OBVIOUS
      <4> HIDE DEF Bad
      <4> QED
        BY <2>1, <4>1, LeastOf
    <3>2. m \in 0 .. n /\ g[m] # f[m] /\ m # 0
      BY <1>2, <1>3
    <3>3. m \in 1 .. n /\ m \in 1 .. n + 1 /\ m - 1 \in 0 .. n /\ ~ (m <= m - 1)
      BY <1>1, <3>2
    <3>4. g[m - 1] = f[m - 1]
      BY <3>1, <3>3
    <3> QED
      BY <1>1, <1>2, <1>3, <3>2, <3>3, <3>4
  <2> QED
    BY <2>1
<1>5. g[n + 1] = f[n] + x
  <2>1. n + 1 \in 1 .. n + 1 /\ (n + 1) - 1 = n /\ n \in 0 .. n
    BY <1>1
  <2> QED
    BY <1>1, <1>3, <1>4, <2>1
<1> QED
  BY <1>4, <1>5 DEF f, g, t, n

-----------------------------------------------------------------------------
(* The first lap of the driver                                             *)

(* A place of the endless tape, in the ring, on one lap or the next        *)
Wrap(x) == IF x < RingUnits THEN x ELSE x - RingUnits

(* The frames not yet taken lie one behind the other from where the driver *)
(* stands, and on over the end of the ring.                                *)
Lap ==
    LET start == Starts(stored)
        taken == Len(delivered)
    IN  /\ taken <= Len(stored) /\ start[taken] <= LapEnd
        /\ start[Len(stored)] < start[taken] + RingUnits
        /\ wr = Wrap(start[Len(stored)]) /\ off = start[taken] /\ capr = start[taken]
        /\ \A i \in taken + 1 .. Len(stored), p \in Nat :
              p < stored[i] => ring[Wrap(start[i - 1] + p)] = Unit(i, p, stored[i])

(* The lap has ended with one of the frames given. *)
Over == \E e \in 1 .. Len(delivered) : e <= Len(stored) /\ Starts(stored)[e] > LapEnd

Order ==
    \A i \in 1 .. Len(delivered) :
        i <= Len(stored) /\ Starts(stored)[i - 1] <= LapEnd
          => delivered[i] = [frame |-> i, whole |-> Starts(stored)[i] <= RingUnits]

IsSeq(s) == \E S : s \in Seq(S)

CardInv ==
    /\ stored \in Seq(FrameUnits) /\ DOMAIN ring = Units
    /\ IsSeq(delivered) /\ Order
    /\ Lap \/ Over

LEMMA Lengths ==
    ASSUME CardAssumption, CardInv
    PROVE  /\ stored \in Seq(Nat \ {0}) /\ Len(stored) \in Nat
           /\ \A i \in 1 .. Len(stored) :
                 stored[i] \in Nat /\ stored[i] > 1 /\ stored[i] < RingUnits
           /\ RingUnits \in Nat /\ Margin \in Nat /\ 0 < Margin /\ Margin < RingUnits
           /\ Len(delivered) \in Nat
<1>1. stored \in Seq(FrameUnits) /\ FrameUnits \subseteq 2 .. RingUnits - 1
  BY DEF CardAssumption, CardInv
<1>2. RingUnits \in Nat /\ Margin \in Nat /\ 0 < Margin /\ Margin < RingUnits
  BY DEF CardAssumption
<1>3. \A n \in FrameUnits : n \in Nat \ {0} /\ n > 1 /\ n < RingUnits
  BY <1>1, <1>2
<1>4. \A i \in 1 .. Len(stored) : stored[i] \in FrameUnits
  BY <1>1
<1>5. stored \in Seq(Nat \ {0})
  <2>1. /\ Len(stored) \in Nat /\ stored = [i \in 1 .. Len(stored) |-> stored[i]]
        /\ \A i \in 1 .. Len(stored) : stored[i] \in Nat \ {0}
    BY <1>1, <1>3, <1>4
  <2> QED
    BY <2>1, SeqDef
<1>6. Len(delivered) \in Nat
  BY DEF CardInv, IsSeq
<1> QED
  BY <1>1, <1>2, <1>3, <1>4, <1>5, <1>6

LEMMA BeginsAre == Begins = Starts(stored)
BY Zenon DEF Begins, Starts

(* What lies later on the tape begins later. *)
LEMMA StartsOrdered ==
    ASSUME NEW s \in Seq(Nat \ {0}), NEW i \in 0 .. Len(s), NEW j \in 0 .. Len(s), i <= j
    PROVE  Starts(s)[i] <= Starts(s)[j] /\ (i < j => Starts(s)[i] < Starts(s)[j])
<1>1. /\ Starts(s)[i] \in Nat /\ Starts(s)[j] \in Nat
      /\ i < j => Starts(s)[i] + s[i + 1] <= Starts(s)[j]
  BY StartsRise
<1>2. CASE i = j
  BY <1>1, <1>2
<1>3. CASE i < j
  <2>1. i + 1 \in 1 .. Len(s)
    BY <1>3
  <2>2. s[i + 1] \in Nat /\ s[i + 1] > 0
    BY <2>1
  <2> DEFINE a == Starts(s)[i]
             b == Starts(s)[j]
             x == s[i + 1]
  <2>3. a \in Nat /\ b \in Nat /\ x \in Nat /\ x > 0 /\ a + x <= b
    BY <1>1, <1>3, <2>2
  <2> HIDE DEF a, b, x
  <2>4. a < b /\ a <= b
    BY <2>3
  <2> QED
    BY <2>4 DEF a, b
<1> QED
  BY <1>2, <1>3

LEMMA OverEnds ==
    ASSUME CardAssumption, CardInv, Over
    PROVE  /\ ~InLap
           /\ \A i \in 1 .. Len(stored) : i > Len(delivered) => Starts(stored)[i - 1] > LapEnd
<1> DEFINE f == Starts(stored)
           k == Len(stored)
           taken == Len(delivered)
<1>1. PICK e \in 1 .. taken : e <= k /\ f[e] > LapEnd
  BY DEF Over
<1>2. stored \in Seq(Nat \ {0}) /\ k \in Nat /\ taken \in Nat
  BY Lengths
<1>3. LapEnd \in Int /\ \A i \in 0 .. k : f[i] \in Nat
  BY <1>2, Lengths, StartsRise DEF LapEnd
<1>4. ASSUME NEW j \in 0 .. k, e <= j PROVE f[j] > LapEnd
  <2>1. e \in 0 .. k
    BY <1>1, <1>2
  <2>2. f[e] <= f[j]
    BY <1>2, <1>4, <2>1, StartsOrdered
  <2> HIDE DEF f
  <2> QED
    BY <1>1, <1>3, <2>1, <2>2
<1> HIDE DEF f, k, taken
<1>5. ~InLap
  <2> SUFFICES ASSUME taken <= k, f[taken] <= LapEnd PROVE FALSE
    BY BeginsAre DEF InLap, f, k, taken
  <2>1. taken \in 0 .. k /\ e <= taken
    BY <1>1, <1>2
  <2> QED
    BY <1>3, <1>4, <2>1
<1>6. ASSUME NEW i \in 1 .. k, i > taken PROVE f[i - 1] > LapEnd
  <2>1. i - 1 \in 0 .. k /\ e <= i - 1
    BY <1>1, <1>2, <1>6
  <2> QED
    BY <1>4, <2>1
<1> QED
  BY <1>5, <1>6 DEF f, k, taken

LEMMA Mod ==
    ASSUME NEW a \in Nat, NEW m \in Nat, a < m
    PROVE  a % m = a /\ (a + m) % m = a
<1>1. a % m = a
  OBVIOUS
<1>2. (a + m) % m = a
  OBVIOUS
<1> QED
  BY <1>1, <1>2

(* Places of the tape from t up to w, and those of a frame of n behind w   *)
(* that ends before the driver comes round, as the card counts them        *)
LEMMA Places ==
    ASSUME NEW R \in Nat, R = RingUnits, NEW t \in Nat, NEW w \in Nat, NEW n \in Nat,
           t < R, 1 < n, t <= w, w + n <= t + R
    PROVE  /\ \A p \in Nat : p < n =>
                 Wrap(w + p) \in Units /\ (Wrap(w + p) - Wrap(w) + R) % R = p
           /\ \A x \in Nat : t <= x /\ x < w =>
                 Wrap(x) \in Units /\ ~ ((Wrap(x) - Wrap(w) + R) % R < n)
           /\ (Wrap(w) + n) % R = Wrap(w + n)
<1>1. ASSUME NEW p \in Nat, p < n
      PROVE  Wrap(w + p) \in Units /\ (Wrap(w + p) - Wrap(w) + R) % R = p
  <2>1. Wrap(w + p) \in Units
    BY <1>1 DEF Wrap, Units
  <2>2. p < R
    BY <1>1
  <2>3. Wrap(w + p) - Wrap(w) + R = p \/ Wrap(w + p) - Wrap(w) + R = p + R
    BY <1>1 DEF Wrap
  <2> QED
    BY <2>1, <2>2, <2>3, Mod
<1>2. ASSUME NEW x \in Nat, t <= x, x < w
      PROVE  Wrap(x) \in Units /\ ~ ((Wrap(x) - Wrap(w) + R) % R < n)
  <2> DEFINE d == x - w + R
  <2>1. Wrap(x) \in Units
    BY <1>2 DEF Wrap, Units
  <2>2. d \in Nat /\ d < R /\ ~ (d < n)
    BY <1>2
  <2>3. Wrap(x) - Wrap(w) + R = d \/ Wrap(x) - Wrap(w) + R = d + R
    BY <1>2 DEF Wrap
  <2> HIDE DEF d
  <2>4. (Wrap(x) - Wrap(w) + R) % R = d
    BY <2>2, <2>3, Mod
  <2> QED
    BY <2>1, <2>2, <2>4
<1>3. (Wrap(w) + n) % R = Wrap(w + n)
  <2> DEFINE e == Wrap(w + n)
  <2>1. e \in Nat /\ e < R
    <3>1. CASE w + n < R
      BY <3>1 DEF Wrap
    <3>2. CASE ~ (w + n < R)
      BY <3>2 DEF Wrap
    <3> QED
      BY <3>1, <3>2
  <2>2. Wrap(w) + n = e \/ Wrap(w) + n = e + R
    BY DEF Wrap
  <2> HIDE DEF e
  <2>3. (Wrap(w) + n) % R = e
    BY <2>1, <2>2, Mod
  <2> QED
    BY <2>3 DEF e
<1> QED
  BY <1>1, <1>2, <1>3

(* There is room only as long as the driver is not reached from behind.    *)
LEMMA RoomEnds ==
    ASSUME NEW R \in Nat, R = RingUnits, NEW t \in Nat, NEW w \in Nat, NEW n \in Nat,
           t < R, t <= w, w < t + R, n < R,
           capr = t, wr = Wrap(w), Empty \/ n < Room
    PROVE  w + n < t + R
<1>1. CASE Empty
  <2>1. w = t
    BY <1>1 DEF Empty, Wrap
  <2> QED
    BY <2>1
<1>2. CASE ~Empty
  <2> DEFINE d == t - w + R
  <2>1. w # t
    BY <1>2 DEF Empty, Wrap
  <2>2. d \in Nat /\ d < R
    BY <2>1
  <2>3. capr - wr + RingUnits = d \/ capr - wr + RingUnits = d + R
    BY DEF Wrap
  <2> HIDE DEF d
  <2>4. Room = d
    BY <2>2, <2>3, Mod DEF Room
  <2> QED
    BY <1>2, <2>4 DEF d
<1> QED
  BY <1>1, <1>2

LEMMA StoreKeeps ==
    ASSUME CardAssumption, CardInv, NEW n \in FrameUnits, Store(n)
    PROVE  CardInv'
<1> DEFINE k == Len(stored)
           s == stored
           t == stored'
           f == Starts(stored)
           g == Starts(stored')
           taken == Len(delivered)
<1>1. /\ s \in Seq(Nat \ {0}) /\ k \in Nat /\ taken \in Nat
      /\ \A i \in 1 .. k : s[i] \in Nat /\ s[i] > 1
      /\ RingUnits \in Nat /\ Margin \in Nat /\ 0 < Margin /\ Margin < RingUnits
  BY Lengths
<1>2. n \in Nat /\ n > 1 /\ n < RingUnits
  BY <1>1 DEF CardAssumption
<1>3. /\ ring' = [u \in Units |->
                    IF (u - wr + RingUnits) % RingUnits < n
                    THEN Unit(k + 1, (u - wr + RingUnits) % RingUnits, n) ELSE ring[u]]
      /\ wr' = (wr + n) % RingUnits /\ t = Append(s, n)
      /\ capr' = capr /\ off' = off /\ delivered' = delivered
      /\ Empty \/ n < Room
  BY DEF Store
<1>4. t \in Seq(FrameUnits) /\ DOMAIN ring' = Units
  <2>1. s \in Seq(FrameUnits)
    BY DEF CardInv
  <2> QED
    BY <1>3, <2>1
<1>5. /\ Len(t) = k + 1 /\ t[k + 1] = n /\ \A i \in 1 .. k : t[i] = s[i]
      /\ \A i \in 0 .. k : g[i] = f[i]
      /\ g[k + 1] = f[k] + n
  <2>1. Len(t) = k + 1 /\ t[k + 1] = n /\ \A i \in 1 .. k : t[i] = s[i]
    BY <1>1, <1>2, <1>3, AppendProperties
  <2>2. n \in Nat \ {0}
    BY <1>2
  <2>3. /\ \A i \in 0 .. k : Starts(Append(s, n))[i] = f[i]
        /\ Starts(Append(s, n))[k + 1] = f[k] + n
    BY <1>1, <2>2, StartsKept
  <2> QED
    BY <1>3, <2>1, <2>3
<1>6. \A i \in 0 .. k : f[i] \in Nat
  BY <1>1, StartsRise
<1>7. LapEnd' = LapEnd /\ LapEnd = RingUnits - Margin
  BY DEF LapEnd
<1> HIDE DEF k, s, t, f, g, taken
<1>8. Order'
  <2> SUFFICES ASSUME NEW i \in 1 .. taken, i <= k + 1, g[i - 1] <= LapEnd
               PROVE  delivered[i] = [frame |-> i, whole |-> g[i] <= RingUnits]
    BY <1>3, <1>5, <1>7 DEF Order, taken, g, t
  <2>1. i <= k
    <3> SUFFICES ASSUME i = k + 1 PROVE FALSE
      BY <1>1
    <3>1. PICK e \in 1 .. taken : e <= k /\ f[e] > LapEnd
      <4>1. ~Lap
        BY <1>1 DEF Lap, k, taken
      <4> QED
        BY <4>1 DEF CardInv, Over, k, f, taken
    <3>2. e \in 0 .. k /\ k \in 0 .. k /\ e <= k
      BY <1>1, <3>1
    <3>3. f[e] <= f[k]
      BY <1>1, <3>2, StartsOrdered DEF f, k, s
    <3>4. g[i - 1] = f[k]
      BY <1>1, <1>5, <3>2
    <3> QED
      BY <1>1, <1>6, <1>7, <3>1, <3>2, <3>3, <3>4
  <2>2. i \in 0 .. k /\ i - 1 \in 0 .. k
    BY <1>1, <2>1
  <2>3. g[i] = f[i] /\ g[i - 1] = f[i - 1]
    BY <1>5, <2>2
  <2>4. delivered[i] = [frame |-> i, whole |-> f[i] <= RingUnits]
    BY <2>1, <2>3 DEF CardInv, Order, f, k, taken
  <2> QED
    BY <2>3, <2>4
<1>9. ASSUME Over PROVE Over'
  <2>1. PICK e \in 1 .. taken : e <= k /\ f[e] > LapEnd
    BY <1>9 DEF Over, k, f, taken
  <2>2. e \in 0 .. k /\ e <= k + 1
    BY <1>1, <2>1
  <2>3. g[e] > LapEnd
    BY <1>5, <2>1, <2>2
  <2> QED
    BY <1>3, <1>5, <1>7, <2>1, <2>2, <2>3 DEF Over, g, t, taken
<1>10. ASSUME Lap PROVE Lap'
  <2>1. /\ taken <= k /\ f[taken] <= LapEnd /\ f[k] < f[taken] + RingUnits
        /\ wr = Wrap(f[k]) /\ off = f[taken] /\ capr = f[taken]
        /\ \A i \in taken + 1 .. k, p \in Nat : p < s[i] => ring[Wrap(f[i - 1] + p)] = Unit(i, p, s[i])
    BY <1>10 DEF Lap, k, s, f, taken
  <2>2. taken \in 0 .. k /\ k \in 0 .. k
    BY <1>1, <2>1
  <2> DEFINE a == f[taken]
             w == f[k]
             R == RingUnits
  <2>3. a \in Nat /\ w \in Nat /\ a <= w /\ a < R /\ w < a + R /\ capr = a /\ wr = Wrap(w)
    <3>1. a \in Nat /\ w \in Nat
      BY <1>6, <2>2
    <3>2. a <= w
      BY <1>1, <2>1, <2>2, StartsOrdered DEF f, k, s
    <3> HIDE DEF a, w
    <3>3. a < R
      BY <1>1, <1>7, <2>1, <3>1 DEF a
    <3> QED
      BY <2>1, <3>1, <3>2, <3>3 DEF a, w
  <2> HIDE DEF a, w
  <2>4. w + n < a + R
    BY <1>1, <1>2, <1>3, <2>3, RoomEnds
  <2>5. w + n <= a + R
    BY <1>1, <1>2, <2>3, <2>4
  <2> HIDE DEF R
  <2>6. /\ \A p \in Nat : p < n => Wrap(w + p) \in Units /\ (Wrap(w + p) - Wrap(w) + R) % R = p
        /\ \A x \in Nat : a <= x /\ x < w =>
                 Wrap(x) \in Units /\ ~ ((Wrap(x) - Wrap(w) + R) % R < n)
        /\ (Wrap(w) + n) % R = Wrap(w + n)
    <3>1. R = RingUnits /\ R \in Nat
      BY <1>1 DEF R
    <3> QED
      BY <1>2, <2>3, <2>5, <3>1, Places
  <2>7. ASSUME NEW i \in taken + 1 .. k + 1, NEW p \in Nat, p < t[i]
        PROVE  ring'[Wrap(g[i - 1] + p)] = Unit(i, p, t[i])
    <3>1. CASE i = k + 1
      <4>1. g[i - 1] = w /\ t[i] = n
        BY <1>1, <1>5, <2>2, <3>1 DEF w
      <4> DEFINE u == Wrap(w + p)
      <4>2. u \in Units /\ (u - wr + RingUnits) % RingUnits = p
        BY <2>3, <2>6, <2>7, <4>1 DEF R
      <4> HIDE DEF u
      <4>3. ring'[u] = Unit(k + 1, p, n)
        BY <1>3, <2>7, <4>1, <4>2
      <4> QED
        BY <3>1, <4>1, <4>3 DEF u
    <3>2. CASE i # k + 1
      <4>1. i \in taken + 1 .. k /\ i \in 1 .. k /\ i - 1 \in 0 .. k /\ i - 1 < k /\ (i - 1) + 1 = i /\ taken <= i - 1
        BY <1>1, <2>1, <3>2
      <4>2. g[i - 1] = f[i - 1] /\ t[i] = s[i] /\ s[i] \in Nat /\ f[i - 1] \in Nat
        BY <1>1, <1>5, <1>6, <4>1
      <4>3. f[i - 1] + s[i] <= w
        BY <1>1, <2>2, <4>1, StartsRise DEF f, k, s, w
      <4>4. a <= f[i - 1]
        BY <1>1, <2>2, <4>1, StartsOrdered DEF f, k, s, a
      <4> DEFINE x == f[i - 1] + p
      <4>5. x \in Nat /\ a <= x /\ x < w
        <5> DEFINE b == f[i - 1]
                   c == s[i]
        <5>1. b \in Nat /\ c \in Nat /\ b + c <= w /\ a <= b /\ p < c
          BY <2>7, <4>2, <4>3, <4>4
        <5> HIDE DEF b, c
        <5>2. b + p \in Nat /\ a <= b + p /\ b + p < w
          BY <2>3, <5>1
        <5> QED
          BY <5>2 DEF b
      <4>6. ring[Wrap(x)] = Unit(i, p, s[i])
        BY <2>1, <2>7, <4>1, <4>2
      <4> HIDE DEF x
      <4>7. Wrap(x) \in Units /\ ~ ((Wrap(x) - wr + RingUnits) % RingUnits < n)
        BY <2>3, <2>6, <4>5 DEF R
      <4>8. ring'[Wrap(x)] = ring[Wrap(x)]
        BY <1>3, <4>7
      <4> QED
        BY <4>2, <4>6, <4>8 DEF x
    <3> QED
      BY <3>1, <3>2
  <2>8. wr' = Wrap(g[k + 1])
    BY <1>3, <1>5, <2>3, <2>6 DEF R, w
  <2>9. g[taken] = a /\ g[k + 1] < g[taken] + RingUnits /\ taken <= k + 1
    BY <1>1, <1>5, <2>1, <2>2, <2>4 DEF R, a, w
  <2> QED
    BY <1>3, <1>5, <1>7, <2>1, <2>7, <2>8, <2>9 DEF Lap, Wrap, g, t, a, taken
<1>11. IsSeq(delivered)'
  BY <1>3 DEF CardInv, IsSeq
<1> QED
  BY <1>4, <1>8, <1>9, <1>10, <1>11 DEF CardInv, t

(* What the driver finds while frames are left: the next one, whole if it  *)
(* ends in the ring.                                                       *)
LEMMA NextFrame ==
    ASSUME CardAssumption, CardInv, Lap, Len(delivered) < Len(stored)
    PROVE  LET d == Len(delivered) + 1
               start == Starts(stored)
           IN  /\ IsHeader(off) /\ At(off).units = stored[d]
               /\ Received = [frame |-> d, whole |-> start[d] <= RingUnits]
               /\ start[d] = start[d - 1] + stored[d] /\ off = start[d - 1]
               /\ start[d - 1] \in Nat /\ stored[d] \in Nat
<1> DEFINE k == Len(stored)
           d == Len(delivered) + 1
           f == Starts(stored)
           n == stored[d]
<1>1. /\ stored \in Seq(Nat \ {0}) /\ k \in Nat /\ Len(delivered) \in Nat
      /\ \A i \in 1 .. k : stored[i] \in Nat /\ stored[i] > 1
      /\ RingUnits \in Nat /\ Margin \in Nat /\ 0 < Margin /\ Margin < RingUnits
  BY Lengths
<1>2. \A i \in 0 .. k : f[i] \in Nat
  BY <1>1, StartsRise
<1>3. /\ off = f[Len(delivered)] /\ f[Len(delivered)] <= LapEnd
      /\ \A i \in Len(delivered) + 1 .. k, p \in Nat :
            p < stored[i] => ring[Wrap(f[i - 1] + p)] = Unit(i, p, stored[i])
  BY DEF Lap
<1>4. d \in 1 .. k /\ d \in Len(delivered) + 1 .. k /\ d # 0 /\ d - 1 \in 0 .. k /\ d - 1 = Len(delivered)
  BY <1>1
<1>5. n \in Nat /\ n > 1 /\ f[d] = f[d - 1] + n
  BY <1>1, <1>4, StartsAre
<1> HIDE DEF d, n, f, k
<1>6. off = f[d - 1] /\ off \in Nat /\ off < RingUnits
  <2>1. off = f[d - 1] /\ off \in Nat
    BY <1>2, <1>3, <1>4
  <2>2. off <= RingUnits - Margin
    BY <1>3 DEF LapEnd
  <2> QED
    BY <1>1, <2>1, <2>2
<1>7. \A p \in Nat : p < n => ring[Wrap(off + p)] = Unit(d, p, n)
  BY <1>3, <1>4, <1>6 DEF n
<1>8. \A p \in Nat : p < n /\ off + p < RingUnits => At(off + p) = Unit(d, p, n)
  BY <1>7 DEF Wrap, At
<1>9. At(off) = Unit(d, 0, n)
  <2>1. off + 0 = off /\ 0 \in Nat /\ 0 < n
    BY <1>5, <1>6
  <2> QED
    BY <1>6, <1>8, <2>1
<1>10. At(off).frame = d /\ At(off).part = 0 /\ At(off).units = n
  BY <1>9 DEF Unit
<1>11. (\A p \in 0 .. n - 1 : At(off + p) = Unit(d, p, n)) <=> off + n <= RingUnits
  <2>1. CASE off + n <= RingUnits
    <3>1. \A p \in 0 .. n - 1 : p \in Nat /\ p < n /\ off + p < RingUnits
      BY <1>1, <1>5, <1>6, <2>1
    <3> QED
      BY <1>8, <2>1, <3>1
  <2>2. CASE ~ (off + n <= RingUnits)
    <3>1. n - 1 \in 0 .. n - 1 /\ ~ (off + (n - 1) < RingUnits)
      BY <1>1, <1>5, <1>6, <2>2
    <3>2. At(off + (n - 1)) = Nothing
      BY <3>1 DEF At
    <3>3. At(off + (n - 1)) # Unit(d, n - 1, n)
      BY <1>4, <3>2 DEF Nothing, Unit
    <3> QED
      BY <2>2, <3>1, <3>3
  <2> QED
    BY <2>1, <2>2
<1>12. IsHeader(off) /\ Received = [frame |-> d, whole |-> off + n <= RingUnits]
  <2> DEFINE all == \A p \in 0 .. n - 1 : At(off + p) = Unit(d, p, n)
  <2>1. Received = [frame |-> d, whole |-> all]
    BY <1>10, Zenon DEF Received
  <2>2. all <=> off + n <= RingUnits
    BY <1>11
  <2>3. all \in BOOLEAN /\ (off + n <= RingUnits) \in BOOLEAN
    <3>1. off + n \in Int /\ RingUnits \in Int
      BY <1>1, <1>5, <1>6
    <3> QED
      BY <3>1
  <2> HIDE DEF all
  <2>4. all = (off + n <= RingUnits)
    BY <2>2, <2>3
  <2>5. Received = [frame |-> d, whole |-> off + n <= RingUnits]
    BY <2>1, <2>4
  <2> QED
    BY <1>4, <1>10, <2>5 DEF IsHeader
<1> QED
  BY <1>5, <1>6, <1>10, <1>12 DEF d, n, f

LEMMA TakeKeeps ==
    ASSUME CardAssumption, CardInv, PollFrame
    PROVE  CardInv'
<1> DEFINE k == Len(stored)
           taken == Len(delivered)
           d == Len(delivered) + 1
           f == Starts(stored)
<1>1. /\ ~Empty /\ delivered' = Append(delivered, Received)
      /\ off' = Advanced(off, At(off).units) /\ capr' = off' % RingUnits
      /\ ring' = ring /\ wr' = wr /\ stored' = stored
  BY DEF PollFrame
<1>2. stored' \in Seq(FrameUnits) /\ DOMAIN ring' = Units
  BY <1>1 DEF CardInv
<1>3. /\ k \in Nat /\ taken \in Nat
      /\ RingUnits \in Nat /\ Margin \in Nat /\ 0 < Margin /\ Margin < RingUnits
      /\ stored \in Seq(Nat \ {0})
  BY Lengths
<1>4. LapEnd' = LapEnd /\ LapEnd = RingUnits - Margin
  BY DEF LapEnd
<1>5. \A i \in 0 .. k : f[i] \in Nat
  BY <1>3, StartsRise
<1>6. /\ IsSeq(delivered)' /\ Len(delivered') = d
      /\ delivered'[d] = Received /\ \A i \in 1 .. taken : delivered'[i] = delivered[i]
  <2>1. PICK S : delivered \in Seq(S)
    BY DEF CardInv, IsSeq
  <2> DEFINE T == S \cup {Received}
  <2>2. delivered \in Seq(T) /\ Received \in T
    BY <2>1
  <2> HIDE DEF T
  <2>3. /\ Append(delivered, Received) \in Seq(T)
        /\ Len(Append(delivered, Received)) = d
        /\ Append(delivered, Received)[d] = Received
        /\ \A i \in 1 .. taken : Append(delivered, Received)[i] = delivered[i]
    BY <2>2, AppendProperties
  <2> HIDE DEF d, taken
  <2> QED
    BY <1>1, <2>3 DEF IsSeq
<1>7. CASE Lap
  <2>1. taken <= k /\ wr = Wrap(f[k]) /\ capr = f[taken] /\ f[k] < f[taken] + RingUnits
        /\ f[taken] <= LapEnd
        /\ \A i \in taken + 1 .. k, p \in Nat :
              p < stored[i] => ring[Wrap(f[i - 1] + p)] = Unit(i, p, stored[i])
    BY <1>7 DEF Lap
  <2>2. taken < k
    <3> SUFFICES ASSUME taken = k PROVE FALSE
      BY <1>3, <2>1
    <3>1. taken \in 0 .. k
      BY <1>3
    <3> DEFINE a == f[taken]
    <3>2. a \in Nat /\ a <= LapEnd
      BY <1>5, <2>1, <3>1
    <3> HIDE DEF a
    <3>3. a < RingUnits
      BY <1>3, <1>4, <3>2
    <3>4. wr = capr
      BY <2>1, <3>3 DEF Wrap, a
    <3> QED
      BY <1>1, <3>4 DEF Empty
  <2>3. /\ At(off).units = stored[d] /\ Received = [frame |-> d, whole |-> f[d] <= RingUnits]
        /\ f[d] = f[d - 1] + stored[d] /\ off = f[d - 1] /\ f[d - 1] \in Nat /\ stored[d] \in Nat
    BY <1>7, <2>2, NextFrame
  <2>4. d \in 0 .. k /\ d \in 1 .. k /\ d - 1 = taken /\ taken \in 0 .. k
    BY <1>3, <2>2
  <2> HIDE DEF f, d, k, taken
  <2>5. Order'
    <3> SUFFICES ASSUME NEW i \in 1 .. d, i <= k, f[i - 1] <= LapEnd
                 PROVE  delivered'[i] = [frame |-> i, whole |-> f[i] <= RingUnits]
      BY <1>1, <1>4, <1>6 DEF Order, f, k
    <3>1. CASE i = d
      BY <1>6, <2>3, <3>1
    <3>2. CASE i # d
      <4>1. i \in 1 .. taken
        BY <1>3, <2>4, <3>2
      <4>2. delivered[i] = [frame |-> i, whole |-> f[i] <= RingUnits]
        BY <4>1 DEF CardInv, Order, f, k, taken
      <4> QED
        BY <1>6, <4>1, <4>2
    <3> QED
      BY <3>1, <3>2
  <2>6. CASE f[d] > LapEnd
    <3>1. Over'
      BY <1>1, <1>4, <1>6, <2>4, <2>6 DEF Over, f, k
    <3> QED
      BY <1>2, <1>6, <2>5, <3>1 DEF CardInv
  <2>7. CASE ~ (f[d] > LapEnd)
    <3>1. f[d] \in Nat /\ f[d] <= LapEnd
      BY <1>3, <1>4, <1>5, <2>4, <2>7
    <3>2. off' = f[d]
      BY <1>1, <1>3, <1>4, <2>3, <3>1 DEF Advanced
    <3>3. capr' = f[d]
      <4> DEFINE a == f[d]
      <4>1. a \in Nat /\ a < RingUnits
        <5>1. a \in Nat /\ a <= LapEnd
          BY <3>1
        <5> HIDE DEF a
        <5> QED
          BY <1>3, <1>4, <5>1
      <4> HIDE DEF a
      <4> QED
        BY <1>1, <1>3, <3>2, <4>1, Mod DEF a
    <3>4. f[k] < f[d] + RingUnits
      <4>1. f[taken] <= f[d] /\ f[taken] \in Nat /\ f[k] \in Nat
        <5>1. taken <= d /\ k \in 0 .. k
          BY <1>3, <2>4
        <5> QED
          BY <1>3, <1>5, <2>4, <5>1, StartsOrdered DEF f, k
      <4> QED
        BY <1>3, <2>1, <3>1, <4>1
    <3>5. \A i \in d + 1 .. k, p \in Nat :
              p < stored[i] => ring[Wrap(f[i - 1] + p)] = Unit(i, p, stored[i])
      <4>1. \A i \in d + 1 .. k : i \in taken + 1 .. k
        BY <1>3, <2>4
      <4> QED
        BY <2>1, <4>1
    <3>6. d <= k
      BY <2>4
    <3>7. Lap'
      BY <1>1, <1>4, <1>6, <2>1, <3>1, <3>2, <3>3, <3>4, <3>5, <3>6 DEF Lap, Wrap, f, k
    <3> QED
      BY <1>2, <1>6, <2>5, <3>7 DEF CardInv
  <2> QED
    BY <2>6, <2>7
<1>8. CASE Over
  <2>1. \A i \in 1 .. k : i > taken => f[i - 1] > LapEnd
    BY <1>8, OverEnds
  <2>2. PICK e \in 1 .. taken : e <= k /\ f[e] > LapEnd
    BY <1>8 DEF Over
  <2> HIDE DEF f, k
  <2>3. Over'
    <3>1. e \in 1 .. d
      BY <1>3, <2>2
    <3> HIDE DEF d
    <3> QED
      BY <1>1, <1>4, <1>6, <2>2, <3>1 DEF Over, f, k
  <2>4. Order'
    <3> SUFFICES ASSUME NEW i \in 1 .. d, i <= k, f[i - 1] <= LapEnd
                 PROVE  delivered'[i] = [frame |-> i, whole |-> f[i] <= RingUnits]
      BY <1>1, <1>4, <1>6 DEF Order, f, k
    <3>1. i \in 1 .. taken
      <4> SUFFICES ASSUME i > taken PROVE FALSE
        BY <1>3
      <4>1. i \in 1 .. k /\ i - 1 \in 0 .. k
        BY <1>3
      <4>2. f[i - 1] > LapEnd /\ f[i - 1] \in Nat
        BY <1>5, <2>1, <4>1
      <4> QED
        BY <1>3, <1>4, <4>2
    <3>2. delivered[i] = [frame |-> i, whole |-> f[i] <= RingUnits]
      BY <3>1 DEF CardInv, Order, f, k
    <3> QED
      BY <1>6, <3>1, <3>2
  <2> QED
    BY <1>2, <1>6, <2>3, <2>4 DEF CardInv
<1> QED
  BY <1>7, <1>8 DEF CardInv

LEMMA CardInitInv == CardAssumption /\ CardInit => CardInv
<1> SUFFICES ASSUME CardAssumption, CardInit PROVE CardInv
  OBVIOUS
<1>1. stored = << >> /\ delivered = << >> /\ wr = 0 /\ capr = 0 /\ off = 0 /\ DOMAIN ring = Units
  BY DEF CardInit
<1>2. Len(stored) = 0 /\ Len(delivered) = 0 /\ stored \in Seq(FrameUnits) /\ delivered \in Seq({})
  BY <1>1
<1>3. Starts(stored)[0] = 0
  BY <1>2, StartsAre
<1>4. RingUnits \in Nat /\ 0 < RingUnits /\ 0 <= LapEnd
  BY DEF CardAssumption, LapEnd
<1>5. Lap
  BY <1>1, <1>2, <1>3, <1>4 DEF Lap, Wrap
<1>6. IsSeq(delivered) /\ Order
  BY <1>2 DEF IsSeq, Order
<1> QED
  BY <1>1, <1>2, <1>5, <1>6 DEF CardInv

LEMMA CardStep == CardAssumption /\ CardInv /\ [CardNext]_cardVars => CardInv'
<1> SUFFICES ASSUME CardAssumption, CardInv, [CardNext]_cardVars PROVE CardInv'
  OBVIOUS
<1>1. CASE PollFrame
  BY <1>1, TakeKeeps
<1>2. CASE \E n \in FrameUnits : Store(n)
  BY <1>2, StoreKeeps
<1>3. CASE PollStart \/ PollEnd \/ UNCHANGED cardVars
  <2>1. /\ ring' = ring /\ wr' = wr /\ capr' = capr /\ off' = off /\ stored' = stored
        /\ delivered' = delivered
    BY <1>3 DEF PollStart, PollEnd, cardVars
  <2>2. /\ Lap' = Lap /\ Over' = Over /\ Order' = Order /\ IsSeq(delivered)' = IsSeq(delivered)
        /\ (stored \in Seq(FrameUnits))' = (stored \in Seq(FrameUnits))
        /\ (DOMAIN ring = Units)' = (DOMAIN ring = Units)
    BY <2>1, Zenon DEF Lap, Over, Order, LapEnd, Wrap
  <2> QED
    BY <2>2 DEF CardInv
<1> QED
  BY <1>1, <1>2, <1>3 DEF CardNext

LEMMA LapIsInOrder == CardAssumption /\ CardInv => LapInOrder
<1> SUFFICES ASSUME CardAssumption, CardInv, NEW i \in DOMAIN delivered \cap DOMAIN stored,
                    Starts(stored)[i - 1] <= LapEnd
             PROVE  delivered[i] = [frame |-> i, whole |-> Starts(stored)[i] <= RingUnits]
  BY BeginsAre DEF LapInOrder
<1>1. DOMAIN delivered = 1 .. Len(delivered) /\ DOMAIN stored = 1 .. Len(stored)
  BY DEF CardInv, IsSeq
<1>2. Len(stored) \in Nat
  BY Lengths
<1>3. i \in 1 .. Len(delivered) /\ i <= Len(stored)
  BY <1>1, <1>2
<1> QED
  BY <1>3 DEF CardInv, Order

LEMMA InLapIs ==
    ASSUME CardAssumption, CardInv, InLap
    PROVE  Lap
BY OverEnds DEF CardInv

LEMMA GivenOnlyThere ==
    ASSUME CardInv, [CardNext]_cardVars
    PROVE  (delivered' # delivered) <=> PollFrame
<1>1. ASSUME PollFrame PROVE delivered' # delivered
  <2>1. delivered' = Append(delivered, Received)
    BY <1>1 DEF PollFrame
  <2>2. PICK S : delivered \in Seq(S)
    BY DEF CardInv, IsSeq
  <2> DEFINE T == S \cup {Received}
  <2>3. delivered \in Seq(T) /\ Received \in T
    BY <2>2
  <2> HIDE DEF T
  <2>4. Len(Append(delivered, Received)) = Len(delivered) + 1 /\ Len(delivered) \in Nat
    BY <2>3, AppendProperties
  <2> QED
    BY <2>1, <2>4
<1>2. ASSUME delivered' # delivered PROVE PollFrame
  BY <1>2 DEF CardNext, PollStart, PollEnd, Store, cardVars
<1> QED
  BY <1>1, <1>2

(* A poll ends where the card writes next, or at its guard.                *)
LEMMA EndsAtLast ==
    ASSUME CardAssumption, CardInv, [CardNext]_cardVars,
           InLap, guard < PollGuard, guard' = PollGuard, delivered' = delivered
    PROVE  Len(delivered) = Len(stored)
<1>1. PollGuard \in Nat /\ guard # PollGuard /\ guard' # guard
  <2>1. PollGuard \in Nat
    BY DEF CardAssumption
  <2> QED
    BY <2>1
<1>2. Lap
  BY InLapIs
<1>3. ~ PollFrame
  BY GivenOnlyThere
<1>4. PollEnd
  BY <1>1, <1>3 DEF CardNext, PollStart, Store, cardVars
<1>5. Empty \/ ~IsHeader(off)
  BY <1>4 DEF PollEnd
<1> DEFINE d == Len(delivered)
           k == Len(stored)
           f == Starts(stored)
<1>6. d <= k /\ wr = Wrap(f[k]) /\ capr = f[d] /\ f[k] < f[d] + RingUnits
  BY <1>2 DEF Lap
<1>7. stored \in Seq(Nat \ {0}) /\ k \in Nat /\ d \in Nat
      /\ \A i \in 1 .. k : stored[i] \in Nat /\ stored[i] > 1
  BY Lengths
<1>8. ASSUME d < k PROVE FALSE
  <2>1. IsHeader(off)
    BY <1>2, <1>8, NextFrame
  <2>2. wr = capr
    BY <1>5, <2>1 DEF Empty
  <2>3. d \in 0 .. k /\ k \in 0 .. k
    BY <1>6, <1>7, <1>8
  <2>4. f[d] \in Nat /\ f[k] \in Nat /\ f[d] < f[k]
    BY <1>7, <1>8, <2>3, StartsOrdered, StartsRise
  <2> DEFINE a == f[d]
             w == f[k]
  <2>5. a \in Nat /\ w \in Nat /\ a < w /\ w < a + RingUnits /\ Wrap(w) = a
    BY <1>6, <2>2, <2>4
  <2> HIDE DEF a, w
  <2>6. RingUnits \in Nat
    BY Lengths
  <2> QED
    BY <2>5, <2>6 DEF Wrap
<1> HIDE DEF d, k
<1> QED
  BY <1>6, <1>7, <1>8 DEF d, k

(* The wrap of the driver comes Margin early. *)
LEMMA WrapsEarly ==
    ASSUME NEW R \in Nat, NEW m \in Nat, 0 < m, m < R, NEW a \in Nat, NEW n \in Nat,
           a <= R - m, n < R, a + n > R - m
    PROVE  a + n - (R - m) = (a + n + m) % R
<1> DEFINE e == a + n - (R - m)
<1>1. e \in Nat /\ e < R /\ a + n + m = e + R
  OBVIOUS
<1> HIDE DEF e
<1>2. (a + n + m) % R = e
  BY <1>1, Mod
<1> QED
  BY <1>2 DEF e

LEMMA EndSlips ==
    ASSUME CardAssumption, CardInv, [CardNext]_cardVars
    PROVE  Slips
<1> SUFFICES ASSUME InLap, delivered' # delivered, ~InLap'
             PROVE  off' = (Begins'[Len(delivered')] + Margin) % RingUnits
  BY DEF Slips
<1> DEFINE k == Len(stored)
           taken == Len(delivered)
           d == Len(delivered) + 1
           f == Starts(stored)
<1>1. PollFrame /\ Lap
  BY InLapIs, GivenOnlyThere
<1>2. /\ ~Empty /\ delivered' = Append(delivered, Received) /\ stored' = stored
      /\ off' = Advanced(off, At(off).units)
  BY <1>1 DEF PollFrame
<1>3. /\ k \in Nat /\ taken \in Nat
      /\ RingUnits \in Nat /\ Margin \in Nat /\ 0 < Margin /\ Margin < RingUnits
      /\ stored \in Seq(Nat \ {0})
      /\ \A i \in 1 .. k : stored[i] \in Nat /\ stored[i] < RingUnits
  BY Lengths
<1>4. Begins' = f
  BY <1>2, Zenon DEF Begins, Starts
<1>5. Len(delivered') = d
  <2>1. PICK S : delivered \in Seq(S)
    BY DEF CardInv, IsSeq
  <2> DEFINE T == S \cup {Received}
  <2>2. delivered \in Seq(T) /\ Received \in T
    BY <2>1
  <2> HIDE DEF T
  <2> QED
    BY <1>2, <2>2, AppendProperties
<1>6. taken <= k /\ f[taken] <= LapEnd /\ wr = Wrap(f[k]) /\ capr = f[taken]
  BY <1>1 DEF Lap
<1>7. taken < k
  <2> SUFFICES ASSUME taken = k PROVE FALSE
    BY <1>3, <1>6
  <2> DEFINE a == f[taken]
  <2>1. a \in Nat
    <3>1. taken \in 0 .. k
      BY <1>3
    <3> QED
      BY <1>3, <3>1, StartsRise
  <2>2. a <= RingUnits - Margin
    BY <1>6 DEF LapEnd
  <2> HIDE DEF a
  <2>3. wr = capr
    BY <1>3, <1>6, <2>1, <2>2 DEF Wrap, a
  <2> QED
    BY <1>2, <2>3 DEF Empty
<1>8. /\ At(off).units = stored[d] /\ f[d] = f[d - 1] + stored[d] /\ off = f[d - 1]
      /\ f[d - 1] \in Nat /\ stored[d] \in Nat
  BY <1>1, <1>7, NextFrame
<1>9. d \in 1 .. k /\ d - 1 = taken
  BY <1>3, <1>7
<1>10. ~ (f[d] <= LapEnd)
  <2>1. ~ (Len(delivered') <= Len(stored') /\ Begins'[Len(delivered')] <= LapEnd)
    BY Zenon DEF InLap, LapEnd
  <2>2. d <= k
    BY <1>9
  <2> HIDE DEF d, f, k
  <2> QED
    BY <1>2, <1>4, <1>5, <2>1, <2>2 DEF k
<1> DEFINE a == f[d - 1]
           n == stored[d]
<1>11. /\ a \in Nat /\ n \in Nat /\ n < RingUnits /\ a <= RingUnits - Margin
       /\ f[d] = a + n /\ off' = Advanced(a, n)
  BY <1>2, <1>3, <1>6, <1>8, <1>9 DEF LapEnd
<1> HIDE DEF a, n, f, d
<1>12. a + n > RingUnits - Margin
  BY <1>3, <1>10, <1>11 DEF LapEnd
<1>13. off' = a + n - (RingUnits - Margin)
  BY <1>11, <1>12 DEF Advanced
<1>14. off' = (a + n + Margin) % RingUnits
  <2>1. RingUnits \in Nat /\ Margin \in Nat /\ 0 < Margin /\ Margin < RingUnits
    BY <1>3
  <2>2. a \in Nat /\ n \in Nat /\ a <= RingUnits - Margin /\ n < RingUnits
    BY <1>11
  <2>3. a + n - (RingUnits - Margin) = (a + n + Margin) % RingUnits
    BY ONLY <1>12, <2>1, <2>2, WrapsEarly
  <2> QED
    BY ONLY <1>13, <2>3
<1> QED
  BY <1>4, <1>5, <1>11, <1>14

(* All through the driver's first lap, the card ahead of it on its second, *)
(* the protocols get the frames of the card in order and each whole unless *)
(* it runs over the end of the ring; a poll that ends before its guard has *)
(* left none; and the end of the lap leaves the driver out of step by the  *)
(* margin, for any length of the ring and of frames.                       *)
THEOREM FramesComeWhole ==
    ASSUME CardAssumption
    PROVE  CardSpec => []LapInOrder /\ FirstLap
<1>1. CardInit => CardInv
  BY CardInitInv
<1>2. CardInv /\ [CardNext]_cardVars => CardInv'
  BY CardStep
<1>3. CardInv => LapInOrder
  BY LapIsInOrder
<1>4. CardInv /\ CardInv' /\ [CardNext]_cardVars => [LapInOrder' /\ NoneLeft /\ Slips]_cardVars
  <2>1. CardInv /\ [CardNext]_cardVars => NoneLeft /\ Slips
    BY EndsAtLast, EndSlips DEF NoneLeft
  <2>2. CardInv' => LapInOrder'
    BY <1>3, PTL
  <2> QED
    BY <2>1, <2>2
<1> QED
  BY <1>1, <1>2, <1>3, <1>4, PTL DEF CardSpec, FirstLap

-----------------------------------------------------------------------------
(* The response in the buffer *)

Tok == {"head", "size", "eol", "data", "end"} \X Nat

LEMMA TokIs ==
    /\ \A n \in Nat : <<"data", n>> \in Tok /\ <<"size", n>> \in Tok
    /\ <<"eol", 0>> \in Tok /\ <<"head", 0>> \in Tok /\ <<"end", 0>> \in Tok
    /\ \A t \in Tok : t[2] \in Nat
BY DEF Tok

(* The definitions of module Http, for the parts of a response that they   *)
(* depend on                                                               *)
PiecesOf(c, k) == [i \in 1 .. c[k] |-> <<"data", Starts(c)[k - 1] + i>>]
ChunkOf(q, c, k) ==
    IF q THEN <<<<"size", c[k]>>>> \o PiecesOf(c, k) \o <<<<"eol", 0>>>> ELSE PiecesOf(c, k)
Uptos(q, c) ==
    CHOOSE f : f = [k \in 0 .. Len(c) |-> IF k = 0 THEN << >> ELSE f[k - 1] \o ChunkOf(q, c, k)]
WireOf(h, q, c) ==
    Times(h, <<"head", 0>>) \o Uptos(q, c)[Len(c)] \o (IF q THEN <<<<"size", 0>>>> ELSE << >>)

LEMMA BeforeIs == \A r, k : Before(r, k) = Starts(r.chunks)[k - 1]
BY Zenon DEF Before, Starts

LEMMA WireIs == \A r : Wire(r) = WireOf(r.head, r.chunked, r.chunks)
BY Zenon DEF Wire, WireOf, Uptos, ChunkOf, PiecesOf, Pieces, Before, Starts

LEMMA ChunkIs ==
    ASSUME NEW c \in Seq(Nat \ {0}), NEW k \in Int, 1 <= k, k <= Len(c)
    PROVE  /\ ChunkOf(TRUE, c, k) \in Seq(Tok) /\ Len(ChunkOf(TRUE, c, k)) = c[k] + 2
           /\ ChunkOf(TRUE, c, k)[1] = <<"size", c[k]>>
           /\ \A p \in 1 .. c[k] : ChunkOf(TRUE, c, k)[1 + p] = <<"data", Starts(c)[k - 1] + p>>
           /\ ChunkOf(TRUE, c, k)[c[k] + 2] = <<"eol", 0>>
           /\ ChunkOf(FALSE, c, k) \in Seq(Tok) /\ Len(ChunkOf(FALSE, c, k)) = c[k]
           /\ \A p \in 1 .. c[k] : ChunkOf(FALSE, c, k)[p] = <<"data", Starts(c)[k - 1] + p>>
<1> DEFINE n == c[k]
           b == Starts(c)[k - 1]
           d == PiecesOf(c, k)
           s == <<<<"size", n>>>>
           e == <<<<"eol", 0>>>>
<1>1. n \in Nat /\ b \in Nat /\ Len(c) \in Nat
  <2>1. n \in Nat /\ Len(c) \in Nat /\ k - 1 \in 0 .. Len(c)
    OBVIOUS
  <2> QED
    BY <2>1, StartsRise
<1>2. d \in Seq(Tok) /\ Len(d) = n /\ \A p \in 1 .. n : d[p] = <<"data", b + p>>
  <2> HIDE DEF n, b
  <2>1. d = [p \in 1 .. n |-> <<"data", b + p>>]
    BY DEF PiecesOf, n, b
  <2>2. \A p \in 1 .. n : <<"data", b + p>> \in Tok
    <3>1. \A p \in 1 .. n : b + p \in Nat
      BY <1>1
    <3> QED
      BY <3>1, TokIs
  <2>3. d \in [1 .. n -> Tok]
    BY <2>1, <2>2
  <2> HIDE DEF d
  <2>4. d \in Seq(Tok) /\ Len(d) = n
    BY <1>1, <2>3
  <2> QED
    BY <2>1, <2>4
<1>3. s \in Seq(Tok) /\ Len(s) = 1 /\ s[1] = <<"size", n>> /\ e \in Seq(Tok) /\ Len(e) = 1 /\ e[1] = <<"eol", 0>>
  <2>1. <<"size", n>> \in Tok /\ <<"eol", 0>> \in Tok
    BY <1>1, TokIs
  <2> QED
    BY <2>1
<1> DEFINE sd == s \o d
           sde == sd \o e
<1>4. ChunkOf(TRUE, c, k) = sde /\ ChunkOf(FALSE, c, k) = d
  BY DEF ChunkOf
<1> HIDE DEF s, e, d, n, b
<1>5. /\ sd \in Seq(Tok) /\ Len(sd) = 1 + n
      /\ \A i \in 1 .. 1 + n : sd[i] = IF i <= 1 THEN s[i] ELSE d[i - 1]
  <2>1. /\ sd \in Seq(Tok) /\ Len(sd) = Len(s) + Len(d)
        /\ \A i \in 1 .. Len(s) + Len(d) : sd[i] = IF i <= Len(s) THEN s[i] ELSE d[i - Len(s)]
    BY ONLY <1>2, <1>3, ConcatProperties, Zenon
  <2> HIDE DEF sd
  <2> QED
    BY ONLY <2>1, <1>2, <1>3, Zenon
<1> HIDE DEF sd
<1>6. /\ sde \in Seq(Tok) /\ Len(sde) = (1 + n) + 1
      /\ \A i \in 1 .. (1 + n) + 1 : sde[i] = IF i <= 1 + n THEN sd[i] ELSE e[i - (1 + n)]
  <2>1. /\ sde \in Seq(Tok) /\ Len(sde) = Len(sd) + Len(e)
        /\ \A i \in 1 .. Len(sd) + Len(e) : sde[i] = IF i <= Len(sd) THEN sd[i] ELSE e[i - Len(sd)]
    BY ONLY <1>3, <1>5, ConcatProperties, Zenon
  <2> HIDE DEF sde
  <2> QED
    BY ONLY <2>1, <1>3, <1>5, Zenon
<1> HIDE DEF sde
<1>7. sde[1] = <<"size", n>> /\ Len(sde) = n + 2
  BY <1>1, <1>3, <1>5, <1>6
<1>8. sde[n + 2] = <<"eol", 0>>
  <2> DEFINE i == n + 2
  <2>1. i \in 1 .. (1 + n) + 1 /\ ~ (i <= 1 + n) /\ i - (1 + n) = 1
    BY <1>1
  <2> HIDE DEF i
  <2>2. sde[i] = e[1]
    BY <1>6, <2>1
  <2> QED
    BY <1>3, <2>2 DEF i
<1>9. ASSUME NEW p \in 1 .. n PROVE sde[1 + p] = <<"data", b + p>>
  <2>1. 1 + p \in 1 .. 1 + n /\ 1 + p \in 1 .. (1 + n) + 1 /\ 1 + p <= 1 + n /\ ~ (1 + p <= 1) /\ (1 + p) - 1 = p
    BY <1>1
  <2>2. sde[1 + p] = d[p]
    BY <1>5, <1>6, <2>1
  <2> QED
    BY <1>2, <2>2
<1> QED
  BY <1>2, <1>4, <1>6, <1>7, <1>8, <1>9 DEF n, b

Spread(q, c) == [k \in 1 .. Len(c) |-> c[k] + (IF q THEN 2 ELSE 0)]

LEMMA SpreadIs ==
    ASSUME NEW c \in Seq(Nat \ {0}), NEW q \in BOOLEAN
    PROVE  /\ Spread(q, c) \in Seq(Nat \ {0}) /\ Len(Spread(q, c)) = Len(c)
           /\ \A k \in 1 .. Len(c) : /\ Spread(q, c)[k] = Len(ChunkOf(q, c, k))
                                     /\ ChunkOf(q, c, k) \in Seq(Tok)
                                     /\ q => Spread(q, c)[k] = c[k] + 2
                                     /\ ~q => Spread(q, c)[k] = c[k]
<1> DEFINE n == Len(c)
           w == Spread(q, c)
<1>1. n \in Nat /\ \A k \in 1 .. n : c[k] \in Nat /\ c[k] > 0
  OBVIOUS
<1>2. w = [k \in 1 .. n |-> c[k] + (IF q THEN 2 ELSE 0)]
  BY DEF Spread
<1> HIDE DEF n, w
<1>3. w \in [1 .. n -> Nat \ {0}]
  <2>1. \A k \in 1 .. n : c[k] + (IF q THEN 2 ELSE 0) \in Nat \ {0}
    BY <1>1
  <2> QED
    BY <1>2, <2>1
<1>4. w \in Seq(Nat \ {0}) /\ Len(w) = n
  BY <1>1, <1>3
<1>5. ASSUME NEW k \in 1 .. n
      PROVE  /\ w[k] = Len(ChunkOf(q, c, k)) /\ ChunkOf(q, c, k) \in Seq(Tok)
             /\ q => w[k] = c[k] + 2
             /\ ~q => w[k] = c[k]
  <2>1. k \in Int /\ 1 <= k /\ k <= Len(c) /\ c[k] \in Nat
    BY <1>1 DEF n
  <2>2. CASE q
    <3>1. w[k] = c[k] + 2 /\ q = TRUE
      BY <1>2, <2>2
    <3>2. ChunkOf(TRUE, c, k) \in Seq(Tok) /\ Len(ChunkOf(TRUE, c, k)) = c[k] + 2
      BY <2>1, ChunkIs
    <3> QED
      BY <3>1, <3>2
  <2>3. CASE ~q
    <3>1. w[k] = c[k] /\ q = FALSE
      BY <1>2, <2>1, <2>3
    <3>2. ChunkOf(FALSE, c, k) \in Seq(Tok) /\ Len(ChunkOf(FALSE, c, k)) = c[k]
      BY <2>1, ChunkIs
    <3> QED
      BY <3>1, <3>2
  <2> QED
    BY <2>2, <2>3
<1> QED
  BY <1>4, <1>5 DEF n, w

LEMMA UptosAre ==
    ASSUME NEW c, NEW q, Len(c) \in Nat
    PROVE  /\ Uptos(q, c)[0] = << >>
           /\ \A k \in 1 .. Len(c) : Uptos(q, c)[k] = Uptos(q, c)[k - 1] \o ChunkOf(q, c, k)
<1> DEFINE n == Len(c)
           Is(f, m) == f = [k \in 0 .. m |-> IF k = 0 THEN << >> ELSE f[k - 1] \o ChunkOf(q, c, k)]
           Bad == {m \in Nat : ~ \E f : Is(f, m)}
<1>1. CASE Bad = {}
  <2>1. \E f : Is(f, n)
    BY <1>1
  <2> DEFINE u == Uptos(q, c)
  <2>2. Is(u, n)
    BY <2>1, Zenon DEF Uptos
  <2> HIDE DEF u, n
  <2>3. \A k \in 0 .. n : u[k] = IF k = 0 THEN << >> ELSE u[k - 1] \o ChunkOf(q, c, k)
    BY <2>2
  <2>4. n \in Nat
    BY DEF n
  <2> QED
    <3>1. 0 \in 0 .. n /\ \A k \in 1 .. n : k \in 0 .. n /\ k # 0
      BY <2>4
    <3>2. u[0] = << >> /\ \A k \in 1 .. n : u[k] = u[k - 1] \o ChunkOf(q, c, k)
      BY <2>3, <3>1
    <3> QED
      BY <3>2 DEF u, n
<1>2. CASE Bad # {}
  <2>1. PICK m \in Bad : \A j \in Bad : m <= j
    <3>1. Bad \in SUBSET Nat
      OBVIOUS
    <3> HIDE DEF Bad
    <3> QED
      BY <1>2, <3>1, LeastOf
  <2>2. m # 0
    <3> DEFINE f == [k \in 0 .. 0 |-> << >>]
    <3>1. Is(f, 0)
      OBVIOUS
    <3> HIDE DEF f, Is
    <3> QED
      BY <2>1, <3>1
  <2>3. m \in Nat /\ m - 1 \in Nat /\ m - 1 \notin Bad
    <3>1. m \in Nat /\ m - 1 \in Nat /\ ~ (m <= m - 1)
      BY <2>1, <2>2
    <3> HIDE DEF Bad
    <3> QED
      BY <2>1, <3>1
  <2>4. PICK f : Is(f, m - 1)
    <3> HIDE DEF Is
    <3> QED
      BY <2>3
  <2> DEFINE g == [k \in 0 .. m |-> IF k < m THEN f[k] ELSE f[m - 1] \o ChunkOf(q, c, m)]
  <2>5. \A k \in 0 .. m - 1 : f[k] = IF k = 0 THEN << >> ELSE f[k - 1] \o ChunkOf(q, c, k)
    BY <2>4
  <2>6. ASSUME NEW k \in 0 .. m
        PROVE  g[k] = IF k = 0 THEN << >> ELSE g[k - 1] \o ChunkOf(q, c, k)
    <3>1. CASE k = m
      <4>1. g[k] = f[m - 1] \o ChunkOf(q, c, m) /\ g[k - 1] = f[m - 1]
        BY <2>2, <2>3, <3>1
      <4> HIDE DEF g
      <4> QED
        BY <2>2, <3>1, <4>1
    <3>2. CASE k # m
      <4>1. k \in 0 .. m - 1 /\ g[k] = f[k] /\ (k # 0 => g[k - 1] = f[k - 1])
        BY <2>3, <3>2
      <4> HIDE DEF g
      <4> QED
        BY <2>5, <4>1
    <3> QED
      BY <3>1, <3>2
  <2>7. g = [k \in 0 .. m |-> g[k]]
    OBVIOUS
  <2> HIDE DEF g
  <2>8. Is(g, m)
    BY <2>6, <2>7
  <2> HIDE DEF Is
  <2> QED
    BY <2>1, <2>8
<1> QED
  BY <1>1, <1>2

(* The chunks lie one behind the other. *)
LEMMA UptosHave ==
    ASSUME NEW c \in Seq(Nat \ {0}), NEW q \in BOOLEAN
    PROVE  LET f == Uptos(q, c)
               w == Spread(q, c)
               at0 == Starts(w)
           IN  \A m \in 0 .. Len(c) :
                  /\ f[m] \in Seq(Tok) /\ Len(f[m]) = at0[m]
                  /\ \A k \in 1 .. Len(c), i \in Nat \ {0} :
                        k <= m /\ i <= w[k] => f[m][at0[k - 1] + i] = ChunkOf(q, c, k)[i]
<1> DEFINE n == Len(c)
           f == Uptos(q, c)
           w == Spread(q, c)
           l == Starts(w)
           ch(k) == ChunkOf(q, c, k)
           Good(m) == /\ f[m] \in Seq(Tok) /\ Len(f[m]) = l[m]
                      /\ \A k \in 1 .. n, i \in Nat \ {0} :
                            k <= m /\ i <= w[k] => f[m][l[k - 1] + i] = ch(k)[i]
           Bad == {m \in 0 .. n : ~ Good(m)}
<1>1. n \in Nat /\ w \in Seq(Nat \ {0}) /\ Len(w) = n
  BY SpreadIs
<1>2. \A k \in 1 .. n : ch(k) \in Seq(Tok) /\ Len(ch(k)) = w[k] /\ w[k] \in Nat /\ w[k] > 0
  <2>1. \A k \in 1 .. n : ch(k) \in Seq(Tok) /\ Len(ch(k)) = w[k]
    BY SpreadIs
  <2>2. \A k \in 1 .. n : w[k] \in Nat \ {0}
    BY <1>1
  <2> QED
    BY <2>1, <2>2
<1>3. f[0] = << >> /\ \A k \in 1 .. n : f[k] = f[k - 1] \o ch(k)
  BY <1>1, UptosAre
<1>4. l[0] = 0 /\ \A k \in 1 .. n : l[k] = l[k - 1] + w[k]
  BY <1>1, StartsAre
<1>5. /\ \A k \in 0 .. n : l[k] \in Nat
      /\ \A i, j \in 0 .. n : i < j => l[i] + w[i + 1] <= l[j]
  BY <1>1, StartsRise
<1> HIDE DEF n, f, w, l, ch
<1>6. Good(0)
  <2>1. << >> \in Seq(Tok) /\ Len(<< >>) = 0
    OBVIOUS
  <2>2. \A k \in 1 .. n : ~ (k <= 0)
    BY <1>1
  <2> QED
    BY <1>3, <1>4, <2>1, <2>2
<1>7. ASSUME NEW m \in 1 .. n, Good(m - 1) PROVE Good(m)
  <2>0. m - 1 \in 0 .. n /\ m \in 1 .. n /\ m - 1 < m
    BY <1>1
  <2> DEFINE s == f[m - 1]
             t == ch(m)
             both == s \o t
  <2>1. s \in Seq(Tok) /\ Len(s) = l[m - 1] /\ t \in Seq(Tok) /\ Len(t) = w[m]
    BY <1>2, <1>7
  <2>2. \A k \in 1 .. n, i \in Nat \ {0} : k <= m - 1 /\ i <= w[k] => s[l[k - 1] + i] = ch(k)[i]
    BY <1>7
  <2>3. f[m] = both /\ l[m] = l[m - 1] + w[m] /\ l[m - 1] \in Nat /\ w[m] \in Nat
    BY <1>2, <1>3, <1>4, <1>5, <2>0
  <2> HIDE DEF s, t, Good
  <2>4. /\ both \in Seq(Tok) /\ Len(both) = Len(s) + Len(t)
        /\ \A i \in 1 .. Len(s) + Len(t) : both[i] = IF i <= Len(s) THEN s[i] ELSE t[i - Len(s)]
    BY ONLY <2>1, ConcatProperties, Zenon
  <2> HIDE DEF both
  <2>5. ASSUME NEW k \in 1 .. n, NEW i \in Nat \ {0}, k <= m, i <= w[k]
        PROVE  both[l[k - 1] + i] = ch(k)[i]
    <3>1. k - 1 \in 0 .. n /\ l[k - 1] \in Nat /\ w[k] \in Nat
      BY <1>1, <1>2, <1>5
    <3>2. CASE k = m
      <4>1. l[k - 1] + i \in 1 .. Len(s) + Len(t) /\ ~ (l[k - 1] + i <= Len(s)) /\ (l[k - 1] + i) - Len(s) = i
        BY <2>1, <2>3, <2>5, <3>1, <3>2
      <4> QED
        BY <2>4, <3>2, <4>1 DEF t
    <3>3. CASE k # m
      <4>1. k <= m - 1 /\ k - 1 < m - 1 /\ (k - 1) + 1 = k
        BY <2>5, <3>3
      <4>2. l[k - 1] + w[k] <= l[m - 1]
        BY <1>5, <2>0, <3>1, <4>1
      <4>3. l[k - 1] + i \in 1 .. Len(s) + Len(t) /\ l[k - 1] + i <= Len(s)
        <5> DEFINE a == l[k - 1]
                   b == Len(s)
                   e == Len(t)
                   v == w[k]
        <5>1. a \in Nat /\ b \in Nat /\ e \in Nat /\ v \in Nat /\ i \in Nat /\ i > 0 /\ i <= v /\ a + v <= b
          BY <2>1, <2>3, <2>5, <3>1, <4>2
        <5> HIDE DEF a, b, e, v
        <5>2. a + i \in 1 .. b + e /\ a + i <= b
          BY <5>1
        <5> QED
          BY <5>2 DEF a, b, e
      <4>4. both[l[k - 1] + i] = s[l[k - 1] + i]
        BY <2>4, <4>3
      <4> QED
        BY <2>2, <2>5, <4>1, <4>4
    <3> QED
      BY <3>2, <3>3
  <2>6. f[m] \in Seq(Tok) /\ Len(f[m]) = l[m]
    BY <2>1, <2>3, <2>4
  <2> QED
    BY <2>3, <2>5, <2>6 DEF Good
<1>8. ASSUME Bad # {} PROVE FALSE
  <2>1. PICK m \in Bad : \A j \in Bad : m <= j
    <3>1. Bad \in SUBSET Nat
      OBVIOUS
    <3> HIDE DEF Bad
    <3> QED
      BY <1>8, <3>1, LeastOf
  <2>2. m \in 0 .. n /\ ~ Good(m)
    <3> HIDE DEF Good
    <3> QED
      BY <2>1
  <2>3. m # 0
    <3> HIDE DEF Good
    <3> QED
      BY <1>6, <2>2
  <2>4. m \in 1 .. n /\ m - 1 \in 0 .. n /\ ~ (m <= m - 1)
    BY <1>1, <2>2, <2>3
  <2>5. Good(m - 1)
    <3> HIDE DEF Good
    <3> QED
      BY <2>1, <2>4
  <2> HIDE DEF Good
  <2> QED
    BY <1>7, <2>2, <2>4, <2>5
<1>9. \A m \in 0 .. n : Good(m)
  <2> HIDE DEF Good
  <2> QED
    BY <1>8
<1> QED
  BY <1>9 DEF n, f, w, l, ch

(* Every place is in one of the frames or chunks. *)
LEMMA Located ==
    ASSUME NEW s \in Seq(Nat \ {0}), NEW j \in Nat, 0 < j, j <= Starts(s)[Len(s)]
    PROVE  \E k \in 1 .. Len(s) : Starts(s)[k - 1] < j /\ j <= Starts(s)[k - 1] + s[k]
<1> DEFINE n == Len(s)
           f == Starts(s)
           Past == {m \in 0 .. n : j <= f[m]}
<1>1. n \in Nat /\ f[0] = 0 /\ \A i \in 1 .. n : f[i] = f[i - 1] + s[i]
  <2>1. Len(s) \in Nat
    OBVIOUS
  <2> QED
    BY <2>1, StartsAre
<1>2. \A i \in 0 .. n : f[i] \in Nat
  BY StartsRise
<1>6. j <= f[n]
  OBVIOUS
<1> HIDE DEF n, f
<1>3. n \in Past
  BY <1>1, <1>6
<1>4. PICK m \in Past : \A i \in Past : m <= i
  <2>1. Past \in SUBSET Nat
    BY <1>1
  <2> HIDE DEF Past
  <2> QED
    BY <1>3, <2>1, LeastOf
<1>5. m \in 1 .. n /\ m - 1 \in 0 .. n /\ ~ (m <= m - 1)
  <2>1. m \in 0 .. n /\ j <= f[m]
    OBVIOUS
  <2>2. m # 0
    BY <1>1, <2>1
  <2> QED
    BY <1>1, <2>1, <2>2
<1>7. m - 1 \notin Past
  <2> HIDE DEF Past
  <2> QED
    BY <1>4, <1>5
<1>8. ~ (j <= f[m - 1])
  BY <1>5, <1>7
<1>9. f[m - 1] < j /\ j <= f[m - 1] + s[m]
  BY <1>1, <1>2, <1>5, <1>8
<1> QED
  BY <1>5, <1>9 DEF n, f

LEMMA TimesIs ==
    ASSUME NEW h \in Nat
    PROVE  Times(h, <<"head", 0>>) \in Seq(Tok) /\ Len(Times(h, <<"head", 0>>)) = h
<1> DEFINE x == <<"head", 0>>
           t == Times(h, x)
<1>1. x \in Tok
  BY TokIs
<1> HIDE DEF x
<1>2. t \in [1 .. h -> Tok]
  BY <1>1 DEF Times
<1> HIDE DEF t
<1>3. t \in Seq(Tok) /\ Len(t) = h
  BY <1>2
<1> QED
  BY <1>3 DEF t, x

(* What lies in front of the chunks, and behind them *)
LEMMA WireHas ==
    ASSUME NEW c \in Seq(Nat \ {0}), NEW h \in Nat, NEW q \in BOOLEAN
    PROVE  LET w == WireOf(h, q, c)
               u == Uptos(q, c)[Len(c)]
               n == Starts(Spread(q, c))[Len(c)]
           IN  /\ w \in Seq(Tok) /\ n \in Nat
               /\ Len(w) = IF q THEN h + n + 1 ELSE h + n
               /\ \A i \in 1 .. n : w[h + i] = u[i]
               /\ q => w[h + n + 1] = <<"size", 0>>
<1> DEFINE w == WireOf(h, q, c)
           u == Uptos(q, c)[Len(c)]
           n == Starts(Spread(q, c))[Len(c)]
           t == Times(h, <<"head", 0>>)
           e == IF q THEN <<<<"size", 0>>>> ELSE << >>
           tu == t \o u
           tue == tu \o e
<1>1. Len(c) \in 0 .. Len(c) /\ Len(Spread(q, c)) = Len(c) /\ Spread(q, c) \in Seq(Nat \ {0})
  BY SpreadIs
<1>2. u \in Seq(Tok) /\ Len(u) = n
  BY <1>1, UptosHave
<1>3. n \in Nat
  BY <1>1, StartsRise
<1>4. t \in Seq(Tok) /\ Len(t) = h
  BY TimesIs
<1>5. e \in Seq(Tok) /\ Len(e) = (IF q THEN 1 ELSE 0) /\ (q => e[1] = <<"size", 0>>)
  <2>1. <<"size", 0>> \in Tok
    BY TokIs
  <2>2. CASE q
    BY <2>1, <2>2
  <2>3. CASE ~q
    BY <2>3
  <2> QED
    BY <2>2, <2>3
<1>6. w = tue
  BY DEF WireOf
<1> HIDE DEF w, u, n, t, e
<1>7. /\ tu \in Seq(Tok) /\ Len(tu) = Len(t) + Len(u)
      /\ \A i \in 1 .. Len(t) + Len(u) : tu[i] = IF i <= Len(t) THEN t[i] ELSE u[i - Len(t)]
  BY ONLY <1>2, <1>4, ConcatProperties, Zenon
<1> HIDE DEF tu
<1>8. /\ tue \in Seq(Tok) /\ Len(tue) = Len(tu) + Len(e)
      /\ \A i \in 1 .. Len(tu) + Len(e) : tue[i] = IF i <= Len(tu) THEN tu[i] ELSE e[i - Len(tu)]
  <2>1. tu \in Seq(Tok) /\ e \in Seq(Tok)
    BY <1>5, <1>7
  <2> QED
    BY ONLY <2>1, ConcatProperties, Zenon
<1> HIDE DEF tue
<1>9. ASSUME NEW i \in 1 .. n PROVE tue[h + i] = u[i]
  <2> DEFINE j == h + i
  <2>1. j \in 1 .. Len(t) + Len(u) /\ ~ (j <= Len(t)) /\ j - Len(t) = i /\ j <= Len(tu) /\ j \in 1 .. Len(tu) + Len(e)
    BY <1>2, <1>3, <1>4, <1>5, <1>7
  <2> HIDE DEF j
  <2>2. tue[j] = u[i]
    BY <1>7, <1>8, <2>1
  <2> QED
    BY <2>2 DEF j
<1>10. ASSUME q PROVE tue[h + n + 1] = <<"size", 0>>
  <2> DEFINE j == h + n + 1
  <2>1. ~ (j <= Len(tu)) /\ j - Len(tu) = 1 /\ j \in 1 .. Len(tu) + Len(e)
    BY <1>2, <1>3, <1>4, <1>5, <1>7, <1>10
  <2> HIDE DEF j
  <2>2. tue[j] = e[1]
    BY <1>8, <2>1
  <2> QED
    BY <1>5, <1>10, <2>2 DEF j
<1>11. Len(tue) = IF q THEN h + n + 1 ELSE h + n
  BY <1>2, <1>3, <1>4, <1>5, <1>7, <1>8
<1> QED
  BY <1>3, <1>6, <1>8, <1>9, <1>10, <1>11 DEF w, u, n

LEMMA PlainWire ==
    ASSUME NEW c \in Seq(Nat \ {0}), NEW h \in Nat
    PROVE  LET w == WireOf(h, FALSE, c)
               n == Starts(c)[Len(c)]
           IN  w \in Seq(Tok) /\ n \in Nat /\ Len(w) = h + n /\ \A i \in 1 .. n : w[h + i] = <<"data", i>>
<1> DEFINE w == WireOf(h, FALSE, c)
           n == Starts(c)[Len(c)]
           u == Uptos(FALSE, c)[Len(c)]
           k0 == Len(c)
           f == Starts(c)
<1>1. Spread(FALSE, c) = c
  <2> DEFINE s == Spread(FALSE, c)
  <2>1. s \in Seq(Nat \ {0}) /\ Len(s) = Len(c) /\ \A k \in 1 .. Len(c) : s[k] = c[k]
    BY SpreadIs
  <2> HIDE DEF s
  <2>2. s = c
    BY <2>1, SeqEqual
  <2> QED
    BY <2>2 DEF s
<1>2. w \in Seq(Tok) /\ n \in Nat /\ Len(w) = h + n /\ \A i \in 1 .. n : w[h + i] = u[i]
  BY <1>1, WireHas
<1>3. \A k \in 1 .. k0, i \in Nat \ {0} :
         k <= k0 /\ i <= c[k] => u[f[k - 1] + i] = ChunkOf(FALSE, c, k)[i]
  <2> DEFINE s == Spread(FALSE, c)
  <2>1. k0 \in 0 .. k0
    OBVIOUS
  <2>2. \A k \in 1 .. k0, i \in Nat \ {0} :
           k <= k0 /\ i <= s[k] => u[Starts(s)[k - 1] + i] = ChunkOf(FALSE, c, k)[i]
    BY <2>1, UptosHave
  <2> HIDE DEF s, k0, u, f
  <2>3. s = c /\ Starts(s) = f
    BY <1>1 DEF s, f
  <2> QED
    BY <2>2, <2>3
<1>4. ASSUME NEW i \in 1 .. n PROVE u[i] = <<"data", i>>
  <2>1. i \in Nat /\ 0 < i /\ i <= f[Len(c)]
    BY <1>2
  <2>2. PICK k \in 1 .. Len(c) : f[k - 1] < i /\ i <= f[k - 1] + c[k]
    BY <2>1, Located
  <2>3. k \in Int /\ 1 <= k /\ k <= Len(c) /\ k - 1 \in 0 .. Len(c) /\ c[k] \in Nat
    OBVIOUS
  <2>4. f[k - 1] \in Nat
    BY <2>3, StartsRise
  <2> DEFINE p == i - f[k - 1]
  <2> HIDE DEF f, u, n
  <2>5. p \in 1 .. c[k] /\ p \in Nat \ {0} /\ p <= c[k] /\ f[k - 1] + p = i
    BY <2>1, <2>2, <2>3, <2>4
  <2> HIDE DEF p
  <2>6. u[i] = ChunkOf(FALSE, c, k)[p]
    BY <1>3, <2>2, <2>3, <2>5
  <2>7. ChunkOf(FALSE, c, k)[p] = <<"data", f[k - 1] + p>>
    BY <2>3, <2>5, ChunkIs DEF f
  <2> QED
    BY <2>5, <2>6, <2>7
<1> QED
  BY <1>2, <1>4

LEMMA ChunkedWire ==
    ASSUME NEW c \in Seq(Nat \ {0}), NEW h \in Nat
    PROVE  LET w == WireOf(h, TRUE, c)
               l == Starts(Spread(TRUE, c))
               d == Starts(c)
               n == Len(c)
           IN  /\ w \in Seq(Tok) /\ Len(w) = h + l[n] + 1 /\ l[0] = 0 /\ d[0] = 0
               /\ w[h + l[n] + 1] = <<"size", 0>>
               /\ \A k \in 0 .. n : l[k] \in Nat /\ d[k] \in Nat /\ d[k] <= l[k] /\ d[k] <= d[n] /\ l[k] <= l[n]
               /\ \A k \in 1 .. n :
                     /\ c[k] \in Nat /\ c[k] > 0 /\ l[k] = l[k - 1] + c[k] + 2 /\ d[k] = d[k - 1] + c[k]
                     /\ w[h + l[k - 1] + 1] = <<"size", c[k]>>
                     /\ \A p \in 1 .. c[k] : w[h + l[k - 1] + 1 + p] = <<"data", d[k - 1] + p>>
                     /\ w[h + l[k - 1] + c[k] + 2] = <<"eol", 0>>
<1> DEFINE w == WireOf(h, TRUE, c)
           s == Spread(TRUE, c)
           l == Starts(s)
           d == Starts(c)
           n == Len(c)
           u == Uptos(TRUE, c)[n]
<1>1. n \in Nat /\ n \in 0 .. n /\ \A k \in 1 .. n : c[k] \in Nat /\ c[k] > 0
  OBVIOUS
<1>2. s \in Seq(Nat \ {0}) /\ Len(s) = n /\ \A k \in 1 .. n : s[k] = c[k] + 2
  BY SpreadIs
<1>3. /\ w \in Seq(Tok) /\ l[n] \in Nat /\ Len(w) = h + l[n] + 1 /\ w[h + l[n] + 1] = <<"size", 0>>
      /\ \A i \in 1 .. l[n] : w[h + i] = u[i]
  BY WireHas
<1>4. \A k \in 1 .. n, i \in Nat \ {0} : k <= n /\ i <= s[k] => u[l[k - 1] + i] = ChunkOf(TRUE, c, k)[i]
  BY <1>1, UptosHave
<1>5. /\ l[0] = 0 /\ \A k \in 1 .. n : l[k] = l[k - 1] + s[k]
      /\ \A k \in 0 .. n : l[k] \in Nat
      /\ \A i, j \in 0 .. n : i < j => l[i] + s[i + 1] <= l[j]
  BY <1>1, <1>2, StartsAre, StartsRise
<1>6. /\ d[0] = 0 /\ \A k \in 1 .. n : d[k] = d[k - 1] + c[k]
      /\ \A k \in 0 .. n : d[k] \in Nat
      /\ \A i, j \in 0 .. n : i < j => d[i] + c[i + 1] <= d[j]
  BY <1>1, StartsAre, StartsRise
<1> HIDE DEF w, s, l, d, n, u
<1>7. \A k \in 0 .. n : d[k] <= l[k]
  <2> DEFINE Bad == {k \in 0 .. n : ~ (d[k] <= l[k])}
  <2>1. ASSUME Bad # {} PROVE FALSE
    <3>1. PICK m \in Bad : \A j \in Bad : m <= j
      <4>1. Bad \in SUBSET Nat
        OBVIOUS
      <4> HIDE DEF Bad
      <4> QED
        BY <2>1, <4>1, LeastOf
    <3>2. m \in 0 .. n /\ ~ (d[m] <= l[m]) /\ m # 0
      BY <1>5, <1>6
    <3>3. m \in 1 .. n /\ m - 1 \in 0 .. n /\ ~ (m <= m - 1)
      BY <1>1, <3>2
    <3>4. d[m - 1] <= l[m - 1]
      BY <3>1, <3>3
    <3>5. d[m] = d[m - 1] + c[m] /\ l[m] = l[m - 1] + (c[m] + 2) /\ c[m] \in Nat /\ d[m - 1] \in Nat /\ l[m - 1] \in Nat
      BY <1>1, <1>2, <1>5, <1>6, <3>3
    <3> QED
      BY <3>2, <3>4, <3>5
  <2> QED
    BY <2>1
<1>8. ASSUME NEW k \in 0 .. n PROVE d[k] <= d[n] /\ l[k] <= l[n]
  <2>1. CASE k = n
    BY <1>1, <1>5, <1>6, <2>1
  <2>2. CASE k # n
    <3>1. k < n /\ k + 1 \in 1 .. n /\ d[k] \in Nat /\ l[k] \in Nat /\ d[n] \in Nat /\ l[n] \in Nat
      BY <1>1, <1>5, <1>6, <2>2
    <3>2. d[k] + c[k + 1] <= d[n] /\ l[k] + s[k + 1] <= l[n]
      BY <1>1, <1>5, <1>6, <3>1
    <3>3. c[k + 1] \in Nat /\ s[k + 1] \in Nat
      BY <1>1, <1>2, <3>1
    <3> QED
      BY <3>1, <3>2, <3>3
  <2> QED
    BY <2>1, <2>2
<1>9. ASSUME NEW k \in 1 .. n
      PROVE  /\ w[h + l[k - 1] + 1] = <<"size", c[k]>>
             /\ \A p \in 1 .. c[k] : w[h + l[k - 1] + 1 + p] = <<"data", d[k - 1] + p>>
             /\ w[h + l[k - 1] + c[k] + 2] = <<"eol", 0>>
  <2> DEFINE a == l[k - 1]
             x == c[k]
             t == ChunkOf(TRUE, c, k)
  <2>1. k \in Int /\ 1 <= k /\ k <= Len(c) /\ k <= n /\ k - 1 \in 0 .. n /\ k \in 0 .. n
    BY <1>1 DEF n
  <2>2. t[1] = <<"size", x>> /\ (\A p \in 1 .. x : t[1 + p] = <<"data", d[k - 1] + p>>) /\ t[x + 2] = <<"eol", 0>>
    BY <2>1, ChunkIs DEF d
  <2>3. a \in Nat /\ x \in Nat /\ a + (x + 2) <= l[n] /\ l[n] \in Nat /\ s[k] = x + 2
    <3>1. l[k] = l[k - 1] + s[k] /\ l[k] <= l[n]
      BY <1>5, <1>8, <2>1
    <3> QED
      BY <1>1, <1>2, <1>3, <1>5, <2>1, <3>1
  <2>4. \A i \in Nat \ {0} : i <= x + 2 => u[a + i] = t[i]
    BY <1>4, <2>1, <2>3
  <2> HIDE DEF t, a, x
  <2>5. ASSUME NEW i \in Nat \ {0}, i <= x + 2 PROVE w[h + a + i] = t[i]
    <3> DEFINE j == a + i
    <3>1. j \in 1 .. l[n] /\ h + a + i = h + j
      BY <2>3, <2>5
    <3>2. u[j] = t[i]
      BY <2>4, <2>5
    <3> HIDE DEF j
    <3> QED
      BY <1>3, <3>1, <3>2
  <2>6. w[h + a + 1] = t[1]
    BY <2>3, <2>5
  <2>7. w[h + a + x + 2] = t[x + 2]
    <3>1. x + 2 \in Nat \ {0} /\ x + 2 <= x + 2 /\ h + a + (x + 2) = h + a + x + 2
      BY <2>3
    <3> QED
      BY <2>5, <3>1
  <2>8. ASSUME NEW p \in 1 .. x PROVE w[h + a + 1 + p] = t[1 + p]
    <3>1. 1 + p \in Nat \ {0} /\ 1 + p <= x + 2 /\ h + a + (1 + p) = h + a + 1 + p
      BY <2>3
    <3> QED
      BY <2>5, <3>1
  <2> QED
    BY <2>2, <2>6, <2>7, <2>8 DEF a, x
<1>10. \A k \in 1 .. n : l[k] = l[k - 1] + c[k] + 2
  <2> SUFFICES ASSUME NEW k \in 1 .. n PROVE l[k] = l[k - 1] + c[k] + 2
    OBVIOUS
  <2>1. k - 1 \in 0 .. n
    BY <1>1
  <2>2. l[k] = l[k - 1] + (c[k] + 2) /\ l[k - 1] \in Nat /\ c[k] \in Nat
    BY <1>1, <1>2, <1>5, <2>1
  <2> QED
    BY <2>2
<1>11. /\ \A k \in 0 .. n : l[k] \in Nat /\ d[k] \in Nat /\ d[k] <= l[k] /\ d[k] <= d[n] /\ l[k] <= l[n]
       /\ \A k \in 1 .. n :
             /\ c[k] \in Nat /\ c[k] > 0 /\ l[k] = l[k - 1] + c[k] + 2 /\ d[k] = d[k - 1] + c[k]
             /\ w[h + l[k - 1] + 1] = <<"size", c[k]>>
             /\ \A p \in 1 .. c[k] : w[h + l[k - 1] + 1 + p] = <<"data", d[k - 1] + p>>
             /\ w[h + l[k - 1] + c[k] + 2] = <<"eol", 0>>
  BY <1>1, <1>5, <1>6, <1>7, <1>8, <1>9, <1>10, Zenon
<1>12. /\ w \in Seq(Tok) /\ Len(w) = h + l[n] + 1 /\ l[0] = 0 /\ d[0] = 0
       /\ w[h + l[n] + 1] = <<"size", 0>>
  BY <1>3, <1>5, <1>6
<1> QED
  BY <1>11, <1>12, Zenon DEF w, s, l, d, n

-----------------------------------------------------------------------------
(* The calls *)

Busy == {"raw", "sent", "cookies", "decode", "close"}
Outs == [status : Int, location : Locations, cookies : Seq(CookieNames), chunked : BOOLEAN,
         chain : Seq(Urls), body : Seq(Tok)]

FollowInv ==
    /\ at \in {"idle", "hop"} \cup Busy
    /\ cur \in Urls \cup {NoUrl} /\ (at # "idle" => cur \in Urls)
    /\ hop \in 0 .. MaxRedirects /\ (at \in Busy => hop < MaxRedirects)
    /\ resp \in Outs /\ Len(resp.cookies) <= MaxCookies /\ Len(resp.chain) <= 1
    /\ at \in Busy \ {"raw"} => resp.chain = << >>

(* A response that the calls of net_tcp_recv bring, with the end of its    *)
(* head *)
Fits(r) == r.first <= r.arrives /\ r.arrives <= Len(Wire(r)) /\ HeadEnds(r)

BufInv ==
    /\ reply \in Responses /\ ip \in Nat /\ op \in Nat /\ op <= BufCap - Half - 1
    /\ at \in {"cookies", "decode"} => buf \in [1 .. BufCap -> Tok] /\ Fits(reply)

LEMMA SizesAre ==
    ASSUME HttpAssumption
    PROVE  /\ BufCap \in Nat /\ BufCap > 0 /\ MaxCookies \in Nat /\ MaxCookies > 0 /\ MaxRedirects \in Nat
           /\ MaxRedirects > 0 /\ JarSize \in Nat
           /\ Half \in Nat /\ Half + Half <= BufCap /\ 0 <= BufCap - Half - 1
<1>1. /\ BufCap \in Nat /\ BufCap > 0 /\ MaxCookies \in Nat /\ MaxCookies > 0 /\ MaxRedirects \in Nat
      /\ MaxRedirects > 0 /\ JarSize \in Nat
  BY DEF HttpAssumption
<1> QED
  BY <1>1 DEF Half

LEMMA LesserIs == \A i, j \in Int : Lesser(i, j) \in {i, j} /\ Lesser(i, j) <= i /\ Lesser(i, j) <= j
BY DEF Lesser

LEMMA FirstIs ==
    ASSUME NEW S \in SUBSET Nat, S # {}
    PROVE  First(S) \in S /\ \A j \in S : First(S) <= j
<1>1. \E i \in S : \A j \in S : i <= j
  BY LeastOf
<1> QED
  BY <1>1 DEF First

LEMMA Remainder ==
    ASSUME NEW a \in Nat, NEW m \in Nat, m > 0
    PROVE  a % m \in Nat /\ a % m <= a /\ (a < m => a % m = a)
<1>1. a % m \in 0 .. m - 1
  OBVIOUS
<1>2. CASE a < m
  <2>1. a % m = a
    BY <1>2
  <2> QED
    BY <2>1
<1>3. CASE ~ (a < m)
  BY <1>1, <1>3
<1> QED
  BY <1>2, <1>3

(* The buffer is filled with the response, and where the call that brings  *)
(* all of it is not cut off, it holds it from Skipped on.                  *)
LEMMA FilledIs ==
    ASSUME HttpAssumption, NEW r \in Responses, Fits(r)
    PROVE  /\ Filled(r) \in [1 .. BufCap -> Tok] /\ Wire(r) \in Seq(Tok) /\ Len(Wire(r)) \in Nat
           /\ Complete(r) /\ CopyEnd(r) < BufCap =>
                 \A i \in 1 .. Len(Wire(r)) : Filled(r)[Skipped(r) + i] = Wire(r)[i]
<1> DEFINE w == Wire(r)
           e == Len(w)
           f == r.first
           m == r.arrives
           s == Skipped(r)
           Src(i) == IF i <= f THEN i ELSE 1 + ((i - f - 1) % m)
           g == Filled(r)
<1>1. BufCap \in Nat /\ BufCap > 0
  BY SizesAre
<1>2. /\ f \in Nat /\ f > 0 /\ m \in Nat /\ m > 0 /\ f <= m /\ m <= e
      /\ r.chunks \in Seq(Nat \ {0}) /\ r.head \in Nat /\ r.chunked \in BOOLEAN
  BY DEF Responses, Fits
<1>3. w \in Seq(Tok) /\ e \in Nat
  <2>1. w = WireOf(r.head, r.chunked, r.chunks)
    BY WireIs
  <2>2. w \in Seq(Tok)
    BY <1>2, <2>1, WireHas
  <2> QED
    BY <2>2
<1>4. g = [i \in 1 .. BufCap |-> IF i = BufCap THEN <<"end", 0>> ELSE w[Src(i)]]
  BY DEF Filled
<1>5. s = IF f < r.head THEN f ELSE 0
  BY DEF Skipped
<1>6. Complete(r) <=> e = IF f < r.head THEN m ELSE f
  BY DEF Complete
<1>7. CopyEnd(r) = s + e
  BY DEF CopyEnd
<1> HIDE DEF w, e, f, m, s, g
<1>8. ASSUME NEW i \in 1 .. BufCap PROVE Src(i) \in 1 .. e
  <2>1. CASE i <= f
    BY <1>2, <1>3, <2>1
  <2>2. CASE ~ (i <= f)
    <3> DEFINE j == i - f - 1
    <3>1. j \in Nat
      BY <1>1, <1>2, <2>2
    <3> HIDE DEF j
    <3>2. j % m \in 0 .. m - 1
      BY <1>2, <3>1
    <3>3. 1 + (j % m) \in 1 .. e
      BY <1>2, <1>3, <3>2
    <3> QED
      BY <2>2, <3>3 DEF j
  <2> QED
    BY <2>1, <2>2
<1>9. g \in [1 .. BufCap -> Tok]
  <2>1. ASSUME NEW i \in 1 .. BufCap PROVE (IF i = BufCap THEN <<"end", 0>> ELSE w[Src(i)]) \in Tok
    <3>1. w[Src(i)] \in Tok
      BY <1>3, <1>8 DEF e
    <3> QED
      BY <3>1, TokIs
  <2> HIDE DEF Src
  <2> QED
    BY <1>4, <2>1
<1>10. ASSUME Complete(r), CopyEnd(r) < BufCap, NEW i \in 1 .. e PROVE g[s + i] = w[i]
  <2>1. s \in Nat /\ s + i \in 1 .. BufCap /\ s + i # BufCap
    BY <1>1, <1>2, <1>3, <1>5, <1>7, <1>10
  <2>2. Src(s + i) = i
    <3>1. CASE f < r.head
      <4> DEFINE j == i - 1
      <4>1. s = f /\ ~ (s + i <= f) /\ (s + i) - f - 1 = j /\ j \in Nat /\ j < m
        BY <1>2, <1>3, <1>5, <1>6, <1>10, <3>1
      <4> HIDE DEF j
      <4>2. j % m = j
        BY <1>2, <4>1, Remainder
      <4>3. Src(s + i) = 1 + j
        BY <4>1, <4>2
      <4> QED
        BY <1>3, <4>3 DEF j
    <3>2. CASE ~ (f < r.head)
      BY <1>2, <1>3, <1>5, <1>6, <1>10, <3>2
    <3> QED
      BY <3>1, <3>2
  <2> HIDE DEF Src
  <2> QED
    BY <1>4, <2>1, <2>2
<1> QED
  BY <1>3, <1>9, <1>10 DEF g, s, e, w

LEMMA TargetIsUrl ==
    ASSUME NEW l \in Locations, l # NoUrl, cur \in Urls
    PROVE  Target(l) \in Urls
<1>1. CASE l \in Urls
  <2>1. l.scheme # ""
    BY <1>1 DEF Urls
  <2> QED
    BY <1>1, <2>1 DEF Target
<1>2. CASE \E p \in Paths : l = Rooted(p)
  <2>1. PICK p \in Paths : l = [scheme |-> "", host |-> "", port |-> 80, path |-> p]
    BY <1>2 DEF Rooted
  <2>2. cur.host \in Servers
    BY DEF Urls
  <2>3. Target(l) = [scheme |-> "http", host |-> cur.host, port |-> 80, path |-> p]
    BY <2>1 DEF Target
  <2> QED
    BY <2>2, <2>3 DEF Urls
<1> QED
  BY <1>1, <1>2 DEF Locations

LEMMA ClearedIsOut ==
    ASSUME HttpAssumption
    PROVE  /\ Cleared \in Outs /\ Len(Cleared.cookies) = 0 /\ Cleared.chain = << >>
           /\ \A u \in Urls : LET o == [Cleared EXCEPT !.location = u]
                              IN  o \in Outs /\ Len(o.cookies) = 0 /\ o.chain = << >>
<1>1. /\ << >> \in Seq(CookieNames) /\ << >> \in Seq(Urls) /\ << >> \in Seq(Tok) /\ Len(<< >>) = 0
      /\ NoUrl \in Locations /\ Urls \subseteq Locations
  BY DEF Locations
<1>2. Cleared \in Outs /\ Cleared.cookies = << >> /\ Cleared.chain = << >>
  BY <1>1 DEF Cleared, Outs
<1>3. ASSUME NEW u \in Urls
      PROVE  LET o == [Cleared EXCEPT !.location = u]
             IN  o \in Outs /\ o.cookies = << >> /\ o.chain = << >>
  <2> DEFINE c == Cleared
  <2>1. u \in Locations /\ c \in Outs /\ c.cookies = << >> /\ c.chain = << >>
    BY <1>1, <1>2
  <2> HIDE DEF c
  <2>2. [c EXCEPT !.location = u] \in Outs
    BY <2>1 DEF Outs
  <2>3. [c EXCEPT !.location = u].cookies = c.cookies /\ [c EXCEPT !.location = u].chain = c.chain
    BY <2>1 DEF Outs
  <2> QED
    BY <2>1, <2>2, <2>3 DEF c
<1> QED
  BY <1>1, <1>2, <1>3

-----------------------------------------------------------------------------
(* decode_chunked *)

(* The copy of the response that its head is read from *)
Lies(r, b) == \A i \in 1 .. Len(Wire(r)) : b[Skipped(r) + i] = Wire(r)[i]

(* Where the decoder is while the whole response is in the first half of   *)
(* the buffer: at the size of a chunk; the data so far is in the second    *)
(* half.                                                                   *)
DecodeInv ==
    LET c == reply.chunks
        l == Starts(Spread(TRUE, c))
        d == Starts(c)
    IN  /\ Lies(reply, buf)
        /\ op <= d[Len(c)] /\ \A i \in 1 .. op : buf[Half + i] = <<"data", i>>
        /\ \E k \in 0 .. Len(c) : ip = l[k] /\ op = d[k]

(* The body begins in the buffer. *)
LEMMA BodyIs ==
    ASSUME HttpAssumption, BufInv, at \in {"cookies", "decode"}
    PROVE  /\ reply.head \in Nat /\ Skipped(reply) \in Nat /\ BodyAt \in Nat /\ InLen \in Nat
           /\ BodyAt = Skipped(reply) + reply.head /\ InLen = BufCap - 1 - BodyAt
<1>1. reply \in Responses /\ HeadEnds(reply)
  BY DEF BufInv, Fits
<1>2. reply.head \in Nat /\ reply.first \in Nat
  BY <1>1 DEF Responses
<1>3. Skipped(reply) \in Nat
  BY <1>2 DEF Skipped
<1>4. BufCap \in Nat
  BY SizesAre
<1>5. Skipped(reply) + reply.head < BufCap
  BY <1>1 DEF HeadEnds
<1> QED
  BY <1>2, <1>3, <1>4, <1>5 DEF BodyAt, InLen

(* Past the end of the line from i on, or to the end                       *)
LEMMA NextLineIs ==
    ASSUME NEW b, NEW i \in Nat, InLen \in Nat
    PROVE  /\ NextLine(b, i) \in Nat
           /\ i < InLen /\ In(b, i)[1] \in {"eol", "size"} => NextLine(b, i) = i + 1
<1> DEFINE ends == {k \in i .. InLen - 1 : In(b, k)[1] \in {"eol", "size", "head"}}
<1>1. NextLine(b, i) = IF ends = {} THEN Lesser(i, InLen) ELSE First(ends) + 1
  BY DEF NextLine
<1>2. ends \in SUBSET Nat /\ \A k \in ends : i <= k
  OBVIOUS
<1>4. i < InLen /\ In(b, i)[1] \in {"eol", "size"} => i \in ends
  OBVIOUS
<1> HIDE DEF ends
<1>5. Lesser(i, InLen) \in {i, InLen}
  BY DEF Lesser
<1>6. ASSUME ends # {} PROVE First(ends) \in Nat /\ i <= First(ends) /\ \A j \in ends : First(ends) <= j
  BY <1>2, <1>6, FirstIs
<1>7. NextLine(b, i) \in Nat
  BY <1>1, <1>5, <1>6
<1>8. ASSUME i < InLen, In(b, i)[1] \in {"eol", "size"} PROVE NextLine(b, i) = i + 1
  <2>1. i \in ends /\ ends # {}
    BY <1>4, <1>8
  <2>2. First(ends) = i
    BY <1>6, <2>1
  <2> QED
    BY <1>1, <2>1, <2>2
<1> QED
  BY <1>7, <1>8

(* What is taken lies in the buffer and has room in its second half. *)
LEMMA TakeIs ==
    ASSUME HttpAssumption, BufInv, at = "decode", Take > 0
    PROVE  /\ Size \in Nat /\ Data \in Nat /\ Take \in Nat
           /\ Take <= InLen - Data /\ Take <= BufCap - Half - 1 - op
<1> DEFINE x == Size
           y == InLen - Data
           z == BufCap - Half - 1 - op
           xy == Lesser(x, y)
           t == Take
<1>1. reply \in Responses /\ ip \in Nat /\ op \in Nat /\ buf \in [1 .. BufCap -> Tok]
  BY DEF BufInv
<1>2. BodyAt \in Nat /\ InLen \in Nat /\ InLen = BufCap - 1 - BodyAt
  BY BodyIs
<1>3. BufCap \in Nat /\ Half \in Nat
  BY SizesAre
<1>4. Data \in Nat
  BY <1>1, <1>2, NextLineIs DEF Data
<1>5. x \in Nat
  <2>1. CASE InLen <= ip \/ In(buf, ip)[1] = "eol"
    BY <2>1 DEF Size
  <2>2. CASE ~ (InLen <= ip \/ In(buf, ip)[1] = "eol")
    <3>1. BodyAt + ip + 1 \in 1 .. BufCap
      BY <1>1, <1>2, <1>3, <2>2
    <3>2. In(buf, ip) \in Tok
      BY <1>1, <3>1 DEF In
    <3>3. In(buf, ip)[2] \in Nat
      BY <3>2, TokIs
    <3>4. reply.stray \in Nat
      BY <1>1 DEF Responses
    <3> QED
      BY <2>2, <3>3, <3>4 DEF Size
  <2> QED
    BY <2>1, <2>2
<1>6. y \in Int /\ z \in Int
  BY <1>1, <1>2, <1>3, <1>4
<1>7. t = Lesser(xy, z) /\ t > 0
  BY DEF Take
<1> HIDE DEF x, y, z, t
<1>8. xy \in Int /\ xy <= x /\ xy <= y
  BY <1>5, <1>6, LesserIs
<1> HIDE DEF xy
<1>9. t \in Int /\ t <= xy /\ t <= z
  BY <1>6, <1>7, <1>8, LesserIs
<1>10. t \in Nat /\ t <= y /\ t <= z
  BY <1>5, <1>6, <1>7, <1>8, <1>9
<1> QED
  BY <1>4, <1>5, <1>10 DEF t, x, y, z

LEMMA CopiedTyped ==
    ASSUME HttpAssumption, NEW b \in [1 .. BufCap -> Tok], NEW to \in Nat, NEW from \in Nat,
           NEW n \in Nat, from + n <= BufCap
    PROVE  Copied(b, to, from, n) \in [1 .. BufCap -> Tok]
<1>1. BufCap \in Nat
  BY SizesAre
<1>2. ASSUME NEW i \in 1 .. BufCap, i - 1 \in to .. to + n - 1
      PROVE  b[1 + from + (IF to > from THEN (i - 1 - to) % (to - from) ELSE i - 1 - to)] \in Tok
  <2> DEFINE k == i - 1 - to
             e == IF to > from THEN k % (to - from) ELSE k
  <2>1. k \in Nat /\ k < n
    BY <1>1, <1>2
  <2> HIDE DEF k
  <2>2. e \in Nat /\ e <= k
    <3>1. CASE to > from
      <4> DEFINE m == to - from
      <4>1. m \in Nat /\ m > 0
        BY <3>1
      <4> HIDE DEF m
      <4>2. k % m \in Nat /\ k % m <= k
        BY <2>1, <4>1, Remainder
      <4> QED
        BY <3>1, <4>2 DEF m
    <3>2. CASE ~ (to > from)
      BY <2>1, <3>2
    <3> QED
      BY <3>1, <3>2
  <2> HIDE DEF e
  <2>3. 1 + from + e \in 1 .. BufCap
    BY <1>1, <2>1, <2>2
  <2>4. b[1 + from + e] \in Tok
    BY <2>3
  <2> QED
    BY <2>4 DEF e, k
<1>3. Copied(b, to, from, n) =
        [i \in 1 .. BufCap |->
            IF i - 1 \in to .. to + n - 1
            THEN b[1 + from + (IF to > from THEN (i - 1 - to) % (to - from) ELSE i - 1 - to)]
            ELSE b[i]]
  BY DEF Copied
<1> QED
  BY <1>2, <1>3

(* From the first half to the second one, a copy is that of its source.    *)
LEMMA CopiedApart ==
    ASSUME HttpAssumption, NEW b, NEW to \in Nat, NEW from \in Nat, NEW n \in Nat,
           from + n <= to, to + n <= BufCap
    PROVE  /\ \A i \in 1 .. to : Copied(b, to, from, n)[i] = b[i]
           /\ \A p \in 1 .. n : Copied(b, to, from, n)[to + p] = b[from + p]
<1>1. BufCap \in Nat
  BY SizesAre
<1> DEFINE g == Copied(b, to, from, n)
<1>2. \A i \in 1 .. BufCap :
         g[i] = IF i - 1 \in to .. to + n - 1
                THEN b[1 + from + (IF to > from THEN (i - 1 - to) % (to - from) ELSE i - 1 - to)]
                ELSE b[i]
  BY DEF Copied
<1> HIDE DEF g
<1>3. ASSUME NEW i \in 1 .. to PROVE g[i] = b[i]
  <2>1. i \in 1 .. BufCap /\ ~ (i - 1 \in to .. to + n - 1)
    BY <1>1
  <2> QED
    BY <1>2, <2>1
<1>4. ASSUME NEW p \in 1 .. n PROVE g[to + p] = b[from + p]
  <2> DEFINE i == to + p
             m == to - from
             k == p - 1
  <2>1. i \in 1 .. BufCap /\ i - 1 \in to .. to + n - 1 /\ to > from /\ i - 1 - to = k
    BY <1>1
  <2>2. m \in Nat /\ m > 0 /\ k \in Nat /\ k < m /\ 1 + from + k = from + p
    OBVIOUS
  <2> HIDE DEF i, m, k
  <2>3. k % m = k
    BY <2>2, Remainder
  <2>4. g[i] = b[1 + from + ((i - 1 - to) % (to - from))]
    BY <1>2, <2>1
  <2>5. (i - 1 - to) % (to - from) = k
    BY <2>1, <2>3 DEF m
  <2>6. g[i] = b[from + p]
    BY <2>2, <2>4, <2>5
  <2> QED
    BY <2>6 DEF i
<1> QED
  BY <1>3, <1>4 DEF g

(* A chunked response, by the places of its chunks                         *)
LEMMA ChunkedReply ==
    ASSUME HttpAssumption, BufInv, reply.chunked
    PROVE  LET c == reply.chunks
               h == reply.head
               w == Wire(reply)
               l == Starts(Spread(TRUE, c))
               d == Starts(c)
               n == Len(c)
           IN  /\ h \in Nat /\ h > 0 /\ n \in Nat
               /\ Len(w) = h + l[n] + 1 /\ l[0] = 0 /\ d[0] = 0
               /\ w[h + l[n] + 1] = <<"size", 0>>
               /\ \A k \in 0 .. n : l[k] \in Nat /\ d[k] \in Nat /\ d[k] <= l[k] /\ d[k] <= d[n] /\ l[k] <= l[n]
               /\ \A k \in 1 .. n :
                     /\ c[k] \in Nat /\ c[k] > 0 /\ l[k] = l[k - 1] + c[k] + 2 /\ d[k] = d[k - 1] + c[k]
                     /\ w[h + l[k - 1] + 1] = <<"size", c[k]>>
                     /\ \A p \in 1 .. c[k] : w[h + l[k - 1] + 1 + p] = <<"data", d[k - 1] + p>>
                     /\ w[h + l[k - 1] + c[k] + 2] = <<"eol", 0>>
<1> DEFINE c == reply.chunks
           h == reply.head
           v == WireOf(h, TRUE, c)
           l == Starts(Spread(TRUE, c))
           d == Starts(c)
           n == Len(c)
<1>1. c \in Seq(Nat \ {0}) /\ h \in Nat /\ h > 0 /\ reply.chunked = TRUE
  BY DEF BufInv, Responses
<1>2. Wire(reply) = v
  BY <1>1, WireIs
<1>3. n \in Nat
  BY <1>1
<1> HIDE DEF c, h
<1>4. /\ Len(v) = h + l[n] + 1 /\ l[0] = 0 /\ d[0] = 0
      /\ v[h + l[n] + 1] = <<"size", 0>>
      /\ \A k \in 0 .. n : l[k] \in Nat /\ d[k] \in Nat /\ d[k] <= l[k] /\ d[k] <= d[n] /\ l[k] <= l[n]
      /\ \A k \in 1 .. n :
            /\ c[k] \in Nat /\ c[k] > 0 /\ l[k] = l[k - 1] + c[k] + 2 /\ d[k] = d[k - 1] + c[k]
            /\ v[h + l[k - 1] + 1] = <<"size", c[k]>>
            /\ \A p \in 1 .. c[k] : v[h + l[k - 1] + 1 + p] = <<"data", d[k - 1] + p>>
            /\ v[h + l[k - 1] + c[k] + 2] = <<"eol", 0>>
  BY <1>1, ChunkedWire
<1> HIDE DEF v, l, d, n
<1> DEFINE w == Wire(reply)
<1>5. w = v
  BY <1>2
<1> HIDE DEF w
<1> QED
  BY <1>1, <1>3, <1>4, <1>5 DEF c, h, l, d, n, w

LEMMA DecodeStart ==
    ASSUME HttpAssumption, BufInv, reply.chunked, ip = 0, op = 0, Lies(reply, buf)
    PROVE  DecodeInv
<1> DEFINE c == reply.chunks
           l == Starts(Spread(TRUE, c))
           d == Starts(c)
           n == Len(c)
<1>1. n \in Nat /\ l[0] = 0 /\ d[0] = 0 /\ \A k \in 0 .. n : d[k] \in Nat
  BY ChunkedReply
<1> HIDE DEF l, d, n
<1>2. 0 \in 0 .. n /\ n \in 0 .. n
  BY <1>1
<1>3. op <= d[n] /\ (\A i \in 1 .. op : FALSE) /\ \E k \in 0 .. n : ip = l[k] /\ op = d[k]
  BY <1>1, <1>2
<1> QED
  BY <1>3 DEF DecodeInv, l, d, n

(* At the size of a chunk all of its data is taken, and at the size 0      *)
(* behind the last one nothing, whatever lies behind.                      *)
LEMMA AtChunk ==
    ASSUME HttpAssumption, BufInv, at = "decode", reply.chunked, CopyEnd(reply) <= Half, Lies(reply, buf),
           NEW k0 \in 0 .. Len(reply.chunks),
           ip = Starts(Spread(TRUE, reply.chunks))[k0], op = Starts(reply.chunks)[k0]
    PROVE  LET n == Len(reply.chunks)
               l == Starts(Spread(TRUE, reply.chunks))
           IN  /\ k0 = n => Take <= 0
               /\ k0 # n => /\ Take = reply.chunks[k0 + 1] /\ Size = Take /\ Data = ip + 1
                            /\ BodyAt + l[k0 + 1] < Half
<1> DEFINE c == reply.chunks
           h == reply.head
           w == Wire(reply)
           l == Starts(Spread(TRUE, c))
           d == Starts(c)
           n == Len(c)
           s == Skipped(reply)
           z == BufCap - Half - 1 - op
           y == InLen - Data
<1>1. /\ h \in Nat /\ h > 0 /\ n \in Nat
      /\ Len(w) = h + l[n] + 1
      /\ w[h + l[n] + 1] = <<"size", 0>>
      /\ \A k \in 0 .. n : l[k] \in Nat /\ d[k] \in Nat /\ d[k] <= l[k] /\ d[k] <= d[n] /\ l[k] <= l[n]
      /\ \A k \in 1 .. n :
            /\ c[k] \in Nat /\ c[k] > 0 /\ l[k] = l[k - 1] + c[k] + 2 /\ d[k] = d[k - 1] + c[k]
            /\ w[h + l[k - 1] + 1] = <<"size", c[k]>>
  <2> HIDE DEF BufInv
  <2> QED
    BY ChunkedReply
<1>2. /\ s \in Nat /\ BodyAt \in Nat /\ InLen \in Nat /\ BodyAt = s + h /\ InLen = BufCap - 1 - BodyAt
  BY BodyIs
<1>3. BufCap \in Nat /\ Half \in Nat /\ Half + Half <= BufCap
  BY SizesAre
<1>4. s + Len(w) <= Half
  BY DEF CopyEnd
<1>5. \A i \in 1 .. Len(w) : buf[s + i] = w[i]
  BY DEF Lies
<1> HIDE DEF w, l, d, h, s
<1>6. ip = l[k0] /\ op = d[k0] /\ k0 \in 0 .. n /\ n \in 0 .. n
  BY <1>1 DEF l, d
<1> DEFINE u == l[k0]
           r == l[n]
           e == Len(w)
<1>7. /\ ip \in Nat /\ op \in Nat /\ op <= ip /\ ip = u /\ u <= r /\ u \in Nat /\ r \in Nat
      /\ h \in Nat /\ h > 0 /\ e = h + r + 1
  BY <1>1, <1>6
<1>13. s + e <= Half /\ \A i \in 1 .. e : buf[s + i] = w[i]
  BY <1>4, <1>5
<1>14. w[h + r + 1] = <<"size", 0>>
  BY <1>1
<1> HIDE DEF u, r, e
<1>8. ip < InLen /\ BodyAt + r < Half
  <2>1. s + e <= Half
    BY <1>13
  <2> QED
    BY ONLY <1>2, <1>3, <1>7, <2>1
<1>9. In(buf, ip) = w[h + u + 1]
  <2> DEFINE j == h + u + 1
  <2>1. j \in 1 .. e /\ BodyAt + ip + 1 = s + j
    BY ONLY <1>2, <1>7
  <2> HIDE DEF j
  <2>2. buf[s + j] = w[j]
    BY <1>13, <2>1
  <2> QED
    BY <2>1, <2>2 DEF In, j
<1>10. ASSUME NEW v, In(buf, ip) = <<"size", v>>
       PROVE  Size = v /\ Data = ip + 1
  <2>1. In(buf, ip)[1] = "size" /\ In(buf, ip)[2] = v
    <3>1. <<"size", v>>[1] = "size" /\ <<"size", v>>[2] = v
      OBVIOUS
    <3> QED
      BY <1>10, <3>1, Zenon
  <2>2. Size = v
    <3>1. ~ (InLen <= ip) /\ "size" # "eol"
      BY ONLY <1>2, <1>7, <1>8
    <3> DEFINE unit == In(buf, ip)
    <3>2. unit[1] = "size" /\ unit[2] = v
      BY <2>1
    <3>3. Size = IF InLen <= ip \/ unit[1] = "eol" THEN 0 ELSE IF unit[1] = "size" THEN unit[2] ELSE reply.stray
      BY DEF Size
    <3> HIDE DEF unit
    <3> QED
      BY <3>1, <3>2, <3>3
  <2>3. NextLine(buf, ip) = ip + 1
    <3>1. In(buf, ip)[1] \in {"eol", "size"}
      BY <2>1
    <3> QED
      BY <1>2, <1>7, <1>8, <3>1, NextLineIs
  <2> QED
    BY <2>2, <2>3 DEF Data
<1>11. ASSUME k0 = n PROVE Take <= 0
  <2>1. Size = 0 /\ Data = ip + 1
    <3>1. u = r
      BY <1>11 DEF u, r
    <3> QED
      BY <1>9, <1>10, <1>14, <3>1
  <2>2. y \in Int /\ z \in Int
    <3>1. Data \in Int
      BY <1>7, <2>1
    <3> QED
      BY <1>2, <1>3, <1>7, <3>1
  <2>3. Take = Lesser(Lesser(0, y), z)
    BY <2>1 DEF Take
  <2> HIDE DEF y, z
  <2>4. Lesser(0, y) \in Int /\ Lesser(0, y) <= 0
    BY <2>2, LesserIs
  <2> DEFINE o == Lesser(0, y)
  <2>5. o \in Int /\ o <= 0
    BY <2>4
  <2> HIDE DEF o
  <2>6. Lesser(o, z) \in Int /\ Lesser(o, z) <= o
    BY <2>2, <2>5, LesserIs
  <2>7. Lesser(o, z) <= 0
    BY <2>5, <2>6
  <2> QED
    BY <2>3, <2>7 DEF o
<1>12. ASSUME k0 # n
       PROVE  Take = c[k0 + 1] /\ Size = Take /\ Data = ip + 1 /\ BodyAt + l[k0 + 1] < Half
  <2> DEFINE k == k0 + 1
             x == c[k]
             q == l[k]
  <2>1. k \in 1 .. n /\ k \in 0 .. n /\ k - 1 = k0
    BY <1>1, <1>6, <1>12
  <2> HIDE DEF k
  <2>2. x \in Nat /\ x > 0 /\ q = u + x + 2 /\ q \in Nat /\ q <= r /\ w[h + u + 1] = <<"size", x>>
    BY <1>1, <2>1 DEF u, r
  <2> HIDE DEF x, q
  <2>3. Size = x /\ Data = ip + 1
    BY <1>9, <1>10, <2>2
  <2>4. BodyAt + q < Half
    BY <1>2, <1>3, <1>7, <1>8, <2>2
  <2> DEFINE da == Data
  <2>5. da = ip + 1 /\ y = InLen - da /\ z = BufCap - Half - 1 - op
    BY <2>3
  <2> HIDE DEF da, y, z
  <2>6. y \in Int /\ z \in Int /\ x <= y /\ x <= z
    <3>1. y = InLen - (ip + 1) /\ InLen >= Half + Half - 1 - BodyAt /\ q = ip + x + 2
      BY ONLY <1>2, <1>3, <1>7, <2>2, <2>5
    <3>2. y \in Int /\ x <= y
      BY <1>2, <1>3, <1>7, <2>2, <2>4, <3>1
    <3>3. z \in Int /\ x <= z
      <4>1. op + x + 2 <= q /\ BodyAt \in Nat /\ q < Half
        BY ONLY <1>2, <1>3, <1>7, <2>2, <2>4, <3>1
      <4>2. z \in Int /\ Half <= z + op + 1
        BY ONLY <1>3, <1>7, <2>5
      <4>3. op \in Nat /\ x \in Nat /\ q \in Nat /\ Half \in Nat
        BY <1>3, <1>7, <2>2
      <4> QED
        BY ONLY <4>1, <4>2, <4>3
    <3> QED
      BY <3>2, <3>3
  <2>7. Take = Lesser(Lesser(x, y), z)
    BY <2>3 DEF Take, y, z
  <2>8. Lesser(x, y) = x /\ Lesser(x, z) = x
    BY <2>2, <2>6 DEF Lesser
  <2> QED
    BY <2>3, <2>4, <2>7, <2>8 DEF k, x, q
<1> QED
  BY <1>11, <1>12 DEF l

(* A turn of the loop takes a whole chunk and goes on to the next size.    *)
LEMMA ChunkDecoded ==
    ASSUME HttpAssumption, BufInv, DecodeInv, reply.chunked, CopyEnd(reply) <= Half, DecodeChunk
    PROVE  DecodeInv'
<1> DEFINE c == reply.chunks
           h == reply.head
           w == Wire(reply)
           l == Starts(Spread(TRUE, c))
           d == Starts(c)
           n == Len(c)
           s == Skipped(reply)
           e == Len(w)
           t == Take
           from == BodyAt + Data
           to == Half + op
           i0 == Data + Size
           nx == NextLine(buf', i0)
           g == Copied(buf, to, from, t)
<1>1. /\ h \in Nat /\ h > 0 /\ n \in Nat
      /\ Len(w) = h + l[n] + 1 /\ l[0] = 0 /\ d[0] = 0
      /\ w[h + l[n] + 1] = <<"size", 0>>
      /\ \A k \in 0 .. n : l[k] \in Nat /\ d[k] \in Nat /\ d[k] <= l[k] /\ d[k] <= d[n] /\ l[k] <= l[n]
      /\ \A k \in 1 .. n :
            /\ c[k] \in Nat /\ c[k] > 0 /\ l[k] = l[k - 1] + c[k] + 2 /\ d[k] = d[k - 1] + c[k]
            /\ w[h + l[k - 1] + 1] = <<"size", c[k]>>
            /\ \A p \in 1 .. c[k] : w[h + l[k - 1] + 1 + p] = <<"data", d[k - 1] + p>>
            /\ w[h + l[k - 1] + c[k] + 2] = <<"eol", 0>>
  <2> HIDE DEF BufInv, DecodeInv, DecodeChunk
  <2> QED
    BY ChunkedReply
<1>2. /\ at = "decode" /\ t > 0
      /\ buf' = g /\ op' = op + t /\ ip' = nx /\ reply' = reply
  BY DEF DecodeChunk
<1>3. /\ s \in Nat /\ BodyAt \in Nat /\ InLen \in Nat /\ BodyAt = s + h /\ InLen = BufCap - 1 - BodyAt
  BY <1>2, BodyIs
<1>4. BufCap \in Nat /\ Half \in Nat /\ Half + Half <= BufCap
  BY SizesAre
<1>5. s + e <= Half
  BY DEF CopyEnd
<1>6. /\ \A i \in 1 .. e : buf[s + i] = w[i]
      /\ op <= d[n] /\ \A i \in 1 .. op : buf[Half + i] = <<"data", i>>
      /\ \E k \in 0 .. n : ip = l[k] /\ op = d[k]
  BY DEF DecodeInv, Lies
<1>7. PICK k0 \in 0 .. n : ip = l[k0] /\ op = d[k0]
  BY <1>6
<1>8. /\ k0 # n
      /\ t = c[k0 + 1] /\ Size = t /\ Data = ip + 1 /\ BodyAt + l[k0 + 1] < Half
  <2>1. Lies(reply, buf)
    BY DEF DecodeInv
  <2> HIDE DEF BufInv, DecodeInv, DecodeChunk
  <2>2. k0 = n => t <= 0
    BY <1>2, <1>7, <2>1, AtChunk
  <2>3. k0 # n => t = c[k0 + 1] /\ Size = t /\ Data = ip + 1 /\ BodyAt + l[k0 + 1] < Half
    BY <1>2, <1>7, <2>1, AtChunk
  <2>4. k0 # n
    <3>1. SUFFICES ASSUME k0 = n PROVE FALSE
      OBVIOUS
    <3>2. t <= 0 /\ t > 0
      BY <1>2, <2>2, <3>1
    <3>3. t \in Nat
      BY <1>2, TakeIs
    <3> HIDE DEF t
    <3> QED
      BY <3>2, <3>3
  <2> QED
    BY <2>3, <2>4
<1>9. from = BodyAt + Data /\ to = Half + op /\ i0 = Data + Size
  OBVIOUS
<1> HIDE DEF l, d, n, w, e, h, s, t, from, to, i0, g, nx
<1> DEFINE k == k0 + 1
           u == l[k0]
           q == l[k]
           r == l[n]
           v == d[k]
           m == d[n]
           f == d[k0]
<1>10. k \in 1 .. n /\ k \in 0 .. n /\ k - 1 = k0 /\ n \in 0 .. n
  BY <1>1, <1>7, <1>8
<1> HIDE DEF k
<1>11. /\ t \in Nat /\ t > 0 /\ t = c[k] /\ u \in Nat /\ f \in Nat /\ f <= u
       /\ q = u + t + 2 /\ v = f + t /\ q <= r /\ r \in Nat /\ q \in Nat
       /\ v <= m /\ m \in Nat /\ BodyAt + q < Half /\ e = h + r + 1 /\ h \in Nat /\ h > 0
       /\ ip = u /\ op = f /\ Data = ip + 1 /\ Size = t
  BY <1>1, <1>7, <1>8, <1>10, SMTT(30) DEF k, e
<1>20. /\ \A p \in 1 .. t : w[h + u + 1 + p] = <<"data", f + p>>
       /\ w[h + u + t + 2] = <<"eol", 0>>
  <2>1. /\ \A p \in 1 .. c[k] : w[h + u + 1 + p] = <<"data", f + p>>
        /\ w[h + u + c[k] + 2] = <<"eol", 0>>
    BY <1>1, <1>10
  <2> QED
    BY <1>11, <2>1
<1> HIDE DEF u, q, r, v, m, f
<1>13. /\ from = s + (h + ip + 1) /\ from \in Nat /\ to \in Nat /\ from + t <= to /\ to + t <= BufCap
  <2>1. from = BodyAt + (ip + 1) /\ to = Half + op
    BY <1>9, <1>11
  <2> QED
    BY <1>3, <1>4, <1>11, <2>1
<1>14. /\ \A i \in 1 .. to : buf'[i] = buf[i]
       /\ \A p \in 1 .. t : buf'[to + p] = buf[from + p]
  <2>0. t \in Nat /\ from \in Nat /\ to \in Nat /\ from + t <= to /\ to + t <= BufCap
    BY <1>11, <1>13
  <2>1. /\ \A i \in 1 .. to : Copied(buf, to, from, t)[i] = buf[i]
        /\ \A p \in 1 .. t : Copied(buf, to, from, t)[to + p] = buf[from + p]
    BY ONLY HttpAssumption, <2>0, CopiedApart
  <2> QED
    BY <1>2, <2>1 DEF g
<1>15. \A i \in 1 .. e : buf'[s + i] = w[i]
  <2> SUFFICES ASSUME NEW i \in 1 .. e PROVE buf'[s + i] = w[i]
    OBVIOUS
  <2>1. s + i \in 1 .. to
    BY <1>3, <1>4, <1>5, <1>9, <1>11
  <2> QED
    BY <1>6, <1>14, <2>1
<1>16. \A i \in 1 .. op + t : buf'[Half + i] = <<"data", i>>
  <2> SUFFICES ASSUME NEW i \in 1 .. op + t PROVE buf'[Half + i] = <<"data", i>>
    OBVIOUS
  <2>1. CASE i <= op
    <3>1. i \in 1 .. op /\ Half + i \in 1 .. to
      BY <1>4, <1>9, <1>11, <2>1
    <3> QED
      BY <1>6, <1>14, <3>1
  <2>2. CASE ~ (i <= op)
    <3> DEFINE p == i - op
               j == h + ip + 1 + p
    <3>1. p \in 1 .. t /\ Half + i = to + p /\ op + p = i
      BY <1>4, <1>9, <1>11, <2>2
    <3> HIDE DEF p
    <3>2. j \in 1 .. e /\ s + j = from + p
      BY <1>3, <1>11, <1>13, <3>1
    <3>3. w[j] = <<"data", op + p>>
      BY <1>11, <1>20, <3>1
    <3> HIDE DEF j
    <3>4. buf[from + p] = w[j]
      BY <1>6, <3>2
    <3> QED
      BY <1>14, <3>1, <3>3, <3>4
  <2> QED
    BY <2>1, <2>2
<1>17. nx = ip + t + 2
  <2> DEFINE j == h + ip + t + 2
  <2>1. i0 = ip + 1 + t /\ i0 \in Nat /\ i0 < InLen
    BY <1>3, <1>4, <1>8, <1>9, <1>11
  <2>2. j \in 1 .. e /\ s + j = BodyAt + i0 + 1
    BY <1>3, <1>11, <2>1
  <2>3. w[j] = <<"eol", 0>>
    BY <1>11, <1>20
  <2> HIDE DEF j
  <2>4. In(buf', i0) = <<"eol", 0>>
    BY <1>15, <2>2, <2>3 DEF In
  <2>5. In(buf', i0)[1] \in {"eol", "size"}
    BY <2>4
  <2>6. NextLine(buf', i0) = i0 + 1
    BY <1>3, <2>1, <2>5, NextLineIs
  <2> QED
    BY <1>11, <2>1, <2>6 DEF nx
<1>18. ip' = l[k] /\ op' = d[k] /\ op' <= d[n]
  BY <1>2, <1>11, <1>17 DEF q, v, m
<1>19. \E j \in 0 .. n : ip' = l[j] /\ op' = d[j]
  BY <1>10, <1>18
<1> QED
  BY <1>2, <1>15, <1>16, <1>18, <1>19 DEF DecodeInv, Lies, e, s, l, d, n, w

(* The body that the server means *)
LEMMA WholeIs ==
    ASSUME NEW r \in Responses
    PROVE  LET m == Starts(r.chunks)[Len(r.chunks)]
           IN  m \in Nat /\ Whole(r) \in Seq(Tok) /\ Len(Whole(r)) = m /\ \A i \in 1 .. m : Whole(r)[i] = <<"data", i>>
<1> DEFINE c == r.chunks
           n == Len(c)
           m == Starts(c)[n]
           v == Whole(r)
<1>1. c \in Seq(Nat \ {0})
  BY DEF Responses
<1>2. n \in Nat /\ m \in Nat
  <2>1. n \in 0 .. n /\ n \in Nat
    BY <1>1
  <2> HIDE DEF n, c
  <2>2. Starts(c)[n] \in Nat
    BY <1>1, <2>1, StartsRise DEF n
  <2> QED
    BY <2>1, <2>2 DEF n, c
<1>3. v = [i \in 1 .. m |-> <<"data", i>>]
  <2>1. Before(r, n + 1) = Starts(c)[(n + 1) - 1]
    BY BeforeIs
  <2>2. (n + 1) - 1 = n
    BY <1>2
  <2> QED
    BY <2>1, <2>2 DEF Whole
<1> HIDE DEF v, m
<1>4. v \in [1 .. m -> Tok]
  <2>1. \A i \in 1 .. m : <<"data", i>> \in Tok
    <3>1. \A i \in 1 .. m : i \in Nat
      BY <1>2
    <3> QED
      BY <3>1, TokIs
  <2> QED
    BY <1>3, <2>1
<1>5. v \in Seq(Tok) /\ Len(v) = m
  BY <1>2, <1>4
<1> QED
  BY <1>2, <1>3, <1>5 DEF v, m, c, n

(* Data from the first piece to the last is the body that the server means.*)
LEMMA Meant ==
    ASSUME NEW r \in Responses, NEW b \in Seq(Tok), Len(b) = Starts(r.chunks)[Len(r.chunks)],
           \A i \in 1 .. Len(b) : b[i] = <<"data", i>>
    PROVE  b = Whole(r)
<1> DEFINE m == Starts(r.chunks)[Len(r.chunks)]
           v == Whole(r)
<1>1. v \in Seq(Tok) /\ Len(v) = m /\ \A i \in 1 .. m : v[i] = <<"data", i>>
  BY WholeIs
<1>2. Len(b) = m
  OBVIOUS
<1> HIDE DEF v, m
<1>3. \A i \in 1 .. Len(b) : b[i] = v[i]
  BY <1>1, <1>2
<1> QED
  BY <1>1, <1>2, <1>3, SeqEqual DEF v

(* A body that is not chunked comes first, in front of the next copy. *)
LEMMA PlainSound ==
    ASSUME HttpAssumption, BufInv, at = "cookies", ~ reply.chunked, Lies(reply, buf), CopyEnd(reply) < BufCap
    PROVE  SubSeq(SubSeq(buf, BodyAt + 1, BufCap - 1), 1, Len(Whole(reply))) = Whole(reply)
<1> DEFINE w == Wire(reply)
           h == reply.head
           s == Skipped(reply)
           m == Starts(reply.chunks)[Len(reply.chunks)]
           b == SubSeq(buf, BodyAt + 1, BufCap - 1)
           a == SubSeq(b, 1, m)
<1>1. reply \in Responses /\ buf \in [1 .. BufCap -> Tok]
  BY DEF BufInv
<1>2. h \in Nat /\ s \in Nat /\ BodyAt \in Nat /\ InLen \in Nat /\ BodyAt = s + h /\ InLen = BufCap - 1 - BodyAt
  BY BodyIs
<1>3. BufCap \in Nat
  BY SizesAre
<1>4. m \in Nat /\ Len(Whole(reply)) = m
  BY <1>1, WholeIs
<1>5. Len(w) = h + m /\ \A i \in 1 .. m : w[h + i] = <<"data", i>>
  <2>1. reply.chunks \in Seq(Nat \ {0}) /\ reply.chunked = FALSE
    BY <1>1 DEF Responses
  <2>2. w = WireOf(h, FALSE, reply.chunks)
    BY <2>1, WireIs
  <2> DEFINE v == WireOf(h, FALSE, reply.chunks)
  <2>3. Len(v) = h + m /\ \A i \in 1 .. m : v[h + i] = <<"data", i>>
    BY <1>2, <2>1, PlainWire
  <2> HIDE DEF v, m, w
  <2>4. w = v
    BY <2>2 DEF v
  <2> QED
    BY <2>3, <2>4
<1>6. s + Len(w) < BufCap /\ \A i \in 1 .. Len(w) : buf[s + i] = w[i]
  BY DEF CopyEnd, Lies
<1> HIDE DEF w, h, s, m
<1>7. m <= InLen
  BY <1>2, <1>3, <1>4, <1>5, <1>6
<1>8. b \in Seq(Tok) /\ Len(b) = InLen /\ \A i \in 1 .. InLen : b[i] = buf[BodyAt + i]
  <2> DEFINE x == BodyAt + 1
             y == BufCap - 1
  <2>1. x \in Int /\ y \in Int /\ y - x + 1 = InLen /\ (x <= y <=> InLen > 0) /\ \A i \in x .. y : i \in 1 .. BufCap
    BY <1>2, <1>3
  <2>2. \A i \in x .. y : buf[i] \in Tok
    BY <1>1, <2>1
  <2>3. \A i \in 1 .. InLen : x + i - 1 = BodyAt + i
    BY <1>2
  <2> HIDE DEF x, y
  <2> DEFINE v == SubSeq(buf, x, y)
  <2>4. /\ v \in Seq(Tok) /\ Len(v) = (IF x <= y THEN y - x + 1 ELSE 0)
        /\ \A i \in 1 .. y - x + 1 : v[i] = buf[x + i - 1]
    BY <2>1, <2>2, SubSeqProperties
  <2>5. b = v
    BY DEF b, x, y
  <2> HIDE DEF v, b
  <2>6. Len(b) = InLen
    BY <1>2, <2>1, <2>4, <2>5
  <2> QED
    BY <2>1, <2>3, <2>4, <2>5, <2>6
<1> HIDE DEF b
<1>9. a \in Seq(Tok) /\ Len(a) = m /\ \A i \in 1 .. m : a[i] = b[i]
  BY <1>2, <1>4, <1>7, <1>8, SubSeqProperties
<1> HIDE DEF a
<1>10. ASSUME NEW i \in 1 .. m PROVE a[i] = <<"data", i>>
  <2>1. h + i \in 1 .. Len(w) /\ s + (h + i) = BodyAt + i /\ i \in 1 .. InLen
    BY <1>2, <1>4, <1>5, <1>7
  <2>2. b[i] = buf[s + (h + i)]
    BY <1>8, <2>1
  <2> QED
    BY <1>5, <1>6, <1>9, <2>1, <2>2
<1>11. a = Whole(reply)
  BY <1>1, <1>9, <1>10, Meant DEF m
<1> QED
  BY <1>4, <1>11 DEF a, b

(* The loop ends at the size 0 behind the last chunk. *)
LEMMA DecodedSound ==
    ASSUME HttpAssumption, BufInv, DecodeInv, at = "decode", reply.chunked, CopyEnd(reply) <= Half, Take <= 0
    PROVE  SubSeq(buf, Half + 1, Half + op) = Whole(reply)
<1> DEFINE c == reply.chunks
           l == Starts(Spread(TRUE, c))
           d == Starts(c)
           n == Len(c)
           b == SubSeq(buf, Half + 1, Half + op)
           m == d[n]
<1>1. op \in Nat /\ reply \in Responses
  BY DEF BufInv
<1>2. /\ n \in Nat /\ \A k \in 1 .. n : c[k] \in Nat /\ c[k] > 0
  <2> HIDE DEF BufInv, DecodeInv
  <2> QED
    BY ChunkedReply
<1>3. BufCap \in Nat /\ Half \in Nat
  BY SizesAre
<1>4. Lies(reply, buf) /\ \A i \in 1 .. op : buf[Half + i] = <<"data", i>>
  BY DEF DecodeInv
<1>5. PICK k0 \in 0 .. n : ip = l[k0] /\ op = d[k0]
  BY DEF DecodeInv
<1>6. op = m
  <2>1. k0 # n => Take = c[k0 + 1]
    <3> HIDE DEF BufInv, DecodeInv
    <3> QED
      BY <1>4, <1>5, AtChunk
  <2>2. k0 = n
    <3> SUFFICES ASSUME k0 # n PROVE FALSE
      OBVIOUS
    <3>1. k0 + 1 \in 1 .. n
      BY <1>2, <1>5
    <3>2. c[k0 + 1] \in Nat /\ c[k0 + 1] > 0
      BY <1>2, <3>1
    <3> DEFINE x == c[k0 + 1]
    <3>3. x \in Nat /\ x > 0 /\ x <= 0
      BY <2>1, <3>2
    <3> HIDE DEF x
    <3> QED
      BY <3>3
  <2> QED
    BY <1>5, <2>2
<1> HIDE DEF l, d, b, m
<1>7. b \in Seq(Tok) /\ Len(b) = op /\ \A i \in 1 .. op : b[i] = <<"data", i>>
  <2> DEFINE x == Half + 1
             y == Half + op
  <2>1. x \in Int /\ y \in Int /\ y - x + 1 = op /\ (x <= y <=> op > 0)
    BY <1>1, <1>3
  <2>2. \A i \in x .. y : buf[i] \in Tok
    <3> SUFFICES ASSUME NEW i \in x .. y PROVE buf[i] \in Tok
      OBVIOUS
    <3> DEFINE j == i - Half
    <3>1. j \in 1 .. op /\ i = Half + j /\ j \in Nat
      BY <1>1, <1>3
    <3> HIDE DEF j
    <3>2. buf[i] = <<"data", j>>
      BY <1>4, <3>1
    <3> QED
      BY <3>1, <3>2, TokIs
  <2> HIDE DEF x, y
  <2> DEFINE v == SubSeq(buf, x, y)
  <2>3. /\ v \in Seq(Tok) /\ Len(v) = (IF x <= y THEN y - x + 1 ELSE 0)
        /\ \A i \in 1 .. y - x + 1 : v[i] = buf[x + i - 1]
    BY <2>1, <2>2, SubSeqProperties
  <2>4. b = v
    BY DEF b, x, y
  <2> HIDE DEF v
  <2>5. Len(v) = op
    BY <1>1, <2>1, <2>3
  <2>6. ASSUME NEW i \in 1 .. op PROVE v[i] = <<"data", i>>
    <3>1. i \in 1 .. y - x + 1 /\ x + i - 1 = Half + i
      BY <1>1, <1>3, <2>1 DEF x
    <3> QED
      BY <1>4, <2>3, <3>1
  <2> QED
    BY <2>3, <2>4, <2>5, <2>6
<1>8. Len(b) = Starts(reply.chunks)[Len(reply.chunks)]
  BY <1>6, <1>7 DEF m, d
<1> QED
  BY <1>1, <1>7, <1>8, Meant DEF b

(* What a step does to *out                                                *)
LEMMA OutIs ==
    ASSUME NEW o \in Outs
    PROVE  /\ o.cookies \in Seq(CookieNames) /\ o.chain \in Seq(Urls) /\ o.location \in Locations
           /\ \A v \in Seq(CookieNames) : LET p == [o EXCEPT !.cookies = v]
                                          IN  p \in Outs /\ p.cookies = v /\ p.chain = o.chain
           /\ \A v \in Seq(Tok) : LET p == [o EXCEPT !.body = v]
                                  IN  p \in Outs /\ p.cookies = o.cookies /\ p.chain = o.chain /\ p.body = v
           /\ \A v \in Seq(Urls) : LET p == [o EXCEPT !.chain = v]
                                   IN  p \in Outs /\ p.cookies = o.cookies /\ p.chain = v
           /\ \A s \in Int, v \in Locations, q \in BOOLEAN :
                 LET p == [o EXCEPT !.status = s, !.location = v, !.chunked = q]
                 IN  p \in Outs /\ p.cookies = o.cookies /\ p.chain = o.chain
<1>1. o.cookies \in Seq(CookieNames) /\ o.chain \in Seq(Urls) /\ o.location \in Locations
  BY DEF Outs
<1>2. ASSUME NEW v \in Seq(CookieNames)
      PROVE  LET p == [o EXCEPT !.cookies = v]
             IN  p \in Outs /\ p.cookies = v /\ p.chain = o.chain
  BY DEF Outs
<1>3. ASSUME NEW v \in Seq(Tok)
      PROVE  LET p == [o EXCEPT !.body = v]
             IN  p \in Outs /\ p.cookies = o.cookies /\ p.chain = o.chain /\ p.body = v
  BY DEF Outs
<1>4. ASSUME NEW v \in Seq(Urls)
      PROVE  LET p == [o EXCEPT !.chain = v]
             IN  p \in Outs /\ p.cookies = o.cookies /\ p.chain = v
  BY DEF Outs
<1>5. ASSUME NEW s \in Int, NEW v \in Locations, NEW q \in BOOLEAN
      PROVE  LET p == [o EXCEPT !.status = s, !.location = v, !.chunked = q]
             IN  p \in Outs /\ p.cookies = o.cookies /\ p.chain = o.chain
  BY DEF Outs
<1> QED
  BY <1>1, <1>2, <1>3, <1>4, <1>5

(* The bodies that HeadersDone and Decoded take from the buffer            *)
LEMMA BodiesTyped ==
    ASSUME HttpAssumption, BufInv
    PROVE  /\ at = "cookies" => SubSeq(buf, BodyAt + 1, BufCap - 1) \in Seq(Tok)
           /\ at = "decode" => SubSeq(buf, Half + 1, Half + op) \in Seq(Tok)
<1>1. /\ reply \in Responses /\ op \in Nat /\ op <= BufCap - Half - 1
      /\ at \in {"cookies", "decode"} => buf \in [1 .. BufCap -> Tok]
  BY DEF BufInv
<1>2. BufCap \in Nat /\ Half \in Nat
  BY SizesAre
<1>3. ASSUME at = "cookies" PROVE SubSeq(buf, BodyAt + 1, BufCap - 1) \in Seq(Tok)
  <2> DEFINE x == BodyAt + 1
             y == BufCap - 1
  <2>1. BodyAt \in Nat
    BY <1>3, BodyIs
  <2>2. x \in Int /\ y \in Int /\ \A i \in x .. y : i \in 1 .. BufCap
    BY <1>2, <2>1
  <2>3. \A i \in x .. y : buf[i] \in Tok
    BY <1>1, <1>3, <2>2
  <2> HIDE DEF x, y
  <2>4. SubSeq(buf, x, y) \in Seq(Tok)
    BY <2>2, <2>3, SubSeqProperties
  <2> QED
    BY <2>4 DEF x, y
<1>4. ASSUME at = "decode" PROVE SubSeq(buf, Half + 1, Half + op) \in Seq(Tok)
  <2> DEFINE x == Half + 1
             y == Half + op
  <2>1. x \in Int /\ y \in Int /\ \A i \in x .. y : i \in 1 .. BufCap
    BY <1>1, <1>2
  <2>2. \A i \in x .. y : buf[i] \in Tok
    BY <1>1, <1>4, <2>1
  <2> HIDE DEF x, y
  <2>3. SubSeq(buf, x, y) \in Seq(Tok)
    BY <2>1, <2>2, SubSeqProperties
  <2> QED
    BY <2>3 DEF x, y
<1> QED
  BY <1>3, <1>4

LEMMA FollowInit ==
    ASSUME HttpAssumption, HttpInit
    PROVE  FollowInv
<1>1. Cleared \in Outs /\ Len(Cleared.cookies) = 0 /\ Cleared.chain = << >> /\ Len(Cleared.chain) = 0
  BY ClearedIsOut
<1>2. MaxRedirects \in Nat /\ MaxCookies \in Nat
  BY SizesAre
<1> QED
  BY <1>1, <1>2 DEF HttpInit, FollowInv, Busy

LEMMA FollowNext ==
    ASSUME HttpAssumption, FollowInv, BufInv, [HttpNext]_httpVars
    PROVE  FollowInv'
<1> DEFINE Out(o) == o \in Outs /\ Len(o.cookies) <= MaxCookies
<1>1. /\ MaxRedirects \in Nat /\ MaxRedirects > 0 /\ MaxCookies \in Nat /\ MaxCookies > 0
      /\ 0 \in 0 .. MaxRedirects
  BY SizesAre
<1>2. /\ Out(Cleared) /\ Cleared.chain = << >> /\ Len(<< >>) = 0
      /\ \A u \in Urls : Out([Cleared EXCEPT !.location = u]) /\ [Cleared EXCEPT !.location = u].chain = << >>
  <2>1. 0 <= MaxCookies /\ Len(<< >>) = 0
    BY <1>1
  <2> QED
    BY <2>1, ClearedIsOut
<1>3. /\ at \in {"idle", "hop"} \cup Busy
      /\ cur \in Urls \cup {NoUrl} /\ (at # "idle" => cur \in Urls)
      /\ hop \in 0 .. MaxRedirects /\ (at \in Busy => hop < MaxRedirects)
      /\ Out(resp) /\ Len(resp.chain) <= 1
      /\ at \in Busy \ {"raw"} => resp.chain = << >>
  BY DEF FollowInv
<1>4. ASSUME /\ at' \in {"idle", "hop"} \cup Busy
             /\ cur' \in Urls \cup {NoUrl} /\ (at' # "idle" => cur' \in Urls)
             /\ hop' \in 0 .. MaxRedirects /\ (at' \in Busy => hop' < MaxRedirects)
             /\ Out(resp') /\ Len(resp'.chain) <= 1
             /\ at' \in Busy \ {"raw"} => resp'.chain = << >>
      PROVE  FollowInv'
  BY <1>4 DEF FollowInv
<1> HIDE DEF FollowInv, Out
<1>5. CASE NotFollowed
  <2>1. at = "hop" /\ at' = "idle" /\ cur' = cur /\ hop' = hop
    BY <1>5 DEF NotFollowed, FollowReturns
  <2>2. resp' = resp \/ resp' = [Cleared EXCEPT !.location = cur]
    BY <1>5 DEF NotFollowed
  <2>3. Out(resp') /\ Len(resp'.chain) <= 1
    <3>1. CASE resp' = resp
      BY <1>3, <3>1
    <3>2. CASE resp' = [Cleared EXCEPT !.location = cur]
      <4>1. Out(resp') /\ resp'.chain = << >>
        BY <1>2, <1>3, <2>1, <3>2
      <4> QED
        BY <1>2, <4>1
    <3> QED
      BY <2>2, <3>1, <3>2
  <2> QED
    BY <1>3, <1>4, <2>1, <2>3 DEF Busy
<1>6. CASE Hop
  <2>1. at = "hop" /\ at' = "raw" /\ cur' = cur /\ hop' = hop /\ resp' = resp /\ hop < MaxRedirects
    BY <1>6 DEF Hop
  <2> QED
    BY <1>3, <1>4, <2>1 DEF Busy
<1>7. CASE Unreachable \/ NoResponse
  <2>1. at' = "idle" /\ cur' = cur /\ hop' = hop /\ resp' = Cleared
    BY <1>7 DEF Unreachable, NoResponse, RawFails
  <2>2. Out(resp') /\ Len(resp'.chain) <= 1
    BY <1>2, <2>1
  <2> QED
    BY <1>3, <1>4, <2>1, <2>2 DEF Busy
<1>8. CASE Request
  <2>1. at = "raw" /\ at' = "sent" /\ cur' = cur /\ hop' = hop /\ resp' = Cleared
    BY <1>8 DEF Request
  <2>2. Out(resp') /\ Len(resp'.chain) <= 1 /\ resp'.chain = << >>
    BY <1>2, <2>1
  <2> QED
    BY <1>3, <1>4, <2>1, <2>2 DEF Busy
<1>9. CASE Response
  <2>1. PICK r \in Replies :
          resp' = [resp EXCEPT !.status = r.status, !.location = r.location, !.chunked = r.chunked]
    <3> HIDE DEF HttpAssumption
    <3> QED
      BY <1>9 DEF Response
  <2>2. at = "sent" /\ at' = "cookies" /\ cur' = cur /\ hop' = hop
    BY <1>9 DEF Response
  <2>3. r.status \in Int /\ r.location \in Locations /\ r.chunked \in BOOLEAN
    BY DEF HttpAssumption, Responses
  <2>4. resp' \in Outs /\ resp'.cookies = resp.cookies /\ resp'.chain = resp.chain
    <3> DEFINE code == r.status
               lo == r.location
               ch == r.chunked
    <3>1. code \in Int /\ lo \in Locations /\ ch \in BOOLEAN /\ resp \in Outs
      BY <1>3, <2>3 DEF Out
    <3> HIDE DEF code, lo, ch
    <3> DEFINE o == [resp EXCEPT !.status = code, !.location = lo, !.chunked = ch]
    <3>2. o \in Outs /\ o.cookies = resp.cookies /\ o.chain = resp.chain
      BY <3>1 DEF Outs
    <3>3. resp' = o
      BY <2>1 DEF code, lo, ch
    <3> QED
      BY <3>2, <3>3
  <2> QED
    BY <1>3, <1>4, <2>2, <2>4 DEF Busy, Out
<1>10. CASE SetCookie
  <2> DEFINE n == Head(reply.cookies)
             s == resp.cookies
             v == IF Len(s) < MaxCookies THEN Append(s, n) ELSE s
  <2>1. at = "cookies" /\ at' = at /\ cur' = cur /\ hop' = hop /\ resp' = [resp EXCEPT !.cookies = v] /\ reply.cookies # << >>
    BY <1>10 DEF SetCookie, place
  <2>2. n \in CookieNames
    <3>1. reply.cookies \in Seq(CookieNames)
      BY DEF BufInv, Responses
    <3> QED
      BY <2>1, <3>1
  <2>3. s \in Seq(CookieNames) /\ Len(s) <= MaxCookies
    BY <1>3, OutIs DEF Out
  <2>4. v \in Seq(CookieNames) /\ Len(v) <= MaxCookies
    <3> HIDE DEF n, s
    <3>1. Append(s, n) \in Seq(CookieNames) /\ Len(Append(s, n)) = Len(s) + 1 /\ Len(s) \in Nat
      BY <2>2, <2>3
    <3> QED
      BY <1>1, <2>3, <3>1
  <2> HIDE DEF v
  <2>5. resp' \in Outs /\ resp'.cookies = v /\ resp'.chain = resp.chain
    BY <1>3, <2>1, <2>4, OutIs DEF Out
  <2> QED
    BY <1>3, <1>4, <2>1, <2>4, <2>5 DEF Busy, Out
<1>11. CASE HeadersDone
  <2> DEFINE v == SubSeq(buf, BodyAt + 1, BufCap - 1)
  <2>1. at = "cookies" /\ at' \in {"decode", "close"} /\ cur' = cur /\ hop' = hop /\ (resp' = resp \/ resp' = [resp EXCEPT !.body = v])
    BY <1>11 DEF HeadersDone
  <2>2. v \in Seq(Tok)
    BY <2>1, BodiesTyped
  <2> HIDE DEF v
  <2>3. resp' \in Outs /\ resp'.cookies = resp.cookies /\ resp'.chain = resp.chain
    <3>1. CASE resp' = resp
      BY <1>3, <3>1 DEF Out
    <3>2. CASE resp' = [resp EXCEPT !.body = v]
      BY <1>3, <2>2, <3>2, OutIs DEF Out
    <3> QED
      BY <2>1, <3>1, <3>2
  <2> QED
    BY <1>3, <1>4, <2>1, <2>3 DEF Busy, Out
<1>12. CASE DecodeChunk
  <2>1. at' = at /\ cur' = cur /\ hop' = hop /\ resp' = resp
    BY <1>12 DEF DecodeChunk, place
  <2> QED
    BY <1>3, <1>4, <2>1
<1>13. CASE Decoded
  <2> DEFINE v == SubSeq(buf, Half + 1, Half + op)
  <2>1. at = "decode" /\ at' = "close" /\ cur' = cur /\ hop' = hop /\ resp' = [resp EXCEPT !.body = v]
    BY <1>13 DEF Decoded
  <2>2. v \in Seq(Tok)
    BY <2>1, BodiesTyped
  <2> HIDE DEF v
  <2>3. resp' \in Outs /\ resp'.cookies = resp.cookies /\ resp'.chain = resp.chain
    BY <1>3, <2>1, <2>2, OutIs DEF Out
  <2> QED
    BY <1>3, <1>4, <2>1, <2>3 DEF Busy, Out
<1>14. CASE Redirect
  <2> DEFINE v == Append(resp.chain, cur)
  <2>1. at = "close" /\ at' = "hop" /\ cur' = Target(resp.location) /\ hop' = hop + 1 /\ resp.location # NoUrl
        /\ resp' = [resp EXCEPT !.chain = v]
    BY <1>14 DEF Redirect, Redirects
  <2>2. cur \in Urls /\ hop < MaxRedirects /\ hop \in Nat /\ resp.chain = << >>
    BY <1>3, <2>1 DEF Busy
  <2>3. v \in Seq(Urls) /\ Len(v) = 1
    BY <2>2
  <2> HIDE DEF v
  <2>4. resp' \in Outs /\ resp'.cookies = resp.cookies /\ resp'.chain = v
    BY <1>3, <2>1, <2>3, OutIs DEF Out
  <2>5. cur' \in Urls
    <3>1. resp.location \in Locations
      BY <1>3, OutIs DEF Out
    <3> QED
      BY <2>1, <2>2, <3>1, TargetIsUrl
  <2>6. hop' \in 0 .. MaxRedirects
    BY <1>1, <2>1, <2>2
  <2> QED
    <3>1. Out(resp') /\ Len(resp'.chain) <= 1
      <4>1. Len(resp.cookies) <= MaxCookies
        BY <1>3 DEF Out
      <4>2. Out(resp')
        BY <2>4, <4>1 DEF Out
      <4>3. Len(resp'.chain) = 1
        BY <2>3, <2>4
      <4> QED
        BY <4>2, <4>3
    <3>2. at' = "hop" /\ at' \notin Busy
      BY <2>1 DEF Busy
    <3> QED
      BY <1>4, <2>5, <2>6, <3>1, <3>2
<1>15. CASE Got
  <2>1. at = "close" /\ at' = "idle" /\ cur' = cur /\ hop' = hop /\ resp' = resp
    BY <1>15 DEF Got, FollowReturns
  <2> QED
    BY <1>3, <1>4, <2>1 DEF Busy
<1>16. CASE \E u \in Urls : Start(u)
  <2>1. PICK u \in Urls : at' = "hop" /\ cur' = u /\ hop' = 0 /\ resp' = [resp EXCEPT !.chain = << >>]
    BY <1>16 DEF Start
  <2>2. << >> \in Seq(Urls)
    OBVIOUS
  <2>3. resp' \in Outs /\ resp'.cookies = resp.cookies /\ resp'.chain = << >>
    BY <1>3, <2>1, <2>2, OutIs DEF Out
  <2> QED
    BY <1>1, <1>2, <1>3, <1>4, <2>1, <2>3 DEF Busy, Out
<1>17. CASE UNCHANGED httpVars
  <2>1. at' = at /\ cur' = cur /\ hop' = hop /\ resp' = resp
    BY <1>17 DEF httpVars, place
  <2> QED
    BY <1>3, <1>4, <2>1
<1> QED
  BY <1>5, <1>6, <1>7, <1>8, <1>9, <1>10, <1>11, <1>12, <1>13, <1>14, <1>15, <1>16, <1>17 DEF HttpNext, Client

(* The cookies that a response sets are no part of its body. *)
LEMMA CookiesApart ==
    ASSUME NEW r \in Responses, NEW v \in Seq(CookieNames)
    PROVE  LET t == [r EXCEPT !.cookies = v]
           IN  /\ t \in Responses /\ t.chunked = r.chunked /\ (Fits(r) => Fits(t))
               /\ Wire(t) = Wire(r) /\ Skipped(t) = Skipped(r) /\ CopyEnd(t) = CopyEnd(r)
               /\ (Complete(t) <=> Complete(r)) /\ Filled(t) = Filled(r)
               /\ \A b : Lies(t, b) <=> Lies(r, b)
<1> DEFINE t == [r EXCEPT !.cookies = v]
<1>1. /\ t \in Responses /\ t.head = r.head /\ t.chunked = r.chunked /\ t.chunks = r.chunks
      /\ t.first = r.first /\ t.arrives = r.arrives
  BY DEF Responses
<1> HIDE DEF t
<1>2. Wire(t) = Wire(r)
  BY <1>1, WireIs
<1>3. Skipped(t) = Skipped(r)
  BY <1>1 DEF Skipped
<1>4. Fits(r) => Fits(t)
  BY <1>1, <1>2, <1>3 DEF Fits, HeadEnds
<1>5. CopyEnd(t) = CopyEnd(r) /\ (Complete(t) <=> Complete(r))
  BY <1>1, <1>2, <1>3, Zenon DEF CopyEnd, Complete
<1>6. Filled(t) = Filled(r)
  BY <1>1, <1>2, Zenon DEF Filled
<1>7. \A b : Lies(t, b) <=> Lies(r, b)
  BY <1>2, <1>3, Zenon DEF Lies
<1> QED
  BY <1>1, <1>2, <1>3, <1>4, <1>5, <1>6, <1>7 DEF t

(* The head that is read again sets its cookies again. *)
LEMMA CookiesAgain ==
    ASSUME NEW r \in Responses, NEW k \in 0 .. (IF Skipped(r) = 0 THEN 0 ELSE Len(r.cookies))
    PROVE  SubSeq(r.cookies, 1, k) \o r.cookies \in Seq(CookieNames)
<1> DEFINE c == r.cookies
<1>1. c \in Seq(CookieNames) /\ Len(c) \in Nat
  BY DEF Responses
<1> HIDE DEF c
<1>2. k \in Nat /\ k <= Len(c)
  BY <1>1 DEF c
<1>3. SubSeq(c, 1, k) \in Seq(CookieNames)
  BY <1>1, <1>2, SubSeqProperties
<1>4. SubSeq(c, 1, k) \o c \in Seq(CookieNames)
  BY <1>1, <1>3, ConcatProperties
<1> QED
  BY <1>4 DEF c

(* What comes is one of the responses, read in the buffer it fills. *)
LEMMA ResponseIs ==
    ASSUME HttpAssumption, Response
    PROVE  /\ reply' \in Responses /\ Fits(reply') /\ buf' = Filled(reply')
           /\ ip' = 0 /\ op' = 0 /\ at' = "cookies"
<1>1. PICK r \in {s \in Replies : HeadEnds(s)} :
        /\ \E again \in 0 .. (IF Skipped(r) = 0 THEN 0 ELSE Len(r.cookies)) :
              reply' = [r EXCEPT !.cookies = SubSeq(@, 1, again) \o @]
        /\ buf' = Filled(r)
  BY Zenon DEF Response
<1>2. PICK again \in 0 .. (IF Skipped(r) = 0 THEN 0 ELSE Len(r.cookies)) :
         reply' = [r EXCEPT !.cookies = SubSeq(@, 1, again) \o @]
  BY <1>1
<1>3. r \in Responses /\ Fits(r)
  BY DEF HttpAssumption, Fits
<1> DEFINE v == SubSeq(r.cookies, 1, again) \o r.cookies
<1>4. v \in Seq(CookieNames) /\ reply' = [r EXCEPT !.cookies = v]
  BY <1>2, <1>3, CookiesAgain
<1> HIDE DEF v
<1>5. reply' \in Responses /\ Fits(reply') /\ Filled(reply') = Filled(r)
  BY <1>3, <1>4, CookiesApart
<1>6. ip' = 0 /\ op' = 0 /\ at' = "cookies"
  BY DEF Response
<1> QED
  BY <1>1, <1>5, <1>6

LEMMA BufInit ==
    ASSUME HttpAssumption, HttpInit
    PROVE  BufInv
<1>1. reply = NoReply /\ ip = 0 /\ op = 0 /\ at = "idle"
  BY DEF HttpInit
<1>2. NoReply \in Responses
  <2>1. << >> \in Seq(CookieNames) /\ << >> \in Seq(Nat \ {0}) /\ NoUrl \in Locations
    BY DEF Locations
  <2> QED
    BY <2>1 DEF NoReply, Responses
<1>3. 0 <= BufCap - Half - 1
  BY SizesAre
<1> QED
  BY <1>1, <1>2, <1>3 DEF BufInv

LEMMA BufNext ==
    ASSUME HttpAssumption, BufInv, [HttpNext]_httpVars
    PROVE  BufInv'
<1>1. /\ reply \in Responses /\ ip \in Nat /\ op \in Nat /\ op <= BufCap - Half - 1
      /\ at \in {"cookies", "decode"} => buf \in [1 .. BufCap -> Tok] /\ Fits(reply)
  BY DEF BufInv
<1>2. /\ BufCap \in Nat /\ Half \in Nat /\ 0 <= BufCap - Half - 1
  BY SizesAre
<1>3. ASSUME /\ reply' \in Responses /\ ip' \in Nat /\ op' \in Nat /\ op' <= BufCap - Half - 1
             /\ at' \in {"cookies", "decode"} => buf' \in [1 .. BufCap -> Tok] /\ Fits(reply')
      PROVE  BufInv'
  BY <1>3 DEF BufInv
<1>4. CASE /\ NotFollowed \/ Hop \/ Unreachable \/ Request \/ NoResponse \/ HeadersDone \/ Decoded
              \/ Redirect \/ Got \/ (\E u \in Urls : Start(u)) \/ UNCHANGED httpVars
  <2>1. /\ reply' = reply /\ buf' = buf /\ ip' = ip /\ op' = op
        /\ at' \in {"cookies", "decode"} => at \in {"cookies", "decode"}
    BY <1>4 DEF NotFollowed, FollowReturns, Hop, Unreachable, NoResponse, RawFails, Request, HeadersDone,
                Decoded, Redirect, Got, Start, httpVars, place, incoming
  <2> HIDE DEF BufInv
  <2> QED
    BY <1>1, <1>3, <2>1
<1>5. CASE Response
  <2>1. /\ reply' \in Responses /\ Fits(reply') /\ buf' = Filled(reply')
        /\ ip' = 0 /\ op' = 0
    BY <1>5, ResponseIs
  <2>2. buf' \in [1 .. BufCap -> Tok]
    BY <2>1, FilledIs
  <2> QED
    BY <1>2, <1>3, <2>1, <2>2
<1>6. CASE SetCookie
  <2>1. /\ reply.cookies # << >> /\ reply' = [reply EXCEPT !.cookies = Tail(@)]
        /\ at' = at /\ buf' = buf /\ ip' = ip /\ op' = op
    BY <1>6 DEF SetCookie, place
  <2>2. reply' \in Responses /\ (Fits(reply) => Fits(reply'))
    <3>1. Tail(reply.cookies) \in Seq(CookieNames)
      <4>1. reply.cookies \in Seq(CookieNames)
        BY <1>1 DEF Responses
      <4> QED
        BY <2>1, <4>1
    <3> QED
      BY <1>1, <2>1, <3>1, CookiesApart
  <2> QED
    BY <1>1, <1>3, <2>1, <2>2
<1>7. CASE DecodeChunk
  <2> DEFINE t == Take
             to == Half + op
             from == BodyAt + Data
             i0 == Data + Size
  <2>1. /\ at = "decode" /\ t > 0 /\ buf' = Copied(buf, to, from, t)
        /\ op' = op + t /\ ip' = NextLine(buf', i0) /\ reply' = reply /\ at' = at
    BY <1>7 DEF DecodeChunk, place
  <2>2. /\ Size \in Nat /\ Data \in Nat /\ t \in Nat
        /\ t <= InLen - Data /\ t <= BufCap - Half - 1 - op
    BY <2>1, TakeIs
  <2>3. BodyAt \in Nat /\ InLen \in Nat /\ InLen = BufCap - 1 - BodyAt
    BY <2>1, BodyIs
  <2>4. to \in Nat /\ from \in Nat /\ from + t <= BufCap /\ i0 \in Nat
    BY <1>1, <1>2, <2>2, <2>3
  <2>5. buf \in [1 .. BufCap -> Tok] /\ Fits(reply)
    BY <1>1, <2>1
  <2> HIDE DEF t, to, from, i0
  <2>6. buf' \in [1 .. BufCap -> Tok]
    BY <2>1, <2>2, <2>4, <2>5, CopiedTyped
  <2>7. ip' \in Nat
    BY <2>1, <2>3, <2>4, NextLineIs
  <2>8. op' \in Nat /\ op' <= BufCap - Half - 1
    BY <1>1, <1>2, <2>1, <2>2
  <2> QED
    BY <1>1, <1>3, <2>1, <2>5, <2>6, <2>7, <2>8
<1> QED
  BY <1>4, <1>5, <1>6, <1>7 DEF HttpNext, Client

(* The body on its way: it is in the buffer, is being decoded, and has     *)
(* been.                                                                   *)
BodyInv ==
    /\ at = "cookies" => ip = 0 /\ op = 0 /\ (Complete(reply) /\ CopyEnd(reply) < BufCap => Lies(reply, buf))
    /\ at = "decode" => reply.chunked /\ (Complete(reply) /\ CopyEnd(reply) <= Half => DecodeInv)
    /\ BodyDecoded

LEMMA BodyNext ==
    ASSUME HttpAssumption, FollowInv, BufInv, BodyInv, [HttpNext]_httpVars
    PROVE  BodyInv'
<1>1. CASE /\ NotFollowed \/ Hop \/ Unreachable \/ Request \/ NoResponse
              \/ Redirect \/ Got \/ (\E u \in Urls : Start(u))
  <2>1. at' \notin {"cookies", "decode", "close"}
    BY <1>1 DEF NotFollowed, FollowReturns, Hop, Unreachable, NoResponse, RawFails, Request,
                Redirect, Got, Start
  <2> QED
    BY <2>1 DEF BodyInv, BodyDecoded
<1>2. CASE UNCHANGED httpVars
  <2>1. at' = at /\ reply' = reply /\ buf' = buf /\ ip' = ip /\ op' = op /\ resp' = resp
    BY <1>2 DEF httpVars, place, incoming
  <2>2. (DecodeInv => DecodeInv') /\ (Lies(reply, buf) => Lies(reply, buf)')
    BY <2>1 DEF DecodeInv, Lies
  <2>3. BodyDecoded => BodyDecoded'
    BY <2>1 DEF BodyDecoded
  <2> QED
    BY <2>1, <2>2, <2>3 DEF BodyInv
<1>3. CASE Response
  <2>1. /\ reply' \in Responses /\ Fits(reply') /\ buf' = Filled(reply')
        /\ ip' = 0 /\ op' = 0 /\ at' = "cookies"
    BY <1>3, ResponseIs
  <2>2. Complete(reply') /\ CopyEnd(reply') < BufCap => Lies(reply', buf')
    BY <2>1, FilledIs DEF Lies
  <2>3. BodyDecoded'
    BY <2>1 DEF BodyDecoded
  <2> QED
    BY <2>1, <2>2, <2>3 DEF BodyInv
<1>4. CASE SetCookie
  <2>1. /\ at = "cookies" /\ reply.cookies # << >> /\ reply' = [reply EXCEPT !.cookies = Tail(@)]
        /\ at' = at /\ buf' = buf /\ ip' = ip /\ op' = op
    BY <1>4 DEF SetCookie, place
  <2>2. /\ CopyEnd(reply') = CopyEnd(reply) /\ (Complete(reply') <=> Complete(reply))
        /\ Lies(reply, buf) => Lies(reply', buf')
    <3>1. reply \in Responses
      BY DEF BufInv
    <3>2. Tail(reply.cookies) \in Seq(CookieNames)
      <4>1. reply.cookies \in Seq(CookieNames)
        BY <3>1 DEF Responses
      <4> QED
        BY <2>1, <4>1
    <3> QED
      BY <2>1, <3>1, <3>2, CookiesApart
  <2>3. ip = 0 /\ op = 0 /\ (Complete(reply) /\ CopyEnd(reply) < BufCap => Lies(reply, buf))
    BY <2>1 DEF BodyInv
  <2>4. BodyDecoded'
    BY <2>1 DEF BodyDecoded
  <2> QED
    BY <2>1, <2>2, <2>3, <2>4 DEF BodyInv
<1>5. CASE HeadersDone
  <2>1. at = "cookies" /\ reply' = reply /\ buf' = buf /\ ip' = ip /\ op' = op
    BY <1>5 DEF HeadersDone, incoming
  <2>2. ip = 0 /\ op = 0 /\ (Complete(reply) /\ CopyEnd(reply) < BufCap => Lies(reply, buf))
    BY <2>1 DEF BodyInv
  <2>3. CASE reply.chunked
    <3>1. at' = "decode"
      BY <1>5, <2>3 DEF HeadersDone
    <3>2. Complete(reply) /\ CopyEnd(reply) <= Half => DecodeInv
      <4> SUFFICES ASSUME Complete(reply), CopyEnd(reply) <= Half PROVE DecodeInv
        OBVIOUS
      <4>1. CopyEnd(reply) < BufCap
        <5>1. BufCap \in Nat /\ BufCap > 0 /\ Half \in Nat /\ Half + Half <= BufCap
          BY SizesAre
        <5>2. CopyEnd(reply) \in Nat
          <6>1. Skipped(reply) \in Nat
            BY <2>1, BodyIs
          <6>2. Len(Wire(reply)) \in Nat
            BY <2>1, FilledIs DEF BufInv
          <6> QED
            BY <6>1, <6>2 DEF CopyEnd
        <5> QED
          BY <5>1, <5>2
      <4> QED
        BY <2>2, <2>3, <4>1, DecodeStart
    <3>3. DecodeInv => DecodeInv'
      BY <2>1 DEF DecodeInv, Lies
    <3>4. BodyDecoded'
      BY <3>1 DEF BodyDecoded
    <3> QED
      BY <2>1, <2>3, <3>1, <3>2, <3>3, <3>4 DEF BodyInv
  <2>4. CASE ~ reply.chunked
    <3> DEFINE b == SubSeq(buf, BodyAt + 1, BufCap - 1)
    <3>1. at' = "close" /\ resp' = [resp EXCEPT !.body = b]
      BY <1>5, <2>4 DEF HeadersDone
    <3>2. b \in Seq(Tok)
      BY <2>1, BodiesTyped
    <3>3. Complete(reply) /\ CopyEnd(reply) < BufCap => SubSeq(b, 1, Len(Whole(reply))) = Whole(reply)
      BY <2>1, <2>2, <2>4, PlainSound
    <3> HIDE DEF b
    <3>4. resp'.body = b
      <4>1. resp \in Outs
        BY DEF FollowInv
      <4> QED
        BY <3>1, <3>2, <4>1, OutIs
    <3>5. BodyDecoded'
      BY <2>1, <2>4, <3>3, <3>4 DEF BodyDecoded
    <3> QED
      BY <3>1, <3>5 DEF BodyInv
  <2> QED
    BY <2>3, <2>4
<1>6. CASE DecodeChunk
  <2>1. at = "decode" /\ at' = at /\ reply' = reply
    BY <1>6 DEF DecodeChunk, place
  <2>2. reply.chunked /\ (Complete(reply) /\ CopyEnd(reply) <= Half => DecodeInv)
    BY <2>1 DEF BodyInv
  <2>3. Complete(reply) /\ CopyEnd(reply) <= Half => DecodeInv'
    BY <1>6, <2>2, ChunkDecoded
  <2>4. BodyDecoded'
    BY <2>1 DEF BodyDecoded
  <2> QED
    BY <2>1, <2>2, <2>3, <2>4 DEF BodyInv
<1>7. CASE Decoded
  <2> DEFINE b == SubSeq(buf, Half + 1, Half + op)
  <2>1. at = "decode" /\ at' = "close" /\ reply' = reply /\ Take <= 0 /\ resp' = [resp EXCEPT !.body = b]
    BY <1>7 DEF Decoded, incoming
  <2>2. reply.chunked /\ (Complete(reply) /\ CopyEnd(reply) <= Half => DecodeInv)
    BY <2>1 DEF BodyInv
  <2>3. Complete(reply) /\ CopyEnd(reply) <= Half => b = Whole(reply)
    BY <2>1, <2>2, DecodedSound
  <2>4. b \in Seq(Tok)
    BY <2>1, BodiesTyped
  <2> HIDE DEF b
  <2>5. resp'.body = b
    <3>1. resp \in Outs
      BY DEF FollowInv
    <3> QED
      BY <2>1, <2>4, <3>1, OutIs
  <2>6. BodyDecoded'
    BY <2>1, <2>2, <2>3, <2>5 DEF BodyDecoded
  <2> QED
    BY <2>1, <2>6 DEF BodyInv
<1> QED
  BY <1>1, <1>2, <1>3, <1>4, <1>5, <1>6, <1>7 DEF HttpNext, Client

(* A cookie is in the jar once. *)
JarInv ==
    /\ jar \in [JarSlots -> Cookies \cup {FreeEntry}]
    /\ JarSound

LEMMA JarInit ==
    ASSUME HttpAssumption, HttpInit
    PROVE  JarInv
<1>1. jar = [i \in JarSlots |-> FreeEntry] /\ count = 0 /\ offered = [to |-> NoHost, cookies |-> {}]
  BY DEF HttpInit
<1>2. UsedSlots = {}
  BY <1>1 DEF UsedSlots
<1>3. Cardinality({}) = 0
  BY FS_EmptySet
<1> QED
  BY <1>1, <1>2, <1>3 DEF JarInv, JarSound

LEMMA JarNext ==
    ASSUME HttpAssumption, FollowInv, BufInv, JarInv, [HttpNext]_httpVars
    PROVE  JarInv'
<1>1. CASE /\ NotFollowed \/ Hop \/ Unreachable \/ Request \/ NoResponse \/ Response \/ HeadersDone \/ DecodeChunk \/ Decoded
              \/ Redirect \/ Got \/ (\E u \in Urls : Start(u)) \/ UNCHANGED httpVars
  <2>1. jar' = jar /\ count' = count
    BY <1>1 DEF NotFollowed, FollowReturns, Hop, Unreachable, NoResponse, RawFails, Request, Response, HeadersDone,
                DecodeChunk, Decoded, Redirect, Got, Start, httpVars, cookies
  <2> QED
    BY <2>1 DEF JarInv, JarSound, UsedSlots
<1>2. CASE SetCookie
  <2> DEFINE n == Head(reply.cookies)
             s == CookieSlots("", n)
             i == First(s)
             c == [host |-> "", name |-> n]
             U == UsedSlots
  <2>1. at = "cookies" /\ reply.cookies # << >>
    BY <1>2 DEF SetCookie
  <2>2. \/ s = {} /\ jar' = jar /\ count' = count
        \/ s # {} /\ jar' = [jar EXCEPT ![i] = c] /\ count' = IF i \in U THEN count ELSE count + 1
    BY <1>2 DEF SetCookie, CookieStore, HostLeft
  <2>3. c \in Cookies /\ c # FreeEntry
    <3>1. n \in CookieNames
      <4>1. reply.cookies \in Seq(CookieNames)
        BY DEF BufInv, Responses
      <4> QED
        BY <2>1, <4>1
    <3> HIDE DEF n
    <3>2. c.host = "" /\ FreeEntry.host = "none"
      BY DEF FreeEntry, NoHost
    <3> QED
      BY <3>1, <3>2 DEF Cookies
  <2>4. /\ jar \in [JarSlots -> Cookies \cup {FreeEntry}] /\ count = Cardinality(U)
        /\ \A j, k \in U : jar[j].host = jar[k].host /\ jar[j].name = jar[k].name => j = k
    BY DEF JarInv, JarSound
  <2>5. JarSize \in Nat /\ U \subseteq JarSlots /\ JarSlots \in SUBSET Nat /\ IsFiniteSet(U)
    <3>1. JarSize \in Nat
      BY SizesAre
    <3>2. U \subseteq 1 .. JarSize
      BY DEF UsedSlots, JarSlots
    <3>3. IsFiniteSet(1 .. JarSize)
      BY <3>1, FS_Interval
    <3> QED
      <4>1. IsFiniteSet(U)
        BY <3>2, <3>3, FS_Subset
      <4>2. 1 .. JarSize \in SUBSET Nat
        BY <3>1
      <4> HIDE DEF U
      <4> QED
        BY <3>1, <3>2, <4>1, <4>2 DEF JarSlots
  <2>6. CASE s = {}
    BY <2>1, <2>2, <2>6 DEF JarInv, JarSound, UsedSlots
  <2>7. CASE s # {}
    <3>1. s \subseteq JarSlots
      BY <2>5 DEF CookieSlots
    <3>2. i \in s /\ i \in JarSlots
      BY <2>5, <2>7, <3>1, FirstIs
    <3>3. /\ jar' = [jar EXCEPT ![i] = c] /\ count' = IF i \in U THEN count ELSE count + 1
      BY <2>2, <2>7
    <3>4. i \in U => jar[i].host = "" /\ jar[i].name = n
      BY <3>2 DEF CookieSlots
    <3>5. i \notin U => \A k \in U : ~ (jar[k].host = "" /\ jar[k].name = n)
      <4> SUFFICES ASSUME i \notin U, NEW k \in U, jar[k].host = "", jar[k].name = n
                   PROVE  FALSE
        OBVIOUS
      <4>1. s = {j \in U : jar[j].host = "" /\ jar[j].name = n}
        BY DEF CookieSlots
      <4> QED
        BY <3>2, <4>1
    <3>6. c.host = "" /\ c.name = n
      OBVIOUS
    <3> HIDE DEF i, s, n, c
    <3>7. UsedSlots' = U \cup {i}
      BY <2>3, <2>4, <3>2, <3>3 DEF UsedSlots
    <3> HIDE DEF U
    <3>8. jar' \in [JarSlots -> Cookies \cup {FreeEntry}]
      BY <2>3, <2>4, <3>2, <3>3
    <3>9. count' = Cardinality(U \cup {i})
      BY <2>4, <2>5, <3>3, FS_AddElement
    <3>10. \A k \in U \cup {i} : jar'[k] = IF k = i THEN c ELSE jar[k]
      BY <2>4, <2>5, <3>2, <3>3
    <3>11. ASSUME NEW j \in U \cup {i}, NEW k \in U \cup {i},
                  jar'[j].host = jar'[k].host, jar'[j].name = jar'[k].name
           PROVE  j = k
      <4>1. CASE j = i
        <5>1. jar'[j] = c
          BY <3>10, <4>1
        <5>2. CASE k = i
          BY <4>1, <5>2
        <5>3. CASE k # i
          <6>1. k \in U /\ jar'[k] = jar[k]
            BY <3>10, <5>3
          <6>2. jar[k].host = "" /\ jar[k].name = n
            BY <3>6, <3>11, <5>1, <6>1
          <6>3. i \in U
            BY <3>5, <6>1, <6>2
          <6>4. jar[i].host = jar[k].host /\ jar[i].name = jar[k].name
            BY <3>4, <6>2, <6>3
          <6> QED
            BY <2>4, <4>1, <6>1, <6>3, <6>4
        <5> QED
          BY <5>2, <5>3
      <4>2. CASE j # i
        <5>1. j \in U /\ jar'[j] = jar[j]
          BY <3>10, <4>2
        <5>2. CASE k = i
          <6>1. jar[j].host = "" /\ jar[j].name = n
            BY <3>6, <3>10, <3>11, <5>1, <5>2
          <6>2. i \in U
            BY <3>5, <5>1, <6>1
          <6>3. jar[i].host = jar[j].host /\ jar[i].name = jar[j].name
            BY <3>4, <6>1, <6>2
          <6> QED
            BY <2>4, <5>1, <5>2, <6>2, <6>3
        <5>3. CASE k # i
          <6>1. k \in U /\ jar'[k] = jar[k]
            BY <3>10, <5>3
          <6>2. jar[j].host = jar[k].host /\ jar[j].name = jar[k].name
            BY <3>11, <5>1, <6>1
          <6> QED
            BY <2>4, <5>1, <6>1, <6>2
        <5> QED
          BY <5>2, <5>3
      <4> QED
        BY <4>1, <4>2
    <3> QED
      BY <2>1, <3>7, <3>8, <3>9, <3>11 DEF JarInv, JarSound
  <2> QED
    BY <2>6, <2>7
<1> QED
  BY <1>1, <1>2 DEF HttpNext, Client

-----------------------------------------------------------------------------
HttpInv == FollowInv /\ BufInv /\ BodyInv /\ JarInv

(* The client's state stays well-formed.  The cookie jar holds a cookie    *)
(* once and its counter is right (cookie_store), also where part of a head *)
(* is read twice.  A body that has come whole is found in the buffer that  *)
(* the calls of net_tcp_recv fill with copies of the response: a chunked   *)
(* one that ends in the first half is decoded to what the server sent      *)
(* though decode_chunked writes to the same buffer, another one comes      *)
(* first in what the caller gets; for any responses and any lengths the    *)
(* calls bring, any buffer, jar and number of redirects.                   *)
THEOREM WebIsSound ==
    ASSUME HttpAssumption
    PROVE  HttpSpec => []HttpTypeOK /\ []WebSound
<1>1. HttpInit => HttpInv
  <2> SUFFICES ASSUME HttpInit PROVE HttpInv
    OBVIOUS
  <2>1. FollowInv /\ BufInv /\ JarInv
    BY FollowInit, BufInit, JarInit
  <2>2. at = "idle"
    BY DEF HttpInit
  <2> QED
    BY <2>1, <2>2 DEF HttpInv, BodyInv, BodyDecoded
<1>2. HttpInv /\ [HttpNext]_httpVars => HttpInv'
  BY FollowNext, BufNext, BodyNext, JarNext DEF HttpInv
<1>3. HttpInv => HttpTypeOK
  <2> SUFFICES ASSUME HttpInv PROVE HttpTypeOK
    OBVIOUS
  <2>1. op \in 0 .. BufCap - Half - 1
    <3>1. BufCap \in Nat /\ Half \in Nat
      BY SizesAre
    <3> QED
      BY <3>1 DEF HttpInv, BufInv
  <2> QED
    BY <2>1 DEF HttpInv, FollowInv, BufInv, JarInv, Busy, HttpTypeOK
<1>4. HttpInv => WebSound
  BY DEF HttpInv, BodyInv, JarInv, WebSound
<1> QED
  BY <1>1, <1>2, <1>3, <1>4, PTL DEF HttpSpec
=============================================================================
