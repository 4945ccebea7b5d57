-------------------------------- MODULE Tcp --------------------------------
(***************************************************************************)
(* The TCP client, kernel/net.c, and the loop of kernel/http.c that reads  *)
(* a response with it.  Segments are handled only while the caller polls   *)
(* the card, so the handler never interrupts a call.  A connection's peer  *)
(* keeps the protocol; the network may lose, repeat, delay and reorder     *)
(* whatever the peer has sent.  Sequence numbers count from the first      *)
(* data byte of the peer; the byte at number k is k itself.                *)
(***************************************************************************)
EXTENDS Integers, Sequences

CONSTANTS
    Conns,        \* connections made, one after the other
    Length,       \* the bytes a peer sends before its FIN
    MaxSegment,   \* the longest segment of a peer
    RxSize,       \* TCP_RX_SIZE
    BodyCap,      \* body_cap of http_get_raw
    FinWaits,     \* whether a peer holds its FIN until its data is acknowledged
    NxtBound      \* bounds g_tcp_rcv_nxt, which each repeated FIN advances

ASSUME SizesAssumption ==
    /\ {Conns, Length, MaxSegment, RxSize, BodyCap} \subseteq Nat \ {0}
    /\ FinWaits \in BOOLEAN
    /\ NxtBound \in Nat /\ NxtBound > Length

States == {"CLOSED", "SYN_SENT", "ESTABLISHED", "CLOSE_WAIT", "LAST_ACK"}
Open == {"ESTABLISHED", "CLOSE_WAIT"}

VARIABLES
    st,           \* g_tcp_state
    conn,         \* the connection, which its local port tells apart
    rcvNxt,       \* g_tcp_rcv_nxt
    rx,           \* the first g_tcp_rx_len bytes of g_tcp_rx
    gotFin,       \* g_tcp_got_fin
    pc,           \* where the caller is: a loop that polls, or between calls
    body,         \* the bytes http_get_raw has so far
    total,        \* how many of them earlier calls of net_tcp_recv returned
    heard,        \* connections whose SYN has reached the peer
    acked,        \* the acknowledgement numbers sent on each connection
    una           \* the last one its peer has received; -1 before the first

client == <<st, conn, rcvNxt, rx, gotFin>>
caller == <<pc, body, total>>
peers == <<heard, una>>
vars == <<client, caller, acked, peers>>

Ids == 1 .. Conns
Least(i, j) == IF i < j THEN i ELSE j

Init ==
    /\ st = "CLOSED" /\ conn = 0
    /\ rcvNxt = 0 /\ rx = <<>> /\ gotFin = FALSE
    /\ pc = "idle" /\ body = <<>> /\ total = 0
    /\ heard = {} /\ acked = [c \in Ids |-> {}] /\ una = [c \in Ids |-> -1]

-----------------------------------------------------------------------------
(* The peer and the network *)

PeerHears(c) ==
    /\ c <= conn /\ c \notin heard
    /\ heard' = heard \cup {c}
    /\ UNCHANGED <<client, caller, acked, una>>

PeerGetsAck(c) ==
    /\ c \in heard
    /\ \E a \in acked[c] : a > una[c] /\ a <= Length + 1 /\ una' = [una EXCEPT ![c] = a]
    /\ UNCHANGED <<client, caller, acked, heard>>

Segment(c, kind, seq, len, fin) ==
    [conn |-> c, kind |-> kind, seq |-> seq, len |-> len, fin |-> fin]

(* Data and FIN segments the peer of c may have sent by now, in any cut    *)
DataSent(c) ==
    {s \in [conn : {c}, kind : {"data"}, seq : 0 .. Length, len : 0 .. MaxSegment, fin : BOOLEAN] :
        /\ una[c] >= 0
        /\ s.seq + s.len <= Length
        /\ s.fin => s.seq + s.len = Length /\ (FinWaits => una[c] >= Length)
        /\ s.len > 0 \/ s.fin}

InFlight ==
    UNION {{Segment(c, "synack", -1, 0, FALSE), Segment(c, "rst", 0, 0, FALSE)}
             \cup DataSent(c) : c \in heard}

-----------------------------------------------------------------------------
(* handle_tcp *)

Acknowledge(numbers) == acked' = [acked EXCEPT ![conn] = @ \cup numbers]

HandleSynAck(s) ==
    /\ st = "SYN_SENT" /\ s.kind = "synack"
    /\ rcvNxt' = s.seq + 1
    /\ st' = "ESTABLISHED"
    /\ Acknowledge({rcvNxt'})
    /\ UNCHANGED <<conn, rx, gotFin>>

(* Bug: data already received is taken again. *)
InOrderAny(s) == s.len > 0 /\ s.seq <= rcvNxt

InOrder(s) == s.len > 0 /\ s.seq = rcvNxt

(* Bug: the room left in g_tcp_rx is not looked at. *)
StoredUnbounded(s) ==
    IF InOrder(s) THEN rx \o [i \in 1 .. s.len |-> s.seq + i - 1] ELSE rx

(* Bug: a segment that does not fit is dropped, but acknowledged. *)
StoredWhole(s) ==
    IF InOrder(s) /\ s.len <= RxSize - Len(rx)
    THEN rx \o [i \in 1 .. s.len |-> s.seq + i - 1]
    ELSE rx

(* What does not fit is acknowledged with the rest. *)
Stored(s) ==
    IF InOrder(s)
    THEN rx \o [i \in 1 .. Least(s.len, RxSize - Len(rx)) |-> s.seq + i - 1]
    ELSE rx

(* A FIN counts whatever its sequence number. *)
HandleData(s) ==
    LET next == IF InOrder(s) THEN rcvNxt + s.len ELSE rcvNxt
        last == IF s.fin THEN next + 1 ELSE next
    IN  /\ st \in Open /\ s.kind = "data"
        /\ last <= NxtBound
        /\ rx' = Stored(s)
        /\ rcvNxt' = last
        /\ gotFin' = (gotFin \/ s.fin)
        /\ st' = IF s.fin THEN "CLOSE_WAIT" ELSE st
        /\ Acknowledge((IF s.len > 0 THEN {next} ELSE {}) \cup (IF s.fin THEN {last} ELSE {}))
        /\ UNCHANGED conn

HandleRst(s) ==
    /\ s.kind = "rst"
    /\ st' = "CLOSED"
    /\ UNCHANGED <<conn, rcvNxt, rx, gotFin, acked>>

(* Bug: the ports are not compared. *)
ForUsAny(s) == st # "CLOSED"

ForUs(s) == st # "CLOSED" /\ s.conn = conn

HandleTcp(s) ==
    /\ ForUs(s)
    /\ HandleRst(s) \/ HandleSynAck(s) \/ HandleData(s)

(* net_poll in one of the waiting loops; a poll handles what it finds      *)
(* before the loop looks at the outcome. *)
Poll ==
    /\ pc \in {"connecting", "receiving", "closing"}
    /\ \E s \in InFlight : HandleTcp(s)
    /\ UNCHANGED <<caller, peers>>

-----------------------------------------------------------------------------
(* The calls, in the order http_get_raw makes them *)

(* Bug: what the last connection received is kept. *)
ConnectKeeping ==
    /\ pc = "idle" /\ conn < Conns
    /\ conn' = conn + 1
    /\ rcvNxt' = 0 /\ gotFin' = FALSE
    /\ st' = "SYN_SENT"
    /\ pc' = "connecting" /\ body' = <<>> /\ total' = 0
    /\ UNCHANGED <<rx, acked, peers>>

(* net_tcp_connect, up to the first SYN *)
Connect ==
    /\ pc = "idle" /\ conn < Conns
    /\ conn' = conn + 1
    /\ rcvNxt' = 0 /\ rx' = <<>> /\ gotFin' = FALSE
    /\ st' = "SYN_SENT"
    /\ pc' = "connecting" /\ body' = <<>> /\ total' = 0
    /\ UNCHANGED <<acked, peers>>

Connected ==
    /\ pc = "connecting" /\ st = "ESTABLISHED"
    /\ pc' = "connected"
    /\ UNCHANGED <<client, body, total, acked, peers>>

Refused ==
    /\ pc = "connecting" /\ st = "CLOSED"
    /\ pc' = "idle"
    /\ UNCHANGED <<client, body, total, acked, peers>>

(* Bug: only the handshake is given up. *)
ConnectTimesOutOnSyn ==
    /\ pc = "connecting" /\ st = "SYN_SENT"
    /\ st' = "CLOSED" /\ pc' = "idle"
    /\ UNCHANGED <<conn, rcvNxt, rx, gotFin, body, total, acked, peers>>

(* A peer that has already sent its FIN counts as not connected. *)
ConnectTimesOut ==
    /\ pc = "connecting" /\ st \notin {"ESTABLISHED", "CLOSED"}
    /\ st' = "CLOSED" /\ pc' = "idle"
    /\ UNCHANGED <<conn, rcvNxt, rx, gotFin, body, total, acked, peers>>

(* net_tcp_send of the request, whose segments acknowledge too *)
SendRequest ==
    /\ pc = "connected"
    /\ IF st = "ESTABLISHED" THEN Acknowledge({rcvNxt}) ELSE UNCHANGED acked
    /\ pc' = "receiving"
    /\ UNCHANGED <<client, body, total, peers>>

(* One turn of the loop of net_tcp_recv, and what http_get_raw does when   *)
(* it returns.  Each call copies from the start of g_tcp_rx. *)
Receive ==
    LET max == BodyCap - 1 - total
        copied == Len(body) - total
        now == IF copied < max /\ copied < Len(rx) THEN Least(max, Len(rx)) ELSE copied
        full == now >= max
        ended == gotFin /\ now >= Len(rx)
        calledAgain == now > 0 /\ total + now < BodyCap - 1
    IN  /\ pc = "receiving"
        /\ body' = body \o SubSeq(rx, copied + 1, now)
        /\ \/ /\ ~full /\ ~ended
              /\ UNCHANGED <<pc, total>>
           \/ /\ calledAgain
              /\ total' = total + now
              /\ UNCHANGED pc
           \/ /\ ~calledAgain
              /\ pc' = "returned"
              /\ UNCHANGED total
        /\ UNCHANGED <<client, acked, peers>>

(* net_tcp_close, up to the wait for the peer's acknowledgement *)
Close ==
    /\ pc = "returned"
    /\ IF st \in Open
       THEN st' = "LAST_ACK" /\ pc' = "closing" /\ Acknowledge({rcvNxt})
       ELSE st' = "CLOSED" /\ pc' = "idle" /\ UNCHANGED acked
    /\ UNCHANGED <<conn, rcvNxt, rx, gotFin, body, total, peers>>

CloseReturns ==
    /\ pc = "closing"
    /\ st' = "CLOSED" /\ pc' = "idle"
    /\ UNCHANGED <<conn, rcvNxt, rx, gotFin, body, total, acked, peers>>

Caller == Connect \/ Connected \/ Refused \/ ConnectTimesOut \/ SendRequest
            \/ Receive \/ Close \/ CloseReturns

Next == Caller \/ Poll \/ \E c \in Ids : PeerHears(c) \/ PeerGetsAck(c)

Spec == Init /\ [][Next]_vars

(* The caller runs, and every one of its loops has a deadline. *)
RunningSpec == Spec /\ WF_vars(Caller)

-----------------------------------------------------------------------------
(* Properties *)

TypeOK ==
    /\ st \in States /\ conn \in 0 .. Conns
    /\ rcvNxt \in 0 .. NxtBound
    /\ rx \in Seq(0 .. Length - 1) /\ Len(rx) <= RxSize
    /\ gotFin \in BOOLEAN
    /\ pc \in {"idle", "connecting", "connected", "receiving", "returned", "closing"}
    /\ body \in Seq(0 .. Length - 1) /\ total \in 0 .. Len(body)
    /\ Len(body) < BodyCap
    /\ heard \subseteq Ids
    /\ acked \in [Ids -> SUBSET (0 .. NxtBound)]
    /\ una \in [Ids -> -1 .. Length + 1]

Prefix(n) == [i \in 1 .. n |-> i - 1]

(* g_tcp_rx is what the peer of this connection sent, in order and from    *)
(* the start, whatever the network repeats, delays or reorders and         *)
(* whatever an earlier connection left in it.                              *)
RxInOrder == rx = Prefix(Len(rx))

(* The peer is never told of a byte it could forget while the client does  *)
(* not have it, unless the buffer is full.                                 *)
AckedIsKept ==
    conn > 0 => Least(una[conn], Length) <= Len(rx) \/ Len(rx) = RxSize

(* When the end of the stream is seen, all of it has been received.        *)
EndMeansAll == gotFin => Len(rx) = Least(Length, RxSize)

(* A connection is open only if this connection's SYN reached the peer.    *)
PeerKnows == st \in Open => conn \in heard

(* What one call of net_tcp_recv has copied is the stream from its start.  *)
RecvInOrder == SubSeq(body, total + 1, Len(body)) = Prefix(Len(body) - total)

(* net.c: the receive buffer holds the stream in order, what is            *)
(* acknowledged is kept, the end of the stream means all of it, a          *)
(* connection is one the peer knows of, and what one call of net_tcp_recv  *)
(* has copied is the stream from its start.                                *)
StreamSound == RxInOrder /\ AckedIsKept /\ EndMeansAll /\ PeerKnows /\ RecvInOrder

(* What http_get_raw reads over all its calls is the stream.               *)
BodyInOrder == body = Prefix(Len(body))

(* Every request comes back, whatever the network and the peer do.         *)
RequestEnds == pc # "idle" ~> pc = "idle"
=============================================================================
