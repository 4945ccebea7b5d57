-------------------------------- MODULE Card --------------------------------
(***************************************************************************)
(* The receive ring of the RTL8139, kernel/rtl8139.c, in units of four     *)
(* bytes: every frame lies behind a header of one unit and is padded to    *)
(* whole units.  The card runs with a ring of RX_BUF_SIZE that wraps in    *)
(* the middle of a frame (RCR is 0x80F: WRAP is clear), and it stores no   *)
(* frame for which there is no room up to the place CAPR tells it.         *)
(***************************************************************************)
EXTENDS Integers, Sequences

CONSTANTS
    RingUnits,    \* RX_BUF_SIZE
    Margin,       \* the 16 bytes that rtl8139_poll takes off both times
    FrameUnits,   \* the lengths of frames, header included
    MaxFrames,    \* bounds the frames that arrive
    PollGuard,    \* the frames one rtl8139_poll takes at most
    MaxTaken      \* bounds the frames taken

CardAssumption ==
    /\ {RingUnits, MaxFrames, PollGuard, MaxTaken} \subseteq Nat
    /\ FrameUnits \subseteq 2 .. RingUnits - 1 /\ Margin \in 1 .. RingUnits - 1

VARIABLES
    ring,         \* what each unit holds: part of a frame, or Nothing
    wr,           \* where the card writes next
    capr,         \* up to where it may, as the driver last told it
    off,          \* g_rx_off
    stored,       \* history: the frames stored, by length
    delivered,    \* history: the frames given to net_rx_frame
    guard         \* frames taken in this rtl8139_poll; PollGuard outside it

cardVars == <<ring, wr, capr, off, stored, delivered, guard>>

Nothing == [frame |-> 0, part |-> 0, units |-> 0]
Units == 0 .. RingUnits - 1
Unit(k, p, n) == [frame |-> k, part |-> p, units |-> n]

(* rtl8139_init *)
CardInit ==
    /\ ring = [u \in Units |-> Nothing]
    /\ wr = 0 /\ capr = 0 /\ off = 0
    /\ stored = << >> /\ delivered = << >> /\ guard = PollGuard

-----------------------------------------------------------------------------
(* The card *)

Room == (capr - wr + RingUnits) % RingUnits
Empty == capr = wr

Store(n) ==
    /\ Len(stored) < MaxFrames
    /\ Empty \/ n < Room
    /\ LET k == Len(stored) + 1
       IN  ring' = [u \in Units |->
              LET p == (u - wr + RingUnits) % RingUnits IN IF p < n THEN Unit(k, p, n) ELSE ring[u]]
    /\ wr' = (wr + n) % RingUnits
    /\ stored' = Append(stored, n)
    /\ UNCHANGED <<capr, off, delivered, guard>>

-----------------------------------------------------------------------------
(* rtl8139_poll *)

(* What lies at a place the driver reads; it reads straight on, past the   *)
(* end of the ring. *)
At(u) == IF u < RingUnits THEN ring[u] ELSE Nothing
IsHeader(u) == At(u).frame # 0 /\ At(u).part = 0

(* The frame behind the header at off, and whether all of it is there *)
Received == LET h == At(off)
            IN  [frame |-> h.frame,
                 whole |-> \A p \in 0 .. h.units - 1 : At(off + p) = Unit(h.frame, p, h.units)]

(* Bug: the length of the header is forgotten. *)
AdvancedShort(o, n) == IF o + n - 1 > RingUnits - Margin THEN o + n - 1 - (RingUnits - Margin) ELSE o + n - 1

(* The new g_rx_off *)
Advanced(o, n) == IF o + n > RingUnits - Margin THEN o + n - (RingUnits - Margin) ELSE o + n

PollStart ==
    /\ guard = PollGuard
    /\ guard' = 0
    /\ UNCHANGED <<ring, wr, capr, off, stored, delivered>>

(* No frame, or no header where one should be: in the middle of a frame    *)
(* there is no bit pattern that passes for a header. *)
PollEnd ==
    /\ guard < PollGuard
    /\ Empty \/ ~IsHeader(off)
    /\ guard' = PollGuard
    /\ UNCHANGED <<ring, wr, capr, off, stored, delivered>>

PollFrame ==
    /\ guard < PollGuard /\ Len(delivered) < MaxTaken
    /\ ~Empty /\ IsHeader(off)
    /\ delivered' = Append(delivered, Received)
    /\ off' = Advanced(off, At(off).units)
    /\ capr' = off' % RingUnits
    /\ guard' = guard + 1
    /\ UNCHANGED <<ring, wr, stored>>

CardNext == PollStart \/ PollEnd \/ PollFrame \/ \E n \in FrameUnits : Store(n)

CardSpec == CardInit /\ [][CardNext]_cardVars

-----------------------------------------------------------------------------
(* Properties *)

(* Where frame i + 1 of the card begins, counted on without end *)
Begins == LET sum[i \in 0 .. Len(stored)] == IF i = 0 THEN 0 ELSE sum[i - 1] + stored[i]
          IN  sum

LapEnd == RingUnits - Margin
InLap == Len(delivered) <= Len(stored) /\ Begins[Len(delivered)] <= LapEnd

(* All through the first lap of the driver, while the card may be writing  *)
(* its second over what has been taken, and up to the frame that ends the  *)
(* lap, the frames given to the protocols are those of the card in order.  *)
(* Each is whole unless it runs over the end of the ring.                  *)
LapInOrder ==
    \A i \in DOMAIN delivered \cap DOMAIN stored :
        Begins[i - 1] <= LapEnd => delivered[i] = [frame |-> i, whole |-> Begins[i] <= RingUnits]

(* A poll of that lap that ends before its guard does has left no frame.   *)
NoneLeft ==
    InLap /\ guard < PollGuard /\ guard' = PollGuard /\ delivered' = delivered
      => Len(delivered) = Len(stored)

(* The frame that ends the lap leaves the driver behind the header of the  *)
(* next one, by as much as its ring is shorter than that of the card.      *)
Slips ==
    InLap /\ delivered' # delivered /\ ~InLap'
      => off' = (Begins'[Len(delivered')] + Margin) % RingUnits

FirstLap == [][LapInOrder' /\ NoneLeft /\ Slips]_cardVars
=============================================================================
