------------------------------- MODULE Mouse -------------------------------
(***************************************************************************)
(* The PS/2 mouse driver, kernel/mouse.c.  The device sends each movement  *)
(* as a packet of three bytes, any of which may be lost on its way; the    *)
(* interrupt handler counts bytes to know where a packet begins, and a     *)
(* first byte that fails its check makes it drop three bytes.              *)
(***************************************************************************)
EXTENDS Integers, Sequences

CONSTANTS
    Width, Height,     \* the screen
    Moves,             \* the movements of the device, in its counts
    ButtonStates,      \* bit 0 is the left button, bit 1 the right
    MouseSpeeds,       \* settings_mouse_speed: 0 slow, 1 normal, 2 fast
    MaxLost            \* bounds the bytes lost

ASSUME MouseAssumption ==
    /\ {Width, Height} \subseteq Nat \ {0}
    /\ Moves \subseteq (-128 .. 127) \X (-128 .. 127)
    /\ ButtonStates \subseteq 0 .. 3 /\ MouseSpeeds \subseteq 0 .. 2 /\ MaxLost \in Nat

VARIABLES
    px, py,       \* g_x, g_y
    leftButton, rightButton,   \* g_left, g_right
    cycle,        \* g_cycle
    packet,       \* g_packet
    speed,        \* the speed of the settings
    sending,      \* what the device has still to send of its packet
    move,         \* the movement that packet stands for
    lostBytes,    \* bytes lost so far
    whole         \* history: the packet being sent has lost no byte yet

pointer == <<px, py, leftButton, rightButton>>
mouseVars == <<pointer, cycle, packet, speed, sending, move, lostBytes, whole>>

Bytes == 0 .. 255
Still == [dx |-> 0, dy |-> 0, buttons |-> 0]

(* mouse_init *)
MouseInit ==
    /\ px = Width \div 2 /\ py = Height \div 2 /\ leftButton = 0 /\ rightButton = 0
    /\ cycle = 0 /\ packet = [i \in 0 .. 2 |-> 0]
    /\ speed \in MouseSpeeds
    /\ sending = << >> /\ move = Still /\ lostBytes = 0 /\ whole = TRUE

-----------------------------------------------------------------------------
(* The device *)

Bit(mask, f) == (f \div mask) % 2
FlagsOf(m) == 8 + m.buttons + (IF m.dx < 0 THEN 16 ELSE 0) + (IF m.dy < 0 THEN 32 ELSE 0)

(* Two's complement: the ninth bit is in the flags. *)
PacketOf(m) == << FlagsOf(m), m.dx % 256, m.dy % 256 >>

Moved ==
    /\ sending = << >>
    /\ \E d \in Moves, b \in ButtonStates : move' = [dx |-> d[1], dy |-> d[2], buttons |-> b]
    /\ sending' = PacketOf(move') /\ whole' = TRUE
    /\ UNCHANGED <<pointer, cycle, packet, speed, lostBytes>>

Lost ==
    /\ sending # << >> /\ lostBytes < MaxLost
    /\ sending' = Tail(sending) /\ lostBytes' = lostBytes + 1 /\ whole' = FALSE
    /\ UNCHANGED <<pointer, cycle, packet, speed, move>>

-----------------------------------------------------------------------------
(* mouse_irq *)

(* C's division by two truncates toward zero. *)
Halved(n) == IF n < 0 THEN -((-n) \div 2) ELSE n \div 2

(* mouse_scale *)
Scale == CASE speed = 0 -> 1 [] speed = 2 -> 4 [] OTHER -> 2

(* Bug: the sign bits of the flags are taken for each other. *)
CountCrossed(p, i) == p[i] - (IF Bit(48 - 16 * i, p[0]) = 1 THEN 256 ELSE 0)

(* The count in byte i, whose sign is bit 3 + i of the flags *)
Count(p, i) == p[i] - (IF Bit(16 * i, p[0]) = 1 THEN 256 ELSE 0)

Clamp(v, size) == IF v < 0 THEN 0 ELSE IF v >= size THEN size - 1 ELSE v

FlagsValid(f) == Bit(8, f) = 1 /\ Bit(64, f) = 0 /\ Bit(128, f) = 0

(* A packet is complete. *)
Apply(p) ==
    IF FlagsValid(p[0])
    THEN /\ px' = Clamp(px + Halved(Count(p, 1) * Scale), Width)
         /\ py' = Clamp(py - Halved(Count(p, 2) * Scale), Height)
         /\ leftButton' = Bit(1, p[0]) /\ rightButton' = 2 * Bit(2, p[0])
    ELSE UNCHANGED pointer

(* Bug: the count starts again only after a packet that was valid. *)
MouseIrqNoReset ==
    /\ sending # << >>
    /\ sending' = Tail(sending)
    /\ packet' = [packet EXCEPT ![cycle] = Head(sending)]
    /\ \/ cycle < 2 /\ cycle' = cycle + 1 /\ UNCHANGED pointer
       \/ /\ cycle = 2 /\ Apply(packet')
          /\ cycle' = IF FlagsValid(packet'[0]) THEN 0 ELSE 2
    /\ UNCHANGED <<speed, move, lostBytes, whole>>

MouseIrq ==
    /\ sending # << >>
    /\ sending' = Tail(sending)
    /\ packet' = [packet EXCEPT ![cycle] = Head(sending)]
    /\ \/ cycle < 2 /\ cycle' = cycle + 1 /\ UNCHANGED pointer
       \/ cycle = 2 /\ cycle' = 0 /\ Apply(packet')
    /\ UNCHANGED <<speed, move, lostBytes, whole>>

SetSpeed(s) ==
    /\ speed' = s
    /\ UNCHANGED <<pointer, cycle, packet, sending, move, lostBytes, whole>>

MouseNext == Moved \/ Lost \/ MouseIrq \/ \E s \in MouseSpeeds : SetSpeed(s)

MouseSpec == MouseInit /\ [][MouseNext]_mouseVars

-----------------------------------------------------------------------------
(* Properties *)

MouseTypeOK ==
    /\ px \in 0 .. Width - 1 /\ py \in 0 .. Height - 1
    /\ leftButton \in {0, 1} /\ rightButton \in {0, 2}
    /\ cycle \in 0 .. 2 /\ packet \in [0 .. 2 -> Bytes]
    /\ speed \in MouseSpeeds /\ sending \in Seq(Bytes) /\ Len(sending) <= 3
    /\ lostBytes \in 0 .. MaxLost /\ whole \in BOOLEAN

(* The last byte of a packet of which none was lost arrives. *)
Completes == Len(sending) = 1 /\ Len(sending') = 0 /\ lostBytes' = lostBytes /\ whole

Half(n) == IF n < 0 THEN (n + 1) \div 2 ELSE n \div 2

(* As long as the bytes lost add up to whole packets, the pointer goes     *)
(* where the device was moved and no farther than the edge of the screen,  *)
(* and the buttons are those of the device: the count of bytes is back in  *)
(* step as soon as it can be.  (The check of the first byte drops whole    *)
(* packets, so it never brings the count back by itself.)                  *)
FollowsInStep ==
    [][Completes /\ lostBytes % 3 = 0 =>
         /\ px' = Clamp(px + Half(move.dx * Scale), Width)
         /\ py' = Clamp(py - Half(move.dy * Scale), Height)
         /\ leftButton' + rightButton' = move.buttons]_mouseVars
=============================================================================
