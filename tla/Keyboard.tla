------------------------------ MODULE Keyboard ------------------------------
(***************************************************************************)
(* The PS/2 keyboard driver, kernel/keyboard.c: an interrupt handler that  *)
(* translates scancodes, switches the layout on Shift+Alt and fills a ring *)
(* of characters, and the ui task that empties the ring and may set the    *)
(* layout.  The ring has no lock: an interrupt may come between any two    *)
(* accesses of the task.                                                   *)
(***************************************************************************)
EXTENDS Integers, Sequences

CONSTANTS
    Size,         \* KBD_BUF
    Letters       \* the keys that type something

ASSUME SizesAssumption == Size \in Nat /\ Size > 1 /\ Letters # {}

ShiftKeys == {"lshift", "rshift"}
Keys == ShiftKeys \cup {"alt"}
Layouts == {"EN", "RU"}
Chars == [key : Letters, layout : Layouts, shifted : BOOLEAN]
Places == 0 .. Size - 1

VARIABLES
    shift,        \* g_shift
    alt,          \* g_alt
    layout,       \* g_layout
    latch,        \* g_layout_latch
    buf,          \* g_buf
    head,         \* g_head
    tail,         \* g_tail
    pc,           \* where the ui task is
    char,         \* the character it is taking, or took last
    taken,        \* the character keyboard_getchar returned last
    rearmed       \* history: a modifier released or a layout set since the switch

ring == <<buf, head, tail>>
task == <<pc, char, taken>>
vars == <<shift, alt, layout, latch, ring, task, rearmed>>

Init ==
    /\ shift = FALSE /\ alt = FALSE
    /\ layout = "EN" /\ latch = FALSE
    /\ buf \in [Places -> Chars]
    /\ head = 0 /\ tail = 0
    /\ pc = "ui"
    /\ taken \in Chars /\ char = taken
    /\ rearmed = TRUE

-----------------------------------------------------------------------------
(* The interrupt: keyboard_irq on one scancode *)

Other(l) == IF l = "EN" THEN "RU" ELSE "EN"

(* Bug: the latch is forgotten. *)
CheckToggleAgain(s, a) ==
    /\ layout' = IF s /\ a THEN Other(layout) ELSE layout
    /\ latch' = FALSE

(* check_layout_toggle, given the new g_shift and g_alt *)
CheckToggle(s, a) ==
    \/ s /\ a /\ ~latch /\ layout' = Other(layout) /\ latch' = TRUE
    \/ s /\ a /\ latch /\ UNCHANGED <<layout, latch>>
    \/ ~ (s /\ a) /\ latch' = FALSE /\ UNCHANGED layout

(* A modifier goes down, or repeats. *)
Press(k) ==
    /\ shift' = (shift \/ k \in ShiftKeys)
    /\ alt' = (alt \/ k = "alt")
    /\ CheckToggle(shift', alt')
    /\ rearmed' = (rearmed /\ layout' = layout)
    /\ UNCHANGED <<ring, task>>

(* A key goes up.  Either shift key clears g_shift; the release of any key *)
(* looks at the chord again. *)
Release(k) ==
    /\ shift' = (shift /\ k \notin ShiftKeys)
    /\ alt' = (alt /\ k # "alt")
    /\ CheckToggle(shift', alt')
    /\ rearmed' = (k \in Keys \/ (rearmed /\ layout' = layout))
    /\ UNCHANGED <<ring, task>>

(* Bug: the index is not wrapped. *)
SuccUnwrapped(i) == i + 1

Succ(i) == (i + 1) % Size

(* Bug: a full ring is not noticed. *)
TypeOver(k) ==
    /\ buf' = [buf EXCEPT ![head] = [key |-> k, layout |-> layout, shifted |-> shift]]
    /\ head' = Succ(head)
    /\ UNCHANGED <<shift, alt, layout, latch, tail, task, rearmed>>

(* A letter goes down, or repeats *)
Type(k) ==
    /\ IF Succ(head) # tail
       THEN /\ buf' = [buf EXCEPT ![head] = [key |-> k, layout |-> layout, shifted |-> shift]]
            /\ head' = Succ(head)
       ELSE UNCHANGED <<buf, head>>
    /\ UNCHANGED <<shift, alt, layout, latch, tail, task, rearmed>>

-----------------------------------------------------------------------------
(* The ui task *)

(* keyboard_has_char, and the test keyboard_getchar repeats *)
HasChar ==
    /\ pc = "ui" /\ head # tail
    /\ pc' = "getchar"
    /\ UNCHANGED <<shift, alt, layout, latch, ring, char, taken, rearmed>>

(* char c = g_buf[g_tail] *)
ReadChar ==
    /\ pc = "getchar"
    /\ char' = buf[tail]
    /\ pc' = "advance"
    /\ UNCHANGED <<shift, alt, layout, latch, ring, taken, rearmed>>

(* g_tail = (g_tail + 1) % KBD_BUF; return c *)
TakeChar ==
    /\ pc = "advance"
    /\ tail' = Succ(tail)
    /\ taken' = char
    /\ pc' = "ui"
    /\ UNCHANGED <<shift, alt, layout, latch, buf, head, char, rearmed>>

(* keyboard_set_layout: two stores *)
SetLayout(l) ==
    /\ pc = "ui"
    /\ layout' = l
    /\ pc' = "latch"
    /\ UNCHANGED <<shift, alt, latch, ring, char, taken, rearmed>>

ClearLatch ==
    /\ pc = "latch"
    /\ latch' = FALSE /\ rearmed' = TRUE
    /\ pc' = "ui"
    /\ UNCHANGED <<shift, alt, layout, ring, char, taken>>

Interrupt ==
    \/ \E k \in Keys : Press(k)
    \/ \E k \in Keys \cup Letters : Release(k)
    \/ \E k \in Letters : Type(k)

Ui == HasChar \/ ReadChar \/ TakeChar \/ ClearLatch \/ \E l \in Layouts : SetLayout(l)

Next == Interrupt \/ Ui

Spec == Init /\ [][Next]_vars

-----------------------------------------------------------------------------
(* Properties *)

TypeOK ==
    /\ shift \in BOOLEAN /\ alt \in BOOLEAN
    /\ layout \in Layouts /\ latch \in BOOLEAN
    /\ buf \in [Places -> Chars]
    /\ head \in Places /\ tail \in Places
    /\ pc \in {"ui", "getchar", "advance", "latch"}
    /\ char \in Chars /\ taken \in Chars
    /\ rearmed \in BOOLEAN

(* The slot the task has read or is about to read is not written before    *)
(* g_tail has moved past it, whatever interrupts come in between.          *)
SlotStable ==
    /\ pc \in {"getchar", "advance"} => head # tail
    /\ pc = "advance" => char = buf[tail]

(* Holding Shift+Alt switches the layout once: a repeated scancode does    *)
(* not switch it again unless a modifier went up or a program set the      *)
(* layout since.                                                           *)
OneSwitchPerChord == [][Interrupt /\ layout' # layout => rearmed]_vars

(* The characters in the ring, in the order the task will take them        *)
Waiting == (head - tail + Size) % Size
Queue == [i \in 1 .. Waiting |-> buf[(tail + i - 1) % Size]]

(* The ring is a queue of Size - 1 characters that loses none but those    *)
(* typed while it is full.                                                 *)
Fifo == INSTANCE KeyQueue WITH queue <- Queue, Capacity <- Size - 1

FifoSpec == Fifo!Spec
=============================================================================
