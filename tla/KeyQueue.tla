------------------------------ MODULE KeyQueue ------------------------------
(* What the keyboard driver promises the ui task: the typed characters in   *)
(* the order they were typed, each once; only a full queue loses one.       *)
EXTENDS Naturals, Sequences

CONSTANTS Chars, Capacity

VARIABLES
    queue,        \* characters typed and not yet taken
    taken         \* the character taken last

vars == <<queue, taken>>

Init == queue = <<>> /\ taken \in Chars

Type(c) ==
    /\ Len(queue) < Capacity
    /\ queue' = Append(queue, c)
    /\ UNCHANGED taken

Take ==
    /\ queue # <<>>
    /\ taken' = Head(queue)
    /\ queue' = Tail(queue)

Next == Take \/ \E c \in Chars : Type(c)

Spec == Init /\ [][Next]_vars
=============================================================================
