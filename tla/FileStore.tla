----------------------------- MODULE FileStore -----------------------------
(***************************************************************************)
(* What kernel/fs.c promises the programs above it: a map from names to    *)
(* contents in which every write or removal takes effect at once, over a   *)
(* store that keeps what has reached it.  A change is unsaved from the     *)
(* call that makes it until that call has reached the store; it stays      *)
(* unsaved when the store refuses it.  A session may be unable to read     *)
(* some files, or any; the store has them for the next one all the same.   *)
(***************************************************************************)
CONSTANTS Names, Contents, Missing, Unknown

VARIABLES
    files,        \* name -> contents, or Missing
    kept          \* what the store holds for a name; Unknown while unsaved

vars == <<files, kept>>

Init ==
    /\ files = [n \in Names |-> Missing]
    /\ kept = [n \in Names |-> Missing]

Change(n, c) ==
    /\ files' = [files EXCEPT ![n] = c]
    /\ \E k \in {c, Unknown} : kept' = [kept EXCEPT ![n] = k]

Write(n) == \E c \in Contents : Change(n, c)

Delete(n) == files[n] # Missing /\ Change(n, Missing)

Saved(n) ==
    /\ kept' = [kept EXCEPT ![n] = files[n]]
    /\ UNCHANGED files

(* A session begins with the files of the store it can read. *)
Session(readable) ==
    /\ files' \in [Names -> Contents \cup {Missing}]
    /\ \A n \in readable : kept[n] # Unknown => files'[n] = kept[n]
    /\ \A n \in Names \ readable : files'[n] = Missing
    /\ kept' = [n \in Names |-> IF n \in readable THEN files'[n] ELSE kept[n]]

Next ==
    \/ \E readable \in SUBSET Names : Session(readable)
    \/ \E n \in Names : Write(n) \/ Delete(n) \/ Saved(n)

Spec == Init /\ [][Next]_vars
=============================================================================
