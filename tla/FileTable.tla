------------------------------- MODULE FileTable ------------------------------
(***************************************************************************)
(* The table of files in memory, kernel/fs.c, as the applications use it:  *)
(* a sequence of slots, searched by name from the first on.  What a file   *)
(* holds is up to the module that uses it; the disk is module DiskFS.      *)
(***************************************************************************)
EXTENDS Integers, Sequences, FiniteSets, FiniteSetsExt, SequencesExt

CONSTANTS
    Missing,      \* what reading a name gives that has no file
    Slots,        \* FS_MAX_FILES
    Files         \* the files at the start: a sequence of [name, text]

Unused == [name |-> "", text |-> Missing]

(* fs_init, and the files there are from the start *)
EmptySlots(n) == [i \in 1 .. n |-> Unused]
FilesAtStart == Files \o EmptySlots(Slots - Len(Files))

(* find *)
Slot(f, n) == {i \in DOMAIN f : f[i] # Unused /\ f[i].name = n}
Has(f, n) == Slot(f, n) # {}

(* fs_read *)
TextOf(f, n) == IF Has(f, n) THEN f[Min(Slot(f, n))].text ELSE Missing

Free(f) == {i \in DOMAIN f : f[i] = Unused}
Full(f, n) == ~Has(f, n) /\ Free(f) = {}

(* Bug: the name is not looked for first. *)
CreatedAnew(f, n, t) ==
    IF Free(f) = {} THEN f ELSE [f EXCEPT ![Min(Free(f))] = [name |-> n, text |-> t]]

(* fs_create and fs_write: the file's slot, or else the first unused one *)
WithFile(f, n, t) ==
    IF Full(f, n) THEN f
    ELSE [f EXCEPT ![IF Has(f, n) THEN Min(Slot(f, n)) ELSE Min(Free(f))] = [name |-> n, text |-> t]]

(* fs_remove *)
Removed(f, n) == IF Has(f, n) THEN [f EXCEPT ![Min(Slot(f, n))] = Unused] ELSE f

Nth(S, k) == CHOOSE i \in S : Cardinality({j \in S : j <= i}) = k

(* fs_list: the names, in the order of the slots *)
Listed(f) ==
    LET used == DOMAIN f \ Free(f)
    IN  [k \in 1 .. Cardinality(used) |-> f[Nth(used, k)].name]

(* No two slots in use have the same name. *)
Apart(f) == \A i, j \in DOMAIN f : Unused \notin {f[i], f[j]} /\ f[i].name = f[j].name => i = j
=============================================================================
