------------------------------ MODULE Documents -----------------------------
(***************************************************************************)
(* The windows that edit and remove files: the notepads, apps/notepad.c,   *)
(* and the list of files, apps/files.c, over the one table of files, while *)
(* a terminal writes and removes files too.  A notepad holds a copy of its *)
(* file, of at most NP_BUF - 1 characters, from the moment it opens it;    *)
(* the list holds the names as they were when it last looked.              *)
(***************************************************************************)
EXTENDS Integers, FileTable

CONSTANTS
    Names,        \* names of files
    Untitled,     \* the name a notepad without one saves under
    Made,         \* the names file0.txt, file1.txt, ... in order
    Hello,        \* what a file the list makes holds
    Typeable,     \* what is typed
    Cap,          \* NP_BUF - 1
    PadSlots,     \* the slots of g_pads, numbers from 1
    Steps         \* bounds the keys typed and what a terminal does

Contents == Seq(Typeable)

DocumentsAssumption ==
    /\ {Slots, Cap, Steps} \subseteq Nat /\ Cap > 0 /\ PadSlots \subseteq Nat \ {0}
    /\ Untitled \in Names /\ Made \in Seq(Names) /\ "" \notin Names
    /\ Missing \notin Contents /\ Hello \in Contents
    /\ Files \in Seq([name : Names, text : Contents]) /\ Apart(Files) /\ Len(Files) <= Slots

VARIABLES
    files,        \* the slots of fs.c
    pads,         \* g_pads: text, filename and edit_focus; and whether one is shown
    list,         \* the window of the list: names and selected, 0 when there is none
    made,         \* how many names of Made have been used
    icons,        \* the names of the icons on the desktop
    keys,         \* how many of these there were
    opened        \* history: what each notepad's file held when it was opened, if no
                  \* key has been typed into the notepad since

docVars == <<files, pads, list, made, icons, keys, opened>>

NoPad == [shown |-> FALSE, text |-> <<>>, name |-> "", naming |-> FALSE]
NoList == [shown |-> FALSE, names |-> <<>>, selected |-> 0]

DocumentsInit ==
    /\ files = FilesAtStart
    /\ pads = [p \in PadSlots |-> NoPad]
    /\ list = NoList /\ made = 0
    /\ icons = {Files[i].name : i \in DOMAIN Files}
    /\ keys = 0
    /\ opened = [p \in PadSlots |-> Missing]

-----------------------------------------------------------------------------
(* notepad.c *)

ShownPads == {p \in PadSlots : pads[p].shown}

(* Bug: one character too few is copied. *)
StartShort(t) == IF t = Missing THEN <<>> ELSE SubSeq(t, 1, Min({Len(t), Cap - 1}))

(* what apps_launch_notepad_file and np_show copy of the file *)
Start(t) == IF t = Missing THEN <<>> ELSE SubSeq(t, 1, Min({Len(t), Cap}))

(* np_alloc and np_show; without a window to be had nothing is shown *)
ShowPad(text, name, of) ==
    /\ ShownPads # PadSlots
    /\ LET p == Min(PadSlots \ ShownPads)
       IN  /\ pads' = [pads EXCEPT ![p] = [shown |-> TRUE, text |-> text, name |-> name,
                                           naming |-> FALSE]]
           /\ opened' = [opened EXCEPT ![p] = of]
    /\ UNCHANGED <<files, list, made, icons, keys>>

LaunchNotepad == ShowPad(<<>>, "", Missing)

(* from an icon, whether or not its file is still there *)
LaunchNotepadFile(n) ==
    n \in icons /\ ShowPad(Start(TextOf(files, n)), n, TextOf(files, n))

CloseNotepad(p) ==
    /\ pads' = [pads EXCEPT ![p] = NoPad]
    /\ opened' = [opened EXCEPT ![p] = Missing]
    /\ UNCHANGED <<files, list, made, icons, keys>>

(* np_key, the text: a character, a new line or backspace *)
Edited(t) == {Append(t, c) : c \in IF Len(t) < Cap THEN Typeable ELSE {}}
                 \cup (IF t = <<>> THEN {} ELSE {Front(t)})

TypeText(p) ==
    /\ ~pads[p].naming /\ keys < Steps /\ keys' = keys + 1
    /\ \E t \in Edited(pads[p].text) : pads' = [pads EXCEPT ![p].text = t]
    /\ opened' = [opened EXCEPT ![p] = Missing]
    /\ UNCHANGED <<files, list, made, icons>>

(* np_key, the name: keys until another name, or none, stands there *)
TypeName(p) ==
    /\ pads[p].naming /\ keys < Steps /\ keys' = keys + 1
    /\ \E n \in Names \cup {""} : pads' = [pads EXCEPT ![p].name = n]
    /\ opened' = [opened EXCEPT ![p] = Missing]
    /\ UNCHANGED <<files, list, made, icons>>

(* np_click: the field of the name, or the text *)
Focus(p) ==
    /\ pads' = [pads EXCEPT ![p].naming = ~@]
    /\ UNCHANGED <<files, list, made, icons, keys, opened>>

(* np_do_save, by the button or by Enter in the field of the name.  That   *)
(* the table had no room is not looked at: the icon is there all the same. *)
SavePad(p) ==
    LET name == IF pads[p].name = "" THEN Untitled ELSE pads[p].name
    IN  /\ files' = WithFile(files, name, pads[p].text)
        /\ icons' = icons \cup {name}
        /\ pads' = [pads EXCEPT ![p].name = name, ![p].naming = FALSE]
        /\ UNCHANGED <<list, made, keys, opened>>

-----------------------------------------------------------------------------
(* files.c *)

(* Bug: the selection is left where it was. *)
RefreshedLoose(l, f) == [l EXCEPT !.names = Listed(f)]

(* files_refresh: the selection stays on the list, counted from 1 here *)
Refreshed(l, f) ==
    [l EXCEPT !.names = Listed(f), !.selected = Max({1, Min({l.selected, Len(Listed(f))})})]

LaunchFiles ==
    /\ ~list.shown
    /\ list' = Refreshed([NoList EXCEPT !.shown = TRUE], files)
    /\ UNCHANGED <<files, pads, made, icons, keys, opened>>

CloseFiles ==
    /\ list.shown
    /\ list' = NoList
    /\ UNCHANGED <<files, pads, made, icons, keys, opened>>

(* files_key: up and down *)
SelectName ==
    /\ list.shown
    /\ list' \in {[list EXCEPT !.selected = IF @ > 1 THEN @ - 1 ELSE @],
                  [list EXCEPT !.selected = IF @ < Len(list.names) THEN @ + 1 ELSE @]}
    /\ UNCHANGED <<files, pads, made, icons, keys, opened>>

(* Enter removes the file of the name selected, if it is still there *)
RemoveFile ==
    /\ list.shown /\ list.selected <= Len(list.names)
    /\ files' = Removed(files, list.names[list.selected])
    /\ list' = Refreshed(list, files')
    /\ UNCHANGED <<pads, made, icons, keys, opened>>

(* n makes a file of the next name *)
MakeFile ==
    /\ list.shown /\ made < Len(Made)
    /\ made' = made + 1
    /\ files' = WithFile(files, Made[made'], Hello)
    /\ list' = Refreshed(list, files')
    /\ UNCHANGED <<pads, icons, keys, opened>>

(* a terminal *)
Elsewhere(n) ==
    /\ keys < Steps /\ keys' = keys + 1
    /\ files' \in {Removed(files, n), WithFile(files, n, Hello)}
    /\ UNCHANGED <<pads, list, made, icons, opened>>

DocumentsNext ==
    \/ LaunchNotepad \/ \E n \in Names : LaunchNotepadFile(n)
    \/ \E p \in ShownPads : CloseNotepad(p) \/ TypeText(p) \/ TypeName(p) \/ Focus(p) \/ SavePad(p)
    \/ LaunchFiles \/ CloseFiles \/ SelectName \/ RemoveFile \/ MakeFile
    \/ \E n \in Names : Elsewhere(n)

DocumentsSpec == DocumentsInit /\ [][DocumentsNext]_docVars

-----------------------------------------------------------------------------
DocumentsTypeOK ==
    /\ Len(files) = Slots
    /\ \A p \in PadSlots : Len(pads[p].text) <= Cap /\ pads[p].name \in Names \cup {""}
    /\ made \in 0 .. Len(Made) /\ icons \subseteq Names /\ keys \in 0 .. Steps

(* Enter in the list never reaches past its end, and it and the names of   *)
(* the table agree with what is left: whatever was removed elsewhere in    *)
(* between, the selection is on a name of the list unless it is empty, and *)
(* no name is listed twice.                                                *)
SelectionListed ==
    list.shown =>
        /\ list.names # <<>> => list.selected \in DOMAIN list.names
        /\ IsInjective(list.names)

(* Saving a notepad into which nothing was typed since it opened its file, *)
(* a file that is as it was then and not longer than a notepad holds,      *)
(* leaves every file as it is; and no save touches another file.           *)
SaveHarmless ==
    [][\A p \in ShownPads :
         SavePad(p) =>
           /\ \A n \in Names \ {pads'[p].name} : TextOf(files', n) = TextOf(files, n)
           /\ opened[p] # Missing /\ opened[p] = TextOf(files, pads[p].name) /\ Len(opened[p]) <= Cap
                => files' = files]_docVars

(* To save what was only opened harms no file, no save another file, and   *)
(* the list selects a name it shows.                                       *)
DocumentsKept == SaveHarmless /\ [][SelectionListed']_docVars
=============================================================================
