-------------------------------- MODULE Shell -------------------------------
(***************************************************************************)
(* A terminal, apps/terminal.c, and the batch scripts it runs,             *)
(* apps/script.c, over the table of files in memory, kernel/fs.c.  A       *)
(* command is three words, and a text is a sequence of lines, each a       *)
(* command or a directive: so the texts the files hold are the scripts     *)
(* that run, and a script may write, move and remove scripts, itself       *)
(* included, and run them in turn.                                         *)
(***************************************************************************)
EXTENDS Integers, FileTable, TLC

CONSTANTS
    Lines,        \* the lines of every text a file may hold
    Commands,     \* what is typed
    Refs,         \* the words that are references to a variable: [word |-> name]
    Rows,         \* TERM_ROWS
    HistMax,      \* HISTORY_MAX
    HeadMax,      \* the 10 of cmd_head and cmd_tail
    MaxScripts,   \* MAX_SCRIPTS
    MaxVars,      \* MAX_VARS
    MaxTyped      \* bound on the commands typed

Texts == DOMAIN Lines
NoText == "empty"
Blank == <<"", "", "">>
Banner == <<"FOS Terminal", "", "">>
Words(line) == <<line.op, line.a, line.b>>

(* A text that a command or a line writes is one that Lines has. *)
ShellAssumption ==
    /\ Slots \in Nat /\ Len(Files) <= Slots
    /\ Files \in Seq([name : STRING, text : Texts]) /\ Apart(Files)
    /\ \A t \in Texts : Lines[t] \in Seq([op : STRING, a : STRING, b : STRING, at : BOOLEAN])
    /\ \A t \in Texts : \A i \in DOMAIN Lines[t] :
          Lines[t][i].op = "write" => Lines[t][i].b \in Texts \ DOMAIN Refs
    /\ \A w \in Commands : w[1] = "write" => w[3] \in Texts
    /\ \A w \in DOMAIN Refs : Refs[w] \in STRING
    /\ NoText \in Texts /\ Lines[NoText] = <<>> /\ Missing \notin Texts
    /\ {Rows, HistMax, HeadMax, MaxScripts} \subseteq Nat \ {0} /\ Rows > 1
    /\ {MaxVars, MaxTyped} \subseteq Nat

VARIABLES
    fs,           \* g_files: the slots in order
    screen,       \* lines and row of the terminal
    history,      \* history
    stack,        \* g_scripts up to g_depth
    said,         \* history: the last Rows lines printed since the last clear
    typed,        \* history: the last HistMax commands typed
    number,       \* how many were typed, bounded by MaxTyped
    did           \* history: the last command executed

log == <<said, typed, number, did>>
shellVars == <<fs, screen, history, stack, log>>

ShellInit ==
    /\ fs = FilesAtStart
    /\ screen = [lines |-> [i \in 1 .. Rows |-> IF i = 1 THEN Banner ELSE Blank], row |-> 1]
    /\ history = <<>> /\ stack = <<>>
    /\ said = <<Banner>> /\ typed = <<>> /\ number = 0
    /\ did = Blank

-----------------------------------------------------------------------------
(* terminal.c: what is on the screen *)

(* Bug: the row in front of the last is written twice. *)
PushedOver(s, words) ==
    IF s.row >= Rows - 1
    THEN [lines |-> [s.lines EXCEPT ![Rows] = words], row |-> Rows]
    ELSE [lines |-> [s.lines EXCEPT ![s.row + 1] = words], row |-> s.row + 1]

(* term_push_line: it scrolls one line early, the first time, and leaves   *)
(* an empty one                                                            *)
Pushed(s, words) ==
    IF s.row >= Rows - 1
    THEN [lines |-> Append(Tail(s.lines), words), row |-> Rows]
    ELSE [lines |-> [s.lines EXCEPT ![s.row + 1] = words], row |-> s.row + 1]

LastOf(s, k) == SubSeq(s, Max({1, Len(s) - k + 1}), Len(s))

Printed(s, out) ==
    LET after[k \in 0 .. Len(out)] == IF k = 0 THEN s ELSE Pushed(after[k - 1], out[k])
    IN  after[Len(out)]

(* what a command leaves: the lines it prints are shown in order *)
Show(s, out) ==
    /\ screen' = Printed(s, out)
    /\ said' = LastOf((IF s = screen THEN said ELSE <<>>) \o out, Rows)

Say(what) == <<"say", what, "">>

-----------------------------------------------------------------------------
(* The commands: the files they leave and the lines they print *)

Answer(f, out) == [fs |-> f, out |-> out]

Reader(op, n) ==
    LET text == Lines[TextOf(fs, n)]
        printed == [i \in DOMAIN text |-> Words(text[i])]
    IN  CASE op = "cat" -> IF text = <<>> THEN <<Say("empty")>> ELSE printed
          [] op = "head" -> IF text = <<>> THEN <<Blank>> ELSE SubSeq(printed, 1, Min({Len(text), HeadMax}))
          [] op = "tail" -> IF text = <<>> THEN <<Blank>> ELSE LastOf(printed, HeadMax)
          [] op = "wc" -> <<<<"wc", ToString(Len(text)), "">>>>

(* cmd_grep: the lines with the word *)
Grep(word, n) ==
    LET text == Lines[TextOf(fs, n)]
        found == {i \in DOMAIN text : word \in Range(Words(text[i]))}
    IN  [k \in 1 .. Cardinality(found) |-> Words(text[Nth(found, k)])]

(* cmd_ls *)
Ls == IF Listed(fs) = <<>> THEN <<Say("empty")>>
      ELSE [i \in DOMAIN Listed(fs) |-> <<Listed(fs)[i], "", "">>]

(* cmd_touch, cmd_write, cmd_rm, cmd_cp, cmd_mv, cmd_echo, cmd_history     *)
(* and those above *)
Result(w) ==
    LET op == w[1]  a == w[2]  b == w[3] IN
    CASE op \in {"touch", "rm", "cat", "head", "tail", "wc", "write", "cp", "mv"} /\ a = "" ->
             Answer(fs, <<Say("usage")>>)
      [] op = "touch" /\ a # "" ->
             Answer(WithFile(fs, a, NoText), <<Say(IF Full(fs, a) THEN "cannot" ELSE "created")>>)
      [] op = "write" /\ a # "" ->
             Answer(WithFile(fs, a, b), <<Say(IF Full(fs, a) THEN "failed" ELSE "written")>>)
      [] op = "rm" /\ a # "" ->
             Answer(Removed(fs, a), <<Say(IF Has(fs, a) THEN "removed" ELSE "not found")>>)
      [] op \in {"cp", "mv"} /\ a # "" ->
             IF ~Has(fs, a) THEN Answer(fs, <<Say("not found")>>)
             ELSE IF Full(fs, b) THEN Answer(fs, <<Say("failed")>>)
             ELSE LET copied == WithFile(fs, b, TextOf(fs, a))
                  IN  Answer(IF op = "mv" THEN Removed(copied, a) ELSE copied, <<Say(op)>>)
      [] op \in {"cat", "head", "tail", "wc"} /\ a # "" ->
             Answer(fs, IF Has(fs, a) THEN Reader(op, a) ELSE <<Say("not found")>>)
      [] op = "grep" ->
             Answer(fs, IF Has(fs, b) THEN Grep(a, b) ELSE <<Say("not found")>>)
      [] op = "ls" -> Answer(fs, Ls)
      [] op = "history" -> Answer(fs, history)
      [] op = "echo" -> Answer(fs, <<<<a, b, "">>>>)
      [] op = "clear" -> Answer(fs, <<>>)
      [] OTHER -> Answer(fs, <<Say("unknown command")>>)

(* script_run: a slot of g_scripts with the lines of the file as they are  *)
(* now, and no variables                                                   *)
ScriptFrame(n) == [lines |-> Lines[TextOf(fs, n)], pc |-> 1, vars |-> <<>>, quiet |-> FALSE]

Runs(w, frames) == w[1] = "run" /\ Has(fs, w[2]) /\ Len(frames) < MaxScripts
                   /\ TextOf(fs, w[2]) # NoText

(* term_execute: the line, and what the command prints; cmd_run prints     *)
(* before and after the script                                             *)
Execute(w, frames, before) ==
    LET prompt == Append(before, <<"> ", w[1], w[2]>>)
        run == <<Say("running")>>
    IN  /\ did' = w
        /\ IF w[1] = "run"
           THEN /\ stack' = IF Runs(w, frames) THEN Append(frames, ScriptFrame(w[2])) ELSE frames
                /\ Show(screen, prompt \o
                        (IF ~Has(fs, w[2]) THEN <<Say("not found")>>
                         ELSE IF Runs(w, frames) THEN run
                         ELSE run \o <<Say("script"), Say("done")>>))
                /\ UNCHANGED fs
           ELSE LET cleared == [lines |-> [i \in 1 .. Rows |-> Blank], row |-> 0]
                IN  /\ stack' = frames
                    /\ fs' = Result(w).fs
                    /\ IF w[1] = "clear" THEN Show(cleared, <<>>)
                       ELSE Show(screen, prompt \o Result(w).out)

(* Bug: commands of scripts go into the history. *)
RememberAll(w) == history' = LastOf(Append(history, w), HistMax)

(* the history: HISTORY_MAX commands, those typed *)
Remember(w) ==
    IF stack # <<>> THEN UNCHANGED history
    ELSE history' = IF Len(history) < HistMax THEN Append(history, w)
                    ELSE Append(Tail(history), w)

(* term_key: Enter, with a command typed; keys wait while a script runs *)
Type(w) ==
    /\ stack = <<>> /\ number < MaxTyped
    /\ number' = number + 1
    /\ typed' = LastOf(Append(typed, w), HistMax)
    /\ Remember(w)
    /\ Execute(w, stack, <<>>)

-----------------------------------------------------------------------------
(* script.c: one line of the script on top of the stack *)

Top == stack[Len(stack)]
Line == Top.lines[Top.pc]
Running == stack # <<>> /\ Top.pc <= Len(Top.lines)
Topped(frame) == [stack EXCEPT ![Len(stack)] = frame]
Stepped == Topped([Top EXCEPT !.pc = @ + 1])

(* lookup_var and set_var: no room for a new one past MAX_VARS *)
Value(v) ==
    LET found == {i \in DOMAIN Top.vars : Top.vars[i].name = v}
    IN  IF found = {} THEN "" ELSE Top.vars[Min(found)].value

WithVar(v, value) ==
    LET found == {i \in DOMAIN Top.vars : Top.vars[i].name = v}
    IN  IF found # {} THEN [Top.vars EXCEPT ![Min(found)].value = value]
        ELSE IF Len(Top.vars) >= MaxVars THEN Top.vars
        ELSE Append(Top.vars, [name |-> v, value |-> value])

(* expand *)
Word(w) == IF w \in DOMAIN Refs THEN Value(Refs[w]) ELSE w
Expanded == <<Line.op, Word(Line.a), Word(Line.b)>>

(* what run shows of a line before it does it *)
Shown == IF Line.at \/ Top.quiet THEN <<>> ELSE <<<<"> ", Expanded[1], Expanded[2]>>>>

Directive(ops) == Running /\ Line.op \in ops /\ UNCHANGED <<fs, history, typed, number, did>>

(* labels and comments, echo off and on *)
Skip ==
    /\ Directive({"label", "rem", "echo off", "echo on"})
    /\ stack' = Topped([Top EXCEPT !.pc = @ + 1,
                           !.quiet = CASE Line.op = "echo off" -> TRUE
                                       [] Line.op = "echo on" -> FALSE
                                       [] OTHER -> @])
    /\ UNCHANGED <<screen, said>>

Echo ==
    /\ Directive({"echo"})
    /\ Show(screen, Shown \o <<<<Expanded[2], Expanded[3], "">>>>)
    /\ stack' = Stepped

Set ==
    /\ Directive({"set"})
    /\ Show(screen, Shown)
    /\ stack' = Topped([Top EXCEPT !.pc = @ + 1, !.vars = WithVar(Expanded[2], Expanded[3])])

(* Bug: a label that is not there is looked for again. *)
GotoStays(labels) == IF labels = {} THEN Top.pc ELSE Min(labels) + 1

(* find_label: the line after the first such label, the next line without  *)
GotoLine(labels) == IF labels = {} THEN Top.pc + 1 ELSE Min(labels) + 1

Goto ==
    /\ Directive({"goto"})
    /\ LET labels == {i \in DOMAIN Top.lines : Top.lines[i].op = "label" /\ Top.lines[i].a = Expanded[2]}
       IN  /\ Show(screen, Shown \o IF labels = {} THEN <<Say("no label")>> ELSE <<>>)
           /\ stack' = Topped([Top EXCEPT !.pc = GotoLine(labels)])

Pause ==
    /\ Directive({"pause"})
    /\ Show(screen, Append(Shown, Say("pause")))
    /\ stack' = Stepped

Exit ==
    /\ Directive({"exit"})
    /\ Show(screen, Shown)
    /\ stack' = Topped([Top EXCEPT !.pc = Len(Top.lines) + 1])

(* term_cmd_cb: any other line is a command for the terminal *)
Command ==
    /\ Running /\ Line.op \notin {"label", "rem", "echo off", "echo on", "echo", "set", "goto",
                                  "pause", "exit"}
    /\ Remember(Expanded)
    /\ Execute(Expanded, Stepped, Shown)
    /\ UNCHANGED <<typed, number>>

(* the end of the script, back in cmd_run *)
Done ==
    /\ stack # <<>> /\ ~Running
    /\ stack' = Front(stack)
    /\ Show(screen, <<Say("done")>>)
    /\ UNCHANGED <<fs, history, typed, number, did>>

Step == Skip \/ Echo \/ Set \/ Goto \/ Pause \/ Exit \/ Command \/ Done

ShellNext == (\E w \in Commands : Type(w)) \/ Step

ShellSpec == ShellInit /\ [][ShellNext]_shellVars /\ WF_shellVars(Step)

-----------------------------------------------------------------------------
ShellTypeOK ==
    /\ Len(fs) = Slots /\ \A i \in DOMAIN fs : fs[i].text \in Texts \cup {Missing}
    /\ Len(screen.lines) = Rows /\ screen.row \in 0 .. Rows
    /\ Len(history) <= HistMax
    /\ Len(stack) <= MaxScripts
    /\ \A i \in DOMAIN stack : Len(stack[i].vars) <= MaxVars
    /\ number \in 0 .. MaxTyped

(* No name is in the table of files twice. *)
NamesApart == Apart(fs)

(* What a command should do to the files, by name: a copy or a move leaves *)
(* the text under the new name, and every other file is as it was.  A move *)
(* to the same name is left out: cmd_mv removes the file.                  *)
View(f) == [n \in {f[i].name : i \in DOMAIN f} \ {""} |-> TextOf(f, n)]
Kept(n) == TextOf(fs', n) = TextOf(fs, n)
Meant(w) ==
    LET op == w[1]  a == w[2]  b == w[3]
        t == IF op = "touch" THEN NoText ELSE IF op = "write" THEN b ELSE TextOf(fs, a)
        target == IF op \in {"cp", "mv"} THEN b ELSE a
        changed == CASE op \in {"touch", "write", "cp"} -> {target}
                     [] op = "mv" -> {a, b}
                     [] op = "rm" -> {a}
                     [] OTHER -> {}
    IN  /\ \A n \in DOMAIN View(fs) \ changed : Kept(n)
        /\ op \in {"touch", "write", "cp", "mv"} =>
               TextOf(fs', target) = t \/ (\A n \in changed : Kept(n))
        /\ op = "mv" => (TextOf(fs', a) = Missing <=> TextOf(fs', b) = t)

(* Every step changes the files as the command it executes says, whatever  *)
(* slots are reused and however scripts write over one another.            *)
FilesAsMeant ==
    [][fs' = fs \/ (did'[1] = "mv" /\ did'[2] = did'[3]) \/ Meant(did')]_shellVars

(* The history holds the last commands typed, and none of a script's, of   *)
(* the scripts it ran in turn or after they came back.                     *)
HistoryIsTyped == history = typed

(* The screen shows the last lines printed, in order and without a gap     *)
(* other than the one empty line of the first scrolling, which takes the   *)
(* place of the first of them.                                             *)
ScreenTail ==
    /\ screen.row = Len(said)
    /\ \A i \in screen.row + 1 .. Rows : screen.lines[i] = Blank
    /\ \E gap \in 0 .. Rows - 1 :
         /\ gap # 0 => screen.row = Rows /\ screen.lines[gap] = Blank
         /\ \A i \in (1 .. screen.row) \ {gap} :
              screen.lines[i] = said[IF i > gap THEN i ELSE i + 1]

(* Names, the history and the screen are in order together. *)
TerminalSound == NamesApart /\ HistoryIsTyped /\ ScreenTail

(* Every script comes to its end, and control back to the ui task: when no *)
(* text goes back to a label, for MAX_SCRIPTS bounds the scripts that run  *)
(* themselves.                                                             *)
ScriptsEnd == stack # <<>> ~> stack = <<>>
=============================================================================
