-------------------------------- MODULE Media -------------------------------
(***************************************************************************)
(* The media players, apps/media.c, and the speaker they share,            *)
(* kernel/speaker.c: every window has a state of its own, one at a time    *)
(* plays, and painting a window moves its tune on when its note is over.   *)
(* The clicks, media_tick and the painting are one round of the ui task.   *)
(* Times are left out: at any painting the note may be over.               *)
(***************************************************************************)
EXTENDS Integers, Sequences, FiniteSets

CONSTANTS
    Players,      \* the slots of g_media, and of the windows
    Tracks        \* TRACKS: sequences of tones, 0 a rest, without the end mark

ASSUME MediaAssumption ==
    /\ Players # {} /\ 0 \notin Players
    /\ Tracks \in Seq(Seq(Nat) \ {<<>>}) \ {<<>>}

VARIABLES
    shown,        \* the players whose window is visible
    playing,      \* the players whose playing is set
    track,        \* track of each, counted from 1
    note,         \* note of each, counted from 1
    active,       \* g_active_slot, 0 for -1
    tone          \* what the speaker sounds, 0 when it is off

players == <<playing, track, note>>
mediaVars == <<shown, players, active, tone>>

MediaInit ==
    /\ shown = {} /\ playing = {}
    /\ track = [p \in Players |-> 1] /\ note = [p \in Players |-> 1]
    /\ active = 0 /\ tone = 0

-----------------------------------------------------------------------------
(* What a click leaves, before the rest of the round: the players, g_active_slot *)
(* and the speaker                                                         *)

State == [shown |-> shown, playing |-> playing, track |-> track, note |-> note,
          active |-> active, tone |-> tone]

(* media_start_playback *)
Started(s, p) ==
    [s EXCEPT !.playing = @ \cup {p}, !.note[p] = 1, !.tone = Tracks[s.track[p]][1]]

(* Bug: the other players go on. *)
StoppedNone(s, p) == [s EXCEPT !.active = p]

(* stop_all_but *)
StoppedAllBut(s, p) == [s EXCEPT !.playing = @ \cap {p}, !.active = p]

(* media_click: play or pause, and the tracks before and after *)
PlayClicked(s, p) ==
    IF p \in s.playing
    THEN [s EXCEPT !.playing = @ \ {p}, !.tone = 0, !.active = 0]
    ELSE Started(StoppedAllBut(s, p), p)

Turned(s, p, by) ==
    LET n == Len(Tracks)
        t == [s EXCEPT !.track[p] = ((@ - 1 + n + by) % n) + 1]
    IN  IF p \in s.playing THEN Started(t, p) ELSE t

(* apps_launch_media in the pad media_alloc found: a window not shown *)
LaunchedPlayer(s, p) ==
    [s EXCEPT !.shown = @ \cup {p}, !.playing = @ \ {p}, !.track[p] = 1, !.note[p] = 1]

(* a window closed or the button of one clicked, or neither *)
Clicked ==
    {State}
        \cup {PlayClicked(State, p) : p \in shown}
        \cup {Turned(State, p, by) : p \in shown, by \in {1, -1}}
        \cup {LaunchedPlayer(State, p) : p \in Players \ shown}
        \cup {[State EXCEPT !.shown = @ \ {p}] : p \in shown}

-----------------------------------------------------------------------------
(* Bug: the speaker is left on. *)
TickedLoud(s) == [s EXCEPT !.playing = @ \cap s.shown]

(* media_tick: a player whose window is gone stops, and the speaker with   *)
(* the active one                                                          *)
Ticked(s) ==
    LET gone == s.playing \ s.shown
    IN  IF s.active \in gone
        THEN [s EXCEPT !.playing = @ \ gone, !.tone = 0, !.active = 0]
        ELSE [s EXCEPT !.playing = @ \ gone]

(* media_draw and media_advance: the next note when this one is over, and  *)
(* the end of the tune after the last; else the tone again                 *)
Advanced(s, p) ==
    LET tune == Tracks[s.track[p]]
        next == s.note[p] + 1
    IN  IF next > Len(tune)
        THEN [s EXCEPT !.playing = @ \ {p}, !.note[p] = 1, !.tone = 0]
        ELSE [s EXCEPT !.note[p] = next, !.tone = tune[next]]

Again(s, p) ==
    LET hz == Tracks[s.track[p]][s.note[p]]
    IN  IF hz # 0 THEN [s EXCEPT !.tone = hz] ELSE s

Painted(s, due) ==
    IF s.playing = {} THEN s
    ELSE LET p == CHOOSE q \in s.playing : TRUE
         IN  IF due THEN Advanced(s, p) ELSE Again(s, p)

(* One round of the ui task *)
Round(s) ==
    /\ shown' = s.shown /\ playing' = s.playing
    /\ track' = s.track /\ note' = s.note
    /\ active' = s.active /\ tone' = s.tone

MediaNext == \E c \in Clicked, due \in BOOLEAN : Round(Painted(Ticked(c), due))

MediaSpec == MediaInit /\ [][MediaNext]_mediaVars

-----------------------------------------------------------------------------
MediaTypeOK ==
    /\ shown \subseteq Players /\ playing \subseteq Players
    /\ track \in [Players -> DOMAIN Tracks]
    /\ \A p \in Players : note[p] \in DOMAIN Tracks[track[p]] \/ p \notin playing
    /\ active \in Players \cup {0}
    /\ tone \in Nat

(* After every round of the ui task at most one player plays, in a window  *)
(* that is shown, the speaker sounds the note it has come to, and without  *)
(* one the speaker is silent, whatever was closed, restarted or ran out.   *)
SpeakerFollows ==
    /\ playing \subseteq shown /\ Cardinality(playing) <= 1
    /\ \A p \in playing : tone = Tracks[track[p]][note[p]]
    /\ playing = {} => tone = 0
=============================================================================
