------------------------------ MODULE UiProofs ------------------------------
(* Proofs about what a user sees and hears: the media players and the      *)
(* speaker for every set of tunes, the places of windows and icons for     *)
(* every resolution, the window manager for every number of windows and    *)
(* every set of applications, the settings and the wallpaper for every     *)
(* number of photos, zones and changes, the history, links and searches of *)
(* the browser for every set of addresses and words, and the text of every *)
(* page.                                                                   *)
EXTENDS Windows, Screen, Media, Settings, Browser, Html, FiniteSetTheorems,
        SequenceTheorems, WellFoundedInduction, TLAPS

-----------------------------------------------------------------------------
(* Media players *)

(* What clicks and paintings are made of *)
States ==
    [shown : SUBSET Players, playing : SUBSET Players, track : [Players -> DOMAIN Tracks],
     note : [Players -> Nat], active : Players \cup {0}, tone : Nat]

(* The speaker is at the note of p. *)
AtNote(s, p) ==
    /\ s.note[p] \in DOMAIN Tracks[s.track[p]]
    /\ s.tone = Tracks[s.track[p]][s.note[p]]

(* What every step of a round keeps: at most one plays, it is the active   *)
(* one, so that media_tick can silence it, and the speaker is at its note. *)
OnePlays(s) ==
    \/ s.playing = {} /\ s.tone = 0
    \/ \E p \in Players : s.playing = {p} /\ s.active = p /\ AtNote(s, p)

MediaOK(s) == s \in States /\ OnePlays(s)

MediaInv == MediaOK(State) /\ playing \subseteq shown

(* A track has notes. *)
LEMMA TrackNotes ==
    /\ Len(Tracks) \in Nat /\ Len(Tracks) > 0 /\ DOMAIN Tracks = 1 .. Len(Tracks)
    /\ \A t \in DOMAIN Tracks :
          /\ Len(Tracks[t]) \in Nat /\ Len(Tracks[t]) > 0
          /\ DOMAIN Tracks[t] = 1 .. Len(Tracks[t])
          /\ \A n \in DOMAIN Tracks[t] : Tracks[t][n] \in Nat
<1>1. Tracks \in Seq(Seq(Nat) \ {<<>>}) /\ Tracks # <<>>
  BY MediaAssumption
<1>2. ASSUME NEW t \in DOMAIN Tracks
      PROVE  /\ Len(Tracks[t]) \in Nat /\ Len(Tracks[t]) > 0
             /\ DOMAIN Tracks[t] = 1 .. Len(Tracks[t])
             /\ \A n \in DOMAIN Tracks[t] : Tracks[t][n] \in Nat
  <2>1. Tracks[t] \in Seq(Nat) /\ Tracks[t] # <<>>
    BY <1>1
  <2> QED
    BY <2>1
<1> QED
  BY <1>1, <1>2

(* media_start_playback of the one that may play *)
LEMMA StartedOK ==
    ASSUME NEW s \in States, NEW p \in Players, s.playing \subseteq {p}, s.active = p
    PROVE  MediaOK(Started(s, p))
<1>1. s.track[p] \in DOMAIN Tracks
  BY DEF States
<1>2. 1 \in DOMAIN Tracks[s.track[p]] /\ Tracks[s.track[p]][1] \in Nat
  BY <1>1, TrackNotes
<1> DEFINE t == Started(s, p)
<1>3. /\ t.playing = {p} /\ t.active = p /\ t.track = s.track
      /\ t.note[p] = 1 /\ t.tone = Tracks[s.track[p]][1]
  BY DEF Started, States
<1>4. t \in States
  BY <1>2 DEF Started, States
<1> HIDE DEF t
<1>5. AtNote(t, p)
  BY <1>2, <1>3 DEF AtNote
<1> QED
  BY <1>3, <1>4, <1>5 DEF MediaOK, OnePlays, t

LEMMA PlayClickedOK ==
    ASSUME NEW s, MediaOK(s), NEW p \in Players
    PROVE  MediaOK(PlayClicked(s, p))
<1>1. s \in States /\ OnePlays(s)
  BY DEF MediaOK
<1>2. CASE p \in s.playing
  <2>1. s.playing = {p}
    BY <1>1, <1>2 DEF OnePlays
  <2> DEFINE t == [s EXCEPT !.playing = @ \ {p}, !.tone = 0, !.active = 0]
  <2>2. t \in States /\ t.playing = {} /\ t.tone = 0
    BY <1>1, <2>1 DEF States
  <2> HIDE DEF t
  <2>3. MediaOK(t)
    BY <2>2 DEF MediaOK, OnePlays
  <2> QED
    BY <1>2, <2>3 DEF PlayClicked, t
<1>3. CASE p \notin s.playing
  <2> DEFINE t == StoppedAllBut(s, p)
  <2>1. t \in States /\ t.playing \subseteq {p} /\ t.active = p
    BY <1>1 DEF StoppedAllBut, States
  <2> HIDE DEF t
  <2>2. MediaOK(Started(t, p))
    BY <2>1, StartedOK
  <2> QED
    BY <1>3, <2>2 DEF PlayClicked, t
<1> QED
  BY <1>2, <1>3

(* The track of a player that does not play is of no matter. *)
LEMMA OthersTrack ==
    ASSUME NEW s, MediaOK(s), NEW p \in Players, p \notin s.playing,
           NEW t \in States, t.playing = s.playing, t.active = s.active, t.tone = s.tone,
           \A q \in Players \ {p} : t.track[q] = s.track[q] /\ t.note[q] = s.note[q]
    PROVE  MediaOK(t)
<1>1. CASE s.playing = {} /\ s.tone = 0
  BY <1>1 DEF MediaOK, OnePlays
<1>2. CASE \E q \in Players : s.playing = {q} /\ s.active = q /\ AtNote(s, q)
  <2>1. PICK q \in Players : s.playing = {q} /\ s.active = q /\ AtNote(s, q)
    BY <1>2
  <2>2. q \in Players \ {p}
    BY <2>1
  <2>3. AtNote(t, q)
    BY <2>1, <2>2 DEF AtNote
  <2> QED
    BY <2>1, <2>3 DEF MediaOK, OnePlays
<1> QED
  BY <1>1, <1>2 DEF MediaOK, OnePlays

LEMMA TurnedOK ==
    ASSUME NEW s, MediaOK(s), NEW p \in Players, NEW by \in {1, -1}
    PROVE  MediaOK(Turned(s, p, by))
<1>1. s \in States /\ OnePlays(s)
  BY DEF MediaOK
<1> DEFINE n == Len(Tracks)
           k == ((s.track[p] - 1 + n + by) % n) + 1
           t == [s EXCEPT !.track[p] = k]
<1>2. k \in DOMAIN Tracks
  <2>1. s.track[p] \in 1 .. n /\ n \in Nat /\ n > 0
    BY <1>1, TrackNotes DEF States
  <2>2. s.track[p] - 1 + n + by \in Int
    BY <2>1
  <2>3. (s.track[p] - 1 + n + by) % n \in 0 .. n - 1
    BY <2>1, <2>2
  <2> QED
    BY <2>1, <2>3, TrackNotes
<1> HIDE DEF k
<1>3. /\ t \in States /\ t.playing = s.playing /\ t.active = s.active /\ t.tone = s.tone
      /\ \A q \in Players \ {p} : t.track[q] = s.track[q] /\ t.note[q] = s.note[q]
  BY <1>1, <1>2 DEF States
<1>4. Turned(s, p, by) = IF p \in s.playing THEN Started(t, p) ELSE t
  BY DEF Turned, k
<1> HIDE DEF t
<1>5. CASE p \in s.playing
  <2>1. t.playing \subseteq {p} /\ t.active = p
    BY <1>1, <1>3, <1>5 DEF OnePlays
  <2> QED
    BY <1>3, <1>4, <1>5, <2>1, StartedOK
<1>6. CASE p \notin s.playing
  BY <1>3, <1>4, <1>6, OthersTrack
<1> QED
  BY <1>5, <1>6

LEMMA LaunchedPlayerOK ==
    ASSUME NEW s, MediaOK(s), NEW p \in Players, p \notin s.playing
    PROVE  MediaOK(LaunchedPlayer(s, p))
<1>1. s \in States /\ 1 \in DOMAIN Tracks
  BY TrackNotes DEF MediaOK
<1> DEFINE t == LaunchedPlayer(s, p)
<1>2. /\ t \in States /\ t.playing = s.playing /\ t.active = s.active /\ t.tone = s.tone
      /\ \A q \in Players \ {p} : t.track[q] = s.track[q] /\ t.note[q] = s.note[q]
  <2>1. t \in States
    BY <1>1 DEF LaunchedPlayer, States
  <2>2. /\ t.playing = s.playing \ {p} /\ t.active = s.active /\ t.tone = s.tone
        /\ t.track = [s.track EXCEPT ![p] = 1] /\ t.note = [s.note EXCEPT ![p] = 1]
    BY <1>1 DEF LaunchedPlayer, States
  <2>3. \A q \in Players \ {p} : t.track[q] = s.track[q] /\ t.note[q] = s.note[q]
    BY <1>1, <2>2 DEF States
  <2> HIDE DEF t
  <2> QED
    BY <2>1, <2>2, <2>3
<1> HIDE DEF t
<1>3. MediaOK(t)
  BY <1>2, OthersTrack
<1> QED
  BY <1>3 DEF t

LEMMA ClickedOK ==
    ASSUME MediaInv, NEW c \in Clicked
    PROVE  MediaOK(c)
<1>1. MediaOK(State) /\ State.playing \subseteq shown /\ shown \subseteq Players
  BY DEF MediaInv, MediaOK, State, States
<1>2. CASE c = State
  BY <1>1, <1>2
<1>3. ASSUME NEW p \in shown, c = PlayClicked(State, p) PROVE MediaOK(c)
  BY <1>1, <1>3, PlayClickedOK
<1>4. ASSUME NEW p \in shown, NEW by \in {1, -1}, c = Turned(State, p, by) PROVE MediaOK(c)
  BY <1>1, <1>4, TurnedOK
<1>5. ASSUME NEW p \in Players \ shown, c = LaunchedPlayer(State, p) PROVE MediaOK(c)
  BY <1>1, <1>5, LaunchedPlayerOK
<1>6. ASSUME NEW p \in shown, c = [State EXCEPT !.shown = @ \ {p}] PROVE MediaOK(c)
  <2>1. c \in States
    BY <1>1, <1>6 DEF MediaOK, States
  <2>2. /\ c.playing = State.playing /\ c.active = State.active /\ c.tone = State.tone
        /\ c.track = State.track /\ c.note = State.note
    BY <1>1, <1>6 DEF MediaOK, States
  <2> QED
    BY <1>1, <2>1, <2>2 DEF MediaOK, OnePlays, AtNote
<1> QED
  BY <1>2, <1>3, <1>4, <1>5, <1>6 DEF Clicked

LEMMA TickedOK ==
    ASSUME NEW s, MediaOK(s)
    PROVE  MediaOK(Ticked(s)) /\ Ticked(s).playing \subseteq Ticked(s).shown
<1>1. s \in States /\ OnePlays(s)
  BY DEF MediaOK
<1> DEFINE gone == s.playing \ s.shown
<1>2. CASE gone = {}
  <2>1. s.active \notin gone /\ s.playing \ gone = s.playing
    BY <1>2
  <2>2. Ticked(s) = [s EXCEPT !.playing = s.playing]
    BY <2>1 DEF Ticked
  <2>3. Ticked(s) = s
    BY <1>1, <2>2 DEF States
  <2> QED
    BY <1>2, <2>3
<1>3. CASE gone # {}
  <2>1. s.active \in gone /\ s.playing \ gone = {}
    BY <1>1, <1>3 DEF OnePlays
  <2> DEFINE t == [s EXCEPT !.playing = {}, !.tone = 0, !.active = 0]
  <2>2. Ticked(s) = t
    BY <2>1 DEF Ticked
  <2>3. t \in States /\ t.playing = {} /\ t.tone = 0
    BY <1>1 DEF States
  <2> HIDE DEF t
  <2> QED
    BY <2>2, <2>3 DEF MediaOK, OnePlays
<1> QED
  BY <1>2, <1>3

LEMMA PaintedOK ==
    ASSUME NEW s, MediaOK(s), s.playing \subseteq s.shown, NEW due \in BOOLEAN
    PROVE  MediaOK(Painted(s, due)) /\ Painted(s, due).playing \subseteq Painted(s, due).shown
<1>1. s \in States /\ OnePlays(s)
  BY DEF MediaOK
<1>2. CASE s.playing = {}
  BY <1>2 DEF Painted
<1>3. CASE s.playing # {}
  <2>1. PICK p \in Players : s.playing = {p} /\ s.active = p /\ AtNote(s, p)
    BY <1>1, <1>3 DEF OnePlays
  <2>2. (CHOOSE q \in s.playing : TRUE) = p
    BY <2>1
  <2>3. s.track[p] \in DOMAIN Tracks /\ s.note[p] \in Nat
    BY <1>1 DEF States
  <2>4. CASE due
    <3>1. Painted(s, due) = Advanced(s, p)
      BY <1>3, <2>2, <2>4 DEF Painted
    <3> DEFINE tune == Tracks[s.track[p]]
               next == s.note[p] + 1
               over == [s EXCEPT !.playing = @ \ {p}, !.note[p] = 1, !.tone = 0]
               on == [s EXCEPT !.note[p] = next, !.tone = tune[next]]
    <3>2. Advanced(s, p) = IF next > Len(tune) THEN over ELSE on
      BY DEF Advanced
    <3>3. over \in States /\ over.playing = {} /\ over.tone = 0
      BY <1>1, <2>1 DEF States
    <3>4. MediaOK(over) /\ over.playing \subseteq over.shown
      <4> HIDE DEF over
      <4> QED
        BY <3>3 DEF MediaOK, OnePlays
    <3>5. ASSUME ~ (next > Len(tune)) PROVE MediaOK(on) /\ on.playing \subseteq on.shown
      <4>1. next \in DOMAIN tune /\ tune[next] \in Nat /\ next \in Nat
        BY <2>3, <3>5, TrackNotes
      <4> HIDE DEF next
      <4>2. on \in States
        BY <1>1, <4>1 DEF States
      <4>3. /\ on.playing = {p} /\ on.active = p /\ on.track = s.track /\ on.shown = s.shown
            /\ on.note[p] = next /\ on.tone = tune[next]
        BY <1>1, <2>1 DEF States
      <4> HIDE DEF on
      <4>4. AtNote(on, p)
        BY <4>1, <4>3 DEF AtNote
      <4> QED
        BY <2>1, <4>2, <4>3, <4>4 DEF MediaOK, OnePlays
    <3> HIDE DEF over, on, next, tune
    <3> QED
      BY <3>1, <3>2, <3>4, <3>5
  <2>5. CASE ~ due
    <3> DEFINE hz == Tracks[s.track[p]][s.note[p]]
    <3>1. s.tone = hz
      BY <2>1 DEF AtNote
    <3>2. [s EXCEPT !.tone = hz] = s
      BY <1>1, <3>1 DEF States
    <3>3. Painted(s, due) = s
      BY <1>3, <2>2, <2>5, <3>2 DEF Painted, Again
    <3> QED
      BY <3>3
  <2> QED
    BY <2>4, <2>5
<1> QED
  BY <1>2, <1>3

LEMMA MediaStep == MediaInv /\ [MediaNext]_mediaVars => MediaInv'
<1> SUFFICES ASSUME MediaInv, [MediaNext]_mediaVars PROVE MediaInv'
  OBVIOUS
<1>1. CASE MediaNext
  <2>1. PICK c \in Clicked, due \in BOOLEAN : Round(Painted(Ticked(c), due))
    BY <1>1 DEF MediaNext
  <2> DEFINE r == Painted(Ticked(c), due)
  <2>2. MediaOK(r) /\ r.playing \subseteq r.shown
    BY ClickedOK, TickedOK, PaintedOK
  <2>3. Round(r)
    BY <2>1
  <2> HIDE DEF r
  <2>4. r \in States
    BY <2>2 DEF MediaOK
  <2>5. State' = r
    BY <2>3, <2>4 DEF Round, State, States
  <2>6. playing' \subseteq shown'
    BY <2>2, <2>3 DEF Round
  <2>7. MediaOK(State')
    BY <2>2, <2>5
  <2> QED
    BY <2>6, <2>7 DEF MediaInv, MediaOK, State, OnePlays, AtNote
<1>2. CASE UNCHANGED mediaVars
  BY <1>2 DEF mediaVars, players, MediaInv, State, MediaOK, OnePlays, AtNote
<1> QED
  BY <1>1, <1>2

(* Whatever is played, paused, turned, restarted, closed or runs out, and  *)
(* whatever the tunes are: after a round at most one player plays, in a    *)
(* window that is shown, the speaker sounds its note, and is silent when   *)
(* none plays.                                                             *)
THEOREM OneTuneSounds == MediaSpec => []MediaTypeOK /\ []SpeakerFollows
<1>1. MediaInit => MediaInv
  <2> SUFFICES ASSUME MediaInit PROVE MediaInv
    OBVIOUS
  <2>1. track \in [Players -> DOMAIN Tracks] /\ note \in [Players -> Nat]
    BY TrackNotes DEF MediaInit
  <2>2. State \in States
    BY <2>1 DEF MediaInit, State, States
  <2>3. State.playing = {} /\ State.tone = 0
    BY DEF MediaInit, State
  <2> QED
    BY <2>2, <2>3 DEF MediaInit, MediaInv, MediaOK, OnePlays
<1>2. MediaInv => SpeakerFollows
  <2> SUFFICES ASSUME MediaInv PROVE SpeakerFollows
    OBVIOUS
  <2>1. \/ playing = {} /\ tone = 0
        \/ \E p \in Players : playing = {p} /\ tone = Tracks[track[p]][note[p]]
    BY DEF MediaInv, MediaOK, OnePlays, AtNote, State
  <2>2. Cardinality(playing) <= 1
    <3>1. CASE playing = {}
      BY <3>1, FS_EmptySet
    <3>2. ASSUME NEW p \in Players, playing = {p} PROVE Cardinality(playing) <= 1
      <4>1. Cardinality({p}) = 1
        BY FS_Singleton
      <4> QED
        BY <3>2, <4>1
    <3> QED
      BY <2>1, <3>1, <3>2
  <2> QED
    BY <2>1, <2>2 DEF MediaInv, SpeakerFollows
<1>3. MediaInv => MediaTypeOK
  <2> SUFFICES ASSUME MediaInv PROVE MediaTypeOK
    OBVIOUS
  <2>1. /\ shown \in SUBSET Players /\ playing \in SUBSET Players
        /\ track \in [Players -> DOMAIN Tracks] /\ active \in Players \cup {0} /\ tone \in Nat
    BY DEF MediaInv, MediaOK, State, States
  <2>2. \A p \in playing : note[p] \in DOMAIN Tracks[track[p]]
    BY DEF MediaInv, MediaOK, OnePlays, AtNote, State
  <2> QED
    BY <2>1, <2>2 DEF MediaTypeOK
<1> QED
  BY <1>1, <1>2, <1>3, MediaStep, PTL DEF MediaSpec

-----------------------------------------------------------------------------
(* Places on the screen *)

LEMMA MaxTwo ==
    ASSUME NEW a \in Int, NEW b \in Int
    PROVE  Max({a, b}) = IF a >= b THEN a ELSE b
<1> DEFINE m == IF a >= b THEN a ELSE b
<1>1. m \in {a, b} /\ \A y \in {a, b} : m >= y
  OBVIOUS
<1>2. \A x \in {a, b} : (\A y \in {a, b} : x >= y) => x = m
  OBVIOUS
<1> HIDE DEF m
<1>3. (CHOOSE x \in {a, b} : \A y \in {a, b} : x >= y) = m
  BY <1>1, <1>2, Zenon
<1> QED
  BY <1>3 DEF Max, m

LEMMA MinTwo ==
    ASSUME NEW a \in Int, NEW b \in Int
    PROVE  Min({a, b}) = IF a <= b THEN a ELSE b
<1> DEFINE m == IF a <= b THEN a ELSE b
<1>1. m \in {a, b} /\ \A y \in {a, b} : m <= y
  OBVIOUS
<1>2. \A x \in {a, b} : (\A y \in {a, b} : x <= y) => x = m
  OBVIOUS
<1> HIDE DEF m
<1>3. (CHOOSE x \in {a, b} : \A y \in {a, b} : x <= y) = m
  BY <1>1, <1>2, Zenon
<1> QED
  BY <1>3 DEF Min, m

Buffers == [w : AtLeast(640), h : AtLeast(480), back : BOOLEAN]
WindowSet ==
    [x : Int, y : Int, w : AtLeast(160), h : AtLeast(120), ww : AtLeast(160), wh : AtLeast(120)]
IconSet == [x : Int, y : Int]

(* TitleReachable, IconReachable and SizeRestored without Min and Max *)
TitleSeen(w, f) ==
    /\ w.x + w.w >= DragKeep /\ f.w - w.x >= DragKeep
    /\ w.y >= 0 /\ w.y + TitleH <= f.h - TaskbarH

Restored(w, f) ==
    w.ww <= f.w /\ w.wh <= f.h - TaskbarH => w.w = w.ww /\ w.h = w.wh

IconSeen(i, f) ==
    /\ i.x >= 0 /\ i.x + 72 <= f.w
    /\ i.y >= 0 /\ i.y + 76 <= f.h - TaskbarH

ScreenInv ==
    /\ fb \in Buffers /\ win \in WindowSet /\ icon \in IconSet
    /\ held \in [what : {"nothing", "window", "icon"}, dx : Int, dy : Int]
    /\ failed \in BOOLEAN
    /\ ~failed => TitleSeen(win, fb) /\ Restored(win, fb) /\ IconSeen(icon, fb)

(* clamp_drag of any place *)
LEMMA ClampedDragOK ==
    ASSUME NEW w \in WindowSet, NEW f \in Buffers
    PROVE  /\ ClampedDrag(w, f) \in WindowSet
           /\ TitleSeen(ClampedDrag(w, f), f)
           /\ ClampedDrag(w, f).x <= f.w - DragKeep
           /\ ClampedDrag(w, f).w = w.w /\ ClampedDrag(w, f).h = w.h
           /\ ClampedDrag(w, f).ww = w.ww /\ ClampedDrag(w, f).wh = w.wh
<1> DEFINE x == Between(w.x, DragKeep - w.w, f.w - DragKeep)
           y == Between(w.y, DragKeep - TitleH, TaskbarY(f) - DragKeep)
           c == [w EXCEPT !.x = x, !.y = y]
<1>1. /\ w.x \in Int /\ w.y \in Int /\ w.w \in AtLeast(160)
      /\ f.w \in AtLeast(640) /\ f.h \in AtLeast(480)
  BY DEF WindowSet, Buffers, AtLeast
<1>2. x \in Int /\ DragKeep - w.w <= x /\ x <= f.w - DragKeep
  BY <1>1 DEF Between, DragKeep, AtLeast
<1>3. y \in Int /\ y >= 26 /\ y <= f.h - 76
  BY <1>1 DEF Between, DragKeep, TitleH, TaskbarY, TaskbarH, AtLeast
<1> HIDE DEF x, y
<1>4. c \in WindowSet
  BY <1>2, <1>3, ZenonT(60) DEF WindowSet, AtLeast
<1>5. c.x = x /\ c.y = y /\ c.w = w.w /\ c.h = w.h /\ c.ww = w.ww /\ c.wh = w.wh
  BY DEF WindowSet, AtLeast
<1>6. ClampedDrag(w, f) = c
  BY DEF ClampedDrag, x, y
<1> HIDE DEF c
<1>7. TitleSeen(c, f)
  BY <1>1, <1>2, <1>3, <1>5 DEF TitleSeen, DragKeep, TitleH, TaskbarH, AtLeast
<1> QED
  BY <1>2, <1>4, <1>5, <1>6, <1>7 DEF AtLeast

(* A window of another size *)
Sized(w, a, b) == [w EXCEPT !.w = a, !.h = b]

LEMMA SizedOK ==
    ASSUME NEW w \in WindowSet, NEW a \in AtLeast(160), NEW b \in AtLeast(120)
    PROVE  /\ Sized(w, a, b) \in WindowSet /\ Sized(w, a, b).w = a /\ Sized(w, a, b).h = b
           /\ Sized(w, a, b).ww = w.ww /\ Sized(w, a, b).wh = w.wh
<1> DEFINE W == AtLeast(160)
           H == AtLeast(120)
<1>1. WindowSet = [x : Int, y : Int, w : W, h : H, ww : W, wh : H]
  BY DEF WindowSet
<1>2. a \in W /\ b \in H
  OBVIOUS
<1> HIDE DEF W, H
<1> QED
  BY <1>1, <1>2 DEF Sized

(* window_reclamp of any window *)
LEMMA ReclampedOK ==
    ASSUME NEW w \in WindowSet, NEW f \in Buffers
    PROVE  /\ Reclamped(w, f) \in WindowSet
           /\ TitleSeen(Reclamped(w, f), f) /\ Restored(Reclamped(w, f), f)
<1> DEFINE sw == Max({Min({w.ww, f.w}), 160})
           sh == Max({Min({w.wh, TaskbarY(f)}), 120})
           sized == Sized(w, sw, sh)
           c == ClampedDrag(sized, f)
           x == Max({c.x, 0})
           y == Max({c.y, 0})
           r == [c EXCEPT !.x = x, !.y = y]
<1>1. /\ w.ww \in AtLeast(160) /\ w.wh \in AtLeast(120)
      /\ f.w \in AtLeast(640) /\ f.h \in AtLeast(480) /\ TaskbarY(f) = f.h - 28
  BY DEF WindowSet, Buffers, TaskbarY, TaskbarH, AtLeast
<1>2. /\ sw \in AtLeast(160) /\ (w.ww <= f.w => sw = w.ww)
      /\ sh \in AtLeast(120) /\ (w.wh <= f.h - 28 => sh = w.wh)
  <2> DEFINE mw == Min({w.ww, f.w})
             mh == Min({w.wh, TaskbarY(f)})
  <2>1. mw = (IF w.ww <= f.w THEN w.ww ELSE f.w)
    BY <1>1, MinTwo DEF AtLeast
  <2>2. mh = (IF w.wh <= f.h - 28 THEN w.wh ELSE f.h - 28)
    BY <1>1, MinTwo DEF AtLeast
  <2>3. mw \in AtLeast(160) /\ mh \in AtLeast(120)
    BY <1>1, <2>1, <2>2 DEF AtLeast
  <2> HIDE DEF mw, mh
  <2>4. Max({mw, 160}) = mw /\ Max({mh, 120}) = mh
    <3>1. Max({mw, 160}) = IF mw >= 160 THEN mw ELSE 160
      BY <2>3, MaxTwo DEF AtLeast
    <3>2. Max({mh, 120}) = IF mh >= 120 THEN mh ELSE 120
      BY <2>3, MaxTwo DEF AtLeast
    <3> QED
      BY <2>3, <3>1, <3>2 DEF AtLeast
  <2>5. sw = mw /\ sh = mh
    BY <2>4 DEF mw, mh, AtLeast
  <2> QED
    BY <1>1, <2>1, <2>2, <2>3, <2>5 DEF AtLeast
<1> HIDE DEF sw, sh
<1>3. /\ sized \in WindowSet /\ sized.w = sw /\ sized.h = sh
      /\ sized.ww = w.ww /\ sized.wh = w.wh
  <2>1. sw \in AtLeast(160) /\ sh \in AtLeast(120)
    BY <1>2
  <2> QED
    BY <2>1, SizedOK
<1> HIDE DEF sized
<1>4. /\ c \in WindowSet /\ TitleSeen(c, f) /\ c.x <= f.w - DragKeep
      /\ c.w = sw /\ c.h = sh /\ c.ww = w.ww /\ c.wh = w.wh
  BY <1>3, ClampedDragOK
<1> HIDE DEF c
<1>5. c.x \in Int /\ c.y \in Int
  BY <1>4 DEF WindowSet, AtLeast
<1>6. x = (IF c.x >= 0 THEN c.x ELSE 0) /\ y = (IF c.y >= 0 THEN c.y ELSE 0)
  BY <1>5, MaxTwo DEF AtLeast
<1> HIDE DEF x, y
<1>7. x \in Int /\ y \in Int
  BY <1>5, <1>6 DEF AtLeast
<1>8. /\ r \in WindowSet /\ r.x = x /\ r.y = y /\ r.w = sw /\ r.h = sh
      /\ r.ww = w.ww /\ r.wh = w.wh
  BY <1>4, <1>7, ZenonT(60) DEF WindowSet, AtLeast
<1>9. Reclamped(w, f) = r
  BY DEF Reclamped, Sized, sw, sh, sized, c, x, y
<1> HIDE DEF r
<1>10. TitleSeen(r, f)
  BY <1>1, <1>2, <1>4, <1>5, <1>6, <1>8 DEF TitleSeen, DragKeep, TitleH, TaskbarH, AtLeast
<1>11. Restored(r, f)
  BY <1>1, <1>2, <1>8 DEF Restored, TaskbarH, AtLeast
<1> QED
  BY <1>8, <1>9, <1>10, <1>11

(* A new window *)
LEMMA CreatedSeen ==
    ASSUME NEW c \in Launches, NEW f \in Buffers
    PROVE  Window(c) \in WindowSet /\ TitleSeen(Window(c), f) /\ Restored(Window(c), f)
<1>1. c \in [x : 0 .. 592, y : 0 .. 404, w : AtLeast(160), h : AtLeast(120)]
  BY ScreenAssumption DEF DragKeep, TaskbarH, AtLeast
<1>2. Window(c) \in WindowSet
  BY <1>1 DEF Window, WindowSet, AtLeast
<1>3. f.w \in AtLeast(640) /\ f.h \in AtLeast(480)
  BY DEF Buffers, AtLeast
<1>4. TitleSeen(Window(c), f)
  BY <1>1, <1>3 DEF TitleSeen, Window, DragKeep, TitleH, TaskbarH, AtLeast
<1> QED
  BY <1>2, <1>4 DEF Restored, Window, AtLeast

LEMMA IconClampedOK ==
    ASSUME NEW i \in IconSet, NEW f \in Buffers
    PROVE  IconClamped(i, f) \in IconSet /\ IconSeen(IconClamped(i, f), f)
<1> DEFINE x == Between(i.x, 0, f.w - 72)
           y == Between(i.y, 0, f.h - 28 - 76)
<1>1. i.x \in Int /\ i.y \in Int /\ f.w \in AtLeast(640) /\ f.h \in AtLeast(480)
  BY DEF IconSet, Buffers, AtLeast
<1>2. x \in Int /\ 0 <= x /\ x + 72 <= f.w
  BY <1>1 DEF Between, AtLeast
<1>3. y \in Int /\ 0 <= y /\ y + 76 <= f.h - 28
  BY <1>1 DEF Between, AtLeast
<1>4. IconClamped(i, f) = [x |-> x, y |-> y]
  BY DEF IconClamped, Cell, TaskbarY, TaskbarH, AtLeast
<1> HIDE DEF x, y
<1> QED
  BY <1>1, <1>2, <1>3, <1>4 DEF IconSet, IconSeen, TaskbarH, AtLeast

LEMMA ScreenInitInv == ScreenInit => ScreenInv
<1> SUFFICES ASSUME ScreenInit PROVE ScreenInv
  OBVIOUS
<1>1. fb \in Buffers
  <2>1. PICK m \in Modes : fb = [w |-> m.w, h |-> m.h, back |-> TRUE]
    BY DEF ScreenInit
  <2>2. m \in [w : AtLeast(640), h : AtLeast(480)]
    BY ScreenAssumption
  <2> QED
    BY <2>1, <2>2 DEF Buffers, AtLeast
<1>2. win \in WindowSet /\ TitleSeen(win, fb) /\ Restored(win, fb)
  BY <1>1, CreatedSeen DEF ScreenInit, AtLeast
<1>3. icon \in IconSet /\ IconSeen(icon, fb)
  BY <1>1 DEF ScreenInit, IconSet, IconSeen, Buffers, Cell, TaskbarH, AtLeast
<1>4. held \in [what : {"nothing", "window", "icon"}, dx : Int, dy : Int]
  BY DEF ScreenInit, Nothing
<1>5. failed \in BOOLEAN
  BY DEF ScreenInit
<1> QED
  BY <1>1, <1>2, <1>3, <1>4, <1>5, Zenon DEF ScreenInv

LEMMA ScreenStep == ScreenInv /\ [ScreenNext]_screenVars => ScreenInv'
<1> SUFFICES ASSUME ScreenInv, [ScreenNext]_screenVars PROVE ScreenInv'
  OBVIOUS
<1>0. /\ fb \in Buffers /\ win \in WindowSet /\ icon \in IconSet
      /\ held \in [what : {"nothing", "window", "icon"}, dx : Int, dy : Int]
  BY DEF ScreenInv
<1>1. ASSUME NEW g \in Grabs, TakeWindow(g) PROVE ScreenInv'
  <2>1. g.dx \in Int /\ g.dy \in Int
    BY ScreenAssumption DEF Cell, TitleH
  <2>2. win.w \in Int
    BY <1>0 DEF WindowSet, AtLeast
  <2>3. held' \in [what : {"nothing", "window", "icon"}, dx : Int, dy : Int]
    BY <1>1, <2>1, <2>2 DEF TakeWindow, AtLeast
  <2> QED
    BY <1>1, <2>3 DEF TakeWindow, ScreenInv, AtLeast
<1>2. ASSUME NEW g \in Grabs, TakeIcon(g) PROVE ScreenInv'
  <2>1. g.dx \in Int /\ g.dy \in Int
    BY ScreenAssumption DEF Cell, TitleH
  <2> QED
    BY <1>2, <2>1 DEF TakeIcon, ScreenInv, AtLeast
<1>3. ASSUME NEW p \in Points, Drag(p[1], p[2]) PROVE ScreenInv'
  <2>1. p[1] \in Int /\ p[2] \in Int
    <3>1. fb.w \in Int /\ fb.h \in Int
      BY <1>0 DEF Buffers, AtLeast
    <3> QED
      BY <3>1 DEF Points
  <2>2. p[1] - held.dx \in Int /\ p[2] - held.dy \in Int
    BY <1>0, <2>1
  <2>3. UNCHANGED <<fb, held, failed>>
    BY <1>3 DEF Drag
  <2>4. CASE held.what = "window"
    <3> DEFINE w == [win EXCEPT !.x = p[1] - held.dx, !.y = p[2] - held.dy]
    <3>1. w \in WindowSet /\ w.w = win.w /\ w.h = win.h /\ w.ww = win.ww /\ w.wh = win.wh
      BY <1>0, <2>2, ZenonT(60) DEF WindowSet, AtLeast
    <3>2. win' = ClampedDrag(w, fb) /\ UNCHANGED icon
      BY <1>3, <2>4 DEF Drag
    <3> HIDE DEF w
    <3>3. win' \in WindowSet /\ TitleSeen(win', fb)
      BY <1>0, <3>1, <3>2, ClampedDragOK
    <3>4. win'.w = win.w /\ win'.h = win.h /\ win'.ww = win.ww /\ win'.wh = win.wh
      BY <1>0, <3>1, <3>2, ClampedDragOK
    <3>5. Restored(win, fb) => Restored(win', fb)
      BY <3>4 DEF Restored, AtLeast
    <3> QED
      BY <2>3, <3>2, <3>3, <3>5 DEF ScreenInv, AtLeast
  <2>5. CASE held.what # "window"
    <3> DEFINE i == [x |-> p[1] - held.dx, y |-> p[2] - held.dy]
    <3>1. i \in IconSet
      BY <2>2 DEF IconSet, AtLeast
    <3>2. icon' = IconClamped(i, fb) /\ UNCHANGED win
      BY <1>3, <2>5 DEF Drag
    <3> HIDE DEF i
    <3>3. icon' \in IconSet /\ IconSeen(icon', fb)
      BY <1>0, <3>1, <3>2, IconClampedOK
    <3> QED
      BY <2>3, <3>2, <3>3 DEF ScreenInv, AtLeast
  <2> QED
    BY <2>4, <2>5 DEF AtLeast
<1>4. CASE LetGo
  BY <1>4 DEF LetGo, ScreenInv, Nothing
<1>5. ASSUME NEW m \in Modes, Resize(m) PROVE ScreenInv'
  <2>1. m \in [w : AtLeast(640), h : AtLeast(480)]
    BY ScreenAssumption
  <2>2. fb' \in Buffers /\ UNCHANGED held
    <3>1. UNCHANGED held /\ \E b \in BOOLEAN : fb' = [w |-> m.w, h |-> m.h, back |-> b]
      BY <1>5 DEF Resize
    <3> QED
      BY <2>1, <3>1 DEF Buffers
  <2>3. CASE win' = Reclamped(win, fb') /\ icon' = IconClamped(icon, fb') /\ failed' = FALSE
    <3>1. win' \in WindowSet /\ TitleSeen(win', fb') /\ Restored(win', fb')
      BY <1>0, <2>2, <2>3, ReclampedOK
    <3>2. icon' \in IconSet /\ IconSeen(icon', fb')
      BY <1>0, <2>2, <2>3, IconClampedOK
    <3> QED
      BY <1>0, <2>2, <2>3, <3>1, <3>2 DEF ScreenInv
  <2>4. CASE failed' = TRUE /\ UNCHANGED <<win, icon>>
    BY <1>0, <2>2, <2>4 DEF ScreenInv
  <2> QED
    BY <1>5, <2>3, <2>4 DEF Resize, AtLeast
<1>6. ASSUME NEW c \in Launches, Open(c) PROVE ScreenInv'
  <2>1. Window(c) \in WindowSet /\ TitleSeen(Window(c), fb) /\ Restored(Window(c), fb)
    BY <1>0, CreatedSeen
  <2>2. /\ Reclamped(Window(c), fb) \in WindowSet /\ TitleSeen(Reclamped(Window(c), fb), fb)
        /\ Restored(Reclamped(Window(c), fb), fb)
    BY <1>0, <2>1, ReclampedOK
  <2>3. win' \in WindowSet /\ TitleSeen(win', fb) /\ Restored(win', fb)
    BY <1>6, <2>1, <2>2 DEF Open
  <2> QED
    BY <1>6, <2>3 DEF Open, ScreenInv
<1>7. CASE UNCHANGED screenVars
  BY <1>7 DEF screenVars, ScreenInv
<1> QED
  BY <1>1, <1>2, <1>3, <1>4, <1>5, <1>6, <1>7 DEF ScreenNext

(* The size of the screen is that of a mode, also when a change failed.    *)
ModeOffered == [w |-> fb.w, h |-> fb.h] \in Modes

LEMMA ModeInit == ScreenInit => ModeOffered
<1> SUFFICES ASSUME ScreenInit PROVE ModeOffered
  OBVIOUS
<1>1. PICK m \in Modes : fb = [w |-> m.w, h |-> m.h, back |-> TRUE]
  BY DEF ScreenInit
<1>2. m = [w |-> m.w, h |-> m.h]
  BY ScreenAssumption
<1> QED
  BY <1>1, <1>2 DEF ModeOffered

LEMMA ModeStep == ModeOffered /\ [ScreenNext]_screenVars => ModeOffered'
<1> SUFFICES ASSUME ModeOffered, [ScreenNext]_screenVars PROVE ModeOffered'
  OBVIOUS
<1>1. ASSUME NEW m \in Modes, Resize(m) PROVE ModeOffered'
  <2>1. m = [w |-> m.w, h |-> m.h]
    BY ScreenAssumption
  <2>2. fb'.w = m.w /\ fb'.h = m.h
    BY <1>1 DEF Resize
  <2> QED
    BY <2>1, <2>2 DEF ModeOffered
<1>2. CASE fb' = fb
  BY <1>2 DEF ModeOffered
<1> QED
  BY <1>1, <1>2 DEF ScreenNext, TakeWindow, TakeIcon, Drag, LetGo, Open, screenVars

(* On every set of resolutions of 640 by 480 and more, for windows of      *)
(* every size an application asks for, grabbed and dragged anywhere: until *)
(* a change of the resolution fails half-way 48 pixels of the title bar    *)
(* are between the sides and above the taskbar, the icon is on the desk,   *)
(* and a window has its size again wherever there is room.                 *)
THEOREM AllIsReachable == ScreenSpec => []ScreenTypeOK /\ []ScreenSound
<1>1. ScreenInv => ScreenSound
  <2> SUFFICES ASSUME ScreenInv, ~failed PROVE ScreenSound
    BY DEF ScreenInv, ScreenSound, TitleReachable, IconReachable, SizeRestored, AtLeast
  <2>1. TitleSeen(win, fb) /\ Restored(win, fb) /\ IconSeen(icon, fb)
    BY DEF ScreenInv
  <2>2. /\ win.x \in Int /\ win.y \in Int /\ win.w \in AtLeast(160)
        /\ fb.w \in AtLeast(640) /\ fb.h \in AtLeast(480)
    BY DEF ScreenInv, WindowSet, Buffers, AtLeast
  <2>3. Min({win.x + win.w, fb.w}) = IF win.x + win.w <= fb.w THEN win.x + win.w ELSE fb.w
    BY <2>2, MinTwo DEF AtLeast
  <2>4. Max({win.x, 0}) = IF win.x >= 0 THEN win.x ELSE 0
    BY <2>2, MaxTwo DEF AtLeast
  <2>5. Min({win.x + win.w, fb.w}) - Max({win.x, 0}) >= DragKeep
    BY <2>1, <2>2, <2>3, <2>4 DEF TitleSeen, DragKeep, AtLeast
  <2>6. TitleReachable
    BY <2>1, <2>5 DEF TitleReachable, TitleSeen, TaskbarY, AtLeast
  <2>7. IconReachable /\ SizeRestored
    BY <2>1 DEF IconReachable, SizeRestored, IconSeen, Restored, TaskbarY, Cell
  <2> QED
    BY <2>6, <2>7 DEF ScreenSound
<1>2. ScreenInv /\ ModeOffered => ScreenTypeOK
  BY DEF ScreenInv, ModeOffered, ScreenTypeOK, Buffers, WindowSet, IconSet, AtLeast
<1> QED
  BY <1>1, <1>2, ScreenInitInv, ScreenStep, ModeInit, ModeStep, PTL DEF ScreenSpec

-----------------------------------------------------------------------------
(* The window manager: lists of windows *)

Slot == [app : Apps \cup Single, pad : Pads] \cup {Closed}
WmSet == [slots : Seq(Slot), focus : Nat, dragging : Nat]

FocusOn(w) == IF Shown(w) = {} THEN w.focus = 0 ELSE w.focus \in Shown(w)
Apart(w) == \A i, j \in Shown(w) : w.slots[i] = w.slots[j] => i = j

(* FocusShown and PadsApart of any windows *)
WmOK(w) ==
    /\ w \in WmSet /\ Len(w.slots) <= MaxWindows
    /\ FocusOn(w)
    /\ w.dragging \in Shown(w) \cup {0}
    /\ Apart(w)

(* No window of app that is shown has the pad. *)
Fits(w, app, pad) ==
    /\ app \in Apps \cup Single /\ pad \in Pads
    /\ \A j \in Shown(w) : w.slots[j] # [app |-> app, pad |-> pad]

LEMMA LeastOf ==
    ASSUME NEW S \in SUBSET Nat, S # {}
    PROVE  \E n \in S : \A m \in S : n <= m
<1>1. PICK n \in S : \A m \in S : ~ (<<m, n>> \in OpToRel(<, Nat))
  BY NatLessThanWellFounded, WFMin, Zenon
<1>2. ASSUME NEW m \in S PROVE n <= m
  <2>1. n \in Nat /\ m \in Nat
    OBVIOUS
  <2>2. ~ (m < n)
    BY <1>1, <2>1 DEF OpToRel
  <2> QED
    BY <2>1, <2>2
<1> QED
  BY <1>2

LEMMA MinIn ==
    ASSUME NEW S \in SUBSET Nat, S # {}
    PROVE  Min(S) \in S
<1>1. \E x \in S : \A y \in S : x <= y
  BY LeastOf
<1>2. (CHOOSE x \in S : \A y \in S : x <= y) \in S
  BY <1>1, Zenon
<1> QED
  BY <1>2 DEF Min

LEMMA ShownNumbers ==
    ASSUME NEW w, WmOK(w)
    PROVE  /\ Len(w.slots) \in Nat /\ DOMAIN w.slots = 1 .. Len(w.slots)
           /\ Shown(w) \subseteq 1 .. Len(w.slots)
           /\ Shown(w) \in SUBSET Nat /\ 0 \notin Shown(w)
           /\ \A i \in Shown(w) : w.slots[i] \in [app : Apps \cup Single, pad : Pads]
<1>1. w.slots \in Seq(Slot)
  BY DEF WmOK, WmSet
<1>2. Len(w.slots) \in Nat /\ DOMAIN w.slots = 1 .. Len(w.slots)
  BY <1>1, LenProperties
<1>3. Shown(w) \subseteq 1 .. Len(w.slots)
  BY <1>2 DEF Shown
<1>4. ASSUME NEW i \in Shown(w)
      PROVE  w.slots[i] \in [app : Apps \cup Single, pad : Pads]
  <2>1. w.slots[i] \in Slot
    BY <1>1, <1>3, ElementOfSeq
  <2> QED
    BY <2>1 DEF Slot, Shown
<1> QED
  BY <1>2, <1>3, <1>4

(* What a list with one more window is like *)
LEMMA OneMore ==
    ASSUME NEW w, WmOK(w), NEW app, NEW pad, Fits(w, app, pad),
           NEW s \in Seq(Slot), Len(s) <= MaxWindows, NEW id \in Nat \ Shown(w), id # 0,
           DOMAIN s = DOMAIN w.slots \cup {id}, s[id] = [app |-> app, pad |-> pad],
           \A j \in DOMAIN w.slots \ {id} : s[j] = w.slots[j]
    PROVE  WmOK([w EXCEPT !.slots = s, !.focus = id])
<1> DEFINE v == [w EXCEPT !.slots = s, !.focus = id]
<1>1. v \in WmSet /\ v.slots = s /\ v.focus = id /\ v.dragging = w.dragging
  BY DEF WmOK, WmSet
<1> HIDE DEF v
<1>2. s[id] # Closed
  <2>1. app # "none"
    BY WindowsAssumption DEF Fits
  <2> QED
    BY <2>1 DEF Closed
<1>3. Shown(v) = Shown(w) \cup {id}
  BY <1>1, <1>2 DEF Shown
<1>4. Apart(v)
  <2> SUFFICES ASSUME NEW i \in Shown(v), NEW j \in Shown(v), s[i] = s[j] PROVE i = j
    BY <1>1 DEF Apart
  <2>1. \A k \in Shown(w) : s[k] = w.slots[k] /\ k # id
    BY DEF Shown
  <2>2. \A k \in Shown(w) : s[k] # s[id]
    BY <2>1 DEF Fits
  <2>3. CASE i \in Shown(w) /\ j \in Shown(w)
    BY <2>1, <2>3 DEF WmOK, Apart
  <2> QED
    BY <1>3, <2>2, <2>3
<1>5. FocusOn(v) /\ v.dragging \in Shown(v) \cup {0}
  BY <1>1, <1>3 DEF FocusOn, WmOK
<1> QED
  BY <1>1, <1>4, <1>5 DEF WmOK, v

LEMMA CreatedOK ==
    ASSUME NEW w, WmOK(w), NEW app, NEW pad, Fits(w, app, pad)
    PROVE  WmOK(Created(w, app, pad))
<1> DEFINE n == Len(w.slots)
           hidden == DOMAIN w.slots \ Shown(w)
           id == IF hidden # {} THEN Min(hidden) ELSE n + 1
           new == [app |-> app, pad |-> pad]
           s == IF id > n THEN Append(w.slots, new) ELSE [w.slots EXCEPT ![id] = new]
<1>1. /\ n \in Nat /\ DOMAIN w.slots = 1 .. n /\ w.slots \in Seq(Slot) /\ n <= MaxWindows
      /\ Shown(w) \subseteq 1 .. n
  BY ShownNumbers DEF WmOK, WmSet
<1>2. MaxWindows \in Nat
  BY WindowsAssumption
<1>3. new \in Slot
  BY DEF Fits, Slot
<1>4. Created(w, app, pad) = IF id > MaxWindows THEN w ELSE [w EXCEPT !.slots = s, !.focus = id]
  BY DEF Created
<1> HIDE DEF new
<1>5. ASSUME hidden # {}, ~ (id > MaxWindows) PROVE WmOK(Created(w, app, pad))
  <2>1. id \in hidden
    <3>1. hidden \in SUBSET Nat
      BY <1>1
    <3>2. Min(hidden) \in hidden
      BY <1>5, <3>1, MinIn
    <3> QED
      BY <1>5, <3>2
  <2>2. id \in 1 .. n /\ id \notin Shown(w) /\ ~ (id > n)
    BY <1>1, <2>1
  <2> HIDE DEF id
  <2>3. s = [w.slots EXCEPT ![id] = new]
    BY <2>2
  <2> HIDE DEF s
  <2>4. /\ s \in Seq(Slot) /\ Len(s) = n
        /\ \A j \in 1 .. n : s[j] = IF j = id THEN new ELSE w.slots[j]
    BY <1>1, <1>3, <2>2, <2>3, ExceptSeq
  <2>5. DOMAIN s = 1 .. n
    BY <2>3, <1>1
  <2>6. WmOK([w EXCEPT !.slots = s, !.focus = id])
    <3>1. id \in Nat \ Shown(w) /\ id # 0 /\ Len(s) <= MaxWindows
      BY <1>1, <2>2, <2>4
    <3>2. DOMAIN s = DOMAIN w.slots \cup {id}
      BY <1>1, <2>2, <2>5
    <3>3. s[id] = [app |-> app, pad |-> pad]
      BY <2>2, <2>4 DEF new
    <3>4. \A j \in DOMAIN w.slots \ {id} : s[j] = w.slots[j]
      BY <1>1, <2>4
    <3> QED
      BY <2>4, <3>1, <3>2, <3>3, <3>4, OneMore
  <2> QED
    BY <1>4, <1>5, <2>6
<1>6. ASSUME hidden = {}, ~ (id > MaxWindows) PROVE WmOK(Created(w, app, pad))
  <2>1. id = n + 1 /\ id > n /\ id \notin Shown(w)
    BY <1>1, <1>6
  <2>2. n + 1 <= MaxWindows
    BY <1>1, <1>2, <1>6, <2>1
  <2> HIDE DEF id
  <2>3. s = Append(w.slots, new)
    BY <2>1
  <2> HIDE DEF s
  <2>4. /\ s \in Seq(Slot) /\ Len(s) = n + 1 /\ s[n + 1] = new
        /\ \A j \in 1 .. n : s[j] = w.slots[j]
    BY <1>1, <1>3, <2>3
  <2>5. DOMAIN s = 1 .. n + 1
    BY <2>4
  <2>6. WmOK([w EXCEPT !.slots = s, !.focus = id])
    <3>1. id \in Nat \ Shown(w) /\ id # 0 /\ Len(s) <= MaxWindows
      BY <1>1, <2>1, <2>2, <2>4
    <3>2. DOMAIN s = DOMAIN w.slots \cup {id}
      BY <1>1, <2>1, <2>5
    <3>3. s[id] = [app |-> app, pad |-> pad]
      BY <2>1, <2>4 DEF new
    <3>4. \A j \in DOMAIN w.slots \ {id} : s[j] = w.slots[j]
      BY <1>1, <2>4
    <3> QED
      BY <2>4, <3>1, <3>2, <3>3, <3>4, OneMore
  <2> QED
    BY <1>4, <1>6, <2>6
<1> HIDE DEF id, s, hidden
<1> QED
  BY <1>4, <1>5, <1>6

LEMMA DestroyedOK ==
    ASSUME NEW w, WmOK(w), NEW i \in Shown(w)
    PROVE  /\ WmOK(Destroyed(w, i))
           /\ w.dragging = 0 => Destroyed(w, i).dragging = 0
<1> DEFINE left == Shown(w) \ {i}
           s == [w.slots EXCEPT ![i] = Closed]
           v == Destroyed(w, i)
<1>1. /\ Len(w.slots) \in Nat /\ DOMAIN w.slots = 1 .. Len(w.slots) /\ w.slots \in Seq(Slot)
      /\ Shown(w) \subseteq 1 .. Len(w.slots) /\ left \in SUBSET Nat
      /\ w.focus \in Nat /\ w.dragging \in Nat /\ Len(w.slots) <= MaxWindows
  BY ShownNumbers DEF WmOK, WmSet
<1>2. Closed \in Slot
  BY DEF Slot
<1>3. /\ s \in Seq(Slot) /\ Len(s) = Len(w.slots)
      /\ \A j \in 1 .. Len(w.slots) : s[j] = IF j = i THEN Closed ELSE w.slots[j]
  BY <1>1, <1>2, ExceptSeq
<1>4. DOMAIN s = 1 .. Len(w.slots)
  BY <1>1
<1>5. /\ v.slots = s
      /\ v.focus = (IF w.focus # i THEN w.focus ELSE IF left = {} THEN 0 ELSE Min(left))
      /\ v.dragging = IF w.dragging = i THEN 0 ELSE w.dragging
  BY DEF Destroyed
<1>6. left # {} => Min(left) \in left
  BY <1>1, MinIn
<1>7. v \in WmSet
  BY <1>1, <1>3, <1>6 DEF Destroyed, WmSet
<1> HIDE DEF v, s
<1>8. Shown(v) = left
  BY <1>1, <1>3, <1>4, <1>5 DEF Shown
<1>9. FocusOn(v)
  <2>1. w.focus \in Shown(w)
    BY DEF WmOK, FocusOn
  <2> QED
    BY <1>5, <1>6, <1>8, <2>1 DEF FocusOn
<1>10. v.dragging \in Shown(v) \cup {0}
  BY <1>5, <1>8 DEF WmOK
<1>11. Apart(v)
  <2>1. \A j \in left : s[j] = w.slots[j]
    BY <1>1, <1>3
  <2> QED
    BY <1>5, <1>8, <2>1 DEF Apart, WmOK
<1>12. w.dragging = 0 => v.dragging = 0
  BY <1>5
<1>13. WmOK(v)
  BY <1>1, <1>3, <1>5, <1>7, <1>9, <1>10, <1>11 DEF WmOK
<1> QED
  BY <1>12, <1>13 DEF v

(* The focus or the drag on a window that is shown, or no drag *)
LEMMA RaisedOK ==
    ASSUME NEW w, WmOK(w), NEW i \in Shown(w)
    PROVE  /\ WmOK([w EXCEPT !.focus = i]) /\ Shown([w EXCEPT !.focus = i]) = Shown(w)
           /\ [w EXCEPT !.focus = i].dragging = w.dragging
<1> DEFINE v == [w EXCEPT !.focus = i]
<1>1. i \in Nat
  BY ShownNumbers
<1>2. v \in WmSet /\ v.slots = w.slots /\ v.focus = i /\ v.dragging = w.dragging
  BY <1>1 DEF WmOK, WmSet
<1> HIDE DEF v
<1>3. Shown(v) = Shown(w)
  BY <1>2 DEF Shown
<1>4. WmOK(v)
  BY <1>2, <1>3 DEF WmOK, FocusOn, Apart
<1> QED
  BY <1>2, <1>3, <1>4 DEF v

LEMMA DraggingOK ==
    ASSUME NEW w, WmOK(w), NEW i \in Shown(w) \cup {0}
    PROVE  WmOK([w EXCEPT !.dragging = i]) /\ [w EXCEPT !.dragging = i].dragging = i
<1> DEFINE v == [w EXCEPT !.dragging = i]
<1>1. i \in Nat
  BY ShownNumbers
<1>2. v \in WmSet /\ v.slots = w.slots /\ v.focus = w.focus /\ v.dragging = i
  BY <1>1 DEF WmOK, WmSet
<1> HIDE DEF v
<1>3. Shown(v) = Shown(w)
  BY <1>2 DEF Shown
<1>4. WmOK(v)
  BY <1>2, <1>3 DEF WmOK, FocusOn, Apart
<1> QED
  BY <1>2, <1>4 DEF v

LEMMA LaunchedOK ==
    ASSUME NEW w, WmOK(w), NEW app \in Apps \cup Single
    PROVE  WmOK(Launched(w, app))
<1> DEFINE own == {i \in Shown(w) : w.slots[i].app = app}
           free == FreePads(w, app)
<1>1. 1 \in Pads /\ Pads \subseteq Nat
  BY WindowsAssumption DEF Pads
<1>2. CASE app \in Single
  <2>1. CASE own # {}
    <3>1. Min(own) \in own
      BY <2>1, MinIn, ShownNumbers
    <3>2. WmOK([w EXCEPT !.focus = Min(own)])
      BY <3>1, RaisedOK
    <3> QED
      BY <1>2, <2>1, <3>2 DEF Launched
  <2>2. CASE own = {}
    <3>1. Fits(w, app, 1)
      BY <1>1, <2>2 DEF Fits
    <3>2. WmOK(Created(w, app, 1))
      BY <3>1, CreatedOK
    <3> QED
      BY <1>2, <2>2, <3>2 DEF Launched
  <2> QED
    BY <2>1, <2>2
<1>3. CASE app \notin Single
  <2>1. CASE free = {}
    BY <1>3, <2>1 DEF Launched
  <2>2. CASE free # {}
    <3>1. free \in SUBSET Nat
      BY <1>1 DEF FreePads
    <3>2. Min(free) \in free
      BY <2>2, <3>1, MinIn
    <3>3. Fits(w, app, Min(free))
      <4> DEFINE pad == Min(free)
      <4>1. pad \in Pads
        BY <3>2 DEF FreePads
      <4>2. ASSUME NEW j \in Shown(w), w.slots[j] = [app |-> app, pad |-> pad]
            PROVE  FALSE
        <5>1. w.slots[j].app = app /\ w.slots[j].pad = pad
          BY <4>2
        <5>2. pad \in {w.slots[i].pad : i \in {k \in Shown(w) : w.slots[k].app = app}}
          BY <5>1
        <5> QED
          BY <3>2, <5>2 DEF FreePads
      <4> QED
        BY <4>1, <4>2 DEF Fits
    <3>4. WmOK(Created(w, app, Min(free)))
      BY <3>3, CreatedOK
    <3> QED
      BY <1>3, <2>2, <3>4 DEF Launched
  <2> QED
    BY <2>1, <2>2
<1> QED
  BY <1>2, <1>3

LEMMA OpenedOK ==
    ASSUME NEW w, WmOK(w), NEW app \in Apps \cup Single \cup {"none"}
    PROVE  WmOK(Opened(w, app))
BY LaunchedOK DEF Opened

-----------------------------------------------------------------------------
(* What is under the pointer *)

(* The nth of a set of numbers *)
LEMMA NthOf ==
    ASSUME NEW n \in Nat, NEW S \in SUBSET (1 .. n), NEW nth \in 1 .. Cardinality(S)
    PROVE  \E i \in S : Cardinality({j \in S : j <= i}) = nth
<1> DEFINE UpTo(i) == {j \in S : j <= i}
           D == {i \in Nat : Cardinality(UpTo(i)) >= nth}
<1>0. \A j \in S : j \in Nat /\ 1 <= j /\ j <= n
  OBVIOUS
<1>1. ASSUME NEW T \in SUBSET S PROVE IsFiniteSet(T) /\ Cardinality(T) \in Nat
  <2>1. IsFiniteSet(1 .. n)
    BY FS_Interval
  <2>2. T \in SUBSET (1 .. n)
    OBVIOUS
  <2> QED
    BY <2>1, <2>2, FS_Subset, FS_CardinalityType
<1>2. n \in D
  <2>1. UpTo(n) = S
    BY <1>0
  <2> QED
    BY <1>1, <2>1
<1>3. PICK k \in D : \A m \in D : k <= m
  <2>1. D \in SUBSET Nat /\ D # {}
    BY <1>2
  <2> HIDE DEF D
  <2> QED
    BY <2>1, LeastOf
<1>4. k \in Nat /\ Cardinality(UpTo(k)) >= nth
  BY <1>3
<1>5. k # 0
  <2>1. UpTo(0) = {}
    <3>1. \A j \in S : ~ (j <= 0)
      BY <1>0
    <3> QED
      BY <3>1
  <2>2. Cardinality(UpTo(0)) = 0
    BY <2>1, FS_EmptySet
  <2> QED
    BY <1>4, <2>2
<1>6. k - 1 \in Nat /\ Cardinality(UpTo(k - 1)) < nth
  <2>1. k - 1 \in Nat /\ ~ (k <= k - 1)
    BY <1>4, <1>5
  <2>2. k - 1 \notin D
    BY <1>3, <2>1
  <2>3. ~ (Cardinality(UpTo(k - 1)) >= nth)
    BY <2>1, <2>2
  <2>4. Cardinality(UpTo(k - 1)) \in Nat
    BY <1>1
  <2> QED
    BY <2>1, <2>3, <2>4
<1>7. k \in S
  <2>1. ASSUME k \notin S PROVE FALSE
    <3>1. \A j \in S : j <= k <=> j <= k - 1
      BY <1>0, <1>4, <2>1
    <3>2. UpTo(k) = UpTo(k - 1)
      BY <3>1
    <3> QED
      BY <1>1, <1>4, <1>6, <3>2
  <2> QED
    BY <2>1
<1>8. Cardinality(UpTo(k)) <= Cardinality(UpTo(k - 1)) + 1
  <2>1. UpTo(k) = UpTo(k - 1) \cup {k}
    <3>1. \A j \in S : j <= k <=> j <= k - 1 \/ j = k
      BY <1>0, <1>4
    <3> QED
      BY <1>4, <1>7, <3>1
  <2>2. IsFiniteSet(UpTo(k - 1)) /\ Cardinality(UpTo(k - 1)) \in Nat
    BY <1>1
  <2> HIDE DEF UpTo
  <2>3. Cardinality(UpTo(k - 1) \cup {k})
            = IF k \in UpTo(k - 1) THEN Cardinality(UpTo(k - 1)) ELSE Cardinality(UpTo(k - 1)) + 1
    BY <2>2, FS_AddElement
  <2> QED
    BY <2>1, <2>2, <2>3
<1>9. Cardinality(UpTo(k)) \in Nat /\ Cardinality(UpTo(k - 1)) \in Nat /\ nth \in Nat
  BY <1>1
<1>10. Cardinality(UpTo(k)) = nth
  <2> HIDE DEF UpTo
  <2> QED
    BY <1>4, <1>6, <1>8, <1>9
<1> QED
  BY <1>7, <1>10

(* The nth button of the taskbar is that of a window. *)
LEMMA ButtonShown ==
    ASSUME NEW w, WmOK(w), NEW nth
    PROVE  /\ Button(w, nth) = 0 \/ Button(w, nth) \in Shown(w)
           /\ nth \in 1 .. Cardinality(Shown(w)) => Button(w, nth) \in Shown(w)
<1>1. CASE nth \in 1 .. Cardinality(Shown(w))
  <2>1. Len(w.slots) \in Nat /\ Shown(w) \in SUBSET (1 .. Len(w.slots))
    BY ShownNumbers
  <2>2. \E i \in Shown(w) : Cardinality({j \in Shown(w) : j <= i}) = nth
    BY <1>1, <2>1, NthOf
  <2>3. (CHOOSE i \in Shown(w) : Cardinality({j \in Shown(w) : j <= i}) = nth) \in Shown(w)
    BY <2>2, Zenon
  <2> QED
    BY <1>1, <2>3 DEF Button
<1>2. CASE nth \notin 1 .. Cardinality(Shown(w))
  BY <1>2 DEF Button
<1> QED
  BY <1>1, <1>2

Openable == Apps \cup Single \cup {"none"}

(* What a press can be on while the windows are w *)
TargetOK(w, at) ==
    /\ at.button \in {0} \cup 1 .. Cardinality(Shown(w))
    /\ at.over = {} \/ Max(at.over) \in Shown(w)
    /\ at.item \in Openable
    /\ at.icon \in Icons \cup {0}

LEMMA TargetsOK ==
    ASSUME WmOK(wm), NEW at \in Targets
    PROVE  TargetOK(wm, at)
<1>1. FirstItem \in Openable /\ Entries \subseteq Openable
  BY WindowsAssumption DEF Entries, Openable
<1>2. ASSUME NEW i \in Shown(wm) PROVE Max({i}) \in Shown(wm) /\ Max({i, wm.focus}) \in Shown(wm)
  <2>1. i \in Int /\ wm.focus \in Int /\ wm.focus \in Shown(wm)
    BY ShownNumbers DEF WmOK, FocusOn
  <2>2. Max({i, i}) = i /\ {i, i} = {i}
    BY <2>1, MaxTwo
  <2>3. Max({i, wm.focus}) = IF i >= wm.focus THEN i ELSE wm.focus
    BY <2>1, MaxTwo
  <2> QED
    BY <2>1, <2>2, <2>3
<1>3. CASE at = Nowhere
  BY <1>3 DEF Nowhere, Target, TargetOK, Openable
<1>4. ASSUME NEW n \in 0 .. Cardinality(Shown(wm)), NEW c \in BOOLEAN,
             at = Target("bar", n, c, {}, "button", 0, "none")
      PROVE  TargetOK(wm, at)
  <2>1. n \in {0} \cup 1 .. Cardinality(Shown(wm))
    OBVIOUS
  <2>2. at.button = n /\ at.over = {} /\ at.item = "none" /\ at.icon = 0
    BY <1>4 DEF Target
  <2> QED
    BY <2>1, <2>2 DEF TargetOK, Openable
<1>5. ASSUME NEW k \in Icons \cup {0}, NEW m \in Entries,
             at = Target("desk", 0, FALSE, {}, "button", k, m)
      PROVE  TargetOK(wm, at)
  BY <1>1, <1>5 DEF Target, TargetOK
<1>6. ASSUME NEW i \in Shown(wm), NEW o \in {{i}, {i, wm.focus}},
             NEW p \in {"title", "cross", "button"}, NEW m \in Entries,
             at = Target("desk", 0, FALSE, o, p, 0, m)
      PROVE  TargetOK(wm, at)
  <2>1. Max(o) \in Shown(wm)
    BY <1>2, <1>6
  <2>2. at.button = 0 /\ at.over = o /\ at.item = m /\ at.icon = 0
    BY <1>6 DEF Target
  <2> QED
    BY <1>1, <2>1, <2>2 DEF TargetOK
<1> DEFINE Bar == {Target("bar", n, c, {}, "button", 0, "none") :
                      n \in 0 .. Cardinality(Shown(wm)), c \in BOOLEAN}
           OnIcon(k, m) == Target("desk", 0, FALSE, {}, "button", k, m)
           Desk == {OnIcon(k, m) : k \in Icons \cup {0}, m \in Entries}
           OnWindow(o, p, m) == Target("desk", 0, FALSE, o, p, 0, m)
           Over == UNION {{{i}, {i, wm.focus}} : i \in Shown(wm)}
           Wins == {OnWindow(o, p, m) :
                       o \in Over, p \in {"title", "cross", "button"}, m \in Entries}
<1>7. CASE at \in Bar
  BY <1>4, <1>7
<1>8. CASE at \in Desk
  <2> HIDE DEF OnIcon
  <2>1. PICK k \in Icons \cup {0}, m \in Entries : at = OnIcon(k, m)
    BY <1>8
  <2> QED
    BY <1>5, <2>1 DEF OnIcon
<1>9. CASE at \in Wins
  <2> HIDE DEF Over, OnWindow
  <2>1. PICK o \in Over, p \in {"title", "cross", "button"}, m \in Entries :
                at = OnWindow(o, p, m)
    BY <1>9
  <2>2. PICK i \in Shown(wm) : o \in {{i}, {i, wm.focus}}
    BY DEF Over
  <2> QED
    BY <1>6, <2>1, <2>2 DEF OnWindow
<1>10. Targets = {Nowhere} \cup Bar \cup Desk \cup Wins
  BY DEF Targets
<1> HIDE DEF Bar, Desk, Wins, Over
<1> QED
  BY <1>3, <1>7, <1>8, <1>9, <1>10

-----------------------------------------------------------------------------
(* The compositor's part of a poll *)

CompOK(s) ==
    /\ s \in [wm : WmSet, menu : BOOLEAN, ctx : BOOLEAN, used : BOOLEAN]
    /\ WmOK(s.wm)
    /\ ~(s.menu /\ s.ctx)

LEMMA RightPressedOK ==
    ASSUME NEW s, CompOK(s), NEW at, TargetOK(s.wm, at)
    PROVE  /\ CompOK(RightPressed(s, at))
           /\ s.wm.dragging = 0 => RightPressed(s, at).wm.dragging = 0
<1>1. CASE at.place = "bar" /\ at.button # 0
  <2> DEFINE i == Button(s.wm, at.button)
             r == RightPressed(s, at)
  <2>1. i \in Shown(s.wm)
    BY <1>1, ButtonShown DEF TargetOK, CompOK
  <2>2. /\ WmOK(Destroyed(s.wm, i))
        /\ s.wm.dragging = 0 => Destroyed(s.wm, i).dragging = 0
    BY <2>1, DestroyedOK DEF CompOK
  <2>3. r = [wm |-> Destroyed(s.wm, i), menu |-> FALSE, ctx |-> FALSE, used |-> TRUE]
    BY <1>1 DEF RightPressed
  <2> HIDE DEF i, r
  <2>4. r.wm = Destroyed(s.wm, i) /\ r.menu = FALSE /\ r.ctx = FALSE
    BY <2>3
  <2>5. r \in [wm : WmSet, menu : BOOLEAN, ctx : BOOLEAN, used : BOOLEAN]
    BY <2>2, <2>3 DEF WmOK
  <2> QED
    BY <2>2, <2>4, <2>5 DEF CompOK, r
<1>2. CASE at.place = "desk"
  <2> DEFINE r == [s EXCEPT !.ctx = TRUE, !.menu = FALSE, !.used = TRUE]
  <2>1. /\ r \in [wm : WmSet, menu : BOOLEAN, ctx : BOOLEAN, used : BOOLEAN]
        /\ r.wm = s.wm /\ r.menu = FALSE
    BY DEF CompOK
  <2>2. RightPressed(s, at) = r
    BY <1>2 DEF RightPressed
  <2> HIDE DEF r
  <2> QED
    BY <2>1, <2>2 DEF CompOK
<1>3. CASE ~(at.place = "bar" /\ at.button # 0) /\ at.place # "desk"
  <2> DEFINE r == [s EXCEPT !.ctx = FALSE]
  <2>1. /\ r \in [wm : WmSet, menu : BOOLEAN, ctx : BOOLEAN, used : BOOLEAN]
        /\ r.wm = s.wm /\ r.ctx = FALSE
    BY DEF CompOK
  <2>2. RightPressed(s, at) = r
    BY <1>3 DEF RightPressed
  <2> HIDE DEF r
  <2> QED
    BY <2>1, <2>2 DEF CompOK
<1> QED
  BY <1>1, <1>2, <1>3

LEMMA LeftPressedOK ==
    ASSUME NEW s, CompOK(s), NEW at, at.item \in Openable, NEW just \in BOOLEAN
    PROVE  CompOK(LeftPressed(s, at, just))
<1> DEFINE Sort == [wm : WmSet, menu : BOOLEAN, ctx : BOOLEAN, used : BOOLEAN]
<1>0. /\ s \in Sort /\ WmOK(s.wm) /\ ~(s.menu /\ s.ctx)
      /\ s.menu \in BOOLEAN /\ s.ctx \in BOOLEAN
  BY DEF CompOK
<1>1. CASE s.ctx
  <2> DEFINE app == IF just THEN FirstItem ELSE at.item
             v == Opened(s.wm, app)
             r == [s EXCEPT !.wm = v, !.ctx = FALSE, !.used = TRUE]
  <2>1. app \in Apps \cup Single \cup {"none"}
    BY WindowsAssumption DEF Openable
  <2> HIDE DEF app
  <2>2. WmOK(v)
    BY <1>0, <2>1, OpenedOK
  <2>3. LeftPressed(s, at, just) = r
    BY <1>1 DEF LeftPressed, app
  <2> HIDE DEF v
  <2>4. r \in Sort /\ r.wm = v /\ r.ctx = FALSE
    BY <1>0, <2>2 DEF WmOK
  <2> HIDE DEF r
  <2> QED
    BY <2>2, <2>3, <2>4 DEF CompOK
<1>2. CASE ~s.ctx /\ at.place = "start"
  <2> DEFINE r == [s EXCEPT !.menu = ~@, !.ctx = FALSE, !.used = TRUE]
  <2>1. LeftPressed(s, at, just) = r
    BY <1>2 DEF LeftPressed
  <2>2. r \in Sort /\ r.wm = s.wm /\ r.ctx = FALSE
    BY <1>0
  <2> HIDE DEF r
  <2> QED
    BY <1>0, <2>1, <2>2 DEF CompOK
<1>3. CASE ~s.ctx /\ at.place = "bar"
  <2> DEFINE i == Button(s.wm, at.button)
             v == IF i = 0 THEN s.wm
                  ELSE IF at.cross THEN Destroyed(s.wm, i) ELSE [s.wm EXCEPT !.focus = i]
             r == [s EXCEPT !.wm = v, !.used = TRUE]
  <2>1. i = 0 \/ i \in Shown(s.wm)
    BY <1>0, ButtonShown
  <2>2. LeftPressed(s, at, just) = r
    BY <1>3 DEF LeftPressed
  <2> HIDE DEF i
  <2>3. WmOK(v)
    <3>1. CASE i = 0
      BY <1>0, <3>1
    <3>2. CASE i # 0 /\ at.cross
      <4>1. WmOK(Destroyed(s.wm, i))
        BY <1>0, <2>1, <3>2, DestroyedOK
      <4> QED
        BY <3>2, <4>1
    <3>3. CASE i # 0 /\ ~at.cross
      <4>1. WmOK([s.wm EXCEPT !.focus = i])
        BY <1>0, <2>1, <3>3, RaisedOK
      <4> QED
        BY <3>3, <4>1
    <3> QED
      BY <3>1, <3>2, <3>3
  <2> HIDE DEF v
  <2>4. r \in Sort /\ r.wm = v /\ r.ctx = s.ctx /\ r.menu = s.menu
    BY <1>0, <2>3 DEF WmOK
  <2> HIDE DEF r
  <2> QED
    BY <1>0, <2>2, <2>3, <2>4 DEF CompOK
<1>4. CASE ~s.ctx /\ at.place \notin {"start", "bar"} /\ s.menu
  <2> DEFINE v == Opened(s.wm, at.item)
             r == [s EXCEPT !.wm = v, !.menu = FALSE, !.used = TRUE]
  <2>1. WmOK(v)
    BY <1>0, OpenedOK DEF Openable
  <2>2. LeftPressed(s, at, just) = r
    BY <1>4 DEF LeftPressed
  <2> HIDE DEF v
  <2>3. r \in Sort /\ r.wm = v /\ r.menu = FALSE
    BY <1>0, <2>1 DEF WmOK
  <2> HIDE DEF r
  <2> QED
    BY <2>1, <2>2, <2>3 DEF CompOK
<1>5. CASE ~s.ctx /\ at.place \notin {"start", "bar"} /\ ~s.menu
  <2>1. LeftPressed(s, at, just) = s
    BY <1>5 DEF LeftPressed
  <2> QED
    BY <2>1
<1> QED
  BY <1>0, <1>1, <1>2, <1>3, <1>4, <1>5

-----------------------------------------------------------------------------
(* The polls of the mouse *)

(* The layers agree on the left button, so that a press is new to all of   *)
(* them: without it two of them could act on one press.                    *)
SeenTogether ==
    /\ seen \in [Layers -> BOOLEAN]
    /\ seen["desktop"] = seen["compositor"] /\ seen["windows"] = seen["compositor"]

OneTaker == takers \in {{}, {"compositor"}, {"desktop"}, {"windows"}}

WindowsInv ==
    /\ WmOK(wm)
    /\ menu \in BOOLEAN /\ ctx \in BOOLEAN /\ ~(menu /\ ctx)
    /\ SeenTogether /\ OneTaker
    /\ DragEnds

LEMMA CompositedOK ==
    ASSUME WindowsInv, NEW left \in BOOLEAN, NEW rb \in BOOLEAN, NEW at \in Targets
    PROVE  /\ CompOK(Composited(left, rb, at))
           /\ ~left /\ wm.dragging = 0 => Composited(left, rb, at).wm.dragging = 0
<1> DEFINE before == [wm |-> wm, menu |-> menu, ctx |-> ctx, used |-> FALSE]
           pressed == rb /\ ~right
           s == IF pressed THEN RightPressed(before, at) ELSE before
           just == pressed /\ at.place = "desk"
           new == left /\ ~seen["compositor"]
<1>1. CompOK(before) /\ before.wm = wm
  BY DEF WindowsInv, CompOK, WmOK
<1>2. TargetOK(wm, at) /\ at.item \in Openable
  BY TargetsOK DEF WindowsInv, TargetOK
<1>3. Composited(left, rb, at) = IF new THEN LeftPressed(s, at, just) ELSE s
  BY DEF Composited
<1> HIDE DEF before
<1>4. CompOK(s) /\ (wm.dragging = 0 => s.wm.dragging = 0)
  <2>1. /\ CompOK(RightPressed(before, at))
        /\ wm.dragging = 0 => RightPressed(before, at).wm.dragging = 0
    BY <1>1, <1>2, RightPressedOK
  <2>2. CASE pressed
    BY <2>1, <2>2
  <2>3. CASE ~pressed
    BY <1>1, <2>3
  <2> QED
    BY <2>2, <2>3
<1>5. just \in BOOLEAN
  OBVIOUS
<1> HIDE DEF s, just
<1>6. CompOK(LeftPressed(s, at, just))
  BY <1>2, <1>4, <1>5, LeftPressedOK
<1> QED
  BY <1>3, <1>4, <1>6

(* After a poll the layers agree. *)
LEMMA SyncedTogether ==
    ASSUME NEW left \in BOOLEAN, NEW which, seen' = Synced(left, which)
    PROVE  SeenTogether' /\ (seen["compositor"])' = left
BY DEF Synced, SeenTogether, Layers

LEMMA ConsumeInv ==
    ASSUME WindowsInv, NEW left \in BOOLEAN, NEW rb \in BOOLEAN, NEW at \in Targets,
           Consume(left, rb, at)
    PROVE  WindowsInv'
<1> DEFINE c == Composited(left, rb, at)
<1>1. /\ CompOK(c)
      /\ ~left /\ wm.dragging = 0 => c.wm.dragging = 0
  BY CompositedOK
<1>2. /\ wm' = c.wm /\ menu' = c.menu /\ ctx' = c.ctx
      /\ seen' = Synced(left, "compositor")
      /\ takers' = IF left /\ ~seen["compositor"] THEN {"compositor"} ELSE takers
      /\ lost' = (~left /\ (seen["compositor"] \/ lost))
      /\ dragged' = dragged
  BY DEF Consume, desk
<1> HIDE DEF c
<1>3. WmOK(wm)'
  BY <1>1, <1>2 DEF CompOK, WmOK, FocusOn, Apart, Shown
<1>4. (menu \in BOOLEAN /\ ctx \in BOOLEAN /\ ~(menu /\ ctx))'
  BY <1>1, <1>2 DEF CompOK
<1>5. SeenTogether' /\ (seen["compositor"])' = left
  BY <1>2, SyncedTogether
<1>6. OneTaker'
  BY <1>2 DEF OneTaker, WindowsInv
<1>7. DragEnds'
  <2> SUFFICES ASSUME ~left, ~lost' PROVE wm'.dragging = 0 /\ dragged' = 0
    BY <1>5 DEF DragEnds
  <2>1. ~seen["compositor"] /\ ~lost
    BY <1>2
  <2>2. wm.dragging = 0 /\ dragged = 0
    BY <2>1 DEF WindowsInv, DragEnds
  <2> QED
    BY <1>1, <1>2, <2>2
<1> QED
  BY <1>3, <1>4, <1>5, <1>6, <1>7 DEF WindowsInv

LEMMA OnDeskInv ==
    ASSUME WindowsInv, NEW left \in BOOLEAN, NEW rb \in BOOLEAN, NEW at \in Targets,
           OnDesk(left, rb, at)
    PROVE  WindowsInv'
<1> DEFINE c == Composited(left, rb, at)
           hit == DeskHit(left, at)
<1>1. CompOK(c)
  BY CompositedOK
<1>2. /\ menu' = c.menu /\ ctx' = c.ctx
      /\ wm' = IF hit /\ selected = at.icon THEN Opened(wm, IconOpens[at.icon]) ELSE wm
      /\ seen' = Synced(left, "desktop")
      /\ takers' = Fresh(left) \cup (IF hit THEN {"desktop"} ELSE {})
      /\ DeskTook(left, at)
  BY DEF OnDesk
<1>3. left
  BY <1>2 DEF DeskTook, DeskHit, DeskPressed
<1>4. hit => ~seen["desktop"] /\ at.icon # 0
  BY DEF DeskHit, DeskPressed
<1> HIDE DEF c, hit
<1>5. WmOK(wm)'
  <2>1. CASE hit /\ selected = at.icon
    <3>1. at.icon \in Icons
      BY <1>4, <2>1, TargetsOK DEF TargetOK, WindowsInv
    <3>2. IconOpens[at.icon] \in Apps \cup Single \cup {"none"}
      BY <3>1, WindowsAssumption DEF Icons
    <3>3. WmOK(Opened(wm, IconOpens[at.icon]))
      BY <3>2, OpenedOK DEF WindowsInv
    <3>4. wm' = Opened(wm, IconOpens[at.icon])
      BY <1>2, <2>1
    <3> QED
      BY <3>3, <3>4 DEF WmOK, FocusOn, Apart, Shown
  <2>2. CASE ~(hit /\ selected = at.icon)
    <3>1. wm' = wm
      BY <1>2, <2>2
    <3> QED
      BY <3>1 DEF WindowsInv, WmOK, FocusOn, Apart, Shown
  <2> QED
    BY <2>1, <2>2
<1>6. (menu \in BOOLEAN /\ ctx \in BOOLEAN /\ ~(menu /\ ctx))'
  BY <1>1, <1>2 DEF CompOK
<1>7. SeenTogether' /\ (seen["compositor"])' = left
  BY <1>2, SyncedTogether
<1>8. OneTaker'
  <2>1. CASE hit
    <3>1. ~seen["compositor"]
      BY <1>4, <2>1 DEF WindowsInv, SeenTogether
    <3> QED
      BY <1>2, <1>3, <2>1, <3>1 DEF OneTaker, Fresh
  <2>2. CASE ~hit
    BY <1>2, <2>2 DEF OneTaker, Fresh, WindowsInv
  <2> QED
    BY <2>1, <2>2
<1>9. DragEnds'
  BY <1>3, <1>7 DEF DragEnds
<1> QED
  BY <1>5, <1>6, <1>7, <1>8, <1>9 DEF WindowsInv

(* window_handle_mouse *)
LEMMA HandleMouseOK ==
    ASSUME WindowsInv, NEW left \in BOOLEAN, NEW at \in Targets, HandleMouse(left, at)
    PROVE  /\ WmOK(wm')
           /\ ~left /\ (seen["windows"] \/ wm.dragging = 0) => wm'.dragging = 0
<1> DEFINE i == Max(at.over)
           pressed == left /\ ~seen["windows"]
           hitting == pressed /\ at.over # {}
           focused == [wm EXCEPT !.focus = i]
           settings == at.part = "button" /\ wm.slots[i].app = "settings"
           clicked == IF ~hitting THEN wm
                      ELSE IF at.part = "cross" THEN Destroyed(focused, i)
                      ELSE IF at.part = "title" THEN [focused EXCEPT !.dragging = i]
                      ELSE IF settings THEN Launched(focused, "wallpaper")
                      ELSE focused
<1>1. wm' = IF ~left /\ seen["windows"] THEN [clicked EXCEPT !.dragging = 0] ELSE clicked
  BY DEF HandleMouse
<1>2. WmOK(wm)
  BY DEF WindowsInv
<1>3. WmOK(clicked)
  <2>1. CASE ~hitting
    BY <1>2, <2>1
  <2>2. CASE hitting
    <3>1. i \in Shown(wm)
      BY <1>2, <2>2, TargetsOK DEF TargetOK
    <3> HIDE DEF i, hitting, settings
    <3>2. WmOK(focused) /\ i \in Shown(focused)
      BY <1>2, <3>1, RaisedOK
    <3> HIDE DEF focused
    <3>3. WmOK(Destroyed(focused, i))
      BY <3>2, DestroyedOK
    <3>4. WmOK([focused EXCEPT !.dragging = i])
      BY <3>2, DraggingOK
    <3>5. WmOK(Launched(focused, "wallpaper"))
      BY <3>2, WindowsAssumption, LaunchedOK
    <3> QED
      BY <2>2, <3>2, <3>3, <3>4, <3>5
  <2> QED
    BY <2>1, <2>2
<1>4. WmOK([clicked EXCEPT !.dragging = 0]) /\ [clicked EXCEPT !.dragging = 0].dragging = 0
  <2> HIDE DEF clicked
  <2> QED
    BY <1>3, DraggingOK
<1>5. ~left => clicked = wm
  OBVIOUS
<1> HIDE DEF clicked
<1> QED
  BY <1>1, <1>3, <1>4, <1>5

LEMMA OnWindowsInv ==
    ASSUME WindowsInv, NEW left \in BOOLEAN, NEW rb \in BOOLEAN, NEW at \in Targets,
           OnWindows(left, rb, at)
    PROVE  WindowsInv'
<1> DEFINE c == Composited(left, rb, at)
           hitting == left /\ ~seen["windows"] /\ at.over # {}
<1>1. CompOK(c)
  BY CompositedOK
<1>2. /\ menu' = c.menu /\ ctx' = c.ctx
      /\ HandleDesk(left, at) /\ HandleMouse(left, at)
      /\ seen' = Synced(left, "windows")
      /\ lost' = (lost /\ ~(~left /\ seen["compositor"]))
  BY DEF OnWindows
<1> HIDE DEF c
<1>3. /\ WmOK(wm')
      /\ ~left /\ (seen["windows"] \/ wm.dragging = 0) => wm'.dragging = 0
  BY <1>2, HandleMouseOK
<1>4. takers' = Fresh(left) \cup (IF hitting THEN {"windows"} ELSE {})
  BY <1>2 DEF HandleMouse
<1>5. dragged' = IF DeskHit(left, at) /\ selected # at.icon THEN at.icon
                 ELSE IF ~left /\ seen["desktop"] THEN 0 ELSE dragged
  BY <1>2 DEF HandleDesk
<1>6. WmOK(wm)'
  BY <1>3 DEF WmOK, FocusOn, Apart, Shown
<1>7. (menu \in BOOLEAN /\ ctx \in BOOLEAN /\ ~(menu /\ ctx))'
  BY <1>1, <1>2 DEF CompOK
<1>8. SeenTogether' /\ (seen["compositor"])' = left
  BY <1>2, SyncedTogether
<1>9. SeenTogether
  BY DEF WindowsInv
<1>10. OneTaker'
  <2>1. CASE hitting
    BY <1>4, <1>9, <2>1 DEF OneTaker, Fresh, SeenTogether
  <2>2. CASE ~hitting
    BY <1>4, <2>2 DEF OneTaker, Fresh, WindowsInv
  <2> QED
    BY <2>1, <2>2
<1>11. DragEnds'
  <2> SUFFICES ASSUME ~left, ~lost' PROVE wm'.dragging = 0 /\ dragged' = 0
    BY <1>8 DEF DragEnds
  <2>1. ~DeskHit(left, at)
    BY DEF DeskHit, DeskPressed
  <2>2. CASE seen["compositor"]
    BY <1>3, <1>5, <1>9, <2>1, <2>2 DEF SeenTogether
  <2>3. CASE ~seen["compositor"]
    <3>1. ~lost
      BY <1>2, <2>3
    <3>2. wm.dragging = 0 /\ dragged = 0
      BY <2>3, <3>1 DEF WindowsInv, DragEnds
    <3> QED
      BY <1>3, <1>5, <2>1, <3>2
  <2> QED
    BY <2>2, <2>3
<1> QED
  BY <1>6, <1>7, <1>8, <1>10, <1>11 DEF WindowsInv

LEMMA WindowsInitInv == WindowsInit => WindowsInv
<1> SUFFICES ASSUME WindowsInit PROVE WindowsInv
  OBVIOUS
<1>1. wm = [slots |-> <<>>, focus |-> 0, dragging |-> 0]
  BY DEF WindowsInit
<1>2. wm.slots = <<>> /\ wm.focus = 0 /\ wm.dragging = 0
  BY <1>1
<1>3. <<>> \in Seq(Slot) /\ Len(<<>>) = 0 /\ DOMAIN <<>> = {}
  BY EmptySeq
<1>4. wm \in WmSet
  BY <1>1, <1>3 DEF WmSet
<1>5. Shown(wm) = {}
  BY <1>2, <1>3 DEF Shown
<1>6. WmOK(wm)
  <2>1. Len(wm.slots) <= MaxWindows
    BY <1>2, <1>3, WindowsAssumption
  <2> QED
    BY <1>2, <1>4, <1>5, <2>1 DEF WmOK, FocusOn, Apart
<1>7. SeenTogether /\ OneTaker /\ DragEnds
  BY <1>2 DEF WindowsInit, SeenTogether, OneTaker, DragEnds, Layers
<1>8. menu \in BOOLEAN /\ ctx \in BOOLEAN /\ ~(menu /\ ctx)
  BY DEF WindowsInit
<1> QED
  BY <1>6, <1>7, <1>8 DEF WindowsInv

(* A poll finds the pointer where there is something to press.             *)
LEMMA PointedTargets ==
    ASSUME NEW left \in BOOLEAN, NEW rb \in BOOLEAN, NEW at \in Pointed(left, rb)
    PROVE  at \in Targets
<1>1. Nowhere \in Targets
  <2> DEFINE Bar == {Target("bar", n, c, {}, "button", 0, "none") :
                        n \in 0 .. Cardinality(Shown(wm)), c \in BOOLEAN}
             Desk == {Target("desk", 0, FALSE, {}, "button", k, m) :
                        k \in Icons \cup {0}, m \in Entries}
             Wins == {Target("desk", 0, FALSE, o, p, 0, m) :
                        o \in UNION {{{i}, {i, wm.focus}} : i \in Shown(wm)},
                        p \in {"title", "cross", "button"}, m \in Entries}
  <2>1. Targets = {Nowhere} \cup Bar \cup Desk \cup Wins
    BY DEF Targets
  <2> HIDE DEF Bar, Desk, Wins
  <2> QED
    BY <2>1
<1>2. Pointed(left, rb) = Targets \/ Pointed(left, rb) = {Nowhere}
  BY Zenon DEF Pointed
<1> QED
  BY <1>1, <1>2

LEMMA WindowsStep == WindowsInv /\ [WindowsNext]_windowsVars => WindowsInv'
<1> SUFFICES ASSUME WindowsInv, [WindowsNext]_windowsVars PROVE WindowsInv'
  OBVIOUS
<1>1. CASE WindowsNext
  <2>1. PICK left \in BOOLEAN, rb \in BOOLEAN : \E at \in Pointed(left, rb) :
           Consume(left, rb, at) \/ OnDesk(left, rb, at) \/ OnWindows(left, rb, at)
    BY <1>1 DEF WindowsNext
  <2>2. PICK at \in Pointed(left, rb) :
           Consume(left, rb, at) \/ OnDesk(left, rb, at) \/ OnWindows(left, rb, at)
    BY <2>1
  <2>3. at \in Targets
    BY PointedTargets
  <2> QED
    BY <2>2, <2>3, ConsumeInv, OnDeskInv, OnWindowsInv
<1>2. CASE UNCHANGED windowsVars
  <2>1. UNCHANGED <<wm, menu, ctx, seen, dragged, takers, lost>>
    BY <1>2 DEF windowsVars, menus, desk
  <2> QED
    BY <2>1 DEF WindowsInv, WmOK, FocusOn, Apart, Shown, SeenTogether, OneTaker, DragEnds
<1> QED
  BY <1>1, <1>2

(* What WindowsInv leaves out of WindowsTypeOK                              *)
DeskTyped ==
    /\ right \in BOOLEAN /\ lost \in BOOLEAN /\ covered \in BOOLEAN
    /\ selected \in Icons \cup {0} /\ dragged \in Icons \cup {0}

LEMMA DeskStep == WindowsInv /\ DeskTyped /\ [WindowsNext]_windowsVars => DeskTyped'
<1> SUFFICES ASSUME WindowsInv, DeskTyped, [WindowsNext]_windowsVars PROVE DeskTyped'
  OBVIOUS
<1>1. CASE WindowsNext
  <2>1. PICK left \in BOOLEAN, rb \in BOOLEAN : \E at \in Pointed(left, rb) :
           Consume(left, rb, at) \/ OnDesk(left, rb, at) \/ OnWindows(left, rb, at)
    BY <1>1 DEF WindowsNext
  <2>2. PICK at \in Pointed(left, rb) :
           Consume(left, rb, at) \/ OnDesk(left, rb, at) \/ OnWindows(left, rb, at)
    BY <2>1
  <2>3. at.icon \in Icons \cup {0}
    BY PointedTargets, TargetsOK DEF WindowsInv, TargetOK
  <2>4. right' \in BOOLEAN
    BY <2>2 DEF Consume, OnDesk, OnWindows
  <2>5. lost' \in BOOLEAN
    BY <2>2 DEF DeskTyped, Consume, OnDesk, OnWindows
  <2>6. covered' \in BOOLEAN
    <3> DEFINE beneath == at.over \ {Max(at.over)}
    <3>1. UNCHANGED covered \/ covered' = (wm.focus \in beneath)
      BY <2>2 DEF Consume, OnDesk, OnWindows, HandleMouse
    <3> HIDE DEF beneath
    <3>2. covered' = (wm.focus \in beneath) => covered' \in BOOLEAN
      OBVIOUS
    <3> QED
      BY <3>1, <3>2 DEF DeskTyped
  <2>7. selected' \in Icons \cup {0} /\ dragged' \in Icons \cup {0}
    BY <2>2, <2>3 DEF DeskTyped, Consume, OnDesk, OnWindows, HandleDesk, desk
  <2> QED
    BY <2>4, <2>5, <2>6, <2>7 DEF DeskTyped
<1>2. CASE UNCHANGED windowsVars
  BY <1>2 DEF DeskTyped, windowsVars, desk
<1> QED
  BY <1>1, <1>2

LEMMA WindowsTyped == WindowsInv /\ DeskTyped => WindowsTypeOK
<1> SUFFICES ASSUME WindowsInv, DeskTyped PROVE WindowsTypeOK
  OBVIOUS
<1>1. wm.slots \in Seq(Slot) /\ Len(wm.slots) \in 0 .. MaxWindows
  BY ShownNumbers, WindowsAssumption DEF WindowsInv, WmOK, WmSet
<1>2. wm.focus \in 0 .. Len(wm.slots) /\ wm.dragging \in 0 .. Len(wm.slots)
  BY ShownNumbers DEF WindowsInv, WmOK, FocusOn
<1>3. takers \subseteq Layers
  BY DEF WindowsInv, OneTaker, Layers
<1> QED
  BY <1>1, <1>2, <1>3 DEF WindowsTypeOK, WindowsInv, DeskTyped, SeenTogether, Slot

(* For any number of windows, any applications, menus and icons and any    *)
(* sequence of polls of the mouse: the focus and the drag are on a window  *)
(* that is shown, no two windows of an application share a pad, one layer  *)
(* at most acts on a press, and nothing is dragged with the button up      *)
(* unless the compositor kept the release to itself.                       *)
THEOREM PressesActOnce == WindowsSpec => []WindowsTypeOK /\ []WindowsSound
<1>1. WindowsInv => WindowsSound
  <2> SUFFICES ASSUME WindowsInv PROVE WindowsSound
    OBVIOUS
  <2>1. FocusShown /\ PadsApart
    BY DEF WindowsInv, WmOK, FocusOn, Apart, FocusShown, PadsApart
  <2>2. Cardinality(takers) <= 1
    <3>1. CASE takers = {}
      BY <3>1, FS_EmptySet
    <3>2. ASSUME NEW l \in Layers, takers = {l} PROVE Cardinality(takers) <= 1
      <4>1. Cardinality({l}) = 1
        BY FS_Singleton
      <4> QED
        BY <3>2, <4>1
    <3> QED
      BY <3>1, <3>2 DEF WindowsInv, OneTaker, Layers
  <2>3. PressTaken /\ DragEnds
    BY <2>2 DEF WindowsInv, PressTaken
  <2> QED
    BY <2>1, <2>3 DEF WindowsSound
<1>2. WindowsInit => DeskTyped
  BY DEF WindowsInit, DeskTyped
<1> QED
  BY <1>1, <1>2, WindowsInitInv, WindowsStep, DeskStep, WindowsTyped, PTL DEF WindowsSpec

-----------------------------------------------------------------------------
(* The settings *)

(* A picture is only kept as long as the wallpaper is the photo: every     *)
(* other swatch, and every new photo, makes it invalid.                    *)
PictureOfPhoto == picture.valid => cur.wall = "photo"

(* What a boot would load from the file is what it may come up with. *)
FileIsKept == \E k \in kept : Same(Loaded(file), k)

SettingsInv == SettingsTypeOK /\ FileIsKept /\ PictureOfPhoto /\ PhotoShown

LEMMA DefaultsTyped == Defaults \in Values
BY SettingsAssumption DEF Defaults, Values, Languages, Walls

LEMMA LoadedTyped ==
    ASSUME NEW f, f.blob \in Values
    PROVE  Loaded(f) \in Values
<1>1. Defaults \in Values
  BY DefaultsTyped
<1>2. [f.blob EXCEPT !.photo = 0] \in Values
  BY SettingsAssumption DEF Values
<1> QED
  BY <1>1, <1>2 DEF Loaded

(* Whatever is loaded looks like what was saved. *)
LEMMA LoadedSame ==
    ASSUME NEW v \in Values
    PROVE  Same(Loaded(Good(v)), v)
<1>1. Good(v).state = "good" /\ Good(v).blob = v
  BY DEF Good
<1>2. CASE v.wall = "photo"
  BY <1>1, <1>2 DEF Loaded, Same
<1>3. CASE v.wall # "photo"
  <2> DEFINE w == [v EXCEPT !.photo = 0]
  <2>1. Loaded(Good(v)) = w
    BY <1>1, <1>3 DEF Loaded
  <2>2. /\ DOMAIN w = DOMAIN v /\ w.wall = v.wall
        /\ \A f \in DOMAIN v : f # "photo" => w[f] = v[f]
    BY DEF Values
  <2> HIDE DEF w
  <2>3. Same(w, v)
    BY <1>3, <2>2 DEF Same
  <2> QED
    BY <2>1, <2>3
<1> QED
  BY <1>2, <1>3

LEMMA SameRefl == ASSUME NEW v PROVE Same(v, v)
BY DEF Same

LEMMA NothingLoaded == Loaded(NoFile) = Defaults /\ Loaded(Spoiled) = Defaults
BY DEF Loaded, NoFile, Spoiled

(* settings_save: the file is typed and holds what was saved. *)
LEMMA SaveKeeps ==
    ASSUME SettingsTypeOK, FileIsKept, NEW v \in Values, Save(v)
    PROVE  /\ file'.state \in {"missing", "spoiled", "good"} /\ file'.blob \in Values
           /\ kept' \subseteq Values /\ FileIsKept'
<1>1. CASE file' = Good(Blob(v)) /\ kept' = {v}
  <2>1. file' = Good(v)
    BY <1>1 DEF Blob
  <2>2. Same(Loaded(file'), v)
    BY <2>1, LoadedSame
  <2> QED
    BY <1>1, <2>1, <2>2 DEF Good, FileIsKept
<1>2. CASE UNCHANGED <<file, kept>>
  BY <1>2 DEF FileIsKept, SettingsTypeOK
<1> QED
  BY <1>1, <1>2 DEF Save

LEMMA SettingsInitInv == SettingsInit => SettingsInv
<1> SUFFICES ASSUME SettingsInit PROVE SettingsInv
  OBVIOUS
<1>1. SettingsTypeOK
  <2>1. cur \in Values /\ kept \subseteq Values /\ file.state = "missing" /\ file.blob \in Values
    BY DefaultsTyped DEF SettingsInit, NoFile
  <2>2. picture \in [photo : 0 .. Photos - 1, display : Displays, valid : BOOLEAN]
    BY SettingsAssumption DEF SettingsInit, NoPicture
  <2>3. display \in Displays /\ disk \in BOOLEAN /\ off = FALSE /\ reclicked = FALSE
    BY DEF SettingsInit
  <2>4. changes \in 0 .. MaxChanges
    <3>1. changes = 0
      BY DEF SettingsInit
    <3> QED
      BY <3>1, SettingsAssumption
  <2> QED
    BY <2>1, <2>2, <2>3, <2>4 DEF SettingsTypeOK
<1>2. FileIsKept
  BY NothingLoaded, SameRefl DEF SettingsInit, FileIsKept
<1>3. PictureOfPhoto /\ PhotoShown
  BY DEF SettingsInit, PictureOfPhoto, PhotoShown, NoPicture
<1> QED
  BY <1>1, <1>2, <1>3 DEF SettingsInv

LEMMA SettingsStep == SettingsInv /\ [SettingsNext]_settingsVars => SettingsInv'
<1> SUFFICES ASSUME SettingsInv, [SettingsNext]_settingsVars PROVE SettingsInv'
  OBVIOUS
<1> USE DEF SettingsInv
<1> DEFINE FileOK(f) == f.state \in {"missing", "spoiled", "good"} /\ f.blob \in Values
           PictureOK(p) == p \in [photo : 0 .. Photos - 1, display : Displays, valid : BOOLEAN]
<1>1. ASSUME Change
      PROVE  changes' \in 0 .. MaxChanges /\ disk' \in BOOLEAN /\ off' \in BOOLEAN
  BY <1>1, SettingsAssumption DEF Change, SettingsTypeOK
<1>2. CASE ButtonClicked
  <2>1. Change /\ cur' \in Buttons /\ Save(cur') /\ UNCHANGED <<display, picture, reclicked>>
    BY <1>2 DEF ButtonClicked, wallpaper
  <2>2. cur' \in Values /\ cur'.wall = cur.wall /\ cur'.photo = cur.photo
    <3>1. CASE \E l \in Languages : cur' = [cur EXCEPT !.kbd = l] \/ cur' = [cur EXCEPT !.ui = l]
      BY <3>1 DEF SettingsTypeOK, Values
    <3>2. CASE \E d \in {1, Zones - 1} : cur' = [cur EXCEPT !.zone = (@ + d) % Zones]
      <4>1. PICK d \in {1, Zones - 1} : cur' = [cur EXCEPT !.zone = (@ + d) % Zones]
        BY <3>2
      <4>2. (cur.zone + d) % Zones \in 0 .. Zones - 1
        BY SettingsAssumption DEF SettingsTypeOK, Values
      <4> QED
        BY <4>1, <4>2 DEF SettingsTypeOK, Values
    <3>3. CASE \E c \in BOOLEAN : cur' = [cur EXCEPT !.clock24 = c]
      BY <3>3 DEF SettingsTypeOK, Values
    <3>4. CASE \E s \in Speeds : cur' = [cur EXCEPT !.speed = s]
      BY <3>4 DEF SettingsTypeOK, Values
    <3> QED
      BY <2>1, <3>1, <3>2, <3>3, <3>4 DEF Buttons
  <2>3. FileOK(file') /\ kept' \subseteq Values /\ FileIsKept'
    BY <2>1, <2>2, SaveKeeps
  <2> QED
    BY <1>1, <2>1, <2>2, <2>3 DEF SettingsTypeOK, PictureOfPhoto, PhotoShown
<1>3. ASSUME NEW d \in Displays, DisplayClicked(d) PROVE SettingsInv'
  <2>1. /\ Change /\ display' \in {d, display} /\ Save(cur)
        /\ UNCHANGED <<cur, picture, reclicked>>
    BY <1>3 DEF DisplayClicked, wallpaper
  <2>2. FileOK(file') /\ kept' \subseteq Values /\ FileIsKept'
    BY <2>1, SaveKeeps DEF SettingsTypeOK
  <2> QED
    BY <1>1, <2>1, <2>2 DEF SettingsTypeOK, PictureOfPhoto, PhotoShown
<1>4. ASSUME NEW w \in Walls, SwatchClicked(w) PROVE SettingsInv'
  <2>1. Change /\ Swatch(w) /\ Save(cur') /\ UNCHANGED display
    BY <1>4 DEF SwatchClicked
  <2>2. cur' \in Values /\ cur'.wall = w /\ (w # "photo" => cur'.photo = cur.photo)
    <3>1. (cur.photo + 1) % Photos \in 0 .. Photos - 1
      BY SettingsAssumption DEF SettingsTypeOK, Values
    <3> QED
      BY <2>1, <3>1 DEF Swatch, SettingsTypeOK, Values
  <2>3. /\ PictureOK(picture') /\ picture'.photo = picture.photo
        /\ picture'.valid = (picture.valid /\ w = "photo")
    <3>1. picture' = [picture EXCEPT !.valid = @ /\ w = "photo"]
      BY <2>1 DEF Swatch
    <3> QED
      BY <3>1 DEF SettingsTypeOK
  <2>4. reclicked' = (w = "photo" /\ (reclicked \/ cur.wall = "photo"))
    BY <2>1 DEF Swatch
  <2>5. FileOK(file') /\ kept' \subseteq Values /\ FileIsKept'
    BY <2>1, <2>2, SaveKeeps
  <2>6. PictureOfPhoto' /\ PhotoShown'
    BY <2>2, <2>3, <2>4 DEF PictureOfPhoto, PhotoShown
  <2> QED
    BY <1>1, <2>1, <2>2, <2>3, <2>4, <2>5, <2>6 DEF SettingsTypeOK
<1>5. ASSUME NEW i \in 0 .. Photos - 1, PhotoSet(i) PROVE SettingsInv'
  <2>1. Change /\ SetPhoto(i) /\ UNCHANGED <<display, file, kept>>
    BY <1>5 DEF PhotoSet
  <2>2. cur' \in Values
    BY <2>1 DEF SetPhoto, SettingsTypeOK, Values, Walls
  <2>3. PictureOK(picture') /\ picture'.valid = FALSE /\ reclicked' = FALSE
    BY <2>1 DEF SetPhoto, SettingsTypeOK
  <2> QED
    BY <1>1, <2>1, <2>2, <2>3 DEF SettingsTypeOK, FileIsKept, PictureOfPhoto, PhotoShown
<1>6. ASSUME NEW l \in Languages, LayoutChanged(l) PROVE SettingsInv'
  <2>1. /\ Change /\ cur' = [cur EXCEPT !.kbd = l]
        /\ UNCHANGED <<display, picture, reclicked, file, kept>>
    BY <1>6 DEF LayoutChanged, wallpaper
  <2>2. cur' \in Values /\ cur'.wall = cur.wall /\ cur'.photo = cur.photo
    BY <2>1 DEF SettingsTypeOK, Values
  <2> QED
    BY <1>1, <2>1, <2>2 DEF SettingsTypeOK, FileIsKept, PictureOfPhoto, PhotoShown
<1>7. ASSUME NEW z \in 0 .. Zones - 1, ZoneTyped(z) PROVE SettingsInv'
  <2>1. /\ Change /\ cur' = [cur EXCEPT !.zone = z] /\ Save(cur')
        /\ UNCHANGED <<display, picture, reclicked>>
    BY <1>7 DEF ZoneTyped, wallpaper
  <2>2. cur' \in Values /\ cur'.wall = cur.wall /\ cur'.photo = cur.photo
    BY <2>1 DEF SettingsTypeOK, Values
  <2>3. FileOK(file') /\ kept' \subseteq Values /\ FileIsKept'
    BY <2>1, <2>2, SaveKeeps
  <2> QED
    BY <1>1, <2>1, <2>2, <2>3 DEF SettingsTypeOK, PictureOfPhoto, PhotoShown
<1>8. CASE FileSpoiled
  <2>1. /\ Change /\ file' \in {NoFile, Spoiled} /\ kept' = {Defaults}
        /\ UNCHANGED <<cur, display, picture, reclicked>>
    BY <1>8 DEF FileSpoiled, wallpaper
  <2>2. FileOK(file') /\ kept' \subseteq Values
    BY <2>1, DefaultsTyped DEF NoFile, Spoiled
  <2>3. FileIsKept'
    BY <2>1, NothingLoaded, SameRefl DEF FileIsKept
  <2> QED
    BY <1>1, <2>1, <2>2, <2>3 DEF SettingsTypeOK, PictureOfPhoto, PhotoShown
<1>9. CASE WallpaperPainted
  <2>1. /\ cur.wall = "photo" /\ reclicked' = FALSE
        /\ picture' = [photo |-> cur.photo, display |-> display, valid |-> TRUE]
        /\ UNCHANGED <<cur, display, file, disk, off, changes, kept>>
    BY <1>9 DEF WallpaperPainted, Paint
  <2>2. PictureOK(picture') /\ picture'.photo = cur.photo
    BY <2>1 DEF SettingsTypeOK, Values
  <2> QED
    BY <2>1, <2>2 DEF SettingsTypeOK, FileIsKept, PictureOfPhoto, PhotoShown
<1>10. CASE PowerOff
  <2>1. off' = TRUE /\ UNCHANGED <<cur, display, picture, reclicked, disk, changes>>
    BY <1>10 DEF PowerOff, wallpaper
  <2>2. FileOK(file') /\ kept' \subseteq Values /\ FileIsKept'
    <3>1. CASE UNCHANGED <<file, kept>>
      BY <3>1 DEF SettingsTypeOK, FileIsKept
    <3>2. CASE file' \in {Good(cur), NoFile, Spoiled} /\ kept' = kept \cup {cur, Defaults}
      <4>1. FileOK(file') /\ kept' \subseteq Values
        BY <3>2, DefaultsTyped DEF SettingsTypeOK, Good, NoFile, Spoiled
      <4>2. CASE file' = Good(cur)
        <5>1. Same(Loaded(file'), cur)
          BY <4>2, LoadedSame DEF SettingsTypeOK
        <5> QED
          BY <3>2, <4>1, <5>1 DEF FileIsKept
      <4>3. CASE file' \in {NoFile, Spoiled}
        <5>1. Same(Loaded(file'), Defaults)
          BY <4>3, NothingLoaded, SameRefl
        <5> QED
          BY <3>2, <4>1, <5>1 DEF FileIsKept
      <4> QED
        BY <3>2, <4>2, <4>3, <4>1
    <3> QED
      BY <1>10, <3>1, <3>2 DEF PowerOff, Blob
  <2> QED
    BY <2>1, <2>2 DEF SettingsTypeOK, PictureOfPhoto, PhotoShown
<1>11. CASE Boot
  <2> DEFINE found == IF disk THEN file ELSE NoFile
  <2>1. /\ off' = FALSE /\ file' = found /\ cur' = Loaded(found) /\ kept' = {cur'}
        /\ display' \in Displays /\ picture' = NoPicture(display')
        /\ changes' = 0 /\ reclicked' = FALSE /\ UNCHANGED disk
    BY <1>11 DEF Boot
  <2>2. FileOK(found)
    BY DefaultsTyped DEF SettingsTypeOK, NoFile
  <2>3. cur' \in Values
    BY <2>1, <2>2, LoadedTyped
  <2>4. PictureOK(picture') /\ picture'.valid = FALSE
    BY <2>1, SettingsAssumption DEF NoPicture
  <2>5. FileIsKept'
    BY <2>1, SameRefl DEF FileIsKept
  <2>6. FileOK(file') /\ kept' \subseteq Values
    BY <2>1, <2>2, <2>3
  <2>7. changes' \in 0 .. MaxChanges
    BY <2>1, SettingsAssumption
  <2> QED
    BY <2>1, <2>3, <2>4, <2>5, <2>6, <2>7 DEF SettingsTypeOK, PictureOfPhoto, PhotoShown
<1>12. CASE UNCHANGED settingsVars
  BY <1>12 DEF settingsVars, wallpaper, SettingsTypeOK, FileIsKept, PictureOfPhoto, PhotoShown
<1> QED
  BY <1>2, <1>3, <1>4, <1>5, <1>6, <1>7, <1>8, <1>9, <1>10, <1>11, <1>12 DEF SettingsNext

(* Only a boot comes up, with what the file gives. *)
LEMMA BootReturns ==
    ASSUME SettingsInv, [SettingsNext]_settingsVars, off, ~off'
    PROVE  \E k \in IF disk THEN kept ELSE {Defaults} : Same(cur', k)
<1>1. ~Change /\ ~WallpaperPainted /\ ~PowerOff
  BY DEF Change, WallpaperPainted, PowerOff
<1>2. Boot
  BY <1>1 DEF SettingsNext, settingsVars, ButtonClicked, DisplayClicked, SwatchClicked, PhotoSet,
              LayoutChanged, ZoneTyped, FileSpoiled
<1>3. cur' = Loaded(IF disk THEN file ELSE NoFile)
  BY <1>2 DEF Boot
<1>4. CASE disk
  BY <1>3, <1>4 DEF SettingsInv, FileIsKept
<1>5. CASE ~disk
  BY <1>3, <1>5, NothingLoaded, SameRefl
<1> QED
  BY <1>4, <1>5

(* For any photos, zones, resolutions and any number of changes, saves and *)
(* power cuts: a boot comes up with what was last saved (or was being      *)
(* saved, or the defaults, after a cut), and never with a mixture; and the *)
(* picture painted is the photo chosen, unless its swatch was clicked      *)
(* while it was up.                                                        *)
THEOREM SettingsComeBack == SettingsSpec => []SettingsTypeOK /\ SettingsKept
<1>1. SettingsInv /\ [SettingsNext]_settingsVars
        => [off /\ ~off' =>
              \E k \in IF disk THEN kept ELSE {Defaults} : Same(cur', k)]_settingsVars
  BY BootReturns
<1>2. SettingsInv => SettingsTypeOK
  BY DEF SettingsInv
<1>3. SettingsInv' => PhotoShown'
  BY DEF SettingsInv
<1> QED
  BY <1>1, <1>2, <1>3, SettingsInitInv, SettingsStep, PTL
     DEF SettingsSpec, SettingsKept, SavedReturns

-----------------------------------------------------------------------------
(* The scores of a search *)

LEMMA IndexIs == DOMAIN Index = 1 .. 11 /\ Len(Index) = 11
BY DEF Index

(* f sums what the words of q add to the score of entry i. *)
Sums(f, q, i, n) == f = [k \in 0 .. n |-> IF k = 0 THEN 0 ELSE f[k - 1] + Gain(Tokens[q][k], i)]

LEMMA SumExists ==
    ASSUME NEW q, NEW i, NEW n \in Nat
    PROVE  \E f : Sums(f, q, i, n)
<1> DEFINE Bad == {m \in Nat : ~ \E f : Sums(f, q, i, m)}
<1>1. CASE Bad = {}
  BY <1>1
<1>2. CASE Bad # {}
  <2>1. PICK m \in Bad : \A j \in Bad : m <= j
    <3>1. Bad \in SUBSET Nat
      OBVIOUS
    <3> HIDE DEF Bad
    <3> QED
      BY <1>2, <3>1, LeastOf
  <2>2. m # 0
    <3> DEFINE f == [k \in 0 .. 0 |-> 0]
    <3>1. Sums(f, q, i, 0)
      BY DEF Sums
    <3> HIDE DEF f
    <3> QED
      BY <2>1, <3>1
  <2>3. m \in Nat /\ m - 1 \in Nat /\ m - 1 \notin Bad
    <3>1. m \in Nat /\ m - 1 \in Nat /\ ~ (m <= m - 1)
      BY <2>1, <2>2
    <3> HIDE DEF Bad
    <3> QED
      BY <2>1, <3>1
  <2>4. PICK f : Sums(f, q, i, m - 1)
    BY <2>3
  <2> DEFINE g == [k \in 0 .. m |-> IF k < m THEN f[k] ELSE f[m - 1] + Gain(Tokens[q][m], i)]
  <2>5. \A k \in 0 .. m - 1 : f[k] = IF k = 0 THEN 0 ELSE f[k - 1] + Gain(Tokens[q][k], i)
    BY <2>4 DEF Sums
  <2>6. ASSUME NEW k \in 0 .. m
        PROVE  g[k] = IF k = 0 THEN 0 ELSE g[k - 1] + Gain(Tokens[q][k], i)
    <3>1. CASE k = m
      <4>1. g[k] = f[m - 1] + Gain(Tokens[q][m], i) /\ g[k - 1] = f[m - 1]
        BY <2>2, <2>3, <3>1
      <4> HIDE DEF g
      <4> QED
        BY <2>2, <3>1, <4>1
    <3>2. CASE k # m
      <4>1. k \in 0 .. m - 1 /\ g[k] = f[k] /\ (k # 0 => g[k - 1] = f[k - 1])
        BY <2>3, <3>2
      <4> HIDE DEF g
      <4> QED
        BY <2>5, <4>1
    <3> QED
      BY <3>1, <3>2
  <2>7. g = [k \in 0 .. m |-> g[k]]
    OBVIOUS
  <2> HIDE DEF g
  <2>8. Sums(g, q, i, m)
    BY <2>6, <2>7 DEF Sums
  <2> QED
    BY <2>1, <2>8
<1> QED
  BY <1>1, <1>2

LEMMA SumNat ==
    ASSUME NEW q, NEW i, NEW n \in Nat, NEW f, Sums(f, q, i, n)
    PROVE  f[n] \in Nat
<1> DEFINE Bad == {k \in 0 .. n : f[k] \notin Nat}
<1>1. \A k \in 0 .. n : f[k] = IF k = 0 THEN 0 ELSE f[k - 1] + Gain(Tokens[q][k], i)
  BY DEF Sums
<1>2. \A w : Gain(w, i) \in Nat
  BY DEF Gain
<1>3. ASSUME Bad # {} PROVE FALSE
  <2>1. PICK m \in Bad : \A j \in Bad : m <= j
    <3>1. Bad \in SUBSET Nat
      OBVIOUS
    <3> HIDE DEF Bad
    <3> QED
      BY <1>3, <3>1, LeastOf
  <2>2. m \in 0 .. n /\ f[m] \notin Nat
    OBVIOUS
  <2>3. m # 0
    BY <1>1, <2>2
  <2>4. m - 1 \in 0 .. n /\ ~ (m <= m - 1)
    BY <2>2, <2>3
  <2>5. f[m - 1] \in Nat
    BY <2>1, <2>4
  <2> QED
    BY <1>1, <1>2, <2>2, <2>3, <2>5
<1> QED
  BY <1>3

LEMMA ScoreNat ==
    ASSUME BrowserAssumption, NEW q \in Searches \cup Examples
    PROVE  Score(q) \in [1 .. 11 -> Nat]
<1> DEFINE n == Len(Tokens[q])
           sum(i) == CHOOSE f : f = [k \in 0 .. n |-> IF k = 0 THEN 0 ELSE f[k - 1] + Gain(Tokens[q][k], i)]
<1>1. n \in Nat
  BY DEF BrowserAssumption
<1>2. ASSUME NEW i \in 1 .. 11 PROVE sum(i)[n] \in Nat
  <2>1. Sums(sum(i), q, i, n)
    <3> HIDE DEF n
    <3>1. \E f : Sums(f, q, i, n)
      BY <1>1, SumExists
    <3> QED
      BY <3>1, Zenon DEF Sums
  <2> HIDE DEF sum, n
  <2> QED
    BY <1>1, <2>1, SumNat
<1>3. Score(q) = [i \in DOMAIN Index |-> sum(i)[n]]
  BY DEF Score
<1> HIDE DEF sum, n
<1> QED
  BY <1>2, <1>3, IndexIs

-----------------------------------------------------------------------------
(* The order of the results *)

(* Entry a is shown before entry b. *)
Ahead(score, a, b) == score[b] < score[a] \/ (score[a] = score[b] /\ a < b)

Places == 1 .. 11
Unpicked(s) == {e \in Places : \A k \in DOMAIN s : s[k] # e}

LEMMA BestIs ==
    ASSUME NEW score, NEW s
    PROVE  Best(score, s) = {i \in Unpicked(s) : score[i] > 0 /\
                               \A j \in Unpicked(s) : score[j] < score[i] \/ (score[j] = score[i] /\ i <= j)}
BY IndexIs DEF Best, Unpicked, Places

(* While an entry that scores is left, there is a next one to pick. *)
LEMMA BestLeft ==
    ASSUME NEW score \in [1 .. 11 -> Nat], NEW s, NEW e \in Unpicked(s), score[e] > 0
    PROVE  Best(score, s) # {}
<1> DEFINE U == Unpicked(s)
           M == score[1] + score[2] + score[3] + score[4] + score[5] + score[6] + score[7] + score[8]
                  + score[9] + score[10] + score[11]
           S == {M - score[i] : i \in U}
<1>1. U \subseteq 1 .. 11
  BY DEF Unpicked, Places
<1>2. M \in Nat /\ \A i \in 1 .. 11 : score[i] \in Nat /\ M - score[i] \in Nat
  <2>1. /\ score[1] \in Nat /\ score[2] \in Nat /\ score[3] \in Nat /\ score[4] \in Nat /\ score[5] \in Nat
        /\ score[6] \in Nat /\ score[7] \in Nat /\ score[8] \in Nat /\ score[9] \in Nat /\ score[10] \in Nat
        /\ score[11] \in Nat
    OBVIOUS
  <2>2. M \in Nat /\ /\ score[1] <= M /\ score[2] <= M /\ score[3] <= M /\ score[4] <= M
                     /\ score[5] <= M /\ score[6] <= M /\ score[7] <= M /\ score[8] <= M
                     /\ score[9] <= M /\ score[10] <= M /\ score[11] <= M
    BY <2>1
  <2> HIDE DEF M
  <2>3. \A i \in 1 .. 11 : score[i] \in Nat /\ score[i] <= M
    <3>1. 1 .. 11 = {1, 2, 3, 4, 5, 6, 7, 8, 9, 10, 11}
      OBVIOUS
    <3> QED
      BY <2>1, <2>2, <3>1
  <2> QED
    BY <2>2, <2>3
<1> HIDE DEF M, U
<1>3. PICK v \in S : \A x \in S : v <= x
  <2>1. S \in SUBSET Nat
    BY <1>1, <1>2
  <2>2. S # {}
    BY DEF U
  <2> HIDE DEF S
  <2> QED
    BY <2>1, <2>2, LeastOf
<1> DEFINE T == {i \in U : M - score[i] = v}
<1>4. PICK i \in T : \A j \in T : i <= j
  <2>1. T \in SUBSET Nat
    <3>1. U \subseteq Nat
      BY <1>1
    <3>2. T \subseteq U
      OBVIOUS
    <3> QED
      BY <3>1, <3>2
  <2>2. PICK j \in U : v = M - score[j]
    OBVIOUS
  <2>3. T # {}
    BY <2>2
  <2> HIDE DEF T
  <2> QED
    BY <2>1, <2>3, LeastOf
<1>5. i \in U /\ i \in 1 .. 11 /\ score[i] \in Nat /\ M - score[i] = v
  BY <1>1, <1>2, <1>4
<1>6. ASSUME NEW j \in U PROVE score[j] < score[i] \/ (score[j] = score[i] /\ i <= j)
  <2>1. v <= M - score[j] /\ score[j] \in Nat
    BY <1>1, <1>2, <1>3
  <2>2. CASE M - score[j] = v
    <3>1. score[j] = score[i]
      BY <1>2, <1>5, <2>1, <2>2
    <3>2. i <= j
      BY <1>4, <2>2
    <3> QED
      BY <3>1, <3>2
  <2>3. CASE M - score[j] # v
    BY <1>2, <1>5, <2>1, <2>3
  <2> QED
    BY <2>2, <2>3
<1>7. score[i] > 0
  <2>1. e \in U /\ score[e] \in Nat
    BY <1>1, <1>2 DEF U
  <2> QED
    BY <1>5, <1>6, <2>1
<1>8. i \in Best(score, s)
  BY <1>5, <1>6, <1>7, BestIs DEF U
<1> QED
  BY <1>8

(* One round of the loop of render_search *)
Extended(score, s) ==
    LET best == Best(score, s)
    IN  IF best = {} THEN s ELSE Append(s, CHOOSE i \in best : TRUE)

(* s is what n rounds have picked. *)
Ranked(score, s, n) ==
    /\ s \in Seq(Places) /\ Len(s) <= n
    /\ \A i, j \in 1 .. Len(s) : i < j => Ahead(score, s[i], s[j])
    /\ \A i \in 1 .. Len(s) : score[s[i]] > 0
    /\ \A e \in Unpicked(s) : score[e] > 0 => Len(s) = n /\ \A i \in 1 .. Len(s) : Ahead(score, s[i], e)

LEMMA ExtendedRanked ==
    ASSUME NEW score \in [1 .. 11 -> Nat], NEW s, NEW n \in Nat, Ranked(score, s, n)
    PROVE  Ranked(score, Extended(score, s), n + 1)
<1>1. s \in Seq(Places) /\ Len(s) \in Nat /\ Len(s) <= n /\ DOMAIN s = 1 .. Len(s)
  BY DEF Ranked
<1>2. CASE Best(score, s) = {}
  <2>1. Extended(score, s) = s
    BY <1>2 DEF Extended
  <2>2. \A e \in Unpicked(s) : ~ (score[e] > 0)
    BY <1>2, BestLeft
  <2>3. Len(s) <= n + 1
    BY <1>1
  <2> QED
    BY <2>1, <2>2, <2>3 DEF Ranked
<1>3. CASE Best(score, s) # {}
  <2> DEFINE b == CHOOSE i \in Best(score, s) : TRUE
             t == Append(s, b)
  <2>1. Extended(score, s) = t
    BY <1>3 DEF Extended
  <2>2. b \in Best(score, s)
    BY <1>3
  <2> HIDE DEF b
  <2>3. /\ b \in Unpicked(s) /\ score[b] > 0 /\ b \in Places /\ b \in Int
        /\ \A j \in Unpicked(s) : score[j] < score[b] \/ (score[j] = score[b] /\ b <= j)
    BY <2>2, BestIs DEF Unpicked, Places
  <2>4. Len(s) = n /\ \A i \in 1 .. Len(s) : Ahead(score, s[i], b)
    BY <2>3 DEF Ranked
  <2>5. /\ t \in Seq(Places) /\ Len(t) = n + 1 /\ t[n + 1] = b
        /\ \A i \in 1 .. n : t[i] = s[i]
    <3>1. /\ t \in Seq(Places) /\ Len(t) = Len(s) + 1 /\ t[Len(s) + 1] = b
          /\ \A i \in 1 .. Len(s) : t[i] = s[i]
      BY <1>1, <2>3, AppendProperties
    <3> HIDE DEF t
    <3> QED
      BY <2>4, <3>1
  <2> HIDE DEF t
  <2> DEFINE l == Len(t)
  <2>10. l = n + 1 /\ DOMAIN t = 1 .. l
    BY <2>5
  <2> HIDE DEF l
  <2>6. \A i, j \in 1 .. n : i < j => Ahead(score, s[i], s[j])
    BY <2>4 DEF Ranked
  <2>7. \A i, j \in 1 .. Len(t) : i < j => Ahead(score, t[i], t[j])
    <3> SUFFICES ASSUME NEW i \in 1 .. Len(t), NEW j \in 1 .. Len(t), i < j
                 PROVE  Ahead(score, t[i], t[j])
      OBVIOUS
    <3>4. i \in 1 .. l /\ j \in 1 .. l
      BY DEF l
    <3>5. i \in 1 .. n
      BY <2>10, <3>4
    <3>1. i \in 1 .. n /\ t[i] = s[i]
      BY <2>5, <3>5
    <3>2. CASE j = n + 1
      BY <2>4, <2>5, <3>1, <3>2
    <3>3. CASE j # n + 1
      <4>2. j \in 1 .. n
        BY <2>10, <3>3, <3>4
      <4>1. j \in 1 .. n /\ t[j] = s[j]
        BY <2>5, <4>2
      <4> QED
        BY <2>6, <3>1, <4>1
    <3> QED
      BY <3>2, <3>3
  <2>8. \A i \in 1 .. Len(t) : score[t[i]] > 0
    <3> SUFFICES ASSUME NEW i \in 1 .. Len(t) PROVE score[t[i]] > 0
      OBVIOUS
    <3>1. CASE i = n + 1
      BY <2>3, <2>5, <3>1
    <3>2. CASE i # n + 1
      <4>2. i \in 1 .. l
        BY DEF l
      <4>3. i \in 1 .. n
        BY <2>10, <3>2, <4>2
      <4>1. i \in 1 .. n /\ t[i] = s[i]
        BY <2>5, <4>3
      <4> QED
        BY <2>4, <4>1 DEF Ranked
    <3> QED
      BY <3>1, <3>2
  <2>9. ASSUME NEW e \in Unpicked(t), score[e] > 0
        PROVE  \A i \in 1 .. Len(t) : Ahead(score, t[i], e)
    <3>1. e \in Places /\ e \in Int /\ \A k \in 1 .. n + 1 : t[k] # e
      <4>1. e \in Places /\ \A k \in 1 .. l : t[k] # e
        BY <2>10 DEF Unpicked
      <4>2. e \in Int
        BY <4>1 DEF Places
      <4> QED
        BY <2>10, <4>1, <4>2
    <3>2. e \in Unpicked(s) /\ e # b
      <4>1. DOMAIN s = 1 .. n /\ n + 1 \in 1 .. n + 1 /\ \A k \in 1 .. n : k \in 1 .. n + 1
        BY <1>1, <2>4
      <4> QED
        BY <2>5, <3>1, <4>1 DEF Unpicked
    <3>3. \A i \in 1 .. n : Ahead(score, s[i], e)
      BY <2>4, <2>9, <3>2 DEF Ranked
    <3>4. Ahead(score, b, e)
      BY <2>3, <3>1, <3>2 DEF Ahead
    <3> SUFFICES ASSUME NEW i \in 1 .. Len(t) PROVE Ahead(score, t[i], e)
      OBVIOUS
    <3>5. CASE i = n + 1
      BY <2>5, <3>4, <3>5
    <3>6. CASE i # n + 1
      <4>2. i \in 1 .. l
        BY DEF l
      <4>3. i \in 1 .. n
        BY <2>10, <3>6, <4>2
      <4>1. i \in 1 .. n /\ t[i] = s[i]
        BY <2>5, <4>3
      <4> QED
        BY <3>3, <4>1
    <3> QED
      BY <3>5, <3>6
  <2> QED
    BY <2>1, <2>5, <2>7, <2>8, <2>9 DEF Ranked
<1> QED
  BY <1>2, <1>3

(* f is what the rounds up to the n-th pick. *)
Rounds(f, score, n) == f = [k \in 0 .. n |-> IF k = 0 THEN << >> ELSE Extended(score, f[k - 1])]

LEMMA RoundsExist ==
    ASSUME NEW score, NEW n \in Nat
    PROVE  \E f : Rounds(f, score, n)
<1> DEFINE Bad == {m \in Nat : ~ \E f : Rounds(f, score, m)}
<1>1. CASE Bad = {}
  BY <1>1
<1>2. CASE Bad # {}
  <2>1. PICK m \in Bad : \A j \in Bad : m <= j
    <3>1. Bad \in SUBSET Nat
      OBVIOUS
    <3> HIDE DEF Bad
    <3> QED
      BY <1>2, <3>1, LeastOf
  <2>2. m # 0
    <3> DEFINE f == [k \in 0 .. 0 |-> << >>]
    <3>1. Rounds(f, score, 0)
      BY DEF Rounds
    <3> HIDE DEF f
    <3> QED
      BY <2>1, <3>1
  <2>3. m \in Nat /\ m - 1 \in Nat /\ m - 1 \notin Bad
    <3>1. m \in Nat /\ m - 1 \in Nat /\ ~ (m <= m - 1)
      BY <2>1, <2>2
    <3> HIDE DEF Bad
    <3> QED
      BY <2>1, <3>1
  <2>4. PICK f : Rounds(f, score, m - 1)
    BY <2>3
  <2> DEFINE g == [k \in 0 .. m |-> IF k < m THEN f[k] ELSE Extended(score, f[m - 1])]
  <2>5. \A k \in 0 .. m - 1 : f[k] = IF k = 0 THEN << >> ELSE Extended(score, f[k - 1])
    BY <2>4 DEF Rounds
  <2>6. ASSUME NEW k \in 0 .. m
        PROVE  g[k] = IF k = 0 THEN << >> ELSE Extended(score, g[k - 1])
    <3>1. CASE k = m
      <4>1. g[k] = Extended(score, f[m - 1]) /\ g[k - 1] = f[m - 1]
        BY <2>2, <2>3, <3>1
      <4> HIDE DEF g
      <4> QED
        BY <2>2, <3>1, <4>1
    <3>2. CASE k # m
      <4>1. k \in 0 .. m - 1 /\ g[k] = f[k] /\ (k # 0 => g[k - 1] = f[k - 1])
        BY <2>3, <3>2
      <4> HIDE DEF g
      <4> QED
        BY <2>5, <4>1
    <3> QED
      BY <3>1, <3>2
  <2>7. g = [k \in 0 .. m |-> g[k]]
    OBVIOUS
  <2> HIDE DEF g
  <2>8. Rounds(g, score, m)
    BY <2>6, <2>7 DEF Rounds
  <2> QED
    BY <2>1, <2>8
<1> QED
  BY <1>1, <1>2

LEMMA RoundsRank ==
    ASSUME NEW score \in [1 .. 11 -> Nat], NEW n \in Nat, NEW f, Rounds(f, score, n)
    PROVE  Ranked(score, f[n], n)
<1> DEFINE Bad == {k \in 0 .. n : ~ Ranked(score, f[k], k)}
<1>1. \A k \in 0 .. n : f[k] = IF k = 0 THEN << >> ELSE Extended(score, f[k - 1])
  BY DEF Rounds
<1>2. Ranked(score, << >>, 0)
  <2>1. << >> \in Seq(Places) /\ Len(<< >>) = 0 /\ \A i \in 1 .. 0 : FALSE
    OBVIOUS
  <2> QED
    BY <2>1 DEF Ranked
<1>3. ASSUME Bad # {} PROVE FALSE
  <2>1. PICK m \in Bad : \A j \in Bad : m <= j
    <3>1. Bad \in SUBSET Nat
      OBVIOUS
    <3> HIDE DEF Bad
    <3> QED
      BY <1>3, <3>1, LeastOf
  <2>2. m \in 0 .. n /\ ~ Ranked(score, f[m], m)
    OBVIOUS
  <2>3. m # 0
    BY <1>1, <1>2, <2>2
  <2>4. m - 1 \in 0 .. n /\ ~ (m <= m - 1) /\ (m - 1) + 1 = m /\ m - 1 \in Nat
    BY <2>2, <2>3
  <2>5. Ranked(score, f[m - 1], m - 1)
    BY <2>1, <2>4
  <2>6. Ranked(score, Extended(score, f[m - 1]), (m - 1) + 1)
    BY <2>4, <2>5, ExtendedRanked
  <2> QED
    BY <1>1, <2>2, <2>3, <2>4, <2>6
<1> QED
  BY <1>3

LEMMA PicksRanked ==
    ASSUME BrowserAssumption, NEW q \in Searches \cup Examples
    PROVE  Ranked(Score(q), Picks(q), Results)
<1> DEFINE score == Score(q)
           f == CHOOSE g : g = [k \in 0 .. Results |->
                                  IF k = 0 THEN << >>
                                  ELSE LET best == Best(Score(q), g[k - 1])
                                       IN  IF best = {} THEN g[k - 1]
                                           ELSE Append(g[k - 1], CHOOSE i \in best : TRUE)]
<1>1. Results \in Nat
  BY DEF BrowserAssumption
<1>2. Rounds(f, score, Results)
  <2>1. \E g : Rounds(g, score, Results)
    <3> HIDE DEF score
    <3> QED
      BY <1>1, RoundsExist
  <2> QED
    BY <2>1, Zenon DEF Rounds, Extended
<1>3. Picks(q) = f[Results]
  BY DEF Picks
<1>4. score \in [1 .. 11 -> Nat]
  BY ScoreNat
<1> HIDE DEF f, score
<1>5. Ranked(score, f[Results], Results)
  BY <1>1, <1>2, <1>4, RoundsRank
<1> QED
  BY <1>3, <1>5 DEF score

-----------------------------------------------------------------------------
(* The pages *)

(* The addresses whose page the program makes *)
Own == DOMAIN Internal \cup Docs \cup Searches \cup Examples

OwnKinds == {"home", "about", "google", "fos", "docs", "doc", "search"}

(* r is what the browser shows of u. *)
Sound(r, u) ==
    /\ r.url \in Addresses /\ r.page.links \subseteq Addresses
    /\ r.page.kind \in OwnKinds => r.page.links \subseteq Own \cup RealSites
    /\ r.page.kind = "search" =>
          r.url \in Searches \cup Examples /\ r.page.results = Picks(r.url)
    /\ u \in Own => r.page.kind \in OwnKinds

LEMMA SearchSound ==
    ASSUME BrowserAssumption, NEW q \in Searches \cup Examples
    PROVE  /\ RenderSearch(q).links \subseteq Own /\ RenderSearch(q).kind = "search"
           /\ RenderSearch(q).results = Picks(q)
<1> DEFINE r == Picks(q)
<1>1. Ranked(Score(q), r, Results)
  BY PicksRanked
<1>2. \A k \in DOMAIN r : r[k] \in 1 .. 11
  BY <1>1 DEF Ranked, Places
<1>3. \A i \in 1 .. 11 : Index[i] \in Own
  <2>1. 1 .. 11 = {1, 2, 3, 4, 5, 6, 7, 8, 9, 10, 11}
    OBVIOUS
  <2>2. /\ Index[1] = "fos.local" /\ Index[2] = "docs.local/kernel" /\ Index[3] = "docs.local/mouse"
        /\ Index[4] = "docs.local/fb" /\ Index[5] = "docs.local/multiboot2"
        /\ Index[6] = "docs.local/scripts" /\ Index[7] = "docs.local/terminal"
        /\ Index[8] = "docs.local/wm" /\ Index[9] = "docs.local/network"
        /\ Index[10] = "about:browser" /\ Index[11] = "docs.local/http"
    BY DEF Index
  <2>3. {"fos.local", "about:browser"} \subseteq DOMAIN Internal
    BY DEF Internal
  <2> QED
    BY <2>1, <2>2, <2>3 DEF Own, Docs
<1>4. Home \in Own
  BY DEF Own, Internal
<1>5. RenderSearch(q) = [kind |-> "search", results |-> r,
                         links |-> IF r = << >> THEN {Home} ELSE {Index[r[k]] : k \in DOMAIN r}]
  BY DEF RenderSearch
<1> HIDE DEF r
<1> QED
  BY <1>2, <1>3, <1>4, <1>5 DEF r

LEMMA InternalSound ==
    ASSUME NEW u \in DOMAIN Internal
    PROVE  Internal[u].kind \in OwnKinds \ {"search"} /\ Internal[u].links \subseteq Own \cup RealSites
<1>1. DOMAIN Internal = {Home, "about:browser", "google.com", "fos.local", "docs.local"}
  BY DEF Internal
<1>2. Internal[u] = CASE u = Home -> RenderHome
                      [] u = "about:browser" -> RenderAbout
                      [] u = "google.com" -> RenderGoogle
                      [] u = "fos.local" -> RenderFosLocal
                      [] u = "docs.local" -> RenderDocsIndex
  BY <1>1 DEF Internal
<1>3. {Home, "about:browser", "google.com", "fos.local", "docs.local"} \cup Docs \cup Examples \subseteq Own
  BY <1>1 DEF Own
<1>4. {"docs.local/http", "docs.local/network"} \subseteq Docs
  BY DEF Docs
<1>5. CASE u = Home
  BY <1>2, <1>3, <1>4, <1>5 DEF RenderHome, Page, OwnKinds, Home
<1>6. CASE u = "about:browser"
  BY <1>2, <1>3, <1>6 DEF RenderAbout, Page, OwnKinds, Home
<1>7. CASE u = "google.com"
  BY <1>2, <1>3, <1>7 DEF RenderGoogle, Page, OwnKinds, Home
<1>8. CASE u = "fos.local"
  BY <1>2, <1>3, <1>4, <1>8 DEF RenderFosLocal, Page, OwnKinds, Home
<1>9. CASE u = "docs.local"
  BY <1>2, <1>3, <1>9 DEF RenderDocsIndex, Page, OwnKinds, Home
<1> QED
  BY <1>1, <1>5, <1>6, <1>7, <1>8, <1>9

LEMMA RenderedSound ==
    ASSUME BrowserAssumption, NEW u \in Addresses, NEW r \in Rendered(u)
    PROVE  Sound(r, u)
<1>1. Own \cup RealSites \cup Sites \subseteq Addresses /\ Home \in Own /\ "docs.local" \in Own
  BY DEF Own, Addresses, Internal
<1>2. CASE u \in DOMAIN Internal
  <2>1. r = [url |-> u, page |-> Internal[u]]
    BY <1>2 DEF Rendered
  <2> QED
    BY <1>1, <2>1, <1>2, InternalSound DEF Sound, OwnKinds
<1>3. CASE u \notin DOMAIN Internal /\ u \in Docs
  <2>1. r = [url |-> u, page |-> RenderDoc]
    BY <1>3 DEF Rendered
  <2>2. RenderDoc.kind = "doc" /\ RenderDoc.links = {"docs.local"}
    BY DEF RenderDoc, Page
  <2> QED
    BY <1>1, <2>1, <2>2 DEF Sound, OwnKinds
<1>4. CASE u \notin DOMAIN Internal /\ u \notin Docs /\ u \in Searches \cup Examples
  <2>1. r = [url |-> u, page |-> RenderSearch(u)]
    BY <1>4 DEF Rendered
  <2> QED
    BY <1>1, <1>4, <2>1, SearchSound DEF Sound, OwnKinds
<1>5. CASE u \notin Own
  <2>1. r.page.kind \in {"no network", "https", "failed", "real"}
        /\ r.page.links \in {{Home}, RealSites \cup {Home}, {}, Sites} /\ r.url \in Sites \cup {u}
    <3>1. CASE ~netReady
      <4>1. r = [url |-> u, page |-> Page("no network", {Home})]
        BY <1>5, <3>1 DEF Rendered, Own
      <4> QED
        BY <4>1 DEF Page
    <3>2. CASE netReady
      <4>1. r \in RenderRealPage(u)
        BY <1>5, <3>2 DEF Rendered, Own
      <4>2. PICK v \in Sites \cup {u}, p \in {Page("https", RealSites \cup {Home}), Page("failed", {})}
                                              \cup {Page("real", l) : l \in {{}, Sites}} :
              r = [url |-> v, page |-> p]
        BY <4>1 DEF RenderRealPage
      <4>3. p \in {Page("https", RealSites \cup {Home}), Page("failed", {}), Page("real", {}), Page("real", Sites)}
        BY <4>2
      <4>4. r.page = p /\ r.url = v
        BY <4>2
      <4>5. CASE p = Page("https", RealSites \cup {Home})
        BY <4>4, <4>5 DEF Page
      <4>6. CASE p = Page("failed", {})
        BY <4>4, <4>6 DEF Page
      <4>7. CASE p = Page("real", {})
        BY <4>4, <4>7 DEF Page
      <4>8. CASE p = Page("real", Sites)
        BY <4>4, <4>8 DEF Page
      <4> QED
        BY <4>3, <4>5, <4>6, <4>7, <4>8
    <3> QED
      BY <3>1, <3>2
  <2> QED
    BY <1>1, <1>5, <2>1 DEF Sound, OwnKinds
<1> QED
  BY <1>2, <1>3, <1>4, <1>5 DEF Own

-----------------------------------------------------------------------------
(* The history *)

(* The history h, at its n-th entry, is the end of the path p, and what    *)
(* follows is what has been gone back from, a.  What is not in it any more *)
(* filled it.                                                              *)
Way(h, n, p, a) ==
    /\ h \in Seq(Addresses) /\ p \in Seq(Addresses) /\ a \in Seq(Addresses)
    /\ n \in Int /\ 1 <= n /\ n <= Len(h) /\ Len(h) <= HistSize
    /\ n <= Len(p) /\ (n = Len(p) \/ HistSize <= Len(p) - n)
    /\ \A k \in 1 .. n : h[k] = p[Len(p) - n + k]
    /\ Len(a) = Len(h) - n
    /\ \A k \in 1 .. Len(a) : a[k] = h[n + k]

LEMMA WayBack ==
    ASSUME NEW h, NEW n, NEW p, NEW a, Way(h, n, p, a), n > 1, BrowserAssumption
    PROVE  Way(h, n - 1, SubSeq(p, 1, Len(p) - 1), <<p[Len(p)]>> \o a)
<1> DEFINE q == SubSeq(p, 1, Len(p) - 1)
           u == p[Len(p)]
           b == <<u>> \o a
<1>1. /\ h \in Seq(Addresses) /\ p \in Seq(Addresses) /\ a \in Seq(Addresses)
      /\ n \in Int /\ n <= Len(h) /\ Len(h) <= HistSize
      /\ n <= Len(p) /\ (n = Len(p) \/ HistSize <= Len(p) - n)
      /\ \A k \in 1 .. n : h[k] = p[Len(p) - n + k]
      /\ Len(a) = Len(h) - n
      /\ \A k \in 1 .. Len(a) : a[k] = h[n + k]
  BY DEF Way
<1>2. Len(p) \in Nat /\ Len(h) \in Nat /\ Len(a) \in Nat /\ HistSize \in Nat
  BY <1>1 DEF BrowserAssumption
<1>3. q \in Seq(Addresses) /\ Len(q) = Len(p) - 1 /\ \A k \in 1 .. Len(p) - 1 : q[k] = p[k]
  BY <1>1, <1>2, SubSeqProperties
<1>4. u = h[n] /\ u \in Addresses
  BY <1>1, <1>2
<1>5. /\ b \in Seq(Addresses) /\ Len(b) = Len(a) + 1 /\ b[1] = u
      /\ \A k \in 2 .. Len(a) + 1 : b[k] = a[k - 1]
  <2> HIDE DEF u
  <2>1. <<u>> \in Seq(Addresses) /\ Len(<<u>>) = 1 /\ <<u>>[1] = u
    BY <1>4
  <2> DEFINE w == <<u>>
  <2>2. w \in Seq(Addresses) /\ Len(w) = 1 /\ w[1] = u
    BY <2>1
  <2> HIDE DEF w
  <2>3. /\ w \o a \in Seq(Addresses) /\ Len(w \o a) = 1 + Len(a)
        /\ \A k \in 1 .. 1 + Len(a) : (w \o a)[k] = IF k <= 1 THEN w[k] ELSE a[k - 1]
    <3>1. Len(w) = 1 /\ w \in Seq(Addresses) /\ a \in Seq(Addresses)
      BY <1>1, <2>2
    <3>2. /\ w \o a \in Seq(Addresses) /\ Len(w \o a) = Len(w) + Len(a)
          /\ \A k \in 1 .. Len(w) + Len(a) : (w \o a)[k] = IF k <= Len(w) THEN w[k] ELSE a[k - Len(w)]
      BY ONLY <3>1, ConcatProperties, Zenon
    <3> QED
      BY ONLY <3>1, <3>2, Zenon
  <2> DEFINE c == w \o a
  <2>4. b = c
    BY DEF w
  <2> HIDE DEF b, c
  <2>5. /\ c \in Seq(Addresses) /\ Len(c) = 1 + Len(a)
        /\ \A k \in 1 .. 1 + Len(a) : c[k] = IF k <= 1 THEN w[k] ELSE a[k - 1]
    BY <2>3 DEF c
  <2> QED
    BY <1>2, <2>2, <2>4, <2>5
<1> HIDE DEF q, u, b
<1>6. \A k \in 1 .. n - 1 : h[k] = q[Len(q) - (n - 1) + k]
  <2> SUFFICES ASSUME NEW k \in 1 .. n - 1 PROVE h[k] = q[Len(q) - (n - 1) + k]
    OBVIOUS
  <2>1. Len(q) - (n - 1) + k = Len(p) - n + k
    BY <1>1, <1>2, <1>3
  <2>2. Len(p) - n + k \in 1 .. Len(p) - 1 /\ k \in 1 .. n
    BY <1>1, <1>2
  <2> QED
    BY <1>1, <1>3, <2>1, <2>2
<1>7. \A k \in 1 .. Len(b) : b[k] = h[(n - 1) + k]
  <2> SUFFICES ASSUME NEW k \in 1 .. Len(b) PROVE b[k] = h[(n - 1) + k]
    OBVIOUS
  <2>1. k \in Int /\ 1 <= k /\ k <= Len(a) + 1
    BY <1>5
  <2>2. CASE k = 1
    <3>1. (n - 1) + k = n
      BY <1>1, <2>2
    <3> QED
      BY <1>4, <1>5, <2>2, <3>1
  <2>3. CASE k # 1
    <3>1. k - 1 \in 1 .. Len(a) /\ k \in 2 .. Len(a) + 1 /\ n + (k - 1) = (n - 1) + k
      BY <1>1, <1>2, <2>1, <2>3
    <3> QED
      BY <1>1, <1>5, <3>1
  <2> QED
    BY <2>2, <2>3
<1>8. /\ n - 1 \in Int /\ 1 <= n - 1 /\ n - 1 <= Len(h) /\ n - 1 <= Len(q)
      /\ (n - 1 = Len(q) \/ HistSize <= Len(q) - (n - 1)) /\ Len(b) = Len(h) - (n - 1)
  BY <1>1, <1>2, <1>3, <1>5
<1> QED
  BY <1>1, <1>3, <1>5, <1>6, <1>7, <1>8 DEF Way, q, b, u

LEMMA WayForward ==
    ASSUME NEW h, NEW n, NEW p, NEW a, Way(h, n, p, a), n < Len(h), BrowserAssumption
    PROVE  Way(h, n + 1, Append(p, Head(a)), Tail(a))
<1> DEFINE q == Append(p, Head(a))
           b == Tail(a)
<1>1. /\ h \in Seq(Addresses) /\ p \in Seq(Addresses) /\ a \in Seq(Addresses)
      /\ n \in Int /\ 1 <= n /\ Len(h) <= HistSize
      /\ n <= Len(p) /\ (n = Len(p) \/ HistSize <= Len(p) - n)
      /\ \A k \in 1 .. n : h[k] = p[Len(p) - n + k]
      /\ Len(a) = Len(h) - n
      /\ \A k \in 1 .. Len(a) : a[k] = h[n + k]
  BY DEF Way
<1>2. Len(p) \in Nat /\ Len(h) \in Nat /\ Len(a) \in Nat /\ HistSize \in Nat
  BY <1>1 DEF BrowserAssumption
<1>3. Head(a) = a[1] /\ Head(a) \in Addresses /\ a[1] = h[n + 1] /\ a # << >>
  BY <1>1, <1>2
<1>4. /\ q \in Seq(Addresses) /\ Len(q) = Len(p) + 1 /\ q[Len(p) + 1] = Head(a)
      /\ \A k \in 1 .. Len(p) : q[k] = p[k]
  BY <1>1, <1>3, AppendProperties
<1>5. b \in Seq(Addresses) /\ Len(b) = Len(a) - 1 /\ \A k \in 1 .. Len(a) - 1 : b[k] = a[k + 1]
  BY <1>1, <1>3, HeadTailProperties
<1> HIDE DEF q, b
<1>6. \A k \in 1 .. n + 1 : h[k] = q[Len(q) - (n + 1) + k]
  <2> SUFFICES ASSUME NEW k \in 1 .. n + 1 PROVE h[k] = q[Len(q) - (n + 1) + k]
    OBVIOUS
  <2>1. Len(q) - (n + 1) + k = Len(p) - n + k
    BY <1>1, <1>2, <1>4
  <2>2. CASE k = n + 1
    <3>1. Len(p) - n + k = Len(p) + 1
      BY <1>1, <1>2, <2>2
    <3> QED
      BY <1>3, <1>4, <2>1, <2>2, <3>1
  <2>3. CASE k # n + 1
    <3>1. Len(p) - n + k \in 1 .. Len(p) /\ k \in 1 .. n
      BY <1>1, <1>2, <2>3
    <3> QED
      BY <1>1, <1>4, <2>1, <3>1
  <2> QED
    BY <2>2, <2>3
<1>7. \A k \in 1 .. Len(b) : b[k] = h[(n + 1) + k]
  <2> SUFFICES ASSUME NEW k \in 1 .. Len(b) PROVE b[k] = h[(n + 1) + k]
    OBVIOUS
  <2>1. k \in 1 .. Len(a) - 1 /\ k + 1 \in 1 .. Len(a) /\ n + (k + 1) = (n + 1) + k
    BY <1>1, <1>2, <1>5
  <2> QED
    BY <1>1, <1>5, <2>1
<1>8. /\ n + 1 \in Int /\ 1 <= n + 1 /\ n + 1 <= Len(h) /\ n + 1 <= Len(q)
      /\ (n + 1 = Len(q) \/ HistSize <= Len(q) - (n + 1)) /\ Len(b) = Len(h) - (n + 1)
  BY <1>1, <1>2, <1>4, <1>5
<1> QED
  BY <1>1, <1>4, <1>5, <1>6, <1>7, <1>8 DEF Way, q, b

(* From the last entry the whole history is given up, and the path is then *)
(* longer than it by what filled it.                                       *)
LEMMA WayPush ==
    ASSUME NEW h, NEW n, NEW p, NEW a, NEW u \in Addresses, Way(h, n, p, a), BrowserAssumption
    PROVE  /\ n < HistSize => Way(Append(SubSeq(h, 1, n), u), n + 1, Append(p, u), << >>)
           /\ ~ (n < HistSize) => Way(<<u>>, 1, Append(p, u), << >>)
<1> DEFINE q == Append(p, u)
           g == SubSeq(h, 1, n)
           v == Append(g, u)
<1>1. /\ h \in Seq(Addresses) /\ p \in Seq(Addresses)
      /\ n \in Int /\ 1 <= n /\ n <= Len(h) /\ Len(h) <= HistSize
      /\ n <= Len(p) /\ (n = Len(p) \/ HistSize <= Len(p) - n)
      /\ \A k \in 1 .. n : h[k] = p[Len(p) - n + k]
  BY DEF Way
<1>2. Len(p) \in Nat /\ Len(h) \in Nat /\ HistSize \in Nat /\ 1 <= HistSize
  BY <1>1 DEF BrowserAssumption
<1>3. /\ q \in Seq(Addresses) /\ Len(q) = Len(p) + 1 /\ q[Len(p) + 1] = u
      /\ \A k \in 1 .. Len(p) : q[k] = p[k]
  BY <1>1, AppendProperties
<1>4. g \in Seq(Addresses) /\ Len(g) = n /\ \A k \in 1 .. n : g[k] = h[k]
  BY <1>1, <1>2, SubSeqProperties
<1> HIDE DEF q, g
<1>5. v \in Seq(Addresses) /\ Len(v) = n + 1 /\ v[n + 1] = u /\ \A k \in 1 .. n : v[k] = g[k]
  BY <1>4, AppendProperties
<1>6. << >> \in Seq(Addresses) /\ Len(<< >>) = 0 /\ \A k \in 1 .. 0 : FALSE
  OBVIOUS
<1> HIDE DEF v
<1>7. ASSUME n < HistSize PROVE Way(v, n + 1, q, << >>)
  <2>1. \A k \in 1 .. n + 1 : v[k] = q[Len(q) - (n + 1) + k]
    <3> SUFFICES ASSUME NEW k \in 1 .. n + 1 PROVE v[k] = q[Len(q) - (n + 1) + k]
      OBVIOUS
    <3>1. Len(q) - (n + 1) + k = Len(p) - n + k
      BY <1>1, <1>2, <1>3
    <3>2. CASE k = n + 1
      <4>1. Len(p) - n + k = Len(p) + 1
        BY <1>1, <1>2, <3>2
      <4> QED
        BY <1>3, <1>5, <3>1, <3>2, <4>1
    <3>3. CASE k # n + 1
      <4>1. Len(p) - n + k \in 1 .. Len(p) /\ k \in 1 .. n
        BY <1>1, <1>2, <3>3
      <4> QED
        <5>1. v[k] = g[k] /\ g[k] = h[k] /\ h[k] = p[Len(p) - n + k]
          BY <1>1, <1>4, <1>5, <4>1
        <5>2. q[Len(p) - n + k] = p[Len(p) - n + k]
          BY <1>3, <4>1
        <5> QED
          BY <3>1, <5>1, <5>2
    <3> QED
      BY <3>2, <3>3
  <2>2. /\ n + 1 \in Int /\ 1 <= n + 1 /\ n + 1 <= Len(v) /\ Len(v) <= HistSize /\ n + 1 <= Len(q)
        /\ (n + 1 = Len(q) \/ HistSize <= Len(q) - (n + 1)) /\ 0 = Len(v) - (n + 1)
    BY <1>1, <1>2, <1>3, <1>5, <1>7
  <2>3. Len(<< >>) = Len(v) - (n + 1) /\ \A k \in 1 .. Len(<< >>) : << >>[k] = v[(n + 1) + k]
    BY <1>6, <2>2
  <2> QED
    BY <1>3, <1>5, <1>6, <2>1, <2>2, <2>3 DEF Way
<1>8. ASSUME ~ (n < HistSize) PROVE Way(<<u>>, 1, q, << >>)
  <2> DEFINE w == <<u>>
  <2>1. w \in Seq(Addresses) /\ Len(w) = 1 /\ w[1] = u
    OBVIOUS
  <2> HIDE DEF w
  <2>2. n = HistSize /\ HistSize <= Len(p)
    BY <1>1, <1>2, <1>8
  <2>3. /\ 1 <= Len(w) /\ Len(w) <= HistSize /\ 1 <= Len(q) /\ HistSize <= Len(q) - 1 /\ 0 = Len(w) - 1
        /\ Len(q) - 1 + 1 = Len(p) + 1
    BY <1>2, <1>3, <2>1, <2>2
  <2>4. \A k \in 1 .. 1 : w[k] = q[Len(q) - 1 + k]
    BY <1>3, <2>1, <2>3
  <2>5. Len(<< >>) = Len(w) - 1 /\ \A k \in 1 .. Len(<< >>) : << >>[k] = w[1 + k]
    BY <1>6, <2>3
  <2>6. Way(w, 1, q, << >>)
    BY <1>3, <1>6, <2>1, <2>3, <2>4, <2>5 DEF Way
  <2> QED
    BY <2>6 DEF w
<1> QED
  BY <1>7, <1>8 DEF q, v, g

LEMMA WayIsPath ==
    ASSUME Way(hist, pos, path, ahead), BrowserAssumption
    PROVE  HistoryIsPath /\ hist[pos] = path[Len(path)] /\ pos \in DOMAIN hist /\ Len(path) > 0
<1>1. /\ hist \in Seq(Addresses) /\ path \in Seq(Addresses) /\ ahead \in Seq(Addresses)
      /\ pos \in Int /\ 1 <= pos /\ pos <= Len(hist) /\ Len(hist) <= HistSize
      /\ pos <= Len(path) /\ (pos = Len(path) \/ HistSize <= Len(path) - pos)
      /\ \A k \in 1 .. pos : hist[k] = path[Len(path) - pos + k]
      /\ Len(ahead) = Len(hist) - pos
      /\ \A k \in 1 .. Len(ahead) : ahead[k] = hist[pos + k]
  BY DEF Way
<1>2. Len(path) \in Nat /\ Len(hist) \in Nat /\ Len(ahead) \in Nat /\ HistSize \in Nat
  BY <1>1 DEF BrowserAssumption
<1>3. SubSeq(hist, 1, pos) = SubSeq(path, Len(path) - pos + 1, Len(path))
  <2> DEFINE s == SubSeq(hist, 1, pos)
             m == Len(path) - pos + 1
             t == SubSeq(path, m, Len(path))
  <2>1. s \in Seq(Addresses) /\ Len(s) = pos /\ \A k \in 1 .. pos : s[k] = hist[k]
    BY <1>1, <1>2, SubSeqProperties
  <2>2. m \in 1 .. Len(path) + 1 /\ Len(path) - m + 1 = pos
    BY <1>1, <1>2
  <2>3. \A k \in 1 .. pos : m + k - 1 = Len(path) - pos + k
    BY <1>1, <1>2
  <2> HIDE DEF m
  <2>4. t \in Seq(Addresses) /\ Len(t) = pos /\ \A k \in 1 .. pos : t[k] = path[m + k - 1]
    BY <1>1, <1>2, <2>2, SubSeqProperties
  <2> HIDE DEF s, t
  <2>5. \A k \in 1 .. pos : s[k] = t[k]
    BY <1>1, <2>1, <2>3, <2>4
  <2>6. s = t
    BY <2>1, <2>4, <2>5, SeqEqual
  <2> QED
    BY <2>6 DEF s, t, m
<1>4. SubSeq(hist, pos + 1, Len(hist)) = ahead
  <2> DEFINE m == pos + 1
             s == SubSeq(hist, m, Len(hist))
  <2>1. m \in 1 .. Len(hist) + 1 /\ Len(hist) - m + 1 = Len(ahead)
    BY <1>1, <1>2
  <2>2. \A k \in 1 .. Len(ahead) : m + k - 1 = pos + k
    BY <1>1, <1>2
  <2> HIDE DEF m
  <2>3. s \in Seq(Addresses) /\ Len(s) = Len(ahead) /\ \A k \in 1 .. Len(ahead) : s[k] = hist[m + k - 1]
    BY <1>1, <1>2, <2>1, SubSeqProperties
  <2> HIDE DEF s
  <2>4. s = ahead
    <3>1. \A k \in 1 .. Len(ahead) : s[k] = ahead[k]
      BY <1>1, <2>2, <2>3
    <3>2. s \in Seq(Addresses) /\ ahead \in Seq(Addresses) /\ Len(s) = Len(ahead)
      BY <1>1, <2>3
    <3> QED
      BY <3>1, <3>2, SeqEqual
  <2> QED
    BY <2>4 DEF s, m
<1>5. hist[pos] = path[Len(path)]
  <2>1. Len(path) - pos + pos = Len(path) /\ pos \in 1 .. pos
    BY <1>1, <1>2
  <2> QED
    BY <1>1, <2>1
<1>6. Len(path) <= HistSize => pos = Len(path)
  BY <1>1, <1>2
<1>7. Len(path) >= pos /\ Len(path) > 0 /\ pos \in 1 .. Len(hist) /\ DOMAIN hist = 1 .. Len(hist)
  BY <1>1, <1>2
<1> QED
  BY <1>3, <1>4, <1>5, <1>6, <1>7 DEF HistoryIsPath

-----------------------------------------------------------------------------
(* The browser *)

BrowserInv ==
    /\ addr \in Addresses /\ focus \in BOOLEAN /\ netReady \in BOOLEAN
    /\ Way(hist, pos, path, ahead)
    /\ \E u \in Addresses : Sound([url |-> url, page |-> page], u)

LEMMA Kept ==
    ASSUME BrowserInv, BrowserAssumption
    PROVE  BrowserTypeOK /\ BrowserSound
<1>1. PICK u \in Addresses : Sound([url |-> url, page |-> page], u)
  BY DEF BrowserInv
<1>2. /\ url \in Addresses /\ page.links \subseteq Addresses
      /\ page.kind \in OwnKinds => page.links \subseteq Own \cup RealSites
      /\ page.kind = "search" => url \in Searches \cup Examples /\ page.results = Picks(url)
  BY <1>1 DEF Sound
<1>3. BrowserTypeOK
  <2>1. Way(hist, pos, path, ahead)
    BY DEF BrowserInv
  <2>2. hist[pos] = path[Len(path)] /\ pos \in DOMAIN hist /\ Len(path) > 0
    BY <2>1, WayIsPath
  <2>3. /\ hist \in Seq(Addresses) /\ path \in Seq(Addresses) /\ ahead \in Seq(Addresses)
        /\ Len(hist) \in 1 .. HistSize
    BY <2>1 DEF Way, BrowserAssumption
  <2> QED
    BY <1>2, <2>2, <2>3 DEF BrowserTypeOK, BrowserInv
<1>4. HistoryIsPath
  BY WayIsPath DEF BrowserInv
<1>5. InternalLinksLead
  <2> SUFFICES ASSUME page.kind \in OwnKinds, NEW w \in page.links \ RealSites, NEW r \in Rendered(w)
               PROVE  r.page.kind \notin {"no network", "https", "failed", "real"}
    BY DEF InternalLinksLead, OwnKinds
  <2>1. w \in Own /\ w \in Addresses
    BY <1>2
  <2>2. r.page.kind \in OwnKinds
    BY <2>1, RenderedSound DEF Sound
  <2> QED
    BY <2>2 DEF OwnKinds
<1>6. SearchRanked
  <2> SUFFICES ASSUME page.kind = "search"
               PROVE  LET r == page.results
                          score == Score(url)
                      IN  /\ \A i, j \in DOMAIN r : i < j => score[r[i]] > score[r[j]]
                                                               \/ (score[r[i]] = score[r[j]] /\ r[i] < r[j])
                          /\ \A i \in DOMAIN r : score[r[i]] > 0
                          /\ \A e \in DOMAIN Index : (\A i \in DOMAIN r : r[i] # e) /\ score[e] > 0 =>
                                Len(r) = Results /\ score[e] <= score[r[Results]]
    BY DEF SearchRanked
  <2> DEFINE r == page.results
             score == Score(url)
  <2>1. url \in Searches \cup Examples /\ r = Picks(url)
    BY <1>2
  <2>2. Ranked(score, r, Results) /\ score \in [1 .. 11 -> Nat] /\ Results \in Nat \ {0}
    BY <2>1, PicksRanked, ScoreNat DEF BrowserAssumption
  <2> HIDE DEF r, score
  <2>3. /\ r \in Seq(Places) /\ Len(r) \in Nat /\ DOMAIN r = 1 .. Len(r)
        /\ \A i \in 1 .. Len(r) : r[i] \in 1 .. 11 /\ score[r[i]] \in Nat
    <3>1. r \in Seq(Places) /\ Len(r) \in Nat /\ DOMAIN r = 1 .. Len(r)
      BY <2>2 DEF Ranked
    <3>2. \A i \in 1 .. Len(r) : r[i] \in Places
      BY <3>1
    <3> QED
      BY <2>2, <3>1, <3>2 DEF Places
  <2>4. \A i, j \in DOMAIN r : i < j => score[r[i]] > score[r[j]] \/ (score[r[i]] = score[r[j]] /\ r[i] < r[j])
    <3> SUFFICES ASSUME NEW i \in DOMAIN r, NEW j \in DOMAIN r, i < j
                 PROVE  score[r[i]] > score[r[j]] \/ (score[r[i]] = score[r[j]] /\ r[i] < r[j])
      OBVIOUS
    <3>1. Ahead(score, r[i], r[j])
      BY <2>2, <2>3 DEF Ranked
    <3>2. score[r[i]] \in Nat /\ score[r[j]] \in Nat
      BY <2>3
    <3> QED
      BY <3>1, <3>2 DEF Ahead
  <2>5. \A i \in DOMAIN r : score[r[i]] > 0
    BY <2>2, <2>3 DEF Ranked
  <2>6. ASSUME NEW e \in DOMAIN Index, \A i \in DOMAIN r : r[i] # e, score[e] > 0
        PROVE  Len(r) = Results /\ score[e] <= score[r[Results]]
    <3>1. e \in Unpicked(r) /\ e \in 1 .. 11
      BY <2>6, IndexIs DEF Unpicked, Places
    <3>2. Len(r) = Results /\ \A i \in 1 .. Len(r) : Ahead(score, r[i], e)
      BY <2>2, <2>6, <3>1 DEF Ranked
    <3>3. Results \in 1 .. Len(r)
      BY <2>2, <3>2
    <3>4. Ahead(score, r[Results], e) /\ score[r[Results]] \in Nat /\ score[e] \in Nat
      BY <2>2, <2>3, <3>1, <3>2, <3>3
    <3> QED
      BY <3>2, <3>4 DEF Ahead
  <2> QED
    BY <2>4, <2>5, <2>6 DEF r, score
<1> QED
  BY <1>3, <1>4, <1>5, <1>6 DEF BrowserSound

(* What is shown of an address is sound. *)
LEMMA ShowsSound ==
    ASSUME BrowserAssumption, NEW u \in Addresses, Shows(u)
    PROVE  \E w \in Addresses : Sound([url |-> url', page |-> page'], w)
<1>1. PICK r \in Rendered(u) : url' = r.url /\ page' = r.page
  BY DEF Shows
<1>2. Sound(r, u)
  BY RenderedSound
<1>3. Sound([url |-> url', page |-> page'], u)
  BY <1>1, <1>2 DEF Sound
<1> QED
  BY <1>3

LEMMA PushKeeps ==
    ASSUME BrowserInv, BrowserAssumption, NEW u \in Addresses, Push(u), focus' \in BOOLEAN, netReady' = netReady
    PROVE  BrowserInv'
<1>1. /\ hist' = Pushed(u) /\ pos' = IF pos > 0 /\ pos < HistSize THEN pos + 1 ELSE 1
      /\ addr' = u /\ Shows(u) /\ path' = Append(path, u) /\ ahead' = << >>
  BY DEF Push
<1>2. Way(hist, pos, path, ahead)
  BY DEF BrowserInv
<1>3. pos > 0 /\ pos \in Int
  BY <1>2 DEF Way
<1>4. Way(hist', pos', path', ahead')
  <2>1. CASE pos < HistSize
    <3>1. hist' = Append(SubSeq(hist, 1, pos), u) /\ pos' = pos + 1
      BY <1>1, <1>3, <2>1 DEF Pushed
    <3> QED
      BY <1>1, <1>2, <2>1, <3>1, WayPush
  <2>2. CASE ~ (pos < HistSize)
    <3>1. hist' = <<u>> /\ pos' = 1
      BY <1>1, <1>3, <2>2 DEF Pushed
    <3> QED
      BY <1>1, <1>2, <2>2, <3>1, WayPush
  <2> QED
    BY <2>1, <2>2
<1>5. \E w \in Addresses : Sound([url |-> url', page |-> page'], w)
  BY <1>1, ShowsSound
<1> QED
  BY <1>1, <1>4, <1>5 DEF BrowserInv

LEMMA StartInv ==
    ASSUME BrowserInit, BrowserAssumption
    PROVE  BrowserInv
<1> DEFINE h == <<Home>>
<1>1. Home \in Addresses /\ Home \in DOMAIN Internal /\ Internal[Home] = RenderHome
  <2>1. Home \in DOMAIN Internal
    BY DEF Internal
  <2>2. Internal[Home] = CASE Home = Home -> RenderHome
                           [] Home = "about:browser" -> RenderAbout
                           [] Home = "google.com" -> RenderGoogle
                           [] Home = "fos.local" -> RenderFosLocal
                           [] Home = "docs.local" -> RenderDocsIndex
    BY <2>1 DEF Internal
  <2>3. Internal[Home] = RenderHome
    BY <2>2 DEF Home
  <2> QED
    BY <2>1, <2>3 DEF Addresses
<1>2. h \in Seq(Addresses) /\ Len(h) = 1 /\ h[1] = Home
  BY <1>1
<1>3. HistSize \in Nat /\ 1 <= HistSize
  BY DEF BrowserAssumption
<1>4. << >> \in Seq(Addresses) /\ Len(<< >>) = 0 /\ \A k \in 1 .. 0 : FALSE
  OBVIOUS
<1> HIDE DEF h
<1>5. Way(h, 1, h, << >>)
  <2>1. \A k \in 1 .. 1 : h[k] = h[Len(h) - 1 + k]
    BY <1>2
  <2>2. Len(<< >>) = Len(h) - 1 /\ \A k \in 1 .. Len(<< >>) : << >>[k] = h[1 + k]
    BY <1>2, <1>4
  <2> QED
    BY <1>2, <1>3, <1>4, <2>1, <2>2 DEF Way
<1>6. Sound([url |-> Home, page |-> RenderHome], Home)
  <2>1. [url |-> Home, page |-> RenderHome] \in Rendered(Home)
    BY <1>1 DEF Rendered
  <2> QED
    BY <1>1, <2>1, RenderedSound
<1>7. hist = h /\ path = h
  BY DEF BrowserInit, h
<1> QED
  BY <1>1, <1>5, <1>6, <1>7 DEF BrowserInit, BrowserInv

LEMMA BrowserStep ==
    ASSUME BrowserInv, BrowserAssumption, [BrowserNext]_browserVars
    PROVE  BrowserInv'
<1>1. /\ addr \in Addresses /\ focus \in BOOLEAN /\ netReady \in BOOLEAN
      /\ Way(hist, pos, path, ahead)
      /\ \E u \in Addresses : Sound([url |-> url, page |-> page], u)
  BY DEF BrowserInv
<1>2. BrowserTypeOK
  BY Kept
<1>3. \A k \in 1 .. Len(hist) : hist[k] \in Addresses
  BY <1>1 DEF Way
<1>4. pos \in Int /\ 1 <= pos /\ pos <= Len(hist) /\ Len(hist) \in Nat
  BY <1>1 DEF Way
<1>5. CASE Back
  <2>1. /\ pos > 1 /\ pos' = pos - 1 /\ addr' = hist[pos - 1] /\ Shows(hist[pos - 1]) /\ hist' = hist
        /\ path' = SubSeq(path, 1, Len(path) - 1) /\ ahead' = <<path[Len(path)]>> \o ahead
        /\ focus' = focus /\ netReady' = netReady
    BY <1>5 DEF Back, SetHist
  <2>2. hist[pos - 1] \in Addresses
    BY <1>3, <1>4, <2>1
  <2>3. Way(hist', pos', path', ahead')
    BY <1>1, <2>1, WayBack
  <2> QED
    BY <1>1, <2>1, <2>2, <2>3, ShowsSound DEF BrowserInv
<1>6. CASE Forward
  <2>1. /\ pos < Len(hist) /\ pos' = pos + 1 /\ addr' = hist[pos + 1] /\ Shows(hist[pos + 1]) /\ hist' = hist
        /\ path' = Append(path, Head(ahead)) /\ ahead' = Tail(ahead)
        /\ focus' = focus /\ netReady' = netReady
    BY <1>6 DEF Forward, SetHist
  <2>2. hist[pos + 1] \in Addresses
    BY <1>3, <1>4, <2>1
  <2>3. Way(hist', pos', path', ahead')
    BY <1>1, <2>1, WayForward
  <2> QED
    BY <1>1, <2>1, <2>2, <2>3, ShowsSound DEF BrowserInv
<1>7. CASE Refresh
  <2>1. url \in Addresses
    BY <1>2 DEF BrowserTypeOK
  <2>2. /\ Shows(url) /\ hist' = hist /\ pos' = pos /\ path' = path /\ ahead' = ahead
        /\ addr' = addr /\ focus' = focus /\ netReady' = netReady
    BY <1>7 DEF Refresh
  <2> QED
    BY <1>1, <2>1, <2>2, ShowsSound DEF BrowserInv
<1>8. CASE GoHome
  <2>1. Home \in Addresses
    BY DEF Addresses, Internal
  <2> QED
    BY <1>1, <1>8, <2>1, PushKeeps DEF GoHome
<1>9. CASE Go
  BY <1>1, <1>9, PushKeeps DEF Go
<1>10. CASE ClickLink
  <2>1. PICK u \in page.links : Push(u)
    BY <1>10 DEF ClickLink
  <2>2. u \in Addresses
    BY <1>2 DEF BrowserTypeOK
  <2> QED
    BY <1>10, <2>1, <2>2, PushKeeps DEF ClickLink
<1>11. ASSUME ClickAddress \/ TypeAddress \/ ClickText \/ UNCHANGED browserVars
       PROVE  BrowserInv'
  <2>1. /\ url' = url /\ hist' = hist /\ pos' = pos /\ page' = page /\ netReady' = netReady
        /\ path' = path /\ ahead' = ahead
    BY <1>11 DEF ClickAddress, TypeAddress, ClickText, browserVars
  <2>2. url \in Addresses /\ Sites \cup Searches \subseteq Addresses
    BY <1>2 DEF BrowserTypeOK, Addresses
  <2>3. addr' \in Addresses /\ focus' \in BOOLEAN
    BY <1>1, <1>11, <2>2 DEF ClickAddress, TypeAddress, ClickText, browserVars
  <2> QED
    BY <1>1, <2>1, <2>3 DEF BrowserInv
<1> QED
  BY <1>5, <1>6, <1>7, <1>8, <1>9, <1>10, <1>11 DEF BrowserNext

(* Back and forward of the browser always lead along the addresses that    *)
(* were really opened, the program's own pages link only to pages that it  *)
(* has, and a search shows the entries that score, best first, whatever    *)
(* the words and the tables they are looked up in.                         *)
THEOREM BrowserLeadsRight ==
    ASSUME BrowserAssumption
    PROVE  BrowserSpec => []BrowserTypeOK /\ []BrowserSound
<1>1. BrowserInit => BrowserInv
  BY StartInv
<1>2. BrowserInv /\ [BrowserNext]_browserVars => BrowserInv'
  BY BrowserStep
<1>3. BrowserInv => BrowserTypeOK /\ BrowserSound
  BY Kept
<1> QED
  BY <1>1, <1>2, <1>3, PTL DEF BrowserSpec

-----------------------------------------------------------------------------
(* The text extractor *)

Lines == [text : Seq(Int), mark : [list : Nat, number : Nat], header : {0, 1}, link : Nat]
PageDocs == [lines : Seq(Lines), truncated : BOOLEAN, cut : SUBSET Int]
Flags == [link : Nat, anchor : BOOLEAN, script : BOOLEAN, style : BOOLEAN, header : {0, 1},
          quotes : 0 .. QuoteDepth]
Written == [header : {0, 1}, link : Nat, behind : BOOLEAN]
Pasts == [lists : Nat, open : Seq(Nat), deepest : Nat, nested : BOOLEAN]

HtmlTyped ==
    /\ doc \in PageDocs /\ Len(doc.lines) <= MaxLines
    /\ text \in Seq(Int) /\ Len(text) <= TextCap
    /\ lists \in Seq([kind : {"ul", "ol"}, count : Nat]) /\ Len(lists) <= ListDepth
    /\ \A i \in DOMAIN lists : lists[i].count <= Len(doc.lines)
    /\ flags \in Flags /\ words \in Seq(Written) /\ past \in Pasts
    /\ Len(lists) <= Len(past.open)

(* The properties, of any page d with the text t pending after it: words   *)
(* up to n are in it, in their order,                                      *)
RowIn(d, t, i) == IF i <= Len(d.lines) THEN d.lines[i].text ELSE t
Ascending(d, t, n) ==
    /\ \A i \in 1 .. Len(d.lines) + 1 : \A k \in DOMAIN RowIn(d, t, i) : RowIn(d, t, i)[k] <= n
    /\ \A i, j \in 1 .. Len(d.lines) + 1 : \A k \in DOMAIN RowIn(d, t, i), m \in DOMAIN RowIn(d, t, j) :
          /\ i < j \/ (i = j /\ k < m)
          /\ RowIn(d, t, i)[k] > Space /\ RowIn(d, t, j)[m] > Space
          => RowIn(d, t, i)[k] < RowIn(d, t, j)[m]
Covered(d, t, n) ==
    d.truncated \/ \A x \in 1 .. n :
                      x \in d.cut \/ \E i \in 1 .. Len(d.lines) + 1 : \E k \in DOMAIN RowIn(d, t, i) :
                                        RowIn(d, t, i)[k] = x
WordsKept(d, t, n) == Ascending(d, t, n) /\ Covered(d, t, n)

(* are marked as w has them, the pending ones as f will mark them,         *)
LinkNow(f) == IF f.anchor THEN f.link ELSE 0
Marked(t, w, header, link, nested) ==
    \A k \in DOMAIN t : t[k] > Space =>
        /\ w[t[k]].header = header /\ (w[t[k]].link \in {0, link} \/ nested)
        /\ (\E j \in 1 .. k - 1 : t[j] = Nul) => w[t[k]].behind
AllMarked(d, t, w, f, nested) ==
    /\ \A i \in DOMAIN d.lines : Marked(d.lines[i].text, w, d.lines[i].header, d.lines[i].link, nested)
    /\ Marked(t, w, f.header, LinkNow(f), nested)

(* and items are counted in the list they are in. *)
Items(d, n, l) == {j \in 1 .. n : d.lines[j].mark.list = l}
Counted(d, ls, p) ==
    /\ Len(p.open) = Len(ls)
    /\ \A k \in 1 .. Len(ls) :
          /\ p.open[k] \in 1 .. p.lists
          /\ ls[k].count = Cardinality(Items(d, Len(d.lines), p.open[k]))
    /\ \A j, k \in 1 .. Len(ls) : j < k => p.open[j] < p.open[k]
    /\ \A i \in 1 .. Len(d.lines) :
          LET m == d.lines[i].mark
          IN  /\ m.list <= p.lists
              /\ m.list # 0 => m.number = 1 + Cardinality(Items(d, i - 1, m.list))

HtmlInv ==
    /\ HtmlTyped
    /\ WordsKept(doc, text, Len(words))
    /\ AllMarked(doc, text, words, flags, past.nested)
    /\ Len(past.open) <= past.deepest
    /\ past.deepest <= ListDepth => Counted(doc, lists, past)

LEMMA TrimIs ==
    ASSUME NEW t \in Seq(Int)
    PROVE  \E m \in 0 .. Len(t) :
              /\ Trim(t) \in Seq(Int) /\ Len(Trim(t)) = m
              /\ \A i \in 1 .. m : Trim(t)[i] = t[i]
              /\ \A i \in m + 1 .. Len(t) : t[i] = Space
<1> DEFINE e == Len(t)
           Blank(n) == \A i \in n + 1 .. e : t[i] = Space
           Ends(n) == (n = 0 \/ t[n] # Space) /\ Blank(n)
           B == {n \in 0 .. e : Blank(n)}
           m == CHOOSE n \in 0 .. e : Ends(n)
           s == SubSeq(t, 1, m)
<1>1. e \in Nat
  OBVIOUS
<1> HIDE DEF e
<1>2. e \in B
  BY <1>1
<1>3. \E n \in 0 .. e : Ends(n)
  <2>1. PICK n \in B : \A j \in B : n <= j
    <3>1. B \in SUBSET Nat
      BY <1>1
    <3> HIDE DEF B
    <3> QED
      BY <1>2, <3>1, LeastOf
  <2>2. ASSUME n # 0, t[n] = Space PROVE FALSE
    <3>1. n - 1 \in 0 .. e /\ ~ (n <= n - 1)
      BY <1>1, <2>1, <2>2
    <3>2. \A i \in (n - 1) + 1 .. e : i = n \/ i \in n + 1 .. e
      BY <1>1, <2>1
    <3>3. Blank(n - 1)
      BY <2>1, <2>2, <3>2
    <3> QED
      BY <2>1, <3>1, <3>3
  <2> QED
    BY <2>1, <2>2
<1>4. m \in 0 .. e /\ Ends(m)
  <2> HIDE DEF Ends
  <2> QED
    BY <1>3
<1> HIDE DEF m
<1>5. s \in Seq(Int) /\ Len(s) = m /\ \A i \in 1 .. m : s[i] = t[i]
  <2>1. \A i \in 1 .. m : t[i] \in Int
    BY <1>1, <1>4 DEF e
  <2>2. /\ s \in Seq(Int) /\ Len(s) = (IF 1 <= m THEN m - 1 + 1 ELSE 0)
        /\ \A i \in 1 .. m - 1 + 1 : s[i] = t[1 + i - 1]
    BY <1>4, <2>1, SubSeqProperties
  <2> HIDE DEF s
  <2> QED
    BY <1>1, <1>4, <2>2
<1>6. Trim(t) = s
  BY DEF Trim, s, m, e
<1> HIDE DEF s
<1> QED
  BY <1>4, <1>5, <1>6 DEF e

(* How Flushed writes a line                                               *)
Mode(how) == how.indent \in Nat /\ how.mark \in [list : Nat, number : Nat]

LEMMA FlushedIs ==
    ASSUME HtmlAssumption, HtmlTyped, NEW how, Mode(how),
           NEW d \in PageDocs, Len(d.lines) <= MaxLines, NEW p \in Seq(Int)
    PROVE  LET e == Flushed(d, p, how)
           IN  /\ e \in PageDocs /\ Len(e.lines) <= MaxLines
               /\ \/ /\ e.lines = d.lines /\ e.cut = d.cut
                     /\ e.truncated \/ (e.truncated = d.truncated /\ \A i \in 1 .. Len(p) : p[i] = Space)
                  \/ \E s \in Seq(Int) :
                        /\ e.lines = Append(d.lines, Line(s, how.mark)) /\ e.truncated = d.truncated
                        /\ Line(s, how.mark) \in Lines
                        /\ Len(s) <= Len(p) /\ \A i \in 1 .. Len(s) : s[i] = p[i]
                        /\ d.cut \subseteq e.cut
                        /\ \A i \in Len(s) + 1 .. Len(p) : p[i] = Space \/ p[i] \in e.cut
<1> DEFINE e == Flushed(d, p, how)
           t == Trim(p)
           room == IF how.indent < LineLen THEN LineLen - how.indent ELSE 0
           n == IF Len(t) < room THEN Len(t) ELSE room
           s == SubSeq(t, 1, n)
           c == d.cut \cup {t[i] : i \in n + 1 .. Len(t)}
           l == Line(s, how.mark)
           ls == d.lines
<1>1. d \in PageDocs /\ Len(ls) <= MaxLines /\ p \in Seq(Int) /\ flags \in Flags
  BY DEF HtmlTyped
<1>2. /\ d.lines \in Seq(Lines) /\ d.truncated \in BOOLEAN /\ d.cut \in SUBSET Int
      /\ d = [lines |-> ls, truncated |-> d.truncated, cut |-> d.cut]
  BY <1>1 DEF PageDocs
<1>3. MaxLines \in Nat /\ LineLen \in Nat
  BY DEF HtmlAssumption
<1>4. PICK m \in 0 .. Len(p) :
         /\ t \in Seq(Int) /\ Len(t) = m
         /\ \A i \in 1 .. m : t[i] = p[i]
         /\ \A i \in m + 1 .. Len(p) : p[i] = Space
  BY <1>1, TrimIs
<1>5. e = IF t = << >> THEN d
          ELSE IF Len(ls) >= MaxLines THEN [d EXCEPT !.truncated = TRUE]
          ELSE [d EXCEPT !.lines = Append(ls, l), !.cut = c]
  BY <1>2 DEF Flushed
<1> HIDE DEF e, t, ls
<1>6. n \in Nat /\ n <= m /\ Len(p) \in Nat
  BY <1>1, <1>3, <1>4 DEF Mode
<1>7. s \in Seq(Int) /\ Len(s) = n /\ \A i \in 1 .. n : s[i] = p[i]
  <2> HIDE DEF n
  <2>1. \A i \in 1 .. n : t[i] \in Int /\ i \in 1 .. m
    BY <1>4, <1>6
  <2>2. /\ s \in Seq(Int) /\ Len(s) = (IF 1 <= n THEN n - 1 + 1 ELSE 0)
        /\ \A i \in 1 .. n - 1 + 1 : s[i] = t[1 + i - 1]
    BY <1>6, <2>1, SubSeqProperties
  <2> HIDE DEF s
  <2> QED
    BY <1>4, <1>6, <2>1, <2>2
<1> HIDE DEF s, n
<1>8. l \in Lines
  BY <1>1, <1>7 DEF Line, Lines, Flags, Mode
<1>9. c \in SUBSET Int
  <2>1. \A i \in n + 1 .. Len(t) : t[i] \in Int
    BY <1>4, <1>6
  <2> QED
    BY <1>2, <2>1
<1>10. \A i \in n + 1 .. Len(p) : p[i] = Space \/ p[i] \in c
  <2> SUFFICES ASSUME NEW i \in n + 1 .. Len(p), p[i] # Space PROVE p[i] \in c
    OBVIOUS
  <2>1. i \in n + 1 .. m
    BY <1>4, <1>6
  <2>2. i \in 1 .. m
    BY <1>6, <2>1
  <2> QED
    BY <1>4, <2>1, <2>2
<1>11. d.cut \subseteq c
  OBVIOUS
<1> HIDE DEF l, c
<1>12. CASE t = << >>
  <2>1. e = d /\ m = 0
    BY <1>4, <1>5, <1>12
  <2>2. \A i \in 1 .. Len(p) : p[i] = Space
    BY <1>4, <2>1
  <2> QED
    BY <1>1, <2>1, <2>2 DEF e, ls
<1>13. CASE t # << >> /\ Len(ls) >= MaxLines
  <2>1. e = [d EXCEPT !.truncated = TRUE]
    BY <1>5, <1>13
  <2>2. e \in PageDocs /\ e.lines = ls /\ e.cut = d.cut /\ e.truncated = TRUE
    BY <1>1, <2>1 DEF PageDocs, ls
  <2> QED
    BY <1>1, <2>2 DEF e, ls
<1>14. CASE t # << >> /\ ~ (Len(ls) >= MaxLines)
  <2> DEFINE a == Append(ls, l)
  <2>1. e = [d EXCEPT !.lines = a, !.cut = c]
    BY <1>5, <1>14
  <2>2. a \in Seq(Lines) /\ Len(a) = Len(ls) + 1 /\ Len(ls) \in Nat
    BY <1>2, <1>8 DEF ls
  <2>3. Len(a) <= MaxLines
    BY <1>3, <1>14, <2>2
  <2> HIDE DEF a
  <2>4. e \in PageDocs /\ e.lines = a /\ e.cut = c /\ e.truncated = d.truncated
    BY <1>1, <1>9, <2>1, <2>2 DEF PageDocs
  <2>5. e.lines = Append(d.lines, Line(s, how.mark)) /\ Line(s, how.mark) \in Lines
    BY <1>8, <2>4 DEF a, l, ls
  <2>6. Len(s) <= Len(p)
    BY <1>4, <1>6, <1>7
  <2> QED
    BY <1>7, <1>10, <1>11, <2>3, <2>4, <2>5, <2>6 DEF e
<1> QED
  BY <1>12, <1>13, <1>14

-----------------------------------------------------------------------------
(* Rows of a page *)

RowsOf(d) == 1 .. Len(d.lines) + 1

LEMMA RowsAre ==
    ASSUME NEW d \in PageDocs, NEW t \in Seq(Int)
    PROVE  /\ Len(d.lines) \in Nat
           /\ \A i \in RowsOf(d) : i \in Nat /\ RowIn(d, t, i) \in Seq(Int) /\ DOMAIN RowIn(d, t, i) = 1 .. Len(RowIn(d, t, i))
           /\ \A i \in 1 .. Len(d.lines) : i \in RowsOf(d) /\ RowIn(d, t, i) = d.lines[i].text /\ d.lines[i] \in Lines
           /\ Len(d.lines) + 1 \in RowsOf(d) /\ RowIn(d, t, Len(d.lines) + 1) = t
<1>1. d.lines \in Seq(Lines) /\ Len(d.lines) \in Nat /\ \A i \in 1 .. Len(d.lines) : d.lines[i] \in Lines
  BY DEF PageDocs
<1> DEFINE n == Len(d.lines)
<1> HIDE DEF n
<1>2. n \in Nat /\ n = Len(d.lines)
  BY <1>1 DEF n
<1>3. ASSUME NEW i \in 1 .. n PROVE i \in RowsOf(d) /\ RowIn(d, t, i) = d.lines[i].text /\ d.lines[i] \in Lines
  BY <1>1, <1>2 DEF RowIn, RowsOf
<1>4. n + 1 \in RowsOf(d) /\ RowIn(d, t, n + 1) = t
  BY <1>2 DEF RowIn, RowsOf
<1>5. ASSUME NEW i \in RowsOf(d)
      PROVE  i \in Nat /\ RowIn(d, t, i) \in Seq(Int) /\ DOMAIN RowIn(d, t, i) = 1 .. Len(RowIn(d, t, i))
  <2>1. i \in 1 .. n \/ i = n + 1
    BY <1>2 DEF RowsOf
  <2>2. i \in Nat
    BY <1>2, <2>1
  <2>3. RowIn(d, t, i) \in Seq(Int)
    <3>1. CASE i \in 1 .. n
      BY <1>3, <3>1 DEF Lines
    <3>2. CASE i = n + 1
      BY <1>4, <3>2
    <3> QED
      BY <2>1, <3>1, <3>2
  <2> QED
    BY <2>2, <2>3
<1> QED
  BY <1>2, <1>3, <1>4, <1>5

(* The words of e, with u pending, are where they were in d, with t.       *)
WordsFrom(d, t, e, u) ==
    \A i \in RowsOf(e) : \A k \in DOMAIN RowIn(e, u, i) :
        RowIn(e, u, i)[k] > Space =>
          i \in RowsOf(d) /\ k \in DOMAIN RowIn(d, t, i) /\ RowIn(d, t, i)[k] = RowIn(e, u, i)[k]

LEMMA AscendingWithin ==
    ASSUME NEW d \in PageDocs, NEW t \in Seq(Int), NEW e \in PageDocs, NEW u \in Seq(Int), NEW n \in Nat,
           Ascending(d, t, n), WordsFrom(d, t, e, u)
    PROVE  Ascending(e, u, n)
<1> DEFINE Old(i) == RowIn(d, t, i)
           New(i) == RowIn(e, u, i)
<1>1. \A i \in RowsOf(e) : New(i) \in Seq(Int) /\ DOMAIN New(i) = 1 .. Len(New(i))
  BY RowsAre
<1>2. \A i \in RowsOf(e) : \A k \in DOMAIN New(i) :
         New(i)[k] > Space => i \in RowsOf(d) /\ k \in DOMAIN Old(i) /\ Old(i)[k] = New(i)[k]
  BY DEF WordsFrom
<1>3. /\ \A i \in RowsOf(d) : \A k \in DOMAIN Old(i) : Old(i)[k] <= n
      /\ \A i, j \in RowsOf(d) : \A k \in DOMAIN Old(i), m \in DOMAIN Old(j) :
            /\ i < j \/ (i = j /\ k < m)
            /\ Old(i)[k] > Space /\ Old(j)[m] > Space
            => Old(i)[k] < Old(j)[m]
  BY DEF Ascending, RowsOf
<1> HIDE DEF Old, New
<1>4. ASSUME NEW i \in RowsOf(e), NEW k \in DOMAIN New(i) PROVE New(i)[k] <= n
  <2>1. New(i)[k] \in Int
    BY <1>1
  <2>2. CASE New(i)[k] > Space
    BY <1>2, <1>3, <2>2
  <2>3. CASE ~ (New(i)[k] > Space)
    BY <2>1, <2>3 DEF Space
  <2> QED
    BY <2>2, <2>3
<1>5. ASSUME NEW i \in RowsOf(e), NEW j \in RowsOf(e), NEW k \in DOMAIN New(i), NEW m \in DOMAIN New(j),
             i < j \/ (i = j /\ k < m), New(i)[k] > Space, New(j)[m] > Space
      PROVE  New(i)[k] < New(j)[m]
  BY <1>2, <1>3, <1>5
<1> QED
  BY <1>4, <1>5 DEF Ascending, RowsOf, New

(* No word is lost from d to e. *)
LEMMA CoveredWithin ==
    ASSUME NEW d \in PageDocs, NEW t \in Seq(Int), NEW e \in PageDocs, NEW u \in Seq(Int), NEW n \in Nat,
           Covered(d, t, n), d.truncated => e.truncated, d.cut \subseteq e.cut,
           \A i \in RowsOf(d) : \A k \in DOMAIN RowIn(d, t, i) :
              RowIn(d, t, i)[k] > Space =>
                \/ e.truncated \/ RowIn(d, t, i)[k] \in e.cut
                \/ i \in RowsOf(e) /\ k \in DOMAIN RowIn(e, u, i) /\ RowIn(e, u, i)[k] = RowIn(d, t, i)[k]
    PROVE  Covered(e, u, n)
<1> DEFINE Old(i) == RowIn(d, t, i)
           New(i) == RowIn(e, u, i)
<1>1. \A i \in RowsOf(d) : \A k \in DOMAIN Old(i) :
         Old(i)[k] > Space =>
            \/ e.truncated \/ Old(i)[k] \in e.cut
            \/ i \in RowsOf(e) /\ k \in DOMAIN New(i) /\ New(i)[k] = Old(i)[k]
  OBVIOUS
<1>2. d.truncated \/ \A x \in 1 .. n : x \in d.cut \/ \E i \in RowsOf(d) : \E k \in DOMAIN Old(i) : Old(i)[k] = x
  BY DEF Covered, RowsOf
<1> HIDE DEF Old, New
<1>3. ASSUME ~ e.truncated, NEW x \in 1 .. n, x \notin e.cut
      PROVE  \E i \in RowsOf(e) : \E k \in DOMAIN New(i) : New(i)[k] = x
  <2>1. PICK i \in RowsOf(d) : \E k \in DOMAIN Old(i) : Old(i)[k] = x
    BY <1>2, <1>3
  <2>2. PICK k \in DOMAIN Old(i) : Old(i)[k] = x
    BY <2>1
  <2>3. x > Space
    BY DEF Space
  <2> QED
    BY <1>1, <1>3, <2>2, <2>3
<1> QED
  BY <1>3 DEF Covered, RowsOf, New

(* The rows of a page to which a line is added *)
LEMMA RowsAdded ==
    ASSUME NEW d \in PageDocs, NEW e \in PageDocs, NEW t \in Seq(Int), NEW l \in Lines,
           e.lines = Append(d.lines, l)
    PROVE  /\ Len(e.lines) = Len(d.lines) + 1
           /\ \A i \in 1 .. Len(d.lines) : e.lines[i] = d.lines[i] /\ RowIn(e, << >>, i) = RowIn(d, t, i)
           /\ e.lines[Len(d.lines) + 1] = l
           /\ RowIn(e, << >>, Len(d.lines) + 1) = l.text /\ RowIn(e, << >>, Len(d.lines) + 2) = << >>
<1> DEFINE n == Len(d.lines)
<1>1. d.lines \in Seq(Lines) /\ n \in Nat
  BY DEF PageDocs
<1>2. /\ Len(e.lines) = n + 1
      /\ \A i \in 1 .. n : e.lines[i] = d.lines[i]
      /\ e.lines[n + 1] = l
  <2>1. e.lines = Append(d.lines, l)
    OBVIOUS
  <2> QED
    BY <1>1, <2>1, AppendProperties
<1> HIDE DEF n
<1>3. n = Len(d.lines)
  BY DEF n
<1>4. \A i \in 1 .. n : RowIn(e, << >>, i) = RowIn(d, t, i)
  BY <1>1, <1>2, <1>3 DEF RowIn
<1>5. RowIn(e, << >>, n + 1) = l.text /\ RowIn(e, << >>, n + 2) = << >>
  BY <1>1, <1>2, <1>3 DEF RowIn
<1> QED
  BY <1>2, <1>3, <1>4, <1>5

LEMMA LineAdded ==
    ASSUME NEW d \in PageDocs, NEW e \in PageDocs, NEW t \in Seq(Int), NEW l \in Lines, NEW n \in Nat,
           e.lines = Append(d.lines, l), e.truncated = d.truncated, d.cut \subseteq e.cut,
           \A k \in 1 .. Len(l.text) : l.text[k] > Space => k <= Len(t) /\ l.text[k] = t[k],
           \A k \in Len(l.text) + 1 .. Len(t) : t[k] <= Space \/ t[k] \in e.cut,
           \A k \in 1 .. Len(t) : k <= Len(l.text) => l.text[k] = t[k],
           WordsKept(d, t, n)
    PROVE  WordsKept(e, << >>, n)
<1> DEFINE m == Len(d.lines)
           s == l.text
           Old(i) == RowIn(d, t, i)
           New(i) == RowIn(e, << >>, i)
<1>0. << >> \in Seq(Int)
  OBVIOUS
<1>1. /\ m \in Nat /\ m + 1 \in RowsOf(d) /\ Old(m + 1) = t
      /\ \A i \in 1 .. m : i \in RowsOf(d) /\ Old(i) \in Seq(Int)
  BY RowsAre
<1>2. /\ Len(e.lines) = m + 1
      /\ \A i \in 1 .. m : New(i) = Old(i)
      /\ New(m + 1) = s /\ New(m + 2) = << >>
  BY RowsAdded
<1>3. s \in Seq(Int) /\ DOMAIN s = 1 .. Len(s) /\ DOMAIN t = 1 .. Len(t) /\ Len(t) \in Nat /\ Len(s) \in Nat
  BY DEF Lines
<1>4. \A i : i \in RowsOf(e) <=> i \in 1 .. m \/ i = m + 1 \/ i = m + 2
  BY <1>1, <1>2 DEF RowsOf
<1>5. \A i : i \in RowsOf(d) <=> i \in 1 .. m \/ i = m + 1
  BY <1>1 DEF RowsOf
<1> HIDE DEF m, s, Old, New
<1>6. WordsFrom(d, t, e, << >>)
  <2> SUFFICES ASSUME NEW i \in RowsOf(e), NEW k \in DOMAIN New(i), New(i)[k] > Space
               PROVE  i \in RowsOf(d) /\ k \in DOMAIN Old(i) /\ Old(i)[k] = New(i)[k]
    BY DEF WordsFrom, New, Old
  <2>1. CASE i \in 1 .. m
    BY <1>2, <1>5, <2>1
  <2>2. CASE i = m + 1
    <3>1. k \in 1 .. Len(s) /\ s[k] > Space
      BY <1>2, <1>3, <2>2
    <3>2. k <= Len(t) /\ s[k] = t[k]
      BY <3>1 DEF s
    <3>3. k \in DOMAIN t
      BY <1>3, <3>1, <3>2
    <3> QED
      BY <1>1, <1>2, <1>5, <2>2, <3>2, <3>3
  <2>3. CASE i = m + 2
    BY <1>2, <2>3
  <2> QED
    BY <1>4, <2>1, <2>2, <2>3
<1>7. Ascending(e, << >>, n)
  BY <1>0, <1>6, AscendingWithin DEF WordsKept
<1>8. ASSUME NEW i \in RowsOf(d), NEW k \in DOMAIN Old(i), Old(i)[k] > Space
      PROVE  \/ Old(i)[k] \in e.cut
             \/ i \in RowsOf(e) /\ k \in DOMAIN New(i) /\ New(i)[k] = Old(i)[k]
  <2>1. CASE i \in 1 .. m
    BY <1>2, <1>4, <2>1
  <2>2. CASE i = m + 1
    <3>1. k \in 1 .. Len(t) /\ Old(i)[k] = t[k] /\ t[k] > Space /\ t[k] \in Int
      BY <1>1, <1>3, <1>8, <2>2
    <3>2. CASE k <= Len(s)
      <4>1. s[k] = t[k]
        BY <3>1, <3>2 DEF s
      <4>2. k \in DOMAIN s
        BY <1>3, <3>1, <3>2
      <4> QED
        BY <1>2, <1>4, <2>2, <3>1, <4>1, <4>2
    <3>3. CASE ~ (k <= Len(s))
      <4>1. k \in Len(s) + 1 .. Len(t)
        BY <1>3, <3>1, <3>3
      <4>2. t[k] <= Space \/ t[k] \in e.cut
        BY <4>1 DEF s
      <4> QED
        BY <3>1, <4>2 DEF Space
    <3> QED
      BY <3>2, <3>3
  <2> QED
    BY <1>5, <2>1, <2>2
<1>9. Covered(e, << >>, n)
  <2>1. \A i \in RowsOf(d) : \A k \in DOMAIN RowIn(d, t, i) :
           RowIn(d, t, i)[k] > Space =>
             \/ e.truncated \/ RowIn(d, t, i)[k] \in e.cut
             \/ i \in RowsOf(e) /\ k \in DOMAIN RowIn(e, << >>, i) /\ RowIn(e, << >>, i)[k] = RowIn(d, t, i)[k]
    BY <1>8 DEF Old, New
  <2>2. Covered(d, t, n) /\ (d.truncated => e.truncated) /\ d.cut \subseteq e.cut
    BY DEF WordsKept
  <2> QED
    BY <1>0, <2>1, <2>2, CoveredWithin
<1> QED
  BY <1>7, <1>9 DEF WordsKept

(* A page whose lines stay, with another text pending *)
LEMMA TextChanged ==
    ASSUME NEW d \in PageDocs, NEW e \in PageDocs, NEW t \in Seq(Int), NEW u \in Seq(Int), NEW n \in Nat,
           e.lines = d.lines, d.truncated => e.truncated, d.cut \subseteq e.cut,
           \A k \in 1 .. Len(u) : u[k] > Space => k <= Len(t) /\ u[k] = t[k],
           e.truncated \/ \A k \in 1 .. Len(t) :
              t[k] > Space => t[k] \in e.cut \/ (k <= Len(u) /\ u[k] = t[k]),
           WordsKept(d, t, n)
    PROVE  WordsKept(e, u, n)
<1> DEFINE m == Len(d.lines)
           Old(i) == RowIn(d, t, i)
           New(i) == RowIn(e, u, i)
<1>1. m \in Nat /\ DOMAIN t = 1 .. Len(t) /\ Len(t) \in Nat /\ DOMAIN u = 1 .. Len(u) /\ Len(u) \in Nat
  BY RowsAre
<1>2. Old(m + 1) = t /\ New(m + 1) = u /\ \A i \in 1 .. m : New(i) = Old(i)
  BY <1>1 DEF RowIn
<1>3. \A i : (i \in RowsOf(e) <=> i \in 1 .. m \/ i = m + 1) /\ (i \in RowsOf(d) <=> i \in 1 .. m \/ i = m + 1)
  <2>1. RowsOf(d) = 1 .. m + 1 /\ RowsOf(e) = 1 .. m + 1
    BY DEF RowsOf
  <2> HIDE DEF m
  <2> QED
    BY <1>1, <2>1
<1> HIDE DEF m, Old, New
<1>4. WordsFrom(d, t, e, u)
  <2> SUFFICES ASSUME NEW i \in RowsOf(e), NEW k \in DOMAIN New(i), New(i)[k] > Space
               PROVE  i \in RowsOf(d) /\ k \in DOMAIN Old(i) /\ Old(i)[k] = New(i)[k]
    BY DEF WordsFrom, New, Old
  <2>1. CASE i \in 1 .. m
    BY <1>2, <1>3, <2>1
  <2>2. CASE i = m + 1
    <3>1. k \in 1 .. Len(u) /\ u[k] > Space
      BY <1>1, <1>2, <2>2
    <3>2. k <= Len(t) /\ u[k] = t[k]
      BY <3>1
    <3>3. k \in DOMAIN t
      BY <1>1, <3>1, <3>2
    <3> QED
      BY <1>2, <1>3, <2>2, <3>2, <3>3
  <2> QED
    BY <1>3, <2>1, <2>2
<1>5. ASSUME ~ e.truncated, NEW i \in RowsOf(d), NEW k \in DOMAIN Old(i), Old(i)[k] > Space,
             Old(i)[k] \notin e.cut
      PROVE  i \in RowsOf(e) /\ k \in DOMAIN New(i) /\ New(i)[k] = Old(i)[k]
  <2>1. CASE i \in 1 .. m
    BY <1>2, <1>3, <2>1
  <2>2. CASE i = m + 1
    <3>1. k \in 1 .. Len(t) /\ t[k] > Space /\ t[k] \notin e.cut
      BY <1>1, <1>2, <1>5, <2>2
    <3>2. k <= Len(u) /\ u[k] = t[k]
      BY <1>5, <3>1
    <3>3. k \in DOMAIN u
      BY <1>1, <3>1, <3>2
    <3> QED
      BY <1>2, <1>3, <2>2, <3>2, <3>3
  <2> QED
    BY <1>3, <2>1, <2>2
<1>6. Ascending(e, u, n)
  BY <1>4, AscendingWithin DEF WordsKept
<1>7. Covered(e, u, n)
  <2>1. \A i \in RowsOf(d) : \A k \in DOMAIN RowIn(d, t, i) :
           RowIn(d, t, i)[k] > Space =>
             \/ e.truncated \/ RowIn(d, t, i)[k] \in e.cut
             \/ i \in RowsOf(e) /\ k \in DOMAIN RowIn(e, u, i) /\ RowIn(e, u, i)[k] = RowIn(d, t, i)[k]
    BY <1>5 DEF Old, New
  <2>2. Covered(d, t, n) /\ (d.truncated => e.truncated) /\ d.cut \subseteq e.cut
    BY DEF WordsKept
  <2> QED
    BY <2>1, <2>2, CoveredWithin
<1> QED
  BY <1>6, <1>7 DEF WordsKept

-----------------------------------------------------------------------------
(* What the flushing of the pending text keeps *)

LEMMA FlushKept ==
    ASSUME HtmlAssumption, HtmlTyped, NEW how, Mode(how), NEW n \in Nat,
           NEW d \in PageDocs, Len(d.lines) <= MaxLines, NEW p \in Seq(Int), WordsKept(d, p, n)
    PROVE  WordsKept(Flushed(d, p, how), << >>, n)
<1> DEFINE e == Flushed(d, p, how)
           u == << >>
<1>1. /\ e \in PageDocs
      /\ \/ /\ e.lines = d.lines /\ e.cut = d.cut
            /\ e.truncated \/ (e.truncated = d.truncated /\ \A i \in 1 .. Len(p) : p[i] = Space)
         \/ \E s \in Seq(Int) :
               /\ e.lines = Append(d.lines, Line(s, how.mark)) /\ e.truncated = d.truncated
               /\ Line(s, how.mark) \in Lines
               /\ Len(s) <= Len(p) /\ \A i \in 1 .. Len(s) : s[i] = p[i]
               /\ d.cut \subseteq e.cut
               /\ \A i \in Len(s) + 1 .. Len(p) : p[i] = Space \/ p[i] \in e.cut
  BY FlushedIs
<1>2. d \in PageDocs /\ p \in Seq(Int) /\ u \in Seq(Int) /\ Len(u) = 0
  BY DEF HtmlTyped
<1> HIDE DEF e, u
<1>3. CASE /\ e.lines = d.lines /\ e.cut = d.cut
           /\ e.truncated \/ (e.truncated = d.truncated /\ \A i \in 1 .. Len(p) : p[i] = Space)
  <2>1. d.truncated => e.truncated
    BY <1>3
  <2>2. \A k \in 1 .. Len(u) : u[k] > Space => k <= Len(p) /\ u[k] = p[k]
    BY <1>2
  <2>3. e.truncated \/ \A k \in 1 .. Len(p) : p[k] > Space => k <= Len(u) /\ u[k] = p[k]
    BY <1>3 DEF Space
  <2>4. WordsKept(e, u, n)
    BY <1>1, <1>2, <1>3, <2>1, <2>2, <2>3, TextChanged
  <2> QED
    BY <2>4 DEF e, u
<1>4. CASE \E s \in Seq(Int) :
               /\ e.lines = Append(d.lines, Line(s, how.mark)) /\ e.truncated = d.truncated
               /\ Line(s, how.mark) \in Lines
               /\ Len(s) <= Len(p) /\ \A i \in 1 .. Len(s) : s[i] = p[i]
               /\ d.cut \subseteq e.cut
               /\ \A i \in Len(s) + 1 .. Len(p) : p[i] = Space \/ p[i] \in e.cut
  <2>1. PICK s \in Seq(Int) :
               /\ e.lines = Append(d.lines, Line(s, how.mark)) /\ e.truncated = d.truncated
               /\ Line(s, how.mark) \in Lines
               /\ Len(s) <= Len(p) /\ \A i \in 1 .. Len(s) : s[i] = p[i]
               /\ d.cut \subseteq e.cut
               /\ \A i \in Len(s) + 1 .. Len(p) : p[i] = Space \/ p[i] \in e.cut
    BY <1>4
  <2> DEFINE l == Line(s, how.mark)
  <2>2. l.text = s
    BY DEF Line
  <2> HIDE DEF l
  <2>3. l \in Lines /\ e.lines = Append(d.lines, l)
    BY <2>1 DEF l
  <2>4. Len(s) \in Nat /\ Len(p) \in Nat
    BY <1>2
  <2>5. \A k \in 1 .. Len(l.text) : l.text[k] > Space => k <= Len(p) /\ l.text[k] = p[k]
    BY <2>1, <2>2, <2>4
  <2>6. \A k \in Len(l.text) + 1 .. Len(p) : p[k] <= Space \/ p[k] \in e.cut
    BY <2>1, <2>2 DEF Space
  <2>7. \A k \in 1 .. Len(p) : k <= Len(l.text) => l.text[k] = p[k]
    BY <2>1, <2>2, <2>4
  <2>8. WordsKept(e, << >>, n)
    BY <1>1, <1>2, <2>1, <2>3, <2>5, <2>6, <2>7, LineAdded
  <2> QED
    BY <2>8 DEF e
<1> QED
  BY <1>1, <1>3, <1>4

LEMMA FlushMarked ==
    ASSUME HtmlAssumption, HtmlTyped, NEW how, Mode(how), NEW nested, NEW g,
           NEW d \in PageDocs, Len(d.lines) <= MaxLines, NEW p \in Seq(Int),
           AllMarked(d, p, words, flags, nested)
    PROVE  AllMarked(Flushed(d, p, how), << >>, words, g, nested)
<1> DEFINE e == Flushed(d, p, how)
<1>1. \/ e.lines = d.lines
      \/ \E s \in Seq(Int) :
               /\ e.lines = Append(d.lines, Line(s, how.mark)) /\ Line(s, how.mark) \in Lines
               /\ Len(s) <= Len(p) /\ \A i \in 1 .. Len(s) : s[i] = p[i]
  BY FlushedIs
<1>2. d.lines \in Seq(Lines) /\ p \in Seq(Int) /\ Len(p) \in Nat
  BY DEF HtmlTyped, PageDocs
<1> HIDE DEF e
<1>3. /\ \A i \in DOMAIN d.lines : Marked(d.lines[i].text, words, d.lines[i].header, d.lines[i].link, nested)
      /\ Marked(p, words, flags.header, LinkNow(flags), nested)
  BY DEF AllMarked
<1>4. \A i \in DOMAIN e.lines : Marked(e.lines[i].text, words, e.lines[i].header, e.lines[i].link, nested)
  <2>1. CASE e.lines = d.lines
    BY <1>3, <2>1
  <2>2. ASSUME NEW s \in Seq(Int),
               e.lines = Append(d.lines, Line(s, how.mark)), Line(s, how.mark) \in Lines,
               Len(s) <= Len(p), \A i \in 1 .. Len(s) : s[i] = p[i],
               NEW i \in DOMAIN e.lines
        PROVE  Marked(e.lines[i].text, words, e.lines[i].header, e.lines[i].link, nested)
    <3> DEFINE l == Line(s, how.mark)
               n == Len(d.lines)
    <3>1. /\ n \in Nat /\ DOMAIN d.lines = 1 .. n
          /\ i \in 1 .. n \/ i = n + 1
          /\ \A j \in 1 .. n : e.lines[j] = d.lines[j]
          /\ e.lines[n + 1] = l
      <4>1. l \in Lines /\ e.lines = Append(d.lines, l)
        BY <2>2
      <4> HIDE DEF l
      <4>2. /\ e.lines \in Seq(Lines) /\ Len(e.lines) = n + 1 /\ \A j \in 1 .. n : e.lines[j] = d.lines[j]
            /\ e.lines[n + 1] = l
        BY <1>2, <4>1, AppendProperties
      <4>3. DOMAIN e.lines = 1 .. n + 1 /\ n \in Nat /\ DOMAIN d.lines = 1 .. n
        BY <1>2, <4>2
      <4>4. i \in 1 .. n + 1
        BY <2>2, <4>3
      <4> QED
        BY <4>2, <4>3, <4>4
    <3>2. CASE i \in 1 .. n
      <4> HIDE DEF n
      <4> QED
        BY <1>3, <3>1, <3>2
    <3>3. CASE i = n + 1
      <4>1. l.text = s /\ l.header = flags.header /\ l.link = LinkNow(flags)
        BY DEF Line, LinkNow
      <4> HIDE DEF l
      <4>2. Marked(s, words, flags.header, LinkNow(flags), nested)
        <5>1. DOMAIN s = 1 .. Len(s) /\ DOMAIN p = 1 .. Len(p) /\ Len(s) \in Nat
          BY <1>2, <2>2
        <5>2. \A k \in DOMAIN s : k \in DOMAIN p /\ s[k] = p[k]
          BY <1>2, <2>2, <5>1
        <5>3. \A k \in DOMAIN s : \A j \in 1 .. k - 1 : s[j] = p[j]
          BY <2>2, <5>1
        <5>4. Marked(p, words, flags.header, LinkNow(flags), nested)
          BY <1>3
        <5> SUFFICES ASSUME NEW k \in DOMAIN s, s[k] > Space
                     PROVE  /\ words[s[k]].header = flags.header
                            /\ words[s[k]].link \in {0, LinkNow(flags)} \/ nested
                            /\ (\E j \in 1 .. k - 1 : s[j] = Nul) => words[s[k]].behind
          BY DEF Marked
        <5>5. k \in DOMAIN p /\ p[k] > Space /\ s[k] = p[k]
          BY <5>2
        <5>6. /\ words[p[k]].header = flags.header
              /\ words[p[k]].link \in {0, LinkNow(flags)} \/ nested
              /\ (\E j \in 1 .. k - 1 : p[j] = Nul) => words[p[k]].behind
          BY ONLY <5>4, <5>5 DEF Marked
        <5> QED
          BY ONLY <5>3, <5>5, <5>6
      <4> QED
        BY <3>1, <3>3, <4>1, <4>2
    <3> QED
      BY <3>1, <3>2, <3>3
  <2> QED
    BY <1>1, <2>1, <2>2
<1>5. Marked(<< >>, words, g.header, LinkNow(g), nested)
  BY DEF Marked
<1> QED
  BY <1>4, <1>5 DEF AllMarked, e

-----------------------------------------------------------------------------
(* The items of a list, when a line is added *)

LEMMA ItemsAdded ==
    ASSUME NEW d \in PageDocs, NEW e \in PageDocs, NEW l \in Lines, e.lines = Append(d.lines, l)
    PROVE  LET n == Len(d.lines)
           IN  /\ n \in Nat
               /\ \A x : \A i \in 0 .. n : Items(e, i, x) = Items(d, i, x)
               /\ \A x : \A i \in 0 .. n : Cardinality(Items(d, i, x)) \in Nat
               /\ \A x : l.mark.list # x => Items(e, n + 1, x) = Items(d, n, x)
               /\ Cardinality(Items(e, n + 1, l.mark.list)) = Cardinality(Items(d, n, l.mark.list)) + 1
<1> DEFINE n == Len(d.lines)
           Of(i) == d.lines[i].mark.list
           Now(i) == e.lines[i].mark.list
           x0 == l.mark.list
<1>1. /\ n \in Nat
      /\ \A i \in 1 .. n : Now(i) = Of(i)
      /\ Now(n + 1) = x0
  <2>1. << >> \in Seq(Int)
    OBVIOUS
  <2>2. d.lines \in Seq(Lines)
    BY DEF PageDocs
  <2>3. \A i \in 1 .. Len(d.lines) : e.lines[i] = d.lines[i]
    BY <2>1, RowsAdded
  <2>4. e.lines[Len(d.lines) + 1] = l
    BY <2>1, RowsAdded
  <2> QED
    BY <2>2, <2>3, <2>4
<1>2. \A i, x : Items(d, i, x) = {j \in 1 .. i : Of(j) = x} /\ Items(e, i, x) = {j \in 1 .. i : Now(j) = x}
  BY DEF Items
<1> HIDE DEF n, Of, Now, x0
<1>3. \A x : \A i \in 0 .. n : Items(e, i, x) = Items(d, i, x)
  <2> SUFFICES ASSUME NEW x, NEW i \in 0 .. n PROVE Items(e, i, x) = Items(d, i, x)
    OBVIOUS
  <2>1. \A j \in 1 .. i : j \in 1 .. n
    BY <1>1
  <2>2. {j \in 1 .. i : Now(j) = x} = {j \in 1 .. i : Of(j) = x}
    BY <1>1, <2>1
  <2> QED
    BY <2>2 DEF Items, Now, Of
<1>4. \A x : \A i \in 0 .. n : IsFiniteSet(Items(d, i, x))
  <2> SUFFICES ASSUME NEW x, NEW i \in 0 .. n PROVE IsFiniteSet(Items(d, i, x))
    OBVIOUS
  <2>1. IsFiniteSet(1 .. i)
    BY FS_Interval
  <2>2. Items(d, i, x) \in SUBSET (1 .. i)
    BY <1>2
  <2> QED
    BY <2>1, <2>2, FS_Subset
<1>5. \A x : \A i \in 0 .. n : Cardinality(Items(d, i, x)) \in Nat
  BY <1>4, FS_CardinalityType
<1>6. ASSUME NEW x, x0 # x PROVE Items(e, n + 1, x) = Items(d, n, x)
  <2>1. \A j \in 1 .. n + 1 : j \in 1 .. n \/ j = n + 1
    BY <1>1
  <2>2. \A j \in 1 .. n : j \in 1 .. n + 1
    BY <1>1
  <2>3. {j \in 1 .. n + 1 : Now(j) = x} = {j \in 1 .. n : Of(j) = x}
    BY <1>1, <1>6, <2>1, <2>2
  <2> QED
    BY <2>3 DEF Items, Now, Of, n
<1>7. Cardinality(Items(e, n + 1, x0)) = Cardinality(Items(d, n, x0)) + 1
  <2> DEFINE S == Items(d, n, x0)
  <2>1. \A j : j \in 1 .. n + 1 <=> j \in 1 .. n \/ j = n + 1
    BY <1>1
  <2>2. Items(e, n + 1, x0) = S \cup {n + 1}
    <3>1. {j \in 1 .. n + 1 : Now(j) = x0} = {j \in 1 .. n : Of(j) = x0} \cup {n + 1}
      BY <1>1, <2>1
    <3> QED
      BY <1>2, <3>1
  <2>3. n + 1 \notin S
    BY <1>1, <1>2
  <2>4. IsFiniteSet(S)
    BY <1>1, <1>4
  <2> HIDE DEF S
  <2> QED
    BY <2>2, <2>3, <2>4, FS_AddElement DEF S
<1> QED
  BY <1>1, <1>3, <1>5, <1>6, <1>7 DEF n, x0

Levels == [kind : {"ul", "ol"}, count : Nat]

(* A line that is no item *)
LEMMA PlainCounted ==
    ASSUME NEW d \in PageDocs, NEW e \in PageDocs, NEW l \in Lines, e.lines = Append(d.lines, l),
           NEW ls \in Seq(Levels), NEW p \in Pasts, l.mark.list = 0, Counted(d, ls, p)
    PROVE  Counted(e, ls, p)
<1> DEFINE n == Len(d.lines)
<1>1. /\ n \in Nat
      /\ \A x : \A i \in 0 .. n : Items(e, i, x) = Items(d, i, x)
      /\ \A x : l.mark.list # x => Items(e, n + 1, x) = Items(d, n, x)
  BY ItemsAdded
<1>2. Len(e.lines) = n + 1 /\ e.lines[n + 1] = l /\ \A i \in 1 .. n : e.lines[i] = d.lines[i]
  <2>1. << >> \in Seq(Int)
    OBVIOUS
  <2> QED
    BY <2>1, RowsAdded
<1>3. /\ Len(p.open) = Len(ls)
      /\ \A k \in 1 .. Len(ls) : p.open[k] \in 1 .. p.lists /\ ls[k].count = Cardinality(Items(d, n, p.open[k]))
      /\ \A j, k \in 1 .. Len(ls) : j < k => p.open[j] < p.open[k]
      /\ \A i \in 1 .. n : d.lines[i].mark.list <= p.lists
      /\ \A i \in 1 .. n : d.lines[i].mark.list # 0 =>
            d.lines[i].mark.number = 1 + Cardinality(Items(d, i - 1, d.lines[i].mark.list))
  BY DEF Counted
<1> HIDE DEF n
<1>4. \A k \in 1 .. Len(ls) : p.open[k] \in 1 .. p.lists /\ ls[k].count = Cardinality(Items(e, n + 1, p.open[k]))
  BY <1>1, <1>3
<1>5. ASSUME NEW i \in 1 .. n + 1
      PROVE  /\ e.lines[i].mark.list <= p.lists
             /\ e.lines[i].mark.list # 0 =>
                  e.lines[i].mark.number = 1 + Cardinality(Items(e, i - 1, e.lines[i].mark.list))
  <2>1. CASE i \in 1 .. n
    <3>1. i - 1 \in 0 .. n
      BY <1>1, <2>1
    <3> QED
      BY <1>1, <1>2, <1>3, <2>1, <3>1
  <2>2. CASE i = n + 1
    <3>1. p.lists \in Nat
      BY DEF Pasts
    <3> QED
      BY <1>2, <2>2, <3>1
  <2>3. i \in 1 .. n \/ i = n + 1
    BY <1>1
  <2> QED
    BY <2>1, <2>2, <2>3, Zenon
<1> QED
  BY <1>2, <1>3, <1>4, <1>5 DEF Counted

(* An item of the list on top *)
LEMMA ItemCounted ==
    ASSUME NEW d \in PageDocs, NEW e \in PageDocs, NEW l \in Lines, e.lines = Append(d.lines, l),
           NEW ls \in Seq(Levels), NEW p \in Pasts, ls # << >>,
           l.mark = [list |-> p.open[Len(p.open)], number |-> ls[Len(ls)].count + 1], Counted(d, ls, p)
    PROVE  Counted(e, [ls EXCEPT ![Len(ls)].count = @ + 1], p)
<1> DEFINE n == Len(d.lines)
           top == Len(ls)
           x == p.open[top]
           new == [ls EXCEPT ![top].count = @ + 1]
<1>1. /\ n \in Nat
      /\ \A y : \A i \in 0 .. n : Items(e, i, y) = Items(d, i, y)
      /\ \A y : l.mark.list # y => Items(e, n + 1, y) = Items(d, n, y)
      /\ Cardinality(Items(e, n + 1, l.mark.list)) = Cardinality(Items(d, n, l.mark.list)) + 1
  BY ItemsAdded
<1>2. Len(e.lines) = n + 1 /\ e.lines[n + 1] = l /\ \A i \in 1 .. n : e.lines[i] = d.lines[i]
  <2>1. << >> \in Seq(Int)
    OBVIOUS
  <2> QED
    BY <2>1, RowsAdded
<1>3. /\ Len(p.open) = top
      /\ \A k \in 1 .. top : p.open[k] \in 1 .. p.lists /\ ls[k].count = Cardinality(Items(d, n, p.open[k]))
      /\ \A j, k \in 1 .. top : j < k => p.open[j] < p.open[k]
      /\ \A i \in 1 .. n : d.lines[i].mark.list <= p.lists
      /\ \A i \in 1 .. n : d.lines[i].mark.list # 0 =>
            d.lines[i].mark.number = 1 + Cardinality(Items(d, i - 1, d.lines[i].mark.list))
  BY DEF Counted
<1>4. top \in Nat /\ top # 0 /\ DOMAIN ls = 1 .. top /\ \A k \in 1 .. top : ls[k] \in Levels
  BY EmptySeq
<1>5. Len(new) = top /\ new[top].count = ls[top].count + 1 /\ \A k \in 1 .. top : k # top => new[k] = ls[k]
  <2>1. top \in 1 .. top
    BY <1>4
  <2>2. ls[top] \in Levels
    BY <1>4, <2>1
  <2>3. new[top] = [ls[top] EXCEPT !.count = @ + 1]
    BY <2>1
  <2>4. new[top].count = ls[top].count + 1
    BY <2>2, <2>3 DEF Levels
  <2> QED
    BY <2>4
<1> HIDE DEF n, new, top
<1>6. l.mark.list = x /\ l.mark.number = ls[top].count + 1
  BY <1>3 DEF x, top
<1> HIDE DEF x
<1>7. x = p.open[top] /\ top \in 1 .. top
  BY <1>4 DEF x
<1>8. ASSUME NEW k \in 1 .. top
      PROVE  p.open[k] \in 1 .. p.lists /\ new[k].count = Cardinality(Items(e, n + 1, p.open[k]))
  <2>1. CASE k = top
    BY <1>1, <1>3, <1>5, <1>6, <1>7, <2>1
  <2>2. CASE k # top
    <3>1. p.open[k] < p.open[top]
      BY <1>3, <1>4, <1>7, <2>2
    <3>2. p.open[k] # x
      BY <1>3, <1>7, <3>1
    <3> QED
      BY <1>1, <1>3, <1>5, <1>6, <2>2, <3>2
  <2> QED
    BY <2>1, <2>2
<1>9. ASSUME NEW i \in 1 .. n + 1
      PROVE  /\ e.lines[i].mark.list <= p.lists
             /\ e.lines[i].mark.list # 0 =>
                  e.lines[i].mark.number = 1 + Cardinality(Items(e, i - 1, e.lines[i].mark.list))
  <2>1. CASE i \in 1 .. n
    <3>1. i - 1 \in 0 .. n
      BY <1>1, <2>1
    <3> QED
      BY <1>1, <1>2, <1>3, <2>1, <3>1
  <2>2. CASE i = n + 1
    <3>1. x \in 1 .. p.lists /\ p.lists \in Nat
      BY <1>3, <1>7 DEF Pasts
    <3>2. x <= p.lists
      BY <3>1
    <3>3. i - 1 = n /\ n \in 0 .. n
      BY <1>1, <2>2
    <3>4. Items(e, i - 1, x) = Items(d, n, x)
      BY <1>1, <3>3
    <3>5. ls[top].count = Cardinality(Items(d, n, x)) /\ ls[top].count \in Nat
      BY <1>3, <1>4, <1>7 DEF Levels
    <3> QED
      BY <1>2, <1>6, <2>2, <3>2, <3>4, <3>5
  <2>3. i \in 1 .. n \/ i = n + 1
    BY <1>1
  <2> QED
    BY <2>1, <2>2, <2>3, Zenon
<1> QED
  BY <1>2, <1>3, <1>5, <1>8, <1>9 DEF Counted, new, top

-----------------------------------------------------------------------------
(* The pending text grows *)

LEMMA WithIs ==
    ASSUME HtmlAssumption, NEW t \in Seq(Int), Len(t) <= TextCap, NEW piece \in Int
    PROVE  /\ With(t, piece) \in Seq(Int) /\ Len(With(t, piece)) <= TextCap
           /\ Len(t) <= Len(With(t, piece))
           /\ \A k \in 1 .. Len(t) : With(t, piece)[k] = t[k]
           /\ \A k \in Len(t) + 1 .. Len(With(t, piece)) : With(t, piece)[k] = piece
<1> DEFINE a == Append(t, piece)
           n == Len(t)
<1>1. n \in Nat /\ TextCap \in Nat
  BY DEF HtmlAssumption
<1>2. a \in Seq(Int) /\ Len(a) = n + 1 /\ (\A k \in 1 .. n : a[k] = t[k]) /\ a[n + 1] = piece
  BY AppendProperties
<1>3. With(t, piece) = IF n < TextCap THEN a ELSE t
  BY DEF With
<1> HIDE DEF a
<1>4. CASE n < TextCap
  <2>1. With(t, piece) = a
    BY <1>3, <1>4
  <2> HIDE DEF n
  <2>2. \A k \in n + 1 .. Len(a) : a[k] = piece
    BY <1>1, <1>2
  <2>3. n <= Len(a) /\ Len(a) <= TextCap
    BY <1>1, <1>2, <1>4
  <2> QED
    BY <1>2, <2>1, <2>2, <2>3 DEF n
<1>5. CASE ~ (n < TextCap)
  <2>1. With(t, piece) = t
    BY <1>3, <1>5
  <2>2. \A k \in n + 1 .. n : FALSE
    BY <1>1
  <2> QED
    BY <1>1, <2>1, <2>2
<1> QED
  BY <1>4, <1>5

LEMMA PiecesKept ==
    ASSUME NEW d \in PageDocs, NEW t \in Seq(Int), NEW u \in Seq(Int), NEW n \in Nat, Len(t) <= Len(u),
           \A k \in 1 .. Len(t) : u[k] = t[k],
           \A k \in Len(t) + 1 .. Len(u) : u[k] <= Space,
           WordsKept(d, t, n)
    PROVE  WordsKept(d, u, n)
<1>1. Len(t) \in Nat /\ Len(u) \in Nat
  OBVIOUS
<1>2. ASSUME NEW k \in 1 .. Len(u), u[k] > Space PROVE k <= Len(t) /\ u[k] = t[k]
  <2>1. k \in 1 .. Len(t) \/ k \in Len(t) + 1 .. Len(u)
    BY <1>1
  <2> QED
    BY <1>1, <1>2, <2>1 DEF Space
<1>3. \A k \in 1 .. Len(t) : t[k] > Space => k <= Len(u) /\ u[k] = t[k]
  BY <1>1
<1> QED
  BY <1>2, <1>3, TextChanged

LEMMA TextMarked ==
    ASSUME NEW d, NEW t, NEW u, NEW w, NEW f, NEW nested,
           \A k \in DOMAIN u : u[k] > Space =>
              k \in DOMAIN t /\ u[k] = t[k] /\ \A j \in 1 .. k - 1 : u[j] = Nul => t[j] = Nul,
           AllMarked(d, t, w, f, nested)
    PROVE  AllMarked(d, u, w, f, nested)
<1>1. Marked(t, w, f.header, LinkNow(f), nested)
  BY DEF AllMarked
<1>2. Marked(u, w, f.header, LinkNow(f), nested)
  BY <1>1 DEF Marked
<1> QED
  BY <1>2 DEF AllMarked

LEMMA PiecesMarked ==
    ASSUME NEW d \in PageDocs, NEW t \in Seq(Int), NEW u \in Seq(Int), NEW w, NEW f, NEW nested, Len(t) <= Len(u),
           \A k \in 1 .. Len(t) : u[k] = t[k],
           \A k \in Len(t) + 1 .. Len(u) : u[k] <= Space,
           AllMarked(d, t, w, f, nested)
    PROVE  AllMarked(d, u, w, f, nested)
<1>1. Len(t) \in Nat /\ Len(u) \in Nat /\ DOMAIN u = 1 .. Len(u) /\ DOMAIN t = 1 .. Len(t)
  OBVIOUS
<1>2. ASSUME NEW k \in DOMAIN u, u[k] > Space PROVE k \in DOMAIN t /\ u[k] = t[k]
  <2>1. k \in 1 .. Len(t) \/ k \in Len(t) + 1 .. Len(u)
    BY <1>1
  <2> QED
    BY <1>1, <1>2, <2>1 DEF Space
<1>3. ASSUME NEW k \in DOMAIN u, u[k] > Space, NEW j \in 1 .. k - 1 PROVE u[j] = t[j]
  <2>1. k \in 1 .. Len(t)
    BY <1>1, <1>2, <1>3
  <2> QED
    BY <1>1, <2>1
<1>4. \A k \in DOMAIN u : u[k] > Space =>
         k \in DOMAIN t /\ u[k] = t[k] /\ \A j \in 1 .. k - 1 : u[j] = Nul => t[j] = Nul
  BY <1>2, <1>3
<1> QED
  BY <1>4, TextMarked

LEMMA WordKept ==
    ASSUME NEW d \in PageDocs, NEW t \in Seq(Int), NEW n \in Nat, WordsKept(d, t, n)
    PROVE  WordsKept(d, Append(t, n + 1), n + 1)
<1> DEFINE m == Len(d.lines)
           u == Append(t, n + 1)
           last == Len(t) + 1
           Old(i) == RowIn(d, t, i)
           New(i) == RowIn(d, u, i)
<1>1. /\ Len(t) \in Nat /\ DOMAIN t = 1 .. Len(t)
      /\ u \in Seq(Int) /\ DOMAIN u = 1 .. last /\ u[last] = n + 1
      /\ \A k \in 1 .. Len(t) : u[k] = t[k]
  <2>1. u \in Seq(Int) /\ Len(u) = last /\ u[last] = n + 1 /\ \A k \in 1 .. Len(t) : u[k] = t[k]
    BY AppendProperties
  <2> HIDE DEF u
  <2> QED
    BY <2>1
<1> HIDE DEF u, last
<1>2. last = Len(t) + 1
  BY DEF last
<1>3. m \in Nat /\ Old(m + 1) = t /\ New(m + 1) = u /\ \A i \in 1 .. m : New(i) = Old(i)
  <2>1. m \in Nat
    BY RowsAre
  <2> QED
    BY <2>1 DEF RowIn
<1>4. \A i \in RowsOf(d) : i \in Nat /\ (i \in 1 .. m \/ i = m + 1) /\ Old(i) \in Seq(Int)
  <2>1. RowsOf(d) = 1 .. m + 1
    BY DEF RowsOf
  <2>2. \A i \in RowsOf(d) : Old(i) \in Seq(Int)
    BY RowsAre
  <2> HIDE DEF m, Old
  <2> QED
    BY <1>3, <2>1, <2>2
<1>5. /\ \A i \in RowsOf(d) : \A k \in DOMAIN Old(i) : Old(i)[k] <= n
      /\ \A i, j \in RowsOf(d) : \A k \in DOMAIN Old(i), h \in DOMAIN Old(j) :
            /\ i < j \/ (i = j /\ k < h)
            /\ Old(i)[k] > Space /\ Old(j)[h] > Space
            => Old(i)[k] < Old(j)[h]
      /\ d.truncated \/ \A x \in 1 .. n : x \in d.cut \/ \E i \in RowsOf(d) : \E k \in DOMAIN Old(i) : Old(i)[k] = x
  BY DEF WordsKept, Ascending, Covered, RowsOf
<1>6. m + 1 \in RowsOf(d)
  BY RowsAre
<1> HIDE DEF m, Old, New
<1>7. ASSUME NEW i \in RowsOf(d), NEW k \in DOMAIN New(i)
      PROVE  \/ k \in DOMAIN Old(i) /\ New(i)[k] = Old(i)[k] /\ New(i)[k] \in Int /\ New(i)[k] <= n
             \/ i = m + 1 /\ k = last /\ New(i)[k] = n + 1
  <2>1. CASE i \in 1 .. m
    <3>1. k \in DOMAIN Old(i) /\ New(i)[k] = Old(i)[k]
      BY <1>3, <1>7, <2>1
    <3>2. Old(i)[k] \in Int
      BY <1>4, <3>1
    <3> QED
      BY <1>5, <3>1, <3>2
  <2>2. CASE i = m + 1
    <3>1. k \in 1 .. last /\ New(i)[k] = u[k]
      BY <1>1, <1>3, <1>7, <2>2
    <3>2. CASE k = last
      BY <1>1, <2>2, <3>1, <3>2
    <3>3. CASE k # last
      <4>1. k \in 1 .. Len(t)
        BY <1>1, <1>2, <3>1, <3>3
      <4>2. k \in DOMAIN Old(i) /\ New(i)[k] = Old(i)[k] /\ Old(i)[k] \in Int
        BY <1>1, <1>3, <2>2, <3>1, <4>1
      <4> QED
        BY <1>5, <4>2
    <3> QED
      BY <3>2, <3>3
  <2> QED
    BY <1>4, <2>1, <2>2
<1>8. \A i \in RowsOf(d) : \A k \in DOMAIN New(i) : New(i)[k] <= n + 1
  <2> SUFFICES ASSUME NEW i \in RowsOf(d), NEW k \in DOMAIN New(i) PROVE New(i)[k] <= n + 1
    OBVIOUS
  <2>1. (New(i)[k] \in Int /\ New(i)[k] <= n) \/ New(i)[k] = n + 1
    BY <1>7
  <2> QED
    BY <2>1
<1>9. ASSUME NEW i \in RowsOf(d), NEW j \in RowsOf(d), NEW k \in DOMAIN New(i), NEW h \in DOMAIN New(j),
             i < j \/ (i = j /\ k < h), New(i)[k] > Space, New(j)[h] > Space
      PROVE  New(i)[k] < New(j)[h]
  <2>1. ~ (i = m + 1 /\ k = last)
    <3> SUFFICES ASSUME i = m + 1, k = last PROVE FALSE
      OBVIOUS
    <3>1. ~ (i < j)
      BY <1>3, <1>4
    <3>2. h \in 1 .. last
      BY <1>1, <1>3, <1>9, <3>1
    <3> QED
      BY <1>1, <1>2, <1>9, <3>1, <3>2
  <2>2. k \in DOMAIN Old(i) /\ New(i)[k] = Old(i)[k] /\ New(i)[k] \in Int /\ New(i)[k] <= n
    BY <1>7, <2>1
  <2>3. CASE h \in DOMAIN Old(j) /\ New(j)[h] = Old(j)[h]
    BY <1>5, <1>9, <2>2, <2>3
  <2>4. CASE New(j)[h] = n + 1
    BY <2>2, <2>4
  <2> QED
    BY <1>7, <2>3, <2>4
<1>10. Ascending(d, u, n + 1)
  BY <1>8, <1>9 DEF Ascending, RowsOf, New
<1>11. ASSUME ~ d.truncated, NEW x \in 1 .. n + 1, x \notin d.cut
       PROVE  \E i \in RowsOf(d) : \E k \in DOMAIN New(i) : New(i)[k] = x
  <2>1. CASE x = n + 1
    <3>1. last \in DOMAIN New(m + 1) /\ New(m + 1)[last] = x
      BY <1>1, <1>2, <1>3, <2>1
    <3> QED
      BY <1>6, <3>1
  <2>2. CASE x # n + 1
    <3>1. x \in 1 .. n
      BY <2>2
    <3>2. PICK i \in RowsOf(d) : \E k \in DOMAIN Old(i) : Old(i)[k] = x
      BY <1>5, <1>11, <3>1
    <3>3. PICK k \in DOMAIN Old(i) : Old(i)[k] = x
      BY <3>2
    <3>4. k \in DOMAIN New(i) /\ New(i)[k] = x
      <4>1. CASE i \in 1 .. m
        BY <1>3, <3>3, <4>1
      <4>2. CASE i = m + 1
        <5>1. k \in 1 .. Len(t) /\ t[k] = x
          BY <1>1, <1>3, <3>3, <4>2
        <5>2. k \in 1 .. last
          BY <1>1, <1>2, <5>1
        <5> QED
          BY <1>1, <1>3, <4>2, <5>1, <5>2
      <4> QED
        BY <1>4, <4>1, <4>2
    <3> QED
      BY <3>4
  <2> QED
    BY <2>1, <2>2
<1>12. Covered(d, u, n + 1)
  BY <1>11 DEF Covered, RowsOf, New
<1> QED
  BY <1>10, <1>12 DEF WordsKept, u

LEMMA WordMarked ==
    ASSUME NEW d \in PageDocs, NEW t \in Seq(Int), NEW w \in Seq(Written), NEW f \in Flags, NEW nested,
           WordsKept(d, t, Len(w)), AllMarked(d, t, w, f, nested)
    PROVE  AllMarked(d, Append(t, Len(w) + 1),
                     Append(w, [header |-> f.header, link |-> LinkNow(f),
                                behind |-> \E k \in DOMAIN t : t[k] = Nul]), f, nested)
<1> DEFINE n == Len(w)
           nul == \E k \in DOMAIN t : t[k] = Nul
           r == [header |-> f.header, link |-> LinkNow(f), behind |-> nul]
           v == Append(w, r)
           u == Append(t, n + 1)
<1>1. r \in Written /\ n \in Nat
  BY DEF Written, Flags, LinkNow
<1> HIDE DEF r, nul
<1>2. \A k \in 1 .. n : v[k] = w[k]
  BY <1>1, AppendProperties
<1>3. v[n + 1] = r
  BY <1>1, AppendProperties
<1> HIDE DEF n
<1>4. ASSUME NEW s \in Seq(Int), NEW header, NEW link, Marked(s, w, header, link, nested),
             \A k \in DOMAIN s : s[k] <= n
      PROVE  Marked(s, v, header, link, nested)
  <2> HIDE DEF v
  <2> SUFFICES ASSUME NEW k \in DOMAIN s, s[k] > Space
               PROVE  /\ v[s[k]].header = header /\ (v[s[k]].link \in {0, link} \/ nested)
                      /\ (\E j \in 1 .. k - 1 : s[j] = Nul) => v[s[k]].behind
    BY DEF Marked
  <2>1. s[k] \in Int /\ s[k] <= n
    BY <1>4
  <2>2. s[k] \in 1 .. n
    BY <1>1, <2>1 DEF Space
  <2>3. v[s[k]] = w[s[k]]
    BY <1>2, <2>2
  <2>4. /\ w[s[k]].header = header /\ (w[s[k]].link \in {0, link} \/ nested)
        /\ (\E j \in 1 .. k - 1 : s[j] = Nul) => w[s[k]].behind
    BY <1>4 DEF Marked
  <2> QED
    BY <2>3, <2>4
<1>5. ASSUME NEW i \in DOMAIN d.lines
      PROVE  Marked(d.lines[i].text, v, d.lines[i].header, d.lines[i].link, nested)
  <2>1. i \in 1 .. Len(d.lines)
    BY DEF PageDocs
  <2>2. i \in RowsOf(d) /\ RowIn(d, t, i) = d.lines[i].text /\ d.lines[i] \in Lines
    BY <2>1, RowsAre
  <2> DEFINE s == d.lines[i].text
  <2>3. s \in Seq(Int)
    BY <2>2 DEF Lines
  <2>4. \A k \in DOMAIN s : s[k] <= n
    BY <2>2 DEF WordsKept, Ascending, RowsOf, n
  <2>5. Marked(s, w, d.lines[i].header, d.lines[i].link, nested)
    BY DEF AllMarked
  <2> QED
    BY <1>4, <2>3, <2>4, <2>5
<1>6. /\ u \in Seq(Int) /\ DOMAIN u = 1 .. Len(t) + 1 /\ DOMAIN t = 1 .. Len(t) /\ Len(t) \in Nat
      /\ u[Len(t) + 1] = n + 1 /\ \A k \in 1 .. Len(t) : u[k] = t[k]
  <2>1. n + 1 \in Int
    BY <1>1
  <2>2. u \in Seq(Int) /\ Len(u) = Len(t) + 1 /\ u[Len(t) + 1] = n + 1 /\ \A k \in 1 .. Len(t) : u[k] = t[k]
    BY <2>1, AppendProperties
  <2> HIDE DEF u
  <2> QED
    BY <2>2
<1>7. Marked(t, v, f.header, LinkNow(f), nested)
  <2>1. Len(d.lines) + 1 \in RowsOf(d) /\ RowIn(d, t, Len(d.lines) + 1) = t
    BY RowsAre
  <2>2. \A k \in DOMAIN t : t[k] <= n
    BY <2>1 DEF WordsKept, Ascending, RowsOf, n
  <2>3. Marked(t, w, f.header, LinkNow(f), nested)
    BY DEF AllMarked
  <2> QED
    BY <1>4, <2>2, <2>3
<1> HIDE DEF u, v
<1>8. Marked(u, v, f.header, LinkNow(f), nested)
  <2> SUFFICES ASSUME NEW k \in DOMAIN u, u[k] > Space
               PROVE  /\ v[u[k]].header = f.header /\ (v[u[k]].link \in {0, LinkNow(f)} \/ nested)
                      /\ (\E j \in 1 .. k - 1 : u[j] = Nul) => v[u[k]].behind
    BY DEF Marked
  <2>1. CASE k = Len(t) + 1
    <3>1. v[u[k]] = r
      BY <1>3, <1>6, <2>1
    <3>2. r.header = f.header /\ r.link = LinkNow(f) /\ r.behind = nul
      BY DEF r
    <3>3. ASSUME NEW j \in 1 .. k - 1, u[j] = Nul PROVE nul
      <4>1. j \in DOMAIN t /\ t[j] = Nul
        BY <1>6, <2>1, <3>3
      <4> QED
        BY <4>1 DEF nul
    <3> HIDE DEF nul
    <3> QED
      BY <3>1, <3>2, <3>3
  <2>2. CASE k # Len(t) + 1
    <3>1. k \in DOMAIN t /\ u[k] = t[k]
      BY <1>6, <2>2
    <3>2. \A j \in 1 .. k - 1 : u[j] = t[j]
      BY <1>6, <3>1
    <3> QED
      BY <1>7, <3>1, <3>2 DEF Marked
  <2> QED
    BY <2>1, <2>2
<1> QED
  BY ONLY <1>5, <1>8 DEF AllMarked, u, v, n, r, nul

-----------------------------------------------------------------------------
(* Lists begin and end *)

LEMMA PoppedIs ==
    ASSUME NEW S, NEW s \in Seq(S)
    PROVE  /\ Popped(s) \in Seq(S) /\ Len(Popped(s)) = (IF s = << >> THEN 0 ELSE Len(s) - 1)
           /\ Len(s) \in Nat /\ (s # << >> => Len(s) > 0)
           /\ \A k \in 1 .. Len(Popped(s)) : k \in 1 .. Len(s) /\ Popped(s)[k] = s[k]
<1> DEFINE n == Len(s)
           u == SubSeq(s, 1, n - 1)
<1>1. n \in Nat /\ (s # << >> => n > 0) /\ (s = << >> => n = 0)
  BY EmptySeq
<1>2. CASE s = << >>
  <2>1. Popped(s) = s
    BY <1>2 DEF Popped
  <2> QED
    BY <1>1, <1>2, <2>1
<1>3. CASE s # << >>
  <2>1. Popped(s) = u
    BY <1>3 DEF Popped
  <2>2. \A i \in 1 .. n - 1 : s[i] \in S
    BY <1>1
  <2> HIDE DEF n
  <2>3. /\ u \in Seq(S) /\ Len(u) = (IF 1 <= n - 1 THEN n - 1 - 1 + 1 ELSE 0)
        /\ \A i \in 1 .. n - 1 - 1 + 1 : u[i] = s[1 + i - 1]
    BY <1>1, <1>3, <2>2, SubSeqProperties
  <2> HIDE DEF u
  <2>4. Len(u) = n - 1 /\ \A i \in 1 .. n - 1 : u[i] = s[i] /\ i \in 1 .. n
    BY <1>1, <1>3, <2>3
  <2> QED
    BY <1>1, <1>3, <2>1, <2>3, <2>4 DEF n
<1> QED
  BY <1>2, <1>3

LEMMA PushCounted ==
    ASSUME NEW d \in PageDocs, NEW ls \in Seq(Levels), NEW p \in Pasts, NEW q \in Pasts, NEW kind \in {"ul", "ol"},
           q.lists = p.lists + 1, q.open = Append(p.open, p.lists + 1), Counted(d, ls, p)
    PROVE  Counted(d, Append(ls, [kind |-> kind, count |-> 0]), q)
<1> DEFINE n == Len(d.lines)
           top == Len(ls)
           x == p.lists + 1
           r == [kind |-> kind, count |-> 0]
           new == Append(ls, r)
           open == Append(p.open, x)
           Of(i) == d.lines[i].mark.list
<1>1. /\ Len(p.open) = top
      /\ \A k \in 1 .. top : p.open[k] \in 1 .. p.lists /\ ls[k].count = Cardinality(Items(d, n, p.open[k]))
      /\ \A j, k \in 1 .. top : j < k => p.open[j] < p.open[k]
      /\ \A i \in 1 .. n : Of(i) <= p.lists
      /\ \A i \in 1 .. n : Of(i) # 0 => d.lines[i].mark.number = 1 + Cardinality(Items(d, i - 1, Of(i)))
  BY DEF Counted
<1>2. p.lists \in Nat /\ p.open \in Seq(Nat) /\ x \in Nat /\ r \in Levels /\ top \in Nat /\ r.count = 0
  BY DEF Pasts, Levels
<1> HIDE DEF r
<1>3. Len(new) = top + 1 /\ new[top + 1] = r /\ \A k \in 1 .. top : new[k] = ls[k]
  BY <1>2, AppendProperties
<1> HIDE DEF x
<1>4. Len(open) = top + 1 /\ open[top + 1] = x /\ \A k \in 1 .. top : open[k] = p.open[k]
  BY <1>1, <1>2, AppendProperties
<1>5. Cardinality(Items(d, n, x)) = 0
  <2>1. d.lines \in Seq(Lines) /\ n \in Nat
    BY DEF PageDocs
  <2>2. \A i \in 1 .. n : d.lines[i] \in Lines
    BY <2>1
  <2>3. \A i \in 1 .. n : d.lines[i].mark.list \in Nat
    BY <2>2 DEF Lines
  <2>4. \A i \in 1 .. n : d.lines[i].mark.list # x
    BY <1>1, <1>2, <2>3 DEF x
  <2>5. Items(d, n, x) = {}
    BY <2>4 DEF Items
  <2> QED
    BY <2>5, FS_EmptySet
<1>6. open = q.open /\ q.lists = p.lists + 1
  BY DEF x
<1> HIDE DEF n, top, new, open, Of
<1>7. ASSUME NEW k \in 1 .. top + 1
      PROVE  open[k] \in 1 .. p.lists + 1 /\ new[k].count = Cardinality(Items(d, n, open[k]))
  <2>1. CASE k \in 1 .. top
    <3>1. p.open[k] \in 1 .. p.lists + 1
      BY <1>1, <1>2, <2>1
    <3> QED
      BY <1>1, <1>3, <1>4, <2>1, <3>1
  <2>2. CASE k = top + 1
    BY <1>2, <1>3, <1>4, <1>5, <2>2 DEF x
  <2>3. k \in 1 .. top \/ k = top + 1
    BY <1>2
  <2> QED
    BY <2>1, <2>2, <2>3, Zenon
<1>8. ASSUME NEW j \in 1 .. top + 1, NEW k \in 1 .. top + 1, j < k PROVE open[j] < open[k]
  <2>1. j \in 1 .. top
    BY <1>2, <1>8
  <2>2. CASE k \in 1 .. top
    BY <1>1, <1>4, <1>8, <2>1, <2>2
  <2>3. CASE k = top + 1
    <3>1. p.open[j] \in 1 .. p.lists
      BY <1>1, <2>1
    <3>2. open[j] = p.open[j] /\ open[k] = p.lists + 1
      BY <1>4, <2>1, <2>3 DEF x
    <3> QED
      BY <1>2, <3>1, <3>2
  <2> QED
    BY <1>2, <2>2, <2>3
<1>9. \A i \in 1 .. n : Of(i) <= p.lists + 1
  <2>1. \A i \in 1 .. n : Of(i) \in Nat
    <3>1. d.lines \in Seq(Lines)
      BY DEF PageDocs
    <3>2. \A i \in 1 .. Len(d.lines) : d.lines[i] \in Lines
      BY <3>1
    <3> QED
      BY <3>2 DEF Lines, n, Of
  <2> QED
    BY <1>1, <1>2, <2>1
<1> HIDE DEF Items
<1>10. /\ Len(q.open) = Len(new)
       /\ \A k \in 1 .. Len(new) : q.open[k] \in 1 .. q.lists /\ new[k].count = Cardinality(Items(d, Len(d.lines), q.open[k]))
       /\ \A j, k \in 1 .. Len(new) : j < k => q.open[j] < q.open[k]
  BY <1>3, <1>4, <1>6, <1>7, <1>8 DEF n
<1>11. \A i \in 1 .. Len(d.lines) :
          /\ d.lines[i].mark.list <= q.lists
          /\ d.lines[i].mark.list # 0 => d.lines[i].mark.number = 1 + Cardinality(Items(d, i - 1, d.lines[i].mark.list))
  BY <1>1, <1>6, <1>9 DEF n, Of
<1>12. Counted(d, new, q)
  BY <1>10, <1>11 DEF Counted
<1> QED
  BY <1>12 DEF new, r

LEMMA PopCounted ==
    ASSUME NEW d \in PageDocs, NEW ls \in Seq(Levels), NEW p \in Pasts, NEW q \in Pasts,
           q.lists = p.lists, q.open = Popped(p.open), Counted(d, ls, p)
    PROVE  Counted(d, Popped(ls), q)
<1> DEFINE n == Len(d.lines)
           new == Popped(ls)
<1>1. /\ Len(p.open) = Len(ls)
      /\ \A k \in 1 .. Len(ls) : p.open[k] \in 1 .. p.lists /\ ls[k].count = Cardinality(Items(d, n, p.open[k]))
      /\ \A j, k \in 1 .. Len(ls) : j < k => p.open[j] < p.open[k]
      /\ \A i \in 1 .. n :
            LET m == d.lines[i].mark
            IN  /\ m.list <= p.lists
                /\ m.list # 0 => m.number = 1 + Cardinality(Items(d, i - 1, m.list))
  BY DEF Counted
<1>2. p.open \in Seq(Nat)
  BY DEF Pasts
<1>3. /\ Len(new) = (IF ls = << >> THEN 0 ELSE Len(ls) - 1)
      /\ Len(ls) \in Nat /\ (ls # << >> => Len(ls) > 0) /\ (ls = << >> => Len(ls) = 0)
      /\ \A k \in 1 .. Len(new) : k \in 1 .. Len(ls) /\ new[k] = ls[k]
  BY PoppedIs
<1>4. /\ Len(q.open) = (IF p.open = << >> THEN 0 ELSE Len(p.open) - 1)
      /\ (p.open # << >> => Len(p.open) > 0) /\ (p.open = << >> => Len(p.open) = 0)
      /\ \A k \in 1 .. Len(q.open) : q.open[k] = p.open[k]
  <2> DEFINE o == Popped(p.open)
  <2>1. /\ Len(o) = (IF p.open = << >> THEN 0 ELSE Len(p.open) - 1) /\ Len(p.open) \in Nat
        /\ (p.open # << >> => Len(p.open) > 0)
        /\ \A k \in 1 .. Len(o) : o[k] = p.open[k]
    BY <1>2, PoppedIs
  <2> HIDE DEF o
  <2>2. q.open = o /\ (p.open = << >> => Len(p.open) = 0)
    BY <1>2 DEF o
  <2> QED
    BY <2>1, <2>2
<1> HIDE DEF new
<1>5. Len(q.open) = Len(new)
  BY <1>1, <1>3, <1>4
<1>6. \A k \in 1 .. Len(new) : q.open[k] \in 1 .. q.lists /\ new[k].count = Cardinality(Items(d, n, q.open[k]))
  BY <1>1, <1>3, <1>4, <1>5
<1>7. \A j, k \in 1 .. Len(new) : j < k => q.open[j] < q.open[k]
  BY <1>1, <1>3, <1>4, <1>5
<1>8. Counted(d, new, q)
  BY <1>1, <1>5, <1>6, <1>7 DEF Counted
<1> QED
  BY <1>8 DEF new

-----------------------------------------------------------------------------
(* The steps of the parser *)

LEMMA AsLineMode == ASSUME HtmlAssumption, HtmlTyped PROVE Mode(AsLine) /\ AsLine.mark = NoMark
<1>1. Len(lists) \in Nat /\ flags.quotes \in Nat
  BY DEF HtmlTyped, Flags, HtmlAssumption
<1> QED
  BY <1>1 DEF AsLine, Mode, NoMark, Indent

LEMMA FlushesOf ==
    ASSUME HtmlAssumption, HtmlInv, NEW how, Mode(how), NEW g,
           NEW d \in PageDocs, d.lines = doc.lines, NEW p \in Seq(Int),
           WordsKept(d, p, Len(words)), AllMarked(d, p, words, flags, past.nested)
    PROVE  LET e == Flushed(d, p, how)
           IN  /\ e \in PageDocs /\ Len(e.lines) <= MaxLines /\ Len(doc.lines) \in Nat
               /\ WordsKept(e, << >>, Len(words)) /\ AllMarked(e, << >>, words, g, past.nested)
               /\ \/ e.lines = doc.lines
                  \/ \E l \in Lines : /\ e.lines = Append(doc.lines, l) /\ l.mark = how.mark
                                      /\ Len(e.lines) = Len(doc.lines) + 1
               /\ how.mark = NoMark /\ past.deepest <= ListDepth => Counted(e, lists, past)
<1> DEFINE e == Flushed(d, p, how)
<1>1. /\ HtmlTyped /\ doc \in PageDocs /\ words \in Seq(Written) /\ lists \in Seq(Levels) /\ past \in Pasts
      /\ Len(d.lines) <= MaxLines
      /\ (past.deepest <= ListDepth => Counted(doc, lists, past))
  BY DEF HtmlInv, HtmlTyped, Levels
<1>2. e \in PageDocs /\ Len(e.lines) <= MaxLines
  BY <1>1, FlushedIs
<1>3. \/ e.lines = doc.lines
      \/ \E s \in Seq(Int) : e.lines = Append(doc.lines, Line(s, how.mark)) /\ Line(s, how.mark) \in Lines
  <2>1. \/ e.lines = d.lines
        \/ \E s \in Seq(Int) : e.lines = Append(d.lines, Line(s, how.mark)) /\ Line(s, how.mark) \in Lines
    BY <1>1, FlushedIs
  <2> HIDE DEF e
  <2> QED
    BY <2>1
<1>4. WordsKept(e, << >>, Len(words)) /\ AllMarked(e, << >>, words, g, past.nested)
  <2>1. Len(words) \in Nat
    BY <1>1
  <2> QED
    BY <1>1, <2>1, FlushKept, FlushMarked
<1>5. Len(doc.lines) \in Nat
  BY <1>1 DEF PageDocs
<1> HIDE DEF e
<1>6. \/ e.lines = doc.lines
      \/ \E l \in Lines : /\ e.lines = Append(doc.lines, l) /\ l.mark = how.mark
                          /\ Len(e.lines) = Len(doc.lines) + 1
  <2> SUFFICES ASSUME NEW s \in Seq(Int), e.lines = Append(doc.lines, Line(s, how.mark)), Line(s, how.mark) \in Lines
               PROVE  \E l \in Lines : /\ e.lines = Append(doc.lines, l) /\ l.mark = how.mark
                                       /\ Len(e.lines) = Len(doc.lines) + 1
    BY <1>3
  <2> DEFINE l == Line(s, how.mark)
  <2>1. l.mark = how.mark
    BY DEF Line
  <2>2. l \in Lines /\ e.lines = Append(doc.lines, l)
    OBVIOUS
  <2> HIDE DEF l
  <2>3. doc.lines \in Seq(Lines)
    BY <1>1 DEF PageDocs
  <2>4. Len(e.lines) = Len(doc.lines) + 1
    BY <2>2, <2>3, AppendProperties
  <2> QED
    BY <2>1, <2>2, <2>4
<1>7. ASSUME how.mark = NoMark, past.deepest <= ListDepth PROVE Counted(e, lists, past)
  <2>1. CASE e.lines = doc.lines
    <3>1. \A i, x : Items(e, i, x) = Items(doc, i, x)
      BY <2>1 DEF Items
    <3>2. Counted(doc, lists, past)
      BY <1>1, <1>7
    <3> QED
      BY <2>1, <3>1, <3>2 DEF Counted
  <2>2. ASSUME NEW l \in Lines, e.lines = Append(doc.lines, l), l.mark = how.mark PROVE Counted(e, lists, past)
    <3>1. l.mark.list = 0
      BY <1>7, <2>2 DEF NoMark
    <3> QED
      BY <1>1, <1>2, <1>7, <2>2, <3>1, PlainCounted
  <2> QED
    BY <1>6, <2>1, <2>2
<1> QED
  BY <1>2, <1>4, <1>5, <1>6, <1>7 DEF e

LEMMA Flushes ==
    ASSUME HtmlAssumption, HtmlInv, NEW how, Mode(how), NEW g
    PROVE  LET e == Flushed(doc, text, how)
           IN  /\ e \in PageDocs /\ Len(e.lines) <= MaxLines /\ Len(doc.lines) \in Nat
               /\ WordsKept(e, << >>, Len(words)) /\ AllMarked(e, << >>, words, g, past.nested)
               /\ \/ e.lines = doc.lines
                  \/ \E l \in Lines : /\ e.lines = Append(doc.lines, l) /\ l.mark = how.mark
                                      /\ Len(e.lines) = Len(doc.lines) + 1
               /\ how.mark = NoMark /\ past.deepest <= ListDepth => Counted(e, lists, past)
<1>1. /\ doc \in PageDocs /\ text \in Seq(Int)
      /\ WordsKept(doc, text, Len(words)) /\ AllMarked(doc, text, words, flags, past.nested)
  BY DEF HtmlInv, HtmlTyped
<1> QED
  BY <1>1, FlushesOf

(* The pending text is put out, and lists stay. *)
LEMMA FlushStep ==
    ASSUME HtmlAssumption, HtmlInv, FlushLine, lists' = lists, past' = past, words' = words, flags' \in Flags
    PROVE  HtmlInv'
<1> DEFINE e == Flushed(doc, text, AsLine)
<1>1. Mode(AsLine) /\ AsLine.mark = NoMark
  BY AsLineMode DEF HtmlInv
<1>2. /\ e \in PageDocs /\ Len(e.lines) <= MaxLines
      /\ WordsKept(e, << >>, Len(words)) /\ AllMarked(e, << >>, words, flags', past.nested)
      /\ (past.deepest <= ListDepth => Counted(e, lists, past))
  BY <1>1, Flushes
<1>3. Len(doc.lines) \in Nat /\ (e.lines = doc.lines \/ Len(e.lines) = Len(doc.lines) + 1)
  BY <1>1, Flushes
<1>4. doc' = e /\ text' = << >>
  BY DEF FlushLine
<1> HIDE DEF e
<1>5. \A i \in DOMAIN lists : lists[i].count <= Len(e.lines)
  <2>1. lists \in Seq(Levels) /\ \A i \in DOMAIN lists : lists[i].count <= Len(doc.lines)
    BY DEF HtmlInv, HtmlTyped, Levels
  <2>2. \A i \in DOMAIN lists : lists[i].count \in Nat
    <3>1. \A i \in DOMAIN lists : lists[i] \in Levels
      BY <2>1
    <3> QED
      BY <3>1 DEF Levels
  <2> QED
    BY <1>3, <2>1, <2>2
<1>6. HtmlTyped'
  <2>1. /\ lists \in Seq([kind : {"ul", "ol"}, count : Nat]) /\ Len(lists) <= ListDepth
        /\ words \in Seq(Written) /\ past \in Pasts /\ Len(lists) <= Len(past.open)
    BY DEF HtmlInv, HtmlTyped
  <2>2. << >> \in Seq(Int) /\ Len(<< >>) <= TextCap
    BY DEF HtmlAssumption
  <2> QED
    BY <1>2, <1>4, <1>5, <2>1, <2>2 DEF HtmlTyped
<1>7. (Len(past.open) <= past.deepest)'
  BY DEF HtmlInv
<1> QED
  BY <1>2, <1>4, <1>6, <1>7 DEF HtmlInv

LEMMA CountsGrow ==
    ASSUME HtmlTyped, NEW n \in Nat, Len(doc.lines) <= n
    PROVE  \A i \in DOMAIN lists : lists[i] \in Levels /\ lists[i].count <= n
<1>1. lists \in Seq(Levels) /\ doc.lines \in Seq(Lines) /\ \A i \in DOMAIN lists : lists[i].count <= Len(doc.lines)
  BY DEF HtmlTyped, Levels, PageDocs
<1>2. \A i \in DOMAIN lists : lists[i] \in Levels
  BY <1>1
<1>3. \A i \in DOMAIN lists : lists[i].count \in Nat
  BY <1>2 DEF Levels
<1> QED
  BY <1>1, <1>2, <1>3

LEMMA ListStep ==
    ASSUME HtmlAssumption, HtmlInv, NEW t, List(t)
    PROVE  HtmlInv'
<1> DEFINE e == Flushed(doc, text, AsLine)
           x == past.lists + 1
           ls == ListPushed(t)
           q == [past EXCEPT !.lists = @ + 1, !.open = Append(@, past.lists + 1),
                             !.deepest = IF @ > Len(past.open) THEN @ ELSE Len(past.open) + 1]
<1>1. Mode(AsLine) /\ AsLine.mark = NoMark
  BY AsLineMode DEF HtmlInv
<1>2. /\ e \in PageDocs /\ Len(e.lines) <= MaxLines
      /\ WordsKept(e, << >>, Len(words)) /\ AllMarked(e, << >>, words, flags, past.nested)
      /\ (past.deepest <= ListDepth => Counted(e, lists, past))
  BY <1>1, Flushes
<1>3. Len(doc.lines) \in Nat /\ (e.lines = doc.lines \/ Len(e.lines) = Len(doc.lines) + 1)
  BY <1>1, Flushes
<1>4. /\ doc' = e /\ text' = << >> /\ lists' = ls /\ past' = q /\ flags' = flags /\ words' = words
      /\ t \in {"ul", "ol"}
  BY DEF List, FlushLine
<1>5. /\ past \in Pasts /\ past.lists \in Nat /\ past.open \in Seq(Nat) /\ Len(past.open) \in Nat
      /\ past.deepest \in Nat /\ Len(past.open) <= past.deepest /\ Len(lists) <= Len(past.open)
      /\ lists \in Seq(Levels) /\ Len(lists) \in Nat /\ Len(lists) <= ListDepth /\ ListDepth \in Nat
  BY DEF HtmlInv, HtmlTyped, Pasts, Levels, HtmlAssumption
<1> HIDE DEF e
<1>6. Len(e.lines) \in Nat /\ Len(doc.lines) <= Len(e.lines)
  BY <1>3
<1>7. /\ q \in Pasts /\ q.lists = x /\ q.open = Append(past.open, x) /\ q.nested = past.nested
      /\ q.deepest = (IF past.deepest > Len(past.open) THEN past.deepest ELSE Len(past.open) + 1)
  <2> DEFINE o == Append(past.open, x)
             dp == IF past.deepest > Len(past.open) THEN past.deepest ELSE Len(past.open) + 1
  <2>1. o \in Seq(Nat) /\ x \in Nat /\ dp \in Nat
    BY <1>5
  <2>2. q = [past EXCEPT !.lists = x, !.open = o, !.deepest = dp]
    BY <1>5 DEF Pasts
  <2> HIDE DEF o, dp, x
  <2> QED
    BY <1>5, <2>1, <2>2 DEF Pasts, o, dp, x
<1>8. Len(q.open) = Len(past.open) + 1
  BY <1>5, <1>7, AppendProperties
<1> HIDE DEF q
<1>9. Len(q.open) <= q.deepest
  BY <1>5, <1>7, <1>8
<1>10. /\ ls \in Seq(Levels) /\ Len(ls) <= ListDepth /\ Len(ls) <= Len(q.open)
       /\ \A i \in DOMAIN ls : ls[i].count <= Len(e.lines)
  <2>1. CASE ~ (Len(lists) < ListDepth)
    <3>1. ls = lists
      BY <2>1 DEF ListPushed
    <3>2. \A i \in DOMAIN lists : lists[i].count <= Len(e.lines)
      BY <1>6, CountsGrow DEF HtmlInv
    <3> QED
      BY <1>5, <1>8, <3>1, <3>2
  <2>2. CASE Len(lists) < ListDepth
    <3> DEFINE r == [kind |-> t, count |-> 0]
               n == Len(lists)
    <3>1. ls = Append(lists, r)
      BY <2>2 DEF ListPushed
    <3>2. r \in Levels /\ r.count = 0
      BY <1>4 DEF Levels
    <3> HIDE DEF r, ls
    <3>3. ls \in Seq(Levels) /\ Len(ls) = n + 1 /\ ls[n + 1] = r /\ \A i \in 1 .. n : ls[i] = lists[i]
      BY <1>5, <3>1, <3>2, AppendProperties
    <3>4. \A i \in DOMAIN lists : lists[i].count <= Len(e.lines)
      BY <1>6, CountsGrow DEF HtmlInv
    <3>5. DOMAIN ls = 1 .. n + 1 /\ DOMAIN lists = 1 .. n
      BY <1>5, <3>3
    <3> HIDE DEF n
    <3>6. \A i \in 1 .. n + 1 : i \in 1 .. n \/ i = n + 1
      BY <1>5 DEF n
    <3>7. \A i \in DOMAIN ls : ls[i].count <= Len(e.lines)
      BY <1>6, <3>2, <3>3, <3>4, <3>5, <3>6
    <3>8. Len(ls) <= ListDepth /\ Len(ls) <= Len(q.open)
      BY <1>5, <1>8, <2>2, <3>3 DEF n
    <3> QED
      BY <3>3, <3>7, <3>8
  <2> QED
    BY <2>1, <2>2
<1>11. ASSUME q.deepest <= ListDepth PROVE Counted(e, ls, q)
  <2>1. past.deepest <= ListDepth /\ Len(past.open) < ListDepth
    BY <1>5, <1>7, <1>11
  <2>2. Counted(e, lists, past)
    BY <1>2, <2>1
  <2>3. Len(lists) < ListDepth
    BY <1>5, <2>1
  <2>4. ls = Append(lists, [kind |-> t, count |-> 0])
    BY <2>3 DEF ListPushed
  <2> HIDE DEF ls
  <2> QED
    BY <1>2, <1>4, <1>5, <1>7, <2>2, <2>4, PushCounted
<1> HIDE DEF ls
<1>12. HtmlTyped'
  <2>1. words \in Seq(Written) /\ flags \in Flags
    BY DEF HtmlInv, HtmlTyped
  <2>2. << >> \in Seq(Int) /\ Len(<< >>) <= TextCap
    BY DEF HtmlAssumption
  <2> QED
    BY <1>2, <1>4, <1>7, <1>10, <2>1, <2>2 DEF HtmlTyped, Levels
<1> QED
  BY <1>2, <1>4, <1>7, <1>9, <1>11, <1>12 DEF HtmlInv

LEMMA ListEndStep ==
    ASSUME HtmlAssumption, HtmlInv, NEW t, ListEnd(t)
    PROVE  HtmlInv'
<1> DEFINE e == Flushed(doc, text, AsLine)
           ls == Popped(lists)
           q == [past EXCEPT !.open = Popped(@)]
<1>1. Mode(AsLine) /\ AsLine.mark = NoMark
  BY AsLineMode DEF HtmlInv
<1>2. /\ e \in PageDocs /\ Len(e.lines) <= MaxLines
      /\ WordsKept(e, << >>, Len(words)) /\ AllMarked(e, << >>, words, flags, past.nested)
      /\ (past.deepest <= ListDepth => Counted(e, lists, past))
  BY <1>1, Flushes
<1>3. Len(doc.lines) \in Nat /\ (e.lines = doc.lines \/ Len(e.lines) = Len(doc.lines) + 1)
  BY <1>1, Flushes
<1>4. doc' = e /\ text' = << >> /\ lists' = ls /\ past' = q /\ flags' = flags /\ words' = words
  BY DEF ListEnd, FlushLine
<1>5. /\ past \in Pasts /\ past.open \in Seq(Nat) /\ Len(past.open) \in Nat
      /\ past.deepest \in Nat /\ Len(past.open) <= past.deepest /\ Len(lists) <= Len(past.open)
      /\ lists \in Seq(Levels) /\ Len(lists) \in Nat /\ Len(lists) <= ListDepth /\ ListDepth \in Nat
  BY DEF HtmlInv, HtmlTyped, Pasts, Levels, HtmlAssumption
<1> HIDE DEF e
<1>6. Len(e.lines) \in Nat /\ Len(doc.lines) <= Len(e.lines)
  BY <1>3
<1>7. /\ Popped(past.open) \in Seq(Nat)
      /\ Len(Popped(past.open)) = (IF past.open = << >> THEN 0 ELSE Len(past.open) - 1)
      /\ (past.open # << >> => Len(past.open) > 0) /\ (past.open = << >> => Len(past.open) = 0)
  BY <1>5, PoppedIs
<1>8. q \in Pasts /\ q.lists = past.lists /\ q.open = Popped(past.open) /\ q.nested = past.nested /\ q.deepest = past.deepest
  <2> DEFINE o == Popped(past.open)
  <2>1. o \in Seq(Nat) /\ q = [past EXCEPT !.open = o]
    BY <1>7
  <2> HIDE DEF o
  <2> QED
    BY <1>5, <2>1 DEF Pasts, o
<1> HIDE DEF q
<1>9. /\ ls \in Seq(Levels) /\ Len(ls) = (IF lists = << >> THEN 0 ELSE Len(lists) - 1)
      /\ (lists # << >> => Len(lists) > 0) /\ (lists = << >> => Len(lists) = 0)
      /\ \A k \in 1 .. Len(ls) : k \in 1 .. Len(lists) /\ ls[k] = lists[k]
  BY <1>5, PoppedIs
<1> HIDE DEF ls
<1>10. Len(ls) <= ListDepth /\ Len(ls) <= Len(q.open) /\ Len(q.open) <= q.deepest
  <2> DEFINE m == Len(lists)
             n == Len(past.open)
             d == past.deepest
  <2>1. m \in Nat /\ n \in Nat /\ d \in Nat /\ n <= d /\ m <= n /\ m <= ListDepth /\ ListDepth \in Nat
    BY <1>5
  <2>2. \/ lists = << >> /\ m = 0 /\ Len(ls) = 0
        \/ m > 0 /\ Len(ls) = m - 1
    BY <1>9
  <2>3. \/ n = 0 /\ Len(q.open) = 0
        \/ n > 0 /\ Len(q.open) = n - 1
    BY <1>7, <1>8
  <2>4. q.deepest = d
    BY <1>8
  <2> HIDE DEF m, n, d
  <2> QED
    BY <2>1, <2>2, <2>3, <2>4
<1>11. \A i \in DOMAIN ls : ls[i].count <= Len(e.lines)
  <2>1. \A i \in DOMAIN lists : lists[i].count <= Len(e.lines)
    BY <1>6, CountsGrow DEF HtmlInv
  <2>2. DOMAIN ls = 1 .. Len(ls) /\ DOMAIN lists = 1 .. Len(lists)
    BY <1>5, <1>9
  <2> QED
    BY <1>9, <2>1, <2>2
<1>12. ASSUME q.deepest <= ListDepth PROVE Counted(e, ls, q)
  <2>1. Counted(e, lists, past)
    BY <1>2, <1>8, <1>12
  <2>2. Counted(e, Popped(lists), q)
    BY <1>2, <1>5, <1>8, <2>1, PopCounted
  <2> QED
    BY <2>2 DEF ls
<1>13. HtmlTyped'
  <2>1. words \in Seq(Written) /\ flags \in Flags
    BY DEF HtmlInv, HtmlTyped
  <2>2. << >> \in Seq(Int) /\ Len(<< >>) <= TextCap
    BY DEF HtmlAssumption
  <2> QED
    BY <1>2, <1>4, <1>8, <1>9, <1>10, <1>11, <2>1, <2>2 DEF HtmlTyped, Levels
<1> QED
  BY <1>2, <1>4, <1>8, <1>10, <1>12, <1>13 DEF HtmlInv

LEMMA ItemEndStep ==
    ASSUME HtmlAssumption, HtmlInv, NEW t, ItemEnd(t)
    PROVE  HtmlInv'
<1> DEFINE e == Flushed(doc, text, AsItem)
           top == Len(lists)
           ls == [lists EXCEPT ![top].count = @ + 1]
<1>1. /\ past \in Pasts /\ past.open \in Seq(Nat) /\ Len(past.open) \in Nat
      /\ Len(past.open) <= past.deepest /\ top <= Len(past.open)
      /\ lists \in Seq(Levels) /\ top \in Nat /\ top <= ListDepth /\ ListDepth \in Nat
      /\ flags \in Flags /\ words \in Seq(Written) /\ flags.quotes \in Nat
  BY DEF HtmlInv, HtmlTyped, Pasts, Levels, Flags, HtmlAssumption
<1>2. lists # << >> => top \in 1 .. top /\ lists[top] \in Levels
  BY <1>1, EmptySeq
<1>3. Mode(AsItem) /\ (~ Numbered => AsItem.mark = NoMark)
  <2>1. Indent \in Nat
    BY <1>1 DEF Indent
  <2>2. CASE Numbered
    <3>1. top \in 1 .. top /\ lists[top].count \in Nat
      BY <1>2, <2>2 DEF Numbered, Levels
    <3>2. past.open[Len(past.open)] \in Nat
      BY <1>1, <3>1
    <3> HIDE DEF Indent
    <3> QED
      BY <2>1, <2>2, <3>1, <3>2 DEF Mode, AsItem, Top
  <2>3. CASE ~ Numbered
    BY <2>1, <2>3 DEF Mode, AsItem, NoMark
  <2> QED
    BY <2>2, <2>3
<1>4. /\ e \in PageDocs /\ Len(e.lines) <= MaxLines /\ Len(doc.lines) \in Nat
      /\ WordsKept(e, << >>, Len(words)) /\ AllMarked(e, << >>, words, flags, past.nested)
      /\ \/ e.lines = doc.lines
         \/ \E l \in Lines : /\ e.lines = Append(doc.lines, l) /\ l.mark = AsItem.mark
                             /\ Len(e.lines) = Len(doc.lines) + 1
      /\ (AsItem.mark = NoMark /\ past.deepest <= ListDepth => Counted(e, lists, past))
  BY <1>3, Flushes
<1>5. /\ doc' = e /\ text' = << >> /\ past' = past /\ flags' = flags /\ words' = words
      /\ lists' = IF Numbered /\ Len(e.lines) > Len(doc.lines) THEN ls ELSE lists
  BY DEF ItemEnd
<1> HIDE DEF e
<1>6. Len(e.lines) \in Nat /\ Len(doc.lines) <= Len(e.lines)
  BY <1>4
<1>7. \A i \in DOMAIN lists : lists[i] \in Levels /\ lists[i].count <= Len(e.lines)
  BY <1>6, CountsGrow DEF HtmlInv
<1>8. << >> \in Seq(Int) /\ Len(<< >>) <= TextCap
  BY DEF HtmlAssumption
<1>9. CASE ~ (Numbered /\ Len(e.lines) > Len(doc.lines))
  <2>1. lists' = lists
    BY <1>5, <1>9
  <2>2. HtmlTyped'
    BY <1>1, <1>4, <1>5, <1>7, <1>8, <2>1 DEF HtmlTyped, Levels
  <2>3. ASSUME past.deepest <= ListDepth PROVE Counted(e, lists, past)
    <3>1. CASE ~ Numbered
      BY <1>3, <1>4, <2>3, <3>1
    <3>2. CASE Numbered
      <4>1. e.lines = doc.lines
        BY <1>4, <1>9, <3>2
      <4>2. \A i, x : Items(e, i, x) = Items(doc, i, x)
        BY <4>1 DEF Items
      <4>3. Counted(doc, lists, past)
        BY <2>3 DEF HtmlInv
      <4> QED
        BY <4>1, <4>2, <4>3 DEF Counted
    <3> QED
      BY <3>1, <3>2
  <2> QED
    BY <1>1, <1>4, <1>5, <2>1, <2>2, <2>3 DEF HtmlInv
<1>10. CASE Numbered /\ Len(e.lines) > Len(doc.lines)
  <2>1. lists' = ls
    BY <1>5, <1>10
  <2>2. lists # << >> /\ top \in 1 .. top /\ lists[top] \in Levels
    BY <1>2, <1>10 DEF Numbered
  <2>3. AsItem.mark = [list |-> past.open[Len(past.open)], number |-> lists[top].count + 1]
    BY <1>10 DEF AsItem, Top
  <2>4. PICK l \in Lines : /\ e.lines = Append(doc.lines, l) /\ l.mark = AsItem.mark
                           /\ Len(e.lines) = Len(doc.lines) + 1
    BY <1>4, <1>10
  <2>5. doc \in PageDocs
    BY DEF HtmlInv, HtmlTyped
  <2>6. ASSUME past.deepest <= ListDepth PROVE Counted(e, ls, past)
    <3>1. Counted(doc, lists, past)
      BY <2>6 DEF HtmlInv
    <3> QED
      BY <1>1, <1>4, <2>2, <2>3, <2>4, <2>5, <3>1, ItemCounted
  <2>7. /\ ls \in Seq(Levels) /\ Len(ls) = top /\ DOMAIN ls = 1 .. top
        /\ ls[top] = [lists[top] EXCEPT !.count = @ + 1]
        /\ \A k \in 1 .. top : k # top => ls[k] = lists[k]
    <3>1. [lists[top] EXCEPT !.count = @ + 1] \in Levels
      BY <2>2 DEF Levels
    <3>2. DOMAIN lists = 1 .. top
      BY <1>1
    <3> QED
      BY <1>1, <2>2, <3>1, <3>2
  <2> HIDE DEF ls
  <2>8. ls[top].count = lists[top].count + 1
    BY <2>2, <2>7 DEF Levels
  <2>9. \A i \in DOMAIN ls : ls[i].count <= Len(e.lines)
    <3>1. lists[top].count <= Len(doc.lines) /\ lists[top].count \in Nat
      <4>1. lists[top].count <= Len(doc.lines)
        BY <1>1, <2>2 DEF HtmlInv, HtmlTyped
      <4> QED
        BY <2>2, <4>1 DEF Levels
    <3>2. ls[top].count <= Len(e.lines)
      BY <1>4, <2>4, <2>8, <3>1
    <3>3. \A i \in 1 .. top : i # top => ls[i].count <= Len(e.lines)
      <4>1. DOMAIN lists = 1 .. top
        BY <1>1
      <4> QED
        BY <1>7, <2>7, <4>1
    <3> QED
      BY <2>7, <3>2, <3>3
  <2>10. HtmlTyped'
    BY <1>1, <1>4, <1>5, <1>8, <2>1, <2>7, <2>9 DEF HtmlTyped, Levels
  <2> QED
    BY <1>1, <1>4, <1>5, <2>1, <2>6, <2>10 DEF HtmlInv
<1> QED
  BY <1>9, <1>10

LEMMA RuleStep ==
    ASSUME HtmlAssumption, HtmlInv, NEW t, HorizontalRule(t)
    PROVE  HtmlInv'
<1> DEFINE d == Flushed(doc, text, AsLine)
           l == [text |-> <<Rule>>, mark |-> NoMark, header |-> 0, link |-> 0]
           a == Append(d.lines, l)
           e == [d EXCEPT !.lines = a]
           n == Len(words)
           m == Len(d.lines)
<1>1. Mode(AsLine) /\ AsLine.mark = NoMark
  BY AsLineMode DEF HtmlInv
<1>2. /\ d \in PageDocs /\ m <= MaxLines
      /\ WordsKept(d, << >>, n) /\ AllMarked(d, << >>, words, flags, past.nested)
      /\ (past.deepest <= ListDepth => Counted(d, lists, past))
  BY <1>1, Flushes
<1>3. Len(doc.lines) \in Nat /\ (d.lines = doc.lines \/ m = Len(doc.lines) + 1)
  BY <1>1, Flushes
<1>4. /\ text' = << >> /\ lists' = lists /\ past' = past /\ flags' = flags /\ words' = words
      /\ doc' = IF m >= MaxLines THEN d ELSE e
  BY DEF HorizontalRule
<1>5. /\ past \in Pasts /\ lists \in Seq(Levels) /\ words \in Seq(Written) /\ flags \in Flags
      /\ Len(lists) <= Len(past.open) /\ Len(lists) <= ListDepth /\ Len(past.open) <= past.deepest
      /\ MaxLines \in Nat /\ n \in Nat
  BY DEF HtmlInv, HtmlTyped, Levels, HtmlAssumption
<1>6. << >> \in Seq(Int) /\ Len(<< >>) = 0 /\ 0 <= TextCap
  BY DEF HtmlAssumption
<1> HIDE DEF d
<1>7. m \in Nat /\ Len(doc.lines) <= m /\ d.lines \in Seq(Lines)
  BY <1>2, <1>3 DEF PageDocs
<1>8. ASSUME NEW f \in PageDocs, doc' = f, Len(f.lines) <= MaxLines, m <= Len(f.lines), WordsKept(f, << >>, n),
             AllMarked(f, << >>, words, flags, past.nested),
             past.deepest <= ListDepth => Counted(f, lists, past)
      PROVE  HtmlInv'
  <2>1. Len(f.lines) \in Nat
    BY DEF PageDocs
  <2>2. Len(doc.lines) <= Len(f.lines)
    BY <1>3, <1>7, <1>8, <2>1
  <2>3. \A i \in DOMAIN lists : lists[i].count <= Len(f.lines)
    BY <2>1, <2>2, CountsGrow DEF HtmlInv
  <2>4. HtmlTyped'
    BY <1>4, <1>5, <1>6, <1>8, <2>3 DEF HtmlTyped, Levels
  <2> QED
    BY <1>4, <1>5, <1>8, <2>4 DEF HtmlInv
<1>9. CASE m >= MaxLines
  BY <1>2, <1>4, <1>7, <1>8, <1>9
<1>10. CASE ~ (m >= MaxLines)
  <2>1. l \in Lines /\ l.text = <<Rule>> /\ l.mark.list = 0 /\ l.header = 0 /\ l.link = 0
    <3>1. <<Rule>> \in Seq(Int)
      BY DEF Rule
    <3> QED
      BY <3>1 DEF Lines, NoMark
  <2> HIDE DEF l
  <2>2. a \in Seq(Lines) /\ Len(a) = m + 1 /\ a[m + 1] = l /\ \A i \in 1 .. m : a[i] = d.lines[i]
    BY <1>7, <2>1, AppendProperties
  <2>3. a = Append(d.lines, l)
    OBVIOUS
  <2> HIDE DEF a
  <2>4. e \in PageDocs /\ e.lines = a /\ e.truncated = d.truncated /\ e.cut = d.cut
    BY <1>2, <2>2 DEF PageDocs
  <2>5. doc' = e
    BY <1>4, <1>10
  <2> HIDE DEF e, m, n
  <2>6. Len(l.text) = 1 /\ l.text[1] = Rule
    BY <2>1
  <2>7. \A k \in 1 .. Len(l.text) : ~ (l.text[k] > Space)
    BY <2>6 DEF Rule, Space
  <2>8. WordsKept(e, << >>, n)
    <3>1. \A k \in 1 .. Len(<< >>) : FALSE
      BY <1>6
    <3>2. \A k \in Len(l.text) + 1 .. Len(<< >>) : FALSE
      BY <1>6, <2>6
    <3>3. \A k \in 1 .. Len(l.text) : l.text[k] > Space => k <= Len(<< >>) /\ l.text[k] = << >>[k]
      BY <2>7
    <3>4. \A k \in Len(l.text) + 1 .. Len(<< >>) : << >>[k] <= Space \/ << >>[k] \in e.cut
      BY <3>2
    <3>5. \A k \in 1 .. Len(<< >>) : k <= Len(l.text) => l.text[k] = << >>[k]
      BY <3>1
    <3>6. d.cut \subseteq e.cut
      BY <2>4
    <3> QED
      BY <1>2, <1>5, <1>6, <2>1, <2>3, <2>4, <3>3, <3>4, <3>5, <3>6, LineAdded
  <2>9. AllMarked(e, << >>, words, flags, past.nested)
    <3>1. ASSUME NEW i \in DOMAIN e.lines
          PROVE  Marked(e.lines[i].text, words, e.lines[i].header, e.lines[i].link, past.nested)
      <4>1. i \in 1 .. m \/ i = m + 1
        BY <1>7, <2>2, <2>4
      <4>2. CASE i \in 1 .. m
        <5>1. i \in DOMAIN d.lines
          BY <1>7, <4>2 DEF m
        <5> QED
          BY <1>2, <2>2, <2>4, <4>2, <5>1 DEF AllMarked
      <4>3. CASE i = m + 1
        <5>1. DOMAIN l.text = 1 .. Len(l.text)
          BY <2>1
        <5>2. Marked(l.text, words, l.header, l.link, past.nested)
          BY <2>7, <5>1 DEF Marked
        <5> QED
          BY <2>2, <2>4, <4>3, <5>2
      <4> QED
        BY <4>1, <4>2, <4>3
    <3> QED
      BY <1>2, <3>1 DEF AllMarked
  <2>10. past.deepest <= ListDepth => Counted(e, lists, past)
    BY <1>2, <1>5, <2>1, <2>3, <2>4, PlainCounted
  <2>11. Len(e.lines) <= MaxLines /\ m <= Len(e.lines)
    BY <1>5, <1>7, <1>10, <2>2, <2>4 DEF m
  <2> QED
    BY <1>8, <2>4, <2>5, <2>8, <2>9, <2>10, <2>11
<1> QED
  BY <1>9, <1>10

(* A piece of the pending text that is no word *)
LEMMA PieceStep ==
    ASSUME HtmlAssumption, HtmlInv, NEW piece \in Int, piece <= Space,
           text' = With(text, piece), UNCHANGED <<doc, lists, flags, words, past>>
    PROVE  HtmlInv'
<1> DEFINE u == With(text, piece)
<1>1. text \in Seq(Int) /\ Len(text) <= TextCap /\ doc \in PageDocs /\ words \in Seq(Written) /\ Len(words) \in Nat
  BY DEF HtmlInv, HtmlTyped
<1>2. /\ u \in Seq(Int) /\ Len(u) <= TextCap /\ Len(text) <= Len(u)
      /\ \A k \in 1 .. Len(text) : u[k] = text[k]
      /\ \A k \in Len(text) + 1 .. Len(u) : u[k] = piece
  BY <1>1, WithIs
<1> HIDE DEF u
<1>3. \A k \in Len(text) + 1 .. Len(u) : u[k] <= Space
  BY <1>2
<1>4. WordsKept(doc, u, Len(words))
  BY <1>1, <1>2, <1>3, PiecesKept DEF HtmlInv
<1>5. AllMarked(doc, u, words, flags, past.nested)
  BY <1>1, <1>2, <1>3, PiecesMarked DEF HtmlInv
<1>6. text' = u
  BY DEF u
<1> QED
  BY <1>2, <1>4, <1>5, <1>6 DEF HtmlInv, HtmlTyped, Counted, Items

LEMMA AnchorStep ==
    ASSUME HtmlAssumption, HtmlInv, NEW t, Anchor(t)
    PROVE  HtmlInv'
<1> DEFINE g == [flags EXCEPT !.anchor = TRUE, !.link = IF t = "a href" THEN Len(words) + 1 ELSE 0]
           q == [past EXCEPT !.nested = @ \/ flags.anchor]
<1>1. flags' = g /\ past' = q /\ UNCHANGED <<doc, text, lists, words>>
  BY DEF Anchor
<1>2. /\ flags \in Flags /\ past \in Pasts /\ words \in Seq(Written) /\ Len(words) \in Nat
      /\ text \in Seq(Int)
  BY DEF HtmlInv, HtmlTyped
<1>3. g \in Flags /\ g.header = flags.header /\ g.anchor = TRUE
  <2> DEFINE link == IF t = "a href" THEN Len(words) + 1 ELSE 0
  <2>1. link \in Nat
    <3>1. Len(words) + 1 \in Nat /\ 0 \in Nat
      BY <1>2
    <3> QED
      BY ONLY <3>1, Zenon
  <2>2. g = [flags EXCEPT !.anchor = TRUE, !.link = link]
    OBVIOUS
  <2> HIDE DEF link, g
  <2> QED
    BY <1>2, <2>1, <2>2 DEF Flags
<1>4. /\ q \in Pasts /\ q.nested = (past.nested \/ flags.anchor)
      /\ q.lists = past.lists /\ q.open = past.open /\ q.deepest = past.deepest
  BY <1>2 DEF Pasts, Flags
<1> HIDE DEF g, q
<1>5. AllMarked(doc, text, words, g, q.nested)
  <2>1. /\ \A i \in DOMAIN doc.lines :
              Marked(doc.lines[i].text, words, doc.lines[i].header, doc.lines[i].link, past.nested)
        /\ Marked(text, words, flags.header, LinkNow(flags), past.nested)
    BY DEF HtmlInv, AllMarked
  <2>2. \A i \in DOMAIN doc.lines :
           Marked(doc.lines[i].text, words, doc.lines[i].header, doc.lines[i].link, q.nested)
    BY <1>4, <2>1 DEF Marked
  <2>3. Marked(text, words, g.header, LinkNow(g), q.nested)
    <3>1. CASE flags.anchor
      BY <1>3, <1>4, <2>1, <3>1 DEF Marked
    <3>2. CASE ~ flags.anchor
      <4>1. LinkNow(flags) = 0
        BY <3>2 DEF LinkNow
      <4> QED
        BY <1>3, <1>4, <2>1, <4>1 DEF Marked
    <3> QED
      BY <3>1, <3>2
  <2> QED
    BY <2>2, <2>3 DEF AllMarked
<1>6. HtmlTyped'
  BY <1>1, <1>3, <1>4 DEF HtmlInv, HtmlTyped
<1>7. q.deepest <= ListDepth => Counted(doc, lists, q)
  <2> SUFFICES ASSUME q.deepest <= ListDepth PROVE Counted(doc, lists, q)
    OBVIOUS
  <2>1. Counted(doc, lists, past)
    BY <1>4 DEF HtmlInv
  <2> QED
    BY <1>4, <2>1 DEF Counted
<1> QED
  BY <1>1, <1>4, <1>5, <1>6, <1>7 DEF HtmlInv

LEMMA WriteStep ==
    ASSUME HtmlAssumption, HtmlInv, NEW t, Write(t)
    PROVE  HtmlInv'
<1> DEFINE spaced == IF text # << >> /\ text[Len(text)] # Space THEN With(text, Space) ELSE text
           full == Len(spaced) >= TextCap
           before == IF full THEN << >> ELSE spaced
           n == Len(words)
           r == [header |-> flags.header, link |-> LinkNow(flags),
                 behind |-> \E k \in DOMAIN before : before[k] = Nul]
           e == Flushed(doc, spaced, AsLine)
<1>1. /\ doc' = (IF full THEN e ELSE doc)
      /\ text' = Append(before, n + 1)
      /\ words' = Append(words, r)
      /\ lists' = lists /\ flags' = flags /\ past' = past
  BY DEF Write, LinkNow
<1>2. /\ text \in Seq(Int) /\ Len(text) <= TextCap /\ doc \in PageDocs /\ words \in Seq(Written) /\ n \in Nat
      /\ flags \in Flags /\ TextCap \in Nat /\ TextCap # 0 /\ Len(doc.lines) <= MaxLines
      /\ lists \in Seq(Levels) /\ Len(lists) <= ListDepth /\ past \in Pasts /\ Len(lists) <= Len(past.open)
      /\ Len(past.open) <= past.deepest
  BY DEF HtmlInv, HtmlTyped, HtmlAssumption, Levels
<1>3. /\ WordsKept(doc, text, n) /\ AllMarked(doc, text, words, flags, past.nested)
      /\ (past.deepest <= ListDepth => Counted(doc, lists, past))
  BY DEF HtmlInv
<1>4. r \in Written
  BY <1>2 DEF Written, Flags, LinkNow
<1>5. Append(words, r) \in Seq(Written) /\ Len(Append(words, r)) = n + 1
  BY <1>2, <1>4, AppendProperties
<1> HIDE DEF n, e, before
<1>6. ASSUME NEW f \in PageDocs, before \in Seq(Int), doc' = f, Len(before) < TextCap,
             Len(doc.lines) <= Len(f.lines), Len(f.lines) <= MaxLines,
             WordsKept(f, before, n), AllMarked(f, before, words, flags, past.nested),
             past.deepest <= ListDepth => Counted(f, lists, past)
      PROVE  HtmlInv'
  <2>1. WordsKept(f, Append(before, n + 1), n + 1)
    BY <1>2, <1>6, WordKept
  <2>2. AllMarked(f, Append(before, n + 1), Append(words, r), flags, past.nested)
    BY <1>2, <1>6, WordMarked DEF n, r
  <2>3. n + 1 \in Int
    BY <1>2
  <2>4. Append(before, n + 1) \in Seq(Int) /\ Len(Append(before, n + 1)) = Len(before) + 1 /\ Len(before) \in Nat
    BY <1>6, <2>3, AppendProperties
  <2>5. Append(before, n + 1) \in Seq(Int) /\ Len(Append(before, n + 1)) <= TextCap
    BY <1>2, <1>6, <2>4
  <2>6. Len(f.lines) \in Nat
    BY DEF PageDocs
  <2>7. \A i \in DOMAIN lists : lists[i].count <= Len(f.lines)
    BY <1>6, <2>6, CountsGrow DEF HtmlInv
  <2> HIDE DEF r
  <2>8. HtmlTyped'
    BY <1>1, <1>2, <1>5, <1>6, <2>5, <2>7 DEF HtmlTyped, Levels
  <2> QED
    BY <1>1, <1>2, <1>5, <1>6, <2>1, <2>2, <2>8 DEF HtmlInv
<1>7. /\ spaced \in Seq(Int) /\ Len(spaced) <= TextCap /\ Len(text) <= Len(spaced)
      /\ \A k \in 1 .. Len(text) : spaced[k] = text[k]
      /\ \A k \in Len(text) + 1 .. Len(spaced) : spaced[k] <= Space
  <2> DEFINE w == With(text, Space)
  <2>1. Space \in Int /\ Len(text) \in Nat
    BY <1>2 DEF Space
  <2>2. /\ w \in Seq(Int) /\ Len(w) <= TextCap /\ Len(text) <= Len(w)
        /\ \A k \in 1 .. Len(text) : w[k] = text[k]
        /\ \A k \in Len(text) + 1 .. Len(w) : w[k] = Space
    BY <1>2, <2>1, WithIs
  <2> HIDE DEF w
  <2>3. CASE spaced = w
    <3>1. \A k \in Len(text) + 1 .. Len(w) : w[k] <= Space
      BY <2>1, <2>2
    <3> HIDE DEF spaced
    <3> QED
      BY <2>2, <2>3, <3>1
  <2>4. CASE spaced = text
    <3> HIDE DEF spaced
    <3> QED
      BY <1>2, <2>1, <2>4
  <2>5. spaced = w \/ spaced = text
    BY DEF w
  <2> QED
    BY <2>3, <2>4, <2>5
<1>8. WordsKept(doc, spaced, n) /\ AllMarked(doc, spaced, words, flags, past.nested)
  <2> HIDE DEF spaced
  <2>1. WordsKept(doc, spaced, n)
    BY <1>2, <1>3, <1>7, PiecesKept
  <2>2. AllMarked(doc, spaced, words, flags, past.nested)
    BY <1>2, <1>3, <1>7, PiecesMarked
  <2> QED
    BY <2>1, <2>2
<1>9. CASE full
  <2>1. Mode(AsLine) /\ AsLine.mark = NoMark
    BY AsLineMode DEF HtmlInv
  <2>2. before = << >>
    BY <1>9 DEF before
  <2>3. doc' = e
    BY <1>1, <1>9
  <2> DEFINE p == spaced
  <2>4. e = Flushed(doc, p, AsLine)
    BY DEF e
  <2>5. p \in Seq(Int) /\ WordsKept(doc, p, n) /\ AllMarked(doc, p, words, flags, past.nested)
    BY <1>7, <1>8
  <2> HIDE DEF p
  <2>6. /\ e \in PageDocs /\ Len(e.lines) <= MaxLines
        /\ WordsKept(e, << >>, n) /\ AllMarked(e, << >>, words, flags, past.nested)
        /\ (past.deepest <= ListDepth => Counted(e, lists, past))
    BY <1>2, <2>1, <2>4, <2>5, FlushesOf DEF n
  <2>7. Len(doc.lines) \in Nat /\ (e.lines = doc.lines \/ Len(e.lines) = Len(doc.lines) + 1)
    BY <1>2, <2>1, <2>4, <2>5, FlushesOf DEF n
  <2>8. Len(doc.lines) <= Len(e.lines)
    BY <2>7
  <2>9. before \in Seq(Int) /\ Len(before) < TextCap
    BY <1>2, <2>2
  <2> HIDE DEF r, spaced
  <2> QED
    BY <1>6, <2>2, <2>3, <2>6, <2>8, <2>9
<1>10. CASE ~ full
  <2>1. before = spaced /\ doc' = doc
    BY <1>1, <1>10 DEF before
  <2>2. Len(spaced) < TextCap
    <3>1. ~ (Len(spaced) >= TextCap)
      BY <1>10
    <3> HIDE DEF spaced
    <3> QED
      BY <1>2, <1>7, <3>1
  <2> HIDE DEF spaced, r
  <2>3. Len(doc.lines) <= Len(doc.lines)
    BY <1>2 DEF PageDocs
  <2> QED
    BY <1>2, <1>3, <1>6, <1>7, <1>8, <2>1, <2>2, <2>3
<1> QED
  BY <1>9, <1>10

LEMMA EntityStep ==
    ASSUME HtmlAssumption, HtmlInv, NEW t, Entity(t)
    PROVE  HtmlInv'
<1> DEFINE n == Len(words)
<1>1. PICK hit \in 0 .. Len(text), left \in {Nul, Junk} :
         LET struck == [k \in DOMAIN text |-> IF k = hit THEN Sign ELSE text[k]]
             passed == Append(struck, left)
             stored == Len(passed) < TextCap
             d == [doc EXCEPT !.cut = @ \cup {text[k] : k \in DOMAIN text \cap {hit}}]
         IN  /\ doc' = IF stored THEN d ELSE Flushed(d, passed, AsLine)
             /\ text' = IF stored THEN Append(passed, IF text = << >> THEN Sign ELSE Nul) ELSE <<Sign>>
  BY DEF Entity
<1> DEFINE struck == [k \in DOMAIN text |-> IF k = hit THEN Sign ELSE text[k]]
           passed == Append(struck, left)
           over == {text[k] : k \in DOMAIN text \cap {hit}}
           d == [doc EXCEPT !.cut = @ \cup over]
           dec == IF text = << >> THEN Sign ELSE Nul
           stored == Len(passed) < TextCap
           e == Flushed(d, passed, AsLine)
<1>2. /\ doc' = IF stored THEN d ELSE e
      /\ text' = IF stored THEN Append(passed, dec) ELSE <<Sign>>
      /\ lists' = lists /\ flags' = flags /\ past' = past /\ words' = words
  BY <1>1 DEF Entity
<1>3. /\ text \in Seq(Int) /\ Len(text) \in Nat /\ DOMAIN text = 1 .. Len(text)
      /\ doc \in PageDocs /\ words \in Seq(Written) /\ n \in Nat
      /\ flags \in Flags /\ TextCap \in Nat /\ TextCap # 0 /\ Len(doc.lines) <= MaxLines
      /\ lists \in Seq(Levels) /\ Len(lists) <= ListDepth /\ past \in Pasts /\ Len(lists) <= Len(past.open)
      /\ Len(past.open) <= past.deepest /\ Len(doc.lines) \in Nat
  BY DEF HtmlInv, HtmlTyped, HtmlAssumption, Levels, PageDocs
<1>4. /\ WordsKept(doc, text, n) /\ AllMarked(doc, text, words, flags, past.nested)
      /\ (past.deepest <= ListDepth => Counted(doc, lists, past))
  BY DEF HtmlInv
<1>5. /\ left \in Int /\ left <= Space /\ dec \in Int /\ dec <= Space /\ Sign \in Int /\ Sign <= Space
      /\ Sign # Nul
  BY DEF Nul, Junk, Sign, Space
<1>6. /\ struck \in Seq(Int) /\ Len(struck) = Len(text)
      /\ \A k \in 1 .. Len(text) : struck[k] = IF k = hit THEN Sign ELSE text[k]
  <2>1. \A k \in 1 .. Len(text) : text[k] \in Int
    BY <1>3
  <2>2. struck \in [1 .. Len(text) -> Int]
    BY <1>3, <1>5, <2>1
  <2>3. struck \in Seq(Int)
    BY <1>3, <2>2, IsASeq
  <2>4. DOMAIN struck = 1 .. Len(text)
    BY <1>3
  <2>5. \A k \in 1 .. Len(text) : struck[k] = IF k = hit THEN Sign ELSE text[k]
    BY <1>3
  <2> HIDE DEF struck
  <2> QED
    BY <1>3, <2>3, <2>4, <2>5, LenProperties
<1>7. /\ d \in PageDocs /\ d.lines = doc.lines /\ d.truncated = doc.truncated
      /\ d.cut = doc.cut \cup over
  <2>1. over \subseteq Int
    BY <1>3
  <2> HIDE DEF over
  <2> QED
    BY <1>3, <2>1 DEF PageDocs
<1>8. hit \in DOMAIN text => text[hit] \in over
  OBVIOUS
<1> HIDE DEF over, dec, n, d, struck
<1>9. WordsKept(d, struck, n)
  <2>1. \A k \in 1 .. Len(struck) : struck[k] > Space => k <= Len(text) /\ struck[k] = text[k]
    BY <1>3, <1>5, <1>6 DEF Sign, Space
  <2>2. \A k \in 1 .. Len(text) :
           text[k] > Space => text[k] \in d.cut \/ (k <= Len(struck) /\ struck[k] = text[k])
    <3> SUFFICES ASSUME NEW k \in 1 .. Len(text)
                 PROVE  text[k] \in d.cut \/ (k <= Len(struck) /\ struck[k] = text[k])
      OBVIOUS
    <3>1. CASE k = hit
      <4>1. text[k] \in over
        BY <1>3, <1>8, <3>1
      <4> QED
        BY <1>7, <4>1
    <3>2. CASE k # hit
      BY <1>6, <3>2
    <3> QED
      BY <3>1, <3>2
  <2> QED
    BY <1>3, <1>4, <1>6, <1>7, <2>1, <2>2, TextChanged
<1>10. AllMarked(d, struck, words, flags, past.nested)
  <2>1. AllMarked(d, text, words, flags, past.nested)
    BY <1>4, <1>7 DEF AllMarked
  <2>2. ASSUME NEW k \in DOMAIN struck, struck[k] > Space
        PROVE  k \in DOMAIN text /\ struck[k] = text[k] /\ \A j \in 1 .. k - 1 : struck[j] = Nul => text[j] = Nul
    <3>1. k \in 1 .. Len(text) /\ k \in DOMAIN text
      BY <1>3, <1>6
    <3>2. \A j \in 1 .. k - 1 : j \in 1 .. Len(text)
      BY <1>3, <3>1
    <3> QED
      BY <1>5, <1>6, <2>2, <3>1, <3>2 DEF Sign, Space
  <2> QED
    BY <2>1, <2>2, TextMarked
<1>11. /\ passed \in Seq(Int) /\ Len(passed) = Len(struck) + 1
       /\ \A k \in 1 .. Len(struck) : passed[k] = struck[k]
       /\ passed[Len(struck) + 1] = left
  BY <1>5, <1>6, AppendProperties
<1> HIDE DEF passed
<1>12. WordsKept(d, passed, n) /\ AllMarked(d, passed, words, flags, past.nested)
  <2>1. \A k \in Len(struck) + 1 .. Len(passed) : passed[k] <= Space
    BY <1>3, <1>5, <1>6, <1>11
  <2>2. Len(struck) <= Len(passed)
    BY <1>3, <1>6, <1>11
  <2> QED
    BY <1>3, <1>6, <1>7, <1>9, <1>10, <1>11, <2>1, <2>2, PiecesKept, PiecesMarked
<1>13. ASSUME NEW f \in PageDocs, doc' = f, NEW v \in Seq(Int), text' = v, Len(v) <= TextCap,
              Len(doc.lines) <= Len(f.lines), Len(f.lines) <= MaxLines,
              WordsKept(f, v, n), AllMarked(f, v, words, flags, past.nested),
              past.deepest <= ListDepth => Counted(f, lists, past)
       PROVE  HtmlInv'
  <2>1. Len(f.lines) \in Nat
    BY DEF PageDocs
  <2>2. \A i \in DOMAIN lists : lists[i].count <= Len(f.lines)
    BY <1>13, <2>1, CountsGrow DEF HtmlInv
  <2>3. HtmlTyped'
    BY <1>2, <1>3, <1>13, <2>2 DEF HtmlTyped, Levels
  <2> QED
    BY <1>2, <1>3, <1>13, <2>3 DEF HtmlInv, n
<1>14. CASE stored
  <2> DEFINE v == Append(passed, dec)
  <2>1. doc' = d /\ text' = v
    BY <1>2, <1>14
  <2>2. /\ v \in Seq(Int) /\ Len(v) = Len(passed) + 1
        /\ \A k \in 1 .. Len(passed) : v[k] = passed[k]
        /\ v[Len(passed) + 1] = dec
    BY <1>5, <1>11, AppendProperties
  <2> HIDE DEF v
  <2>3. Len(passed) \in Nat
    BY <1>11
  <2>4. \A k \in Len(passed) + 1 .. Len(v) : v[k] <= Space
    BY <1>5, <2>2, <2>3
  <2>5. Len(passed) <= Len(v) /\ Len(v) <= TextCap
    BY <1>3, <1>14, <2>2, <2>3
  <2>6. WordsKept(d, v, n) /\ AllMarked(d, v, words, flags, past.nested)
    <3>1. WordsKept(d, v, n)
      BY <1>3, <1>7, <1>11, <1>12, <2>2, <2>4, <2>5, PiecesKept
    <3>2. AllMarked(d, v, words, flags, past.nested)
      BY <1>7, <1>11, <1>12, <2>2, <2>4, <2>5, PiecesMarked
    <3> QED
      BY <3>1, <3>2
  <2>7. past.deepest <= ListDepth => Counted(d, lists, past)
    <3>1. \A i, x : Items(d, i, x) = Items(doc, i, x)
      BY <1>7 DEF Items
    <3> QED
      BY ONLY <1>4, <1>7, <3>1 DEF Counted
  <2>8. Len(doc.lines) <= Len(d.lines) /\ Len(d.lines) <= MaxLines
    BY <1>3, <1>7
  <2> QED
    BY <1>7, <1>13, <2>1, <2>2, <2>5, <2>6, <2>7, <2>8
<1>15. CASE ~ stored
  <2> DEFINE v == <<Sign>>
  <2>1. doc' = e /\ text' = v
    BY <1>2, <1>15
  <2>2. Mode(AsLine) /\ AsLine.mark = NoMark
    BY AsLineMode DEF HtmlInv
  <2>3. /\ e \in PageDocs /\ Len(e.lines) <= MaxLines
        /\ WordsKept(e, << >>, n) /\ AllMarked(e, << >>, words, flags, past.nested)
        /\ (past.deepest <= ListDepth => Counted(e, lists, past))
    BY <1>7, <1>11, <1>12, <2>2, FlushesOf DEF n
  <2>4. e.lines = doc.lines \/ Len(e.lines) = Len(doc.lines) + 1
    BY <1>7, <1>11, <1>12, <2>2, FlushesOf DEF n
  <2> HIDE DEF e
  <2>5. Len(doc.lines) <= Len(e.lines)
    BY <1>3, <2>4
  <2>6. /\ v \in Seq(Int) /\ Len(v) = 1 /\ v[1] = Sign
        /\ << >> \in Seq(Int) /\ Len(<< >>) = 0
    BY <1>5
  <2> HIDE DEF v
  <2>7. /\ Len(<< >>) <= Len(v) /\ Len(v) <= TextCap
        /\ (\A k \in 1 .. Len(<< >>) : v[k] = << >>[k])
        /\ (\A k \in Len(<< >>) + 1 .. Len(v) : v[k] <= Space)
    BY <1>3, <1>5, <2>6
  <2>8. WordsKept(e, v, n) /\ AllMarked(e, v, words, flags, past.nested)
    BY <1>3, <2>3, <2>6, <2>7, PiecesKept, PiecesMarked
  <2> QED
    BY <1>13, <2>1, <2>3, <2>5, <2>6, <2>7, <2>8
<1> QED
  BY <1>14, <1>15

LEMMA HtmlInitInv == ASSUME HtmlAssumption, HtmlInit PROVE HtmlInv
<1>1. /\ doc = [lines |-> << >>, truncated |-> FALSE, cut |-> {}] /\ text = << >> /\ lists = << >> /\ words = << >>
      /\ flags = [link |-> 0, anchor |-> FALSE, script |-> FALSE, style |-> FALSE, header |-> 0, quotes |-> 0]
      /\ past = [lists |-> 0, open |-> << >>, deepest |-> 0, nested |-> FALSE]
  BY DEF HtmlInit
<1>2. MaxLines \in Nat /\ TextCap \in Nat /\ ListDepth \in Nat /\ QuoteDepth \in Nat
  BY DEF HtmlAssumption
<1>3. HtmlTyped
  <2>1. << >> \in Seq(Lines) /\ << >> \in Seq(Int) /\ << >> \in Seq(Levels) /\ << >> \in Seq(Written) /\ << >> \in Seq(Nat)
    OBVIOUS
  <2>2. doc \in PageDocs
    BY <1>1, <2>1 DEF PageDocs
  <2>3. flags \in Flags
    BY <1>1, <1>2 DEF Flags
  <2>4. past \in Pasts
    BY <1>1, <2>1 DEF Pasts
  <2> QED
    BY <1>1, <1>2, <2>1, <2>2, <2>3, <2>4 DEF HtmlTyped, Levels
<1>4. WordsKept(doc, text, Len(words))
  <2>1. doc.lines = << >> /\ text = << >> /\ Len(words) = 0
    BY <1>1
  <2>2. \A i \in 1 .. Len(doc.lines) + 1 : RowIn(doc, text, i) = << >>
    <3>1. \A i \in 1 .. Len(doc.lines) + 1 : ~ (i <= Len(doc.lines))
      BY <2>1
    <3> QED
      BY <2>1, <3>1 DEF RowIn
  <2> QED
    BY <2>1, <2>2 DEF WordsKept, Ascending, Covered
<1>5. AllMarked(doc, text, words, flags, past.nested)
  <2>1. doc.lines = << >> /\ text = << >>
    BY <1>1
  <2> QED
    BY <2>1 DEF AllMarked, Marked
<1>6. Len(past.open) <= past.deepest /\ Counted(doc, lists, past)
  BY <1>1 DEF Counted
<1> QED
  BY <1>3, <1>4, <1>5, <1>6 DEF HtmlInv

LEMMA TokenStep == ASSUME HtmlAssumption, HtmlInv, NEW t, Token(t) PROVE HtmlInv'
<1>0. /\ flags \in Flags /\ QuoteDepth \in Nat
      /\ \A x \in {0, 1} : [flags EXCEPT !.header = x] \in Flags
      /\ [flags EXCEPT !.anchor = FALSE, !.link = 0] \in Flags
  <2>1. flags \in Flags /\ QuoteDepth \in Nat
    BY DEF HtmlInv, HtmlTyped, HtmlAssumption
  <2> QED
    BY <2>1 DEF Flags
<1>1. CASE Break(t)
  BY <1>0, <1>1, FlushStep DEF Break
<1>2. CASE Heading(t)
  BY <1>0, <1>2, FlushStep DEF Heading
<1>3. CASE HeadingEnd(t)
  BY <1>0, <1>3, FlushStep DEF HeadingEnd
<1>4. CASE List(t)
  BY <1>4, ListStep
<1>5. CASE ListEnd(t)
  BY <1>5, ListEndStep
<1>6. CASE ItemStart(t)
  BY <1>0, <1>6, FlushStep DEF ItemStart
<1>7. CASE ItemEnd(t)
  BY <1>7, ItemEndStep
<1>8. CASE HorizontalRule(t)
  BY <1>8, RuleStep
<1>9. CASE Quote(t)
  <2> DEFINE x == IF t = "blockquote" THEN IF flags.quotes < QuoteDepth THEN flags.quotes + 1 ELSE flags.quotes
                  ELSE IF flags.quotes > 0 THEN flags.quotes - 1 ELSE flags.quotes
  <2>1. flags' = [flags EXCEPT !.quotes = x]
    BY <1>9 DEF Quote
  <2>2. flags.quotes \in 0 .. QuoteDepth
    BY <1>0 DEF Flags
  <2>3. x \in 0 .. QuoteDepth
    BY <1>0, <2>2
  <2> HIDE DEF x
  <2>4. flags' \in Flags
    BY <1>0, <2>1, <2>3 DEF Flags
  <2> QED
    BY <1>9, <2>4, FlushStep DEF Quote
<1>10. CASE TableCell(t)
  <2>1. CASE text # << >>
    BY <1>10, <2>1, PieceStep DEF TableCell, CellBar, Space
  <2>2. CASE text = << >>
    <3>1. UNCHANGED <<doc, text, lists, flags, words, past>>
      BY <1>10, <2>2 DEF TableCell
    <3> QED
      BY <3>1 DEF HtmlInv, HtmlTyped
  <2> QED
    BY <2>1, <2>2
<1>11. CASE Img(t)
  BY <1>11, PieceStep DEF Img, Image, Space
<1>12. CASE Anchor(t)
  BY <1>12, AnchorStep
<1>13. CASE AnchorEnd(t)
  BY <1>0, <1>13, FlushStep DEF AnchorEnd
<1>14. CASE Script(t)
  <2>1. UNCHANGED <<doc, text, lists, words, past>>
    BY <1>14 DEF Script
  <2>2. /\ flags' \in Flags /\ flags'.header = flags.header /\ flags'.anchor = flags.anchor
        /\ flags'.link = flags.link
    <3>1. \A b \in BOOLEAN : [flags EXCEPT !.script = b] \in Flags /\ [flags EXCEPT !.style = b] \in Flags
      BY <1>0 DEF Flags
    <3>2. \/ \E b \in BOOLEAN : flags' = [flags EXCEPT !.script = b]
          \/ \E b \in BOOLEAN : flags' = [flags EXCEPT !.style = b]
      BY <1>14, Zenon DEF Script
    <3> QED
      BY <1>0, <3>1, <3>2 DEF Flags
  <2>3. LinkNow(flags') = LinkNow(flags)
    BY <2>2 DEF LinkNow
  <2>4. AllMarked(doc, text, words, flags, past.nested)
    BY DEF HtmlInv
  <2>5. AllMarked(doc, text, words, flags', past.nested)
    BY <2>2, <2>3, <2>4 DEF AllMarked
  <2>6. HtmlTyped'
    BY <2>1, <2>2 DEF HtmlInv, HtmlTyped
  <2> QED
    BY <2>1, <2>5, <2>6 DEF HtmlInv
<1>15. CASE Skip(t)
  <2>1. UNCHANGED <<doc, text, lists, flags, words, past>>
    BY <1>15 DEF Skip
  <2> QED
    BY <2>1 DEF HtmlInv, HtmlTyped
<1>16. CASE Write(t)
  BY <1>16, WriteStep
<1>17. CASE Entity(t)
  BY <1>17, EntityStep
<1> QED
  BY <1>1, <1>2, <1>3, <1>4, <1>5, <1>6, <1>7, <1>8, <1>9, <1>10, <1>11, <1>12, <1>13, <1>14, <1>15, <1>16, <1>17
     DEF Token

LEMMA HtmlNextInv == ASSUME HtmlAssumption, HtmlInv, [HtmlNext]_htmlVars PROVE HtmlInv'
<1>1. CASE Parse
  BY <1>1, TokenStep DEF Parse
<1>2. CASE More \/ UNCHANGED htmlVars
  <2>1. UNCHANGED <<doc, text, lists, flags, words, past>>
    BY <1>2 DEF More, htmlVars
  <2> QED
    BY <2>1 DEF HtmlInv, HtmlTyped
<1>3. CASE End
  <2>1. flags \in Flags
    BY DEF HtmlInv, HtmlTyped
  <2> QED
    BY <1>3, <2>1, FlushStep DEF End
<1> QED
  BY <1>1, <1>2, <1>3 DEF HtmlNext

LEMMA HtmlInvTypes == ASSUME HtmlAssumption, HtmlInv PROVE HtmlTypeOK
<1>1. /\ doc \in PageDocs /\ Len(doc.lines) <= MaxLines /\ Len(text) <= TextCap /\ Len(lists) <= ListDepth
      /\ lists \in Seq(Levels) /\ flags \in Flags /\ MaxLines \in Nat /\ QuoteDepth \in Nat
      /\ \A i \in DOMAIN lists : lists[i].count <= Len(doc.lines)
  BY DEF HtmlInv, HtmlTyped, Levels, HtmlAssumption
<1>2. flags.quotes <= QuoteDepth
  BY <1>1 DEF Flags
<1>3. ASSUME NEW i \in DOMAIN lists PROVE lists[i] \in [kind : {"ul", "ol"}, count : 0 .. MaxLines]
  <2>1. lists[i] \in Levels /\ lists[i].count <= Len(doc.lines)
    BY <1>1
  <2>2. Len(doc.lines) \in Nat
    BY <1>1 DEF PageDocs
  <2>3. lists[i].count \in 0 .. MaxLines
    BY <1>1, <2>1, <2>2 DEF Levels
  <2> QED
    BY <2>1, <2>3 DEF Levels
<1> QED
  BY <1>1, <1>2, <1>3 DEF HtmlTypeOK

LEMMA HtmlInvSound == ASSUME HtmlAssumption, HtmlInv PROVE PageSound
<1>1. /\ doc \in PageDocs /\ text \in Seq(Int) /\ words \in Seq(Written)
      /\ WordsKept(doc, text, Len(words)) /\ AllMarked(doc, text, words, flags, past.nested)
      /\ (past.deepest <= ListDepth => Counted(doc, lists, past))
  BY DEF HtmlInv, HtmlTyped
<1>2. DOMAIN doc.lines = 1 .. Len(doc.lines) /\ DOMAIN words = 1 .. Len(words)
  BY <1>1 DEF PageDocs
<1>3. Rows = RowsOf(doc) /\ \A i : Row(i) = RowIn(doc, text, i)
  BY DEF Rows, RowsOf, Row, RowIn
<1>4. TextKept
  <2>4. ASSUME NEW i \in RowsOf(doc), NEW k \in DOMAIN RowIn(doc, text, i), RowIn(doc, text, i)[k] > Space,
               \E j \in 1 .. k - 1 : RowIn(doc, text, i)[j] = Nul
        PROVE  words[RowIn(doc, text, i)[k]].behind
    <3>1. Marked(text, words, flags.header, LinkNow(flags), past.nested)
          /\ \A x \in DOMAIN doc.lines :
                Marked(doc.lines[x].text, words, doc.lines[x].header, doc.lines[x].link, past.nested)
      BY <1>1 DEF AllMarked
    <3>2. CASE i <= Len(doc.lines)
      <4>1. i \in DOMAIN doc.lines /\ RowIn(doc, text, i) = doc.lines[i].text
        BY <1>2, <3>2 DEF RowsOf, RowIn
      <4> QED
        BY <2>4, <3>1, <4>1 DEF Marked
    <3>3. CASE ~ (i <= Len(doc.lines))
      <4>1. RowIn(doc, text, i) = text
        BY <3>3 DEF RowIn
      <4> QED
        BY <2>4, <3>1, <4>1 DEF Marked
    <3> QED
      BY <3>2, <3>3
  <2>1. \A i, j \in RowsOf(doc) : \A k \in DOMAIN RowIn(doc, text, i), m \in DOMAIN RowIn(doc, text, j) :
           /\ i < j \/ (i = j /\ k < m)
           /\ RowIn(doc, text, i)[k] > Space /\ RowIn(doc, text, j)[m] > Space
           => RowIn(doc, text, i)[k] < RowIn(doc, text, j)[m]
    BY <1>1 DEF WordsKept, Ascending, RowsOf
  <2>2. doc.truncated \/ \A n \in 1 .. Len(words) : n \in doc.cut \/
           \E i \in RowsOf(doc) : \E k \in DOMAIN RowIn(doc, text, i) : RowIn(doc, text, i)[k] = n
    BY <1>1 DEF WordsKept, Covered, RowsOf
  <2>3. doc.truncated \/ \A n \in DOMAIN words \ doc.cut :
           \E i \in RowsOf(doc) : \E k \in DOMAIN RowIn(doc, text, i) : RowIn(doc, text, i)[k] = n
    BY <1>2, <2>2
  <2> QED
    BY <1>3, <2>1, <2>3, <2>4 DEF TextKept
<1>5. MarkedAsWritten
  BY <1>1 DEF AllMarked, Marked, MarkedAsWritten
<1>6. ItemsCounted
  BY <1>1, <1>2 DEF Counted, Items, ItemsCounted
<1> QED
  BY <1>4, <1>5, <1>6 DEF PageSound

(* For every page, entities and all, and every line length, text size,     *)
(* number of lines and depth of lists, the extractor keeps its bounds;     *)
(* every word outside scripts is in one line, in the order of the page, in *)
(* a header line or a link if the parser read it in one, unless it is cut  *)
(* off or an entity is written over it; no word is hidden behind a Nul but *)
(* by an entity before it; and items of a numbered list count from one.    *)
THEOREM PageIsSound == ASSUME HtmlAssumption PROVE HtmlSpec => []HtmlTypeOK /\ []PageSound
<1>1. HtmlInit => HtmlInv
  BY HtmlInitInv
<1>2. HtmlInv /\ [HtmlNext]_htmlVars => HtmlInv'
  BY HtmlNextInv
<1>3. HtmlInv => HtmlTypeOK /\ PageSound
  BY HtmlInvTypes, HtmlInvSound
<1> QED
  BY <1>1, <1>2, <1>3, PTL DEF HtmlSpec
=============================================================================
