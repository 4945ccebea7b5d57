------------------------------- MODULE Windows ------------------------------
(***************************************************************************)
(* The window manager, gui/window.c, the desktop, gui/desktop.c, and the   *)
(* compositor's menus and taskbar, gui/compositor.c, as the ui task drives *)
(* them: every poll of the mouse is offered to the compositor, then to the *)
(* desktop, then to the windows, each of which remembers the left button   *)
(* by itself to tell a press from a button held.  A target says what lies  *)
(* under the pointer; where things are on the screen is left out, so any   *)
(* set of windows may overlap there.                                       *)
(***************************************************************************)
EXTENDS Integers, Sequences, FiniteSets, FiniteSetsExt

CONSTANTS
    MaxWindows,   \* MAX_WINDOWS
    Apps,         \* applications with a pad of their state for each window
    Single,       \* those with one window at most
    Menu,         \* the entries of the menus, the first one
    FirstItem,    \*   of the context menu included
    IconOpens     \* what each desktop icon opens: an application or "none"

ASSUME WindowsAssumption ==
    /\ MaxWindows \in Nat \ {0}
    /\ Apps \cap Single = {} /\ {"settings", "wallpaper"} \subseteq Single /\ "none" \notin Apps \cup Single
    /\ Menu \subseteq Apps \cup Single /\ FirstItem \in Menu
    /\ \A k \in DOMAIN IconOpens : IconOpens[k] \in Apps \cup {"none"}

Pads == 1 .. MaxWindows
Icons == DOMAIN IconOpens
Closed == [app |-> "none", pad |-> 0]
Layers == {"compositor", "desktop", "windows"}

VARIABLES
    wm,           \* g_windows, g_focus and g_dragging of window.c, 0 for -1
    menu,         \* g_menu_open
    ctx,          \* g_ctx_open
    seen,         \* g_prev_left of each layer
    right,        \* g_prev_right
    selected,     \* g_selected, 0 for -1
    dragged,      \* g_drag_id, 0 for -1
    takers,       \* history: the layers that acted on the last press
    lost,         \* history: a release the compositor kept to itself
    covered       \* history: the last press went to a window painted beneath another

menus == <<menu, ctx>>
desk == <<selected, dragged>>
windowsVars == <<wm, menus, seen, right, desk, takers, lost, covered>>

WindowsInit ==
    /\ wm = [slots |-> <<>>, focus |-> 0, dragging |-> 0]
    /\ menu = FALSE /\ ctx = FALSE
    /\ seen = [l \in Layers |-> FALSE] /\ right = FALSE
    /\ selected = 0 /\ dragged = 0
    /\ takers = {} /\ lost = FALSE /\ covered = FALSE

-----------------------------------------------------------------------------
(* window.c and the applications' launchers *)

Shown(w) == {i \in DOMAIN w.slots : w.slots[i] # Closed}

(* window_create: the first hidden slot, or a new one while there is room *)
Created(w, app, pad) ==
    LET hidden == DOMAIN w.slots \ Shown(w)
        id == IF hidden # {} THEN Min(hidden) ELSE Len(w.slots) + 1
        new == [app |-> app, pad |-> pad]
    IN  IF id > MaxWindows THEN w
        ELSE [w EXCEPT !.slots = IF id > Len(@) THEN Append(@, new)
                                 ELSE [@ EXCEPT ![id] = new],
                       !.focus = id]

(* Bug: the focus stays with the window that is gone. *)
DestroyedFocused(w, i) ==
    [w EXCEPT !.slots[i] = Closed, !.dragging = IF @ = i THEN 0 ELSE @]

(* window_destroy *)
Destroyed(w, i) ==
    LET left == Shown(w) \ {i}
    IN  [slots |-> [w.slots EXCEPT ![i] = Closed],
         focus |-> IF w.focus # i THEN w.focus ELSE IF left = {} THEN 0 ELSE Min(left),
         dragging |-> IF w.dragging = i THEN 0 ELSE w.dragging]

(* Bug: a pad is free when no window of another application uses it. *)
FreePadsOther(w, app) ==
    Pads \ {w.slots[i].pad : i \in {j \in Shown(w) : w.slots[j].app # app}}

(* the pads term_alloc, br_alloc and the others find unused *)
FreePads(w, app) ==
    Pads \ {w.slots[i].pad : i \in {j \in Shown(w) : w.slots[j].app = app}}

(* apps_launch_*, and wallpaper_launch_settings and settings_launch, which  *)
(* raise the window they have                                              *)
Launched(w, app) ==
    LET own == {i \in Shown(w) : w.slots[i].app = app}
        free == FreePads(w, app)
    IN  IF app \in Single
        THEN IF own # {} THEN [w EXCEPT !.focus = Min(own)] ELSE Created(w, app, 1)
        ELSE IF free = {} THEN w ELSE Created(w, app, Min(free))

Opened(w, app) == IF app = "none" THEN w ELSE Launched(w, app)

-----------------------------------------------------------------------------
(* What the pointer is on: the start button; the taskbar, with a button by *)
(* its place in the row, 0 for none, and its cross or not; or the desk,    *)
(* with the windows there, the part of the one a press goes to, the icon   *)
(* there, and the entry of the menu that is open there.  Of several        *)
(* windows there only the last slot and the focus tell.                    *)

Entries == IF menu \/ ctx THEN Menu \cup {"none"} ELSE {FirstItem}

Target(place, button, cross, over, part, icon, item) ==
    [place |-> place, button |-> button, cross |-> cross, over |-> over,
     part |-> part, icon |-> icon, item |-> item]

Nowhere == Target("start", 0, FALSE, {}, "button", 0, "none")

Targets ==
    {Nowhere}
        \cup {Target("bar", n, c, {}, "button", 0, "none") :
                 n \in 0 .. Cardinality(Shown(wm)), c \in BOOLEAN}
        \cup {Target("desk", 0, FALSE, {}, "button", k, m) :
                 k \in Icons \cup {0}, m \in Entries}
        \cup {Target("desk", 0, FALSE, o, p, 0, m) :
                 o \in UNION {{{i}, {i, wm.focus}} : i \in Shown(wm)},
                 p \in {"title", "cross", "button"}, m \in Entries}

(* taskbar_hit and taskbar_close_hit: the window of the nth button, which  *)
(* another window's takes the place of when its window is closed           *)
Button(w, nth) ==
    IF nth \notin 1 .. Cardinality(Shown(w)) THEN 0
    ELSE CHOOSE i \in Shown(w) : Cardinality({j \in Shown(w) : j <= i}) = nth

(* compositor_handle_click, a new right press: a button of the taskbar     *)
(* closes its window, the desk opens the context menu                      *)
RightPressed(s, at) ==
    IF at.place = "bar" /\ at.button # 0
    THEN [wm |-> Destroyed(s.wm, Button(s.wm, at.button)), menu |-> FALSE, ctx |-> FALSE, used |-> TRUE]
    ELSE IF at.place = "desk"
    THEN [s EXCEPT !.ctx = TRUE, !.menu = FALSE, !.used = TRUE]
    ELSE [s EXCEPT !.ctx = FALSE]

(* and a new left press, on the context menu, the taskbar or the start menu *)
LeftPressed(s, at, justOpened) ==
    IF s.ctx
    THEN [s EXCEPT !.wm = Opened(@, IF justOpened THEN FirstItem ELSE at.item),
                   !.ctx = FALSE, !.used = TRUE]
    ELSE IF at.place = "start"
    THEN [s EXCEPT !.menu = ~@, !.ctx = FALSE, !.used = TRUE]
    ELSE IF at.place = "bar"
    THEN LET i == Button(s.wm, at.button)
         IN  [s EXCEPT !.wm = IF i = 0 THEN @
                              ELSE IF at.cross THEN Destroyed(@, i)
                              ELSE [@ EXCEPT !.focus = i],
                       !.used = TRUE]
    ELSE IF s.menu
    THEN [s EXCEPT !.wm = Opened(@, at.item), !.menu = FALSE, !.used = TRUE]
    ELSE s

(* compositor_handle_click *)
Composited(left, rb, at) ==
    LET before == [wm |-> wm, menu |-> menu, ctx |-> ctx, used |-> FALSE]
        pressed == rb /\ ~right
        s == IF pressed THEN RightPressed(before, at) ELSE before
    IN  IF left /\ ~seen["compositor"]
        THEN LeftPressed(s, at, pressed /\ at.place = "desk") ELSE s

-----------------------------------------------------------------------------
(* Bug: only the compositor and the desktop are told of a press one took. *)
SyncedDesktop(left, which) == [l \in Layers |-> IF l = "windows" THEN seen[l] ELSE left]

(* the g_prev_left each layer is left with: those that ran set it, and     *)
(* desktop_sync_input and window_sync_input set it for those that did not  *)
Synced(left, which) == [l \in Layers |-> left]

(* the takers of a press start anew with it *)
Fresh(left) == IF left /\ ~seen["compositor"] THEN {} ELSE takers

(* window_handle_mouse.  The window hit is the one created in the last     *)
(* slot; the focused one is painted over it.                               *)
HandleMouse(left, at) ==
    LET pressed == left /\ ~seen["windows"]
        i == Max(at.over)
        hitting == pressed /\ at.over # {}
        focused == [wm EXCEPT !.focus = i]
        clicked == IF ~hitting THEN wm
                   ELSE IF at.part = "cross" THEN Destroyed(focused, i)
                   ELSE IF at.part = "title" THEN [focused EXCEPT !.dragging = i]
                   ELSE IF at.part = "button" /\ wm.slots[i].app = "settings"
                   THEN Launched(focused, "wallpaper")
                   ELSE focused
    IN  /\ wm' = IF ~left /\ seen["windows"] THEN [clicked EXCEPT !.dragging = 0] ELSE clicked
        /\ covered' = IF hitting THEN wm.focus \in at.over \ {i} ELSE covered
        /\ takers' = Fresh(left) \cup (IF hitting THEN {"windows"} ELSE {})

(* desktop_handle_click: what it does to the icons, and whether it took    *)
(* the button.  An icon opens when it is pressed while selected.           *)
DeskPressed(left) == left /\ ~seen["desktop"]
DeskHit(left, at) == DeskPressed(left) /\ at.over = {} /\ at.icon # 0 /\ at.place = "desk"
DeskTook(left, at) == (left /\ dragged # 0) \/ DeskHit(left, at)
HandleDesk(left, at) ==
    /\ selected' = IF ~DeskPressed(left) THEN selected
                   ELSE IF DeskHit(left, at) /\ selected # at.icon THEN at.icon ELSE 0
    /\ dragged' = IF DeskHit(left, at) /\ selected # at.icon THEN at.icon
                  ELSE IF ~left /\ seen["desktop"] THEN 0 ELSE dragged

-----------------------------------------------------------------------------
(* One poll of the ui task: the compositor takes the button, or the        *)
(* desktop, or the windows                                                 *)
Consume(left, rb, at) ==
    LET c == Composited(left, rb, at)
    IN  /\ c.used
        /\ wm' = c.wm /\ menu' = c.menu /\ ctx' = c.ctx
        /\ seen' = Synced(left, "compositor") /\ right' = rb
        /\ takers' = IF left /\ ~seen["compositor"] THEN {"compositor"} ELSE takers
        /\ lost' = (~left /\ (seen["compositor"] \/ lost))
        /\ UNCHANGED <<desk, covered>>

OnDesk(left, rb, at) ==
    LET c == Composited(left, rb, at)
    IN  /\ ~c.used /\ DeskTook(left, at)
        /\ menu' = c.menu /\ ctx' = c.ctx
        /\ HandleDesk(left, at)
        /\ wm' = IF DeskHit(left, at) /\ selected = at.icon
                 THEN Opened(wm, IconOpens[at.icon]) ELSE wm
        /\ seen' = Synced(left, "desktop") /\ right' = rb
        /\ takers' = Fresh(left) \cup (IF DeskHit(left, at) THEN {"desktop"} ELSE {})
        /\ UNCHANGED <<lost, covered>>

OnWindows(left, rb, at) ==
    LET c == Composited(left, rb, at)
    IN  /\ ~c.used /\ ~DeskTook(left, at)
        /\ menu' = c.menu /\ ctx' = c.ctx
        /\ HandleDesk(left, at)
        /\ HandleMouse(left, at)
        /\ seen' = Synced(left, "windows") /\ right' = rb
        /\ lost' = (lost /\ ~(~left /\ seen["compositor"]))

(* where the pointer is matters when a layer takes the button for new      *)
Pointed(left, rb) ==
    IF (left /\ \E l \in Layers : ~seen[l]) \/ (rb /\ ~right) THEN Targets ELSE {Nowhere}

WindowsNext ==
    \E left, rb \in BOOLEAN :
    \E at \in Pointed(left, rb) :
        \/ Consume(left, rb, at)
        \/ OnDesk(left, rb, at)
        \/ OnWindows(left, rb, at)

WindowsSpec == WindowsInit /\ [][WindowsNext]_windowsVars

-----------------------------------------------------------------------------
WindowsTypeOK ==
    /\ wm.slots \in Seq([app : Apps \cup Single, pad : Pads] \cup {Closed})
    /\ Len(wm.slots) \in 0 .. MaxWindows
    /\ wm.focus \in 0 .. Len(wm.slots) /\ wm.dragging \in 0 .. Len(wm.slots)
    /\ menu \in BOOLEAN /\ ctx \in BOOLEAN /\ right \in BOOLEAN /\ lost \in BOOLEAN
    /\ covered \in BOOLEAN
    /\ seen \in [Layers -> BOOLEAN]
    /\ selected \in Icons \cup {0} /\ dragged \in Icons \cup {0}
    /\ takers \subseteq Layers

(* The focus is on a window that is shown, and on none only when none is:  *)
(* keys go to window_handle_key's g_focus.  A dragged window is shown.     *)
FocusShown ==
    /\ IF Shown(wm) = {} THEN wm.focus = 0 ELSE wm.focus \in Shown(wm)
    /\ wm.dragging \in Shown(wm) \cup {0}

(* Two windows of one application never share the pad that holds their     *)
(* state, whatever was closed and opened again in between.                 *)
PadsApart ==
    \A i, j \in Shown(wm) :
        wm.slots[i] = wm.slots[j] => i = j

(* One press of the left button is acted on by one layer, however long it  *)
(* is held: the press that closes a menu does not also grab what is under  *)
(* it.                                                                     *)
PressTaken == Cardinality(takers) <= 1 /\ ~(menu /\ ctx)

(* Nothing is dragged while the left button is up, unless a right press in *)
(* the poll of the release made the compositor keep the release to itself. *)
DragEnds ==
    ~seen["compositor"] /\ ~lost => wm.dragging = 0 /\ dragged = 0

(* window.c, desktop.c and compositor.c: the focus and the drags are on    *)
(* what is shown, the applications' pads are their own, one press acts     *)
(* once, and what is dragged is let go.                                    *)
WindowsSound == FocusShown /\ PadsApart /\ PressTaken /\ DragEnds

(* README.md:264: the button of the taskbar raises its window, so a press  *)
(* goes to the window painted on top.  It does not: the hit test goes by   *)
(* the slots and the painting by the focus.                                *)
PressOnTop == ~covered
=============================================================================
