------------------------------- MODULE Screen -------------------------------
(***************************************************************************)
(* Where windows and icons are on the screen: gui/window.c and             *)
(* gui/desktop.c while they are dragged, and kernel/fb.c and gui/settings.c *)
(* when the resolution changes.  One window and one icon stand for all:    *)
(* neither's place depends on the others'.                                 *)
(***************************************************************************)
EXTENDS Integers, Sequences, FiniteSets, FiniteSetsExt

CONSTANTS
    Modes,        \* g_res_w and g_res_h
    Launches,      \* [x, y, w, h] of the windows the applications create
    Grabs         \* where on a title bar or an icon it may be taken

TitleH == 22
DragKeep == 48
TaskbarH == 28
Cell == [w |-> 72, h |-> 76]

AtLeast(n) == {k \in Nat : k >= n}

ASSUME ScreenAssumption ==
    /\ Modes # {} /\ Modes \subseteq [w : AtLeast(640), h : AtLeast(480)]
    /\ Launches \subseteq [x : 0 .. 640 - DragKeep, y : 0 .. 480 - TaskbarH - DragKeep,
                            w : AtLeast(160), h : AtLeast(120)]
    /\ Grabs \subseteq [dx : 0 .. Cell.w - 1, dy : 0 .. TitleH - 1]

VARIABLES
    fb,           \* g_fb: its width, its height, and whether it has a back buffer
    win,          \* x, y, w, h, wanted_w and wanted_h of the window
    icon,         \* x and y of the icon
    held,         \* what is dragged, and g_drag_dx, g_drag_dy
    failed        \* history: the last change of resolution failed in fb_resize

screenVars == <<fb, win, icon, held, failed>>

Window(c) == [x |-> c.x, y |-> c.y, w |-> c.w, h |-> c.h, ww |-> c.w, wh |-> c.h]
Nothing == [what |-> "nothing", dx |-> 0, dy |-> 0]

(* desktop_add_icon puts the first icon at 16, 16 *)
ScreenInit ==
    /\ fb \in {[w |-> m.w, h |-> m.h, back |-> TRUE] : m \in Modes}
    /\ win \in {Window(c) : c \in Launches}
    /\ icon = [x |-> 16, y |-> 16]
    /\ held = Nothing
    /\ failed = FALSE

-----------------------------------------------------------------------------
Between(v, lo, hi) == IF v < lo THEN lo ELSE IF v > hi THEN hi ELSE v
TaskbarY(f) == f.h - TaskbarH

(* Bug: the bottom is that of the screen, beneath the taskbar. *)
ClampedScreen(w, f) ==
    [w EXCEPT !.x = Between(@, DragKeep - w.w, f.w - DragKeep),
              !.y = Between(@, DragKeep - TitleH, f.h)]

(* clamp_drag: 48 pixels stay between the edges and above the taskbar *)
ClampedDrag(w, f) ==
    [w EXCEPT !.x = Between(@, DragKeep - w.w, f.w - DragKeep),
              !.y = Between(@, DragKeep - TitleH, TaskbarY(f) - DragKeep)]

(* Bug: the size is taken from the size now. *)
ReclampedShrunk(w, f) ==
    LET sized == [w EXCEPT !.w = Max({Min({@, f.w}), 160}), !.h = Max({Min({@, TaskbarY(f)}), 120})]
        c == ClampedDrag(sized, f)
    IN  [c EXCEPT !.x = Max({@, 0}), !.y = Max({@, 0})]

(* window_reclamp: the size wanted as far as it fits, the place as dragged *)
(* but not off the left or the top                                         *)
Reclamped(w, f) ==
    LET sized == [w EXCEPT !.w = Max({Min({w.ww, f.w}), 160}),
                           !.h = Max({Min({w.wh, TaskbarY(f)}), 120})]
        c == ClampedDrag(sized, f)
    IN  [c EXCEPT !.x = Max({@, 0}), !.y = Max({@, 0})]

(* the icon's place while it is dragged, and desktop_reclamp               *)
IconClamped(i, f) ==
    [x |-> Between(i.x, 0, f.w - Cell.w), y |-> Between(i.y, 0, TaskbarY(f) - Cell.h)]

-----------------------------------------------------------------------------
(* A press on the title bar or on the icon, where the pointer can be       *)
OnScreen(x, y) == x \in 0 .. fb.w - 1 /\ y \in 0 .. fb.h - 1

TakeWindow(g) ==
    /\ held = Nothing
    /\ \E dx \in {g.dx, win.w - 1 - g.dx} :
        /\ OnScreen(win.x + dx, win.y + g.dy)
        /\ held' = [what |-> "window", dx |-> dx, dy |-> g.dy]
    /\ UNCHANGED <<fb, win, icon, failed>>

TakeIcon(g) ==
    /\ held = Nothing
    /\ OnScreen(icon.x + g.dx, icon.y + g.dy)
    /\ held' = [what |-> "icon", dx |-> g.dx, dy |-> g.dy]
    /\ UNCHANGED <<fb, win, icon, failed>>

(* window_handle_mouse and desktop_handle_click with the button held, the  *)
(* pointer in a corner or the middle of the screen                         *)
Drag(mx, my) ==
    /\ held # Nothing
    /\ IF held.what = "window"
       THEN /\ win' = ClampedDrag([win EXCEPT !.x = mx - held.dx, !.y = my - held.dy], fb)
            /\ UNCHANGED icon
       ELSE /\ icon' = IconClamped([x |-> mx - held.dx, y |-> my - held.dy], fb)
            /\ UNCHANGED win
    /\ UNCHANGED <<fb, held, failed>>

LetGo ==
    /\ held # Nothing /\ held' = Nothing
    /\ UNCHANGED <<fb, win, icon, failed>>

(* fb_resize and do_resize: the adapter may refuse the mode, and the frames *)
(* of the back buffer, freed before, may not be found again: then the size *)
(* has changed and nothing has been moved                                  *)
Resize(m) ==
    /\ held = Nothing
    /\ \/ /\ fb' = [w |-> m.w, h |-> m.h, back |-> TRUE]
          /\ win' = Reclamped(win, fb') /\ icon' = IconClamped(icon, fb')
          /\ failed' = FALSE
       \/ /\ fb' = [w |-> m.w, h |-> m.h, back |-> FALSE]
          /\ failed' = TRUE
          /\ UNCHANGED <<win, icon>>
    /\ UNCHANGED held

(* a new window, window_create; settings_launch has all windows reclamped  *)
Open(c) ==
    /\ held = Nothing
    /\ win' \in {Window(c), Reclamped(Window(c), fb)}
    /\ UNCHANGED <<fb, icon, held, failed>>

Points == {0, fb.w \div 2, fb.w - 1} \X {0, fb.h \div 2, fb.h - 1}

ScreenNext ==
    \/ \E g \in Grabs : TakeWindow(g) \/ TakeIcon(g)
    \/ \E p \in Points : Drag(p[1], p[2])
    \/ LetGo
    \/ \E m \in Modes : Resize(m)
    \/ \E c \in Launches : Open(c)

ScreenSpec == ScreenInit /\ [][ScreenNext]_screenVars

-----------------------------------------------------------------------------
ScreenTypeOK ==
    /\ [w |-> fb.w, h |-> fb.h] \in Modes /\ fb.back \in BOOLEAN
    /\ {win.x, win.y, win.w, win.h, icon.x, icon.y} \subseteq Int
    /\ held.what \in {"nothing", "window", "icon"}
    /\ failed \in BOOLEAN

(* README.md:259: "48 pixels of the title bar always remain reachable": so *)
(* much of it lies between the sides of the screen and all its height      *)
(* above the taskbar, through any drags and changes of the resolution but  *)
(* one that failed half-way.                                               *)
TitleReachable ==
    ~failed =>
        /\ Min({win.x + win.w, fb.w}) - Max({win.x, 0}) >= DragKeep
        /\ win.y >= 0 /\ win.y + TitleH <= TaskbarY(fb)

(* An icon lies on the screen above the taskbar. *)
IconReachable ==
    ~failed =>
        /\ icon.x >= 0 /\ icon.x + Cell.w <= fb.w
        /\ icon.y >= 0 /\ icon.y + Cell.h <= TaskbarY(fb)

(* README.md:30: "Window size restoration across resolution changes": a    *)
(* window has the size it was created with wherever the screen has room.   *)
SizeRestored ==
    ~failed /\ win.ww <= fb.w /\ win.wh <= TaskbarY(fb) =>
        win.w = win.ww /\ win.h = win.wh

(* window.c, desktop.c, fb.c: windows and icons can be reached on every    *)
(* resolution, and windows have their size wherever there is room.         *)
ScreenSound == TitleReachable /\ IconReachable /\ SizeRestored
=============================================================================
