------------------------------ MODULE Settings ------------------------------
(***************************************************************************)
(* The settings and the wallpaper, gui/settings.c and gui/wallpaper.c: who *)
(* changes them, which changes are saved, what a boot loads back, and the  *)
(* picture the wallpaper keeps of the photo it shows.  Layouts and the     *)
(* interface language come from kernel/keyboard.c and lib/i18n.c.  The     *)
(* file store and the disk under it are those of module DiskFS, here       *)
(* reduced to what a power cut may leave of the settings file.             *)
(***************************************************************************)
EXTENDS Integers, Sequences, FiniteSets

CONSTANTS
    Zones,        \* TZ_LIST has this many entries
    Utc,          \* the entry of offset 0
    Speeds,       \* the mouse speeds
    Photos,       \* photos_count()
    Displays,     \* the resolutions
    Small,        \*   those the picture has room for
    MaxChanges    \* bound on the changes between two boots

ASSUME SettingsAssumption ==
    /\ Zones \in Nat \ {0} /\ Utc \in 0 .. Zones - 1
    /\ 1 \in Speeds /\ Photos \in Nat \ {0}
    /\ Small \subseteq Displays /\ Displays # {}
    /\ MaxChanges \in Nat

Languages == {"EN", "RU"}
Walls == {"solid", "gradient", "photo"}
Values == [ui : Languages, kbd : Languages, clock24 : BOOLEAN, speed : Speeds,
           wall : Walls, photo : 0 .. Photos - 1, zone : 0 .. Zones - 1]

VARIABLES
    cur,          \* what the modules hold: g_lang, g_layout, g_clock_24h, ...
    display,      \* the resolution of the framebuffer
    picture,      \* g_photo_cache: the photo in it, its size, g_cache_valid
    file,         \* settings.bin, and the values in it when it is good
    disk,         \* there is a disk under the files
    off,          \* the power is off
    changes,      \* changes since boot, bounded by MaxChanges
    kept,         \* history: what the next boot may come up with
    reclicked     \* history: the photo's swatch was clicked while the photo was up

wallpaper == <<picture, reclicked>>
settingsVars == <<cur, display, wallpaper, file, disk, off, changes, kept>>

(* keyboard_init, wallpaper_init, settings_init and i18n_init *)
Defaults == [ui |-> "EN", kbd |-> "EN", clock24 |-> TRUE, speed |-> 1,
             wall |-> "gradient", photo |-> 0, zone |-> Utc]

NoPicture(d) == [photo |-> 0, display |-> d, valid |-> FALSE]

NoFile == [state |-> "missing", blob |-> Defaults]
Spoiled == [state |-> "spoiled", blob |-> Defaults]
Good(v) == [state |-> "good", blob |-> v]

SettingsInit ==
    /\ cur = Defaults
    /\ display \in Displays /\ picture = NoPicture(display)
    /\ file = NoFile
    /\ disk \in BOOLEAN
    /\ off = FALSE /\ changes = 0
    /\ kept = {Defaults} /\ reclicked = FALSE

-----------------------------------------------------------------------------
(* Bug: the wallpaper's photo is left out of the file. *)
BlobNoPhoto(v) == [v EXCEPT !.photo = 0]

(* settings_save: the fields of settings_blob *)
Blob(v) == v

(* Bug: the photo comes back only with the index at boot. *)
LoadedFirst(f) ==
    IF f.state # "good" THEN Defaults ELSE [f.blob EXCEPT !.photo = 0]

(* settings_load, after the inits: nothing from a file that is short, or   *)
(* whose magic or checksum is wrong; the photo only with its wallpaper     *)
Loaded(f) ==
    IF f.state # "good" THEN Defaults
    ELSE IF f.blob.wall = "photo" THEN f.blob ELSE [f.blob EXCEPT !.photo = 0]

(* settings_save: fs_write, which finds no room for a new file when the    *)
(* table is full, and fs_sync                                              *)
Save(v) ==
    \/ /\ file' = Good(Blob(v)) /\ kept' = {v}
    \/ /\ file = NoFile
       /\ UNCHANGED <<file, kept>>

-----------------------------------------------------------------------------
(* wallpaper.c *)

(* Bug: a new photo leaves the picture of the old one valid. *)
SetPhotoKeeping(i) ==
    /\ cur' = [cur EXCEPT !.photo = i, !.wall = "photo"]
    /\ UNCHANGED wallpaper

(* wallpaper_set_photo *)
SetPhoto(i) ==
    /\ cur' = [cur EXCEPT !.photo = i, !.wall = "photo"]
    /\ picture' = [picture EXCEPT !.valid = FALSE]
    /\ reclicked' = FALSE

(* ws_click and wallpaper_set: the photo's swatch goes to the next photo,  *)
(* and only the other swatches make the picture invalid                    *)
Swatch(w) ==
    /\ cur' = [cur EXCEPT !.wall = w,
                          !.photo = IF w = "photo" THEN (@ + 1) % Photos ELSE @]
    /\ picture' = [picture EXCEPT !.valid = @ /\ w = "photo"]
    /\ reclicked' = (w = "photo" /\ (reclicked \/ cur.wall = "photo"))

(* wallpaper_draw, when it renders the photo anew *)
Paint ==
    /\ cur.wall = "photo" /\ display \in Small
    /\ ~picture.valid \/ picture.display # display
    /\ picture' = [photo |-> cur.photo, display |-> display, valid |-> TRUE]
    /\ reclicked' = FALSE

-----------------------------------------------------------------------------
(* What the user does *)

Change ==
    /\ ~off /\ changes < MaxChanges
    /\ changes' = changes + 1
    /\ UNCHANGED <<disk, off>>

(* set_click: the buttons of the settings that are saved as one value *)
Buttons ==
    {[cur EXCEPT !.kbd = l] : l \in Languages}
        \cup {[cur EXCEPT !.ui = l] : l \in Languages}
        \cup {[cur EXCEPT !.zone = (@ + d) % Zones] : d \in {1, Zones - 1}}
        \cup {[cur EXCEPT !.clock24 = c] : c \in BOOLEAN}
        \cup {[cur EXCEPT !.speed = s] : s \in Speeds}

ButtonClicked ==
    /\ Change
    /\ cur' \in Buttons
    /\ Save(cur')
    /\ UNCHANGED <<display, wallpaper>>

(* set_click and do_resize: the resolution, which the blob does not hold   *)
DisplayClicked(d) ==
    /\ Change
    /\ display' \in {d, display}
    /\ Save(cur)
    /\ UNCHANGED <<cur, wallpaper>>

SwatchClicked(w) ==
    /\ Change
    /\ Swatch(w)
    /\ Save(cur')
    /\ UNCHANGED display

(* photo_click: "Set Wallpaper", which does not save *)
PhotoSet(i) ==
    /\ Change
    /\ SetPhoto(i)
    /\ UNCHANGED <<display, file, kept>>

(* the layout by Shift+Alt or cmd_lang, which do not save *)
LayoutChanged(l) ==
    /\ Change
    /\ cur' = [cur EXCEPT !.kbd = l]
    /\ UNCHANGED <<display, wallpaper, file, kept>>

(* cmd_tz with a number, and cmd_save *)
ZoneTyped(z) ==
    /\ Change
    /\ cur' = [cur EXCEPT !.zone = z]
    /\ Save(cur')
    /\ UNCHANGED <<display, wallpaper>>

(* the file removed, or written over, by the user *)
FileSpoiled ==
    /\ Change
    /\ file # NoFile /\ file' \in {NoFile, Spoiled}
    /\ kept' = {Defaults}
    /\ UNCHANGED <<cur, display, wallpaper>>

WallpaperPainted ==
    /\ ~off /\ Paint
    /\ UNCHANGED <<cur, display, file, disk, off, changes, kept>>

-----------------------------------------------------------------------------
(* The power goes, perhaps while the file is being written *)
PowerOff ==
    /\ ~off /\ off' = TRUE
    /\ \/ UNCHANGED <<file, kept>>
       \/ /\ file' \in {Good(Blob(cur)), NoFile, Spoiled}
          /\ kept' = kept \cup {cur, Defaults}
    /\ UNCHANGED <<cur, display, wallpaper, disk, changes>>

(* kmain: the inits, the files of the disk, settings_load *)
Boot ==
    /\ off /\ off' = FALSE
    /\ LET found == IF disk THEN file ELSE NoFile
       IN  /\ file' = found
           /\ cur' = Loaded(found)
           /\ kept' = {cur'}
    /\ display' \in Displays /\ picture' = NoPicture(display')
    /\ changes' = 0 /\ reclicked' = FALSE
    /\ UNCHANGED disk

SettingsNext ==
    \/ ButtonClicked
    \/ \E d \in Displays : DisplayClicked(d)
    \/ \E w \in Walls : SwatchClicked(w)
    \/ \E i \in 0 .. Photos - 1 : PhotoSet(i)
    \/ \E l \in Languages : LayoutChanged(l)
    \/ \E z \in 0 .. Zones - 1 : ZoneTyped(z)
    \/ FileSpoiled
    \/ WallpaperPainted
    \/ PowerOff
    \/ Boot

SettingsSpec == SettingsInit /\ [][SettingsNext]_settingsVars

-----------------------------------------------------------------------------
SettingsTypeOK ==
    /\ cur \in Values /\ kept \subseteq Values
    /\ display \in Displays
    /\ picture \in [photo : 0 .. Photos - 1, display : Displays, valid : BOOLEAN]
    /\ file.state \in {"missing", "spoiled", "good"} /\ file.blob \in Values
    /\ disk \in BOOLEAN /\ off \in BOOLEAN /\ reclicked \in BOOLEAN
    /\ changes \in 0 .. MaxChanges

(* The user sees the same: a photo not shown does not count. *)
Same(v, w) ==
    \A f \in DOMAIN v : v[f] = w[f] \/ (f = "photo" /\ v.wall # "photo" /\ w.wall # "photo")

(* With a disk, a boot comes up with what was last saved; after a power    *)
(* cut during a save, with what was being saved, what was saved before, or *)
(* the defaults, and never with a mixture.                                 *)
SavedReturns ==
    [][off /\ ~off' =>
        \E k \in IF disk THEN kept ELSE {Defaults} : Same(cur', k)]_settingsVars

(* The picture painted is the photo chosen, whichever application chose it *)
(* and whatever the resolution did in between: unless the photo's swatch   *)
(* is clicked while the photo is up, which leaves the old picture.         *)
PhotoShown ==
    cur.wall = "photo" /\ picture.valid /\ ~reclicked => picture.photo = cur.photo

(* settings.c and wallpaper.c: a boot comes up with what was last saved,   *)
(* and the picture painted is the photo chosen.                            *)
SettingsKept == SavedReturns /\ [][PhotoShown']_settingsVars
=============================================================================
