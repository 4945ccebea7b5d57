-------------------------------- MODULE MCUi --------------------------------
(***************************************************************************)
(* What a user sees and touches, on small instances: the keyboard, the     *)
(* mouse, the clock, the windows, the screen, the settings, the players,   *)
(* the notepads, a page and the browser.  They keep no state in common, so *)
(* a behaviour is one of one of them, which part names from the first      *)
(* state on; the others keep their first state.                            *)
(***************************************************************************)
EXTENDS Keyboard, Mouse, Clock, Windows, Screen, Settings, Media, Documents, Html, Browser

VARIABLE part

uiVars == <<part, vars, mouseVars, clockVars, windowsVars, screenVars, settingsVars, mediaVars, docVars,
            htmlVars, browserVars>>

-----------------------------------------------------------------------------
(* Two movements, one to the right and up and one to the left and down,    *)
(* that both meet the edges of the screen                                  *)
TwoMoves == {<<9, -3>>, <<-3, 8>>}

At(y, mo, d, h, mi, s) == [sec |-> s, min |-> mi, hour |-> h, day |-> d, mon |-> mo, year |-> y]

(* The ends of a year, of 28 February and of a day *)
Instants == {At(2023, 12, 31, 23, 59, 59), At(2024, 2, 28, 12, 30, 59), At(2100, 3, 1, 0, 5, 0)}
FarZones == {-900, 345, 840}

(* What the icon of the desktop opens *)
OneIcon == <<"terminal">>

(* A window taller than the smaller screen, and one that fits *)
TwoModes == {[w |-> 640, h |-> 480], [w |-> 1920, h |-> 1080]}
TallAndLow == {[x |-> 100, y |-> 20, w |-> 480, h |-> 780], [x |-> 220, y |-> 130, w |-> 370, h |-> 246]}
OneGrab == {[dx |-> 60, dy |-> 20]}

Tunes == <<<<440, 0, 660>>, <<0, 880>>>>

(* Tags that open and close what they should and what they should not *)
SomeFragments ==
    {<<"ol", "li", "word", "/li">>, <<"/ol">>, <<"ul", "li", "word", "/li">>,
     <<"/ul", "li", "word", "/li">>, <<"a href", "word", "/a">>, <<"h1", "word", "/h1">>, <<"h1">>,
     <<"/h1", "li", "word", "/li">>, <<"word">>, <<"script", "word", "img", "/script">>,
     <<"style", "word", "/style", "p">>, <<"td", "word", "/td">>, <<"img", "hr">>,
     <<"a", "word", "p", "a href", "word">>, <<"blockquote", "word", "/blockquote">>,
     <<"header", "tr", "blockquote">>, <<"word", "entity", "word">>, <<"entity", "word", "br">>}

(* The words of the searches, and where the table of the browser has them *)
WordsOf ==
    "search:fos operating system" :> <<"fos", "operating", "system">>
      @@ "search:x86_64 kernel" :> <<"x86_64", "kernel">>
      @@ "search:network tcp" :> <<"network", "tcp">>
      @@ "search:http chunked" :> <<"http", "chunked">>
      @@ "zzz" :> <<"zzz">>
Found ==
    "chunked" :> [title |-> {11}, keywords |-> {11}, desc |-> {11}]
      @@ "fos" :> [title |-> {6, 9}, keywords |-> {1}, desc |-> {7, 10}]
      @@ "http" :> [title |-> {11}, keywords |-> {9, 10, 11}, desc |-> {9, 11}]
      @@ "kernel" :> [title |-> {2}, keywords |-> {1, 2}, desc |-> {}]
      @@ "network" :> [title |-> {9}, keywords |-> {9}, desc |-> {}]
      @@ "operating" :> [title |-> {1}, keywords |-> {1}, desc |-> {1}]
      @@ "system" :> [title |-> {1}, keywords |-> {1}, desc |-> {1}]
      @@ "tcp" :> [title |-> {}, keywords |-> {9}, desc |-> {9}]
      @@ "x86_64" :> [title |-> {2}, keywords |-> {2}, desc |-> {1}]
      @@ "zzz" :> [title |-> {}, keywords |-> {}, desc |-> {}]

(* A file of two characters, one more than a notepad takes *)
OneCharacter == <<1>>
NoCharacters == <<0>>
MadeNames == <<"u">>
LongFile == <<[name |-> "m", text |-> <<1, 1>>]>>

ASSUME UiAssumption == ClockAssumption /\ DocumentsAssumption /\ HtmlAssumption /\ BrowserAssumption

-----------------------------------------------------------------------------
(* What the others' first state is does not matter, nor what is in the     *)
(* ring before anything is typed.                                          *)
UiInit ==
    /\ part \in {"keyboard", "mouse", "clock", "windows", "screen", "settings", "media",
                 "documents", "html", "browser"}
    /\ Init /\ \A i \in Places : buf[i] = taken
    /\ taken = CHOOSE c \in Chars : TRUE
    /\ MouseInit /\ (part # "mouse" => speed = 0)
    /\ ClockInit /\ (part # "clock" => now.year = 2100 /\ format.bcd /\ format.h12)
    /\ WindowsInit
    /\ ScreenInit /\ (part # "screen" => fb.w = 640 /\ win.w = 370)
    /\ SettingsInit /\ (part # "settings" => disk /\ display = "800x600")
    /\ MediaInit
    /\ DocumentsInit
    /\ HtmlInit
    /\ BrowserInit /\ (part # "browser" => netReady)

UiNext ==
    /\ \/ /\ part = "keyboard" /\ Next
          /\ UNCHANGED <<mouseVars, clockVars, windowsVars, screenVars, settingsVars, mediaVars, docVars, htmlVars, browserVars>>
       \/ /\ part = "mouse" /\ MouseNext
          /\ UNCHANGED <<vars, clockVars, windowsVars, screenVars, settingsVars, mediaVars, docVars, htmlVars, browserVars>>
       \/ /\ part = "clock" /\ ClockNext
          /\ UNCHANGED <<vars, mouseVars, windowsVars, screenVars, settingsVars, mediaVars, docVars, htmlVars, browserVars>>
       \/ /\ part = "windows" /\ WindowsNext
          /\ UNCHANGED <<vars, mouseVars, clockVars, screenVars, settingsVars, mediaVars, docVars, htmlVars, browserVars>>
       \/ /\ part = "screen" /\ ScreenNext
          /\ UNCHANGED <<vars, mouseVars, clockVars, windowsVars, settingsVars, mediaVars, docVars, htmlVars, browserVars>>
       \/ /\ part = "settings" /\ SettingsNext
          /\ UNCHANGED <<vars, mouseVars, clockVars, windowsVars, screenVars, mediaVars, docVars, htmlVars, browserVars>>
       \/ /\ part = "media" /\ MediaNext
          /\ UNCHANGED <<vars, mouseVars, clockVars, windowsVars, screenVars, settingsVars, docVars, htmlVars, browserVars>>
       \/ /\ part = "documents" /\ DocumentsNext
          /\ UNCHANGED <<vars, mouseVars, clockVars, windowsVars, screenVars, settingsVars, mediaVars, htmlVars, browserVars>>
       \/ /\ part = "html" /\ HtmlNext
          /\ UNCHANGED <<vars, mouseVars, clockVars, windowsVars, screenVars, settingsVars, mediaVars, docVars, browserVars>>
       \/ /\ part = "browser" /\ BrowserNext
          /\ UNCHANGED <<vars, mouseVars, clockVars, windowsVars, screenVars, settingsVars, mediaVars, docVars, htmlVars>>
    /\ UNCHANGED part

UiSpec == UiInit /\ [][UiNext]_uiVars

(* The windows alone *)
OnlyWindowsSpec == UiInit /\ part = "windows" /\ [][UiNext]_uiVars

-----------------------------------------------------------------------------
(* Every part keeps its types. *)
PartsTyped ==
    /\ TypeOK /\ MouseTypeOK /\ ClockTypeOK /\ WindowsTypeOK /\ ScreenTypeOK
    /\ SettingsTypeOK /\ MediaTypeOK /\ DocumentsTypeOK /\ HtmlTypeOK /\ BrowserTypeOK
=============================================================================
