SPECIFICATION UiSpec
CONSTANTS
    Size = 3
    Letters = {"q"}
    MaxWindows = 2
    Apps = {"terminal"}
    Single = {"settings", "wallpaper"}
    Menu = {"terminal", "settings"}
    FirstItem = "terminal"
    IconOpens <- OneIcon
    Modes <- TwoModes
    Launches <- TallAndLow
    Grabs <- OneGrab
    Players = {1, 2, 3}
    Tracks <- Tunes
    Width = 7
    Height = 5
    Moves <- TwoMoves
    ButtonStates = {0, 3}
    MouseSpeeds = {0, 1}
    MaxLost = 3
    Zones = 2
    Utc = 0
    Speeds = {1, 2}
    Photos = 3
    Displays = {"800x600", "1920x1080"}
    Small = {"800x600"}
    MaxChanges = 2
    Starts <- Instants
    Attempts = 2
    MaxUpdates = 1
    Minutes <- FarZones
    Fragments <- SomeFragments
    MaxFragments = 3
    LineLen = 4
    TextCap = 5
    MaxLines = 3
    ListDepth = 2
    QuoteDepth = 1
    Sites = {"http://a/"}
    Searches = {"zzz"}
    Tokens <- WordsOf
    Hits <- Found
    Results = 3
    HistSize = 3
    MaxVisits = 4
    Missing <- NoCharacters
    Slots = 2
    Files <- LongFile
    Names = {"m", "u"}
    Untitled = "u"
    Made <- MadeNames
    Hello <- OneCharacter
    Typeable = {1}
    Cap = 1
    PadSlots = {1, 2}
    Steps = 1
INVARIANTS PartsTyped WindowsSound ScreenSound SpeakerFollows PageSound BrowserSound
PROPERTIES OneSwitchPerChord FifoSpec FollowsInStep ReadingExact SettingsKept DocumentsKept
CHECK_DEADLOCK FALSE
