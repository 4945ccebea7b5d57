SPECIFICATION OnlyHttpSpec
CONSTANTS
    Conns = 2
    Length = 3
    MaxSegment = 2
    RxSize = 2
    BodyCap = 5
    FinWaits = TRUE
    NxtBound = 5
    Lan = {"gw", "dns"}
    Far = {"far"}
    Gateway = "gw"
    Dns = "dns"
    None = "none"
    Chatty = {"dns"}
    HostNames = {"fos", "org"}
    RingUnits = 16
    Margin = 2
    FrameUnits = {3, 5}
    MaxFrames = 5
    PollGuard = 2
    MaxTaken = 6
    Servers = {"a", "b"}
    Paths = {"/"}
    Ports = {443, 8080}
    CookieNames = {"k", "l", "m"}
    Replies <- SomeReplies
    JarSize = 2
    MaxRedirects = 2
    MaxCookies = 2
    BufCap = 24
    Gets = 2
    Missing = "missing"
    Slots = 3
    Commands <- SomeCommands
    Lines <- TheLines
    Files <- TwoScripts
    Refs <- TwoReferences
    Rows = 4
    HistMax = 2
    HeadMax = 2
    MaxScripts = 3
    MaxVars = 1
    MaxTyped = 3
INVARIANTS CookiesReturned
CHECK_DEADLOCK FALSE
