SPECIFICATION NetSpec
CONSTANTS
    Lan = {"gw", "dns"}
    Far = {"far"}
    Gateway = "gw"
    Dns = "dns"
    None = "none"
    Chatty = {"dns"}
    HostNames = {"fos", "org"}
PROPERTIES LookupAnswered
