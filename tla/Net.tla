-------------------------------- MODULE Net --------------------------------
(***************************************************************************)
(* Addresses, ping and names, kernel/net.c: an ARP cache of one entry,     *)
(* send_ipv4, which sends an ARP request instead of a packet whose next    *)
(* hop is not in the cache, and the calls that wait for an answer.         *)
(* Frames are handled while a call or the ui task polls, never inside a    *)
(* step of a call.                                                         *)
(***************************************************************************)
EXTENDS Integers

CONSTANTS
    Lan,          \* the hosts of our /24
    Far,          \* hosts behind the gateway
    Gateway, Dns, \* g_gateway and g_dns, both in our /24
    None,         \* no host
    Chatty,       \* hosts of the Lan that may speak to us on their own
    HostNames     \* the names that are looked up

ASSUME HostsAssumption ==
    /\ {Gateway, Dns} \subseteq Lan /\ Gateway # Dns
    /\ Lan \cap Far = {} /\ None \notin Lan \cup Far
    /\ Chatty \subseteq Lan

ASSUME NamesAssumption == HostNames \cap {"none", "useless"} = {}

Hosts == Lan \cup Far

(* A datagram for our port has the address of a name, or is of no use: it  *)
(* has another identifier than the one all our queries share, or no        *)
(* address in it.                                                          *)
Answers == HostNames \cup {"useless"}

Frames ==
    [kind : {"arp request", "arp reply", "echo request", "echo reply"}, from : Hosts]
      \cup [kind : {"udp"}, from : Hosts, answer : Answers]

VARIABLES
    calm,         \* nobody speaks unasked and every frame arrives, once, in time
    cache,        \* g_last_ip, None while g_last_valid is 0
    pingDest,     \* g_ping_dest
    pingReply,    \* g_ping_reply
    udp,          \* what g_udp_buf holds if g_udp_got is set, "none" otherwise
    call,         \* the wait a call is in, or "ui"
    dest,         \* the destination of the call
    asked,        \* the name the lookup in progress is of, "none" in other calls
    result,       \* how the last call ended
    wire,         \* frames on their way; an unreliable network keeps them
    answered,     \* history: an echo reply of dest came since the ping was sent
    arrived       \* history: the names whose address came during that lookup

received == <<cache, pingDest, pingReply, udp>>
netVars == <<calm, received, call, dest, asked, result, wire, answered, arrived>>

NetInit ==
    /\ calm \in BOOLEAN
    /\ cache = None /\ pingDest = None /\ pingReply = FALSE /\ udp = "none"
    /\ call = "ui" /\ dest = None /\ asked = "none" /\ result = "none"
    /\ wire = {} /\ answered = FALSE /\ arrived = {}

Frame(k, h) == [kind |-> k, from |-> h]
Datagram(h, a) == [kind |-> "udp", from |-> h, answer |-> a]

-----------------------------------------------------------------------------
(* Sending: what it brings in flight *)

(* Only a host of our /24 answers an ARP request. *)
ArpRequest(h) == IF h \in Lan THEN {Frame("arp reply", h)} ELSE {}

(* Bug: every packet goes by the gateway. *)
NextHopGateway(h) == Gateway

NextHop(h) == IF h \in Lan THEN h ELSE Gateway

(* Whether send_ipv4 sends the packet *)
Sends(h) == cache = NextHop(h)

(* send_ipv4, for a packet that h answers with these frames *)
Send(h, replies) == IF Sends(h) THEN replies ELSE ArpRequest(NextHop(h))

-----------------------------------------------------------------------------
(* net_rx_frame *)

(* Bug: of a request, the address asked for is remembered, which is ours. *)
HandleArpTarget(f) ==
    /\ f.kind \in {"arp request", "arp reply"}
    /\ cache' = IF f.kind = "arp request" THEN "us" ELSE f.from
    /\ UNCHANGED <<pingDest, pingReply, udp, arrived>>

(* handle_arp and cache_arp: any request or reply replaces the entry *)
HandleArp(f) ==
    /\ f.kind \in {"arp request", "arp reply"}
    /\ cache' = f.from
    /\ UNCHANGED <<pingDest, pingReply, udp, arrived>>

(* Bug: the sender is not compared. *)
HandleEchoReplyAny(f) ==
    /\ f.kind = "echo reply"
    /\ pingReply' = TRUE
    /\ UNCHANGED <<cache, pingDest, udp, arrived>>

(* handle_icmp *)
HandleEchoReply(f) ==
    /\ f.kind = "echo reply"
    /\ pingReply' = (pingReply \/ f.from = pingDest)
    /\ UNCHANGED <<cache, pingDest, udp, arrived>>

HandleEchoRequest(f) ==
    /\ f.kind = "echo request"
    /\ UNCHANGED <<received, arrived>>

(* handle_udp: a datagram for our port replaces the one before, whoever    *)
(* sent it and whatever name it is about *)
HandleUdp(f) ==
    /\ f.kind = "udp"
    /\ udp' = f.answer
    /\ arrived' = IF asked = "none" THEN {} ELSE arrived \cup (HostNames \cap {f.answer})
    /\ UNCHANGED <<cache, pingDest, pingReply>>

RxFrame(f) ==
    /\ HandleArp(f) \/ HandleEchoReply(f) \/ HandleEchoRequest(f) \/ HandleUdp(f)
    /\ LET caused == IF f.kind = "echo request" THEN Send(f.from, {}) ELSE {}
       IN  wire' = (IF calm THEN wire \ {f} ELSE wire) \cup caused
    /\ answered' = (answered \/ f = Frame("echo reply", dest))
    /\ UNCHANGED <<call, dest, asked, result>>

(* A host speaks on its own. *)
Chatter(h) ==
    /\ ~calm
    /\ \E f \in {Frame("arp request", h), Frame("echo request", h)}
                  \cup {Datagram(h, a) : a \in Answers} :
         wire' = wire \cup {f}
    /\ UNCHANGED <<received, call, dest, asked, result, answered, arrived>>

-----------------------------------------------------------------------------
(* The calls *)

(* A wait of a fixed time is over. *)
WaitOver == calm => wire = {}

Returns(r) == call' = "ui" /\ result' = r

(* The first step of net_ping, net_dns_lookup and net_tcp_connect: an ARP  *)
(* request for h and a wait, unless h is in the cache *)
Resolves(h, wait) ==
    /\ cache # h
    /\ wire' = wire \cup ArpRequest(h)
    /\ call' = wait

(* net_ping from g_ping_reply = 0 to the loop *)
SendEcho(h) ==
    /\ pingReply' = FALSE /\ pingDest' = h
    /\ wire' = wire \cup Send(h, {Frame("echo reply", h)})
    /\ answered' = FALSE
    /\ call' = "ping"
    /\ UNCHANGED <<cache, udp>>

Ping(h) ==
    /\ call = "ui" /\ dest' = h
    /\ \/ Resolves(h, "ping arp") /\ UNCHANGED <<received, answered>>
       \/ cache = h /\ SendEcho(h)
    /\ UNCHANGED <<result, asked, arrived>>

PingResolved ==
    /\ call = "ping arp" /\ WaitOver
    /\ \/ cache = dest /\ SendEcho(dest) /\ UNCHANGED result
       \/ cache # dest /\ Returns("failed") /\ UNCHANGED <<received, wire, answered>>
    /\ UNCHANGED <<dest, asked, arrived>>

PingReturns ==
    /\ call = "ping"
    /\ \/ pingReply /\ Returns("reply")
       \/ ~pingReply /\ WaitOver /\ Returns("failed")
    /\ UNCHANGED <<received, dest, asked, wire, answered, arrived>>

(* udp_send of the query for a name, which the server answers *)
SendQuery(n) ==
    /\ wire' = wire \cup Send(Dns, {Datagram(Dns, n)})
    /\ call' = "dns"

(* Bug: the answer to the lookup before is kept. *)
LookupKeeping(n) ==
    /\ call = "ui" /\ dest' = Dns /\ asked' = n
    /\ Resolves(Gateway, "dns arp") \/ (cache = Gateway /\ SendQuery(n))
    /\ UNCHANGED <<received, result, answered, arrived>>

(* net_dns_lookup of a name that is not an address.  It looks the gateway  *)
(* up, whatever next hop its query has. *)
Lookup(n) ==
    /\ call = "ui" /\ dest' = Dns /\ asked' = n
    /\ udp' = "none"
    /\ Resolves(Gateway, "dns arp") \/ (cache = Gateway /\ SendQuery(n))
    /\ UNCHANGED <<cache, pingDest, pingReply, result, answered, arrived>>

LookupEnds(r) == Returns(r) /\ asked' = "none" /\ arrived' = {}

(* Bug: an unresolved destination is waited for again. *)
LookupResolvedOnly ==
    /\ call = "dns arp" /\ WaitOver
    /\ cache = Gateway /\ SendQuery(asked)
    /\ UNCHANGED <<received, dest, asked, result, answered, arrived>>

LookupResolved ==
    /\ call = "dns arp" /\ WaitOver
    /\ \/ cache = Gateway /\ SendQuery(asked) /\ UNCHANGED <<result, asked, arrived>>
       \/ cache # Gateway /\ LookupEnds("failed") /\ UNCHANGED wire
    /\ UNCHANGED <<received, dest, answered>>

(* The identifier is all of the answer that is compared with the question. *)
LookupReturns ==
    /\ call = "dns"
    /\ \/ udp # "none" /\ LookupEnds(IF udp \in HostNames THEN "address" ELSE "failed")
       \/ udp = "none" /\ WaitOver /\ LookupEnds("failed")
    /\ UNCHANGED <<received, dest, wire, answered>>

(* tcp_send_segment(TCP_SYN): the rest of the connection is module Tcp *)
SendSyn(h) ==
    /\ wire' = wire \cup Send(h, {})
    /\ Returns(IF Sends(h) THEN "syn sent" ELSE "failed")

(* net_tcp_connect looks the destination itself up. *)
ConnectTo(h) ==
    /\ call = "ui" /\ dest' = h
    /\ \/ Resolves(h, "connect arp") /\ UNCHANGED result
       \/ cache = h /\ SendSyn(h)
    /\ UNCHANGED <<received, asked, answered, arrived>>

ConnectResolved ==
    /\ call = "connect arp" /\ WaitOver
    /\ \/ cache = dest /\ SendSyn(dest)
       \/ cache # dest /\ Returns("failed") /\ UNCHANGED wire
    /\ UNCHANGED <<received, dest, asked, answered, arrived>>

Begin == (\E n \in HostNames : Lookup(n)) \/ \E h \in Hosts : Ping(h) \/ ConnectTo(h)
Waiting == PingResolved \/ PingReturns \/ LookupResolved \/ LookupReturns \/ ConnectResolved

Arriving == \E f \in wire : RxFrame(f)

NetNext ==
    /\ \/ Begin \/ Waiting \/ Arriving
       \/ \E h \in Chatty : Chatter(h)
    /\ UNCHANGED calm

NetSpec == NetInit /\ [][NetNext]_netVars

(* Ticks go on, so every wait ends; on a calm network frames arrive. *)
NetRunning == NetSpec /\ WF_netVars(Waiting /\ UNCHANGED calm)
                    /\ WF_netVars(calm /\ Arriving /\ UNCHANGED calm)

-----------------------------------------------------------------------------
(* Properties *)

NetTypeOK ==
    /\ calm \in BOOLEAN
    /\ cache \in Hosts \cup {None}
    /\ pingDest \in Hosts \cup {None} /\ pingReply \in BOOLEAN
    /\ udp \in Answers \cup {"none"}
    /\ call \in {"ui", "ping arp", "ping", "dns arp", "dns", "connect arp"}
    /\ dest \in Hosts \cup {None}
    /\ asked \in HostNames \cup {"none"}
    /\ result \in {"none", "reply", "address", "syn sent", "failed"}
    /\ wire \subseteq Frames
    /\ answered \in BOOLEAN /\ arrived \subseteq HostNames

Ended(from, r) == call \in from /\ call' = "ui" /\ result' = r

(* A ping reports a reply only if one of its destination came since the    *)
(* request: the late reply of a host pinged before is not taken for it.    *)
PingHonest == [][Ended({"ping"}, "reply") => answered]_netVars

(* The address a lookup returns came while it waited, not before; it is of *)
(* the name asked unless that of another name came meanwhile, as the late  *)
(* answer to an earlier lookup does: the code would take that.             *)
LookupFresh ==
    [][Ended({"dns"}, "address") =>
         udp \in arrived /\ (udp = asked \/ arrived # {asked})]_netVars

(* On a calm network a ping of a host of our /24 gets its reply, whatever  *)
(* the one entry of the cache held.                                        *)
PingReaches ==
    [][calm /\ Ended({"ping arp", "ping"}, "failed") => dest \notin Lan]_netVars

(* net.c: what a call reports came while it waited, to a ping from its     *)
(* destination and to a lookup with whatever name was last to come; and a  *)
(* ping of our /24 gets through on a calm network.                         *)
AnswersFresh == PingHonest /\ LookupFresh /\ PingReaches

(* Every call returns.                                                     *)
CallsReturn == call # "ui" ~> call = "ui"

(* On a calm network a name resolves.                                      *)
LookupAnswered == [][calm => ~Ended({"dns arp", "dns"}, "failed")]_netVars
=============================================================================
