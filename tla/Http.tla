-------------------------------- MODULE Http --------------------------------
(***************************************************************************)
(* The HTTP client, kernel/http.c, above the connection (module Tcp):      *)
(* http_get_follow with its hops, http_get_raw with its cookie jar, and    *)
(* the chunked body, which is decoded inside the buffer it arrived in.     *)
(***************************************************************************)
EXTENDS Integers, Sequences, FiniteSets

CONSTANTS
    Servers,      \* the names of hosts, none the end of another
    Paths,
    Ports,        \* those a URL may name; 80 goes without saying
    CookieNames,
    Replies,      \* the responses of servers
    JarSize,      \* 32
    MaxRedirects, \* HTTP_MAX_REDIRECTS
    MaxCookies,   \* HTTP_MAX_COOKIES
    BufCap,      \* body_cap
    Gets          \* bounds the calls of http_get_follow

NoHost == "none"
Urls == [scheme : {"http", "https"}, host : Servers, port : Ports \cup {80}, path : Paths]
Rooted(p) == [scheme |-> "", host |-> "", port |-> 80, path |-> p]
NoUrl == [scheme |-> "", host |-> "", port |-> 80, path |-> ""]

(* A response has a Location (none, a URL, or a path), cookies to set, and *)
(* a body: the lengths of its chunks, or the one length of a body that is  *)
(* not chunked.  Its lines and the pieces of its body are the units of the *)
(* buffer.  "first" of them have come when the first call of net_tcp_recv  *)
(* returns, "arrives" when the later ones do; "stray" is the number that   *)
(* text is taken for where a size is looked for (Content is 12, HTTP is 0).*)
Locations == Urls \cup {Rooted(p) : p \in Paths} \cup {NoUrl}
Responses ==
    [status : Nat, location : Locations, cookies : Seq(CookieNames), chunked : BOOLEAN,
     chunks : Seq(Nat \ {0}), head : Nat \ {0}, first : Nat \ {0}, arrives : Nat \ {0},
     stray : Nat]

VARIABLES
    jar,          \* g_cookies
    count,        \* g_cookie_count
    at,           \* where the client is
    cur,          \* cur_url
    hop,
    rc,           \* what the last call returned
    resp,         \* *out
    reply,        \* the response of this hop
    buf,          \* body_buf
    ip, op,       \* those of decode_chunked
    gets,         \* calls so far
    given,        \* history: the cookies each server has set
    offered       \* history: the cookies of the last request, and its server

place == <<at, cur, hop, rc, gets>>
cookies == <<jar, count, given>>
incoming == <<reply, buf, ip, op>>
httpVars == <<place, cookies, incoming, resp, offered>>

FreeEntry == [host |-> NoHost, name |-> NoHost]
JarSlots == 1 .. JarSize
UsedSlots == {i \in JarSlots : jar[i] # FreeEntry}
First(S) == CHOOSE i \in S : \A j \in S : i <= j
Lesser(i, j) == IF i < j THEN i ELSE j

NoReply == [status |-> 0, location |-> NoUrl, cookies |-> << >>, chunked |-> FALSE,
            chunks |-> << >>, head |-> 1, first |-> 1, arrives |-> 1, stray |-> 0]
Cleared == [status |-> -1, location |-> NoUrl, cookies |-> << >>, chunked |-> FALSE,
            chain |-> << >>, body |-> << >>]

(* cookie_jar_init *)
HttpInit ==
    /\ at = "idle" /\ cur = NoUrl /\ hop = 0 /\ rc = 0 /\ gets = 0
    /\ jar = [i \in JarSlots |-> FreeEntry] /\ count = 0 /\ given = {}
    /\ reply = NoReply /\ buf = << >> /\ ip = 0 /\ op = 0
    /\ resp = Cleared /\ offered = [to |-> NoHost, cookies |-> {}]

-----------------------------------------------------------------------------
(* The cookie jar *)

(* net_host_matches *)
HostMatches(stored, request) == stored # "" /\ stored = request

(* The loop that writes the Host line has left host at the end of the      *)
(* name: what is matched and stored is the empty string. *)
HostLeft(u) == ""

(* cookie_build *)
CookieBuild == {jar[i] : i \in {k \in UsedSlots : HostMatches(jar[k].host, HostLeft(cur))}}

(* Bug: a cookie that is set again takes another slot. *)
CookieSlotsFree(h, n) == JarSlots \ UsedSlots

(* The slot of cookie_find, or the free ones *)
CookieSlots(h, n) ==
    LET found == {i \in UsedSlots : jar[i].host = h /\ jar[i].name = n}
    IN  IF found # {} THEN found ELSE JarSlots \ UsedSlots

(* cookie_store *)
CookieStore(h, n) ==
    LET slots == CookieSlots(h, n)
    IN  IF slots = {} THEN UNCHANGED <<jar, count>>
        ELSE LET i == First(slots)
             IN  /\ jar' = [jar EXCEPT ![i] = [host |-> h, name |-> n]]
                 /\ count' = IF i \in UsedSlots THEN count ELSE count + 1

-----------------------------------------------------------------------------
(* The response as it lies in the buffer, a unit for a line or a piece of  *)
(* the body *)

Times(n, x) == [i \in 1 .. n |-> x]

(* The pieces before chunk k, counted from 1 *)
Before(r, k) ==
    LET sum[i \in 0 .. Len(r.chunks)] == IF i = 0 THEN 0 ELSE sum[i - 1] + r.chunks[i]
    IN  sum[k - 1]

Pieces(r, k) == [i \in 1 .. r.chunks[k] |-> <<"data", Before(r, k) + i>>]

Wire(r) ==
    LET Chunk(k) == IF r.chunked
                    THEN <<<<"size", r.chunks[k]>>>> \o Pieces(r, k) \o <<<<"eol", 0>>>>
                    ELSE Pieces(r, k)
        upTo[k \in 0 .. Len(r.chunks)] == IF k = 0 THEN << >> ELSE upTo[k - 1] \o Chunk(k)
    IN  Times(r.head, <<"head", 0>>) \o upTo[Len(r.chunks)]
          \o (IF r.chunked THEN <<<<"size", 0>>>> ELSE << >>)

HttpAssumption ==
    /\ {JarSize, MaxRedirects, MaxCookies, BufCap, Gets} \subseteq Nat \ {0}
    /\ Replies \subseteq Responses
    /\ \A r \in Replies : r.first <= r.arrives /\ r.arrives <= Len(Wire(r))

(* The loop of net_tcp_recv: every call copies from the start of g_tcp_rx, *)
(* so the buffer is filled with the response again and again, to body_cap  *)
(* - 1 and the NUL behind.  (Bound: the calls after the first one bring    *)
(* the same.)                                                              *)
Filled(r) ==
    [i \in 1 .. BufCap |->
        IF i = BufCap THEN <<"end", 0>>
        ELSE Wire(r)[IF i <= r.first THEN i ELSE 1 + ((i - r.first - 1) % r.arrives)]]

(* find_header_end: where the first call ends within the head, the end is  *)
(* that of the copy behind it.                                             *)
Skipped(r) == IF r.first < r.head THEN r.first ELSE 0
HeadEnds(r) == r.head <= r.arrives /\ Skipped(r) + r.head < BufCap

(* The body as the server means it, and whether the copy of the response   *)
(* that it is read from is all there *)
Whole(r) == [i \in 1 .. Before(r, Len(r.chunks) + 1) |-> <<"data", i>>]
Complete(r) == Len(Wire(r)) = IF r.first < r.head THEN r.arrives ELSE r.first
CopyEnd(r) == Skipped(r) + Len(Wire(r))

(* raw_body and raw_len *)
Half == BufCap \div 2
BodyAt == Skipped(reply) + reply.head
InLen == BufCap - 1 - BodyAt
In(b, i) == b[BodyAt + i + 1]

(* memcpy, a byte after the other, also where the two overlap *)
Copied(b, to, from, n) ==
    [i \in 1 .. BufCap |->
        IF i - 1 \in to .. to + n - 1
        THEN LET k == i - 1 - to
             IN  b[1 + from + (IF to > from THEN k % (to - from) ELSE k)]
        ELSE b[i]]

-----------------------------------------------------------------------------
(* http_get_raw *)

RawFails(code) ==
    /\ at' = "idle" /\ rc' = code
    /\ resp' = Cleared
    /\ UNCHANGED <<cur, hop, gets, cookies, incoming, offered>>

(* No address, no connection *)
Unreachable == at = "raw" /\ \E code \in {-1, -2} : RawFails(code)

Request ==
    /\ at = "raw"
    /\ at' = "sent"
    /\ resp' = Cleared
    /\ offered' = [to |-> cur.host, cookies |-> CookieBuild]
    /\ UNCHANGED <<cur, hop, rc, gets, cookies, incoming>>

(* Nothing comes, or no end of the head does. *)
NoResponse == at = "sent" /\ \E code \in {-3, -4} : RawFails(code)

(* The response, its status and the headers but for the cookies; the lines *)
(* of the head before its end are read twice where it begins twice.        *)
Response ==
    /\ at = "sent"
    /\ \E r \in {s \in Replies : HeadEnds(s)} :
         /\ \E again \in 0 .. (IF Skipped(r) = 0 THEN 0 ELSE Len(r.cookies)) :
               reply' = [r EXCEPT !.cookies = SubSeq(@, 1, again) \o @]
         /\ buf' = Filled(r)
         /\ resp' = [resp EXCEPT !.status = r.status, !.location = r.location,
                                 !.chunked = r.chunked]
    /\ ip' = 0 /\ op' = 0
    /\ at' = "cookies"
    /\ UNCHANGED <<cur, hop, rc, gets, cookies, offered>>

(* The next Set-Cookie *)
SetCookie ==
    LET n == Head(reply.cookies)
    IN  /\ at = "cookies" /\ reply.cookies # << >>
        /\ reply' = [reply EXCEPT !.cookies = Tail(@)]
        /\ resp' = [resp EXCEPT !.cookies = IF Len(@) < MaxCookies THEN Append(@, n) ELSE @]
        /\ CookieStore(HostLeft(cur), n)
        /\ given' = given \cup {[host |-> cur.host, name |-> n]}
        /\ UNCHANGED <<place, buf, ip, op, offered>>

HeadersDone ==
    /\ at = "cookies" /\ reply.cookies = << >>
    /\ at' = IF reply.chunked THEN "decode" ELSE "close"
    /\ resp' = IF reply.chunked THEN resp
               ELSE [resp EXCEPT !.body = SubSeq(buf, BodyAt + 1, BufCap - 1)]
    /\ UNCHANGED <<cur, hop, rc, gets, cookies, incoming, offered>>

(* Bug: the rest of a line is not skipped. *)
NextLineNot(b, i) == i

(* Past the next line end from i on *)
NextLine(b, i) ==
    LET ends == {k \in i .. InLen - 1 : In(b, k)[1] \in {"eol", "size", "head"}}
    IN  IF ends = {} THEN Lesser(i, InLen) ELSE First(ends) + 1

(* The number at ip, and how much of the data behind its line is taken     *)
Size ==
    LET unit == In(buf, ip)
    IN  IF InLen <= ip \/ unit[1] = "eol" THEN 0
        ELSE IF unit[1] = "size" THEN unit[2] ELSE reply.stray
Data == NextLine(buf, ip)
Take == Lesser(Lesser(Size, InLen - Data), BufCap - Half - 1 - op)

(* One turn of the loop of decode_chunked: the data goes to the second     *)
(* half of the buffer it is read from. *)
DecodeChunk ==
    /\ at = "decode" /\ Take > 0
    /\ buf' = Copied(buf, Half + op, BodyAt + Data, Take)
    /\ op' = op + Take
    /\ ip' = NextLine(buf', Data + Size)
    /\ UNCHANGED <<place, cookies, reply, resp, offered>>

Decoded ==
    /\ at = "decode" /\ Take <= 0
    /\ resp' = [resp EXCEPT !.body = SubSeq(buf, Half + 1, Half + op)]
    /\ at' = "close"
    /\ UNCHANGED <<cur, hop, rc, gets, cookies, incoming, offered>>

-----------------------------------------------------------------------------
(* http_get_follow *)

Start(u) ==
    /\ at = "idle" /\ gets < Gets
    /\ at' = "hop" /\ cur' = u /\ hop' = 0 /\ gets' = gets + 1
    /\ resp' = [resp EXCEPT !.chain = << >>]
    /\ UNCHANGED <<rc, cookies, incoming, offered>>

FollowReturns(code) == at' = "idle" /\ rc' = code

(* A URL of another scheme, or one hop too many *)
NotFollowed ==
    /\ at = "hop"
    /\ \/ hop = MaxRedirects /\ FollowReturns(-101) /\ UNCHANGED resp
       \/ /\ hop < MaxRedirects /\ cur.scheme = "https"
          /\ FollowReturns(-100)
          /\ resp' = [Cleared EXCEPT !.location = cur]
    /\ UNCHANGED <<cur, hop, gets, cookies, incoming, offered>>

Hop ==
    /\ at = "hop" /\ hop < MaxRedirects /\ cur.scheme = "http"
    /\ at' = "raw"
    /\ UNCHANGED <<cur, hop, rc, gets, cookies, incoming, resp, offered>>

Redirects == resp.status \in 300 .. 399 /\ resp.location # NoUrl

(* A path leads to port 80 of the host, whatever the port was. *)
Target(l) == IF l.scheme = "" THEN [l EXCEPT !.scheme = "http", !.host = cur.host] ELSE l

(* Bug: a redirect is no hop. *)
RedirectAgain ==
    /\ at = "close" /\ Redirects
    /\ at' = "hop" /\ cur' = Target(resp.location)
    /\ resp' = [resp EXCEPT !.chain = Append(@, cur)]
    /\ UNCHANGED <<hop, rc, gets, cookies, incoming, offered>>

Redirect ==
    /\ at = "close" /\ Redirects
    /\ at' = "hop" /\ cur' = Target(resp.location) /\ hop' = hop + 1
    /\ resp' = [resp EXCEPT !.chain = Append(@, cur)]
    /\ UNCHANGED <<rc, gets, cookies, incoming, offered>>

Got ==
    /\ at = "close" /\ ~Redirects
    /\ FollowReturns(0)
    /\ UNCHANGED <<cur, hop, gets, cookies, incoming, resp, offered>>

Client ==
    \/ NotFollowed \/ Hop \/ Unreachable \/ Request \/ NoResponse \/ Response \/ SetCookie
    \/ HeadersDone \/ DecodeChunk \/ Decoded \/ Redirect \/ Got

HttpNext == Client \/ \E u \in Urls : Start(u)

(* The client runs, and its connections come back (module Tcp).            *)
HttpSpec == HttpInit /\ [][HttpNext]_httpVars /\ WF_httpVars(Client)

-----------------------------------------------------------------------------
(* Properties *)

Cookies == [host : {""}, name : CookieNames]

HttpTypeOK ==
    /\ jar \in [JarSlots -> Cookies \cup {FreeEntry}]
    /\ at \in {"idle", "hop", "raw", "sent", "cookies", "decode", "close"}
    /\ cur \in Urls \cup {NoUrl} /\ hop \in 0 .. MaxRedirects
    /\ Len(resp.cookies) <= MaxCookies /\ Len(resp.chain) <= 1
    /\ ip \in Nat /\ op \in 0 .. BufCap - Half - 1

(* The jar holds a cookie once, and its counter is right, however often    *)
(* servers set and set again.                                              *)
JarSound ==
    /\ count = Cardinality(UsedSlots)
    /\ \A i, j \in UsedSlots : jar[i].host = jar[j].host /\ jar[i].name = jar[j].name => i = j

(* Whatever copies of the response lie behind it in the buffer, and where  *)
(* a call came back within the head also before it, a body that has come   *)
(* whole is found where it begins: a chunked one is decoded to what the    *)
(* server sent, as long as it ends in the first half of the buffer, and    *)
(* one that is not chunked comes first in what the caller gets.            *)
BodyDecoded ==
    at = "close" /\ Complete(reply) =>
        /\ reply.chunked /\ CopyEnd(reply) <= Half => resp.body = Whole(reply)
        /\ ~reply.chunked /\ CopyEnd(reply) < BufCap =>
              SubSeq(resp.body, 1, Len(Whole(reply))) = Whole(reply)

(* The cookie jar is consistent, also where the head of a response is read *)
(* again, and a body is found among the copies of its response.            *)
WebSound == JarSound /\ BodyDecoded

(* A request ends, also where servers send each other's clients around.    *)
FollowEnds == at # "idle" ~> at = "idle"

(* A server that has set a cookie gets it back with the next request.      *)
CookiesReturned ==
    at = "sent" => \A g \in given : g.host = cur.host =>
                                     \E c \in offered.cookies : c.name = g.name
=============================================================================
