------------------------------ MODULE Browser ------------------------------
(***************************************************************************)
(* A window of the browser, apps/browser.c: its address bar, its history   *)
(* and the pages it shows.  Addresses are model values but for those that  *)
(* the program holds itself.                                               *)
(***************************************************************************)
EXTENDS Integers, Sequences

CONSTANTS
    Sites,        \* addresses with a dot that the program does not know
    Searches,     \* addresses that are searched for
    Tokens,       \* Tokens[q]: the words of the query of q
    Hits,         \* Hits[w]: the entries of g_index with w in title, keywords, desc
    Results,      \* 5
    HistSize,     \* BR_HIST
    MaxVisits     \* bounds the addresses opened

VARIABLES
    url, addr, focus,
    hist,         \* the first hist_count entries
    pos,          \* hist_pos, counted from 1; 0 for none
    page,         \* what is in lines: the page, its links, and results if it is a search
    netReady,     \* net_ready()
    path, ahead   \* history: the addresses that lead here, and those gone back from

browserVars == <<url, addr, focus, hist, pos, page, netReady, path, ahead>>

-----------------------------------------------------------------------------
(* The pages of the program *)

(* g_docs *)
Docs == {"docs.local/http", "docs.local/kernel", "docs.local/mouse", "docs.local/fb",
         "docs.local/multiboot2", "docs.local/scripts", "docs.local/terminal", "docs.local/wm",
         "docs.local/network"}

(* g_index *)
Index == <<"fos.local", "docs.local/kernel", "docs.local/mouse", "docs.local/fb",
           "docs.local/multiboot2", "docs.local/scripts", "docs.local/terminal", "docs.local/wm",
           "docs.local/network", "about:browser", "docs.local/http">>

Home == "about:home"
RealSites == {"http://example.com/", "http://neverssl.com/", "http://info.cern.ch/"}
Examples == {"search:fos operating system", "search:x86_64 kernel", "search:network tcp",
             "search:http chunked"}

BrowserAssumption ==
    /\ MaxVisits \in Nat /\ {Results, HistSize} \subseteq Nat \ {0}
    /\ Sites \cap Searches = {}
    /\ Searches \cup Examples \subseteq DOMAIN Tokens
    /\ \A q \in DOMAIN Tokens : Tokens[q] \in Seq(DOMAIN Hits)

Page(kind, links) == [kind |-> kind, links |-> links, results |-> << >>]

RenderHome ==
    Page("home", {"google.com", "fos.local", "docs.local", "docs.local/http", "about:browser"}
                   \cup RealSites)
RenderAbout == Page("about", {Home})
RenderGoogle == Page("google", {Home} \cup Examples)
RenderFosLocal == Page("fos", {"docs.local", "docs.local/network", "docs.local/http", Home})
RenderDocsIndex == Page("docs", Docs \cup {Home})
RenderDoc == Page("doc", {"docs.local"})

-----------------------------------------------------------------------------
(* render_search *)

Gain(w, i) ==
    (IF i \in Hits[w].title THEN 3 ELSE 0) + (IF i \in Hits[w].keywords THEN 2 ELSE 0)
      + (IF i \in Hits[w].desc THEN 1 ELSE 0)

Score(q) ==
    [i \in DOMAIN Index |->
        LET sum[k \in 0 .. Len(Tokens[q])] ==
                IF k = 0 THEN 0 ELSE sum[k - 1] + Gain(Tokens[q][k], i)
        IN  sum[Len(Tokens[q])]]

(* Bug: of two entries that score the same the later is taken, and one     *)
(* that scores nothing may be. *)
BestLast(score, picked) ==
    {i \in DOMAIN Index :
        /\ \A k \in DOMAIN picked : picked[k] # i
        /\ \A j \in DOMAIN Index : (\A k \in DOMAIN picked : picked[k] # j) =>
                                      score[j] < score[i] \/ (score[j] = score[i] /\ j <= i)}

(* The next entry to pick, if any is left that scores *)
Best(score, picked) ==
    {i \in DOMAIN Index :
        /\ score[i] > 0
        /\ \A k \in DOMAIN picked : picked[k] # i
        /\ \A j \in DOMAIN Index : (\A k \in DOMAIN picked : picked[k] # j) =>
                                      score[j] < score[i] \/ (score[j] = score[i] /\ i <= j)}

Picks(q) ==
    LET pick[n \in 0 .. Results] ==
            IF n = 0 THEN << >>
            ELSE LET best == Best(Score(q), pick[n - 1])
                 IN  IF best = {} THEN pick[n - 1]
                     ELSE Append(pick[n - 1], CHOOSE i \in best : TRUE)
    IN  pick[Results]

RenderSearch(q) ==
    LET r == Picks(q)
    IN  [kind |-> "search", results |-> r,
         links |-> IF r = << >> THEN {Home} ELSE {Index[r[k]] : k \in DOMAIN r}]

-----------------------------------------------------------------------------
(* br_render of an address: the page and s->url after it *)

(* What http_get_follow (module Http) may bring: a redirect to HTTPS, a    *)
(* failure, or a page, at the address the redirects led to *)
RenderRealPage(asked) ==
    {[url |-> u, page |-> p] :
        u \in Sites \cup {asked},
        p \in {Page("https", RealSites \cup {Home}), Page("failed", {})}
                \cup {Page("real", l) : l \in {{}, Sites}}}

Internal ==
    [h \in {Home, "about:browser", "google.com", "fos.local", "docs.local"} |->
        CASE h = Home -> RenderHome
          [] h = "about:browser" -> RenderAbout
          [] h = "google.com" -> RenderGoogle
          [] h = "fos.local" -> RenderFosLocal
          [] h = "docs.local" -> RenderDocsIndex]

(* A page of docs.local that is not there is asked for on the network.     *)
Rendered(u) ==
    IF u \in DOMAIN Internal THEN {[url |-> u, page |-> Internal[u]]}
    ELSE IF u \in Docs THEN {[url |-> u, page |-> RenderDoc]}
    ELSE IF u \in Searches \cup Examples THEN {[url |-> u, page |-> RenderSearch(u)]}
    ELSE IF ~netReady THEN {[url |-> u, page |-> Page("no network", {Home})]}
    ELSE RenderRealPage(u)

Shows(u) == \E r \in Rendered(u) : url' = r.url /\ page' = r.page

-----------------------------------------------------------------------------
(* The history *)

(* Bug: what has been gone back from stays. *)
PushedKeeping(u) ==
    IF pos > 0 /\ pos < HistSize
    THEN SubSeq(hist, 1, pos) \o <<u>> \o SubSeq(hist, pos + 2, Len(hist)) ELSE <<u>>

(* From the last entry on the whole history is given up. *)
Pushed(u) == IF pos > 0 /\ pos < HistSize THEN Append(SubSeq(hist, 1, pos), u) ELSE <<u>>

(* br_push *)
Push(u) ==
    /\ Len(path) + Len(ahead) < MaxVisits
    /\ hist' = Pushed(u)
    /\ pos' = IF pos > 0 /\ pos < HistSize THEN pos + 1 ELSE 1
    /\ addr' = u
    /\ Shows(u)
    /\ path' = Append(path, u) /\ ahead' = << >>

(* br_set_hist *)
SetHist(p) ==
    /\ pos' = p
    /\ addr' = hist[p]
    /\ Shows(hist[p])
    /\ UNCHANGED hist

(* br_open_with: from the desktop and the menu with the home page, from a  *)
(* file with its address *)
BrowserInit ==
    /\ netReady \in BOOLEAN
    /\ url = Home /\ addr = Home /\ focus = FALSE
    /\ hist = <<Home>> /\ pos = 1 /\ page = RenderHome
    /\ path = <<Home>> /\ ahead = << >>

-----------------------------------------------------------------------------
(* br_click and br_key *)

Back ==
    /\ pos > 1
    /\ SetHist(pos - 1)
    /\ path' = SubSeq(path, 1, Len(path) - 1) /\ ahead' = <<path[Len(path)]>> \o ahead
    /\ UNCHANGED <<focus, netReady>>

Forward ==
    /\ pos < Len(hist)
    /\ SetHist(pos + 1)
    /\ path' = Append(path, Head(ahead)) /\ ahead' = Tail(ahead)
    /\ UNCHANGED <<focus, netReady>>

(* After a redirect this asks where it led to. *)
Refresh ==
    /\ Shows(url)
    /\ UNCHANGED <<addr, focus, hist, pos, netReady, path, ahead>>

GoHome == Push(Home) /\ UNCHANGED <<focus, netReady>>

(* The button, which takes addr whether or not it is shown, and Enter *)
Go == Push(addr) /\ UNCHANGED <<focus, netReady>>

ClickAddress ==
    /\ focus' = TRUE /\ addr' = url
    /\ UNCHANGED <<url, hist, pos, page, netReady, path, ahead>>

(* Keys until an address stands there *)
TypeAddress ==
    /\ focus
    /\ \E u \in Sites \cup Searches : addr' = u
    /\ UNCHANGED <<url, focus, hist, pos, page, netReady, path, ahead>>

ClickText ==
    /\ focus' = FALSE
    /\ UNCHANGED <<url, addr, hist, pos, page, netReady, path, ahead>>

ClickLink ==
    /\ focus' = FALSE
    /\ \E u \in page.links : Push(u)
    /\ UNCHANGED netReady

BrowserNext == Back \/ Forward \/ Refresh \/ GoHome \/ Go \/ ClickAddress \/ TypeAddress \/ ClickText \/ ClickLink

BrowserSpec == BrowserInit /\ [][BrowserNext]_browserVars

-----------------------------------------------------------------------------
(* Properties *)

Addresses == DOMAIN Internal \cup Docs \cup RealSites \cup Examples \cup Sites \cup Searches

BrowserTypeOK ==
    /\ {url, addr} \cup page.links \subseteq Addresses
    /\ focus \in BOOLEAN /\ netReady \in BOOLEAN
    /\ {hist, path, ahead} \subseteq Seq(Addresses)
    /\ Len(hist) \in 1 .. HistSize /\ pos \in DOMAIN hist
    /\ Len(path) > 0 /\ hist[pos] = path[Len(path)]

(* Back and forward lead along the addresses that were really opened: what *)
(* is before the present one is the end of the path to it, all of it while *)
(* the history has not run full, and what is after it has been gone back   *)
(* from.                                                                   *)
HistoryIsPath ==
    /\ Len(path) >= pos
    /\ SubSeq(hist, 1, pos) = SubSeq(path, Len(path) - pos + 1, Len(path))
    /\ Len(path) <= HistSize => pos = Len(path)
    /\ SubSeq(hist, pos + 1, Len(hist)) = ahead

(* The pages of the program link to addresses it knows, never by mistake   *)
(* to the network.                                                         *)
InternalLinksLead ==
    page.kind \in {"home", "about", "google", "fos", "docs", "doc", "search"} =>
        \A u \in page.links \ RealSites :
            \A r \in Rendered(u) : r.page.kind \notin {"no network", "https", "failed", "real"}

(* A search shows the entries that score, best first and those of the same *)
(* score in the order of the table, and stops early only at five.          *)
SearchRanked ==
    LET r == page.results
        score == Score(url)
    IN  page.kind = "search" =>
          /\ \A i, j \in DOMAIN r : i < j => score[r[i]] > score[r[j]]
                                               \/ (score[r[i]] = score[r[j]] /\ r[i] < r[j])
          /\ \A i \in DOMAIN r : score[r[i]] > 0
          /\ \A e \in DOMAIN Index : (\A i \in DOMAIN r : r[i] # e) /\ score[e] > 0 =>
                Len(r) = Results /\ score[e] <= score[r[Results]]

(* Back and forward follow the path, and the program's own pages and       *)
(* searches lead where they should.                                        *)
BrowserSound == HistoryIsPath /\ InternalLinksLead /\ SearchRanked
=============================================================================
