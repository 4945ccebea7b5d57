------------------------------- MODULE MCCalls ------------------------------
(***************************************************************************)
(* What waits for something outside or runs what it is given, on small     *)
(* instances: a TCP connection and its reader, addresses and names, the    *)
(* ring of the network card, the HTTP client above them, and a terminal    *)
(* with its scripts.  Each is checked with every behaviour of what lies    *)
(* below it, so a behaviour is one of one of them, which part names from   *)
(* the first state on; the others keep their first state.                  *)
(***************************************************************************)
EXTENDS Tcp, Net, Card, Http, Shell

VARIABLE part

callVars == <<part, vars, netVars, cardVars, httpVars, shellVars>>

-----------------------------------------------------------------------------
(* Responses that are chunked and not, come to an early end or after the   *)
(* first call, in the head too, set cookies again, and lead to a path, to  *)
(* the other host and to another scheme                                    *)
UrlOf(s, h, p) == [scheme |-> s, host |-> h, port |-> p, path |-> "/"]
ReplyOf(code, l, cs, c, ch, m, n) ==
    [status |-> code, location |-> l, cookies |-> cs, chunked |-> c, chunks |-> ch, head |-> 2,
     first |-> m, arrives |-> n, stray |-> 2]
NoLocation == [scheme |-> "", host |-> "", port |-> 80, path |-> ""]
SomeReplies ==
    {ReplyOf(200, NoLocation, <<"k", "l", "k">>, TRUE, <<2, 1>>, 10, 10),
     ReplyOf(200, NoLocation, <<"l", "k">>, TRUE, <<2, 1>>, 1, 10),
     ReplyOf(200, NoLocation, <<"m">>, TRUE, <<3>>, 4, 8),
     ReplyOf(200, NoLocation, <<"k">>, FALSE, <<3>>, 5, 5),
     ReplyOf(200, NoLocation, <<"m", "k">>, FALSE, <<3>>, 1, 5),
     ReplyOf(302, UrlOf("", "", 80), <<"k">>, TRUE, <<3, 4, 2>>, 18, 18),
     ReplyOf(302, UrlOf("http", "b", 80), <<"l">>, FALSE, <<>>, 2, 2),
     ReplyOf(301, UrlOf("https", "b", 443), <<>>, FALSE, <<>>, 2, 2)}

(* Scripts that copy, run, move and remove themselves and each other *)
L(word, a, b) == [op |-> word, a |-> a, b |-> b, at |-> FALSE]
Self ==
    <<[L("echo off", "", "") EXCEPT !.at = TRUE], L("set", "v", "x"), L("cp", "m", "%v%"),
      L("run", "m", ""), L("mv", "x", "m"), L("goto", "end", ""), L("rm", "m", ""),
      L("label", "end", ""), L("echo on", "", ""), L("goto", "nowhere", "")>>
Second ==
    <<L("rem", "", ""), L("pause", "", ""), L("set", "v", "w"), L("set", "u", "w"),
      L("echo", "%u%", "%v%"), L("touch", "%u%", ""), L("run", "x", ""),
      L("exit", "", ""), L("rm", "m", "")>>
SomeCommands ==
    {<<"run", "m", "">>, <<"run", "x", "">>, <<"mv", "m", "x">>, <<"mv", "x", "x">>,
     <<"cp", "x", "y">>, <<"write", "m", "hello">>, <<"rm", "m", "">>, <<"touch", "x", "">>,
     <<"clear", "", "">>, <<"history", "", "">>, <<"ls", "", "">>, <<"cat", "m", "">>,
     <<"head", "x", "">>, <<"tail", "m", "">>, <<"wc", "x", "">>, <<"grep", "v", "m">>}
TwoReferences == "%v%" :> "v" @@ "%u%" :> "u"
TheLines == [empty |-> <<>>, hello |-> <<L("echo", "hi", "")>>, self |-> Self, other |-> Second]
TwoScripts == <<[name |-> "m", text |-> "self"], [name |-> "x", text |-> "other"]>>

ASSUME CallsAssumption == CardAssumption /\ HttpAssumption /\ ShellAssumption

-----------------------------------------------------------------------------
CallsInit ==
    /\ part \in {"tcp", "names", "card", "http", "shell"}
    /\ Init
    /\ NetInit /\ (part # "names" => calm)
    /\ CardInit
    /\ HttpInit
    /\ ShellInit

CallsNext ==
    /\ \/ part = "tcp" /\ Next /\ UNCHANGED <<netVars, cardVars, httpVars, shellVars>>
       \/ part = "names" /\ NetNext /\ UNCHANGED <<vars, cardVars, httpVars, shellVars>>
       \/ part = "card" /\ CardNext /\ UNCHANGED <<vars, netVars, httpVars, shellVars>>
       \/ part = "http" /\ HttpNext /\ UNCHANGED <<vars, netVars, cardVars, shellVars>>
       \/ part = "shell" /\ ShellNext /\ UNCHANGED <<vars, netVars, cardVars, httpVars>>
    /\ UNCHANGED part

(* The fairness of each part: its caller runs, ticks go on, and on a calm  *)
(* network frames arrive.                                                  *)
Others == <<part, vars, cardVars, httpVars, shellVars>>
CallsSpec ==
    /\ CallsInit /\ [][CallsNext]_callVars
    /\ WF_callVars(part = "tcp" /\ Caller /\ UNCHANGED <<part, netVars, cardVars, httpVars, shellVars>>)
    /\ WF_callVars(part = "names" /\ Waiting /\ UNCHANGED calm /\ UNCHANGED Others)
    /\ WF_callVars(part = "names" /\ calm /\ Arriving /\ UNCHANGED calm /\ UNCHANGED Others)
    /\ WF_callVars(part = "http" /\ Client /\ UNCHANGED <<part, vars, netVars, cardVars, shellVars>>)
    /\ WF_callVars(part = "shell" /\ Step /\ UNCHANGED <<part, vars, netVars, cardVars, httpVars>>)

(* The HTTP client alone *)
OnlyHttpSpec == CallsInit /\ part = "http" /\ [][CallsNext]_callVars

-----------------------------------------------------------------------------
(* Every part keeps its types. *)
CallsTyped == TypeOK /\ NetTypeOK /\ HttpTypeOK /\ ShellTypeOK

(* Every request, call, chain of redirects and script comes to its end,    *)
(* whatever the network and the servers do and whatever the scripts write  *)
(* over one another: the ui task, which makes all of them, goes on.        *)
EveryCallReturns == RequestEnds /\ CallsReturn /\ FollowEnds /\ ScriptsEnd
=============================================================================
