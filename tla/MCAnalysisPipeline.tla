------------------------ MODULE MCAnalysisPipeline ------------------------
(***************************************************************************)
(* AnalysisPipeline for TLC, and in scenes of their own the collection of  *)
(* the alerts before it and the actors shown beside them: they share no    *)
(* state with it.                                                          *)
(***************************************************************************)
EXTENDS AnalysisSteps, TLC

VARIABLE scene

A(type, stage, fp, session, ip, user, file) ==
    [type |-> type, stage |-> stage, fp |-> fp, session |-> session, ip |-> ip, user |-> user, path |-> file]

\* Alerts of each honeypot whose anchors agree and disagree in turn.
MCAlert == {A("parasitic", 1, "f1", None, "i1", None, None),
            A("parasitic", 2, "f1", "s1", "i2", None, None),
            A("parasitic", 0, "f2", "s1", "i1", None, None),
            A("account",   2, None, None, "i1", "u1", None),
            A("account",   0, None, None, "i2", "u1", None),
            A("file",      3, None, None, "i1", None, "p1"),
            A("file",      0, None, None, None, None, "p1")}

MCGap == {0, 8, 40, 70}

MCNode == {<<"event", i>> : i \in 1..MaxEvents} \cup {<<"source", 0>>, <<"object", 0>>}

\* Three or four edges over three nodes, of which two are the same or lead past
\* the node between; the last of four is in a partition of its own.
E(i, j, kind) ==
    [source |-> <<"event", i>>, target |-> <<"event", j>>, observed |-> kind = "observed",
     origin |-> kind = "strong", important |-> kind = "strong"]
R(i, j) == [source |-> <<"event", i>>, target |-> <<"event", j>>]
MCGivenGraph ==
    {[edges |-> <<E(1, 2, k), e, E(2, 3, l)>>, required |-> r] :
        k \in {"plain", "observed"}, l \in {"plain", "strong"},
        e \in {E(1, 2, "plain"), E(1, 3, "plain")}, r \in {<<R(1, 3)>>, <<R(1, 2), R(1, 3)>>}}
    \cup
    {[edges |-> <<E(1, 2, k), e, E(1, 2, "plain"), E(2, 3, l)>>, required |-> r] :
        k \in {"plain", "observed", "strong"}, l \in {"plain", "strong"},
        e \in {E(1, 2, "plain"), E(1, 3, "plain")},
        r \in {<<R(1, 3)>>, <<R(1, 2), R(1, 3)>>, <<R(1, 3), R(2, 1)>>}}
    \cup
    {[edges |-> <<E(1, 2, "observed"), E(2, 3, "observed"), E(3, k, "observed")>>, required |-> <<R(1, 3)>>] :
        k \in {2, 3}}

-----------------------------------------------------------------------------
\* One alert of each kind; ticks of half an hour, days of an hour.
C(kind) == [kind |-> kind]
MCSource == {C("file"), C("account"), C("audit")}
MCUntimed == {C("audit")}
MCWidth == 0..2
MCConfig ==
    LET config == [mode |-> "each", database |-> "postgres", prefer |-> {"file", "account", "parasitic"},
                   fallback |-> FALSE, audit |-> TRUE, include |-> {}]
    IN  {config, [config EXCEPT !.prefer = {"file"}, !.fallback = TRUE],
         [config EXCEPT !.database = "sqlite", !.fallback = TRUE, !.audit = FALSE],
         [config EXCEPT !.database = "sqlite"],
         [config EXCEPT !.mode = "unified", !.include = {"file", "account"}]}

\* Rows that share an address, a fingerprint or a session with another, in turn.
S(kind, value) == [kind |-> kind, value |-> value]
MCRow == {[type |-> t, signals |-> s] : t \in {"file", "parasitic"}, s \in {<<>>, <<S("ip", 1)>>, <<S("ip", 2)>>}}
         \cup {[type |-> "parasitic", signals |-> s] :
                  s \in {<<S("fp", 1)>>, <<S("ip", 1), S("ip", 2)>>, <<S("fp", 1), S("session", 1)>>,
                         <<S("ip", 2), S("session", 1)>>}}

\* Records of each honeypot with an identity in common, or none, or a label.
Absent == [ip |-> None, fp |-> None, session |-> None, camel |-> FALSE, user |-> None, protocol |-> None,
          dst |-> None, url |-> None, token |-> None, path |-> None, name |-> None, labels |-> <<>>,
          call |-> None, pid |-> None, parent |-> None]
Report(kind, fields) == fields @@ [kind |-> kind] @@ Absent
MCRecord ==
    {Report("file", [ip |-> i, url |-> u, token |-> t, labels |-> m]) :
        i \in {None, "i1", "i2"}, u \in {None, "u"}, t \in {"t1", "t2", "t3"}, m \in {<<>>, <<"exp">>}}
    \cup {Report("account", [ip |-> i, user |-> u, protocol |-> p, dst |-> d, labels |-> m]) :
        i \in {"i1", "i2"}, u \in {None, "u1"}, p \in {"ssh", "openvpn"}, d \in {None, "d"}, m \in {<<>>, <<"exp">>}}
    \cup {Report("parasitic", [ip |-> i, fp |-> f, session |-> s, camel |-> c, url |-> u]) :
        i \in {"i1", "i2"}, f \in {None, "f"}, s \in {None, "s"}, c \in BOOLEAN, u \in {None, "u"}}
    \cup {Report("audit", [call |-> c, pid |-> "1", parent |-> p, path |-> q]) :
        c \in {"openat", "execve", "clone", "connect"}, p \in {None, "1", "2"}, q \in {None, "p1"}}
    \cup {Report("audit", [call |-> "connect", path |-> q, dst |-> "d"]) : q \in {None, "p1"}}
    \cup {Report("audit", [call |-> "execve"])}
\* One file is deployed, and one of the others has a name.
MCHoneyfile == [t \in {"t1", "t2", "t3"} |->
                   [path |-> IF t = "t1" THEN "p1" ELSE None, name |-> IF t = "t3" THEN "n" ELSE None]]

OneInit == Init /\ Collect!Init /\ Actors!Init /\ Mapping!Init
           /\ scene \in {"analyze", "collect", "actors", "mapping"}
OneNext ==
    /\ scene' = scene
    /\ \/ scene = "analyze" /\ Next /\ UNCHANGED <<collectVars, actorVars, mappingVars>>
       \/ /\ scene = "collect" /\ call.pc \notin {"done", "refused"} /\ Collect!Next
          /\ UNCHANGED <<vars, actorVars, mappingVars>>
       \/ scene = "actors" /\ Actors!Next /\ UNCHANGED <<vars, collectVars, mappingVars>>
       \/ scene = "mapping" /\ Mapping!Next /\ UNCHANGED <<vars, collectVars, actorVars>>
OneSpec == OneInit /\ [][OneNext]_<<vars, collectVars, actorVars, mappingVars, scene>>
=============================================================================
