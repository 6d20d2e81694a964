-------------------------- MODULE AnalysisPipeline --------------------------
(***************************************************************************)
(* Steps 2 and 3 of an analysis in a row (run_steps_from_unified,          *)
(* export_alerts_to_step1.py): the graph that ProvenanceGraph builds is    *)
(* what PathGuard prunes.  Step 3 is also run on graphs from elsewhere     *)
(* (experiments, public benchmark), for pruning and for training.          *)
(***************************************************************************)
EXTENDS PathGuard

CONSTANTS Alert, Gap, MaxEvents, None

VARIABLES step, events, time, attacker, anchorOf, path, corr, required, skipped, chains

Step2 == INSTANCE ProvenanceGraph
graphVars == <<step, events, time, attacker, anchorOf, path, corr, required, skipped, chains>>
vars == <<graphVars, guardVars>>

----------------------------------------------------------------------------
\* Confidence of an edge in hundredths, by its relation; the six relations
\* between honeypots are those from web to account and from account to file, the
\* one from web to file, and those back, of which the one from account to web counts
\* for more.
Forward(e, f) == <<e.type, f.type>> \in {<<"parasitic", "account">>, <<"account", "file">>}
ToFile(e, f) == <<e.type, f.type>> = <<"parasitic", "file">>
BackToWeb(e, f) == <<e.type, f.type>> = <<"account", "parasitic">>
Confidence(c) ==
    LET e == events[c.from]
        f == events[c.to]
        by(forward, toFile, backToWeb, back) ==
            CASE Forward(e, f) -> forward [] ToFile(e, f) -> toFile
              [] BackToWeb(e, f) -> backToWeb [] OTHER -> back
    IN  CASE c.relation = "cross" -> by(94, 90, 84, 80)
          [] c.relation = "cross_causal" -> by(96, 93, 86, 82)
          [] c.relation = "same_session" -> 98
          [] c.relation = "same_fingerprint" -> 95
          [] c.relation = "same_source_ip" -> 90
          [] c.relation \in {"same_account_probe", "same_actor_stage_transition"} -> 88
          [] c.relation = "stage_transition" -> 86
          [] c.relation = "same_attack_path" -> 82
          [] OTHER -> 78

\* The relations that point to the origin of an attack.
Cross(c) == c.relation \in {"cross", "cross_causal"}
CoreRelation(c) ==
    \/ c.relation \in {"stage_transition", "same_fingerprint", "same_session", "same_actor_stage_transition"}
    \/ Cross(c) /\ (Forward(events[c.from], events[c.to]) \/ ToFile(events[c.from], events[c.to]))
Identity(c) == c.relation \in {"same_source_ip", "same_fingerprint", "same_session", "same_account_probe"}
Shared(c, field) == Step2!Same(events[c.from], events[c.to], field)

\* attack_origin_score in tenths: relations, shared evidence, confidence and
\* nearness in time each add to it.
OriginScore(c) ==
    LET when(condition, points) == IF condition THEN points ELSE 0
    IN  when(CoreRelation(c), 20) + when(Cross(c), 15) + when(Identity(c), 10)
        + when(Shared(c, "fp"), 13) + when(Shared(c, "session"), 12) + when(Shared(c, "ip"), 7)
        + when(attacker[c.from] = attacker[c.to], 6)
        + (IF Confidence(c) >= 90 THEN 6 ELSE when(Confidence(c) >= 80, 3))
        + when(time[c.to] - time[c.from] <= 45, 4)

IsProtectedOriginEdge(c) ==
    /\ OriginScore(c) >= 40
    /\ Shared(c, "fp") \/ Shared(c, "session") \/ Cross(c)

\* The score of _edge_attack_origin_score in hundredths, which takes the other's
\* place until the process has loaded the network's modules for the first time.
RuleScore(c) ==
    LET when(condition, points) == IF condition THEN points ELSE 0
    IN  when(CoreRelation(c) /\ c.relation # "same_actor_stage_transition", 200)
        + when(Identity(c), 100) + when(Shared(c, "fp") \/ Shared(c, "session"), 120)
        + when(Shared(c, "ip"), 60) + Confidence(c) \div 2

\* What deterministic_fallback_pruning keeps: named relations or a score of 2.
IsImportant(c, loaded) ==
    \/ c.relation \in {"stage_transition", "same_fingerprint", "same_session"}
    \/ Cross(c) /\ CoreRelation(c)
    \/ IF loaded THEN OriginScore(c) >= 20 ELSE RuleScore(c) >= 200

----------------------------------------------------------------------------
\* The graph of step 2 as step 3 reads it.  An event's edge leads from what
\* acted to what it acted on, neither of which is an event's own node.
EventNode(i) == <<"event", i>>
EventEdge(i) ==
    [source |-> <<"source", 0>>, target |-> <<"object", 0>>, observed |-> TRUE, origin |-> FALSE,
     important |-> events[i].type # "account"]
CorrEdge(c, loaded) ==
    [source |-> EventNode(c.from), target |-> EventNode(c.to), observed |-> FALSE,
     origin |-> IsProtectedOriginEdge(c), important |-> IsImportant(c, loaded)]

\* Edges by time, those of events first, then by path, then by attacker.
Rank(c) == <<time[c.to], IF c.scope = "path" THEN 1 ELSE 2,
             IF c.scope = "path" THEN c.path ELSE attacker[c.to], c.to>>
Before(a, b) ==
    \E n \in 1..4 : a[n] < b[n] /\ \A m \in 1..n - 1 : a[m] = b[m]
Place(i) == <<time[i], 0, 0, i>>

EdgeList(loaded) ==
    LET entries == {[rank |-> Place(i), edge |-> EventEdge(i)] : i \in Step2!EventId}
                   \cup {[rank |-> Rank(c), edge |-> CorrEdge(c, loaded)] : c \in corr}
        sorted == InOrder(entries, LAMBDA a, b : Before(a.rank, b.rank))
    IN  [n \in 1..Len(sorted) |-> sorted[n].edge]

PathList ==
    LET sorted == InOrder(required, LAMBDA a, b : a.path < b.path)
    IN  [n \in 1..Len(sorted) |-> [source |-> EventNode(sorted[n].source), target |-> EventNode(sorted[n].target)]]

BuiltGraph(loaded) == [edges |-> EdgeList(loaded), required |-> PathList]

ASSUME PipelineAssumption ==
    /\ Step2!GraphConstants /\ GuardConstants
    /\ {<<"source", 0>>, <<"object", 0>>} \cup {EventNode(i) : i \in 1..MaxEvents} \subseteq Node

----------------------------------------------------------------------------
Init == Step2!Init /\ GuardInit

Build == /\ phase = "idle" /\ Step2!Next /\ UNCHANGED guardVars
HandOver == /\ step = "graph"
            /\ \E loaded \in BOOLEAN : Load(BuiltGraph(loaded))
            /\ UNCHANGED graphVars
LoadGiven == /\ events = <<>> /\ step = "events"
             /\ \E g \in GivenGraph : Load(g)
             /\ UNCHANGED graphVars
PruneGraph == Prune /\ UNCHANGED graphVars
\* An analysis does not train: training is run on labelled graphs from files.
TrainOnGraph == step # "graph" /\ Train /\ UNCHANGED graphVars

Next == Build \/ HandOver \/ LoadGiven \/ PruneGraph \/ TrainOnGraph

Spec == Init /\ [][Next]_vars

----------------------------------------------------------------------------
\* Types of both steps.
TypeOK == Step2!TypeOK /\ GuardTypeOK

\* Of a graph that step 2 built, step 3 keeps every edge, with the network and
\* with the rule: each path is a chain between the ends that are required, so
\* nothing that export_alerts_to_step1.py:905 calls noise to be pruned ever is
\* (graph_builder.py:431, evidence.py:23 and constraints.py:49 together).
BuiltGraphsStayWhole ==
    step = "graph" /\ phase \in {"pruned", "prompted", "told"} => kept = Edge
=============================================================================
