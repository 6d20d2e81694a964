-------------------------- MODULE ProvenanceGraph --------------------------
(***************************************************************************)
(* Step 2 of the analysis, step2_causal_graph/graph_builder.py with        *)
(* evidence.py: events in the order of their times are given to attackers  *)
(* and attack paths, neighbours are joined by correlation edges, and each  *)
(* path gets the ends between which pruning has to keep a way.             *)
(*                                                                         *)
(* An event is named by its place in the sorted list.  The builder is used *)
(* without experiment annotations (export_alerts_to_step1.py:1108), so     *)
(* campaigns and scenarios are None in every event and left out.           *)
(***************************************************************************)
EXTENDS Naturals, Sequences, FiniteSets, Reachability

CONSTANTS
    Alert,      \* what alerts may say: see AlertFields
    Gap,        \* minutes that may lie between an event and the one before
    MaxEvents,  \* number of alerts in an analysis
    None        \* a field that is absent

AlertFields == {"type", "stage", "fp", "session", "ip", "user", "path"}

\* What is assumed of the constants (AnalysisPipeline assumes it of its own).
GraphConstants ==
    /\ MaxEvents \in Nat
    /\ Gap \subseteq Nat
    /\ \A a \in Alert : DOMAIN a = AlertFields /\ a.stage \in Nat

VARIABLES
    step,       \* "events", "path edges", "timeline edges", "graph"
    events,     \* sorted alerts
    time,       \* minutes, of each event
    attacker,   \* attacker of each event
    anchorOf,   \* anchor_to_attacker
    path,       \* path of each event
    corr,       \* correlation edges
    required,   \* required_paths
    skipped,    \* path_groups_without_boundaries
    chains      \* provenance_chains

vars == <<step, events, time, attacker, anchorOf, path, corr, required, skipped, chains>>

EventId == 1..Len(events)

----------------------------------------------------------------------------
Lowest(S) == CHOOSE n \in S : \A m \in S : n <= m

\* The anchors of an event, the strongest kind first.
AnchorKinds == <<"fp", "session", "ip", "user">>
Anchor(e, n) == <<AnchorKinds[n], e[AnchorKinds[n]]>>
AnchorSet(e) == {Anchor(e, n) : n \in {m \in 1..4 : e[AnchorKinds[m]] # None}}

\* The attacker of the first anchor that is known, else a new one.
AttackerOf(e, known, count) ==
    LET hits == {n \in 1..4 : Anchor(e, n) \in AnchorSet(e) \cap DOMAIN known}
    IN  IF hits = {} THEN count + 1 ELSE known[Anchor(e, Lowest(hits))]

Highest(S) == IF S = {} THEN 0 ELSE CHOOSE n \in S : \A m \in S : m <= n
Count(f) == Highest({f[n] : n \in DOMAIN f})

\* The event before i in the group that f puts it in, 0 if it is the first.
Previous(f, i) == Highest({j \in 1..i - 1 : f[j] = f[i]})

Same(e, f, field) == e[field] # None /\ e[field] = f[field]

\* Whether an event continues the path of the attacker's event before it, from
\* which it is minutes away.
SameAttackPath(e, f, minutes) ==
    /\ minutes <= 10
    /\ \/ \E field \in {"ip", "session", "fp", "path"} : Same(e, f, field)
       \/ Same(e, f, "user") /\ minutes <= 5

----------------------------------------------------------------------------
\* How two events are related: they met different honeypots, ...
CrossHoneypot(e, f) ==
    /\ {e.type, f.type} \subseteq {"parasitic", "account", "file"}
    /\ e.type # f.type

\* ... the second is of a later stage, ...
StageTransition(e, f) == 0 < e.stage /\ e.stage < f.stage

\* ... or they share an anchor, of which the first in this order is named.
SharedKinds == <<"ip", "session", "fp", "user">>
SharedNames == <<"same_source_ip", "same_session", "same_fingerprint", "same_account_probe">>
SharedAnchor(e, f) ==
    LET shared == {n \in 1..4 : Same(e, f, SharedKinds[n])}
    IN  IF shared = {} THEN "none" ELSE SharedNames[Lowest(shared)]

\* The relation of neighbours in a path, which is never absent ...
PathRelation(e, f) ==
    LET shared == SharedAnchor(e, f) IN
    IF shared # "none" THEN IF CrossHoneypot(e, f) THEN "cross" ELSE shared
    ELSE IF StageTransition(e, f) THEN "stage_transition" ELSE "same_attack_path"

\* ... and of neighbours in an attacker's timeline, which may be.
TimelineRelation(e, f) ==
    LET shared == SharedAnchor(e, f)
        stage == StageTransition(e, f) IN
    IF CrossHoneypot(e, f) THEN IF shared # "none" \/ stage THEN "cross_causal" ELSE "cross"
    ELSE IF shared # "none" THEN IF stage THEN "same_actor_stage_transition" ELSE shared
    ELSE IF stage THEN "same_actor_temporal" ELSE "none"

\* An edge is named after its two events and belongs to the path of the second.
CorrelationEdge(i, j, relation, scope) ==
    [from |-> i, to |-> j, path |-> path[j], relation |-> relation, scope |-> scope]

Arcs(edges) == {<<c.from, c.to>> : c \in edges}

\* One required path for each end that a search from a start reaches, and the
\* groups that have no start or no end.
Group(edges, p) == {c \in edges : c.path = p}
Starts(group) == {c.from : c \in group} \ {c.to : c \in group}
Ends(group) == {c.to : c \in group} \ {c.from : c \in group}
Paths(edges) == {c.path : c \in edges}

DeriveRequiredPaths(edges) ==
    UNION {LET group == Group(edges, p) IN
           {[source |-> ends[1], target |-> ends[2], path |-> p] :
                ends \in {r \in Starts(group) \X Ends(group) :
                              Reachable(EventId, Arcs(group), r[1], r[2])}} : p \in Paths(edges)}

Unbounded(edges) ==
    {p \in Paths(edges) : Starts(Group(edges, p)) = {} \/ Ends(Group(edges, p)) = {}}

----------------------------------------------------------------------------
\* What is told of an attacker with two events or more.  (CROSS_HONEYPOT_RELATIONS
\* and their _causal forms name the hops between honeypots.)
EventsOf(a) == {i \in EventId : attacker[i] = a}
Hops(a) == {c \in corr : attacker[c.to] = a}
Honeypots(a) == {events[i].type : i \in EventsOf(a)} \cap {"account", "file", "parasitic"}
CrossHops(a) == {c \in Hops(a) : c.relation \in {"cross", "cross_causal"}}

Strength(a) ==
    IF Cardinality(Honeypots(a)) = 3 /\ Cardinality(CrossHops(a)) >= 2 THEN "strong"
    ELSE IF Cardinality(Honeypots(a)) >= 2 /\ Hops(a) # {} THEN "medium" ELSE "weak"

\* Neighbours of the attacker whose stages are known, by whether the stage goes back.
Regressions(a) ==
    {i \in EventsOf(a) : LET h == Previous(attacker, i) IN
        h # 0 /\ events[i].stage # 0 /\ events[h].stage # 0 /\ events[i].stage < events[h].stage}
Progressions(a) ==
    {i \in EventsOf(a) : LET h == Previous(attacker, i) IN
        h # 0 /\ events[i].stage # 0 /\ events[h].stage # 0 /\ events[i].stage >= events[h].stage}

Chain(a) == [attacker |-> a, strength |-> Strength(a), events |-> EventsOf(a), hops |-> Hops(a),
             progressions |-> Cardinality(Progressions(a)),
             regressions |-> Cardinality(Regressions(a))]

----------------------------------------------------------------------------
Init ==
    /\ step = "events"
    /\ events = <<>> /\ time = <<>> /\ attacker = <<>> /\ path = <<>>
    /\ anchorOf = <<>>
    /\ corr = {} /\ required = {} /\ skipped = {} /\ chains = {}

\* The next event of the sorted list is normalised and given to an attacker
\* and a path.  The code makes a pass for each; all look at earlier events only.
TakeEvent(a, gap) ==
    LET i == Len(events) + 1
        now == IF i = 1 THEN 0 ELSE time[i - 1] + gap
        who == AttackerOf(a, anchorOf, Count(attacker))
        before == Previous(Append(attacker, who), i)
        continues == before # 0 /\ SameAttackPath(events[before], a, now - time[before])
    IN  /\ step = "events" /\ i <= MaxEvents
        /\ events' = Append(events, a)
        /\ time' = Append(time, now)
        /\ attacker' = Append(attacker, who)
        /\ anchorOf' = [k \in DOMAIN anchorOf \cup AnchorSet(a) |->
                            IF k \in AnchorSet(a) THEN who ELSE anchorOf[k]]
        /\ path' = Append(path, IF continues THEN path[before] ELSE Count(path) + 1)
        /\ UNCHANGED <<step, corr, required, skipped, chains>>

\* Neighbours in a path are joined, whatever relates them.
BuildPathEdges ==
    /\ step = "events"
    /\ corr' = {CorrelationEdge(Previous(path, j), j, PathRelation(events[Previous(path, j)], events[j]), "path") :
                    j \in {i \in EventId : Previous(path, i) # 0}}
    /\ step' = "path edges"
    /\ UNCHANGED <<events, time, attacker, anchorOf, path, required, skipped, chains>>

\* Deviation: neighbours that are joined already are joined again.
BuildTimelineEdgesTwice ==
    /\ step = "path edges"
    /\ corr' = corr \cup
         {CorrelationEdge(Previous(attacker, j), j, TimelineRelation(events[Previous(attacker, j)], events[j]), "attacker_timeline") :
              j \in {i \in EventId :
                        LET h == Previous(attacker, i) IN
                        /\ h # 0
                        /\ time[i] - time[h] <= 60
                        /\ TimelineRelation(events[h], events[i]) # "none"}}
    /\ step' = "timeline edges"
    /\ UNCHANGED <<events, time, attacker, anchorOf, path, required, skipped, chains>>

\* Neighbours in the timeline of an attacker are joined if an hour or less
\* lies between them, something relates them, and they are not joined yet.
BuildTimelineEdges ==
    /\ step = "path edges"
    /\ corr' = corr \cup
         {CorrelationEdge(Previous(attacker, j), j, TimelineRelation(events[Previous(attacker, j)], events[j]), "attacker_timeline") :
              j \in {i \in EventId :
                        LET h == Previous(attacker, i) IN
                        /\ h # 0
                        /\ time[i] - time[h] <= 60
                        /\ TimelineRelation(events[h], events[i]) # "none"
                        /\ <<h, i>> \notin Arcs(corr)}}
    /\ step' = "timeline edges"
    /\ UNCHANGED <<events, time, attacker, anchorOf, path, required, skipped, chains>>

\* to_dict: the contract of the graph for step 3.
ToDict ==
    /\ step = "timeline edges"
    /\ required' = DeriveRequiredPaths(corr)
    /\ skipped' = Unbounded(corr)
    /\ chains' = {Chain(a) : a \in {b \in 1..Count(attacker) : Cardinality(EventsOf(b)) > 1}}
    /\ step' = "graph"
    /\ UNCHANGED <<events, time, attacker, anchorOf, path, corr>>

Next ==
    \/ \E a \in Alert, gap \in Gap : TakeEvent(a, gap)
    \/ BuildPathEdges
    \/ BuildTimelineEdges
    \/ ToDict

Spec == Init /\ [][Next]_vars

----------------------------------------------------------------------------
\* Types: every event has an attacker and a path, edges join two events.
TypeOK ==
    /\ step \in {"events", "path edges", "timeline edges", "graph"}
    /\ events \in Seq(Alert) /\ Len(events) <= MaxEvents
    /\ time \in [EventId -> Nat]
    /\ attacker \in [EventId -> Nat \ {0}]
    /\ path \in [EventId -> Nat \ {0}]
    /\ \A k \in DOMAIN anchorOf : anchorOf[k] \in Nat \ {0}
    /\ \A c \in corr : c.from \in EventId /\ c.to \in EventId /\ c.path \in Nat \ {0}
    /\ \A r \in required : r.source \in EventId /\ r.target \in EventId
    /\ skipped \subseteq Nat

=============================================================================
