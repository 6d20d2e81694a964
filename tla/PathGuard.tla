----------------------------- MODULE PathGuard -----------------------------
(***************************************************************************)
(* Step 3 of the analysis: a network decides edge by edge what to prune,   *)
(* EvidencePathGuard (step3_dqn_pruning/constraints.py) vetoes what would  *)
(* lose an observed event or cut a required path, and a rule takes over    *)
(* when the network fails (export_alerts_to_step1.py).  The network is     *)
(* free to propose anything.                                               *)
(*                                                                         *)
(* An edge is named by its place in the graph's list.  The guard answers   *)
(* from a witness it caches for each required path: in training the one    *)
(* guard of a graph is asked about the mask of the episode and, in         *)
(* _optimize, about masks of earlier ones.                                 *)
(***************************************************************************)
EXTENDS Naturals, Sequences, SequencesExt, Reachability

CONSTANTS
    Node,           \* nodes of the graphs
    GivenGraph,     \* the graphs step 3 may be given
    MaxPart,        \* max_edges_per_partition
    MaxFallback,    \* MAX_FALLBACK_KEPT_EDGES
    MaxPrompt,      \* MAX_PROMPT_EDGES
    MaxRoutes       \* paths a narrative lists

\* What is assumed of the constants (AnalysisPipeline assumes it).
IsGraph(g) ==
    /\ g.edges \in Seq([source : Node, target : Node, observed : BOOLEAN, origin : BOOLEAN,
                        important : BOOLEAN])
    /\ g.required \in Seq([source : Node, target : Node])

GuardConstants ==
    /\ MaxPart \in Nat \ {0} /\ MaxFallback \in Nat \ {0}
    /\ MaxPrompt \in Nat \ {0} /\ MaxRoutes \in Nat
    /\ \A g \in GivenGraph : IsGraph(g)

VARIABLES
    phase,      \* where the run of step 3 is
    graph,      \* its edges and its required paths, two sequences
    parts,      \* list of partitions that wait for the network
    todo,       \* edges of the partition, or of the filter, still to consider
    scope,      \* edges the guard at work knows
    enforced,   \* required paths it enforces
    mask,       \* edges still there
    witness,    \* for each of these paths, the edges that show it is there
    prune,      \* edges with action 1
    overrides,  \* constraint_overrides of the filter
    kept,       \* edges of the pruned graph
    prompt,     \* edges the prompt shows
    story       \* what the narrative says of the required paths

guardVars == <<phase, graph, parts, todo, scope, enforced, mask, witness, prune,
               overrides, kept, prompt, story>>
guard == <<scope, enforced, mask, witness>>
NoStory == [nodes |-> {}, timeline |-> {}, routes |-> <<>>, omitted |-> 0, walks |-> {},
            partial |-> FALSE, digest |-> [edges |-> 0, events |-> 0, routes |-> 0, partial |-> FALSE]]

Edge == 1..Len(graph.edges)
Path == 1..Len(graph.required)
Observed == {i \in Edge : graph.edges[i].observed}      \* observed events
Origin == {i \in Edge : graph.edges[i].origin}          \* is_protected_origin_edge
Important == {i \in Edge : graph.edges[i].important}    \* what the rule keeps

Connects(edges, p) ==
    Reachable(Node, {<<graph.edges[i].source, graph.edges[i].target>> : i \in edges},
              graph.required[p].source, graph.required[p].target)

\* What _find_path may answer: a shortest connection.
FindPath(edges, p) ==
    LET connections == {W \in SUBSET edges : Connects(W, p)}
    IN  {W \in connections : \A V \in connections : Cardinality(W) <= Cardinality(V)}

Lowest(S) == CHOOSE n \in S : \A m \in S : n <= m
InOrder(S, Before(_, _)) ==
    [n \in 1..Cardinality(S) |-> CHOOSE x \in S : Cardinality({y \in S : Before(y, x)}) = n - 1]
Latest(S, count) == {i \in S : Cardinality({j \in S : i < j}) < count}

----------------------------------------------------------------------------
\* Deviation: a witness the edge is not part of counts, whatever became of it.
UnsettledByEdge(m, i) == {p \in enforced : i \in witness[p]}

\* rejection_reason: a path whose witness is intact and does without the edge
\* needs no search; the others get a new witness, up to the first that has none.
Unsettled(m, i) == {p \in enforced : i \in witness[p] \/ ~(witness[p] \subseteq m)}
Lost(m, i) == {p \in Unsettled(m, i) : FindPath(m \ {i}, p) = {}}

Rejected(m, i) == i \in Observed \/ Lost(m, i) # {}

Searched(m, i) ==
    IF i \in Observed THEN {}
    ELSE {p \in Unsettled(m, i) : \A q \in Lost(m, i) : p < q}

\* One answer for each path.
Picks(answers) ==
    {w \in [DOMAIN answers -> UNION {answers[p] : p \in DOMAIN answers}] :
        \A p \in DOMAIN answers : w[p] \in answers[p]}

Ask(m, i) ==
    /\ witness' \in Picks([p \in enforced |->
           IF p \in Searched(m, i) THEN FindPath(m \ {i}, p) ELSE {witness[p]}])
    /\ UNCHANGED <<scope, enforced>>

DontAsk == UNCHANGED <<scope, enforced, witness>>

\* A guard for some of the edges and the required paths among them.
NewGuard(edges, paths) ==
    /\ scope' = edges /\ enforced' = paths /\ mask' = edges
    /\ witness' \in Picks([p \in paths |-> FindPath(edges, p)])

NoGuard == scope' = {} /\ enforced' = {} /\ mask' = {} /\ witness' = <<>>

\* partition_edge_indices: weakly connected components in the order of their
\* first edges, cut into pieces of at most MaxPart edges and packed again.
Component(i) ==
    LET arcs == {<<graph.edges[j].source, graph.edges[j].target>> : j \in Edge}
        both == arcs \cup {<<a[2], a[1]>> : a \in arcs}
    IN  {j \in Edge : Reachable(Node, both, graph.edges[i].source, graph.edges[j].source)}
PieceOf(i) ==
    LET rank(j) == Cardinality({h \in Component(i) : h < j})
    IN  {j \in Component(i) : rank(j) \div MaxPart = rank(i) \div MaxPart}
Pieces ==
    InOrder({PieceOf(i) : i \in Edge},
            LAMBDA A, B : LET a == Lowest(Component(Lowest(A)))
                              b == Lowest(Component(Lowest(B)))
                          IN  a < b \/ (a = b /\ Lowest(A) < Lowest(B)))
Pack(packed, piece) ==
    IF packed # <<>> /\ Cardinality(Last(packed)) + Cardinality(piece) <= MaxPart
    THEN [packed EXCEPT ![Len(packed)] = @ \cup piece]
    ELSE Append(packed, piece)

Packed(pieces) ==
    LET packed[n \in 0..Len(pieces)] == IF n = 0 THEN <<>> ELSE Pack(packed[n - 1], pieces[n])
    IN  packed

Partitions ==
    IF Len(graph.edges) <= MaxPart THEN <<Edge>>
    ELSE LET pieces == Pieces IN Packed(pieces)[Len(pieces)]

----------------------------------------------------------------------------
GuardInit ==
    /\ phase = "idle"
    /\ graph = [edges |-> <<>>, required |-> <<>>]
    /\ parts = <<>> /\ todo = {}
    /\ scope = {} /\ enforced = {} /\ mask = {} /\ witness = <<>>
    /\ prune = {} /\ overrides = {} /\ kept = {} /\ prompt = {} /\ story = NoStory

\* A graph is read from its file.
Load(g) ==
    /\ phase = "idle"
    /\ graph' = g
    /\ phase' = "loaded"
    /\ UNCHANGED <<parts, todo, guard, prune, overrides, kept, prompt, story>>

\* Training: an episode goes through the edges in any order with the guard
\* that the graph has had since its first episode.
StartTraining ==
    /\ phase = "loaded"
    /\ \A p \in Path : Connects(Edge, p)
    /\ NewGuard(Edge, Path)
    /\ todo' = Edge
    /\ phase' = "train"
    /\ UNCHANGED <<graph, parts, prune, overrides, kept, prompt, story>>

\* _select_action asks before it knows the action; env.step takes the edge away.
TrainStep(i, action) ==
    /\ phase = "train" /\ i \in todo
    /\ Ask(mask, i)
    /\ mask' = IF action = 1 /\ ~Rejected(mask, i) THEN mask \ {i} ELSE mask
    /\ todo' = todo \ {i}
    /\ UNCHANGED <<phase, graph, parts, prune, overrides, kept, prompt, story>>

\* _optimize asks the same guard about the mask of a transition sampled from the
\* replay buffer, of this episode or of an earlier one.
Replay(m, i) ==
    /\ phase = "train"
    /\ i \in m
    /\ \A p \in enforced : Connects(m, p)
    /\ Ask(m, i)
    /\ UNCHANGED <<phase, graph, parts, todo, mask, prune, overrides, kept, prompt, story>>

NextEpisode ==
    /\ phase = "train" /\ todo = {}
    /\ mask' = Edge /\ todo' = Edge
    /\ UNCHANGED <<phase, graph, parts, scope, enforced, witness, prune, overrides, kept, prompt, story>>

----------------------------------------------------------------------------
\* Inference: the graph is split if it is too large for one pass.
StartDqn ==
    /\ phase = "loaded"
    /\ parts' = Partitions
    /\ phase' = "split"
    /\ UNCHANGED <<graph, todo, guard, prune, overrides, kept, prompt, story>>

\* The next partition gets a guard for the paths that lie within it.  For the
\* whole graph a required path that is not there is an error.
TakePart ==
    LET A == Head(parts) IN
    /\ phase = "split" /\ parts # <<>>
    /\ A = Edge => \A p \in Path : Connects(Edge, p)
    /\ NewGuard(A, {p \in Path : Connects(A, p)})
    /\ parts' = Tail(parts) /\ todo' = A
    /\ phase' = "decide"
    /\ UNCHANGED <<graph, prune, overrides, kept, prompt, story>>

\* Deviation: each edge is judged as if all others were still there.
DecideAlone(action) ==
    LET i == Lowest(todo)
        granted == action = 1 /\ ~Rejected(scope, i) /\ i \notin Origin
    IN  /\ phase = "decide" /\ todo # {}
        /\ IF action = 1 THEN Ask(scope, i) ELSE DontAsk
        /\ mask' = IF granted THEN mask \ {i} ELSE mask
        /\ prune' = IF granted THEN prune \cup {i} ELSE prune
        /\ todo' = todo \ {i}
        /\ UNCHANGED <<phase, graph, parts, overrides, kept, prompt, story>>

\* The network's action for the next edge, vetoed by the guard or because of
\* strong evidence of the attack's origin.
Decide(action) ==
    LET i == Lowest(todo)
        granted == action = 1 /\ ~Rejected(mask, i) /\ i \notin Origin
    IN  /\ phase = "decide" /\ todo # {}
        /\ IF action = 1 THEN Ask(mask, i) ELSE DontAsk
        /\ mask' = IF granted THEN mask \ {i} ELSE mask
        /\ prune' = IF granted THEN prune \cup {i} ELSE prune
        /\ todo' = todo \ {i}
        /\ UNCHANGED <<phase, graph, parts, overrides, kept, prompt, story>>

EndPart ==
    /\ phase = "decide" /\ todo = {}
    /\ phase' = "split"
    /\ UNCHANGED <<graph, parts, todo, guard, prune, overrides, kept, prompt, story>>

\* The merged actions pass through a guard of the whole graph.
StartFilter ==
    /\ phase = "split" /\ parts = <<>>
    /\ \A p \in Path : Connects(Edge, p)
    /\ NewGuard(Edge, Path)
    /\ todo' = prune
    /\ phase' = "filter"
    /\ UNCHANGED <<graph, parts, prune, overrides, kept, prompt, story>>

Filter ==
    LET i == Lowest(todo) IN
    /\ phase = "filter" /\ todo # {}
    /\ Ask(mask, i)
    /\ IF Rejected(mask, i)
       THEN /\ prune' = prune \ {i} /\ overrides' = overrides \cup {i}
            /\ UNCHANGED mask
       ELSE mask' = mask \ {i} /\ UNCHANGED <<prune, overrides>>
    /\ todo' = todo \ {i}
    /\ UNCHANGED <<phase, graph, parts, kept, prompt, story>>

\* predict_and_prune writes the edges with action 0.
Write ==
    /\ phase = "filter" /\ todo = {}
    /\ kept' = Edge \ prune
    /\ phase' = "written"
    /\ UNCHANGED <<graph, parts, todo, guard, prune, overrides, prompt, story>>

\* run_dqn_pruning adds what the checkpoint was and writes the file again.
Annotate ==
    /\ phase = "written"
    /\ phase' = "pruned"
    /\ UNCHANGED <<graph, parts, todo, guard, prune, overrides, kept, prompt, story>>

\* No checkpoint, no torch, no memory, any exception, also after the file was
\* written: the rule starts again from the graph.
DqnFails ==
    /\ phase \in {"loaded", "split", "decide", "filter", "written"}
    /\ kept' = LET chosen == Latest(IF Important = {} THEN Latest(Edge, 1) ELSE Important, MaxFallback)
               IN  chosen \cup Observed
    /\ todo' = Path
    /\ phase' = "restore"
    /\ parts' = <<>> /\ prune' = {} /\ overrides' = {}
    /\ NoGuard
    /\ UNCHANGED <<graph, prompt, story>>

\* restore_required_evidence: for each required path that the rule has cut,
\* the edges of one come back.
Restore(p) ==
    /\ phase = "restore" /\ todo # {} /\ p = Lowest(todo)
    /\ IF Connects(kept, p) THEN UNCHANGED kept
       ELSE \E W \in FindPath(Edge, p) : kept' = kept \cup W
    /\ todo' = todo \ {p}
    /\ UNCHANGED <<phase, graph, parts, guard, prune, overrides, prompt, story>>

EndRestore ==
    /\ phase = "restore" /\ todo = {}
    /\ phase' = "pruned"
    /\ UNCHANGED <<graph, parts, todo, guard, prune, overrides, kept, prompt, story>>

\* A required path that the graph never had ends the analysis.
Refuse ==
    /\ phase = "restore" /\ todo # {} /\ FindPath(Edge, Lowest(todo)) = {}
    /\ phase' = "failed"
    /\ UNCHANGED <<graph, parts, todo, guard, prune, overrides, kept, prompt, story>>

\* Deviation: the prompt is made from the graph before pruning.
BuildPromptFull ==
    /\ phase = "pruned"
    /\ prompt' = Latest(Edge, MaxPrompt)
    /\ phase' = "prompted"
    /\ UNCHANGED <<graph, parts, todo, guard, prune, overrides, kept, story>>

\* build_prompt_graph: all edges, or the latest if there are too many.
BuildPrompt ==
    /\ phase = "pruned"
    /\ prompt' = Latest(kept, MaxPrompt)
    /\ phase' = "prompted"
    /\ UNCHANGED <<graph, parts, todo, guard, prune, overrides, kept, story>>

\* selected_edge_view: what else the graph held, clusters, chains and paths that
\* were found before, is dropped; nodes are those the edges join, and the routes
\* of the required paths are searched among the edges.
Nodes(edges) == {graph.edges[i].source : i \in edges} \cup {graph.edges[i].target : i \in edges}
Routes(edges) == LET found == {p \in Path : FindPath(edges, p) # {}}
                 IN  Picks([p \in found |-> FindPath(edges, p)])

\* _generate_stage_view and _generate_timeline tell the events.
Timeline(edges) == edges \cap Observed

\* _trace_linear_path: from a node on, each time along the earliest event that
\* leaves it, for eight steps, or up to one that leads back.
Leaving(edges, node) == {i \in Timeline(edges) : graph.edges[i].source = node}
Walk(edges, entry) ==
    LET walk[n \in 0..8] ==
            IF n = 0 THEN <<entry>>
            ELSE LET out == Leaving(edges, Last(walk[n - 1]))
                     next == graph.edges[Lowest(out)].target
                 IN  IF out = {} THEN walk[n - 1]
                     ELSE IF next \in ToSet(walk[n - 1]) THEN walk[n - 1] ELSE Append(walk[n - 1], next)
    IN  walk[8]

\* _generate_key_paths walks from the nodes at which events start and none ends.
Entries(edges) == {node \in Nodes(Timeline(edges)) :
                      \A i \in Timeline(edges) : graph.edges[i].target # node}

\* _generate_attack_paths lists so many of the routes and counts the others.
Listed(routes) == {p \in DOMAIN routes : Cardinality({q \in DOMAIN routes : q < p}) < MaxRoutes}

\* convert_to_thesis_analysis, the text beside the narrative, is made of counts.
Digest(edges, routes) ==
    [edges |-> Cardinality(edges), events |-> Cardinality(Timeline(edges)),
     routes |-> Cardinality(DOMAIN routes), partial |-> edges # kept]

\* What convert says of the edges, and the digest beside it.
Narrative(edges, routes) ==
    [nodes |-> Nodes(edges), timeline |-> Timeline(edges),
     routes |-> [p \in Listed(routes) |-> routes[p]],
     omitted |-> Cardinality(DOMAIN routes) - Cardinality(Listed(routes)),
     walks |-> {Walk(edges, entry) : entry \in Entries(edges)},
     partial |-> edges # kept, digest |-> Digest(edges, routes)]

\* Deviation: the routes are those the pruned graph was saved with.
TellSaved ==
    /\ phase = "prompted" /\ phase' = "told"
    /\ \E routes \in Routes(kept) : story' = Narrative(prompt, routes)
    /\ UNCHANGED <<graph, parts, todo, guard, prune, overrides, kept, prompt>>

\* write_step4_outputs, convert.
Tell ==
    /\ phase = "prompted" /\ phase' = "told"
    /\ \E routes \in Routes(prompt) : story' = Narrative(prompt, routes)
    /\ UNCHANGED <<graph, parts, todo, guard, prune, overrides, kept, prompt>>

Prune ==
    \/ StartDqn \/ TakePart \/ EndPart \/ StartFilter \/ Filter \/ Write \/ Annotate
    \/ \E action \in {0, 1} : Decide(action)
    \/ DqnFails \/ EndRestore \/ Refuse
    \/ \E p \in Path : Restore(p)
    \/ BuildPrompt \/ Tell

Train ==
    \/ StartTraining \/ NextEpisode
    \/ \E i \in Edge, action \in {0, 1} : TrainStep(i, action)
    \/ \E m \in SUBSET Edge, i \in Edge : Replay(m, i)

----------------------------------------------------------------------------
\* Types; the guard at work knows a part of the graph and the mask is within it.
GuardTypeOK ==
    /\ phase \in {"idle", "loaded", "train", "split", "decide", "filter", "written",
                  "restore", "pruned", "prompted", "told", "failed"}
    /\ todo \subseteq (IF phase \in {"restore", "failed"} THEN Path ELSE Edge)
    /\ parts \in Seq(SUBSET Edge)
    /\ scope \subseteq Edge /\ mask \subseteq scope /\ enforced \subseteq Path
    /\ witness \in [enforced -> SUBSET scope]
    /\ prune \subseteq Edge /\ overrides \subseteq Edge /\ kept \subseteq Edge /\ prompt \subseteq kept
    /\ story.nodes \subseteq Nodes(kept) /\ story.timeline \subseteq kept
    /\ DOMAIN story.routes \subseteq Path /\ story.routes \in [DOMAIN story.routes -> SUBSET kept]
    /\ story.omitted \in 0..Len(graph.required) /\ story.walks \subseteq Seq(Node)
    /\ story.partial \in BOOLEAN /\ story.digest.edges \in 0..Len(graph.edges)

\* Whatever the network proposes and whichever masks the guard was asked about
\* before, no required path is cut and no observed event lost: not in an episode
\* of training, not in a partition, and not in the pruned graph, be it the
\* network's or the rule's (constraints.py:49, trainer.py:229).
RequiredStaysReachable ==
    /\ phase \in {"train", "decide", "filter"} =>
           /\ Observed \cap scope \subseteq mask
           /\ \A p \in enforced : Connects(mask, p)
    /\ phase \in {"written", "pruned", "prompted", "told"} =>
           /\ Observed \subseteq kept /\ Origin \cap prune = {}
           /\ \A p \in Path : Connects(kept, p)

\* The filter of the merged actions finds nothing to override when the graph was
\* not split: what the first pass let go, its guard would let go again
\* (trainer.py:403).
SecondPassAccepts ==
    phase = "written" /\ Len(graph.edges) <= MaxPart => overrides = {}

\* What the narrative lists is among the edges the model is shown: the routes of
\* required paths, and the candidate paths, each of observed events and through no
\* node twice.  And unless it is told that the evidence is partial, every required
\* path is listed or counted, in the text beside it too: none goes missing without a
\* word between step 2 and the model (export_alerts_to_step1.py:536, graph_views.py:30, converter.py:98, 629).
NarrativeHonest ==
    phase = "told" =>
        /\ \A p \in DOMAIN story.routes : /\ story.routes[p] \subseteq prompt
                                          /\ Connects(story.routes[p], p)
        /\ \A walk \in story.walks :
              /\ Cardinality(ToSet(walk)) = Len(walk)
              /\ \A n \in 1..Len(walk) - 1 : \E i \in story.timeline \cap prompt :
                    graph.edges[i].source = walk[n] /\ graph.edges[i].target = walk[n + 1]
        /\ story.partial \/ Cardinality(DOMAIN story.routes) + story.omitted = Cardinality(Path)
        /\ story.digest = Digest(prompt, [p \in 1..Cardinality(DOMAIN story.routes) + story.omitted |-> {}])
=============================================================================
