------------------------ MODULE AnalysisPipelineProofs ------------------------
(***************************************************************************)
(* Proofs about steps 2 to 4 of an analysis: whatever the network          *)
(* proposes, and whatever the guard was asked before, no required path is  *)
(* cut and no observed event is lost; the filter of the merged actions     *)
(* takes nothing back where the graph was pruned in one piece; a graph of  *)
(* step 2 is not pruned at all; and the narrative is honest.               *)
(*                                                                         *)
(* The first two rest on one fact about the guard (Removal): a removal it  *)
(* lets pass leaves every path it enforces connected, be it for the path's *)
(* witness, which the mask still holds, or for a new one.  The third rests *)
(* on the shape that step 2 gives to a path (BuildInv): a chain, in which  *)
(* every edge is the only way on (GroupIsChain, Whole).                    *)
(*                                                                         *)
(* Beside them the step before: a collection has what its window has, for  *)
(* what the kinds that were read are bound to have of it (Gathered); and   *)
(* the anchors of an alert are what its record says of an attacker,        *)
(* whichever way it was read (ReadingTells).  And the actors of a page: a  *)
(* forest in which the rows above a row get fewer on the way up (FindIs),  *)
(* and which groups what signals join and nothing else (Grouped).          *)
(***************************************************************************)
EXTENDS AnalysisSteps, FiniteSetTheorems, WellFoundedInduction, TLAPS

Working == {"train", "decide", "filter"}
Finished == {"written", "pruned", "prompted", "told"}

\* Every path's witness connects it, be it in the mask or in another one.
Guarded ==
    phase \in Working =>
        /\ DOMAIN witness = enforced
        /\ \A p \in enforced : Connects(witness[p], p) /\ Connects(mask, p)
        /\ Observed \cap scope \subseteq mask

\* An episode's mask is of the whole graph, the filter's without what was let go, and the rule has what is not to be
\* restored any more.
Prepared ==
    /\ Origin \cap prune = {}
    /\ phase = "train" => scope = Edge /\ mask \subseteq Edge
    /\ phase = "filter" => /\ scope = Edge /\ enforced = Path
                           /\ mask \subseteq Edge \ (prune \ todo)
    /\ phase = "restore" => /\ Observed \subseteq kept
                            /\ \A p \in Path \ todo : Connects(kept, p)

Complete ==
    phase \in Finished =>
        /\ Observed \subseteq kept
        /\ \A p \in Path : Connects(kept, p)

\* Before a graph is there, the lists are empty.
Fresh == phase \in {"idle", "loaded", "train"} => prune = {} /\ overrides = {}

GuardInv == Guarded /\ Prepared /\ Complete /\ Fresh

\* The steps of PathGuard, of any graph that is given to it.
GuardNext == (\E g : IsGraph(g) /\ Load(g)) \/ Prune \/ Train

-----------------------------------------------------------------------------
LEMMA ConnectsMore ==
    ASSUME NEW V, NEW W, V \subseteq W, NEW p, Connects(V, p)
    PROVE  Connects(W, p)
<1>1. {<<graph.edges[i].source, graph.edges[i].target>> : i \in V}
        \subseteq {<<graph.edges[i].source, graph.edges[i].target>> : i \in W}
  OBVIOUS
<1> QED BY <1>1 DEF Connects, Reachable, Closed

LEMMA FoundConnects ==
    ASSUME NEW edges, NEW p, NEW W \in FindPath(edges, p)
    PROVE  W \subseteq edges /\ Connects(W, p)
BY DEF FindPath

LEMMA Picked ==
    ASSUME NEW answers, NEW w \in Picks(answers)
    PROVE  DOMAIN w = DOMAIN answers /\ \A p \in DOMAIN answers : w[p] \in answers[p]
BY DEF Picks

\* What the guard lets pass leaves every path connected.
LEMMA Removal ==
    ASSUME phase \in Working, Guarded, NEW i, ~Rejected(mask, i)
    PROVE  /\ \A p \in enforced : Connects(mask \ {i}, p)
           /\ Observed \cap scope \subseteq mask \ {i}
<1>1. i \notin Observed /\ Lost(mask, i) = {}
  BY DEF Rejected
<1>2. ASSUME NEW p \in enforced PROVE Connects(mask \ {i}, p)
  <2>1. CASE p \in Unsettled(mask, i)
    <3>1. FindPath(mask \ {i}, p) # {}
      BY <1>1, <2>1 DEF Lost
    <3>2. PICK W \in FindPath(mask \ {i}, p) : TRUE
      BY <3>1
    <3> QED BY <3>2, FoundConnects, ConnectsMore
  <2>2. CASE p \notin Unsettled(mask, i)
    <3>1. witness[p] \subseteq mask \ {i}
      BY <2>2 DEF Unsettled
    <3>2. Connects(witness[p], p)
      BY DEF Guarded
    <3> QED BY <3>1, <3>2, ConnectsMore
  <2> QED BY <2>1, <2>2
<1> QED BY <1>1, <1>2 DEF Guarded

\* An answer of the guard leaves witnesses that connect, whichever mask it is about.
LEMMA AskKeeps ==
    ASSUME phase \in Working, Guarded, NEW m, NEW i, Ask(m, i), UNCHANGED graph
    PROVE  /\ DOMAIN witness' = enforced' /\ UNCHANGED <<scope, enforced>>
           /\ \A p \in enforced : Connects(witness[p], p)'
<1> DEFINE answers == [p \in enforced |->
                          IF p \in Searched(m, i) THEN FindPath(m \ {i}, p) ELSE {witness[p]}]
<1>1. witness' \in Picks(answers) /\ UNCHANGED <<scope, enforced>>
  BY DEF Ask
<1>2. DOMAIN answers = enforced
  OBVIOUS
<1>3. DOMAIN witness' = enforced /\ \A p \in enforced : witness'[p] \in answers[p]
  BY <1>1, <1>2, Picked
<1>4. ASSUME NEW p \in enforced PROVE Connects(witness'[p], p)
  <2>1. CASE p \in Searched(m, i)
    BY <1>3, <2>1, FoundConnects
  <2>2. CASE p \notin Searched(m, i)
    <3>1. witness'[p] = witness[p]
      BY <1>3, <2>2
    <3> QED BY <3>1 DEF Guarded
  <2> QED BY <2>1, <2>2
<1> QED BY <1>1, <1>3, <1>4 DEF Connects

LEMMA NewGuardKnows ==
    ASSUME NEW edges, NEW paths, NewGuard(edges, paths), UNCHANGED graph
    PROVE  /\ scope' = edges /\ enforced' = paths /\ mask' = edges
           /\ DOMAIN witness' = enforced'
           /\ \A p \in paths : Connects(witness[p], p)' /\ Connects(edges, p)
<1> DEFINE answers == [p \in paths |-> FindPath(edges, p)]
<1>1. /\ scope' = edges /\ enforced' = paths /\ mask' = edges
      /\ witness' \in Picks(answers)
  BY DEF NewGuard
<1>2. DOMAIN witness' = paths /\ \A p \in paths : witness'[p] \in FindPath(edges, p)
  BY <1>1, Picked
<1>3. \A p \in paths : /\ witness'[p] \subseteq edges
                       /\ Connects(witness'[p], p)
  BY <1>2, FoundConnects
<1>4. \A p \in paths : Connects(edges, p)
  BY <1>3, ConnectsMore
<1> QED BY <1>1, <1>2, <1>3, <1>4 DEF Connects

-----------------------------------------------------------------------------
(* The steps.                                                              *)

LEMMA SameGraph ==
    ASSUME UNCHANGED graph
    PROVE  /\ Edge' = Edge /\ Path' = Path /\ Observed' = Observed /\ Origin' = Origin
           /\ \A W, p : Connects(W, p)' <=> Connects(W, p)
BY DEF Edge, Path, Observed, Origin, Connects

\* Steps that leave the edges alone.
LEMMA QuietStep ==
    ASSUME GuardInv, UNCHANGED <<graph, scope, enforced, mask, witness, prune, overrides, kept>>,
           \/ phase' = phase
           \/ phase \in Working /\ phase' = "split"
           \/ phase = "loaded" /\ phase' = "split"
           \/ phase \in {"written", "pruned", "prompted"} /\ phase' \in Finished
           \/ phase = "restore" /\ phase' = "failed"
           \/ phase = "restore" /\ todo = {} /\ phase' = "pruned",
           phase' \in {"filter", "restore"} => todo' = todo
    PROVE  GuardInv'
<1>1. UNCHANGED <<graph, scope, enforced, mask, witness>>
  OBVIOUS
<1>2. /\ \A p : Connects(witness[p], p)' <=> Connects(witness[p], p)
      /\ \A p : Connects(mask, p)' <=> Connects(mask, p)
      /\ \A p : Connects(kept, p)' <=> Connects(kept, p)
  BY <1>1 DEF Connects
<1>3. Guarded'
  BY <1>1, <1>2, SameGraph DEF GuardInv, Guarded, Working, Finished
<1>4. Prepared'
  BY <1>1, <1>2, SameGraph DEF GuardInv, Prepared, Working, Finished
<1>5. Complete'
  BY <1>1, <1>2, SameGraph DEF GuardInv, Prepared, Complete, Working, Finished
<1>6. Fresh'
  BY DEF GuardInv, Fresh, Working, Finished
<1> QED BY <1>3, <1>4, <1>5, <1>6 DEF GuardInv

\* A new guard, for the training, a partition or the filter.
LEMMA GuardStep ==
    ASSUME GuardInv, NEW edges, NEW paths, NewGuard(edges, paths),
           UNCHANGED <<graph, prune, overrides, kept>>,
           \/ phase = "loaded" /\ phase' = "train" /\ edges = Edge
           \/ phase' = "decide"
           \/ phase' = "filter" /\ edges = Edge /\ paths = Path /\ todo' = prune
    PROVE  GuardInv'
<1>1. /\ scope' = edges /\ enforced' = paths /\ mask' = edges
      /\ DOMAIN witness' = enforced'
      /\ \A p \in paths : Connects(witness[p], p)' /\ Connects(edges, p)
  BY NewGuardKnows
<1>2. \A p : Connects(mask, p)' <=> Connects(edges, p)
  BY <1>1 DEF Connects
<1>3. Guarded'
  BY <1>1, <1>2 DEF Guarded
<1>4. Prepared'
  BY <1>1, SameGraph DEF GuardInv, Prepared
<1>5. Complete' /\ Fresh'
  BY DEF GuardInv, Complete, Fresh, Finished
<1> QED BY <1>3, <1>4, <1>5 DEF GuardInv

\* The guard answers, and the edge is taken out of the mask at most if it passes.
LEMMA AnsweredStep ==
    ASSUME Guarded, phase \in Working, phase' = phase, UNCHANGED graph,
           NEW m, NEW i, Ask(m, i) \/ DontAsk,
           mask' = mask \/ (mask' = mask \ {i} /\ ~Rejected(mask, i))
    PROVE  Guarded' /\ UNCHANGED <<scope, enforced>>
<1>1. /\ DOMAIN witness' = enforced' /\ UNCHANGED <<scope, enforced>>
      /\ \A p \in enforced : Connects(witness[p], p)'
  <2>1. CASE Ask(m, i)
    BY <2>1, AskKeeps
  <2>2. CASE DontAsk
    <3>1. UNCHANGED <<scope, enforced, witness>>
      BY <2>2 DEF DontAsk
    <3>2. \A p : Connects(witness[p], p)' <=> Connects(witness[p], p)
      BY <3>1 DEF Connects
    <3> QED BY <3>1, <3>2 DEF Guarded
  <2> QED BY <2>1, <2>2
<1>2. /\ \A p \in enforced : Connects(mask', p)
      /\ Observed \cap scope \subseteq mask'
  <2>1. CASE mask' = mask
    BY <2>1 DEF Guarded
  <2>2. CASE mask' = mask \ {i} /\ ~Rejected(mask, i)
    BY <2>2, Removal
  <2> QED BY <2>1, <2>2
<1>3. \A p \in enforced : Connects(mask, p)'
  BY <1>2 DEF Connects
<1> QED BY <1>1, <1>2, <1>3, SameGraph DEF Guarded

LEMMA TrainingStep ==
    ASSUME GuardInv, \/ \E i \in Edge, action \in {0, 1} : TrainStep(i, action)
                 \/ \E m \in SUBSET Edge, i \in Edge : Replay(m, i)
    PROVE  GuardInv'
<1>1. phase = "train" /\ phase' = phase /\ UNCHANGED <<graph, prune, overrides, kept>>
  BY DEF TrainStep, Replay
<1>2. PICK m, i : Ask(m, i) /\ (mask' = mask \/ (mask' = mask \ {i} /\ ~Rejected(mask, i)))
  BY DEF TrainStep, Replay
<1>3. Guarded'
  BY <1>1, <1>2, AnsweredStep DEF GuardInv, Working
<1>4. UNCHANGED scope /\ mask' \subseteq mask
  BY <1>2 DEF Ask
<1> QED BY <1>1, <1>3, <1>4, SameGraph DEF GuardInv, Prepared, Complete, Fresh, Finished

LEMMA EpisodeStep == ASSUME GuardInv, NextEpisode PROVE GuardInv'
<1>1. /\ phase = "train" /\ phase' = phase /\ mask' = Edge
      /\ UNCHANGED <<graph, scope, enforced, witness, prune, overrides, kept>>
  BY DEF NextEpisode
<1>2. \A p : Connects(witness[p], p)' <=> Connects(witness[p], p)
  BY <1>1 DEF Connects
<1>3. \A p : Connects(mask, p)' <=> Connects(Edge, p)
  BY <1>1 DEF Connects
<1>4. \A p \in enforced : Connects(Edge, p)
  BY <1>1, ConnectsMore DEF GuardInv, Guarded, Prepared, Working
<1>5. Observed \subseteq Edge
  BY DEF Observed
<1>6. Guarded'
  BY <1>1, <1>2, <1>3, <1>4, <1>5, SameGraph DEF GuardInv, Guarded, Working
<1> QED BY <1>1, <1>6, SameGraph DEF GuardInv, Prepared, Complete, Fresh, Finished

\* The network decides.
LEMMA DecideStep ==
    ASSUME GuardInv, NEW action \in {0, 1}, Decide(action)
    PROVE  GuardInv'
<1> DEFINE i == Lowest(todo)
<1>1. phase = "decide" /\ phase' = phase /\ UNCHANGED <<graph, overrides, kept>>
  BY DEF Decide
<1>2. /\ Ask(mask, i) \/ DontAsk
      /\ \/ mask' = mask /\ prune' = prune
         \/ /\ mask' = mask \ {i} /\ prune' = prune \cup {i}
            /\ ~Rejected(mask, i) /\ i \notin Origin
  BY DEF Decide
<1>3. Guarded'
  BY <1>1, <1>2, AnsweredStep DEF GuardInv, Working
<1> QED BY <1>1, <1>2, <1>3, SameGraph DEF GuardInv, Prepared, Complete, Fresh, Finished

\* The filter lets an edge go again, or takes it back.
LEMMA FilterStep == ASSUME GuardInv, Filter PROVE GuardInv'
<1> DEFINE i == Lowest(todo)
<1>1. phase = "filter" /\ phase' = phase /\ todo' = todo \ {i} /\ UNCHANGED <<graph, kept>>
  BY DEF Filter
<1>2. /\ Ask(mask, i)
      /\ \/ mask' = mask /\ prune' = prune \ {i}
         \/ mask' = mask \ {i} /\ prune' = prune /\ ~Rejected(mask, i)
  BY DEF Filter
<1>3. Guarded' /\ UNCHANGED <<scope, enforced>>
  BY <1>1, <1>2, AnsweredStep DEF GuardInv, Working
<1>4. mask' \subseteq Edge \ (prune' \ todo')
  BY <1>1, <1>2 DEF GuardInv, Prepared
<1> QED BY <1>1, <1>2, <1>3, <1>4, SameGraph DEF GuardInv, Prepared, Complete, Fresh, Finished

LEMMA WriteStep == ASSUME GuardInv, Write PROVE GuardInv'
<1>1. /\ phase = "filter" /\ phase' = "written" /\ todo = {} /\ kept' = Edge \ prune
      /\ UNCHANGED <<graph, prune>>
  BY DEF Write
<1>2. mask \subseteq kept' /\ scope = Edge /\ enforced = Path
  BY <1>1 DEF GuardInv, Prepared
<1>3. \A p \in Path : Connects(kept', p)
  BY <1>1, <1>2, ConnectsMore DEF GuardInv, Guarded, Working
<1>4. Observed \subseteq kept'
  BY <1>1, <1>2 DEF GuardInv, Guarded, Working, Observed
<1>5. Complete'
  BY <1>1, <1>3, <1>4, SameGraph DEF Complete, Connects
<1> QED BY <1>1, <1>5, SameGraph DEF GuardInv, Guarded, Prepared, Fresh, Working

\* The rule takes over, and what it cut of a required path comes back.
LEMMA RuleStep == ASSUME GuardInv, DqnFails \/ (\E p \in Path : Restore(p)) PROVE GuardInv'
<1>1. CASE DqnFails
  <2>1. /\ phase' = "restore" /\ todo' = Path /\ Observed \subseteq kept' /\ prune' = {}
        /\ UNCHANGED graph
    BY <1>1 DEF DqnFails
  <2> QED BY <2>1, SameGraph DEF GuardInv, Guarded, Prepared, Complete, Fresh, Working, Finished
<1>2. ASSUME NEW p \in Path, Restore(p) PROVE GuardInv'
  <2>1. /\ phase = "restore" /\ phase' = phase /\ todo' = todo \ {p}
        /\ UNCHANGED <<graph, prune>>
    BY <1>2 DEF Restore
  <2>2. kept \subseteq kept' /\ Connects(kept', p)
    <3>1. CASE Connects(kept, p)
      BY <1>2, <3>1 DEF Restore
    <3>2. CASE ~Connects(kept, p)
      <4>1. PICK W \in FindPath(Edge, p) : kept' = kept \cup W
        BY <1>2, <3>2 DEF Restore
      <4>2. Connects(kept', p)
        BY <4>1, FoundConnects, ConnectsMore
      <4> QED BY <4>1, <4>2
    <3> QED BY <3>1, <3>2
  <2>3. \A q \in Path \ todo' : Connects(kept', q)
    BY <2>1, <2>2, ConnectsMore DEF GuardInv, Prepared
  <2>4. \A q \in Path \ todo' : Connects(kept, q)'
    BY <2>1, <2>3 DEF Connects
  <2> QED BY <2>1, <2>2, <2>4, SameGraph DEF GuardInv, Guarded, Prepared, Complete, Fresh, Working, Finished
<1> QED BY <1>1, <1>2

LEMMA GuardInvStep == ASSUME GuardInv, [GuardNext]_guardVars PROVE GuardInv'
<1>1. CASE UNCHANGED guardVars
  BY <1>1, QuietStep DEF guardVars
<1>2. ASSUME NEW g, Load(g) PROVE GuardInv'
  <2>1. phase = "idle" /\ phase' = "loaded" /\ UNCHANGED <<prune, overrides>>
    BY <1>2 DEF Load
  <2> QED BY <2>1 DEF GuardInv, Guarded, Prepared, Complete, Fresh, Working, Finished
<1>3. CASE StartTraining
  BY <1>3, GuardStep DEF StartTraining
<1>4. CASE TakePart
  BY <1>4, GuardStep DEF TakePart
<1>5. CASE StartFilter
  BY <1>5, GuardStep DEF StartFilter
<1>6. CASE \/ \E i \in Edge, action \in {0, 1} : TrainStep(i, action)
           \/ \E m \in SUBSET Edge, i \in Edge : Replay(m, i)
  BY <1>6, TrainingStep
<1>7. CASE NextEpisode
  BY <1>7, EpisodeStep
<1>8. CASE StartDqn \/ EndPart
  <2>1. phase \in {"loaded", "decide"} /\ phase' = "split"
        /\ UNCHANGED <<graph, scope, enforced, mask, witness, prune, overrides, kept>>
    BY <1>8 DEF StartDqn, EndPart, guard
  <2> QED BY <2>1, QuietStep DEF Working
<1>9. CASE Annotate \/ BuildPrompt \/ Tell \/ EndRestore \/ Refuse
  <2>1. /\ UNCHANGED <<graph, scope, enforced, mask, witness, prune, overrides, kept>>
        /\ \/ phase \in {"written", "pruned", "prompted"} /\ phase' \in {"pruned", "prompted", "told"}
           \/ phase = "restore" /\ phase' = "failed"
           \/ phase = "restore" /\ todo = {} /\ phase' = "pruned"
    BY <1>9 DEF Annotate, BuildPrompt, Tell, EndRestore, Refuse, guard
  <2> QED BY <2>1, QuietStep DEF Finished
<1>10. ASSUME NEW action \in {0, 1}, Decide(action) PROVE GuardInv'
  BY <1>10, DecideStep
<1>11. CASE Filter
  BY <1>11, FilterStep
<1>12. CASE Write
  BY <1>12, WriteStep
<1>13. CASE DqnFails \/ (\E p \in Path : Restore(p))
  BY <1>13, RuleStep
<1> QED BY <1>1, <1>2, <1>3, <1>4, <1>5, <1>6, <1>7, <1>8, <1>9, <1>10, <1>11, <1>12, <1>13
        DEF GuardNext, Prune, Train

LEMMA GuardInvInit == GuardInit => GuardInv
BY DEF GuardInit, GuardInv, Guarded, Prepared, Complete, Fresh, Working, Finished

-----------------------------------------------------------------------------
(* The second pass, of a graph that was pruned in one piece.               *)

Safe == Observed \cap prune = {} /\ \A p \in Path : Connects(Edge \ prune, p)

\* What the first pass let go is let go by the filter: its mask holds all that stays.
OnePass ==
    Len(graph.edges) <= MaxPart =>
        /\ phase = "split" => /\ prune \subseteq Edge
                              /\ \/ parts = <<Edge>> /\ prune = {}
                                 \/ parts = <<>> /\ Safe
        /\ phase = "decide" => /\ parts = <<>> /\ scope = Edge /\ enforced = Path
                               /\ todo \subseteq Edge /\ prune \subseteq Edge
                               /\ mask \subseteq Edge \ prune
        /\ phase = "filter" => /\ Safe /\ prune \subseteq Edge /\ todo \subseteq prune
                               /\ Edge \ prune \subseteq mask
        /\ phase \in {"split", "decide", "filter", "written"} => overrides = {}

LEMMA LowestIn ==
    ASSUME NEW S \in SUBSET Nat, S # {}
    PROVE  Lowest(S) \in S /\ \A m \in S : Lowest(S) <= m
<1> DEFINE upTo == {0..n : n \in S}
           subsets == FiniteSubsetsOf(Nat)
<1>1. upTo \subseteq subsets /\ upTo # {}
  <2>1. \A n \in S : IsFiniteSet(0..n)
    <3> SUFFICES ASSUME NEW n \in S PROVE IsFiniteSet(0..n)
      OBVIOUS
    <3>1. 0 \in Int /\ n \in Int
      OBVIOUS
    <3> QED BY <3>1, FS_Interval
  <2>2. \A n \in S : 0..n \subseteq Nat
    OBVIOUS
  <2> QED BY <2>1, <2>2 DEF FiniteSubsetsOf
<1>2. PICK least \in upTo : \A other \in upTo : ~(<<other, least>> \in StrictSubsetOrdering(Nat))
  <2>1. IsWellFoundedOn(StrictSubsetOrdering(Nat), subsets)
    BY FS_StrictSubsetOrderingWellFounded
  <2> HIDE DEF upTo, subsets
  <2> QED BY <1>1, <2>1, WFMin
<1>3. PICK n \in S : least = 0..n
  BY <1>2
<1>4. ASSUME NEW m \in S PROVE n <= m
  <2>1. 0..m \in upTo /\ 0..n \in SUBSET Nat /\ 0..m \in SUBSET Nat /\ m \in Nat /\ n \in Nat
    OBVIOUS
  <2>2. ~(0..m \subseteq 0..n /\ 0..m # 0..n)
    BY <1>2, <1>3, <2>1 DEF StrictSubsetOrdering
  <2>3. SUFFICES ASSUME m < n PROVE FALSE
    BY <2>1
  <2>4. 0..m \subseteq 0..n /\ n \in 0..n /\ n \notin 0..m
    BY <2>1, <2>3
  <2> QED BY <2>2, <2>4
<1> QED BY <1>4 DEF Lowest

LEMMA EdgesFinite ==
    ASSUME IsGraph(graph)
    PROVE  Edge \subseteq Nat /\ IsFiniteSet(Edge)
<1>1. Len(graph.edges) \in Nat
  BY DEF IsGraph
<1> QED BY <1>1, FS_Interval DEF Edge

\* Where a path is connected, a shortest connection is found.
LEMMA Finds ==
    ASSUME NEW edges, IsFiniteSet(edges), NEW p, Connects(edges, p)
    PROVE  FindPath(edges, p) # {}
<1> DEFINE connections == {W \in SUBSET edges : Connects(W, p)}
           sizes == {Cardinality(W) : W \in connections}
<1>1. \A W \in connections : Cardinality(W) \in Nat
  BY FS_Subset, FS_CardinalityType
<1>2. sizes \in SUBSET Nat /\ sizes # {}
  BY <1>1
<1>3. PICK n \in sizes : \A m \in sizes : n <= m
  <2> HIDE DEF sizes
  <2> QED BY <1>2, LowestIn
<1>4. PICK W \in connections : n = Cardinality(W)
  BY <1>3
<1>5. W \in FindPath(edges, p)
  BY <1>3, <1>4 DEF FindPath
<1> QED BY <1>5

LEMMA OnePassFilter ==
    ASSUME GuardConstants, GuardInv, OnePass, IsGraph(graph), Filter
    PROVE  OnePass'
<1> SUFFICES ASSUME Len(graph.edges) <= MaxPart
             PROVE  OnePass'
  BY DEF Filter, OnePass
<1> DEFINE i == Lowest(todo)
<1>1. /\ phase = "filter" /\ phase' = phase /\ todo # {} /\ todo' = todo \ {i}
      /\ UNCHANGED <<graph, parts>>
      /\ \/ Rejected(mask, i)
         \/ mask' = mask \ {i} /\ UNCHANGED <<prune, overrides>>
  BY DEF Filter
<1>2. /\ Safe /\ prune \subseteq Edge /\ todo \subseteq prune /\ Edge \ prune \subseteq mask
      /\ overrides = {} /\ mask \subseteq Edge /\ enforced = Path
  BY <1>1 DEF OnePass, GuardInv, Prepared
<1>3. i \in todo
  BY <1>1, <1>2, LowestIn, EdgesFinite
<1>4. ~Rejected(mask, i)
  <2>1. i \notin Observed
    BY <1>2, <1>3 DEF Safe
  <2>2. ASSUME NEW p \in Path PROVE FindPath(mask \ {i}, p) # {}
    <3>1. Edge \ prune \subseteq mask \ {i}
      BY <1>2, <1>3
    <3>2. Connects(mask \ {i}, p)
      BY <1>2, <3>1, ConnectsMore DEF Safe
    <3>3. IsFiniteSet(mask \ {i})
      BY <1>2, EdgesFinite, FS_Subset
    <3> QED BY <3>2, <3>3, Finds
  <2>3. Lost(mask, i) = {}
    BY <1>2, <2>2 DEF Lost, Unsettled
  <2> QED BY <2>1, <2>3 DEF Rejected
<1>5. mask' = mask \ {i} /\ UNCHANGED <<prune, overrides>>
  BY <1>1, <1>4
<1>6. Safe'
  BY <1>1, <1>2, <1>5, SameGraph DEF Safe, Connects
<1> QED BY <1>1, <1>2, <1>3, <1>5, <1>6, SameGraph DEF OnePass

LEMMA OnePassStep ==
    ASSUME GuardConstants, GuardInv, OnePass, phase # "idle" => IsGraph(graph), [GuardNext]_guardVars
    PROVE  OnePass' /\ (phase' # "idle" => IsGraph(graph)')
<1>1. CASE UNCHANGED guardVars
  <2>1. UNCHANGED <<phase, graph, parts, todo, scope, enforced, mask, prune, overrides>>
    BY <1>1 DEF guardVars
  <2>2. Safe' <=> Safe
    BY <2>1, SameGraph DEF Safe, Connects
  <2> QED BY <2>1, <2>2, SameGraph DEF OnePass, IsGraph
<1>2. ASSUME NEW g, IsGraph(g), Load(g) PROVE OnePass' /\ IsGraph(graph)'
  BY <1>2 DEF Load, OnePass, GuardConstants, IsGraph
<1>3. CASE StartDqn
  <2>1. /\ phase = "loaded" /\ phase' = "split" /\ parts' = Partitions
        /\ prune' = prune /\ overrides' = overrides /\ graph' = graph
    BY <1>3 DEF StartDqn
  <2>2. prune = {} /\ overrides = {}
    BY <2>1 DEF GuardInv, Fresh
  <2>3. Len(graph.edges) <= MaxPart => Partitions = <<Edge>>
    BY DEF Partitions
  <2>4. ASSUME Len(graph.edges) <= MaxPart
        PROVE  parts' = <<Edge>>' /\ prune' = {} /\ overrides' = {}
    BY <2>1, <2>2, <2>3, <2>4, SameGraph
  <2> QED BY <2>1, <2>4 DEF OnePass, IsGraph
<1>4. CASE TakePart
  <2>1. /\ phase = "split" /\ parts # <<>> /\ phase' = "decide" /\ parts' = Tail(parts)
        /\ todo' = Head(parts) /\ UNCHANGED <<graph, prune, overrides>>
        /\ Head(parts) = Edge => \A p \in Path : Connects(Edge, p)
        /\ NewGuard(Head(parts), {p \in Path : Connects(Head(parts), p)})
    BY <1>4 DEF TakePart
  <2>2. /\ scope' = Head(parts) /\ mask' = Head(parts)
        /\ enforced' = {p \in Path : Connects(Head(parts), p)}
    BY <2>1, NewGuardKnows
  <2>3. Len(graph.edges) <= MaxPart => parts = <<Edge>> /\ prune = {} /\ overrides = {}
    BY <2>1 DEF OnePass
  <2>4. ASSUME Len(graph.edges) <= MaxPart
        PROVE  /\ parts' = <<>> /\ scope' = Edge /\ enforced' = Path /\ todo' = Edge /\ prune' = {}
               /\ mask' = Edge /\ overrides' = {}
    <3> \A x : Head(<<x>>) = x /\ Tail(<<x>>) = <<>>
      OBVIOUS
    <3>1. Head(parts) = Edge /\ Tail(parts) = <<>>
      BY <2>3, <2>4
    <3> QED BY <2>1, <2>2, <2>3, <2>4, <3>1
  <2> QED BY <2>1, <2>4, SameGraph DEF OnePass, IsGraph
<1>5. CASE EndPart
  <2>1. /\ phase = "decide" /\ phase' = "split"
        /\ UNCHANGED <<graph, parts, scope, enforced, mask, prune, overrides>>
    BY <1>5 DEF EndPart, guard
  <2>2. ASSUME Len(graph.edges) <= MaxPart PROVE Safe
    <3>1. enforced = Path /\ scope = Edge /\ mask \subseteq Edge \ prune
      BY <2>1, <2>2 DEF OnePass
    <3>2. Observed \cap scope \subseteq mask /\ \A p \in enforced : Connects(mask, p)
      BY <2>1 DEF GuardInv, Guarded, Working
    <3>3. \A p \in Path : Connects(Edge \ prune, p)
      BY <3>1, <3>2, ConnectsMore
    <3> QED BY <3>1, <3>2, <3>3 DEF Safe, Observed
  <2>3. Safe' <=> Safe
    BY <2>1, SameGraph DEF Safe, Connects
  <2>4. Len(graph.edges) <= MaxPart => parts = <<>> /\ prune \subseteq Edge /\ overrides = {}
    BY <2>1 DEF OnePass
  <2> QED BY <2>1, <2>2, <2>3, <2>4, SameGraph DEF OnePass, IsGraph
<1>6. CASE StartFilter
  <2>1. /\ phase = "split" /\ parts = <<>> /\ phase' = "filter" /\ todo' = prune
        /\ NewGuard(Edge, Path) /\ UNCHANGED <<graph, prune, overrides>>
    BY <1>6 DEF StartFilter
  <2>2. mask' = Edge
    BY <2>1, NewGuardKnows
  <2>3. Len(graph.edges) <= MaxPart => Safe /\ prune \subseteq Edge /\ overrides = {}
    BY <2>1 DEF OnePass
  <2>4. Safe' <=> Safe
    BY <2>1, SameGraph DEF Safe, Connects
  <2> QED BY <2>1, <2>2, <2>3, <2>4, SameGraph DEF OnePass, IsGraph
<1>7. ASSUME NEW action \in {0, 1}, Decide(action) PROVE OnePass' /\ IsGraph(graph)'
  <2> DEFINE i == Lowest(todo)
  <2>1. /\ phase = "decide" /\ phase' = phase /\ todo # {} /\ todo' = todo \ {i}
        /\ UNCHANGED <<graph, parts, overrides>>
        /\ \/ mask' = mask /\ prune' = prune
           \/ mask' = mask \ {i} /\ prune' = prune \cup {i}
    BY <1>7 DEF Decide
  <2>2. UNCHANGED <<scope, enforced>>
    BY <1>7 DEF Decide, Ask, DontAsk
  <2>3. IsGraph(graph)
    BY <2>1
  <2>4. ASSUME Len(graph.edges) <= MaxPart PROVE i \in Edge
    <3>1. todo \subseteq Edge
      BY <2>1, <2>4 DEF OnePass
    <3> QED BY <2>1, <2>3, <3>1, LowestIn, EdgesFinite
  <2>5. i \in Edge \/ ~(Len(graph.edges) <= MaxPart)
    BY <2>4
  <2> HIDE DEF i
  <2> QED BY <2>1, <2>2, <2>3, <2>5, SameGraph DEF OnePass, IsGraph
<1>8. CASE Filter
  <2>1. phase = "filter" /\ UNCHANGED graph
    BY <1>8 DEF Filter
  <2> QED BY <1>8, <2>1, OnePassFilter DEF IsGraph
<1>9. CASE Write
  <2>1. phase = "filter" /\ phase' = "written" /\ UNCHANGED <<graph, overrides>>
    BY <1>9 DEF Write
  <2> QED BY <2>1 DEF OnePass, IsGraph
<1>10. CASE \/ StartTraining \/ NextEpisode \/ DqnFails \/ Annotate \/ BuildPrompt \/ Tell
            \/ EndRestore \/ Refuse \/ (\E p \in Path : Restore(p))
            \/ \E i \in Edge, action \in {0, 1} : TrainStep(i, action)
            \/ \E m \in SUBSET Edge, i \in Edge : Replay(m, i)
  <2>1. /\ phase # "idle" /\ UNCHANGED graph
        /\ phase' \in {"train", "restore", "pruned", "prompted", "told", "failed"}
    BY <1>10 DEF StartTraining, NextEpisode, DqnFails, Annotate, BuildPrompt, Tell,
       EndRestore, Refuse, Restore, TrainStep, Replay
  <2> QED BY <2>1 DEF OnePass, IsGraph
<1> QED BY <1>1, <1>2, <1>3, <1>4, <1>5, <1>6, <1>7, <1>8, <1>9, <1>10 DEF GuardNext, Prune, Train

-----------------------------------------------------------------------------
(* Lists in an order.                                                      *)

\* The members of S in the order R, which InOrder lists.
Below(S, R, x) == {y \in S : <<y, x>> \in R}

Orders(R, S) ==
    /\ \A x, y, z \in S : <<x, y>> \in R /\ <<y, z>> \in R => <<x, z>> \in R
    /\ \A x \in S : <<x, x>> \notin R
    /\ \A x, y \in S : x # y => <<x, y>> \in R \/ <<y, x>> \in R

\* In a list that has at each place a member with so many below it, each member
\* has a place of its own.
LEMMA PlacedOnce ==
    ASSUME NEW S, IsFiniteSet(S), NEW R, Orders(R, S), NEW list,
           \A n \in 1..Cardinality(S) : \A x \in S : Cardinality(Below(S, R, x)) = n - 1 =>
               list[n] \in S /\ Cardinality(Below(S, R, list[n])) = n - 1
    PROVE  /\ Cardinality(S) \in Nat
           /\ \A n \in 1..Cardinality(S) : list[n] \in S
           /\ \A x \in S : \E n \in 1..Cardinality(S) : list[n] = x
           /\ \A m, n \in 1..Cardinality(S) : list[m] = list[n] => m = n
<1> DEFINE N == Cardinality(S)
           place == [x \in S |-> Cardinality(Below(S, R, x)) + 1]
<1>1. N \in Nat /\ \A x \in S : IsFiniteSet(Below(S, R, x)) /\ Cardinality(Below(S, R, x)) \in Nat
  BY FS_CardinalityType, FS_Subset DEF Below
<1>2. ASSUME NEW x \in S PROVE Cardinality(Below(S, R, x)) < N
  <2>1. Below(S, R, x) \subseteq S \ {x}
    BY DEF Below, Orders
  <2>2. IsFiniteSet(S \ {x}) /\ Cardinality(S \ {x}) = N - 1
    BY FS_RemoveElement
  <2>3. Cardinality(Below(S, R, x)) <= N - 1
    BY <2>1, <2>2, FS_Subset
  <2> QED BY <1>1, <2>3
<1>3. ASSUME NEW x \in S, NEW y \in S, <<x, y>> \in R
      PROVE  Cardinality(Below(S, R, x)) < Cardinality(Below(S, R, y))
  <2>1. Below(S, R, x) \cup {x} \subseteq Below(S, R, y) /\ x \notin Below(S, R, x)
    BY <1>3 DEF Below, Orders
  <2>2. Cardinality(Below(S, R, x) \cup {x}) = Cardinality(Below(S, R, x)) + 1
    BY <1>1, <2>1, FS_AddElement
  <2>3. Cardinality(Below(S, R, x) \cup {x}) <= Cardinality(Below(S, R, y))
    BY <1>1, <2>1, FS_Subset
  <2> QED BY <1>1, <2>2, <2>3
<1>4. place \in Injection(S, 1..N)
  <2>1. \A x \in S : place[x] \in 1..N
    <3> SUFFICES ASSUME NEW x \in S PROVE Cardinality(Below(S, R, x)) + 1 \in 1..N
      OBVIOUS
    <3>1. Cardinality(Below(S, R, x)) \in Nat /\ Cardinality(Below(S, R, x)) < N
      BY <1>1, <1>2
    <3> HIDE DEF N
    <3> QED BY <1>1, <3>1
  <2>2. ASSUME NEW x \in S, NEW y \in S, x # y PROVE place[x] # place[y]
    <3>1. <<x, y>> \in R \/ <<y, x>> \in R
      BY <2>2 DEF Orders
    <3>2. Cardinality(Below(S, R, x)) # Cardinality(Below(S, R, y))
      BY <1>1, <1>3, <3>1
    <3> QED BY <1>1, <3>2
  <2> QED BY <2>1, <2>2 DEF Injection, IsInjective
<1>5. place \in Surjection(S, 1..N)
  <2>1. IsFiniteSet(1..N) /\ Cardinality(1..N) = N
    <3>1. 1 \in Int /\ N \in Int /\ N \in Nat
      BY <1>1
    <3>2. IsFiniteSet(1..N) /\ Cardinality(1..N) = IF 1 > N THEN 0 ELSE N - 1 + 1
      BY <3>1, FS_Interval
    <3> HIDE DEF N
    <3> QED BY <3>1, <3>2
  <2> QED BY <1>4, <2>1, FS_Injection
<1>6. \A n \in 1..N : \E x \in S : place[x] = n
  BY <1>5 DEF Surjection
<1>7. \A n \in 1..N : list[n] \in S /\ place[list[n]] = n
  <2> SUFFICES ASSUME NEW n \in 1..N
               PROVE  list[n] \in S /\ Cardinality(Below(S, R, list[n])) + 1 = n
    OBVIOUS
  <2>1. PICK x \in S : Cardinality(Below(S, R, x)) + 1 = n
    BY <1>6
  <2>2. Cardinality(Below(S, R, x)) = n - 1
    BY <1>1, <2>1
  <2>3. list[n] \in S /\ Cardinality(Below(S, R, list[n])) = n - 1
    BY <2>2
  <2> QED BY <1>1, <2>3
<1>8. \A x \in S : place[x] \in 1..N /\ list[place[x]] = x
  <2>1. \A x, y \in S : place[x] = place[y] => x = y
    BY <1>4 DEF Injection, IsInjective
  <2>2. \A x \in S : place[x] \in 1..N
    BY <1>4 DEF Injection
  <2> HIDE DEF place, N
  <2> QED BY <1>7, <2>1, <2>2
<1> HIDE DEF place
<1> QED BY <1>1, <1>7, <1>8

-----------------------------------------------------------------------------
(* Step 2, event by event.                                                 *)

\* The highest of some numbers, and the event before in a group.
LEMMA HighestIn ==
    ASSUME NEW n \in Nat, NEW S \in SUBSET (1..n)
    PROVE  /\ Step2!Highest(S) \in 0..n /\ \A m \in S : m <= Step2!Highest(S)
           /\ Step2!Highest(S) = 0 <=> S = {}
           /\ S # {} => Step2!Highest(S) \in S
<1>1. CASE S = {}
  BY <1>1 DEF Step2!Highest
<1>2. CASE S # {}
  <2> DEFINE down == {n - m : m \in S}
  <2>1. down \in SUBSET Nat /\ down # {} /\ \A k \in S : k \in Nat /\ n - k \in down
    <3>1. \A k \in S : k \in 1..n
      OBVIOUS
    <3>2. \A k \in S : k \in Nat /\ n - k \in Nat
      BY <3>1
    <3> QED BY <1>2, <3>2
  <2>2. Lowest(down) \in down /\ \A k \in down : Lowest(down) <= k
    <3> HIDE DEF down
    <3> QED BY <2>1, LowestIn
  <2>3. PICK m \in S : Lowest(down) = n - m
    BY <2>2
  <2>4. \A k \in S : k <= m
    <3> HIDE DEF down
    <3> QED BY <2>1, <2>2, <2>3
  <2>5. Step2!Highest(S) \in S /\ \A k \in S : k <= Step2!Highest(S)
    BY <1>2, <2>4 DEF Step2!Highest
  <2>6. \A k \in S : k \in 1..n
    OBVIOUS
  <2>7. Step2!Highest(S) \in 1..n
    BY <2>5, <2>6
  <2> QED BY <1>2, <2>5, <2>7
<1> QED BY <1>1, <1>2

LEMMA PreviousIs ==
    ASSUME NEW f, NEW i \in Nat \ {0}
    PROVE  /\ Step2!Previous(f, i) \in 0..i - 1
           /\ Step2!Previous(f, i) # 0 => f[Step2!Previous(f, i)] = f[i]
           /\ \A j \in 1..i - 1 : f[j] = f[i] => Step2!Previous(f, i) # 0 /\ j <= Step2!Previous(f, i)
<1> DEFINE S == {j \in 1..i - 1 : f[j] = f[i]}
<1>1. i - 1 \in Nat /\ S \in SUBSET (1..i - 1) /\ Step2!Previous(f, i) = Step2!Highest(S)
  BY DEF Step2!Previous
<1>2. /\ Step2!Highest(S) \in 0..i - 1 /\ \A m \in S : m <= Step2!Highest(S)
      /\ Step2!Highest(S) = 0 <=> S = {}
      /\ S # {} => Step2!Highest(S) \in S
  <2> HIDE DEF S
  <2> QED BY <1>1, HighestIn
<1> QED BY <1>1, <1>2

\* Events, in their order, with their attackers and paths.
InRows ==
    /\ events \in Seq(Alert) /\ time \in Seq(Nat) /\ attacker \in Seq(Nat) /\ path \in Seq(Nat)
    /\ Len(time) = Len(events) /\ Len(attacker) = Len(events) /\ Len(path) = Len(events)
    /\ Len(events) <= MaxEvents
    /\ \A i \in Step2!EventId : attacker[i] \in 1..i /\ path[i] \in 1..i
    /\ \A k \in DOMAIN anchorOf : anchorOf[k] \in 1..Len(events)

\* A path is of one attacker and has no gaps among its events.
Continued ==
    /\ \A i, j \in Step2!EventId : path[i] = path[j] => attacker[i] = attacker[j]
    /\ \A j \in Step2!EventId : \A i \in 1..j - 1 :
          path[i] = path[j] => \E h \in i..j - 1 : /\ path[h] = path[j]
                                                   /\ \A g \in h + 1..j - 1 : attacker[g] # attacker[j]

\* An edge leads to an event from the one before it in its attacker's timeline.
Joined(c) ==
    /\ c.from \in Step2!EventId /\ c.to \in Step2!EventId /\ c.from < c.to /\ c.path = path[c.to]
    /\ attacker[c.from] = attacker[c.to]
    /\ \A g \in c.from + 1..c.to - 1 : attacker[g] # attacker[c.to]
    /\ c.scope \in {"path", "attacker_timeline"}

Correlated ==
    /\ \A c \in corr : Joined(c)
    /\ \A c, d \in corr : c.to = d.to => c = d
    /\ step # "events" => \A j \in Step2!EventId : \A i \in 1..j - 1 :
                              path[i] = path[j] => \E c \in corr : c.to = j

\* Each path of the graph is required once, from where it starts, which no edge
\* of it leads to, to where it ends.
Bounded ==
    /\ required \subseteq [source : Step2!EventId, target : Step2!EventId, path : Nat]
    /\ \A r, q \in required : r.path = q.path => r = q
    /\ \A c \in corr : \E r \in required : r.path = c.path
    /\ \A r \in required :
          /\ \E c \in corr : c.path = r.path /\ c.to = r.target
          /\ \A c \in corr : c.path = r.path => r.source <= c.from /\ c.to <= r.target

BuildInv ==
    /\ InRows /\ Continued /\ Correlated
    /\ step \in {"events", "path edges", "timeline edges", "graph"}
    /\ step = "events" => corr = {}
    /\ step = "graph" => Bounded

LEMMA AttackerIs ==
    ASSUME InRows, NEW a, NEW count \in 0..Len(events)
    PROVE  Step2!AttackerOf(a, anchorOf, count) \in 1..Len(events) + 1
<1> DEFINE hits == {n \in 1..4 : Step2!Anchor(a, n) \in Step2!AnchorSet(a) \cap DOMAIN anchorOf}
           low == Step2!Lowest(hits)
<1>1. Len(events) \in Nat
  BY DEF InRows
<1>2. CASE hits = {}
  BY <1>1, <1>2 DEF Step2!AttackerOf
<1>3. CASE hits # {}
  <2>1. hits \in SUBSET Nat
    OBVIOUS
  <2>2. low \in hits
    <3> HIDE DEF hits
    <3> QED BY <1>3, <2>1, LowestIn DEF Step2!Lowest, Lowest
  <2>3. Step2!Anchor(a, low) \in DOMAIN anchorOf
    BY <2>2
  <2>4. Step2!AttackerOf(a, anchorOf, count) = anchorOf[Step2!Anchor(a, low)]
    BY <1>3 DEF Step2!AttackerOf
  <2> HIDE DEF low
  <2> QED BY <1>1, <2>3, <2>4 DEF InRows
<1> QED BY <1>2, <1>3

LEMMA CountIs ==
    ASSUME NEW f \in Seq(Nat), \A i \in 1..Len(f) : f[i] \in 1..i
    PROVE  Step2!Count(f) \in 0..Len(f) /\ \A i \in 1..Len(f) : f[i] <= Step2!Count(f)
<1> DEFINE S == {f[n] : n \in DOMAIN f}
<1>1. Len(f) \in Nat /\ S \in SUBSET (1..Len(f)) /\ Step2!Count(f) = Step2!Highest(S)
  BY DEF Step2!Count
<1>2. Step2!Highest(S) \in 0..Len(f) /\ \A m \in S : m <= Step2!Highest(S)
  <2> HIDE DEF S
  <2> QED BY <1>1, HighestIn
<1> QED BY <1>1, <1>2

LEMMA Appended ==
    ASSUME NEW T, NEW s \in Seq(T), NEW x \in T
    PROVE  /\ Append(s, x) \in Seq(T) /\ Len(Append(s, x)) = Len(s) + 1
           /\ Append(s, x)[Len(s) + 1] = x /\ \A j \in 1..Len(s) : Append(s, x)[j] = s[j]
OBVIOUS

LEMMA TakeEventKeeps ==
    ASSUME BuildInv, NEW a \in Alert, NEW gap \in Gap, Step2!TakeEvent(a, gap)
    PROVE  BuildInv'
<1> DEFINE N == Len(events)
           i == N + 1
           who == Step2!AttackerOf(a, anchorOf, Step2!Count(attacker))
           seen == IF i = 1 THEN 0 ELSE time[i - 1] + gap
           before == Step2!Previous(Append(attacker, who), i)
           continues == before # 0 /\ Step2!SameAttackPath(events[before], a, seen - time[before])
           which == IF continues THEN path[before] ELSE Step2!Count(path) + 1
<1>1. /\ step = "events" /\ i <= MaxEvents /\ events' = Append(events, a) /\ time' = Append(time, seen)
      /\ attacker' = Append(attacker, who) /\ path' = Append(path, which)
      /\ anchorOf' = [k \in DOMAIN anchorOf \cup Step2!AnchorSet(a) |->
                          IF k \in Step2!AnchorSet(a) THEN who ELSE anchorOf[k]]
      /\ UNCHANGED <<step, corr, required>>
  BY DEF Step2!TakeEvent
<1>2. /\ N \in Nat /\ gap \in Nat /\ Step2!EventId = 1..N
      /\ events \in Seq(Alert) /\ time \in Seq(Nat) /\ attacker \in Seq(Nat) /\ path \in Seq(Nat)
      /\ Len(time) = N /\ Len(attacker) = N /\ Len(path) = N
      /\ \A j \in 1..N : attacker[j] \in 1..j /\ path[j] \in 1..j
  <2>1. Gap \subseteq Nat
    BY PipelineAssumption DEF Step2!GraphConstants
  <2>2. Step2!EventId = 1..N
    BY DEF Step2!EventId
  <2>3. InRows /\ N = Len(events)
    BY DEF BuildInv
  <2> HIDE DEF N
  <2> QED BY <2>1, <2>2, <2>3 DEF InRows
<1>20. /\ \A j, k \in 1..N : path[j] = path[k] => attacker[j] = attacker[k]
       /\ \A j \in 1..N : \A k \in 1..j - 1 :
             path[k] = path[j] => \E h \in k..j - 1 : /\ path[h] = path[j]
                                                      /\ \A g \in h + 1..j - 1 : attacker[g] # attacker[j]
  <2>2. Step2!EventId = 1..N
    BY DEF Step2!EventId
  <2>3. Continued
    BY DEF BuildInv
  <2> HIDE DEF N
  <2> QED BY <2>2, <2>3 DEF Continued
<1>3. /\ Step2!Count(attacker) \in 0..N /\ Step2!Count(path) \in 0..N
      /\ \A j \in 1..N : path[j] <= Step2!Count(path)
  BY <1>2, CountIs
<1>4. who \in 1..i
  BY <1>3, AttackerIs DEF BuildInv
<1>5. seen \in Nat
  BY <1>2
<1> HIDE DEF who, seen
<1>6. /\ attacker' \in Seq(Nat) /\ Len(attacker') = i /\ attacker'[i] = who
      /\ \A j \in 1..N : attacker'[j] = attacker[j]
  BY <1>1, <1>2, <1>4
<1>7. /\ before \in 0..N /\ (before # 0 => attacker[before] = who)
      /\ \A j \in 1..N : attacker[j] = who => before # 0 /\ j <= before
  <2>1. i \in Nat \ {0} /\ before = Step2!Previous(attacker', i)
    BY <1>1, <1>2
  <2> HIDE DEF before
  <2>2. /\ before \in 0..i - 1 /\ (before # 0 => attacker'[before] = attacker'[i])
        /\ \A j \in 1..i - 1 : attacker'[j] = attacker'[i] => before # 0 /\ j <= before
    BY <2>1, PreviousIs
  <2> QED BY <1>2, <1>6, <2>2
<1> HIDE DEF before
<1>21. /\ continues => before # 0
       /\ which = IF continues THEN path[before] ELSE Step2!Count(path) + 1
  OBVIOUS
<1> HIDE DEF which, continues
<1>8. /\ which \in 1..i
      /\ \A j \in 1..N : path[j] = which => continues /\ path[before] = path[j] /\ j <= before
                                            /\ attacker[j] = who
  <2>1. CASE continues
    <3>1. before \in 1..N /\ which = path[before]
      BY <1>7, <1>21, <2>1
    <3>2. \A j \in 1..N : path[j] = which => attacker[j] = attacker[before]
      BY <1>20, <3>1
    <3> QED BY <1>2, <1>7, <2>1, <3>1, <3>2
  <2>2. CASE ~continues
    BY <1>2, <1>3, <1>21, <2>2
  <2> QED BY <2>1, <2>2
<1> HIDE DEF N
<1>9. /\ path' \in Seq(Nat) /\ Len(path') = i /\ path'[i] = which
      /\ \A j \in 1..N : path'[j] = path[j]
      /\ events' \in Seq(Alert) /\ Len(events') = i /\ time' \in Seq(Nat) /\ Len(time') = i
  <2>1. path' \in Seq(Nat) /\ Len(path') = i /\ path'[i] = which /\ \A j \in 1..N : path'[j] = path[j]
    <3>1. which \in Nat
      BY <1>2, <1>8
    <3> QED BY <1>1, <1>2, <3>1, Appended
  <2>2. events' \in Seq(Alert) /\ Len(events') = i
    <3>1. N = Len(events)
      BY DEF N
    <3> QED BY <1>1, <1>2, <3>1, Appended
  <2>3. time' \in Seq(Nat) /\ Len(time') = i
    BY <1>1, <1>2, <1>5, Appended
  <2> QED BY <2>1, <2>2, <2>3
<1>10. Step2!EventId' = 1..i /\ 1..i = 1..N \cup {i}
  BY <1>2, <1>9 DEF Step2!EventId
<1>11. InRows'
  <2>1. \A k \in DOMAIN anchorOf' : anchorOf'[k] \in 1..i
    BY <1>1, <1>2, <1>4 DEF BuildInv, InRows
  <2>2. \A j \in 1..i : attacker'[j] \in 1..j /\ path'[j] \in 1..j
    BY <1>2, <1>4, <1>6, <1>8, <1>9, <1>10
  <2> QED BY <1>1, <1>6, <1>9, <1>10, <2>1, <2>2 DEF InRows
<1>12. Continued'
  <2>1. \A j, k \in 1..i : path'[j] = path'[k] => attacker'[j] = attacker'[k]
    <3>1. \A j \in 1..N : path'[j] = which => attacker'[j] = attacker'[i]
      BY <1>6, <1>8, <1>9
    <3>2. \A j, k \in 1..N : path'[j] = path'[k] => attacker'[j] = attacker'[k]
      BY <1>6, <1>9, <1>20
    <3> QED BY <1>9, <1>10, <3>1, <3>2
  <2>2. ASSUME NEW j \in 1..i, NEW k \in 1..j - 1, path'[k] = path'[j]
        PROVE  \E h \in k..j - 1 : /\ path'[h] = path'[j]
                                   /\ \A g \in h + 1..j - 1 : attacker'[g] # attacker'[j]
    <3>1. CASE j = i
      <4>1. k \in 1..N /\ path[k] = which
        BY <1>2, <1>9, <2>2, <3>1
      <4>2. path[before] = which /\ k <= before /\ before \in 1..N
        BY <1>2, <1>7, <1>8, <4>1
      <4>3. \A g \in before + 1..N : attacker'[g] # who
        BY <1>2, <1>6, <1>7, <4>2
      <4> QED BY <1>2, <1>6, <1>9, <3>1, <4>1, <4>2, <4>3
    <3>2. CASE j # i
      <4>1. j \in 1..N /\ k \in 1..N /\ path[k] = path[j]
        BY <1>2, <1>9, <1>10, <2>2, <3>2
      <4>2. PICK h \in k..j - 1 : /\ path[h] = path[j]
                                  /\ \A g \in h + 1..j - 1 : attacker[g] # attacker[j]
        BY <1>2, <1>20, <4>1
      <4>3. h \in 1..N /\ \A g \in h + 1..j - 1 : g \in 1..N
        BY <1>2, <4>1, <4>2
      <4>4. path'[h] = path'[j] /\ \A g \in h + 1..j - 1 : attacker'[g] # attacker'[j]
        BY <1>6, <1>9, <4>1, <4>2, <4>3
      <4> QED BY <4>2, <4>4
    <3> QED BY <3>1, <3>2
  <2> QED BY <1>10, <2>1, <2>2 DEF Continued
<1>13. corr' = {} /\ step' = "events"
  BY <1>1 DEF BuildInv
<1>14. Correlated'
  BY <1>13 DEF Correlated
<1> QED BY <1>11, <1>12, <1>13, <1>14 DEF BuildInv

-----------------------------------------------------------------------------
(* Step 2, edge by edge, and its required paths.                           *)

LEMMA EventsAre ==
    ASSUME BuildInv
    PROVE  /\ Len(events) \in Nat /\ Step2!EventId = 1..Len(events)
           /\ \A i \in Step2!EventId : attacker[i] \in 1..i /\ path[i] \in 1..i
<1>1. InRows /\ events \in Seq(Alert)
  BY DEF BuildInv, InRows
<1> QED BY <1>1 DEF InRows, Step2!EventId

\* Within a path the event before is the one before in the attacker's timeline.
LEMMA PreviousInPath ==
    ASSUME BuildInv, NEW j \in Step2!EventId, Step2!Previous(path, j) # 0
    PROVE  LET h == Step2!Previous(path, j) IN
           /\ h \in 1..j - 1 /\ path[h] = path[j] /\ attacker[h] = attacker[j]
           /\ \A g \in h + 1..j - 1 : attacker[g] # attacker[j]
<1> DEFINE h == Step2!Previous(path, j)
<1>1. j \in Nat \ {0} /\ Step2!EventId = 1..Len(events) /\ Len(events) \in Nat
  BY EventsAre
<1>2. /\ h \in 1..j - 1 /\ path[h] = path[j]
      /\ \A i \in 1..j - 1 : path[i] = path[j] => i <= h
  BY <1>1, PreviousIs
<1> HIDE DEF h
<1>3. PICK i \in h..j - 1 : path[i] = path[j] /\ \A g \in i + 1..j - 1 : attacker[g] # attacker[j]
  BY <1>2 DEF BuildInv, Continued
<1>4. i = h
  BY <1>1, <1>2, <1>3
<1>5. attacker[h] = attacker[j]
  <2>1. h \in Step2!EventId
    BY <1>1, <1>2
  <2>2. Continued
    BY DEF BuildInv
  <2> QED BY <1>2, <2>1, <2>2 DEF Continued
<1> QED BY <1>2, <1>3, <1>4, <1>5 DEF h

LEMMA CorrelationIs ==
    ASSUME NEW i, NEW j, NEW relation, NEW scope2
    PROVE  LET c == Step2!CorrelationEdge(i, j, relation, scope2) IN
           c.from = i /\ c.to = j /\ c.path = path[j] /\ c.scope = scope2
BY DEF Step2!CorrelationEdge

LEMMA SameEvents ==
    ASSUME InRows, Continued, UNCHANGED <<events, time, attacker, anchorOf, path>>
    PROVE  InRows' /\ Continued'
<1>1. Step2!EventId' = Step2!EventId
  BY DEF Step2!EventId
<1>2. InRows'
  BY <1>1 DEF InRows
<1>3. Continued'
  BY <1>1 DEF Continued
<1> QED BY <1>2, <1>3

LEMMA BuildPathEdgesKeeps == ASSUME BuildInv, Step2!BuildPathEdges PROVE BuildInv'
<1> DEFINE first == {i \in Step2!EventId : Step2!Previous(path, i) # 0}
           edge(j) == Step2!CorrelationEdge(Step2!Previous(path, j), j,
                          Step2!PathRelation(events[Step2!Previous(path, j)], events[j]), "path")
<1>1. /\ corr' = {edge(j) : j \in first} /\ step' = "path edges"
      /\ UNCHANGED <<events, time, attacker, anchorOf, path, required>>
  BY DEF Step2!BuildPathEdges
<1>2. \A j : /\ edge(j).from = Step2!Previous(path, j) /\ edge(j).to = j /\ edge(j).path = path[j]
             /\ edge(j).scope = "path"
  BY CorrelationIs
<1> HIDE DEF edge
<1>3. Step2!EventId' = Step2!EventId
  BY <1>1 DEF Step2!EventId
<1>4. InRows' /\ Continued'
  BY <1>1, SameEvents DEF BuildInv
<1>5. ASSUME NEW j \in first PROVE Joined(edge(j))
  <2>1. /\ Step2!Previous(path, j) \in 1..j - 1 /\ attacker[Step2!Previous(path, j)] = attacker[j]
        /\ \A g \in Step2!Previous(path, j) + 1..j - 1 : attacker[g] # attacker[j]
    BY PreviousInPath
  <2>2. Step2!Previous(path, j) \in Step2!EventId /\ Step2!Previous(path, j) < j /\ j \in Step2!EventId
    BY <2>1, EventsAre
  <2> QED BY <1>2, <2>1, <2>2 DEF Joined
<1>6. \A c \in corr' : Joined(c)'
  BY <1>1, <1>3, <1>5 DEF Joined
<1>7. \A c, d \in corr' : c.to = d.to => c = d
  <2> SUFFICES ASSUME NEW c \in corr', NEW d \in corr', c.to = d.to PROVE c = d
    OBVIOUS
  <2>1. PICK j \in first, k \in first : c = edge(j) /\ d = edge(k)
    BY <1>1
  <2>2. j = k
    BY <1>2, <2>1
  <2> QED BY <2>1, <2>2
<1>8. ASSUME NEW j \in Step2!EventId, NEW i \in 1..j - 1, path[i] = path[j]
      PROVE  \E c \in corr' : c.to = j
  <2>1. Step2!Previous(path, j) # 0
    <3>1. j \in Nat \ {0}
      BY EventsAre
    <3> QED BY <1>8, <3>1, PreviousIs
  <2> QED BY <1>1, <1>2, <2>1
<1>9. Correlated'
  BY <1>1, <1>3, <1>6, <1>7, <1>8 DEF Correlated
<1> QED BY <1>1, <1>4, <1>9 DEF BuildInv

LEMMA BuildTimelineEdgesKeeps == ASSUME BuildInv, Step2!BuildTimelineEdges PROVE BuildInv'
<1> DEFINE before(j) == Step2!Previous(attacker, j)
           edge(j) == Step2!CorrelationEdge(before(j), j,
                          Step2!TimelineRelation(events[before(j)], events[j]), "attacker_timeline")
           more == {i \in Step2!EventId : /\ before(i) # 0 /\ time[i] - time[before(i)] <= 60
                                          /\ Step2!TimelineRelation(events[before(i)], events[i]) # "none"
                                          /\ <<before(i), i>> \notin Step2!Arcs(corr)}
<1>1. /\ corr' = corr \cup {edge(j) : j \in more} /\ step = "path edges" /\ step' = "timeline edges"
      /\ UNCHANGED <<events, time, attacker, anchorOf, path, required>>
  BY DEF Step2!BuildTimelineEdges
<1>2. \A j : /\ edge(j).from = before(j) /\ edge(j).to = j /\ edge(j).path = path[j]
             /\ edge(j).scope = "attacker_timeline"
  BY CorrelationIs
<1> HIDE DEF edge
<1>3. Step2!EventId' = Step2!EventId
  BY <1>1 DEF Step2!EventId
<1>4. InRows' /\ Continued'
  BY <1>1, SameEvents DEF BuildInv
<1>5. ASSUME NEW j \in more
      PROVE  /\ before(j) \in 1..j - 1 /\ attacker[before(j)] = attacker[j]
             /\ \A g \in before(j) + 1..j - 1 : attacker[g] # attacker[j]
  <2>1. j \in Nat \ {0}
    BY EventsAre
  <2>2. /\ before(j) \in 0..j - 1 /\ before(j) # 0 /\ attacker[before(j)] = attacker[j]
        /\ \A i \in 1..j - 1 : attacker[i] = attacker[j] => i <= before(j)
    BY <2>1, PreviousIs
  <2> HIDE DEF before
  <2> QED BY <2>1, <2>2
<1>6. ASSUME NEW j \in more PROVE Joined(edge(j))
  <2>1. before(j) \in Step2!EventId /\ before(j) < j /\ j \in Step2!EventId
    BY <1>5, EventsAre
  <2> QED BY <1>2, <1>5, <2>1 DEF Joined
<1>7. \A c \in corr' : Joined(c)'
  <2>1. \A c \in corr' : Joined(c)
    <3> HIDE DEF more
    <3> QED BY <1>1, <1>6 DEF BuildInv, Correlated
  <2> QED BY <1>1, <1>3, <2>1 DEF Joined
<1>8. \A c \in corr, j \in more : c.to # j
  <2> SUFFICES ASSUME NEW c \in corr, NEW j \in more, c.to = j PROVE FALSE
    OBVIOUS
  <2>1. /\ c.from \in Step2!EventId /\ c.from < j /\ attacker[c.from] = attacker[j]
        /\ \A g \in c.from + 1..j - 1 : attacker[g] # attacker[j]
    BY DEF BuildInv, Correlated, Joined
  <2>2. c.from \in Nat /\ before(j) \in Nat /\ j \in Nat
    BY <1>5, <2>1, EventsAre
  <2>3. c.from = before(j)
    <3>1. ~(c.from < before(j)) /\ ~(before(j) < c.from)
      <4> HIDE DEF before, more
      <4> QED BY <1>5, <2>1, <2>2
    <3> QED BY <2>2, <3>1
  <2>4. <<c.from, c.to>> \in Step2!Arcs(corr)
    BY DEF Step2!Arcs
  <2> QED BY <2>3, <2>4
<1>9. \A c, d \in corr' : c.to = d.to => c = d
  <2>1. \A c, d \in corr : c.to = d.to => c = d
    BY DEF BuildInv, Correlated
  <2> SUFFICES ASSUME NEW c \in corr', NEW d \in corr', c.to = d.to PROVE c = d
    OBVIOUS
  <2>2. CASE c \in corr \/ d \in corr
    <3>1. c \in corr /\ d \in corr
      <4> HIDE DEF more
      <4> QED BY <1>1, <1>2, <1>8, <2>2
    <3> QED BY <2>1, <3>1
  <2>3. CASE c \notin corr /\ d \notin corr
    <3>1. PICK j \in more, k \in more : c = edge(j) /\ d = edge(k)
      BY <1>1, <2>3
    <3>2. j = k
      BY <1>2, <3>1
    <3> QED BY <3>1, <3>2
  <2> QED BY <2>2, <2>3
<1>10. \A j \in Step2!EventId : \A i \in 1..j - 1 : path[i] = path[j] => \E c \in corr' : c.to = j
  BY <1>1 DEF BuildInv, Correlated
<1>11. Correlated'
  BY <1>1, <1>3, <1>7, <1>9, <1>10 DEF Correlated
<1> QED BY <1>1, <1>4, <1>11 DEF BuildInv

\* In a path, an edge to an event that has one before it comes from the path.
LEMMA WithinPath ==
    ASSUME BuildInv, NEW c \in corr, NEW i \in Step2!EventId, path[i] = c.path, i < c.to
    PROVE  c.from \in i..c.to - 1 /\ path[c.from] = c.path
<1>1. /\ c.from \in Nat /\ c.to \in Nat /\ i \in Nat /\ i \in 1..c.to - 1 /\ c.from < c.to
      /\ c.from \in Step2!EventId /\ c.to \in Step2!EventId /\ path[c.to] = c.path
      /\ attacker[c.from] = attacker[c.to]
      /\ \A g \in c.from + 1..c.to - 1 : attacker[g] # attacker[c.to]
  <2>1. Joined(c)
    BY DEF BuildInv, Correlated
  <2> QED BY <2>1, EventsAre DEF Joined
<1>2. PICK h \in i..c.to - 1 : path[h] = path[c.to] /\ \A g \in h + 1..c.to - 1 : attacker[g] # attacker[c.to]
  <2>1. Continued
    BY DEF BuildInv
  <2> QED BY <1>1, <2>1 DEF Continued
<1>3. h \in Step2!EventId /\ attacker[h] = attacker[c.to]
  <2>1. h \in Step2!EventId
    BY <1>1, <1>2, EventsAre
  <2> QED BY <1>1, <1>2, <2>1 DEF BuildInv, Continued
<1>4. ~(c.from < h) /\ ~(h < c.from)
  BY <1>1, <1>2, <1>3
<1> QED BY <1>1, <1>2, <1>4

\* A path with edges starts and ends once, and leads from its start to its end.
LEMMA GroupIsChain ==
    ASSUME BuildInv, step # "events", NEW p \in Step2!Paths(corr)
    PROVE  LET group == Step2!Group(corr, p) IN
           \E s, t \in Step2!EventId :
              /\ Step2!Starts(group) = {s} /\ Step2!Ends(group) = {t}
              /\ Step2!Reachable(Step2!EventId, Step2!Arcs(group), s, t)
              /\ \A c \in group : s <= c.from /\ c.to <= t
              /\ \E c \in group : c.to = t
<1> DEFINE group == Step2!Group(corr, p)
           froms == {c.from : c \in group}
           tos == {c.to : c \in group}
<1>1. /\ \A c \in group : c \in corr /\ c.path = p
      /\ \A c \in corr : c.path = p => c \in group
      /\ group # {}
  BY DEF Step2!Group, Step2!Paths
<1>2. /\ Len(events) \in Nat /\ Step2!EventId = 1..Len(events)
      /\ \A c \in group : /\ c.from \in 1..Len(events) /\ c.to \in 1..Len(events) /\ c.from < c.to
                            /\ path[c.to] = p /\ attacker[c.from] = attacker[c.to]
  BY <1>1, EventsAre DEF BuildInv, Correlated, Joined
<1> HIDE DEF group
<1>3. PICK s \in froms : \A c \in group : s <= c.from
  <2>1. froms \in SUBSET Nat /\ froms # {} /\ \A c \in group : c.from \in froms
    BY <1>1, <1>2
  <2> HIDE DEF froms
  <2> QED BY <2>1, LowestIn
<1>4. PICK t \in tos : \A c \in group : c.to <= t
  <2>1. tos \in SUBSET (1..Len(events)) /\ tos # {} /\ \A c \in group : c.to \in tos
    BY <1>1, <1>2
  <2> HIDE DEF tos
  <2>2. Step2!Highest(tos) \in tos /\ \A m \in tos : m <= Step2!Highest(tos)
    BY <1>2, <2>1, HighestIn
  <2> QED BY <2>1, <2>2
<1>5. PICK first \in group : first.from = s
  BY <1>3
<1>6. PICK last \in group : last.to = t
  BY <1>4
<1>7. \A c, d \in group : c.to < d.to => d.from \in c.to..d.to - 1 /\ path[d.from] = p
  BY <1>1, <1>2, WithinPath
<1>8. ASSUME NEW c \in group, c.from # s PROVE \E d \in group : d.to = c.from
  <2>1. s < c.from /\ first.from < first.to /\ first.to \in 1..Len(events) /\ s \in Nat /\ c.from \in 1..Len(events)
        /\ c.from < c.to /\ c.to \in 1..Len(events)
    BY <1>2, <1>3, <1>5, <1>8
  <2>2. attacker[c.from] = attacker[first.to]
    <3>1. path[c.to] = p /\ path[first.to] = p /\ attacker[c.from] = attacker[c.to]
      BY <1>2
    <3>2. Continued /\ c.to \in Step2!EventId /\ first.to \in Step2!EventId
      BY <1>2 DEF BuildInv
    <3> QED BY <3>1, <3>2 DEF Continued
  <2>3. first.to <= c.from
    <3>1. \A g \in s + 1..first.to - 1 : attacker[g] # attacker[first.to]
      BY <1>1, <1>5 DEF BuildInv, Correlated, Joined
    <3> QED BY <2>1, <2>2, <3>1
  <2>4. CASE first.to = c.from
    BY <2>4
  <2>5. CASE first.to < c.from
    <3>1. first.to < c.to
      BY <2>1, <2>5
    <3>2. path[c.from] = p
      BY <1>7, <3>1
    <3>3. c.from \in Step2!EventId /\ first.to \in 1..c.from - 1 /\ path[first.to] = path[c.from]
      BY <1>2, <2>1, <2>5, <3>2
    <3>4. PICK d \in corr : d.to = c.from
      BY <3>3 DEF BuildInv, Correlated
    <3>5. d.path = p
      BY <3>2, <3>4 DEF BuildInv, Correlated, Joined
    <3> QED BY <1>1, <3>4, <3>5
  <2> QED BY <2>1, <2>3, <2>4, <2>5
<1>9. \A c \in group : c.to # s
  BY <1>2, <1>3
<1>10. \A c \in group : c.from # t
  BY <1>2, <1>4
<1>11. ASSUME NEW c \in group, c.to # t PROVE \E d \in group : d.from = c.to
  <2> DEFINE later == {d.to : d \in {e \in group : c.to < e.to}}
  <2>1. c.to < t /\ c.to \in Nat
    BY <1>2, <1>4, <1>11
  <2>2. later \in SUBSET Nat /\ later # {} /\ \A e \in group : c.to < e.to => e.to \in later
    BY <1>2, <1>6, <2>1
  <2>3. PICK d \in group : c.to < d.to /\ \A e \in group : c.to < e.to => d.to <= e.to
    <3>1. Lowest(later) \in later /\ \A m \in later : Lowest(later) <= m
      <4> HIDE DEF later
      <4> QED BY <2>2, LowestIn
    <3>2. PICK d \in group : c.to < d.to /\ d.to = Lowest(later)
      BY <3>1
    <3> QED BY <2>2, <3>1, <3>2
  <2>4. d.from \in c.to..d.to - 1 /\ path[d.from] = p
    BY <1>7, <2>3
  <2>5. CASE d.from # c.to
    <3>1. d.from \in Step2!EventId /\ c.to \in 1..d.from - 1 /\ path[c.to] = path[d.from] /\ c.to < d.from
          /\ d.from < d.to /\ d.from \in Nat /\ d.to \in Nat
      BY <1>2, <2>4, <2>5
    <3>2. PICK e \in corr : e.to = d.from
      BY <3>1 DEF BuildInv, Correlated
    <3>3. e.path = p
      BY <2>4, <3>2 DEF BuildInv, Correlated, Joined
    <3>4. d.to <= e.to
      BY <1>1, <2>3, <3>1, <3>2, <3>3
    <3> QED BY <3>1, <3>2, <3>4
  <2> QED BY <2>5
<1>12. Step2!Starts(group) = {s}
  BY <1>5, <1>8, <1>9 DEF Step2!Starts
<1>13. Step2!Ends(group) = {t}
  BY <1>6, <1>10, <1>11 DEF Step2!Ends
<1>14. ASSUME NEW S \in SUBSET Step2!EventId, s \in S, Step2!Closed(S, Step2!Arcs(group)) PROVE t \in S
  <2> DEFINE missed == {c.to : c \in {d \in group : d.to \notin S}}
  <2>1. \A c \in group : c.from \in S => c.to \in S
    <3> SUFFICES ASSUME NEW c \in group, c.from \in S PROVE c.to \in S
      OBVIOUS
    <3>1. <<c.from, c.to>> \in Step2!Arcs(group)
      BY DEF Step2!Arcs
    <3>2. <<c.from, c.to>>[1] = c.from /\ <<c.from, c.to>>[2] = c.to
      OBVIOUS
    <3> QED BY <1>14, <3>1, <3>2 DEF Step2!Closed
  <2>2. missed = {}
    <3> SUFFICES ASSUME missed # {} PROVE FALSE
      OBVIOUS
    <3>1. missed \in SUBSET Nat /\ \A d \in group : d.to \notin S => d.to \in missed
      BY <1>2
    <3>2. Lowest(missed) \in missed /\ \A m \in missed : Lowest(missed) <= m
      <4> HIDE DEF missed
      <4> QED BY <3>1, LowestIn
    <3>3. PICK c \in group : c.to \notin S /\ c.to = Lowest(missed)
      BY <3>2
    <3>4. c.from # s
      BY <1>14, <2>1, <3>3
    <3>5. PICK d \in group : d.to = c.from
      BY <1>8, <3>4
    <3>6. d.to \notin S
      BY <2>1, <3>3, <3>5
    <3>7. c.to <= d.to
      BY <3>1, <3>2, <3>3, <3>6
    <3> QED BY <1>2, <3>5, <3>7
  <2> QED BY <1>6, <2>2
<1>15. s \in Step2!EventId /\ t \in Step2!EventId
  BY <1>2, <1>3, <1>4
<1>16. Step2!Reachable(Step2!EventId, Step2!Arcs(group), s, t)
  BY <1>14 DEF Step2!Reachable
<1> HIDE DEF froms, tos
<1> QED BY <1>3, <1>4, <1>6, <1>12, <1>13, <1>15, <1>16 DEF group

LEMMA DerivedAreBounds ==
    ASSUME BuildInv, step # "events", required' = Step2!DeriveRequiredPaths(corr), UNCHANGED <<events, corr>>
    PROVE  Bounded'
<1> DEFINE of(p) == LET group == Step2!Group(corr, p) IN
                    {[source |-> ends[1], target |-> ends[2], path |-> p] :
                        ends \in {r \in Step2!Starts(group) \X Step2!Ends(group) :
                                      Step2!Reachable(Step2!EventId, Step2!Arcs(group), r[1], r[2])}}
<1>1. required' = UNION {of(p) : p \in Step2!Paths(corr)}
  BY DEF Step2!DeriveRequiredPaths
<1>2. ASSUME NEW p \in Step2!Paths(corr)
      PROVE  \E s, t \in Step2!EventId :
                /\ of(p) = {[source |-> s, target |-> t, path |-> p]}
                /\ \A c \in corr : c.path = p => s <= c.from /\ c.to <= t
                /\ \E c \in corr : c.path = p /\ c.to = t
  <2> DEFINE group == Step2!Group(corr, p)
  <2>1. PICK s \in Step2!EventId, t \in Step2!EventId :
              /\ Step2!Starts(group) = {s} /\ Step2!Ends(group) = {t}
              /\ Step2!Reachable(Step2!EventId, Step2!Arcs(group), s, t)
              /\ \A c \in group : s <= c.from /\ c.to <= t
              /\ \E c \in group : c.to = t
    BY GroupIsChain
  <2>2. \A c : c \in group <=> c \in corr /\ c.path = p
    BY DEF Step2!Group
  <2>3. {r \in Step2!Starts(group) \X Step2!Ends(group) :
            Step2!Reachable(Step2!EventId, Step2!Arcs(group), r[1], r[2])} = {<<s, t>>}
    <3> HIDE DEF group
    <3>1. Step2!Starts(group) \X Step2!Ends(group) = {<<s, t>>}
      BY <2>1
    <3>2. <<s, t>>[1] = s /\ <<s, t>>[2] = t
      OBVIOUS
    <3> QED BY <2>1, <3>1, <3>2
  <2>4. of(p) = {[source |-> s, target |-> t, path |-> p]}
    <3>1. of(p) = {[source |-> ends[1], target |-> ends[2], path |-> p] :
                      ends \in {r \in Step2!Starts(group) \X Step2!Ends(group) :
                                    Step2!Reachable(Step2!EventId, Step2!Arcs(group), r[1], r[2])}}
      OBVIOUS
    <3>2. of(p) = {[source |-> ends[1], target |-> ends[2], path |-> p] : ends \in {<<s, t>>}}
      BY <2>3, <3>1
    <3> HIDE DEF of
    <3> QED BY <3>2
  <2> HIDE DEF of, group
  <2> QED BY <2>1, <2>2, <2>4
<1> HIDE DEF of
<1>3. ASSUME NEW c \in corr PROVE c.path \in Step2!Paths(corr) /\ c.path \in Nat
  <2>1. Joined(c)
    BY DEF BuildInv, Correlated
  <2>2. c.path = path[c.to] /\ c.to \in Step2!EventId
    BY <2>1 DEF Joined
  <2> QED BY <2>2, EventsAre DEF Step2!Paths
<1>4. \A p \in Step2!Paths(corr) : p \in Nat
  BY <1>3 DEF Step2!Paths
<1>5. \A r \in required' : \E p \in Step2!Paths(corr) : r \in of(p)
  BY <1>1
<1>6. \A p \in Step2!Paths(corr) : of(p) \subseteq required'
  BY <1>1
<1>7. \A r \in required' :
         /\ r \in [source : Step2!EventId, target : Step2!EventId, path : Nat]
         /\ r.path \in Step2!Paths(corr) /\ of(r.path) = {r}
         /\ \E c \in corr : c.path = r.path /\ c.to = r.target
         /\ \A c \in corr : c.path = r.path => r.source <= c.from /\ c.to <= r.target
  BY <1>2, <1>4, <1>5
<1>8. \A r, q \in required' : r.path = q.path => r = q
  <2> SUFFICES ASSUME NEW r \in required', NEW q \in required', r.path = q.path PROVE r = q
    OBVIOUS
  <2> QED BY <1>7
<1>9. \A c \in corr : \E r \in required' : r.path = c.path
  <2> SUFFICES ASSUME NEW c \in corr PROVE \E r \in required' : r.path = c.path
    OBVIOUS
  <2>1. PICK r : of(c.path) = {r} /\ r.path = c.path
    BY <1>2, <1>3
  <2> QED BY <1>3, <1>6, <2>1
<1>10. Step2!EventId' = Step2!EventId
  BY DEF Step2!EventId
<1> QED BY <1>7, <1>8, <1>9, <1>10 DEF Bounded

LEMMA BuildStill ==
    ASSUME BuildInv, UNCHANGED <<events, time, attacker, anchorOf, path, corr>>,
           \/ UNCHANGED <<step, required>>
           \/ step = "timeline edges" /\ step' = "graph" /\ required' = Step2!DeriveRequiredPaths(corr)
    PROVE  BuildInv'
<1>1. Step2!EventId' = Step2!EventId
  BY DEF Step2!EventId
<1>2. InRows' /\ Continued' /\ Correlated'
  <2>1. InRows' /\ Continued'
    BY SameEvents DEF BuildInv
  <2>2. \A c : Joined(c)' <=> Joined(c)
    BY <1>1 DEF Joined
  <2> QED BY <1>1, <2>1, <2>2 DEF BuildInv, Correlated
<1>3. step' = "graph" => Bounded'
  <2>1. CASE UNCHANGED <<step, required>>
    BY <1>1, <2>1 DEF BuildInv, Bounded
  <2>2. CASE required' = Step2!DeriveRequiredPaths(corr) /\ step = "timeline edges"
    BY <2>2, DerivedAreBounds
  <2> QED BY <2>1, <2>2
<1> QED BY <1>2, <1>3 DEF BuildInv

LEMMA BuildInvStep == ASSUME BuildInv, Step2!Next \/ UNCHANGED graphVars PROVE BuildInv'
<1>1. CASE Step2!ToDict
  BY <1>1, BuildStill DEF Step2!ToDict
<1>2. CASE UNCHANGED graphVars
  BY <1>2, BuildStill DEF graphVars
<1> QED BY <1>1, <1>2, TakeEventKeeps, BuildPathEdgesKeeps, BuildTimelineEdgesKeeps DEF Step2!Next

LEMMA BuildInvInit == Step2!Init => BuildInv
<1> SUFFICES ASSUME Step2!Init PROVE BuildInv
  OBVIOUS
<1>1. /\ step = "events" /\ events = <<>> /\ time = <<>> /\ attacker = <<>> /\ path = <<>>
      /\ anchorOf = <<>> /\ corr = {} /\ Len(events) = 0 /\ DOMAIN anchorOf = {}
  BY DEF Step2!Init
<1>2. Step2!EventId = {} /\ MaxEvents \in Nat
  BY <1>1, PipelineAssumption DEF Step2!EventId, Step2!GraphConstants
<1>3. InRows
  BY <1>1, <1>2 DEF InRows
<1> QED BY <1>1, <1>2, <1>3 DEF BuildInv, Continued, Correlated

-----------------------------------------------------------------------------
(* The entries of the list that step 3 reads are ordered.                  *)

\* The ranks of edges are ordered.
IsRank(a) == \E t \in Nat, k \in Nat, g \in Nat, i \in Nat : a = <<t, k, g, i>>

LEMMA BeforeIs ==
    ASSUME NEW a, NEW b, IsRank(a), IsRank(b)
    PROVE  Before(a, b) <=> \/ a[1] < b[1]
                            \/ a[1] = b[1] /\ a[2] < b[2]
                            \/ a[1] = b[1] /\ a[2] = b[2] /\ a[3] < b[3]
                            \/ a[1] = b[1] /\ a[2] = b[2] /\ a[3] = b[3] /\ a[4] < b[4]
<1>1. 1..4 = {1, 2, 3, 4} /\ 1..1 - 1 = {} /\ 1..2 - 1 = {1} /\ 1..3 - 1 = {1, 2} /\ 1..4 - 1 = {1, 2, 3}
  OBVIOUS
<1>2. Before(a, b) <=> \/ a[1] < b[1] /\ \A m \in 1..1 - 1 : a[m] = b[m]
                       \/ a[2] < b[2] /\ \A m \in 1..2 - 1 : a[m] = b[m]
                       \/ a[3] < b[3] /\ \A m \in 1..3 - 1 : a[m] = b[m]
                       \/ a[4] < b[4] /\ \A m \in 1..4 - 1 : a[m] = b[m]
  BY <1>1 DEF Before
<1> QED BY <1>1, <1>2

LEMMA BeforeOrders ==
    ASSUME NEW a, NEW b, IsRank(a), IsRank(b)
    PROVE  /\ ~Before(a, a)
           /\ a[4] # b[4] \/ a[2] # b[2] => Before(a, b) \/ Before(b, a)
           /\ \A c : IsRank(c) /\ Before(a, b) /\ Before(b, c) => Before(a, c)
<1> USE DEF IsRank
<1>1. /\ a[1] \in Nat /\ a[2] \in Nat /\ a[3] \in Nat /\ a[4] \in Nat
      /\ b[1] \in Nat /\ b[2] \in Nat /\ b[3] \in Nat /\ b[4] \in Nat
  OBVIOUS
<1>2. ~Before(a, a)
  BY <1>1, BeforeIs
<1>3. a[4] # b[4] \/ a[2] # b[2] => Before(a, b) \/ Before(b, a)
  BY <1>1, BeforeIs
<1>4. ASSUME NEW c, IsRank(c), Before(a, b), Before(b, c) PROVE Before(a, c)
  <2>1. c[1] \in Nat /\ c[2] \in Nat /\ c[3] \in Nat /\ c[4] \in Nat
    BY <1>4
  <2>2. /\ Before(a, b) <=> \/ a[1] < b[1]
                            \/ a[1] = b[1] /\ a[2] < b[2]
                            \/ a[1] = b[1] /\ a[2] = b[2] /\ a[3] < b[3]
                            \/ a[1] = b[1] /\ a[2] = b[2] /\ a[3] = b[3] /\ a[4] < b[4]
        /\ Before(b, c) <=> \/ b[1] < c[1]
                            \/ b[1] = c[1] /\ b[2] < c[2]
                            \/ b[1] = c[1] /\ b[2] = c[2] /\ b[3] < c[3]
                            \/ b[1] = c[1] /\ b[2] = c[2] /\ b[3] = c[3] /\ b[4] < c[4]
        /\ Before(a, c) <=> \/ a[1] < c[1]
                            \/ a[1] = c[1] /\ a[2] < c[2]
                            \/ a[1] = c[1] /\ a[2] = c[2] /\ a[3] < c[3]
                            \/ a[1] = c[1] /\ a[2] = c[2] /\ a[3] = c[3] /\ a[4] < c[4]
    BY <1>4, BeforeIs
  <2> QED BY <1>1, <1>4, <2>1, <2>2
<1> QED BY <1>2, <1>3, <1>4

LEMMA FiniteImage ==
    ASSUME NEW S, NEW T, NEW f, IsFiniteSet(S), T = {f[x] : x \in S}
    PROVE  IsFiniteSet(T)
<1> DEFINE g == [x \in S |-> f[x]]
<1>1. g \in Surjection(S, T)
  BY DEF Surjection
<1> HIDE DEF g
<1> QED BY <1>1, FS_Surjection

\* The entries of the list of edges.
EventRow(i) == [rank |-> Place(i), edge |-> EventEdge(i)]
CorrRow(c, loaded) == [rank |-> Rank(c), edge |-> CorrEdge(c, loaded)]
Rows(loaded) == {EventRow(i) : i \in Step2!EventId} \cup {CorrRow(c, loaded) : c \in corr}
RowOrder(S) == {r \in S \X S : Before(r[1].rank, r[2].rank)}

LEMMA RowIs ==
    ASSUME BuildInv, NEW loaded
    PROVE  /\ \A i \in Step2!EventId :
                 LET x == EventRow(i) IN
                 x.edge = EventEdge(i) /\ IsRank(x.rank) /\ x.rank[2] = 0 /\ x.rank[4] = i
           /\ \A c \in corr :
                 LET x == CorrRow(c, loaded) IN
                 /\ x.edge = CorrEdge(c, loaded) /\ IsRank(x.rank) /\ x.rank[2] \in {1, 2}
                 /\ x.rank[4] = c.to /\ c.to # 0
<1>1. /\ Len(events) \in Nat /\ Step2!EventId = 1..Len(events)
      /\ \A i \in Step2!EventId : time[i] \in Nat /\ attacker[i] \in Nat /\ path[i] \in Nat
  <2>1. InRows
    BY DEF BuildInv
  <2>2. time \in Seq(Nat) /\ attacker \in Seq(Nat) /\ path \in Seq(Nat)
        /\ Len(time) = Len(events) /\ Len(attacker) = Len(events) /\ Len(path) = Len(events)
    BY <2>1 DEF InRows
  <2> QED BY <2>2, EventsAre
<1>2. ASSUME NEW i \in Step2!EventId
      PROVE  LET x == EventRow(i) IN
             x.edge = EventEdge(i) /\ IsRank(x.rank) /\ x.rank[2] = 0 /\ x.rank[4] = i
  <2>1. Place(i) = <<time[i], 0, 0, i>> /\ time[i] \in Nat /\ i \in Nat /\ 0 \in Nat
    BY <1>1 DEF Place
  <2>2. IsRank(Place(i)) /\ Place(i)[2] = 0 /\ Place(i)[4] = i
    BY <2>1 DEF IsRank
  <2> QED BY <2>2 DEF EventRow
<1>3. ASSUME NEW c \in corr
      PROVE  LET x == CorrRow(c, loaded) IN
             /\ x.edge = CorrEdge(c, loaded) /\ IsRank(x.rank) /\ x.rank[2] \in {1, 2}
             /\ x.rank[4] = c.to /\ c.to # 0
  <2>1. Joined(c)
    BY DEF BuildInv, Correlated
  <2>2. c.to \in Step2!EventId /\ c.path = path[c.to]
    BY <2>1 DEF Joined
  <2> DEFINE kind == IF c.scope = "path" THEN 1 ELSE 2
             group == IF c.scope = "path" THEN c.path ELSE attacker[c.to]
  <2>3. Rank(c) = <<time[c.to], kind, group, c.to>> /\ time[c.to] \in Nat /\ c.to \in Nat /\ c.to # 0
        /\ kind \in Nat /\ kind \in {1, 2} /\ group \in Nat
    BY <1>1, <2>2 DEF Rank
  <2> HIDE DEF kind, group
  <2>4. IsRank(Rank(c)) /\ Rank(c)[2] \in {1, 2} /\ Rank(c)[4] = c.to
    <3>1. \A t, g, i \in Nat, k \in {1, 2} :
             LET a == <<t, k, g, i>> IN k \in Nat /\ a[2] = k /\ a[4] = i
      OBVIOUS
    <3>2. IsRank(Rank(c))
      BY <2>3, Zenon DEF IsRank
    <3> QED BY <2>3, <3>1, <3>2
  <2> QED BY <2>3, <2>4 DEF CorrRow
<1> QED BY <1>2, <1>3

LEMMA RowsOrdered ==
    ASSUME BuildInv, NEW loaded
    PROVE  IsFiniteSet(Rows(loaded)) /\ Orders(RowOrder(Rows(loaded)), Rows(loaded))
<1>1. \A x \in Rows(loaded) : IsRank(x.rank)
  BY RowIs DEF Rows
<1>2. ASSUME NEW x \in Rows(loaded), NEW y \in Rows(loaded), x.rank[2] = y.rank[2], x.rank[4] = y.rank[4]
      PROVE  x = y
  <2>1. CASE \E i \in Step2!EventId : x = EventRow(i)
    <3>1. PICK i \in Step2!EventId : x = EventRow(i)
      BY <2>1
    <3>2. x.rank[2] = 0 /\ x.rank[4] = i
      BY <3>1, RowIs
    <3>3. PICK j \in Step2!EventId : y = EventRow(j)
      <4>1. \A c \in corr : CorrRow(c, loaded).rank[2] # 0
        BY RowIs
      <4> QED BY <1>2, <3>2, <4>1 DEF Rows
    <3>4. y.rank[4] = j
      BY <3>3, RowIs
    <3> QED BY <1>2, <3>1, <3>2, <3>3, <3>4
  <2>2. CASE \E c \in corr : x = CorrRow(c, loaded)
    <3>1. PICK c \in corr : x = CorrRow(c, loaded)
      BY <2>2
    <3>2. x.rank[2] \in {1, 2} /\ x.rank[4] = c.to
      BY <3>1, RowIs
    <3>3. PICK d \in corr : y = CorrRow(d, loaded)
      BY <1>2, <3>2, RowIs DEF Rows
    <3>4. y.rank[4] = d.to
      BY <3>3, RowIs
    <3>5. c = d
      BY <1>2, <3>2, <3>4 DEF BuildInv, Correlated
    <3> QED BY <3>1, <3>3, <3>5
  <2> QED BY <2>1, <2>2 DEF Rows
<1>3. \A x, y \in Rows(loaded) : <<x, y>> \in RowOrder(Rows(loaded)) <=> Before(x.rank, y.rank)
  BY DEF RowOrder
<1>4. Orders(RowOrder(Rows(loaded)), Rows(loaded))
  <2>1. ASSUME NEW x \in Rows(loaded), NEW y \in Rows(loaded), NEW z \in Rows(loaded),
               Before(x.rank, y.rank), Before(y.rank, z.rank)
        PROVE  Before(x.rank, z.rank)
    BY <1>1, <2>1, BeforeOrders
  <2>2. \A x \in Rows(loaded) : ~Before(x.rank, x.rank)
    BY <1>1, BeforeOrders
  <2>3. \A x, y \in Rows(loaded) : x # y => Before(x.rank, y.rank) \/ Before(y.rank, x.rank)
    BY <1>1, <1>2, BeforeOrders
  <2> QED BY <1>3, <2>1, <2>2, <2>3 DEF Orders
<1>5. IsFiniteSet(Step2!EventId)
  BY EventsAre, FS_Interval
<1>6. IsFiniteSet(corr)
  <2> DEFINE to == [c \in corr |-> c.to]
  <2>1. to \in Injection(corr, Step2!EventId)
    BY DEF Injection, IsInjective, BuildInv, Correlated, Joined
  <2> HIDE DEF to
  <2> QED BY <1>5, <2>1, FS_Injection
<1>7. IsFiniteSet({EventRow(i) : i \in Step2!EventId}) /\ IsFiniteSet({CorrRow(c, loaded) : c \in corr})
  <2> DEFINE f == [i \in Step2!EventId |-> EventRow(i)]
             g == [c \in corr |-> CorrRow(c, loaded)]
             S == {EventRow(i) : i \in Step2!EventId}
             T == {CorrRow(c, loaded) : c \in corr}
  <2>1. S = {f[i] : i \in Step2!EventId} /\ T = {g[c] : c \in corr}
    OBVIOUS
  <2>2. IsFiniteSet(S) /\ IsFiniteSet(T)
    <3> HIDE DEF f, g, S, T
    <3> QED BY <1>5, <1>6, <2>1, FiniteImage
  <2> QED BY <2>2
<1>8. IsFiniteSet(Rows(loaded))
  BY <1>7, FS_Union DEF Rows
<1> QED BY <1>4, <1>8

-----------------------------------------------------------------------------
(* What step 3 reads.                                                      *)

\* The places of the list of edges: an edge between events has one of its own.
LEMMA EdgesListed ==
    ASSUME BuildInv, NEW loaded \in BOOLEAN
    PROVE  \E number \in Nat : \E leadsTo :
              /\ EdgeList(loaded) = [n \in 1..number |-> EdgeList(loaded)[n]]
              /\ \A n \in 1..number :
                    \/ leadsTo[n] = 0 /\ \E i \in Step2!EventId : EdgeList(loaded)[n] = EventEdge(i)
                    \/ \E c \in corr : leadsTo[n] = c.to /\ c.to # 0 /\ EdgeList(loaded)[n] = CorrEdge(c, loaded)
              /\ \A m, n \in 1..number : leadsTo[m] = leadsTo[n] /\ leadsTo[m] # 0 => m = n
<1> DEFINE S == Rows(loaded)
           R == RowOrder(S)
           number == Cardinality(S)
           sorted == [n \in 1..number |-> CHOOSE x \in S : Cardinality({y \in S : Before(y.rank, x.rank)}) = n - 1]
           leadsTo == [n \in 1..number |-> IF sorted[n].rank[2] = 0 THEN 0 ELSE sorted[n].rank[4]]
<1>1. IsFiniteSet(S) /\ Orders(R, S)
  BY RowsOrdered
<1>2. /\ number \in Nat /\ \A n \in 1..number : sorted[n] \in S
      /\ \A m, n \in 1..number : sorted[m] = sorted[n] => m = n
  <2>1. \A x \in S : {y \in S : Before(y.rank, x.rank)} = Below(S, R, x)
    BY DEF Below, RowOrder
  <2>2. ASSUME NEW n \in 1..number, NEW x \in S, Cardinality(Below(S, R, x)) = n - 1
        PROVE  sorted[n] \in S /\ Cardinality(Below(S, R, sorted[n])) = n - 1
    <3>1. Cardinality({y \in S : Before(y.rank, x.rank)}) = n - 1
      BY <2>1, <2>2
    <3>2. sorted[n] \in S /\ Cardinality({y \in S : Before(y.rank, sorted[n].rank)}) = n - 1
      <4> HIDE DEF S, number
      <4> QED BY <3>1
    <3> HIDE DEF sorted, S, R
    <3> QED BY <2>1, <3>2
  <2> HIDE DEF S, R, sorted
  <2> QED BY <1>1, <2>2, PlacedOnce
<1>3. EdgeList(loaded) = [n \in 1..number |-> sorted[n].edge]
  <2>1. EdgeList(loaded) = [n \in 1..Len(sorted) |-> sorted[n].edge]
    BY DEF EdgeList, InOrder, Rows, EventRow, CorrRow
  <2>2. Len(sorted) = number
    <3> HIDE DEF S, number
    <3> QED BY <1>2
  <2> HIDE DEF sorted
  <2> QED BY <2>1, <2>2
<1>4. \A n \in 1..number : sorted[n] \in S
  BY <1>2
<1> HIDE DEF sorted
<1>5. ASSUME NEW n \in 1..number
      PROVE  \/ /\ sorted[n].rank[2] = 0
                /\ \E i \in Step2!EventId : sorted[n].edge = EventEdge(i)
             \/ /\ sorted[n].rank[2] # 0
                /\ \E c \in corr : sorted[n] = CorrRow(c, loaded) /\ sorted[n].rank[4] = c.to /\ c.to # 0 /\ sorted[n].edge = CorrEdge(c, loaded)
  <2>1. CASE \E i \in Step2!EventId : sorted[n] = EventRow(i)
    BY <2>1, RowIs
  <2>2. CASE \E c \in corr : sorted[n] = CorrRow(c, loaded)
    <3>1. PICK c \in corr : sorted[n] = CorrRow(c, loaded)
      BY <2>2
    <3>2. sorted[n].rank[2] \in {1, 2} /\ sorted[n].rank[4] = c.to /\ c.to # 0 /\ sorted[n].edge = CorrEdge(c, loaded)
      BY <3>1, RowIs
    <3> QED BY <3>1, <3>2
  <2> QED BY <1>4, <2>1, <2>2 DEF Rows
<1>6. ASSUME NEW m \in 1..number, NEW n \in 1..number, leadsTo[m] = leadsTo[n], leadsTo[m] # 0 PROVE m = n
  <2>1. sorted[m].rank[2] # 0 /\ sorted[n].rank[2] # 0 /\ sorted[m].rank[4] = sorted[n].rank[4]
    BY <1>6
  <2>2. PICK c \in corr : sorted[m] = CorrRow(c, loaded) /\ sorted[m].rank[4] = c.to
    BY <1>5, <2>1
  <2>3. PICK d \in corr : sorted[n] = CorrRow(d, loaded) /\ sorted[n].rank[4] = d.to
    BY <1>5, <2>1
  <2>4. c = d
    BY <2>1, <2>2, <2>3 DEF BuildInv, Correlated
  <2> QED BY <1>2, <2>2, <2>3, <2>4
<1> HIDE DEF S, R, number
<1>7. \A n \in 1..number : EdgeList(loaded)[n] = sorted[n].edge
  BY <1>3
<1>8. \A n \in 1..number :
         \/ leadsTo[n] = 0 /\ \E i \in Step2!EventId : EdgeList(loaded)[n] = EventEdge(i)
         \/ \E c \in corr : leadsTo[n] = c.to /\ c.to # 0 /\ EdgeList(loaded)[n] = CorrEdge(c, loaded)
  BY <1>5, <1>7
<1>9. EdgeList(loaded) = [n \in 1..number |-> EdgeList(loaded)[n]]
  BY <1>3, <1>7
<1> HIDE DEF leadsTo
<1> QED BY <1>2, <1>6, <1>8, <1>9

\* The list of required paths.
LEMMA PathsListed ==
    ASSUME BuildInv, step = "graph"
    PROVE  \E number \in Nat :
              /\ PathList = [p \in 1..number |-> PathList[p]]
              /\ \A p \in 1..number : \E r \in required :
                    PathList[p] = [source |-> EventNode(r.source), target |-> EventNode(r.target)]
              /\ \A r \in required : \E p \in 1..number :
                    PathList[p] = [source |-> EventNode(r.source), target |-> EventNode(r.target)]
<1> DEFINE R == {e \in required \X required : e[1].path < e[2].path}
           number == Cardinality(required)
           sorted == [n \in 1..number |-> CHOOSE x \in required : Cardinality({y \in required : y.path < x.path}) = n - 1]
<1>1. Bounded
  BY DEF BuildInv
<1>2. Orders(R, required)
  <2>1. \A x \in required : x.path \in Nat
    BY <1>1 DEF Bounded
  <2>2. \A x, y \in required : x.path = y.path => x = y
    BY <1>1 DEF Bounded
  <2>3. \A x, y \in required : <<x, y>> \in R <=> x.path < y.path
    OBVIOUS
  <2> HIDE DEF R
  <2> QED BY <2>1, <2>2, <2>3 DEF Orders
<1>3. IsFiniteSet(required)
  <2> DEFINE to == [r \in required |-> r.target]
  <2>1. to \in [required -> Step2!EventId]
    BY <1>1 DEF Bounded
  <2>2. ASSUME NEW r \in required, NEW q \in required, r.target = q.target PROVE r = q
    <3>1. PICK c \in corr : c.path = r.path /\ c.to = r.target
      BY <1>1 DEF Bounded
    <3>2. PICK d \in corr : d.path = q.path /\ d.to = q.target
      BY <1>1 DEF Bounded
    <3>3. c = d
      BY <2>2, <3>1, <3>2 DEF BuildInv, Correlated
    <3> QED BY <1>1, <3>1, <3>2, <3>3 DEF Bounded
  <2>3. to \in Injection(required, Step2!EventId)
    BY <2>1, <2>2 DEF Injection, IsInjective
  <2>4. IsFiniteSet(Step2!EventId)
    BY EventsAre, FS_Interval
  <2> HIDE DEF to
  <2> QED BY <2>3, <2>4, FS_Injection
<1>4. /\ number \in Nat /\ \A p \in 1..number : sorted[p] \in required
      /\ \A r \in required : \E p \in 1..number : sorted[p] = r
  <2>1. \A x \in required : {y \in required : y.path < x.path} = Below(required, R, x)
    BY DEF Below
  <2>2. ASSUME NEW n \in 1..number, NEW x \in required, Cardinality(Below(required, R, x)) = n - 1
        PROVE  sorted[n] \in required /\ Cardinality(Below(required, R, sorted[n])) = n - 1
    <3>1. Cardinality({y \in required : y.path < x.path}) = n - 1
      BY <2>1, <2>2
    <3>2. sorted[n] \in required /\ Cardinality({y \in required : y.path < sorted[n].path}) = n - 1
      <4> HIDE DEF number
      <4> QED BY <3>1
    <3> HIDE DEF sorted, R
    <3> QED BY <2>1, <3>2
  <2> HIDE DEF R, sorted
  <2> QED BY <1>2, <1>3, <2>2, PlacedOnce
<1>5. PathList = [p \in 1..number |-> [source |-> EventNode(sorted[p].source), target |-> EventNode(sorted[p].target)]]
  <2>1. PathList = [n \in 1..Len(sorted) |-> [source |-> EventNode(sorted[n].source), target |-> EventNode(sorted[n].target)]]
    BY DEF PathList, InOrder
  <2>2. Len(sorted) = number
    <3> HIDE DEF number
    <3> QED BY <1>4
  <2> HIDE DEF sorted
  <2> QED BY <2>1, <2>2
<1> HIDE DEF sorted, number, R
<1>6. \A p \in 1..number : PathList[p] = [source |-> EventNode(sorted[p].source), target |-> EventNode(sorted[p].target)]
  BY <1>5
<1>7. PathList = [p \in 1..number |-> PathList[p]]
  BY <1>5, <1>6
<1>8. \A p \in 1..number : \E r \in required :
         PathList[p] = [source |-> EventNode(r.source), target |-> EventNode(r.target)]
  BY <1>4, <1>6
<1>9. \A r \in required : \E p \in 1..number :
         PathList[p] = [source |-> EventNode(r.source), target |-> EventNode(r.target)]
  BY <1>4, <1>6
<1> QED BY <1>4, <1>7, <1>8, <1>9

LEMMA EventNodes ==
    ASSUME BuildInv
    PROVE  /\ <<"source", 0>> \in Node /\ <<"object", 0>> \in Node
           /\ \A i \in Step2!EventId : EventNode(i) \in Node
<1>1. Len(events) \in Nat /\ Len(events) <= MaxEvents /\ MaxEvents \in Nat
  BY EventsAre, PipelineAssumption DEF BuildInv, InRows, Step2!GraphConstants
<1>2. \A i \in Step2!EventId : i \in 1..MaxEvents
  BY <1>1, EventsAre
<1> QED BY <1>2, PipelineAssumption

\* Step 3 can read what step 2 built.
LEMMA BuiltIsGraph ==
    ASSUME BuildInv, step = "graph", NEW loaded \in BOOLEAN
    PROVE  IsGraph(BuiltGraph(loaded))
<1> DEFINE EdgeShape == [source : Node, target : Node, observed : BOOLEAN, origin : BOOLEAN, important : BOOLEAN]
<1>1. \A i \in Step2!EventId : EventEdge(i) \in EdgeShape
  BY EventNodes DEF EventEdge
<1>2. ASSUME NEW c \in corr PROVE CorrEdge(c, loaded) \in EdgeShape
  <2>1. EventNode(c.from) \in Node /\ EventNode(c.to) \in Node
    BY EventNodes DEF BuildInv, Correlated, Joined
  <2>2. IsProtectedOriginEdge(c) \in BOOLEAN
    BY DEF IsProtectedOriginEdge
  <2>3. IsImportant(c, loaded) \in BOOLEAN
    BY DEF IsImportant
  <2> QED BY <2>1, <2>2, <2>3 DEF CorrEdge
<1> HIDE DEF EdgeShape
<1>3. EdgeList(loaded) \in Seq(EdgeShape)
  <2>1. PICK number \in Nat : \E leadsTo :
              /\ EdgeList(loaded) = [n \in 1..number |-> EdgeList(loaded)[n]]
              /\ \A n \in 1..number :
                    \/ leadsTo[n] = 0 /\ \E i \in Step2!EventId : EdgeList(loaded)[n] = EventEdge(i)
                    \/ \E c \in corr : leadsTo[n] = c.to /\ c.to # 0 /\ EdgeList(loaded)[n] = CorrEdge(c, loaded)
    BY EdgesListed
  <2>2. \A n \in 1..number : EdgeList(loaded)[n] \in EdgeShape
    BY <1>1, <1>2, <2>1
  <2> DEFINE list == EdgeList(loaded)
  <2>3. list = [n \in 1..number |-> list[n]] /\ \A n \in 1..number : list[n] \in EdgeShape
    BY <2>1, <2>2
  <2> HIDE DEF list
  <2>4. list \in [1..number -> EdgeShape]
    BY <2>3
  <2>5. list \in Seq(EdgeShape)
    BY <2>4
  <2> QED BY <2>5 DEF list
<1>4. PathList \in Seq([source : Node, target : Node])
  <2>1. PICK number \in Nat :
              /\ PathList = [p \in 1..number |-> PathList[p]]
              /\ \A p \in 1..number : \E r \in required :
                    PathList[p] = [source |-> EventNode(r.source), target |-> EventNode(r.target)]
    BY PathsListed
  <2>2. \A p \in 1..number : PathList[p] \in [source : Node, target : Node]
    BY <2>1, EventNodes DEF BuildInv, Bounded
  <2> DEFINE list == PathList
             Ends == [source : Node, target : Node]
  <2>3. list = [n \in 1..number |-> list[n]] /\ \A n \in 1..number : list[n] \in Ends
    BY <2>1, <2>2
  <2> HIDE DEF list, Ends
  <2>4. list \in [1..number -> Ends]
    BY <2>3
  <2>5. list \in Seq(Ends)
    BY <2>4
  <2> QED BY <2>5 DEF list, Ends
<1>5. BuiltGraph(loaded).edges = EdgeList(loaded) /\ BuiltGraph(loaded).required = PathList
  BY DEF BuiltGraph
<1> QED BY <1>3, <1>4, <1>5 DEF IsGraph, EdgeShape

-----------------------------------------------------------------------------
(* Both steps together.                                                    *)

\* What is kept is of the graph, and nothing is before there is one.
KeptIsPart == kept \subseteq Edge /\ (phase = "idle" => kept = {})

\* The graph of step 3 is the one of step 2: the edges of events are observed
\* and end at what was acted on, the others are the correlation edges, each once;
\* and every required path is in it.
Carried ==
    step = "graph" /\ phase # "idle" =>
        /\ \E leadsTo :
              /\ \A n \in Edge :
                    \/ n \in Observed /\ graph.edges[n].target = <<"object", 0>>
                    \/ \E c \in corr : /\ n \notin Observed /\ leadsTo[n] = c.to
                                       /\ graph.edges[n].source = EventNode(c.from)
                                       /\ graph.edges[n].target = EventNode(c.to)
              /\ \A m, n \in Edge \ Observed : leadsTo[m] = leadsTo[n] => m = n
        /\ \A r \in required : \E p \in Path :
              graph.required[p] = [source |-> EventNode(r.source), target |-> EventNode(r.target)]

PipelineInv ==
    /\ BuildInv /\ GuardInv /\ OnePass /\ KeptIsPart /\ Carried
    /\ phase # "idle" => IsGraph(graph)

LEMMA NextIsGuardNext ==
    ASSUME PipelineInv, [Next]_vars
    PROVE  /\ [GuardNext]_guardVars
           /\ Step2!Next \/ UNCHANGED graphVars
           /\ phase # "idle" => UNCHANGED graphVars
<1>1. CASE UNCHANGED vars
  BY <1>1 DEF vars
<1>2. CASE Build
  BY <1>2 DEF Build
<1>3. CASE HandOver
  BY <1>3, BuiltIsGraph DEF HandOver, GuardNext, PipelineInv, Load
<1>4. CASE LoadGiven
  BY <1>4, PipelineAssumption DEF LoadGiven, GuardNext, GuardConstants
<1>5. CASE PruneGraph \/ TrainOnGraph
  BY <1>5 DEF PruneGraph, TrainOnGraph, GuardNext
<1> QED BY <1>1, <1>2, <1>3, <1>4, <1>5 DEF Next

\* The steps of step 3 after the graph was read leave it alone.
LEMMA GraphStays ==
    ASSUME [GuardNext]_guardVars, phase # "idle"
    PROVE  graph' = graph /\ phase' # "idle"
<1>1. ASSUME NEW action, Decide(action) PROVE graph' = graph /\ phase' # "idle"
  BY <1>1 DEF Decide
<1>2. ASSUME NEW p, Restore(p) PROVE graph' = graph /\ phase' # "idle"
  BY <1>2 DEF Restore
<1>3. ASSUME NEW i, NEW action, TrainStep(i, action) PROVE graph' = graph /\ phase' # "idle"
  BY <1>3 DEF TrainStep
<1>4. ASSUME NEW m, NEW i, Replay(m, i) PROVE graph' = graph /\ phase' # "idle"
  BY <1>4 DEF Replay
<1>5. CASE StartDqn \/ TakePart \/ EndPart \/ StartFilter \/ Filter \/ Write \/ Annotate
  BY <1>5 DEF StartDqn, TakePart, EndPart, StartFilter, Filter, Write, Annotate
<1>6. CASE DqnFails \/ EndRestore \/ Refuse \/ BuildPrompt \/ Tell \/ StartTraining \/ NextEpisode
  BY <1>6 DEF DqnFails, EndRestore, Refuse, BuildPrompt, Tell, StartTraining, NextEpisode
<1>7. CASE UNCHANGED guardVars
  BY <1>7 DEF guardVars
<1>8. ASSUME NEW g, Load(g) PROVE graph' = graph /\ phase' # "idle"
  BY <1>8 DEF Load
<1> QED BY <1>1, <1>2, <1>3, <1>4, <1>5, <1>6, <1>7, <1>8 DEF GuardNext, Prune, Train

LEMMA LatestOf == ASSUME NEW S, NEW count PROVE Latest(S, count) \subseteq S
BY DEF Latest

LEMMA KeptStep ==
    ASSUME KeptIsPart, [GuardNext]_guardVars
    PROVE  KeptIsPart'
<1>1. ASSUME NEW g, Load(g) PROVE KeptIsPart'
  BY <1>1 DEF Load, KeptIsPart
<1>2. CASE phase # "idle"
  <2>1. graph' = graph /\ phase' # "idle" /\ Edge' = Edge
    BY <1>2, GraphStays, SameGraph
  <2>2. CASE Write
    BY <2>1, <2>2 DEF Write, KeptIsPart
  <2>3. CASE DqnFails
    <3>1. Latest(IF Important = {} THEN Latest(Edge, 1) ELSE Important, MaxFallback) \subseteq Edge
      BY LatestOf DEF Important
    <3> QED BY <2>1, <2>3, <3>1 DEF DqnFails, KeptIsPart, Observed
  <2>4. ASSUME NEW p \in Path, Restore(p) PROVE KeptIsPart'
    <3>1. \A W \in FindPath(Edge, p) : W \subseteq Edge
      BY FoundConnects
    <3> QED BY <2>1, <2>4, <3>1 DEF Restore, KeptIsPart
  <2>5. CASE UNCHANGED kept
    BY <2>1, <2>5 DEF KeptIsPart
  <2>6. ASSUME NEW action, Decide(action) PROVE kept' = kept
    BY <2>6 DEF Decide
  <2>7. ASSUME NEW i, NEW action, TrainStep(i, action) PROVE kept' = kept
    BY <2>7 DEF TrainStep
  <2>8. ASSUME NEW m, NEW i, Replay(m, i) PROVE kept' = kept
    BY <2>8 DEF Replay
  <2>9. CASE StartDqn \/ TakePart \/ EndPart \/ StartFilter \/ Filter \/ Annotate
    BY <2>5, <2>9 DEF StartDqn, TakePart, EndPart, StartFilter, Filter, Annotate
  <2>10. CASE EndRestore \/ Refuse \/ BuildPrompt \/ Tell \/ StartTraining \/ NextEpisode
    BY <2>5, <2>10 DEF EndRestore, Refuse, BuildPrompt, Tell, StartTraining, NextEpisode
  <2>11. CASE UNCHANGED guardVars
    BY <2>5, <2>11 DEF guardVars
  <2> QED BY <1>1, <2>2, <2>3, <2>4, <2>5, <2>6, <2>7, <2>8, <2>9, <2>10, <2>11 DEF GuardNext, Prune, Train
<1>3. CASE phase = "idle" /\ UNCHANGED guardVars
  BY <1>3, SameGraph DEF guardVars, KeptIsPart
<1>4. CASE phase = "idle" /\ (Prune \/ Train)
  BY <1>4 DEF Prune, Train, Decide, Restore, TrainStep, Replay, StartDqn, TakePart, EndPart,
     StartFilter, Filter, Annotate, Write, DqnFails, EndRestore, Refuse, BuildPrompt, Tell, StartTraining, NextEpisode
<1> QED BY <1>1, <1>2, <1>3, <1>4 DEF GuardNext

LEMMA CarriedOver ==
    ASSUME BuildInv, step = "graph", NEW loaded \in BOOLEAN, Load(BuiltGraph(loaded)), UNCHANGED graphVars
    PROVE  Carried'
<1>1. graph'.edges = EdgeList(loaded) /\ graph'.required = PathList
  BY DEF Load, BuiltGraph
<1>2. PICK number, leadsTo :
              /\ number \in Nat
              /\ EdgeList(loaded) = [n \in 1..number |-> EdgeList(loaded)[n]]
              /\ \A n \in 1..number :
                    \/ leadsTo[n] = 0 /\ \E i \in Step2!EventId : EdgeList(loaded)[n] = EventEdge(i)
                    \/ \E c \in corr : leadsTo[n] = c.to /\ c.to # 0 /\ EdgeList(loaded)[n] = CorrEdge(c, loaded)
              /\ \A m, n \in 1..number : leadsTo[m] = leadsTo[n] /\ leadsTo[m] # 0 => m = n
  BY EdgesListed
<1>3. Edge' = 1..number
  <2> DEFINE list == EdgeList(loaded)
  <2>1. number \in Nat /\ list = [n \in 1..number |-> list[n]]
    BY <1>2
  <2> HIDE DEF list
  <2>2. Len(list) = number
    BY <2>1
  <2> QED BY <1>1, <2>2 DEF Edge, list
<1>4. ASSUME NEW n \in Edge'
      PROVE  \/ leadsTo[n] = 0 /\ graph'.edges[n].observed = TRUE /\ graph'.edges[n].target = <<"object", 0>>
             \/ \E c \in corr : /\ leadsTo[n] = c.to /\ c.to # 0 /\ graph'.edges[n].observed = FALSE
                                /\ graph'.edges[n].source = EventNode(c.from)
                                /\ graph'.edges[n].target = EventNode(c.to)
  <2>1. CASE leadsTo[n] = 0 /\ \E i \in Step2!EventId : EdgeList(loaded)[n] = EventEdge(i)
    BY <1>1, <2>1 DEF EventEdge
  <2>2. CASE \E c \in corr : leadsTo[n] = c.to /\ c.to # 0 /\ EdgeList(loaded)[n] = CorrEdge(c, loaded)
    BY <1>1, <2>2 DEF CorrEdge
  <2> QED BY <1>2, <1>3, <2>1, <2>2
<1>5. \A n \in Edge' \ Observed' : leadsTo[n] # 0
  BY <1>4 DEF Observed
<1>6. \A m, n \in Edge' \ Observed' : leadsTo[m] = leadsTo[n] => m = n
  BY <1>2, <1>3, <1>5
<1>7. \A n \in Edge' : \/ n \in Observed' /\ graph'.edges[n].target = <<"object", 0>>
                       \/ \E c \in corr : /\ n \notin Observed' /\ leadsTo[n] = c.to
                                          /\ graph'.edges[n].source = EventNode(c.from)
                                          /\ graph'.edges[n].target = EventNode(c.to)
  BY <1>4 DEF Observed
<1>8. \A r \in required : \E p \in Path' :
         graph'.required[p] = [source |-> EventNode(r.source), target |-> EventNode(r.target)]
  <2>1. PICK count \in Nat :
              /\ PathList = [p \in 1..count |-> PathList[p]]
              /\ \A r \in required : \E p \in 1..count :
                    PathList[p] = [source |-> EventNode(r.source), target |-> EventNode(r.target)]
    BY PathsListed
  <2> DEFINE list == PathList
  <2>2. list = [n \in 1..count |-> list[n]]
    BY <2>1
  <2> HIDE DEF list
  <2>3. Len(list) = count
    BY <2>2
  <2>4. Path' = 1..count
    BY <1>1, <2>3 DEF Path, list
  <2> QED BY <1>1, <2>1, <2>4
<1>9. corr' = corr /\ required' = required
  BY DEF graphVars
<1> QED BY <1>6, <1>7, <1>8, <1>9 DEF Carried

LEMMA CarriedStep ==
    ASSUME PipelineInv, [Next]_vars
    PROVE  Carried'
<1>1. CASE phase # "idle"
  <2>1. UNCHANGED graphVars /\ graph' = graph /\ phase' # "idle"
    BY <1>1, NextIsGuardNext, GraphStays
  <2>2. UNCHANGED <<step, corr, required>>
    BY <2>1 DEF graphVars
  <2> QED BY <1>1, <2>1, <2>2, SameGraph DEF PipelineInv, Carried
<1>2. CASE phase = "idle" /\ phase' # "idle"
  <2>1. CASE HandOver
    <3>1. PICK loaded \in BOOLEAN : Load(BuiltGraph(loaded))
      BY <2>1 DEF HandOver
    <3> QED BY <2>1, <3>1, CarriedOver DEF HandOver, PipelineInv
  <2>2. CASE LoadGiven
    BY <2>2 DEF LoadGiven, graphVars, Carried
  <2>3. CASE Build \/ UNCHANGED vars
    BY <1>2, <2>3 DEF Build, vars, guardVars
  <2>4. CASE PruneGraph \/ TrainOnGraph
    BY <1>2, <2>4 DEF PruneGraph, TrainOnGraph, Prune, Train, Decide, Restore, TrainStep, Replay, StartDqn,
       TakePart, EndPart, StartFilter, Filter, Annotate, Write, DqnFails, EndRestore, Refuse, BuildPrompt, Tell,
       StartTraining, NextEpisode
  <2> QED BY <2>1, <2>2, <2>3, <2>4 DEF Next
<1>3. CASE phase' = "idle"
  BY <1>3 DEF Carried
<1> QED BY <1>1, <1>2, <1>3

LEMMA PipelineInvStep == ASSUME PipelineInv, [Next]_vars PROVE PipelineInv'
<1>1. [GuardNext]_guardVars /\ (Step2!Next \/ UNCHANGED graphVars)
  BY NextIsGuardNext
<1>2. GuardConstants
  BY PipelineAssumption
<1>3. BuildInv'
  BY <1>1, BuildInvStep DEF PipelineInv
<1>4. GuardInv'
  BY <1>1, GuardInvStep DEF PipelineInv
<1>5. OnePass' /\ (phase' # "idle" => IsGraph(graph)')
  BY <1>1, <1>2, OnePassStep DEF PipelineInv
<1>6. KeptIsPart'
  BY <1>1, KeptStep DEF PipelineInv
<1>7. Carried'
  BY CarriedStep
<1> QED BY <1>3, <1>4, <1>5, <1>6, <1>7 DEF PipelineInv

LEMMA PipelineInvInit == Init => PipelineInv
<1> SUFFICES ASSUME Init PROVE PipelineInv
  OBVIOUS
<1>1. BuildInv
  BY BuildInvInit DEF Init
<1>2. GuardInv
  BY GuardInvInit DEF Init
<1>3. phase = "idle" /\ kept = {}
  BY DEF Init, GuardInit
<1>4. OnePass
  BY <1>3 DEF OnePass
<1> QED BY <1>1, <1>2, <1>3, <1>4 DEF PipelineInv, KeptIsPart, Carried

\* Nothing that is required can do without any of the edges of its path.
LEMMA Whole == PipelineInv => BuiltGraphsStayWhole
<1> SUFFICES ASSUME PipelineInv, step = "graph", phase \in {"pruned", "prompted", "told"}
             PROVE  kept = Edge
  BY DEF BuiltGraphsStayWhole
<1>1. Observed \subseteq kept /\ \A p \in Path : Connects(kept, p)
  BY DEF PipelineInv, GuardInv, Complete, Finished
<1>2. PICK leadsTo :
              /\ \A n \in Edge :
                    \/ n \in Observed /\ graph.edges[n].target = <<"object", 0>>
                    \/ \E c \in corr : /\ n \notin Observed /\ leadsTo[n] = c.to
                                       /\ graph.edges[n].source = EventNode(c.from)
                                       /\ graph.edges[n].target = EventNode(c.to)
              /\ \A m, n \in Edge \ Observed : leadsTo[m] = leadsTo[n] => m = n
  BY DEF PipelineInv, Carried
<1>3. ASSUME NEW n \in Edge, n \notin kept PROVE FALSE
  <2>1. PICK c \in corr : leadsTo[n] = c.to
    BY <1>1, <1>2, <1>3
  <2>2. PICK r \in required : r.path = c.path
    BY DEF PipelineInv, BuildInv, Bounded
  <2>3. PICK p \in Path : graph.required[p] = [source |-> EventNode(r.source), target |-> EventNode(r.target)]
    BY DEF PipelineInv, Carried
  <2>4. /\ c.to \in Step2!EventId /\ c.from \in Step2!EventId /\ c.from < c.to /\ c.path = path[c.to]
        /\ r.source \in Step2!EventId /\ r.target \in Step2!EventId
        /\ r.source <= c.from /\ c.to <= r.target
    <3>1. Joined(c)
      BY DEF PipelineInv, BuildInv, Correlated
    <3>2. /\ r.source \in Step2!EventId /\ r.target \in Step2!EventId
          /\ r.source <= c.from /\ c.to <= r.target
      BY <2>2 DEF PipelineInv, BuildInv, Bounded
    <3> QED BY <3>1, <3>2 DEF Joined
  <2>5. path[r.target] = c.path
    <3>1. PICK d \in corr : d.path = r.path /\ d.to = r.target
      BY DEF PipelineInv, BuildInv, Bounded
    <3> QED BY <2>2, <3>1 DEF PipelineInv, BuildInv, Correlated, Joined
  <2>6. Len(events) \in Nat /\ Step2!EventId = 1..Len(events)
    BY EventsAre DEF PipelineInv
  <2> DEFINE later == {EventNode(i) : i \in {j \in Step2!EventId : path[j] = c.path /\ c.to <= j}}
             S == Node \ later
             arcs == {<<graph.edges[i].source, graph.edges[i].target>> : i \in kept}
  <2>7. \A i, j : EventNode(i) = EventNode(j) => i = j
    BY DEF EventNode
  <2>8. \A i \in Step2!EventId : EventNode(i) \in later <=> path[i] = c.path /\ c.to <= i
    BY <2>7
  <2>9. EventNode(r.source) \in S /\ EventNode(r.target) \notin S
    <3>1. EventNode(r.source) \in Node
      BY <2>4, EventNodes DEF PipelineInv
    <3>2. ~(c.to <= r.source)
      BY <2>4, <2>6
    <3> HIDE DEF later
    <3> QED BY <2>4, <2>5, <2>8, <3>1, <3>2
  <2>10. ASSUME NEW m \in kept, graph.edges[m].source \in S PROVE graph.edges[m].target \in S
    <3>1. m \in Edge /\ m # n
      BY <1>3 DEF PipelineInv, KeptIsPart
    <3>2. graph.edges[m].target \in Node
      <4> DEFINE EdgeShape == [source : Node, target : Node, observed : BOOLEAN, origin : BOOLEAN,
                                important : BOOLEAN]
                 list == graph.edges
      <4>1. list \in Seq(EdgeShape) /\ m \in 1..Len(list)
        BY <3>1 DEF PipelineInv, IsGraph, Edge
      <4>2. list[m] \in EdgeShape
        <5> HIDE DEF list, EdgeShape
        <5> QED BY <4>1
      <4> QED BY <4>2
    <3>3. CASE graph.edges[m].target = <<"object", 0>>
      <4>1. <<"object", 0>> \notin later
        BY DEF EventNode
      <4> QED BY <3>2, <3>3, <4>1
    <3>4. CASE m \notin Observed
      <4>1. PICK d \in corr : /\ leadsTo[m] = d.to
                              /\ graph.edges[m].source = EventNode(d.from)
                              /\ graph.edges[m].target = EventNode(d.to)
        BY <1>2, <3>1, <3>4
      <4>2. n \notin Observed
        BY <1>1, <1>3
      <4>3. d.to # c.to
        BY <1>2, <2>1, <3>1, <3>4, <4>1, <4>2
      <4>4. d.to \in Step2!EventId /\ d.from \in Step2!EventId /\ d.path = path[d.to]
        <5>1. Joined(d)
          BY DEF PipelineInv, BuildInv, Correlated
        <5> QED BY <5>1 DEF Joined
      <4>5. ASSUME path[d.to] = c.path, c.to <= d.to PROVE FALSE
        <5>1. c.to < d.to
          BY <2>4, <2>6, <4>3, <4>4, <4>5
        <5>2. path[c.to] = d.path
          BY <2>4, <4>4, <4>5
        <5>3. d.from \in c.to..d.to - 1 /\ path[d.from] = d.path
          BY <2>4, <5>1, <5>2, WithinPath DEF PipelineInv
        <5>4. EventNode(d.from) \in later
          BY <2>4, <2>6, <2>8, <4>4, <4>5, <5>3
        <5> QED BY <2>10, <4>1, <5>4
      <4>6. EventNode(d.to) \notin later
        BY <2>8, <4>4, <4>5
      <4> QED BY <3>2, <4>1, <4>6
    <3> QED BY <1>2, <3>1, <3>3, <3>4
  <2>11. Closed(S, arcs)
    <3> SUFFICES ASSUME NEW a \in arcs, a[1] \in S PROVE a[2] \in S
      BY DEF Closed
    <3>1. PICK m \in kept : a = <<graph.edges[m].source, graph.edges[m].target>>
      OBVIOUS
    <3>2. a[1] = graph.edges[m].source /\ a[2] = graph.edges[m].target
      BY <3>1
    <3> HIDE DEF S
    <3> QED BY <2>10, <3>2
  <2>12. Reachable(Node, arcs, EventNode(r.source), EventNode(r.target))
    <3>1. Reachable(Node, arcs, graph.required[p].source, graph.required[p].target)
      BY <1>1 DEF Connects
    <3> HIDE DEF arcs
    <3> QED BY <2>3, <3>1
  <2> HIDE DEF later, arcs
  <2> QED BY <2>9, <2>11, <2>12 DEF Reachable
<1> QED BY <1>3 DEF PipelineInv, KeptIsPart

-----------------------------------------------------------------------------
(* The walks of a narrative.                                               *)

\* A step of _trace_linear_path.
Further(edges, walked) ==
    LET out == Leaving(edges, Last(walked))
        next == graph.edges[Lowest(out)].target
    IN  IF out = {} THEN walked ELSE IF next \in ToSet(walked) THEN walked ELSE Append(walked, next)

LEMMA WalkIs ==
    ASSUME NEW edges, NEW entry
    PROVE  \E walk : /\ Walk(edges, entry) = walk[8] /\ walk[0] = <<entry>>
                     /\ \A n \in 1..8 : walk[n] = Further(edges, walk[n - 1])
<1> DEFINE Goes(f) == f = [n \in 0..8 |-> IF n = 0 THEN <<entry>> ELSE Further(edges, f[n - 1])]
           walk == CHOOSE f : Goes(f)
<1>1. \E w : Goes(w)
  <2>1. PICK w1 : w1 = Further(edges, <<entry>>)
    OBVIOUS
  <2>2. PICK w2 : w2 = Further(edges, w1)
    OBVIOUS
  <2>3. PICK w3 : w3 = Further(edges, w2)
    OBVIOUS
  <2>4. PICK w4 : w4 = Further(edges, w3)
    OBVIOUS
  <2>5. PICK w5 : w5 = Further(edges, w4)
    OBVIOUS
  <2>6. PICK w6 : w6 = Further(edges, w5)
    OBVIOUS
  <2>7. PICK w7 : w7 = Further(edges, w6)
    OBVIOUS
  <2>8. PICK w8 : w8 = Further(edges, w7)
    OBVIOUS
  <2> DEFINE w == [n \in 0..8 |-> IF n = 0 THEN <<entry>> ELSE <<w1, w2, w3, w4, w5, w6, w7, w8>>[n]]
  <2>9. /\ w[0] = <<entry>> /\ w[1] = w1 /\ w[2] = w2 /\ w[3] = w3 /\ w[4] = w4
        /\ w[5] = w5 /\ w[6] = w6 /\ w[7] = w7 /\ w[8] = w8 /\ w = [n \in 0..8 |-> w[n]]
    OBVIOUS
  <2> HIDE DEF w
  <2>10. ASSUME NEW n \in 0..8 PROVE w[n] = IF n = 0 THEN <<entry>> ELSE Further(edges, w[n - 1])
    <3>1. n \in {0, 1, 2, 3, 4, 5, 6, 7, 8}
      OBVIOUS
    <3>2. /\ w[1] = Further(edges, w[1 - 1]) /\ w[2] = Further(edges, w[2 - 1]) /\ w[3] = Further(edges, w[3 - 1])
          /\ w[4] = Further(edges, w[4 - 1]) /\ w[5] = Further(edges, w[5 - 1]) /\ w[6] = Further(edges, w[6 - 1])
          /\ w[7] = Further(edges, w[7 - 1]) /\ w[8] = Further(edges, w[8 - 1])
      BY <2>1, <2>2, <2>3, <2>4, <2>5, <2>6, <2>7, <2>8, <2>9
    <3> QED BY <2>9, <3>1, <3>2
  <2>11. Goes(w)
    BY <2>9, <2>10
  <2> QED BY <2>11
<1>2. Walk(edges, entry) = walk[8]
  BY DEF Walk, Further
<1>3. Goes(walk)
  <2> HIDE DEF Goes
  <2> QED BY <1>1
<1> HIDE DEF walk
<1> QED BY <1>2, <1>3

\* A walk along events that comes to no node twice.
Straight(edges, walked) ==
    /\ walked \in Seq(Node) /\ walked # <<>>
    /\ \A i, j \in 1..Len(walked) : walked[i] = walked[j] => i = j
    /\ \A n \in 1..Len(walked) - 1 : \E i \in Timeline(edges) :
          graph.edges[i].source = walked[n] /\ graph.edges[i].target = walked[n + 1]

LEMMA GoesStraightOn ==
    ASSUME IsGraph(graph), NEW edges, NEW walked, Straight(edges, walked)
    PROVE  Straight(edges, Further(edges, walked))
<1> DEFINE out == Leaving(edges, Last(walked))
           next == graph.edges[Lowest(out)].target
<1>1. CASE out = {} \/ next \in ToSet(walked)
  BY <1>1 DEF Further
<1>2. CASE out # {} /\ next \notin ToSet(walked)
  <2>1. Further(edges, walked) = Append(walked, next)
    BY <1>2 DEF Further
  <2>2. out \subseteq Timeline(edges) /\ out \in SUBSET Nat
    BY EdgesFinite DEF Leaving, Timeline, Observed
  <2>3. Lowest(out) \in out
    <3> HIDE DEF out
    <3> QED BY <1>2, <2>2, LowestIn
  <2>4. graph.edges[Lowest(out)].source = Last(walked) /\ Lowest(out) \in Edge
    BY <2>3 DEF Leaving, Timeline, Observed
  <2>5. next \in Node
    <3> DEFINE EdgeShape == [source : Node, target : Node, observed : BOOLEAN, origin : BOOLEAN, important : BOOLEAN]
               list == graph.edges
    <3>1. list \in Seq(EdgeShape) /\ Lowest(out) \in 1..Len(list)
      BY <2>4 DEF IsGraph, Edge
    <3>2. list[Lowest(out)] \in EdgeShape
      <4> HIDE DEF list, EdgeShape, out
      <4> QED BY <3>1
    <3> QED BY <3>2
  <2>6. /\ walked \in Seq(Node) /\ Len(walked) \in Nat /\ Len(walked) # 0 /\ Last(walked) = walked[Len(walked)]
        /\ DOMAIN walked = 1..Len(walked)
    BY DEF Straight, Last
  <2>7. \A i \in 1..Len(walked) : walked[i] # next
    BY <1>2, <2>6 DEF ToSet
  <2>8. \E i \in Timeline(edges) : graph.edges[i].source = walked[Len(walked)] /\ graph.edges[i].target = next
    BY <2>2, <2>3, <2>4, <2>6
  <2> HIDE DEF next
  <2> DEFINE longer == Append(walked, next)
  <2>9. /\ longer \in Seq(Node) /\ Len(longer) = Len(walked) + 1 /\ longer # <<>>
        /\ longer[Len(walked) + 1] = next /\ \A j \in 1..Len(walked) : longer[j] = walked[j]
    BY <2>5, <2>6
  <2> HIDE DEF longer, out
  <2>10. \A i, j \in 1..Len(longer) : longer[i] = longer[j] => i = j
    BY <2>6, <2>7, <2>9 DEF Straight
  <2>11. ASSUME NEW n \in 1..Len(longer) - 1
         PROVE  \E i \in Timeline(edges) :
                   graph.edges[i].source = longer[n] /\ graph.edges[i].target = longer[n + 1]
    <3>1. CASE n = Len(walked)
      BY <2>6, <2>8, <2>9, <3>1
    <3>2. CASE n # Len(walked)
      <4>1. n \in 1..Len(walked) - 1 /\ n \in 1..Len(walked) /\ n + 1 \in 1..Len(walked)
        <5>1. \A L, M \in Nat : M = L + 1 => \A k \in 1..M - 1 : k # L => k \in 1..L - 1 /\ k \in 1..L /\ k + 1 \in 1..L
          OBVIOUS
        <5>2. Len(walked) \in Nat /\ Len(longer) \in Nat
          BY <2>6, <2>9
        <5> QED BY <2>9, <3>2, <5>1, <5>2
      <4>2. longer[n] = walked[n] /\ longer[n + 1] = walked[n + 1]
        BY <2>9, <4>1
      <4> QED BY <4>1, <4>2 DEF Straight
    <3> QED BY <3>1, <3>2
  <2>12. Further(edges, walked) = longer
    BY <2>1 DEF longer, out, next
  <2> QED BY <2>9, <2>10, <2>11, <2>12 DEF Straight
<1> QED BY <1>1, <1>2

LEMMA WalksStraight ==
    ASSUME IsGraph(graph), NEW edges, NEW entry \in Entries(edges)
    PROVE  Straight(edges, Walk(edges, entry))
<1>0. \A f : \E walk : /\ Walk(edges, f) = walk[8] /\ walk[0] = <<f>>
                       /\ \A n \in 1..8 : walk[n] = Further(edges, walk[n - 1])
  BY WalkIs
<1>1. PICK walk : /\ Walk(edges, entry) = walk[8] /\ walk[0] = <<entry>>
                  /\ \A n \in 1..8 : walk[n] = Further(edges, walk[n - 1])
  BY <1>0
<1>2. entry \in Node
  <2> DEFINE EdgeShape == [source : Node, target : Node, observed : BOOLEAN, origin : BOOLEAN, important : BOOLEAN]
             list == graph.edges
  <2>1. PICK i \in Timeline(edges) : entry = list[i].source \/ entry = list[i].target
    BY DEF Entries, Nodes
  <2>2. list \in Seq(EdgeShape) /\ i \in 1..Len(list)
    BY <2>1 DEF IsGraph, Edge, Timeline, Observed
  <2>3. list[i] \in EdgeShape
    <3> HIDE DEF list, EdgeShape
    <3> QED BY <2>2
  <2> QED BY <2>1, <2>3
<1>3. Straight(edges, walk[0])
  BY <1>1, <1>2 DEF Straight
<1>4. \A n \in 1..8 : Straight(edges, walk[n - 1]) => Straight(edges, walk[n])
  BY <1>1, GoesStraightOn
<1>5. /\ Straight(edges, walk[1 - 1]) => Straight(edges, walk[1])
      /\ Straight(edges, walk[2 - 1]) => Straight(edges, walk[2])
      /\ Straight(edges, walk[3 - 1]) => Straight(edges, walk[3])
      /\ Straight(edges, walk[4 - 1]) => Straight(edges, walk[4])
      /\ Straight(edges, walk[5 - 1]) => Straight(edges, walk[5])
      /\ Straight(edges, walk[6 - 1]) => Straight(edges, walk[6])
      /\ Straight(edges, walk[7 - 1]) => Straight(edges, walk[7])
      /\ Straight(edges, walk[8 - 1]) => Straight(edges, walk[8])
  BY <1>4
<1> QED BY <1>1, <1>3, <1>5

-----------------------------------------------------------------------------
(* What the narrative says.                                                *)

\* The prompt is part of what was kept, and the narrative is honest.
ToldInv ==
    /\ phase \in {"prompted", "told"} => prompt \subseteq kept
    /\ NarrativeHonest

LEMMA PathsFinite ==
    ASSUME IsGraph(graph)
    PROVE  IsFiniteSet(Path) /\ Cardinality(Path) \in Nat
<1>1. Len(graph.required) \in Nat
  BY DEF IsGraph
<1>2. IsFiniteSet(Path)
  BY <1>1, FS_Interval DEF Path
<1> QED BY <1>2, FS_CardinalityType

LEMMA TellIsHonest ==
    ASSUME PipelineInv, ToldInv, Tell
    PROVE  NarrativeHonest'
<1>1. /\ phase = "prompted" /\ phase' = "told" /\ UNCHANGED <<graph, kept, prompt>>
      /\ IsGraph(graph) /\ prompt \subseteq kept /\ kept \subseteq Edge
  BY DEF Tell, PipelineInv, ToldInv, KeptIsPart
<1>2. PICK routes \in Routes(prompt) : story' = Narrative(prompt, routes)
  BY DEF Tell
<1> DEFINE found == {p \in Path : FindPath(prompt, p) # {}}
           told == Narrative(prompt, routes)
<1>3. /\ DOMAIN routes = found
      /\ \A p \in found : routes[p] \subseteq prompt /\ Connects(routes[p], p)
  <2>1. routes \in Picks([p \in found |-> FindPath(prompt, p)])
    BY <1>2 DEF Routes
  <2>2. DOMAIN routes = found /\ \A p \in found : routes[p] \in FindPath(prompt, p)
    <3> HIDE DEF found
    <3> QED BY <2>1, Picked
  <2> QED BY <2>2, FoundConnects
<1>4. /\ told.timeline = Timeline(prompt) /\ told.routes = [p \in Listed(routes) |-> routes[p]]
      /\ told.omitted = Cardinality(found) - Cardinality(Listed(routes))
      /\ told.walks = {Walk(prompt, entry) : entry \in Entries(prompt)}
      /\ told.partial = (prompt # kept) /\ told.digest = Digest(prompt, routes)
  BY <1>3 DEF Narrative
<1>5. Listed(routes) \subseteq found
  BY <1>3 DEF Listed
<1>6. IsFiniteSet(found) /\ Cardinality(found) \in Nat /\ Cardinality(Listed(routes)) \in Nat
  <2>1. IsFiniteSet(found)
    BY <1>1, PathsFinite, FS_Subset
  <2> HIDE DEF found
  <2> QED BY <1>5, <2>1, FS_Subset, FS_CardinalityType
<1>7. Cardinality(DOMAIN told.routes) + told.omitted = Cardinality(found)
  <2>1. DOMAIN told.routes = Listed(routes)
    BY <1>4
  <2> HIDE DEF found, told
  <2> QED BY <1>4, <1>6, <2>1
<1>8. \A p \in DOMAIN told.routes : told.routes[p] \subseteq prompt /\ Connects(told.routes[p], p)
  <2> HIDE DEF found, told
  <2> QED BY <1>3, <1>4, <1>5
<1>9. ASSUME NEW walk \in told.walks
      PROVE  /\ Cardinality(ToSet(walk)) = Len(walk)
             /\ \A n \in 1..Len(walk) - 1 : \E i \in told.timeline \cap prompt :
                   graph.edges[i].source = walk[n] /\ graph.edges[i].target = walk[n + 1]
  <2>1. Straight(prompt, walk)
    BY <1>1, <1>4, WalksStraight
  <2>2. Cardinality(ToSet(walk)) = Len(walk)
    <3>1. Len(walk) \in Nat /\ walk \in Surjection(1..Len(walk), ToSet(walk))
          /\ walk \in Injection(1..Len(walk), ToSet(walk))
      BY <2>1 DEF Straight, ToSet, Surjection, Injection, IsInjective
    <3>2. IsFiniteSet(1..Len(walk)) /\ Cardinality(1..Len(walk)) = Len(walk)
      <4>1. IsFiniteSet(1..Len(walk)) /\ Cardinality(1..Len(walk)) = IF 1 > Len(walk) THEN 0 ELSE Len(walk) - 1 + 1
        BY <3>1, FS_Interval
      <4> QED BY <3>1, <4>1
    <3> QED BY <3>1, <3>2, FS_Surjection
  <2>3. Timeline(prompt) \subseteq prompt
    BY DEF Timeline
  <2> QED BY <1>4, <2>1, <2>2, <2>3 DEF Straight
<1>10. told.partial \/ Cardinality(found) = Cardinality(Path)
  <2>1. ASSUME prompt = kept PROVE found = Path
    <3>1. \A p \in Path : Connects(prompt, p)
      BY <1>1, <2>1 DEF PipelineInv, GuardInv, Complete, Finished
    <3>2. IsFiniteSet(prompt)
      BY <1>1, EdgesFinite, FS_Subset
    <3> QED BY <3>1, <3>2, Finds
  <2> HIDE DEF told
  <2> QED BY <1>4, <2>1
<1>11. told.digest = Digest(prompt, [p \in 1..Cardinality(found) |-> {}])
  <2>1. Cardinality(1..Cardinality(found)) = Cardinality(found)
    <3> DEFINE size == Cardinality(found)
    <3>1. 1 \in Int /\ size \in Int /\ size \in Nat
      BY <1>6
    <3> HIDE DEF size
    <3>2. Cardinality(1..size) = IF 1 > size THEN 0 ELSE size - 1 + 1
      BY <3>1, FS_Interval
    <3>3. Cardinality(1..size) = size
      BY <3>1, <3>2
    <3> QED BY <3>3 DEF size
  <2>2. DOMAIN [p \in 1..Cardinality(found) |-> {}] = 1..Cardinality(found)
    OBVIOUS
  <2> HIDE DEF found, told
  <2> QED BY <1>3, <1>4, <2>1, <2>2 DEF Digest
<1> HIDE DEF told, found
<1>12. story' = told
  BY <1>2 DEF told
<1>13. Path' = Path /\ graph' = graph /\ prompt' = prompt
  BY <1>1, SameGraph
<1>14. \A p \in DOMAIN story'.routes : story'.routes[p] \subseteq prompt' /\ Connects(story.routes[p], p)'
  BY <1>8, <1>12, <1>13 DEF Connects
<1>15. \A walk \in story'.walks :
          /\ Cardinality(ToSet(walk)) = Len(walk)
          /\ \A n \in 1..Len(walk) - 1 : \E i \in story'.timeline \cap prompt' :
                graph'.edges[i].source = walk[n] /\ graph'.edges[i].target = walk[n + 1]
  BY <1>9, <1>12, <1>13
<1>16. story'.partial \/ Cardinality(DOMAIN story'.routes) + story'.omitted = Cardinality(Path')
  BY <1>7, <1>10, <1>12, <1>13
<1>17. (story.digest = Digest(prompt, [p \in 1..Cardinality(DOMAIN story.routes) + story.omitted |-> {}]))'
  <2>1. story'.digest = Digest(prompt, [p \in 1..Cardinality(DOMAIN story'.routes) + story'.omitted |-> {}])
    BY <1>7, <1>11, <1>12
  <2>2. Observed' = Observed /\ prompt' = prompt /\ kept' = kept
    BY <1>1, SameGraph
  <2> QED BY <2>1, <2>2 DEF Digest, Timeline
<1> QED BY <1>14, <1>15, <1>16, <1>17 DEF NarrativeHonest

LEMMA ToldStep ==
    ASSUME PipelineInv, ToldInv, [GuardNext]_guardVars
    PROVE  ToldInv'
<1>1. CASE UNCHANGED guardVars
  <2>1. UNCHANGED <<phase, graph, kept, prompt, story>>
    BY <1>1 DEF guardVars
  <2>2. NarrativeHonest'
    <3>1. Observed' = Observed /\ Path' = Path
      BY <2>1, SameGraph
    <3>2. NarrativeHonest
      BY DEF ToldInv
    <3>3. \A p : Connects(story.routes[p], p)' <=> Connects(story.routes[p], p)
      BY <2>1 DEF Connects
    <3>4. Digest(prompt, [p \in 1..Cardinality(DOMAIN story.routes) + story.omitted |-> {}])'
            = Digest(prompt, [p \in 1..Cardinality(DOMAIN story.routes) + story.omitted |-> {}])
      BY <2>1, <3>1 DEF Digest, Timeline
    <3>5. CASE phase = "told"
      <4>1. /\ \A p \in DOMAIN story.routes : story.routes[p] \subseteq prompt /\ Connects(story.routes[p], p)
            /\ story.digest = Digest(prompt, [p \in 1..Cardinality(DOMAIN story.routes) + story.omitted |-> {}])
            /\ story.partial \/ Cardinality(DOMAIN story.routes) + story.omitted = Cardinality(Path)
            /\ \A walk \in story.walks :
                  /\ Cardinality(ToSet(walk)) = Len(walk)
                  /\ \A n \in 1..Len(walk) - 1 : \E i \in story.timeline \cap prompt :
                        graph.edges[i].source = walk[n] /\ graph.edges[i].target = walk[n + 1]
        BY <3>2, <3>5 DEF NarrativeHonest
      <4>2. (\A p \in DOMAIN story.routes : story.routes[p] \subseteq prompt /\ Connects(story.routes[p], p))'
        BY <2>1, <3>3, <4>1
      <4>3. (story.digest = Digest(prompt, [p \in 1..Cardinality(DOMAIN story.routes) + story.omitted |-> {}]))'
        BY <2>1, <3>4, <4>1
      <4>4. (\A walk \in story.walks :
                  /\ Cardinality(ToSet(walk)) = Len(walk)
                  /\ \A n \in 1..Len(walk) - 1 : \E i \in story.timeline \cap prompt :
                        graph.edges[i].source = walk[n] /\ graph.edges[i].target = walk[n + 1])'
        BY <2>1, <4>1
      <4> QED BY <2>1, <3>1, <4>1, <4>2, <4>3, <4>4 DEF NarrativeHonest
    <3>6. CASE phase # "told"
      BY <2>1, <3>6 DEF NarrativeHonest
    <3> QED BY <3>5, <3>6
  <2> QED BY <2>1, <2>2 DEF ToldInv
<1>2. CASE Tell
  BY <1>2, TellIsHonest DEF Tell, ToldInv
<1>3. CASE BuildPrompt
  BY <1>3, LatestOf DEF BuildPrompt, ToldInv, NarrativeHonest
<1>4. CASE phase' \notin {"prompted", "told"}
  BY <1>4 DEF ToldInv, NarrativeHonest
<1>5. ASSUME NEW g, Load(g) PROVE phase' \notin {"prompted", "told"}
  BY <1>5 DEF Load
<1>6. ASSUME NEW action, Decide(action) PROVE phase' \notin {"prompted", "told"}
  BY <1>6 DEF Decide
<1>7. ASSUME NEW p, Restore(p) PROVE phase' \notin {"prompted", "told"}
  BY <1>7 DEF Restore
<1>8. ASSUME NEW i, NEW action, TrainStep(i, action) PROVE phase' \notin {"prompted", "told"}
  BY <1>8 DEF TrainStep
<1>9. ASSUME NEW m, NEW i, Replay(m, i) PROVE phase' \notin {"prompted", "told"}
  BY <1>9 DEF Replay
<1>10. CASE StartDqn \/ TakePart \/ EndPart \/ StartFilter \/ Filter \/ Write \/ Annotate
  BY <1>4, <1>10 DEF StartDqn, TakePart, EndPart, StartFilter, Filter, Write, Annotate
<1>11. CASE DqnFails \/ EndRestore \/ Refuse \/ StartTraining \/ NextEpisode
  BY <1>4, <1>11 DEF DqnFails, EndRestore, Refuse, StartTraining, NextEpisode
<1> QED BY <1>1, <1>2, <1>3, <1>4, <1>5, <1>6, <1>7, <1>8, <1>9, <1>10, <1>11 DEF GuardNext, Prune, Train

-----------------------------------------------------------------------------
IInv == PipelineInv /\ ToldInv

\* The invariant: the guarded paths, the shape of the graphs, and what is told of them.
THEOREM PipelineHolds == Spec => []IInv
<1>1. Init => IInv
  BY PipelineInvInit DEF IInv, ToldInv, NarrativeHonest, Init, GuardInit
<1>2. IInv /\ [Next]_vars => IInv'
  BY PipelineInvStep, ToldStep, NextIsGuardNext DEF IInv
<1> QED BY <1>1, <1>2, PTL DEF Spec

\* Whatever the network proposes, in training, in every partition and after the pruning,
\* each required path that is enforced stays connected, and no observed event is lost
\* (environment.py, prune.py).
THEOREM PathsSurvive == Spec => []RequiredStaysReachable
<1>1. IInv => RequiredStaysReachable
  BY DEF IInv, PipelineInv, GuardInv, Guarded, Prepared, Complete, Working, Finished, RequiredStaysReachable
<1> QED BY <1>1, PipelineHolds, PTL

\* Where the graph was pruned in one piece, the filter of the merged actions takes nothing
\* back of what the first pass let go (prune.py).
THEOREM SecondPassIsIdle == Spec => []SecondPassAccepts
<1>1. IInv => SecondPassAccepts
  BY DEF IInv, PipelineInv, OnePass, SecondPassAccepts
<1> QED BY <1>1, PipelineHolds, PTL

\* Of a graph that step 2 built, step 3 prunes no edge (graph_builder.py, environment.py).
THEOREM NothingIsPruned == Spec => []BuiltGraphsStayWhole
<1>1. IInv => BuiltGraphsStayWhole
  BY Whole DEF IInv
<1> QED BY <1>1, PipelineHolds, PTL

\* A narrative lists only what the prompt shows, no walk of it comes to a node twice, and
\* unless it says that its evidence is partial, every required path is listed or counted.
THEOREM NarrativesAreHonest == Spec => []NarrativeHonest
<1>1. IInv => NarrativeHonest
  BY DEF IInv, ToldInv
<1> QED BY <1>1, PipelineHolds, PTL

-----------------------------------------------------------------------------
(* The collection of the alerts.                                           *)

CallRow == [pc : {"idle", "store", "raw", "query", "done", "refused"}, config : Config \cup {None},
            from : Collect!Time \cup {None}, to : Collect!Time \cup {None},
            left : SUBSET Collect!Kinds, got : SUBSET Source, asked : SUBSET Source,
            read : Collect!Time, failed : BOOLEAN]

CollectTypes ==
    /\ now \in Collect!Time /\ raw \in [Source -> Collect!Time \cup {None}]
    /\ stored \subseteq {a \in Source : a.kind \in Collect!Stored /\ raw[a] # None}
    /\ call \in CallRow

\* What a collection in progress has to do, and the times it was asked for.
InProgress ==
    /\ call.asked \subseteq stored
    /\ call.from # None => call.from <= now
    /\ call.to # None => call.to <= now /\ (call.from # None => call.from <= call.to)
    /\ call.pc # "idle" => call.config \in Config
    /\ call.pc \in {"store", "raw"} => call.config.mode # "unified" /\ call.left # {}
    /\ call.pc = "query" => call.config.mode = "unified"
    /\ call.pc = "done" /\ call.config.mode # "unified" => call.left = {}

\* What the store is bound to give of a kind.
Bound(kind) ==
    {a \in Collect!Due : /\ a.kind = kind
                         /\ call.config.database = "postgres" \/ raw[a] # call.to}

\* The kinds that were read from the store, or of which it has none.
Gathered ==
    call.pc \in {"store", "raw", "done"} /\ call.config.mode # "unified" =>
        /\ ~call.failed =>
              /\ \A kind \in call.config.prefer \ call.left : Bound(kind) \subseteq call.got
              /\ call.pc = "raw" /\ Collect!Current \in call.config.prefer =>
                    Bound(Collect!Current) = {}
        /\ call.config.fallback
           \/ /\ call.got \cap Collect!OfKinds(call.config.prefer) \subseteq stored
              /\ call.pc = "raw" => Collect!Current \notin call.config.prefer

CollectInv == CollectTypes /\ InProgress /\ Gathered /\ CollectedWhole

LEMMA CollectFacts ==
    ASSUME Collect!CollectAssumption
    PROVE  /\ MaxTime \in Nat /\ Hour \in Nat \ {0} /\ None \notin Int
           /\ Collect!Time \subseteq Nat /\ 0 \in Collect!Time /\ None \notin Collect!Time
           /\ \A config \in Config : /\ config.mode \in {"each", "unified"}
                                     /\ config.database \in {"postgres", "sqlite"}
                                     /\ config.prefer \subseteq Collect!Stored
BY DEF Collect!CollectAssumption, Collect!Time

LEMMA CurrentIn ==
    ASSUME call.left \subseteq Collect!Kinds, call.left # {}
    PROVE  Collect!Current \in call.left
<1> DEFINE order == <<"file", "account", "parasitic", "audit">>
           First(n) == order[n] \in call.left /\ \A m \in 1..n - 1 : order[m] \notin call.left
<1>1. \E n \in 1..4 : order[n] \in call.left
  BY DEF Collect!Kinds, Collect!Stored
<1>2. \E n \in 1..4 : First(n)
  <2>1. CASE order[1] \in call.left
    <3>1. First(1)
      BY <2>1
    <3> QED BY <3>1
  <2>2. CASE order[1] \notin call.left /\ order[2] \in call.left
    <3>1. First(2)
      BY <2>2
    <3> QED BY <3>1
  <2>3. CASE order[1] \notin call.left /\ order[2] \notin call.left /\ order[3] \in call.left
    <3>1. First(3)
      BY <2>3
    <3> QED BY <3>1
  <2>4. CASE order[1] \notin call.left /\ order[2] \notin call.left /\ order[3] \notin call.left
    <3>1. First(4)
      BY <1>1, <2>4
    <3> QED BY <3>1
  <2> QED BY <2>1, <2>2, <2>3, <2>4
<1>3. Collect!Current = order[CHOOSE n \in 1..4 : First(n)]
  BY DEF Collect!Current
<1> HIDE DEF order
<1> QED BY <1>2, <1>3

\* While alerts come and are pulled, the collection goes on with what it was asked for.
LEMMA ArrivalStep ==
    ASSUME Collect!CollectAssumption, CollectInv,
           Collect!Tick \/ \E a \in Source : Collect!Occur(a) \/ Collect!Pulled(a)
    PROVE  CollectInv'
<1> USE DEF CollectInv
<1> DEFINE Arrived == /\ call' = call /\ stored \subseteq stored' /\ now <= now'
                      /\ now' \in Collect!Time /\ raw' \in [Source -> Collect!Time \cup {None}]
                      /\ stored' \subseteq {a \in Source : a.kind \in Collect!Stored /\ raw'[a] # None}
                      /\ \A a \in stored : raw'[a] = raw[a]
<1>1. Arrived
  <2>1. CASE Collect!Tick
    BY <2>1, CollectFacts DEF Collect!Tick, Collect!Time, CollectTypes
  <2>2. ASSUME NEW a \in Source, Collect!Occur(a) PROVE Arrived
    <3>1. /\ raw[a] = None /\ raw' = [raw EXCEPT ![a] = now] /\ UNCHANGED <<now, stored, call>>
      BY <2>2 DEF Collect!Occur
    <3>2. a \notin stored /\ now # None /\ now <= now
      BY <3>1, CollectFacts DEF CollectTypes
    <3>3. /\ raw' \in [Source -> Collect!Time \cup {None}]
          /\ \A b \in Source : b # a => raw'[b] = raw[b]
      BY <3>1 DEF CollectTypes
    <3> QED BY <3>1, <3>2, <3>3 DEF CollectTypes
  <2>3. ASSUME NEW a \in Source, Collect!Pulled(a) PROVE Arrived
    <3>1. /\ raw[a] # None /\ a.kind \in Collect!Stored /\ stored' = stored \cup {a}
          /\ UNCHANGED <<now, raw, call>> /\ now <= now
      BY <2>3, CollectFacts DEF Collect!Pulled, CollectTypes
    <3> QED BY <3>1 DEF CollectTypes
  <2> QED BY <2>1, <2>2, <2>3
<1>2. CollectTypes'
  BY <1>1 DEF CollectTypes
<1>3. InProgress'
  <2>1. now \in Nat /\ now' \in Nat /\ (call.from # None => call.from \in Nat)
        /\ (call.to # None => call.to \in Nat)
    BY <1>1, CollectFacts DEF CollectTypes, CallRow
  <2> QED BY <1>1, <2>1 DEF InProgress
<1>4. \A a \in call.asked : raw'[a] = raw[a]
  BY <1>1 DEF InProgress
<1>5. Collect!Due' = Collect!Due
  BY <1>1, <1>4 DEF Collect!Due, Collect!InTimeRange
<1>6. \A a \in Collect!Due : raw'[a] = raw[a]
  BY <1>4 DEF Collect!Due
<1>7. \A kind : Bound(kind)' = Bound(kind)
  BY <1>1, <1>5, <1>6 DEF Bound
<1>8. Collect!Current' = Collect!Current
  BY <1>1 DEF Collect!Current
<1>9. \A kinds : Collect!OfKinds(kinds)' = Collect!OfKinds(kinds)
  BY DEF Collect!OfKinds
<1>10. Gathered'
  BY <1>1, <1>7, <1>8, <1>9 DEF Gathered
<1>11. CollectedWhole'
  BY <1>1, <1>5, <1>6, <1>9 DEF CollectedWhole, Collect!CollectedWhole
<1> QED BY <1>2, <1>3, <1>10, <1>11

LEMMA CallStep ==
    ASSUME Collect!CollectAssumption, CollectInv, NEW config \in Config, NEW w \in Collect!Window,
           Collect!Call(config, w[1], w[2])
    PROVE  CollectInv'
<1> USE DEF CollectInv
<1>1. /\ w[1] \in Collect!Time \cup {None} /\ w[2] \in {now, None}
      /\ w[1] # None => w[1] <= now
  BY DEF Collect!Window
<1>2. /\ call'.pc = IF config.mode = "unified" THEN "query" ELSE "store"
      /\ call'.config = config /\ call'.from = w[1] /\ call'.to = w[2] /\ call'.asked = stored
      /\ call'.left = Collect!Stored \cup (IF config.audit THEN {"audit"} ELSE {})
      /\ call'.got = {} /\ call'.failed = FALSE /\ call'.read = 0
      /\ call' = [pc |-> call'.pc, config |-> config, from |-> w[1], to |-> w[2], left |-> call'.left,
                  got |-> {}, asked |-> stored, read |-> 0, failed |-> FALSE]
      /\ UNCHANGED <<now, raw, stored>>
  BY DEF Collect!Call, Collect!NoCall
<1>3. CollectTypes'
  <2>1. /\ call'.left \subseteq Collect!Kinds /\ stored \subseteq Source /\ now \in Collect!Time
        /\ call'.pc \in {"query", "store"} /\ 0 \in Collect!Time
    BY <1>2, CollectFacts DEF CollectTypes, Collect!Kinds
  <2>2. call' \in CallRow
    BY <1>1, <1>2, <2>1 DEF CallRow
  <2> QED BY <1>2, <2>2 DEF CollectTypes
<1>4. InProgress'
  <2>1. now \in Nat /\ "file" \in call'.left
    BY <1>2, CollectFacts DEF CollectTypes, Collect!Stored
  <2> QED BY <1>1, <1>2, <2>1 DEF InProgress
<1>5. Gathered'
  <2>1. config.prefer \ call'.left = {}
    BY <1>2, CollectFacts
  <2> QED BY <1>2, <2>1 DEF Gathered
<1>6. CollectedWhole'
  BY <1>2 DEF CollectedWhole, Collect!CollectedWhole
<1> QED BY <1>3, <1>4, <1>5, <1>6

\* A kind is done with: what was read of it has what the store is bound to give.
LEMMA KindDone ==
    ASSUME Collect!CollectAssumption, CollectInv, call.pc \in {"store", "raw"},
           NEW rows \in SUBSET Source, NEW failed \in BOOLEAN, call.failed => failed,
           call' = [Collect!With(rows) EXCEPT !.failed = failed], UNCHANGED <<now, raw, stored>>,
           ~failed /\ Collect!Current \in call.config.prefer => Bound(Collect!Current) \subseteq rows,
           call.config.fallback \/ rows \cap Collect!OfKinds(call.config.prefer) \subseteq stored
    PROVE  CollectInv'
<1> USE DEF CollectInv
<1> DEFINE kind == Collect!Current
<1>1. call \in CallRow /\ kind \in call.left /\ call.left \subseteq Collect!Kinds
  BY CurrentIn DEF CollectTypes, CallRow, InProgress
<1>2. /\ call'.config = call.config /\ call'.from = call.from /\ call'.to = call.to
      /\ call'.asked = call.asked /\ call'.read = call.read /\ call'.failed = failed
      /\ call'.got = call.got \cup rows /\ call'.left = call.left \ {kind}
      /\ call'.pc = IF call.left = {kind} THEN "done" ELSE "store"
      /\ call' \in CallRow
  BY <1>1 DEF Collect!With, CallRow
<1> HIDE DEF kind
<1>3. CollectTypes'
  BY <1>2 DEF CollectTypes
<1>4. call.config.mode # "unified" /\ call.config \in Config
  BY DEF InProgress
<1>5. InProgress'
  BY <1>1, <1>2, <1>4 DEF InProgress
<1>6. Collect!Due' = Collect!Due /\ \A k : Bound(k)' = Bound(k)
  <2>1. Collect!Due' = Collect!Due
    BY <1>2 DEF Collect!Due, Collect!InTimeRange
  <2> QED BY <1>2, <2>1 DEF Bound
<1>7. \A kinds : Collect!OfKinds(kinds)' = Collect!OfKinds(kinds)
  BY DEF Collect!OfKinds
<1>8. Gathered'
  <2>1. ASSUME ~failed, NEW k \in call.config.prefer \ call'.left PROVE Bound(k) \subseteq call'.got
    BY <1>2, <1>4, <2>1 DEF Gathered, kind
  <2>2. \/ call.config.fallback
        \/ call'.got \cap Collect!OfKinds(call.config.prefer) \subseteq stored
    BY <1>2, <1>4 DEF Gathered
  <2> QED BY <1>2, <1>6, <1>7, <2>1, <2>2 DEF Gathered
<1>9. CollectedWhole'
  <2>1. ASSUME call'.pc = "done", ~failed, NEW a \in Collect!Due,
               a \in Collect!OfKinds(call.config.prefer),
               call.config.database = "postgres" \/ raw[a] # call.to
        PROVE  a \in call'.got
    <3>1. a.kind \in call.config.prefer \ call'.left /\ a \in Bound(a.kind)
      BY <1>2, <2>1 DEF Collect!OfKinds, Bound
    <3> QED BY <1>2, <1>4, <1>6, <1>8, <2>1, <3>1 DEF Gathered
  <2>2. ASSUME call'.pc = "done" 
        PROVE  \/ call.config.fallback
               \/ call'.got \cap Collect!OfKinds(call.config.prefer) \subseteq stored
    BY <1>2, <1>4, <1>7, <1>8, <2>2 DEF Gathered
  <2> QED BY <1>2, <1>4, <1>6, <1>7, <2>1, <2>2 DEF CollectedWhole, Collect!CollectedWhole
<1> QED BY <1>3, <1>5, <1>8, <1>9

\* The raw source of a kind is turned to.
LEMMA TurnToRaw ==
    ASSUME Collect!CollectAssumption, CollectInv, call.pc = "store",
           NEW failed \in BOOLEAN, call.failed => failed,
           call' = [call EXCEPT !.pc = "raw", !.failed = failed], UNCHANGED <<now, raw, stored>>,
           ~failed /\ Collect!Current \in call.config.prefer => Bound(Collect!Current) = {},
           call.config.fallback \/ Collect!Current \notin call.config.prefer
    PROVE  CollectInv'
<1> USE DEF CollectInv
<1>1. call \in CallRow
  BY DEF CollectTypes
<1>2. /\ call'.config = call.config /\ call'.from = call.from /\ call'.to = call.to
      /\ call'.asked = call.asked /\ call'.read = call.read /\ call'.failed = failed
      /\ call'.got = call.got /\ call'.left = call.left /\ call'.pc = "raw"
      /\ call' \in CallRow
  BY <1>1 DEF CallRow
<1>3. CollectTypes' /\ InProgress'
  BY <1>2 DEF CollectTypes, InProgress
<1>4. /\ Collect!Due' = Collect!Due /\ Collect!Current' = Collect!Current
      /\ \A k : Bound(k)' = Bound(k)
  <2>1. Collect!Due' = Collect!Due
    BY <1>2 DEF Collect!Due, Collect!InTimeRange
  <2> QED BY <1>2, <2>1 DEF Bound, Collect!Current
<1>5. \A kinds : Collect!OfKinds(kinds)' = Collect!OfKinds(kinds)
  BY DEF Collect!OfKinds
<1>6. Gathered'
  BY <1>2, <1>4, <1>5 DEF Gathered, InProgress
<1>7. CollectedWhole'
  BY <1>2 DEF CollectedWhole, Collect!CollectedWhole
<1> QED BY <1>3, <1>6, <1>7

\* A collection that is refused has nothing to show.
LEMMA RefusedStep ==
    ASSUME CollectInv, call.pc # "idle", call' = [call EXCEPT !.pc = "refused"],
           UNCHANGED <<now, raw, stored>>
    PROVE  CollectInv'
<1> USE DEF CollectInv
<1>1. call \in CallRow
  BY DEF CollectTypes
<1>2. /\ call'.config = call.config /\ call'.from = call.from /\ call'.to = call.to
      /\ call'.asked = call.asked /\ call'.pc = "refused" /\ call' \in CallRow
  BY <1>1 DEF CallRow
<1> QED BY <1>2 DEF CollectTypes, InProgress, Gathered, CollectedWhole, Collect!CollectedWhole

LEMMA FromStoreStep ==
    ASSUME Collect!CollectAssumption, CollectInv,
           Collect!ReadStore \/ Collect!ReadStoreFails \/ Collect!NotInStore
    PROVE  CollectInv'
<1> USE DEF CollectInv
<1>1. call.pc = "store" /\ UNCHANGED <<now, raw, stored>> /\ call \in CallRow
  BY DEF Collect!ReadStore, Collect!ReadStoreFails, Collect!NotInStore, CollectTypes
<1>2. call.failed \in BOOLEAN /\ stored \subseteq Source
  BY <1>1 DEF CallRow, CollectTypes
<1>3. \A rows : Collect!With(rows) = [Collect!With(rows) EXCEPT !.failed = call.failed]
  BY <1>1 DEF Collect!With, CallRow
<1>4. call = [call EXCEPT !.failed = call.failed]
  BY <1>1 DEF CallRow
<1>5. CASE Collect!NotInStore
  <2>1. Collect!Current \notin call.config.prefer /\ call' = [call EXCEPT !.pc = "raw"]
    BY <1>5 DEF Collect!NotInStore
  <2>2. call' = [call EXCEPT !.pc = "raw", !.failed = call.failed]
    BY <1>1, <2>1 DEF CallRow
  <2> QED BY <1>1, <1>2, <2>1, <2>2, TurnToRaw
<1>6. CASE Collect!ReadStore
  <2>1. PICK atEnd \in {call.config.database = "postgres", TRUE} :
          /\ Collect!Current \in call.config.prefer
          /\ call' = Collect!Answered(Collect!WindowQuery(Collect!Current, atEnd))
    BY <1>6 DEF Collect!ReadStore
  <2> DEFINE rows == Collect!WindowQuery(Collect!Current, atEnd)
  <2>2. rows \subseteq stored
    BY DEF Collect!WindowQuery
  <2>3. Bound(Collect!Current) \subseteq rows
    BY <2>1 DEF Bound, Collect!Due, Collect!WindowQuery, InProgress
  <2> HIDE DEF rows
  <2>4. CASE rows # {} \/ ~call.config.fallback
    <3>1. call' = [Collect!With(rows) EXCEPT !.failed = call.failed]
      BY <1>3, <2>1, <2>4 DEF Collect!Answered, rows
    <3>2. rows \in SUBSET Source /\ rows \cap Collect!OfKinds(call.config.prefer) \subseteq stored
      BY <1>2, <2>2
    <3> QED BY <1>1, <1>2, <2>3, <3>1, <3>2, KindDone
  <2>5. CASE rows = {} /\ call.config.fallback
    <3>1. call' = [call EXCEPT !.pc = "raw"]
      BY <2>1, <2>5 DEF Collect!Answered, rows
    <3>2. call' = [call EXCEPT !.pc = "raw", !.failed = call.failed]
      BY <1>1, <3>1 DEF CallRow
    <3> QED BY <1>1, <1>2, <2>3, <2>5, <3>2, TurnToRaw
  <2>6. call.config.fallback \in BOOLEAN
    BY <1>1 DEF InProgress, Collect!CollectAssumption
  <2> QED BY <2>4, <2>5, <2>6
<1>7. CASE Collect!ReadStoreFails
  <2>1. CASE call.config.database = "postgres"
    BY <1>1, <1>7, <2>1, RefusedStep DEF Collect!ReadStoreFails
  <2>2. CASE call.config.database # "postgres"
    <3>1. call' = [Collect!Answered({}) EXCEPT !.failed = TRUE]
      BY <1>7, <2>2 DEF Collect!ReadStoreFails
    <3>2. CASE call.config.fallback
      <4>1. call' = [call EXCEPT !.pc = "raw", !.failed = TRUE]
        BY <1>1, <3>1, <3>2 DEF Collect!Answered, CallRow
      <4> QED BY <1>1, <3>2, <4>1, TurnToRaw
    <3>3. CASE ~call.config.fallback
      <4>1. call' = [Collect!With({}) EXCEPT !.failed = TRUE]
        BY <3>1, <3>3 DEF Collect!Answered
      <4> QED BY <1>1, <4>1, KindDone
    <3> QED BY <3>2, <3>3
  <2> QED BY <2>1, <2>2
<1> QED BY <1>5, <1>6, <1>7

LEMMA RawStep ==
    ASSUME Collect!CollectAssumption, CollectInv, Collect!ReadRaw
    PROVE  CollectInv'
<1> USE DEF CollectInv
<1>1. /\ call.pc = "raw" /\ UNCHANGED <<now, raw, stored>> /\ call \in CallRow
  BY DEF Collect!ReadRaw, CollectTypes
<1>2. PICK rows \in SUBSET Collect!RawRows(Collect!Current) : call' = Collect!With(rows)
  BY DEF Collect!ReadRaw
<1>3. /\ rows \in SUBSET Source /\ \A a \in rows : a.kind = Collect!Current
      /\ call.failed \in BOOLEAN
  BY <1>1 DEF Collect!RawRows, CallRow
<1>4. call' = [Collect!With(rows) EXCEPT !.failed = call.failed]
  BY <1>1, <1>2 DEF Collect!With, CallRow
<1>5. call.config.mode # "unified"
  BY <1>1 DEF InProgress
<1>6. ~call.failed /\ Collect!Current \in call.config.prefer => Bound(Collect!Current) \subseteq rows
  BY <1>1, <1>5 DEF Gathered
<1>7. call.config.fallback \/ rows \cap Collect!OfKinds(call.config.prefer) \subseteq stored
  BY <1>1, <1>3, <1>5 DEF Gathered, Collect!OfKinds
<1> QED BY <1>1, <1>3, <1>4, <1>6, <1>7, KindDone

\* The hours that are asked for cover the window.
LEMMA HoursCover ==
    ASSUME NEW length \in Int, NEW hour \in Nat \ {0}
    PROVE  /\ (length + hour - 1) \div hour \in Int
           /\ ((length + hour - 1) \div hour) * hour >= length
  OBVIOUS

LEMMA HoursBackCover ==
    ASSUME Collect!CollectAssumption, CollectInv, call.from # None
    PROVE  /\ Collect!Length \in Int /\ Collect!HoursBack \in Int
           /\ Collect!HoursBack * Hour >= Collect!Length
<1>1. now \in Nat /\ call.from \in Nat /\ (call.to # None => call.to \in Nat) /\ Hour \in Nat \ {0}
  BY CollectFacts DEF CollectInv, CollectTypes, CallRow
<1>2. Collect!Length \in Int
  BY <1>1 DEF Collect!Length
<1> DEFINE up == (Collect!Length + Hour - 1) \div Hour
<1>3. up \in Int /\ up * Hour >= Collect!Length
  BY <1>1, <1>2, HoursCover
<1>4. Collect!HoursBack = Collect!Max({up, 1})
  BY DEF Collect!HoursBack
<1> HIDE DEF up
<1>5. Collect!Max({up, 1}) \in Int /\ Collect!Max({up, 1}) >= up
  <2> DEFINE Most(x) == \A y \in {up, 1} : x >= y
  <2>1. \E x \in {up, 1} : Most(x)
    BY <1>3
  <2>2. Collect!Max({up, 1}) = CHOOSE x \in {up, 1} : Most(x)
    BY DEF Collect!Max
  <2> HIDE DEF Most
  <2>3. Collect!Max({up, 1}) \in {up, 1} /\ Most(Collect!Max({up, 1}))
    BY <2>1, <2>2
  <2> QED BY <1>3, <2>3 DEF Most
<1>6. Collect!HoursBack * Hour >= up * Hour
  BY <1>1, <1>3, <1>4, <1>5, Z3
<1> QED BY <1>1, <1>2, <1>3, <1>4, <1>5, <1>6

LEMMA QueryStep ==
    ASSUME Collect!CollectAssumption, CollectInv, Collect!QueryApi
    PROVE  CollectInv'
<1> USE DEF CollectInv
<1>1. /\ call.pc = "query" /\ UNCHANGED <<now, raw, stored>> /\ call \in CallRow
      /\ call.config.mode = "unified" /\ call.config \in Config
  <2>1. call.pc = "query" /\ UNCHANGED <<now, raw, stored>>
    BY Zenon DEF Collect!QueryApi
  <2> QED BY <2>1 DEF CollectTypes, InProgress
<1>2. CASE call' = [call EXCEPT !.pc = "refused"]
  BY <1>1, <1>2, RefusedStep
<1>3. ASSUME NEW atStart \in BOOLEAN,
             call' = [call EXCEPT !.pc = "done", !.read = now, !.got =
                {a \in stored : /\ a.kind \in call.config.include /\ Collect!InTimeRange(raw[a])
                                /\ \/ raw[a] + Collect!HoursBack * Hour > now
                                   \/ atStart /\ raw[a] + Collect!HoursBack * Hour = now}]
      PROVE  CollectTypes' /\ InProgress' /\ Gathered' /\ CollectedWhole'
  <2> DEFINE rows == {a \in stored : /\ a.kind \in call.config.include /\ Collect!InTimeRange(raw[a])
                                     /\ \/ raw[a] + Collect!HoursBack * Hour > now
                                        \/ atStart /\ raw[a] + Collect!HoursBack * Hour = now}
  <2>0. call' = [call EXCEPT !.pc = "done", !.read = now, !.got = rows]
    BY <1>3
  <2>1. rows \subseteq stored /\ stored \subseteq Source /\ now \in Collect!Time
    BY DEF CollectTypes
  <2>2. ASSUME call.from # None, NEW a \in Collect!Due, a.kind \in call.config.include,
               raw[a] + (IF call.to = None THEN now ELSE call.to) > call.from + now
        PROVE  a \in rows
    <3>1. a \in stored /\ Collect!InTimeRange(raw[a]) /\ raw[a] \in Nat
      BY CollectFacts DEF Collect!Due, InProgress, CollectTypes
    <3>2. now \in Nat /\ call.from \in Nat /\ (call.to # None => call.to \in Nat) /\ Hour \in Nat
      BY <1>1, <2>2, CollectFacts DEF CollectTypes, CallRow
    <3>3. raw[a] + Collect!Length > now
      BY <2>2, <3>1, <3>2 DEF Collect!Length
    <3>4. PICK n \in Int : n = Collect!HoursBack * Hour
      BY <2>2, <3>2, HoursBackCover
    <3>5. n >= Collect!Length /\ Collect!Length \in Int
      BY <2>2, <3>4, HoursBackCover
    <3>6. raw[a] + n > now
      BY <3>1, <3>2, <3>3, <3>5
    <3> QED BY <2>2, <3>1, <3>4, <3>6
  <2> HIDE DEF rows
  <2>3. /\ call'.config = call.config /\ call'.from = call.from /\ call'.to = call.to
        /\ call'.asked = call.asked /\ call'.read = now /\ call'.got = rows
        /\ call'.left = call.left /\ call'.pc = "done" /\ call' \in CallRow
    BY <1>1, <2>0, <2>1 DEF CallRow
  <2>4. CollectTypes' /\ InProgress' /\ Gathered'
    BY <1>1, <2>3 DEF CollectTypes, InProgress, Gathered
  <2>5. Collect!Due' = Collect!Due
    BY <1>1, <2>3 DEF Collect!Due, Collect!InTimeRange
  <2>6. Collect!OfKinds(call.config.include)' = Collect!OfKinds(call.config.include)
    BY <2>3 DEF Collect!OfKinds
  <2>7. CollectedWhole'
    BY <1>1, <2>1, <2>2, <2>3, <2>5, <2>6 DEF CollectedWhole, Collect!CollectedWhole, Collect!OfKinds
  <2> QED BY <2>4, <2>7
<1>4. \/ call' = [call EXCEPT !.pc = "refused"]
      \/ \E atStart \in BOOLEAN :
            call' = [call EXCEPT !.pc = "done", !.read = now, !.got =
               {a \in stored : /\ a.kind \in call.config.include /\ Collect!InTimeRange(raw[a])
                               /\ \/ raw[a] + Collect!HoursBack * Hour > now
                                  \/ atStart /\ raw[a] + Collect!HoursBack * Hour = now}]
  BY Zenon DEF Collect!QueryApi
<1>5. CASE \E atStart \in BOOLEAN :
            call' = [call EXCEPT !.pc = "done", !.read = now, !.got =
               {a \in stored : /\ a.kind \in call.config.include /\ Collect!InTimeRange(raw[a])
                               /\ \/ raw[a] + Collect!HoursBack * Hour > now
                                  \/ atStart /\ raw[a] + Collect!HoursBack * Hour = now}]
  <2>1. CollectTypes' /\ InProgress' /\ Gathered' /\ CollectedWhole'
    BY <1>3, <1>5, Zenon
  <2> QED BY <2>1
<1> QED BY <1>2, <1>4, <1>5, Zenon

LEMMA CollectInit ==
    ASSUME Collect!CollectAssumption, Collect!Init
    PROVE  CollectInv
<1>1. /\ now = 0 /\ raw = [a \in Source |-> None] /\ stored = {} /\ call = Collect!NoCall
  BY DEF Collect!Init
<1>2. 0 \in Collect!Time
  BY CollectFacts
<1>3. CollectTypes
  BY <1>1, <1>2 DEF CollectTypes, CallRow, Collect!NoCall
<1> QED BY <1>1, <1>3 DEF CollectInv, InProgress, Gathered, CollectedWhole, Collect!CollectedWhole,
              Collect!NoCall

LEMMA CollectNext ==
    ASSUME Collect!CollectAssumption, CollectInv, [Collect!Next]_Collect!vars
    PROVE  CollectInv'
<1>1. CASE Collect!Tick \/ \E a \in Source : Collect!Occur(a) \/ Collect!Pulled(a)
  BY <1>1, ArrivalStep
<1>2. ASSUME NEW config \in Config, NEW w \in Collect!Window, Collect!Call(config, w[1], w[2])
      PROVE  CollectInv'
  BY <1>2, CallStep
<1>3. CASE Collect!ReadStore \/ Collect!ReadStoreFails \/ Collect!NotInStore
  BY <1>3, FromStoreStep
<1>4. CASE Collect!ReadRaw
  BY <1>4, RawStep
<1>5. CASE Collect!QueryApi
  BY <1>5, QueryStep
<1>6. CASE UNCHANGED Collect!vars
  <2>1. now' = now /\ raw' = raw /\ stored' = stored /\ call' = call
    BY <1>6 DEF Collect!vars
  <2>2. CollectTypes' /\ InProgress'
    BY <2>1 DEF CollectInv, CollectTypes, InProgress
  <2>3. /\ Collect!Due' = Collect!Due /\ Collect!Current' = Collect!Current
        /\ \A kinds : Collect!OfKinds(kinds)' = Collect!OfKinds(kinds)
    BY <2>1 DEF Collect!Due, Collect!InTimeRange, Collect!Current, Collect!OfKinds
  <2>4. \A kind : Bound(kind)' = Bound(kind)
    BY <2>1, <2>3 DEF Bound
  <2>5. Gathered' /\ CollectedWhole'
    BY <2>1, <2>3, <2>4 DEF CollectInv, Gathered, CollectedWhole, Collect!CollectedWhole
  <2> QED BY <2>2, <2>5 DEF CollectInv
<1> QED BY <1>1, <1>2, <1>3, <1>4, <1>5, <1>6 DEF Collect!Next

\* A collection that ends has every alert of its window that the store had when it was
\* asked, although kinds are read one after the other while alerts come and are pulled
\* (collector.py, collect_all): whatever the kinds, the windows and the hours.
THEOREM CollectionIsWhole ==
    ASSUME Collect!CollectAssumption
    PROVE  Collect!Spec => []CollectedWhole
<1>1. Collect!Init => CollectInv
  BY CollectInit
<1>2. CollectInv /\ [Collect!Next]_Collect!vars => CollectInv'
  BY CollectNext
<1>3. CollectInv => CollectedWhole
  BY DEF CollectInv
<1> QED BY <1>1, <1>2, <1>3, PTL DEF Collect!Spec

\* Types.
THEOREM CollectionTypes ==
    ASSUME Collect!CollectAssumption
    PROVE  Collect!Spec => []Collect!TypeOK
<1>1. Collect!Init => CollectInv
  BY CollectInit
<1>2. CollectInv /\ [Collect!Next]_Collect!vars => CollectInv'
  BY CollectNext
<1>3. CollectInv => Collect!TypeOK
  BY DEF CollectInv, CollectTypes, CallRow, Collect!TypeOK
<1> QED BY <1>1, <1>2, <1>3, PTL DEF Collect!Spec

-----------------------------------------------------------------------------
(* How alerts get to the graph.                                            *)

\* How a record is read: by the mapping of the way that was chosen, or from the honeypot.
Reading(r) ==
    CASE way = "unified" -> Mapping!MapApiRow(Mapping!Pulled(r))
      [] way = "export" -> Mapping!MapExportRow(Mapping!Pulled(r))
      [] OTHER -> IF r.kind \in fallen THEN Mapping!Adapt(r) ELSE Mapping!Parse(Mapping!Pulled(r))

MappingInv ==
    /\ progress \in {"reports", "collected", "graph"}
    /\ reports \subseteq Record
    /\ way \in {None, "unified", "export", "each"} /\ fallen \subseteq Mapping!Stored \cup {"audit"}
    /\ progress = "reports" => items = <<>>
    /\ progress # "graph" => mapped = <<>>
    /\ progress \in {"collected", "graph"} =>
          /\ way \in {"unified", "export", "each"}
          /\ way = "each" => "audit" \in fallen
          /\ DOMAIN items \subseteq reports
          /\ way # "each" => fallen = {} /\ \A r \in DOMAIN items : r.kind \in Mapping!Stored
          /\ \A r \in DOMAIN items : items[r] = Reading(r)
    /\ progress = "graph" =>
          mapped = [r \in DOMAIN items |->
                      [source |-> items[r].source, object |-> items[r].object,
                       anchors |-> Mapping!Anchors(Mapping!NormalizeEvent(items[r]))]]

LEMMA MappingNext ==
    ASSUME MappingInv, [Mapping!Next]_Mapping!vars
    PROVE  MappingInv'
<1> USE DEF MappingInv
<1>1. ASSUME NEW r \in Record, Mapping!Report(r) PROVE MappingInv'
  BY <1>1 DEF Mapping!Report
<1>2. CASE Mapping!CollectApi
  BY <1>2 DEF Mapping!CollectApi, Mapping!CollectRows, Reading, Mapping!Stored
<1>3. CASE Mapping!Export
  BY <1>3 DEF Mapping!Export, Mapping!CollectRows, Reading, Mapping!Stored
<1>4. ASSUME NEW kinds \in SUBSET Mapping!Stored, Mapping!CollectEach(kinds \cup {"audit"})
      PROVE  MappingInv'
  BY <1>4 DEF Mapping!CollectEach, Reading
<1>5. CASE Mapping!Build
  BY <1>5 DEF Mapping!Build, Reading
<1>6. CASE UNCHANGED Mapping!vars
  BY <1>6 DEF Mapping!vars, Reading
<1> QED BY <1>1, <1>2, <1>3, <1>4, <1>5, <1>6 DEF Mapping!Next

-----------------------------------------------------------------------------
\* What a reader keeps of a record: the address, the session and the user in as far as
\* it has them, and what it calls the browser.
IpOf(r) == IF r.kind = "audit" THEN None ELSE r.ip
SessionOf(r) == IF Mapping!Raw(r) /\ r.camel THEN None ELSE r.session
UserOf(r) == IF Mapping!Raw(r) /\ r.protocol = "openvpn" THEN None ELSE r.user
BrowserOf(r) ==
    IF r.kind # "parasitic" THEN None
    ELSE IF r.fp # None THEN r.fp
    ELSE IF Mapping!Raw(r) \/ r.session = None THEN "unknown" ELSE r.session

\* The anchors that these identities give.
Given(pairs) == {a \in pairs : a[2] # None}
Marks(ip, fp, session, user) ==
    Given({<<"ip", ip>>, <<"fp", fp>>, <<"session", session>>, <<"user", user>>})

Columns == {"ip", "source", "object", "label", "fp", "session", "user", "campaign"}

\* The last part of a node names it.
LastOf(node) == node[Len(node)]

\* An item that tells of a record whose it is, and calls its object by a name its reader
\* knows, if there is one.
Tells(item, r) ==
    /\ DOMAIN item = Columns
    /\ item.ip = IpOf(r) /\ item.session = SessionOf(r) /\ item.user = UserOf(r)
    /\ (IF item.source[1] = "browser" THEN item.label ELSE item.fp) = BrowserOf(r)
    /\ \/ item.source[1] = "process"
       \/ item.source = <<"network", Mapping!Or(IpOf(r), "unknown")>>
       \/ item.source = <<"browser", BrowserOf(r)>> /\ r.kind = "parasitic"
    /\ \/ LastOf(item.object) \in Mapping!Known(r)
       \/ LastOf(item.object) \in {None, "unknown"} /\ Mapping!Known(r) = {}

LEMMA ItemAnchors ==
    ASSUME NEW item, NEW r, Tells(item, r)
    PROVE  Mapping!Anchors(Mapping!NormalizeEvent(item)) =
               Marks(IpOf(r), BrowserOf(r), SessionOf(r), UserOf(r))
<1> DEFINE e == Mapping!NormalizeEvent(item)
<1>1. /\ e["ip"] = IpOf(r) /\ e["session"] = SessionOf(r) /\ e["user"] = UserOf(r)
      /\ e["fp"] = BrowserOf(r) /\ e["campaign"] = None
  BY DEF Tells, Columns, Mapping!NormalizeEvent
<1> HIDE DEF e
<1> QED BY <1>1 DEF Mapping!Anchors, Marks, Given, e

LEMMA PulledIs ==
    ASSUME NEW r \in Record, Mapping!MappingAssumption
    PROVE  LET p == Mapping!Pulled(r)
           IN  /\ p.kind = r.kind /\ p.ip = r.ip /\ p.fp = r.fp /\ p.session = r.session
               /\ p.user = r.user /\ p.protocol = r.protocol /\ p.dst = r.dst /\ p.token = r.token
               /\ p.labels = r.labels
               /\ r.kind = "parasitic" => p.camel = FALSE /\ p.url = Mapping!Or(r.url, "unknown")
               /\ r.kind # "parasitic" => p.url = r.url /\ p.camel = r.camel
               /\ r.kind = "file" => /\ p.path = Mapping!Or(Honeyfile[r.token].path, "-")
                                     /\ p.name = Mapping!Or(Honeyfile[r.token].name, "-")
<1>1. DOMAIN r = Mapping!Fields
  BY DEF Mapping!MappingAssumption
<1> QED BY <1>1 DEF Mapping!Pulled, Mapping!Fields

\* A reader knows an object by names of the record.
LEMMA KnownNames ==
    ASSUME Mapping!MappingAssumption, NEW r \in Record
    PROVE  /\ Mapping!Known(r) \subseteq Mapping!Names(r) \ {None}
           /\ "unknown" \notin Mapping!Known(r) /\ "-" \notin Mapping!Known(r)
<1>1. /\ r.kind \in {"file", "account", "parasitic", "audit"}
      /\ Mapping!Names(r) \cap {"unknown", "-"} = {}
  BY DEF Mapping!MappingAssumption, Mapping!Stored
<1>2. Mapping!Known(r) \subseteq Mapping!Names(r) \ {None}
  BY <1>1 DEF Mapping!Known, Mapping!Names
<1> QED BY <1>1, <1>2

\* Every reading tells of its record.
LEMMA ReadingTells ==
    ASSUME Mapping!MappingAssumption, MappingInv, progress \in {"collected", "graph"},
           NEW r \in DOMAIN items
    PROVE  Tells(items[r], r)
<1>1. /\ r \in Record /\ items[r] = Reading(r) /\ way \in {"unified", "export", "each"}
      /\ way # "each" => fallen = {} /\ r.kind \in Mapping!Stored
      /\ way = "each" => "audit" \in fallen
  BY DEF MappingInv
<1>2. /\ r.kind \in {"file", "account", "parasitic", "audit"} /\ r.camel \in BOOLEAN
      /\ r.kind # "parasitic" => r.fp = None /\ r.session = None
      /\ r.kind # "account" => r.user = None
      /\ "unknown" # None /\ "-" # None /\ "unknown" \notin {r.fp, r.session}
      /\ Mapping!Names(r) \cap {"unknown", "-"} = {}
  BY <1>1 DEF Mapping!MappingAssumption, Mapping!Stored
<1> DEFINE p == Mapping!Pulled(r)
<1>3. /\ p.kind = r.kind /\ p.ip = r.ip /\ p.fp = r.fp /\ p.session = r.session
      /\ p.user = r.user /\ p.protocol = r.protocol /\ p.dst = r.dst /\ p.token = r.token
      /\ r.kind = "parasitic" => p.camel = FALSE /\ p.url = Mapping!Or(r.url, "unknown")
      /\ r.kind # "parasitic" => p.url = r.url /\ p.camel = r.camel
      /\ r.kind = "file" => /\ p.path = Mapping!Or(Honeyfile[r.token].path, "-")
                            /\ p.name = Mapping!Or(Honeyfile[r.token].name, "-")
  BY <1>1, PulledIs
<1> HIDE DEF p
<1>4. CASE r.kind = "file"
  <2>1. BrowserOf(r) = None /\ SessionOf(r) = None /\ UserOf(r) = None
    BY <1>2, <1>4 DEF BrowserOf, SessionOf, UserOf
  <2> DEFINE x == IF way = "each"
                  THEN IF r.kind \in fallen
                       THEN Mapping!Or(r.path, Mapping!Or(r.name, Mapping!Or(r.url, "unknown")))
                       ELSE Mapping!Or(Honeyfile[r.token].path, "unknown")
                  ELSE Mapping!Or(Mapping!Or(r.url, r.token), "unknown")
  <2>2. x \in Mapping!Known(r) \/ (x = "unknown" /\ Mapping!Known(r) = {})
    <3>1. CASE way = "each" /\ r.kind \in fallen
      BY <1>2, <1>4, <3>1 DEF Mapping!Known, Mapping!Raw, Mapping!Or
    <3>2. CASE way = "each" /\ r.kind \notin fallen
      BY <1>2, <1>4, <3>2 DEF Mapping!Known, Mapping!Raw, Mapping!Or
    <3>3. CASE way # "each"
      BY <1>1, <1>2, <1>4, <3>3 DEF Mapping!Known, Mapping!Raw, Mapping!Or
    <3> QED BY <3>1, <3>2, <3>3
  <2>3. /\ DOMAIN items[r] = Columns /\ items[r].ip = r.ip
        /\ items[r].source = <<"network", Mapping!Or(r.ip, "unknown")>>
        /\ items[r].object = <<"file", x>>
        /\ items[r].fp = None /\ items[r].session = None /\ items[r].user = None
    <3> USE <1>1, <1>3, <1>4 DEF Columns, Mapping!Item, Mapping!Network
    <3>1. CASE way = "unified"
      <4>1. items[r] = Mapping!MapApiRow(p)
        BY <3>1 DEF Reading, p
      <4> QED BY <3>1, <4>1 DEF Mapping!MapApiRow
    <3>2. CASE way = "export"
      <4>1. items[r] = [Mapping!MapApiRow(p) EXCEPT !.campaign = None]
        BY <3>2 DEF Reading, Mapping!MapExportRow, p
      <4>2. Mapping!MapApiRow(p) = Mapping!Item(p, Mapping!Network(p), <<"file", x>>)
        BY <3>2 DEF Mapping!MapApiRow
      <4> QED BY <4>1, <4>2
    <3>3. CASE way = "each" /\ r.kind \in fallen
      <4>1. items[r] = Mapping!AdaptFile(r)
        BY <3>3 DEF Reading, Mapping!Adapt
      <4> QED BY <3>3, <4>1 DEF Mapping!AdaptFile
    <3>4. CASE way = "each" /\ r.kind \notin fallen
      <4>1. items[r] = Mapping!ParseFile(p)
        BY <3>4 DEF Reading, Mapping!Parse, p
      <4> DEFINE target == Mapping!Or(p.path, Mapping!Or(p.name, Mapping!Or(p.url, "-")))
      <4>2. (IF target = "-" THEN "unknown" ELSE target) = x
        <5>1. Honeyfile[r.token].path # "-"
          BY <1>2 DEF Mapping!Names
        <5> QED BY <1>2, <3>4, <5>1 DEF Mapping!Or
      <4> HIDE DEF x
      <4> QED BY <3>4, <4>1, <4>2 DEF Mapping!ParseFile
    <3> QED BY <3>1, <3>2, <3>3, <3>4
  <2>4. LastOf(items[r].object) = x /\ IpOf(r) = r.ip
    <3> HIDE DEF x
    <3> QED BY <1>4, <2>3 DEF LastOf, IpOf
  <2> HIDE DEF x
  <2> QED BY <1>2, <2>1, <2>2, <2>3, <2>4 DEF Tells, Columns
<1>5. CASE r.kind = "account"
  <2>1. BrowserOf(r) = None /\ SessionOf(r) = None
    BY <1>2, <1>5 DEF BrowserOf, SessionOf
  <2>2. /\ DOMAIN items[r] = Columns /\ items[r].ip = r.ip
        /\ items[r].source = <<"network", Mapping!Or(r.ip, "unknown")>>
        /\ items[r].object = <<"service", r.protocol, r.dst>>
        /\ items[r].fp = None /\ items[r].session = None /\ items[r].user = UserOf(r)
    <3> USE <1>1, <1>3, <1>5 DEF Columns, Mapping!Item, Mapping!Network, Mapping!Service, Mapping!Login,
                                 UserOf, Mapping!Raw
    <3>1. CASE way = "unified"
      <4>1. items[r] = Mapping!Login(p)
        BY <3>1 DEF Reading, Mapping!MapApiRow, p
      <4> QED BY <3>1, <4>1
    <3>2. CASE way = "export"
      <4>1. items[r] = [Mapping!Login(p) EXCEPT !.campaign = None]
        BY <3>2 DEF Reading, Mapping!MapExportRow, Mapping!MapApiRow, p
      <4> QED BY <3>2, <4>1
    <3>3. CASE way = "each" /\ r.kind \in fallen
      <4>1. items[r] = Mapping!AdaptAccount(r)
        BY <3>3 DEF Reading, Mapping!Adapt
      <4> QED BY <3>3, <4>1 DEF Mapping!AdaptAccount
    <3>4. CASE way = "each" /\ r.kind \notin fallen
      <4>1. items[r] = Mapping!Login(p)
        BY <3>4 DEF Reading, Mapping!Parse, Mapping!ParseAccount, p
      <4> QED BY <3>4, <4>1
    <3> QED BY <3>1, <3>2, <3>3, <3>4
  <2>3. LastOf(items[r].object) = r.dst /\ IpOf(r) = r.ip
    BY <1>5, <2>2 DEF LastOf, IpOf
  <2>4. Mapping!Known(r) = {r.dst} \ {None}
    BY <1>5 DEF Mapping!Known
  <2> QED BY <1>2, <2>1, <2>2, <2>3, <2>4 DEF Tells, Columns
<1>6. CASE r.kind = "parasitic"
  <2>1. UserOf(r) = None
    BY <1>2, <1>6 DEF UserOf
  <2> DEFINE b == BrowserOf(r)
             u == Mapping!Or(r.url, "unknown")
  <2>2. /\ DOMAIN items[r] = Columns /\ items[r].ip = r.ip
        /\ items[r].source = <<"browser", b>> /\ items[r].object = <<"url", u>>
        /\ items[r].label = b
        /\ items[r].session = SessionOf(r) /\ items[r].user = None
    <3> USE <1>1, <1>2, <1>3, <1>6 DEF Columns, Mapping!Item, Mapping!Visit, Mapping!Session,
              Mapping!Or, Mapping!Raw, SessionOf, BrowserOf
    <3>1. CASE way = "unified"
      <4>1. items[r] = Mapping!Visit(p, Mapping!Or(p.fp, Mapping!Session(p)))
        BY <3>1 DEF Reading, Mapping!MapApiRow, p
      <4> QED BY <3>1, <4>1
    <3>2. CASE way = "export"
      <4>1. items[r] = [Mapping!Visit(p, Mapping!Or(p.fp, Mapping!Session(p))) EXCEPT !.campaign = None]
        BY <3>2 DEF Reading, Mapping!MapExportRow, Mapping!MapApiRow, p
      <4> QED BY <3>2, <4>1
    <3>3. CASE way = "each" /\ r.kind \in fallen
      <4>1. items[r] = Mapping!Visit(r, r.fp)
        BY <3>3 DEF Reading, Mapping!Adapt, Mapping!AdaptParasitic
      <4> QED BY <3>3, <4>1
    <3>4. CASE way = "each" /\ r.kind \notin fallen
      <4>1. items[r] = Mapping!Visit(p, Mapping!Or(p.fp, Mapping!Session(p)))
        BY <3>4 DEF Reading, Mapping!Parse, Mapping!ParseParasitic, p
      <4> QED BY <3>4, <4>1
    <3> QED BY <3>1, <3>2, <3>3, <3>4
  <2>3. u \in Mapping!Known(r) \/ (u = "unknown" /\ Mapping!Known(r) = {})
    BY <1>2, <1>6 DEF Mapping!Known, Mapping!Or
  <2> HIDE DEF u
  <2>4. LastOf(items[r].object) = u /\ IpOf(r) = r.ip
    BY <1>6, <2>2 DEF LastOf, IpOf
  <2> QED BY <1>2, <1>6, <2>1, <2>2, <2>3, <2>4 DEF Tells, Columns
<1>7. CASE r.kind = "audit"
  <2>1. BrowserOf(r) = None /\ SessionOf(r) = None /\ UserOf(r) = None
    BY <1>2, <1>7 DEF BrowserOf, SessionOf, UserOf
  <2>2. way = "each" /\ r.kind \in fallen
    BY <1>1, <1>7 DEF Mapping!Stored
  <2>3. items[r] = Mapping!AdaptAudit(r)
    BY <1>1, <1>7, <2>2 DEF Reading, Mapping!Adapt
  <2> DEFINE x == IF r.call \in Mapping!Spawns THEN Mapping!Or(r.pid, "unknown")
                  ELSE IF r.call = "connect" THEN Mapping!Or(r.path, Mapping!Or(r.dst, "unknown"))
                  ELSE Mapping!Or(r.path, "unknown")
             type == IF r.call \in Mapping!Spawns THEN "process"
                     ELSE IF r.call = "connect" THEN "network" ELSE "file"
             source == <<"process", Mapping!Or(IF r.call \in Mapping!Spawns
                                               THEN Mapping!Or(r.parent, r.pid) ELSE r.pid, "unknown")>>
  <2>4. items[r] = [Mapping!Item(r, source, <<type, x>>) EXCEPT !.ip = None, !.label = None,
                                                                !.campaign = None]
    <3>1. "connect" \notin Mapping!Spawns
      BY DEF Mapping!Spawns
    <3> QED BY <2>3, <3>1 DEF Mapping!AdaptAudit
  <2>5. x \in Mapping!Known(r) \/ (x = "unknown" /\ Mapping!Known(r) = {})
    BY <1>2, <1>7 DEF Mapping!Known, Mapping!Or
  <2> HIDE DEF x, type
  <2>6. /\ DOMAIN items[r] = Columns /\ items[r].ip = None /\ items[r].source[1] = "process"
        /\ items[r].object = <<type, x>>
        /\ items[r].fp = None /\ items[r].session = None /\ items[r].user = None
    BY <2>4 DEF Columns, Mapping!Item
  <2>7. LastOf(items[r].object) = x /\ IpOf(r) = None
    BY <1>7, <2>6 DEF LastOf, IpOf
  <2> QED BY <2>1, <2>5, <2>6, <2>7 DEF Tells, Columns
<1> QED BY <1>2, <1>4, <1>5, <1>6, <1>7

\* What the graph has of a record.
LEMMA EventOf ==
    ASSUME Mapping!MappingAssumption, MappingInv, progress = "graph", NEW r \in DOMAIN mapped
    PROVE  /\ r \in Record /\ r \in DOMAIN items /\ Tells(items[r], r)
           /\ mapped[r].source = items[r].source /\ mapped[r].object = items[r].object
           /\ mapped[r].anchors = Marks(IpOf(r), BrowserOf(r), SessionOf(r), UserOf(r))
<1>1. /\ mapped = [s \in DOMAIN items |->
                      [source |-> items[s].source, object |-> items[s].object,
                       anchors |-> Mapping!Anchors(Mapping!NormalizeEvent(items[s]))]]
      /\ DOMAIN items \subseteq Record
  BY DEF MappingInv
<1>2. r \in DOMAIN items
  BY <1>1
<1>3. Tells(items[r], r)
  BY <1>2, ReadingTells
<1> QED BY <1>1, <1>2, <1>3, ItemAnchors

LEMMA EvidenceOf ==
    ASSUME NEW r
    PROVE  Mapping!Evidence(r) = Marks(IpOf(r), r.fp, SessionOf(r), UserOf(r))
BY DEF Mapping!Evidence, Marks, Given, IpOf, SessionOf, UserOf

\* Two sets of pairs have one in common if they agree in one of the four.
LEMMA MarksMeet ==
    ASSUME NEW a, NEW b, NEW c, NEW d, NEW w, NEW x, NEW y, NEW z
    PROVE  Marks(a, b, c, d) \cap Marks(w, x, y, z) # {}
           <=> \/ a = w /\ a # None
               \/ b = x /\ b # None
               \/ c = y /\ c # None
               \/ d = z /\ d # None
<1> DEFINE Agree == \/ a = w /\ a # None
                    \/ b = x /\ b # None
                    \/ c = y /\ c # None
                    \/ d = z /\ d # None
<1>1. ASSUME NEW q \in Marks(a, b, c, d), q \in Marks(w, x, y, z)
      PROVE  Agree
  BY <1>1 DEF Marks, Given
<1>2. ASSUME Agree
      PROVE  \E q \in Marks(a, b, c, d) : q \in Marks(w, x, y, z)
  <2>1. CASE a = w /\ a # None
    <3>1. <<"ip", a>> \in Marks(a, b, c, d) /\ <<"ip", a>> \in Marks(w, x, y, z)
      BY <2>1 DEF Marks, Given
    <3> QED BY <3>1
  <2>2. CASE b = x /\ b # None
    <3>1. <<"fp", b>> \in Marks(a, b, c, d) /\ <<"fp", b>> \in Marks(w, x, y, z)
      BY <2>2 DEF Marks, Given
    <3> QED BY <3>1
  <2>3. CASE c = y /\ c # None
    <3>1. <<"session", c>> \in Marks(a, b, c, d) /\ <<"session", c>> \in Marks(w, x, y, z)
      BY <2>3 DEF Marks, Given
    <3> QED BY <3>1
  <2>4. CASE d = z /\ d # None
    <3>1. <<"user", d>> \in Marks(a, b, c, d) /\ <<"user", d>> \in Marks(w, x, y, z)
      BY <2>4 DEF Marks, Given
    <3> QED BY <3>1
  <2> QED BY <1>2, <2>1, <2>2, <2>3, <2>4
<1> HIDE DEF Agree
<1>3. (\E q \in Marks(a, b, c, d) : q \in Marks(w, x, y, z)) <=> Agree
  BY <1>1, <1>2
<1> QED BY <1>3 DEF Agree

\* Two browsers have one label if they have one fingerprint or one session, or no name.
LEMMA OneBrowser ==
    ASSUME Mapping!MappingAssumption, MappingInv, progress = "graph",
           NEW r \in DOMAIN mapped, NEW s \in DOMAIN mapped
    PROVE  /\ r.fp = s.fp /\ r.fp # None => BrowserOf(r) = BrowserOf(s) /\ BrowserOf(r) # None
           /\ {r, s} \subseteq Mapping!Nameless => BrowserOf(r) = "unknown" /\ BrowserOf(s) = "unknown"
           /\ BrowserOf(r) = BrowserOf(s) /\ BrowserOf(r) # None =>
                 \/ r.fp = s.fp /\ r.fp # None
                 \/ SessionOf(r) = SessionOf(s) /\ SessionOf(r) # None
                 \/ {r, s} \subseteq Mapping!Nameless
<1>1. r \in Record /\ s \in Record
  BY EventOf
<1>2. /\ None # "unknown" /\ "unknown" \notin {r.fp, r.session, s.fp, s.session}
      /\ r.fp # None => r.fp # s.session
      /\ s.fp # None => s.fp # r.session
      /\ r.kind # "parasitic" => r.fp = None
      /\ s.kind # "parasitic" => s.fp = None
  BY <1>1 DEF Mapping!MappingAssumption
<1> QED BY <1>2 DEF BrowserOf, SessionOf, Mapping!Raw, Mapping!Nameless

\* One source is one browser's or one address's.
LEMMA OneSource ==
    ASSUME Mapping!MappingAssumption, MappingInv, progress = "graph",
           NEW r \in DOMAIN mapped, NEW s \in DOMAIN mapped, mapped[r].source = mapped[s].source,
           mapped[r].source[1] # "process", mapped[r].source[2] # "unknown"
    PROVE  \/ IpOf(r) = IpOf(s) /\ IpOf(r) # None
           \/ BrowserOf(r) = BrowserOf(s) /\ BrowserOf(r) # None
<1> DEFINE source == mapped[r].source
<1>1. /\ \/ source = <<"network", Mapping!Or(IpOf(r), "unknown")>>
         \/ source = <<"browser", BrowserOf(r)>> /\ r.kind = "parasitic"
      /\ \/ source = <<"network", Mapping!Or(IpOf(s), "unknown")>>
         \/ source = <<"browser", BrowserOf(s)>>
  BY EventOf DEF Tells
<1>2. source[2] # "unknown"
  OBVIOUS
<1>3. r.kind = "parasitic" => BrowserOf(r) # None
  BY EventOf DEF BrowserOf, Mapping!MappingAssumption
<1> HIDE DEF source
<1> QED BY <1>1, <1>2, <1>3 DEF Mapping!Or

LEMMA Joins ==
    ASSUME Mapping!MappingAssumption, MappingInv
    PROVE  EvidenceJoins
<1> SUFFICES ASSUME progress = "graph", NEW r \in DOMAIN mapped, NEW s \in DOMAIN mapped \ {r}
             PROVE  /\ Mapping!Joined(r, s) <=> \/ Mapping!Evidence(r) \cap Mapping!Evidence(s) # {}
                                               \/ {r, s} \subseteq Mapping!Nameless
                    /\ /\ mapped[r].source = mapped[s].source
                       /\ mapped[r].source[1] # "process" /\ mapped[r].source[2] # "unknown"
                       => Mapping!Joined(r, s)
                    /\ mapped[r].object = mapped[s].object =>
                          \/ Mapping!Known(r) \cap Mapping!Known(s) # {}
                          \/ Mapping!Known(r) \cup Mapping!Known(s) = {}
  BY DEF EvidenceJoins, Mapping!EvidenceJoins
<1>1. Mapping!Joined(r, s) <=>
          \/ IpOf(r) = IpOf(s) /\ IpOf(r) # None
          \/ BrowserOf(r) = BrowserOf(s) /\ BrowserOf(r) # None
          \/ SessionOf(r) = SessionOf(s) /\ SessionOf(r) # None
          \/ UserOf(r) = UserOf(s) /\ UserOf(r) # None
  <2> DEFINE Of(t) == Marks(IpOf(t), BrowserOf(t), SessionOf(t), UserOf(t))
  <2>1. mapped[r].anchors = Of(r) /\ mapped[s].anchors = Of(s)
    BY EventOf
  <2>2. Mapping!Joined(r, s) <=> Of(r) \cap Of(s) # {}
    BY <2>1 DEF Mapping!Joined
  <2>3. Of(r) \cap Of(s) # {} <=>
          \/ IpOf(r) = IpOf(s) /\ IpOf(r) # None
          \/ BrowserOf(r) = BrowserOf(s) /\ BrowserOf(r) # None
          \/ SessionOf(r) = SessionOf(s) /\ SessionOf(r) # None
          \/ UserOf(r) = UserOf(s) /\ UserOf(r) # None
    BY MarksMeet
  <2> HIDE DEF Of
  <2> QED BY <2>2, <2>3
<1>2. Mapping!Evidence(r) \cap Mapping!Evidence(s) # {} <=>
          \/ IpOf(r) = IpOf(s) /\ IpOf(r) # None
          \/ r.fp = s.fp /\ r.fp # None
          \/ SessionOf(r) = SessionOf(s) /\ SessionOf(r) # None
          \/ UserOf(r) = UserOf(s) /\ UserOf(r) # None
  <2>1. Mapping!Evidence(r) = Marks(IpOf(r), r.fp, SessionOf(r), UserOf(r))
    BY EvidenceOf
  <2>2. Mapping!Evidence(s) = Marks(IpOf(s), s.fp, SessionOf(s), UserOf(s))
    BY EvidenceOf
  <2> QED BY <2>1, <2>2, MarksMeet
<1>3. Mapping!MappingAssumption => None # "unknown"
  BY DEF Mapping!MappingAssumption
<1>4. Mapping!Joined(r, s) <=> \/ Mapping!Evidence(r) \cap Mapping!Evidence(s) # {}
                              \/ {r, s} \subseteq Mapping!Nameless
  BY <1>1, <1>2, <1>3, OneBrowser
<1>5. /\ mapped[r].source = mapped[s].source
      /\ mapped[r].source[1] # "process" /\ mapped[r].source[2] # "unknown"
      => Mapping!Joined(r, s)
  BY <1>1, OneSource
<1>6. ASSUME mapped[r].object = mapped[s].object
      PROVE  \/ Mapping!Known(r) \cap Mapping!Known(s) # {}
             \/ Mapping!Known(r) \cup Mapping!Known(s) = {}
  <2> DEFINE x == LastOf(mapped[r].object)
  <2>1. /\ x \in Mapping!Known(r) \/ (x \in {None, "unknown"} /\ Mapping!Known(r) = {})
        /\ x \in Mapping!Known(s) \/ (x \in {None, "unknown"} /\ Mapping!Known(s) = {})
    BY <1>6, EventOf DEF Tells
  <2>2. \A t \in {r, s} : None \notin Mapping!Known(t) /\ "unknown" \notin Mapping!Known(t)
    BY EventOf, KnownNames
  <2> HIDE DEF x
  <2> QED BY <2>1, <2>2
<1> QED BY <1>4, <1>5, <1>6

\* Whichever way alerts come to the graph, and whatever honeypots report, two of them may be
\* laid to one attacker exactly if their records share an address, a fingerprint, a session or
\* a user, and one object stands for two records only if their readers know it by one name
\* or by none (collector.py, export_alerts_to_step1.py, graph_builder.py:
\* _build_attacker_anchor_keys).
THEOREM AnchorsAreEvidence ==
    ASSUME Mapping!MappingAssumption
    PROVE  Mapping!Spec => []EvidenceJoins
<1>1. Mapping!Init => MappingInv
  BY DEF Mapping!Init, MappingInv
<1>2. MappingInv /\ [Mapping!Next]_Mapping!vars => MappingInv'
  BY MappingNext
<1>3. MappingInv => EvidenceJoins
  BY Joins
<1> QED BY <1>1, <1>2, <1>3, PTL DEF Mapping!Spec

\* Types.
THEOREM MappingTypes ==
    ASSUME Mapping!MappingAssumption
    PROVE  Mapping!Spec => []Mapping!TypeOK
<1>1. Mapping!Init => MappingInv
  BY DEF Mapping!Init, MappingInv
<1>2. MappingInv /\ [Mapping!Next]_Mapping!vars => MappingInv'
  BY MappingNext
<1>3. MappingInv => Mapping!TypeOK
  BY DEF MappingInv, Mapping!TypeOK
<1> QED BY <1>1, <1>2, <1>3, PTL DEF Mapping!Spec

-----------------------------------------------------------------------------
(* The actors.                                                             *)

\* Induction, by what a set of numbers contains.
LEMMA AllNumbers ==
    ASSUME NEW S \in SUBSET Nat, 0 \in S, \A n \in S : n + 1 \in S
    PROVE  S = Nat
<1> SUFFICES ASSUME Nat \ S # {} PROVE FALSE
  OBVIOUS
<1>1. PICK n \in Nat \ S : \A m \in Nat \ S : n <= m
  BY LowestIn
<1>2. n # 0 /\ n - 1 \in Nat /\ n - 1 \in S
  BY <1>1
<1> QED BY <1>2

\* The turns of a way up are what they are defined to be, and so are the links of signals.
LEMMA ClimbIs ==
    ASSUME NEW p, NEW i, Len(p) \in Nat
    PROVE  Actors!Climb(p, i) = [n \in 0..Len(p) |-> IF n = 0 THEN [root |-> i, parent |-> p]
                                                     ELSE Actors!Turn(Actors!Climb(p, i)[n - 1])]
<1> DEFINE first == [root |-> i, parent |-> p]
           Solves(f, k) == f = [n \in 0..k |-> IF n = 0 THEN first ELSE Actors!Turn(f[n - 1])]
           K == {k \in Nat : \E f : Solves(f, k)}
<1> HIDE DEF first
<1>1. 0 \in K
  <2> DEFINE f == [n \in 0..0 |-> first]
  <2>1. Solves(f, 0)
    OBVIOUS
  <2> QED BY <2>1
<1>2. ASSUME NEW k \in K PROVE k + 1 \in K
  <2>1. PICK f : Solves(f, k)
    OBVIOUS
  <2> DEFINE g == [n \in 0..k + 1 |-> IF n = 0 THEN first ELSE Actors!Turn(f[n - 1])]
  <2>2. k \in Nat
    OBVIOUS
  <2>3. \A n \in 0..k : g[n] = f[n]
    BY <2>1, <2>2
  <2>4. \A n \in 0..k + 1 : n # 0 => n - 1 \in 0..k
    BY <2>2
  <2>5. Solves(g, k + 1)
    BY <2>3, <2>4
  <2> HIDE DEF g, Solves
  <2> QED BY <2>2, <2>5
<1>3. K = Nat
  <2>1. K \in SUBSET Nat
    OBVIOUS
  <2> HIDE DEF K
  <2> QED BY <1>1, <1>2, <2>1, AllNumbers
<1>4. \E f : Solves(f, Len(p))
  BY <1>3
<1> QED BY <1>4 DEF Actors!Climb, first

LEMMA LinkedIs ==
    ASSUME NEW state, NEW signals, Len(signals) \in Nat
    PROVE  Actors!Linked(state, signals) =
               [n \in 0..Len(signals) |-> IF n = 0 THEN state
                    ELSE Actors!Link(Actors!Linked(state, signals)[n - 1], signals[n])]
<1> DEFINE Solves(f, k) == f = [n \in 0..k |-> IF n = 0 THEN state
                                               ELSE Actors!Link(f[n - 1], signals[n])]
           K == {k \in Nat : \E f : Solves(f, k)}
<1>1. 0 \in K
  <2> DEFINE f == [n \in 0..0 |-> state]
  <2>1. Solves(f, 0)
    OBVIOUS
  <2> QED BY <2>1
<1>2. ASSUME NEW k \in K PROVE k + 1 \in K
  <2>1. PICK f : Solves(f, k)
    OBVIOUS
  <2> DEFINE g == [n \in 0..k + 1 |-> IF n = 0 THEN state ELSE Actors!Link(f[n - 1], signals[n])]
  <2>2. k \in Nat
    OBVIOUS
  <2>3. \A n \in 0..k : g[n] = f[n]
    BY <2>1, <2>2
  <2>4. \A n \in 0..k + 1 : n # 0 => n - 1 \in 0..k
    BY <2>2
  <2>5. Solves(g, k + 1)
    BY <2>3, <2>4
  <2> HIDE DEF g, Solves
  <2> QED BY <2>2, <2>5
<1>3. K = Nat
  <2>1. K \in SUBSET Nat
    OBVIOUS
  <2> HIDE DEF K
  <2> QED BY <1>1, <1>2, <2>1, AllNumbers
<1>4. \E f : Solves(f, Len(signals))
  BY <1>3
<1> QED BY <1>4 DEF Actors!Linked

-----------------------------------------------------------------------------
\* The parents of N rows form a forest: label names the root of a row, above the rows on
\* its way up.
Forest(p, N, label, above) ==
    /\ p \in [1..N -> 1..N] /\ label \in [1..N -> 1..N] /\ above \in [1..N -> SUBSET (1..N)]
    /\ \A i \in 1..N :
          /\ label[p[i]] = label[i] /\ i \notin above[i]
          /\ p[i] = i => label[i] = i /\ above[i] = {}
          /\ p[i] # i => p[i] \in above[i] /\ above[p[i]] \subseteq above[i]

\* A turn keeps the forest, and there is less above of where it gets.
LEMMA TurnKeeps ==
    ASSUME NEW N \in Nat, NEW label, NEW above, NEW p, Forest(p, N, label, above), NEW i \in 1..N
    PROVE  LET t == Actors!Turn([root |-> i, parent |-> p])
           IN  /\ Forest(t.parent, N, label, above)
               /\ t.root \in 1..N /\ label[t.root] = label[i]
               /\ t = [root |-> t.root, parent |-> t.parent]
               /\ IF p[i] = i THEN t.root = i /\ t.parent = p
                  ELSE above[t.root] \subseteq above[i] \ {p[i]}
<1>1. CASE p[i] = i
  BY <1>1 DEF Actors!Turn
<1>2. CASE p[i] # i
  <2> DEFINE q == [p EXCEPT ![i] = p[p[i]]]
  <2>1. Actors!Turn([root |-> i, parent |-> p]) = [root |-> p[p[i]], parent |-> q]
    BY <1>2 DEF Actors!Turn, Forest
  <2>2. /\ p[i] \in 1..N /\ p[p[i]] \in 1..N /\ p[i] \in above[i] /\ above[p[i]] \subseteq above[i]
        /\ p[i] \notin above[p[i]] /\ label[p[p[i]]] = label[i]
        /\ above[p[p[i]]] \subseteq above[p[i]] /\ p[p[i]] \in above[i]
    BY <1>2 DEF Forest
  <2>3. Forest(q, N, label, above)
    BY <2>2 DEF Forest
  <2> HIDE DEF q
  <2> QED BY <1>2, <2>1, <2>2, <2>3
<1> QED BY <1>1, <1>2

\* A function on 1..N is a sequence.
LEMMA SequenceLength ==
    ASSUME NEW N \in Nat, NEW p, DOMAIN p = 1..N, NEW S, \A i \in 1..N : p[i] \in S, p = [i \in 1..N |-> p[i]]
    PROVE  Len(p) = N /\ p \in Seq(S)
  OBVIOUS

\* A way up ends at the root, as there are ever fewer rows above, and leaves the forest as
\* it was labelled.
LEMMA FindIs ==
    ASSUME NEW N \in Nat, NEW label, NEW above, NEW p, Forest(p, N, label, above), NEW i \in 1..N
    PROVE  LET f == Actors!Find(p, i)
           IN  /\ Forest(f.parent, N, label, above)
               /\ f.root = label[i] /\ f.root \in 1..N /\ f.parent[f.root] = f.root
<1> DEFINE at == Actors!Climb(p, i)
           Ended(s) == s.parent[s.root] = s.root
           Claim(n) == /\ Forest(at[n].parent, N, label, above)
                       /\ at[n] = [root |-> at[n].root, parent |-> at[n].parent]
                       /\ at[n].root \in 1..N /\ label[at[n].root] = label[i]
                       /\ Ended(at[n]) \/ Cardinality(above[at[n].root]) < N - n
           K == {n \in Nat : n <= N => Claim(n)}
<1>1. Len(p) = N
  BY SequenceLength DEF Forest
<1>2. at = [n \in 0..N |-> IF n = 0 THEN [root |-> i, parent |-> p] ELSE Actors!Turn(at[n - 1])]
  BY <1>1, ClimbIs
<1>3. \A j \in 1..N : IsFiniteSet(above[j]) /\ Cardinality(above[j]) \in Nat /\ Cardinality(above[j]) < N
  <2> SUFFICES ASSUME NEW j \in 1..N
               PROVE  IsFiniteSet(above[j]) /\ Cardinality(above[j]) \in Nat /\ Cardinality(above[j]) < N
    OBVIOUS
  <2>1. above[j] \subseteq 1..N /\ j \notin above[j]
    BY DEF Forest
  <2>2. IsFiniteSet(1..N) /\ Cardinality(1..N) = N
    BY FS_Interval
  <2>3. IsFiniteSet(above[j]) /\ Cardinality(above[j]) \in Nat
    BY <2>1, <2>2, FS_Subset, FS_CardinalityType
  <2>4. Cardinality(above[j] \cup {j}) = Cardinality(above[j]) + 1
    BY <2>1, <2>3, FS_AddElement
  <2>5. Cardinality(above[j] \cup {j}) <= N
    BY <2>1, <2>2, FS_Subset
  <2> QED BY <2>3, <2>4, <2>5
<1> HIDE DEF at
<1>4. 0 \in K
  <2>1. at[0] = [root |-> i, parent |-> p]
    BY <1>2
  <2> QED BY <1>3, <2>1
<1>5. ASSUME NEW n \in K PROVE n + 1 \in K
  <2> SUFFICES ASSUME n + 1 <= N PROVE Claim(n + 1)
    OBVIOUS
  <2>1. Claim(n) /\ n \in Nat /\ n + 1 \in 0..N /\ n + 1 # 0 /\ (n + 1) - 1 = n
    OBVIOUS
  <2>2. at[n + 1] = Actors!Turn(at[n])
    BY <1>2, <2>1
  <2> DEFINE j == at[n].root
             q == at[n].parent
  <2>3. /\ Forest(at[n + 1].parent, N, label, above)
        /\ at[n + 1].root \in 1..N /\ label[at[n + 1].root] = label[j]
        /\ at[n + 1] = [root |-> at[n + 1].root, parent |-> at[n + 1].parent]
        /\ IF q[j] = j THEN at[n + 1].root = j /\ at[n + 1].parent = q
           ELSE above[at[n + 1].root] \subseteq above[j] \ {q[j]}
    <3>1. /\ Forest(q, N, label, above) /\ j \in 1..N /\ at[n] = [root |-> j, parent |-> q]
      BY <2>1
    <3> HIDE DEF j, q
    <3>2. at[n + 1] = Actors!Turn([root |-> j, parent |-> q])
      BY <2>2, <3>1
    <3> DEFINE t == Actors!Turn([root |-> j, parent |-> q])
    <3>3. /\ Forest(t.parent, N, label, above) /\ t.root \in 1..N /\ label[t.root] = label[j]
          /\ t = [root |-> t.root, parent |-> t.parent]
          /\ IF q[j] = j THEN t.root = j /\ t.parent = q
             ELSE above[t.root] \subseteq above[j] \ {q[j]}
      BY <3>1, TurnKeeps
    <3> HIDE DEF t
    <3>4. at[n + 1] = t
      BY <3>2 DEF t
    <3> QED BY <3>3, <3>4
  <2>4. CASE q[j] = j
    BY <2>1, <2>3, <2>4
  <2>5. CASE q[j] # j
    <3>1. q[j] \in above[j] /\ j \in 1..N /\ Cardinality(above[j]) < N - n
      BY <2>1, <2>5 DEF Forest
    <3>2. IsFiniteSet(above[j]) /\ Cardinality(above[j]) \in Nat
      BY <1>3, <3>1
    <3>3. Cardinality(above[j] \ {q[j]}) = Cardinality(above[j]) - 1
      <4> HIDE DEF j, q
      <4> QED BY <3>1, <3>2, FS_RemoveElement
    <3>4. Cardinality(above[at[n + 1].root]) <= Cardinality(above[j] \ {q[j]})
      <4>1. IsFiniteSet(above[j] \ {q[j]})
        BY <3>2, FS_Subset
      <4> HIDE DEF j, q
      <4> QED BY <2>3, <2>5, <4>1, FS_Subset
    <3>5. Cardinality(above[at[n + 1].root]) \in Nat
      BY <1>3, <2>3
    <3>6. Cardinality(above[at[n + 1].root]) < N - (n + 1)
      <4> HIDE DEF j, q
      <4> QED BY <2>1, <3>1, <3>2, <3>3, <3>4, <3>5
    <3> QED BY <2>1, <2>3, <3>6
  <2> QED BY <2>4, <2>5
<1>6. K = Nat
  <2>1. K \in SUBSET Nat
    OBVIOUS
  <2> HIDE DEF K
  <2> QED BY <1>4, <1>5, <2>1, AllNumbers
<1>7. Claim(N)
  BY <1>6
<1>8. Ended(at[N])
  BY <1>3, <1>7
<1>9. Actors!Find(p, i) = at[N]
  BY <1>1 DEF Actors!Find, at
<1>10. label[at[N].root] = at[N].root
  BY <1>7, <1>8 DEF Forest
<1> QED BY <1>7, <1>8, <1>9, <1>10

\* Of two rows that are joined, the second's root, and all rows below it, get below the first's.
Merged(N, label, left, right) ==
    [j \in 1..N |-> IF label[j] = label[right] THEN label[left] ELSE label[j]]
Higher(N, label, above, left, right) ==
    [j \in 1..N |-> IF label[j] = label[right] /\ label[left] # label[right]
                    THEN above[j] \cup {label[left]} ELSE above[j]]

LEMMA JoinIs ==
    ASSUME NEW N \in Nat, NEW label, NEW above, NEW p, Forest(p, N, label, above),
           NEW left \in 1..N, NEW right \in 1..N
    PROVE  Forest(Actors!Join(p, left, right), N, Merged(N, label, left, right),
                  Higher(N, label, above, left, right))
<1> DEFINE a == label[left]
           b == label[right]
           l == Actors!Find(p, left)
           r == Actors!Find(l.parent, right)
           q == r.parent
           merged == Merged(N, label, left, right)
           higher == Higher(N, label, above, left, right)
<1>1. /\ Forest(l.parent, N, label, above) /\ l.root = a /\ a \in 1..N /\ l.parent[a] = a
  BY FindIs
<1>2. /\ Forest(q, N, label, above) /\ r.root = b /\ b \in 1..N /\ q[b] = b
  <2> DEFINE m == l.parent
             f == Actors!Find(m, right)
  <2>1. Forest(m, N, label, above)
    BY <1>1
  <2>2. Forest(f.parent, N, label, above) /\ f.root = b /\ b \in 1..N /\ f.parent[f.root] = f.root
    <3> HIDE DEF m
    <3> QED BY <2>1, FindIs
  <2>3. f = r
    OBVIOUS
  <2> HIDE DEF f, r
  <2> QED BY <2>2, <2>3
<1>3. Actors!Join(p, left, right) = [q EXCEPT ![b] = a]
  BY <1>1, <1>2 DEF Actors!Join
<1> HIDE DEF l, r, q
<1>4. label[a] = a /\ above[a] = {} /\ label[b] = b /\ above[b] = {} /\ a \in 1..N /\ b \in 1..N
  BY <1>1, <1>2 DEF Forest
<1> DEFINE joined == [q EXCEPT ![b] = a]
<1>5. /\ q \in [1..N -> 1..N] /\ label \in [1..N -> 1..N] /\ above \in [1..N -> SUBSET (1..N)]
      /\ joined \in [1..N -> 1..N] /\ joined[b] = a /\ \A i \in 1..N : i # b => joined[i] = q[i]
  BY <1>2, <1>4 DEF Forest
<1>6. /\ merged \in [1..N -> 1..N] /\ higher \in [1..N -> SUBSET (1..N)]
      /\ \A i \in 1..N : /\ merged[i] = IF label[i] = b THEN a ELSE label[i]
                         /\ higher[i] = IF label[i] = b /\ a # b THEN above[i] \cup {a} ELSE above[i]
  <2>1. merged = [j \in 1..N |-> IF label[j] = b THEN a ELSE label[j]]
    BY DEF Merged
  <2>2. higher = [j \in 1..N |-> IF label[j] = b /\ a # b THEN above[j] \cup {a} ELSE above[j]]
    BY DEF Higher
  <2> HIDE DEF a, b, merged, higher
  <2>3. merged \in [1..N -> 1..N]
    BY <1>4, <1>5, <2>1
  <2>4. higher \in [1..N -> SUBSET (1..N)]
    BY <1>4, <1>5, <2>2
  <2> QED BY <2>1, <2>2, <2>3, <2>4
<1> HIDE DEF a, b, joined, merged, higher
<1>7. ASSUME NEW i \in 1..N
      PROVE  /\ merged[joined[i]] = merged[i] /\ i \notin higher[i]
             /\ joined[i] = i => merged[i] = i /\ higher[i] = {}
             /\ joined[i] # i => joined[i] \in higher[i] /\ higher[joined[i]] \subseteq higher[i]
  <2>1. /\ label[q[i]] = label[i] /\ i \notin above[i] /\ q[i] \in 1..N
        /\ q[i] = i => label[i] = i /\ above[i] = {}
        /\ q[i] # i => q[i] \in above[i] /\ above[q[i]] \subseteq above[i]
    BY <1>2 DEF Forest
  <2>2. CASE i = b
    BY <1>4, <1>5, <1>6, <2>2
  <2>3. CASE i # b
    BY <1>4, <1>5, <1>6, <2>1, <2>3
  <2> QED BY <2>2, <2>3
<1>8. Forest(joined, N, merged, higher)
  BY <1>5, <1>6, <1>7 DEF Forest
<1> QED BY <1>3, <1>8 DEF joined, merged, higher

-----------------------------------------------------------------------------
\* Rows with a signal in common, and sets of rows with all that have one with them.
Common(rows, i, j) ==
    \E m \in DOMAIN rows[i].signals, n \in DOMAIN rows[j].signals : rows[i].signals[m] = rows[j].signals[n]
Entire(rows, N, S) == \A i \in S, j \in 1..N : Common(rows, i, j) => j \in S

\* The rows are grouped by their signals, in as far as those were taken of the row that is
\* the last: those with a signal are with its first, and no row is in a group but for a chain.
Grouped(rows, N, p, own, last, taken, label, above) ==
    /\ Forest(p, N, label, above) /\ own = [s \in DOMAIN own |-> own[s]]
    /\ \A s \in DOMAIN own : own[s] \in 1..N /\ \E n \in DOMAIN rows[own[s]].signals : rows[own[s]].signals[n] = s
    /\ \A i \in 1..N : \A n \in DOMAIN rows[i].signals : i # last \/ n <= taken =>
          rows[i].signals[n] \in DOMAIN own /\ label[own[rows[i].signals[n]]] = label[i]
    /\ \A S \in SUBSET (1..N) : Entire(rows, N, S) =>
          \A i \in S, j \in 1..N : label[i] = label[j] => j \in S

\* One more signal of the last row.
LEMMA LinkKeeps ==
    ASSUME NEW N \in Nat \ {0}, NEW rows, NEW p, NEW own, NEW k \in Nat, NEW label, NEW above,
           Grouped(rows, N, p, own, N, k, label, above),
           DOMAIN rows[N].signals = 1..Len(rows[N].signals), Len(rows[N].signals) \in Nat,
           k + 1 <= Len(rows[N].signals)
    PROVE  LET to == Actors!Link([parent |-> p, owner |-> own], rows[N].signals[k + 1])
           IN  /\ to = [parent |-> to.parent, owner |-> to.owner]
               /\ \E label2, above2 : Grouped(rows, N, to.parent, to.owner, N, k + 1, label2, above2)
<1> DEFINE s == rows[N].signals[k + 1]
           to == Actors!Link([parent |-> p, owner |-> own], s)
<1>1. Forest(p, N, label, above) /\ N \in 1..N /\ Len(p) = N /\ k + 1 \in DOMAIN rows[N].signals
  BY SequenceLength DEF Grouped, Forest
<1>2. CASE s \in DOMAIN own
  <2> DEFINE left == own[s]
             merged == Merged(N, label, left, N)
             higher == Higher(N, label, above, left, N)
             q == Actors!Join(p, left, N)
  <2>1. to = [parent |-> q, owner |-> own]
    BY <1>1, <1>2 DEF Actors!Link
  <2>2. left \in 1..N /\ Common(rows, N, left) /\ Common(rows, left, N)
    <3>1. left \in 1..N /\ \E n \in DOMAIN rows[left].signals : rows[left].signals[n] = s
      BY <1>2 DEF Grouped
    <3> HIDE DEF left
    <3> QED BY <1>1, <3>1 DEF Common
  <2>3. Forest(q, N, merged, higher)
    BY <1>1, <2>2, JoinIs
  <2>4. /\ label \in [1..N -> 1..N]
        /\ \A j \in 1..N : merged[j] = IF label[j] = label[N] THEN label[left] ELSE label[j]
    BY <1>1 DEF Merged, Forest
  <2> HIDE DEF merged, higher, q, left, s
  <2>5. ASSUME NEW i \in 1..N, NEW n \in DOMAIN rows[i].signals, i # N \/ n <= k + 1
        PROVE  rows[i].signals[n] \in DOMAIN own /\ merged[own[rows[i].signals[n]]] = merged[i]
    <3>1. CASE i # N \/ n <= k
      <4>1. rows[i].signals[n] \in DOMAIN own /\ label[own[rows[i].signals[n]]] = label[i]
        BY <3>1 DEF Grouped
      <4>2. own[rows[i].signals[n]] \in 1..N
        BY <4>1 DEF Grouped
      <4> QED BY <2>4, <4>1, <4>2
    <3>2. CASE i = N /\ n = k + 1
      BY <1>1, <1>2, <2>2, <2>4, <3>2 DEF left, s
    <3>3. i = N => n \in Nat
      OBVIOUS
    <3> QED BY <2>5, <3>1, <3>2, <3>3
  <2>6. ASSUME NEW S \in SUBSET (1..N), Entire(rows, N, S), NEW i \in S, NEW j \in 1..N, merged[i] = merged[j]
        PROVE  j \in S
    <3>1. \A x \in S, y \in 1..N : label[x] = label[y] => y \in S
      BY <2>6 DEF Grouped
    <3>2. N \in S <=> left \in S
      BY <1>1, <2>2, <2>6 DEF Entire
    <3> QED BY <1>1, <2>2, <2>4, <2>6, <3>1, <3>2
  <2>7. \A t \in DOMAIN own : own[t] \in 1..N /\ \E n \in DOMAIN rows[own[t]].signals : rows[own[t]].signals[n] = t
    BY DEF Grouped
  <2>8. Grouped(rows, N, q, own, N, k + 1, merged, higher)
    <3>1. own = [t \in DOMAIN own |-> own[t]]
      BY DEF Grouped
    <3> QED BY <2>3, <2>5, <2>6, <2>7, <3>1 DEF Grouped
  <2> QED BY <2>1, <2>8 DEF s
<1>3. CASE s \notin DOMAIN own
  <2> DEFINE more == [t \in DOMAIN own \cup {s} |-> IF t = s THEN N ELSE own[t]]
  <2>1. to = [parent |-> p, owner |-> more]
    BY <1>1, <1>3 DEF Actors!Link
  <2>2. /\ DOMAIN more = DOMAIN own \cup {s} /\ more[s] = N
        /\ \A t \in DOMAIN own : more[t] = own[t]
        /\ more = [t \in DOMAIN more |-> more[t]]
    BY <1>3
  <2> HIDE DEF more
  <2>3. ASSUME NEW i \in 1..N, NEW n \in DOMAIN rows[i].signals, i # N \/ n <= k + 1
        PROVE  rows[i].signals[n] \in DOMAIN more /\ label[more[rows[i].signals[n]]] = label[i]
    <3>1. CASE i # N \/ n <= k
      BY <2>2, <3>1 DEF Grouped
    <3>2. CASE i = N /\ n = k + 1
      BY <2>2, <3>2
    <3>3. i = N => n \in Nat
      OBVIOUS
    <3> QED BY <2>3, <3>1, <3>2, <3>3
  <2>4. \A t \in DOMAIN more : more[t] \in 1..N /\ \E n \in DOMAIN rows[more[t]].signals : rows[more[t]].signals[n] = t
    BY <1>1, <2>2 DEF Grouped
  <2>5. Grouped(rows, N, p, more, N, k + 1, label, above)
    BY <2>2, <2>3, <2>4 DEF Grouped
  <2> QED BY <2>1, <2>5
<1> QED BY <1>2, <1>3

\* A row that is put to the others is alone at first.
LEMMA AloneIs ==
    ASSUME NEW n \in Nat, NEW rows, NEW more, NEW p, NEW own, NEW label, NEW above,
           Grouped(rows, n, p, own, 0, 0, label, above), p \in Seq(1..n), Len(p) = n,
           \A i \in 1..n : more[i] = rows[i],
           DOMAIN more[n + 1].signals = 1..Len(more[n + 1].signals), Len(more[n + 1].signals) \in Nat
    PROVE  \E label2, above2 : Grouped(more, n + 1, Append(p, n + 1), own, n + 1, 0, label2, above2)
<1> DEFINE N == n + 1
           q == Append(p, N)
           label2 == [i \in 1..N |-> IF i = N THEN N ELSE label[i]]
           above2 == [i \in 1..N |-> IF i = N THEN {} ELSE above[i]]
<1>1. /\ N \in 1..N /\ 1..N = 1..n \cup {N} /\ N \notin 1..n
      /\ p \in [1..n -> 1..n] /\ label \in [1..n -> 1..n] /\ above \in [1..n -> SUBSET (1..n)]
  BY DEF Grouped, Forest
<1>2. /\ q \in [1..N -> 1..N] /\ q[N] = N /\ \A i \in 1..n : q[i] = p[i]
  <2>1. p \in Seq(1..N) /\ N \in 1..N
    BY <1>1, SequenceLength
  <2>2. q \in Seq(1..N) /\ Len(q) = Len(p) + 1 /\ q[Len(p) + 1] = N /\ \A i \in 1..Len(p) : q[i] = p[i]
    <3> HIDE DEF N
    <3> QED BY <2>1
  <2>3. Len(q) = N /\ DOMAIN q = 1..N /\ \A i \in 1..N : q[i] \in 1..N
    BY <2>2
  <2>4. q = [i \in 1..N |-> q[i]]
    BY <2>2, <2>3
  <2> HIDE DEF q
  <2> QED BY <2>2, <2>3, <2>4
<1>3. /\ label2 \in [1..N -> 1..N] /\ label2[N] = N /\ \A i \in 1..n : label2[i] = label[i]
      /\ above2 \in [1..N -> SUBSET (1..N)] /\ above2[N] = {} /\ \A i \in 1..n : above2[i] = above[i]
  BY <1>1
<1> HIDE DEF q, label2, above2
<1>4. Forest(q, N, label2, above2)
  <2> SUFFICES ASSUME NEW i \in 1..N
               PROVE  /\ label2[q[i]] = label2[i] /\ i \notin above2[i]
                      /\ q[i] = i => label2[i] = i /\ above2[i] = {}
                      /\ q[i] # i => q[i] \in above2[i] /\ above2[q[i]] \subseteq above2[i]
    BY <1>2, <1>3 DEF Forest
  <2>1. CASE i = N
    BY <1>2, <1>3, <2>1
  <2>2. CASE i \in 1..n
    <3>1. p[i] \in 1..n
      BY <1>1, <2>2
    <3>2. /\ label[p[i]] = label[i] /\ i \notin above[i]
          /\ p[i] = i => label[i] = i /\ above[i] = {}
          /\ p[i] # i => p[i] \in above[i] /\ above[p[i]] \subseteq above[i]
      BY <2>2 DEF Grouped, Forest
    <3>3. /\ q[i] = p[i] /\ label2[i] = label[i] /\ label2[p[i]] = label[p[i]]
          /\ above2[i] = above[i] /\ above2[p[i]] = above[p[i]]
      BY <1>2, <1>3, <2>2, <3>1
    <3> QED BY <3>2, <3>3
  <2> HIDE DEF N
  <2> QED BY <1>1, <2>1, <2>2
<1>5. ASSUME NEW s \in DOMAIN own
      PROVE  own[s] \in 1..N /\ \E m \in DOMAIN more[own[s]].signals : more[own[s]].signals[m] = s
  <2>1. own[s] \in 1..n /\ \E m \in DOMAIN rows[own[s]].signals : rows[own[s]].signals[m] = s
    BY DEF Grouped
  <2> QED BY <1>1, <2>1
<1>6. ASSUME NEW i \in 1..N, NEW m \in DOMAIN more[i].signals, i # N \/ m <= 0
      PROVE  more[i].signals[m] \in DOMAIN own /\ label2[own[more[i].signals[m]]] = label2[i]
  <2>1. i \in 1..n
    <3>1. i # N
      <4> SUFFICES ASSUME i = N PROVE FALSE
        OBVIOUS
      <4>1. m \in 1..Len(more[N].signals) /\ m <= 0
        BY <1>6
      <4> QED BY <4>1
    <3> HIDE DEF N
    <3> QED BY <1>1, <3>1
  <2>2. more[i] = rows[i] /\ i # 0
    BY <2>1
  <2>3. rows[i].signals[m] \in DOMAIN own /\ label[own[rows[i].signals[m]]] = label[i]
    BY <1>6, <2>1, <2>2 DEF Grouped
  <2>4. own[rows[i].signals[m]] \in 1..n
    BY <2>3 DEF Grouped
  <2> QED BY <1>3, <2>1, <2>2, <2>3, <2>4
<1>7. ASSUME NEW S \in SUBSET (1..N), Entire(more, N, S), NEW i \in S, NEW j \in 1..N, label2[i] = label2[j]
      PROVE  j \in S
  <2>1. CASE i = N
    <3>1. j = N
      <4> SUFFICES ASSUME j \in 1..n PROVE FALSE
        BY <1>1
      <4>1. label2[j] \in 1..n
        BY <1>1, <1>3
      <4> QED BY <1>1, <1>3, <1>7, <2>1, <4>1
    <3> QED BY <1>7, <2>1, <3>1
  <2>2. CASE i \in 1..n
    <3>1. j \in 1..n
      <4> SUFFICES ASSUME j = N PROVE FALSE
        BY <1>1
      <4>1. label2[i] \in 1..n
        BY <1>1, <1>3, <2>2
      <4> QED BY <1>1, <1>3, <1>7, <4>1
    <3> DEFINE T == S \cap 1..n
    <3>2. Entire(rows, n, T)
      <4> SUFFICES ASSUME NEW x \in T, NEW y \in 1..n, Common(rows, x, y) PROVE y \in T
        BY DEF Entire
      <4>1. more[x] = rows[x] /\ more[y] = rows[y] /\ x \in S /\ y \in 1..N
        BY <1>1
      <4>2. Common(more, x, y)
        BY <4>1 DEF Common
      <4> QED BY <1>7, <4>1, <4>2 DEF Entire
    <3>3. T \in SUBSET (1..n) /\ i \in T /\ label[i] = label[j]
      BY <1>3, <1>7, <2>2, <3>1
    <3> HIDE DEF T
    <3>4. j \in T
      BY <3>1, <3>2, <3>3 DEF Grouped
    <3> QED BY <3>4 DEF T
  <2> HIDE DEF N
  <2> QED BY <1>1, <1>7, <2>1, <2>2
<1>8. own = [s \in DOMAIN own |-> own[s]]
  BY DEF Grouped
<1> QED BY <1>4, <1>5, <1>6, <1>7, <1>8 DEF Grouped, q

\* All the signals of a row.
LEMMA LinkedKeeps ==
    ASSUME NEW N \in Nat \ {0}, NEW rows, NEW p, NEW own, NEW label, NEW above,
           Grouped(rows, N, p, own, N, 0, label, above),
           DOMAIN rows[N].signals = 1..Len(rows[N].signals), Len(rows[N].signals) \in Nat
    PROVE  LET to == Actors!Linked([parent |-> p, owner |-> own], rows[N].signals)[Len(rows[N].signals)]
           IN  \E label2, above2 : Grouped(rows, N, to.parent, to.owner, 0, 0, label2, above2)
<1> DEFINE signals == rows[N].signals
           L == Len(signals)
           first == [parent |-> p, owner |-> own]
           after == Actors!Linked(first, signals)
           Claim(k) == /\ after[k] = [parent |-> after[k].parent, owner |-> after[k].owner]
                       /\ \E label2, above2 :
                             Grouped(rows, N, after[k].parent, after[k].owner, N, k, label2, above2)
           K == {k \in Nat : k <= L => Claim(k)}
<1>0. Len(signals) \in Nat
  OBVIOUS
<1>1. after = [k \in 0..L |-> IF k = 0 THEN first ELSE Actors!Link(after[k - 1], signals[k])]
  <2> HIDE DEF first, signals
  <2> QED BY <1>0, LinkedIs
<1> HIDE DEF after
<1>2. 0 \in K
  <2>1. after[0] = first
    BY <1>1
  <2> QED BY <2>1
<1>3. ASSUME NEW k \in K PROVE k + 1 \in K
  <2> SUFFICES ASSUME k + 1 <= L PROVE Claim(k + 1)
    OBVIOUS
  <2>1. k \in Nat /\ Claim(k) /\ k + 1 \in 0..L /\ k + 1 # 0 /\ (k + 1) - 1 = k
    OBVIOUS
  <2>2. after[k + 1] = Actors!Link(after[k], signals[k + 1])
    BY <1>1, <2>1
  <2> DEFINE q == after[k].parent
             own2 == after[k].owner
             to == Actors!Link([parent |-> q, owner |-> own2], signals[k + 1])
  <2>3. PICK label2, above2 : Grouped(rows, N, q, own2, N, k, label2, above2)
    BY <2>1
  <2>4. after[k + 1] = to
    BY <2>1, <2>2
  <2>5. /\ to = [parent |-> to.parent, owner |-> to.owner]
        /\ \E label3, above3 : Grouped(rows, N, to.parent, to.owner, N, k + 1, label3, above3)
    <3> HIDE DEF q, own2
    <3> QED BY <2>1, <2>3, LinkKeeps
  <2> HIDE DEF to
  <2> QED BY <2>4, <2>5
<1>4. K = Nat
  <2>1. K \in SUBSET Nat
    OBVIOUS
  <2> HIDE DEF K
  <2> QED BY <1>2, <1>3, <2>1, AllNumbers
<1>5. PICK label2, above2 : Grouped(rows, N, after[L].parent, after[L].owner, N, L, label2, above2)
  <2>1. L \in K /\ L <= L
    <3> HIDE DEF K
    <3> QED BY <1>0, <1>4
  <2>2. Claim(L)
    BY <2>1
  <2> QED BY <2>2
<1>6. Grouped(rows, N, after[L].parent, after[L].owner, 0, 0, label2, above2)
  <2>1. \A i \in 1..N : \A n \in DOMAIN rows[i].signals : i # N \/ n <= L
    OBVIOUS
  <2> HIDE DEF L
  <2> QED BY <1>5, <2>1 DEF Grouped
<1> QED BY <1>6 DEF after

\* What holds of the rows of a page, all of whose signals are taken.
ActorsInv ==
    /\ shown \in Seq(ShownRow) /\ Len(shown) <= MaxShown
    /\ \E label, above : Grouped(shown, Len(shown), parent, owner, 0, 0, label, above)

LEMMA ActorsInit == ASSUME Actors!ActorsAssumption, Actors!Init PROVE ActorsInv
<1>1. shown = <<>> /\ parent = <<>> /\ owner = <<>> /\ MaxShown \in Nat
  BY DEF Actors!Init, Actors!ActorsAssumption
<1> DEFINE none == [i \in 1..0 |-> 1]
           nothing == [i \in 1..0 |-> {}]
<1>2. Forest(<<>>, 0, none, nothing)
  <2>1. <<>> \in [1..0 -> 1..0] /\ none \in [1..0 -> 1..0] /\ nothing \in [1..0 -> SUBSET (1..0)]
    OBVIOUS
  <2>2. \A i \in 1..0 : FALSE
    OBVIOUS
  <2> QED BY <2>1, <2>2 DEF Forest
<1>3. Grouped(<<>>, 0, <<>>, <<>>, 0, 0, none, nothing)
  <2>1. \A i \in 1..0 : FALSE
    OBVIOUS
  <2>2. DOMAIN <<>> = {} /\ <<>> = [s \in {} |-> <<>>[s]]
    OBVIOUS
  <2>3. \A S \in SUBSET (1..0) : \A i \in S : FALSE
    BY <2>1
  <2> HIDE DEF none, nothing
  <2> QED BY <1>2, <2>1, <2>2, <2>3 DEF Grouped
<1> QED BY <1>1, <1>3 DEF ActorsInv

LEMMA TakeRowKeeps ==
    ASSUME Actors!ActorsAssumption, ActorsInv, NEW r \in ShownRow, Actors!TakeRow(r)
    PROVE  ActorsInv'
<1> DEFINE n == Len(shown)
           N == n + 1
           rows == Append(shown, r)
           p == Append(parent, N)
           to == Actors!Linked([parent |-> p, owner |-> owner], r.signals)[Len(r.signals)]
<1>1. /\ n < MaxShown /\ shown' = rows /\ parent' = to.parent /\ owner' = to.owner
  BY DEF Actors!TakeRow
<1>2. /\ n \in Nat /\ MaxShown \in Nat /\ shown \in Seq(ShownRow)
      /\ Len(r.signals) \in Nat /\ DOMAIN r.signals = 1..Len(r.signals)
  BY DEF ActorsInv, Actors!ActorsAssumption
<1>3. /\ rows \in Seq(ShownRow) /\ Len(rows) = N /\ rows[N] = r /\ \A i \in 1..n : rows[i] = shown[i]
  BY <1>2
<1>4. PICK label, above : Grouped(shown, n, parent, owner, 0, 0, label, above)
  BY DEF ActorsInv
<1>5. parent \in Seq(1..n) /\ Len(parent) = n
  BY <1>2, <1>4, SequenceLength DEF Grouped, Forest
<1> HIDE DEF rows
<1>6. PICK label2, above2 : Grouped(rows, N, p, owner, N, 0, label2, above2)
  <2> HIDE DEF n
  <2> QED BY <1>2, <1>3, <1>4, <1>5, AloneIs
<1>7. \E label3, above3 : Grouped(rows, N, to.parent, to.owner, 0, 0, label3, above3)
  <2>1. N \in Nat \ {0} /\ rows[N].signals = r.signals
    BY <1>2, <1>3
  <2> HIDE DEF p, N
  <2>2. to = Actors!Linked([parent |-> p, owner |-> owner], rows[N].signals)[Len(rows[N].signals)]
    BY <2>1
  <2> HIDE DEF to
  <2> QED BY <1>2, <1>6, <2>1, <2>2, LinkedKeeps
<1> HIDE DEF to
<1>8. Len(shown') = N /\ Len(shown') <= MaxShown
  BY <1>1, <1>2, <1>3
<1> QED BY <1>1, <1>3, <1>7, <1>8 DEF ActorsInv

LEMMA ActorsNext == ASSUME Actors!ActorsAssumption, ActorsInv, [Actors!Next]_Actors!vars PROVE ActorsInv'
<1>1. CASE Actors!Next
  BY <1>1, TakeRowKeeps DEF Actors!Next
<1>2. CASE UNCHANGED Actors!vars
  BY <1>2 DEF Actors!vars, ActorsInv
<1> QED BY <1>1, <1>2

\* What the forest says of the groups: whoever is in one with others has a signal in common
\* with one of them.
LEMMA GroupsAre ==
    ASSUME NEW label, NEW above, Grouped(shown, Len(shown), parent, owner, 0, 0, label, above),
           Len(shown) \in Nat, NEW i \in Actors!Index
    PROVE  /\ Actors!Group(i) = {j \in Actors!Index : label[j] = label[i]}
           /\ parent \in [Actors!Index -> Actors!Index] /\ owner \in [DOMAIN owner -> Actors!Index]
           /\ LET root == Actors!Find(parent, i).root IN root \in Actors!Index /\ parent[root] = root
           /\ \A s : Actors!Has(i, s) => s \in DOMAIN owner /\ label[owner[s]] = label[i]
<1> DEFINE N == Len(shown)
<1>1. Forest(parent, N, label, above) /\ Actors!Index = 1..N /\ i \in 1..N
  BY DEF Grouped, Actors!Index
<1>2. ASSUME NEW j \in 1..N PROVE Actors!Find(parent, j).root = label[j]
  BY <1>1, FindIs
<1>3. Actors!Group(i) = {j \in Actors!Index : label[j] = label[i]}
  BY <1>1, <1>2 DEF Actors!Group
<1>4. ASSUME NEW s, Actors!Has(i, s) PROVE s \in DOMAIN owner /\ label[owner[s]] = label[i]
  BY <1>1, <1>4 DEF Actors!Has, Grouped
<1>5. \A s \in DOMAIN owner : owner[s] \in 1..N
  BY DEF Grouped
<1>6. label[i] \in 1..N /\ parent[label[i]] = label[i]
  <2>1. LET f == Actors!Find(parent, i)
        IN  /\ Forest(f.parent, N, label, above)
            /\ f.root = label[i] /\ f.root \in 1..N /\ f.parent[f.root] = f.root
    BY <1>1, FindIs
  <2>2. above[label[i]] = {} /\ label[i] \in 1..N
    BY <2>1 DEF Forest
  <2> QED BY <1>1, <2>2 DEF Forest
<1>7. parent \in [Actors!Index -> Actors!Index] /\ owner \in [DOMAIN owner -> Actors!Index]
  <2>1. owner = [s \in DOMAIN owner |-> owner[s]]
    BY DEF Grouped
  <2> QED BY <1>1, <1>5, <2>1 DEF Forest
<1> QED BY <1>1, <1>2, <1>3, <1>4, <1>6, <1>7

\* The instance counts as this module does.
LEMMA CountsAlike == \A S : Actors!Cardinality(S) = Cardinality(S)
  BY DEF Actors!Cardinality, Cardinality, Actors!IsFiniteSet, IsFiniteSet

LEMMA TwoOf == ASSUME NEW x, NEW y, x # y PROVE Cardinality({x, y}) = 2
<1>1. {x, y} = {x} \cup {y} /\ IsFiniteSet({x}) /\ Cardinality({x}) = 1
  BY FS_Singleton
<1> QED BY <1>1, FS_AddElement

\* A row in company has a signal in common with another of its group, as it alone would be entire otherwise.
LEMMA CompanyShares ==
    ASSUME NEW label, NEW above, Grouped(shown, Len(shown), parent, owner, 0, 0, label, above),
           Len(shown) \in Nat, NEW m \in Actors!Index, NEW k \in Actors!Index, k # m, label[k] = label[m]
    PROVE  \E s \in DOMAIN owner, y \in Actors!Index :
              y # m /\ label[y] = label[m] /\ Actors!Has(m, s) /\ Actors!Has(y, s)
<1> DEFINE N == Len(shown)
<1>1. m \in 1..N /\ k \in 1..N /\ Actors!Index = 1..N
  BY DEF Actors!Index
<1>2. ~ Entire(shown, N, {m})
  BY <1>1 DEF Grouped
<1>3. PICK y \in 1..N : Common(shown, m, y) /\ y # m
  BY <1>2 DEF Entire
<1>4. PICK a \in DOMAIN shown[m].signals, b \in DOMAIN shown[y].signals :
          shown[m].signals[a] = shown[y].signals[b]
  BY <1>3 DEF Common
<1> DEFINE s == shown[m].signals[a]
<1>5. Actors!Has(m, s) /\ Actors!Has(y, s)
  BY <1>4 DEF Actors!Has
<1>6. s \in DOMAIN owner /\ label[owner[s]] = label[m] /\ label[owner[s]] = label[y]
  <2> HIDE DEF s
  <2> QED BY <1>1, <1>3, <1>5, GroupsAre
<1> HIDE DEF s
<1> QED BY <1>1, <1>3, <1>5, <1>6

\* The rows that signals join are those that a chain of them reaches.
LEMMA ChainsAreGroups ==
    ASSUME NEW label, NEW above, Grouped(shown, Len(shown), parent, owner, 0, 0, label, above),
           Len(shown) \in Nat, NEW near, NEW i \in Actors!Index,
           \A x \in Actors!Index, y \in Actors!Index :
              <<x, y>> \in near <=> \E s \in DOMAIN owner : Actors!Has(x, s) /\ Actors!Has(y, s),
           \A pair \in near : /\ pair[1] \in Actors!Index /\ pair[2] \in Actors!Index
                              /\ pair = <<pair[1], pair[2]>>
    PROVE  \A j \in Actors!Index : label[j] = label[i] <=> Actors!Reachable(Actors!Index, near, i, j)
<1> DEFINE N == Len(shown)
<1>1. Actors!Index = 1..N
  BY DEF Actors!Index
<1>2. \A x \in 1..N, y \in 1..N : Common(shown, x, y) => <<x, y>> \in near
  <2> SUFFICES ASSUME NEW x \in 1..N, NEW y \in 1..N, Common(shown, x, y) PROVE <<x, y>> \in near
    OBVIOUS
  <2>1. PICK a \in DOMAIN shown[x].signals, b \in DOMAIN shown[y].signals :
            shown[x].signals[a] = shown[y].signals[b]
    BY DEF Common
  <2>2. \E s : Actors!Has(x, s) /\ Actors!Has(y, s)
    BY <2>1 DEF Actors!Has
  <2>3. PICK s : Actors!Has(x, s) /\ Actors!Has(y, s)
    BY <2>2
  <2>4. s \in DOMAIN owner
    BY <1>1, <2>3, GroupsAre
  <2> QED BY <1>1, <2>3, <2>4
<1>3. ASSUME NEW j \in 1..N, label[j] = label[i] PROVE Actors!Reachable(Actors!Index, near, i, j)
  <2> SUFFICES ASSUME NEW S \in SUBSET (1..N), i \in S, Actors!Closed(S, near) PROVE j \in S
    BY <1>1 DEF Actors!Reachable
  <2>1. Entire(shown, N, S)
    <3> SUFFICES ASSUME NEW x \in S, NEW y \in 1..N, Common(shown, x, y) PROVE y \in S
      BY DEF Entire
    <3>1. <<x, y>> \in near
      BY <1>2
    <3> QED BY <3>1 DEF Actors!Closed
  <2> QED BY <1>3, <2>1 DEF Grouped
<1>4. ASSUME NEW j \in 1..N, Actors!Reachable(Actors!Index, near, i, j) PROVE label[j] = label[i]
  <2> DEFINE S == {x \in 1..N : label[x] = label[i]}
  <2>1. Actors!Closed(S, near)
    <3> SUFFICES ASSUME NEW pair \in near, pair[1] \in S PROVE pair[2] \in S
      BY DEF Actors!Closed
    <3>1. PICK s \in DOMAIN owner : Actors!Has(pair[1], s) /\ Actors!Has(pair[2], s)
      OBVIOUS
    <3>2. pair[1] \in Actors!Index /\ pair[2] \in Actors!Index
      OBVIOUS
    <3>3. label[owner[s]] = label[pair[1]] /\ label[owner[s]] = label[pair[2]]
      BY <3>1, <3>2, GroupsAre
    <3> QED BY <1>1, <3>2, <3>3
  <2>2. S \in SUBSET (1..N) /\ i \in S
    BY <1>1
  <2> HIDE DEF S
  <2>3. j \in S
    BY <1>1, <1>4, <2>1, <2>2 DEF Actors!Reachable
  <2> QED BY <2>3 DEF S
<1> QED BY <1>1, <1>3, <1>4

\* What the page shows of the actors.
LEMMA GroupsHold ==
    ASSUME Actors!ActorsAssumption, ActorsInv PROVE ActorsConnected
<1> DEFINE N == Len(shown)
           near == {pair \in Actors!Index \X Actors!Index :
                       \E s \in DOMAIN owner : Actors!Has(pair[1], s) /\ Actors!Has(pair[2], s)}
<1>1. PICK label, above : Grouped(shown, N, parent, owner, 0, 0, label, above)
  BY DEF ActorsInv
<1>2. /\ N \in Nat /\ Actors!Index = 1..N
      /\ \A i \in 1..N : shown[i] \in ShownRow
  BY DEF ActorsInv, Actors!Index
<1> SUFFICES ASSUME NEW i \in Actors!Index
             PROVE  /\ Actors!Group(i) = {j \in Actors!Index : Actors!Reachable(Actors!Index, near, i, j)}
                    /\ Actors!Confidence(i) # "low"
                    /\ Actors!CrossHoneypot(i) => Actors!Confidence(i) = "high"
  BY DEF ActorsConnected, Actors!ActorsConnected
<1> DEFINE group == Actors!Group(i)
           kinds == {s.kind : s \in Actors!SharedSignals(i)}
           types == {shown[j].type : j \in group}
<1>3. group = {j \in Actors!Index : label[j] = label[i]}
  BY <1>1, <1>2, GroupsAre
<1>4. group = {j \in Actors!Index : Actors!Reachable(Actors!Index, near, i, j)}
  <2>1. \A x \in Actors!Index, y \in Actors!Index :
           <<x, y>> \in near <=> \E s \in DOMAIN owner : Actors!Has(x, s) /\ Actors!Has(y, s)
    OBVIOUS
  <2>2. \A pair \in near : /\ pair[1] \in Actors!Index /\ pair[2] \in Actors!Index
                           /\ pair = <<pair[1], pair[2]>>
    OBVIOUS
  <2> HIDE DEF group, near
  <2>3. \A j \in Actors!Index : label[j] = label[i] <=> Actors!Reachable(Actors!Index, near, i, j)
    BY <1>1, <1>2, <2>1, <2>2, ChainsAreGroups
  <2> QED BY <1>3, <2>3
<1> HIDE DEF near
<1>5. i \in group /\ IsFiniteSet(group)
  <2>1. group \subseteq 1..N /\ i \in group
    BY <1>2, <1>3
  <2>2. IsFiniteSet(1..N)
    BY <1>2, FS_Interval
  <2> HIDE DEF group
  <2> QED BY <2>1, <2>2, FS_Subset
<1>6. ASSUME NEW m \in group, NEW k \in group, k # m
      PROVE  \E s \in Actors!SharedSignals(i) : Actors!Has(m, s)
  <2>1. m \in Actors!Index /\ k \in Actors!Index /\ label[k] = label[m] /\ label[m] = label[i]
    BY <1>3
  <2>2. PICK s \in DOMAIN owner, y \in Actors!Index :
            y # m /\ label[y] = label[m] /\ Actors!Has(m, s) /\ Actors!Has(y, s)
    BY <1>1, <1>2, <1>6, <2>1, CompanyShares
  <2> DEFINE having == {j \in group : Actors!Has(j, s)}
  <2>3. {m, y} \subseteq having
    BY <1>3, <2>1, <2>2
  <2>4. IsFiniteSet(having)
    BY <1>5, FS_Subset
  <2>5. Cardinality({m, y}) = 2
    BY <2>2, TwoOf
  <2>6. Cardinality(having) > 1
    <3> HIDE DEF having
    <3>1. Cardinality(having) \in Nat /\ Cardinality({m, y}) <= Cardinality(having)
      BY <2>3, <2>4, FS_Subset, FS_CardinalityType
    <3> QED BY <2>5, <3>1
  <2> QED BY <2>2, <2>6, CountsAlike DEF Actors!SharedSignals
<1>7. Cardinality(group) # 1 => \E k \in group : k # i
  <2> SUFFICES ASSUME \A k \in group : k = i PROVE Cardinality(group) = 1
    OBVIOUS
  <2>1. group = {i}
    BY <1>5
  <2> QED BY <2>1, FS_Singleton
<1>8. Actors!Confidence(i) # "low"
  <2>1. Cardinality(group) # 1 => kinds # {}
    BY <1>5, <1>6, <1>7
  <2>2. Actors!Confidence(i) = IF Cardinality(group) = 1 THEN "single"
                               ELSE IF "ip" \in kinds \/ {"fp", "session"} \subseteq kinds THEN "high"
                               ELSE IF kinds # {} THEN "medium" ELSE "low"
    BY CountsAlike DEF Actors!Confidence
  <2> HIDE DEF group, kinds
  <2> QED BY <2>1, <2>2
<1>9. ASSUME Cardinality(types) > 1 PROVE Cardinality(group) # 1 /\ "ip" \in kinds
  <2>1. PICK k \in group : shown[k].type # shown[i].type
    <3> SUFFICES ASSUME \A k \in group : shown[k].type = shown[i].type PROVE FALSE
      OBVIOUS
    <3>1. types = {shown[i].type}
      BY <1>5
    <3> HIDE DEF types
    <3>2. Cardinality(types) = 1
      BY <3>1, FS_Singleton
    <3> QED BY <1>9, <3>2
  <2>2. PICK m \in group : shown[m].type # "parasitic" /\ \E l \in group : l # m
    BY <1>5, <2>1
  <2>3. PICK s \in Actors!SharedSignals(i) : Actors!Has(m, s)
    BY <1>6, <2>2
  <2>4. s.kind = "ip"
    <3>1. shown[m] \in ShownRow
      BY <1>2, <1>3
    <3> HIDE DEF group
    <3> QED BY <2>2, <2>3, <3>1 DEF Actors!Has, Actors!ActorsAssumption
  <2>5. Cardinality(group) # 1
    <3>1. i # k
      BY <2>1
    <3>2. Cardinality({i, k}) = 2
      BY <3>1, TwoOf
    <3>3. {i, k} \subseteq group
      BY <1>5
    <3> HIDE DEF group
    <3>4. Cardinality({i, k}) <= Cardinality(group) /\ Cardinality(group) \in Nat
      BY <1>5, <3>3, FS_Subset, FS_CardinalityType
    <3> QED BY <3>2, <3>4
  <2> QED BY <2>3, <2>4, <2>5
<1>10. Actors!CrossHoneypot(i) => Actors!Confidence(i) = "high"
  <2>1. Actors!CrossHoneypot(i) <=> Cardinality(types) > 1
    BY CountsAlike DEF Actors!CrossHoneypot
  <2>2. Cardinality(group) # 1 /\ "ip" \in kinds => Actors!Confidence(i) = "high"
    BY CountsAlike DEF Actors!Confidence
  <2> HIDE DEF group, kinds, types
  <2> QED BY <1>9, <2>1, <2>2
<1> QED BY <1>4, <1>8, <1>10

LEMMA ActorsTyped == ASSUME ActorsInv PROVE Actors!TypeOK
<1> DEFINE N == Len(shown)
<1>1. PICK label, above : Grouped(shown, N, parent, owner, 0, 0, label, above)
  BY DEF ActorsInv
<1>2. N \in Nat /\ Actors!Index = 1..N
  BY DEF ActorsInv, Actors!Index
<1>3. \A i \in Actors!Index : LET root == Actors!Find(parent, i).root
                              IN  root \in Actors!Index /\ parent[root] = root
  BY <1>1, <1>2, GroupsAre
<1>4. parent \in [Actors!Index -> Actors!Index] /\ owner \in [DOMAIN owner -> Actors!Index]
  <2>1. parent \in [1..N -> 1..N]
    BY <1>1 DEF Grouped, Forest
  <2>2. owner = [s \in DOMAIN owner |-> owner[s]] /\ \A s \in DOMAIN owner : owner[s] \in 1..N
    BY <1>1 DEF Grouped
  <2> QED BY <1>2, <2>1, <2>2
<1> QED BY <1>3, <1>4 DEF ActorsInv, Actors!TypeOK

\* Whatever rows a page shows, and in whatever order they are folded into the forest of parents,
\* two of them are of one actor exactly if a chain of shared signals joins them, and an actor
\* across honeypots is known by an address (_attach_source_and_actor_intel).
THEOREM ActorsAreConnected ==
    ASSUME Actors!ActorsAssumption PROVE Actors!Spec => []ActorsConnected
<1>1. Actors!Init => ActorsInv
  BY ActorsInit
<1>2. ActorsInv /\ [Actors!Next]_Actors!vars => ActorsInv'
  BY ActorsNext
<1>3. ActorsInv => ActorsConnected
  BY GroupsHold
<1> QED BY <1>1, <1>2, <1>3, PTL DEF Actors!Spec

\* The parents of the rows are a forest, in which every way up that _find_group_parent takes ends.
THEOREM ActorTypes ==
    ASSUME Actors!ActorsAssumption PROVE Actors!Spec => []Actors!TypeOK
<1>1. Actors!Init => ActorsInv
  BY ActorsInit
<1>2. ActorsInv /\ [Actors!Next]_Actors!vars => ActorsInv'
  BY ActorsNext
<1>3. ActorsInv => Actors!TypeOK
  BY ActorsTyped
<1> QED BY <1>1, <1>2, <1>3, PTL DEF Actors!Spec

-----------------------------------------------------------------------------
(* The partitions.                                                         *)

\* An edge is between nodes.
LEMMA EdgeEnds ==
    ASSUME IsGraph(graph), NEW i \in Edge
    PROVE  graph.edges[i].source \in Node /\ graph.edges[i].target \in Node
<1> DEFINE Kind == [source : Node, target : Node, observed : BOOLEAN, origin : BOOLEAN, important : BOOLEAN]
           list == graph.edges
<1>1. list \in Seq(Kind) /\ i \in 1..Len(list)
  BY DEF IsGraph, Edge
<1>2. list[i] \in Kind
  <2> HIDE DEF list, Kind
  <2> QED BY <1>1
<1> QED BY <1>2

\* Edges are in the same component if ways that are open in both directions join them.
BothWays ==
    LET arcs == {<<graph.edges[j].source, graph.edges[j].target>> : j \in Edge}
    IN  arcs \cup {<<a[2], a[1]>> : a \in arcs}

LEMMA ComponentIs ==
    ASSUME IsGraph(graph), NEW i \in Edge
    PROVE  /\ i \in Component(i) /\ Component(i) \subseteq Edge
           /\ \A j \in Component(i) : Component(j) = Component(i)
<1> DEFINE from(k) == graph.edges[k].source
           meets(x, y) == Reachable(Node, BothWays, x, y)
<1>1. \A k : Component(k) = {j \in Edge : meets(from(k), from(j))}
  BY DEF Component, BothWays
<1>2. \A x : meets(x, x)
  BY DEF Reachable
<1>3. \A x, y, z : meets(x, y) /\ meets(y, z) => meets(x, z)
  BY DEF Reachable
<1>4. \A a \in BothWays : <<a[2], a[1]>> \in BothWays /\ a[2] \in Node
  <2> DEFINE arcs == {<<graph.edges[j].source, graph.edges[j].target>> : j \in Edge}
             back == {<<a[2], a[1]>> : a \in arcs}
  <2>1. BothWays = arcs \cup back
    BY DEF BothWays
  <2>2. ASSUME NEW a \in arcs
        PROVE  <<a[2], a[1]>> \in back /\ a = <<a[1], a[2]>> /\ a[1] \in Node /\ a[2] \in Node
    <3>1. PICK j \in Edge : a = <<graph.edges[j].source, graph.edges[j].target>>
      OBVIOUS
    <3> QED BY <3>1, EdgeEnds
  <2>3. \A b \in back : \E a \in arcs : b = <<a[2], a[1]>>
    OBVIOUS
  <2> HIDE DEF arcs, back
  <2>4. ASSUME NEW b \in back PROVE <<b[2], b[1]>> \in arcs /\ b[2] \in Node
    <3>1. PICK a \in arcs : b = <<a[2], a[1]>>
      BY <2>3
    <3>2. b[1] = a[2] /\ b[2] = a[1]
      BY <3>1
    <3> QED BY <2>2, <3>2
  <2> QED BY <2>1, <2>2, <2>4
<1>5. ASSUME NEW x \in Node, NEW y, meets(x, y) PROVE meets(y, x)
  <2> SUFFICES ASSUME NEW S \in SUBSET Node, y \in S, Closed(S, BothWays), x \notin S PROVE FALSE
    BY DEF Reachable
  <2> DEFINE T == Node \ S
  <2>1. Closed(T, BothWays)
    <3> SUFFICES ASSUME NEW a \in BothWays, a[1] \in T PROVE a[2] \in T
      BY DEF Closed
    <3>1. <<a[2], a[1]>> \in BothWays /\ a[2] \in Node
      BY <1>4
    <3>2. a[2] \notin S
      BY <3>1 DEF Closed
    <3> QED BY <3>1, <3>2
  <2> QED BY <1>5, <2>1 DEF Reachable
<1>6. \A k \in Edge : from(k) \in Node
  BY EdgeEnds
<1> HIDE DEF from, meets
<1>7. ASSUME NEW j \in Component(i) PROVE Component(j) = Component(i)
  <2>1. meets(from(i), from(j)) /\ meets(from(j), from(i)) /\ j \in Edge
    BY <1>1, <1>5, <1>6
  <2>2. \A k \in Edge : meets(from(j), from(k)) <=> meets(from(i), from(k))
    BY <1>3, <2>1
  <2> QED BY <1>1, <2>2
<1> QED BY <1>1, <1>2, <1>7

\* The pieces of the components cut the edges into classes.
LEMMA PieceIs ==
    ASSUME IsGraph(graph), NEW i \in Edge
    PROVE  /\ i \in PieceOf(i) /\ PieceOf(i) \subseteq Edge
           /\ \A j \in PieceOf(i) : PieceOf(j) = PieceOf(i)
<1> DEFINE rank(k, C) == Cardinality({h \in C : h < k})
<1>1. \A k : PieceOf(k) = {j \in Component(k) : rank(j, Component(k)) \div MaxPart = rank(k, Component(k)) \div MaxPart}
  BY DEF PieceOf
<1> HIDE DEF rank
<1>2. /\ i \in Component(i) /\ Component(i) \subseteq Edge
      /\ \A j \in Component(i) : Component(j) = Component(i)
  BY ComponentIs
<1>3. ASSUME NEW j \in PieceOf(i) PROVE PieceOf(j) = PieceOf(i)
  <2>1. j \in Component(i) /\ Component(j) = Component(i)
        /\ rank(j, Component(i)) \div MaxPart = rank(i, Component(i)) \div MaxPart
    BY <1>1, <1>2
  <2> QED BY <1>1, <2>1
<1> QED BY <1>1, <1>2, <1>3

PieceSet == {PieceOf(i) : i \in Edge}
Earlier(A, B) == LET a == Lowest(Component(Lowest(A)))
                     b == Lowest(Component(Lowest(B)))
                 IN  a < b \/ (a = b /\ Lowest(A) < Lowest(B))

\* The list of the pieces has nothing else in it, as they are ordered by their first edges.
LEMMA PiecesListed ==
    ASSUME IsGraph(graph)
    PROVE  \E number \in Nat : /\ Pieces = [n \in 1..number |-> Pieces[n]]
                               /\ \A n \in 1..number : Pieces[n] \in PieceSet
<1> DEFINE R == {e \in PieceSet \X PieceSet : Earlier(e[1], e[2])}
           number == Cardinality(PieceSet)
           sorted == [n \in 1..number |-> CHOOSE A \in PieceSet : Cardinality({B \in PieceSet : Earlier(B, A)}) = n - 1]
<1>1. ASSUME NEW A \in PieceSet
      PROVE  /\ Lowest(A) \in A /\ Lowest(A) \in Edge /\ Lowest(A) \in Nat /\ A = PieceOf(Lowest(A))
             /\ Lowest(Component(Lowest(A))) \in Nat
  <2>1. PICK i \in Edge : A = PieceOf(i)
    BY DEF PieceSet
  <2>2. A \in SUBSET Nat /\ A # {} /\ A \subseteq Edge
    BY <2>1, PieceIs, EdgesFinite
  <2>3. Lowest(A) \in A
    BY <2>2, LowestIn
  <2>4. A = PieceOf(Lowest(A))
    BY <2>1, <2>3, PieceIs
  <2>5. Component(Lowest(A)) \in SUBSET Nat /\ Component(Lowest(A)) # {}
    BY <2>2, <2>3, ComponentIs, EdgesFinite
  <2>6. Lowest(Component(Lowest(A))) \in Nat
    BY <2>5, LowestIn
  <2> QED BY <2>2, <2>3, <2>4, <2>6
<1>2. Orders(R, PieceSet)
  <2> DEFINE a(A) == Lowest(Component(Lowest(A)))
             b(A) == Lowest(A)
  <2>1. \A A, B \in PieceSet : <<A, B>> \in R <=> a(A) < a(B) \/ (a(A) = a(B) /\ b(A) < b(B))
    BY DEF Earlier
  <2>2. \A A \in PieceSet : a(A) \in Nat /\ b(A) \in Nat
    BY <1>1
  <2>3. \A A, B \in PieceSet : b(A) = b(B) => A = B
    BY <1>1
  <2> HIDE DEF a, b, R
  <2>4. ASSUME NEW A \in PieceSet, NEW B \in PieceSet, NEW C \in PieceSet, <<A, B>> \in R, <<B, C>> \in R
        PROVE  <<A, C>> \in R
    BY <2>1, <2>2, <2>4
  <2>5. \A A \in PieceSet : <<A, A>> \notin R
    BY <2>1, <2>2
  <2>6. ASSUME NEW A \in PieceSet, NEW B \in PieceSet, A # B PROVE <<A, B>> \in R \/ <<B, A>> \in R
    <3>1. b(A) # b(B)
      BY <2>3, <2>6
    <3> QED BY <2>1, <2>2, <3>1
  <2> QED BY <2>4, <2>5, <2>6 DEF Orders
<1>3. IsFiniteSet(PieceSet)
  <2> DEFINE piece == [i \in Edge |-> PieceOf(i)]
  <2>1. PieceSet = {piece[i] : i \in Edge}
    BY DEF PieceSet
  <2> HIDE DEF piece
  <2> QED BY <2>1, EdgesFinite, FiniteImage
<1>4. /\ number \in Nat /\ \A n \in 1..number : sorted[n] \in PieceSet
  <2>1. \A A \in PieceSet : {B \in PieceSet : Earlier(B, A)} = Below(PieceSet, R, A)
    BY DEF Below
  <2>2. ASSUME NEW n \in 1..number, NEW A \in PieceSet, Cardinality(Below(PieceSet, R, A)) = n - 1
        PROVE  sorted[n] \in PieceSet /\ Cardinality(Below(PieceSet, R, sorted[n])) = n - 1
    <3>1. Cardinality({B \in PieceSet : Earlier(B, A)}) = n - 1
      BY <2>1, <2>2
    <3>2. sorted[n] \in PieceSet /\ Cardinality({B \in PieceSet : Earlier(B, sorted[n])}) = n - 1
      <4> HIDE DEF number
      <4> QED BY <3>1
    <3> HIDE DEF sorted, R
    <3> QED BY <2>1, <3>2
  <2> HIDE DEF R, sorted
  <2> QED BY <1>2, <1>3, <2>2, PlacedOnce
<1>5. Pieces = sorted
  BY DEF Pieces, InOrder, PieceSet, Earlier
<1> HIDE DEF sorted, number
<1>6. sorted = [n \in 1..number |-> sorted[n]]
  BY DEF sorted
<1> QED BY <1>4, <1>5, <1>6

\* Packing is what it is defined to be.
LEMMA PackedIs ==
    ASSUME NEW pieces, Len(pieces) \in Nat
    PROVE  Packed(pieces) = [n \in 0..Len(pieces) |-> IF n = 0 THEN <<>>
                                                      ELSE Pack(Packed(pieces)[n - 1], pieces[n])]
<1> DEFINE Solves(f, k) == f = [n \in 0..k |-> IF n = 0 THEN <<>> ELSE Pack(f[n - 1], pieces[n])]
           K == {k \in Nat : \E f : Solves(f, k)}
<1>1. 0 \in K
  <2> DEFINE f == [n \in 0..0 |-> <<>>]
  <2>1. Solves(f, 0)
    OBVIOUS
  <2> QED BY <2>1
<1>2. ASSUME NEW k \in K PROVE k + 1 \in K
  <2>1. PICK f : Solves(f, k)
    OBVIOUS
  <2> DEFINE g == [n \in 0..k + 1 |-> IF n = 0 THEN <<>> ELSE Pack(f[n - 1], pieces[n])]
  <2>2. k \in Nat
    OBVIOUS
  <2>3. \A n \in 0..k : g[n] = f[n]
    BY <2>1, <2>2
  <2>4. \A n \in 0..k + 1 : n # 0 => n - 1 \in 0..k
    BY <2>2
  <2>5. Solves(g, k + 1)
    BY <2>3, <2>4
  <2> HIDE DEF g, Solves
  <2> QED BY <2>2, <2>5
<1>3. K = Nat
  <2>1. K \in SUBSET Nat
    OBVIOUS
  <2> HIDE DEF K
  <2> QED BY <1>1, <1>2, <2>1, AllNumbers
<1>4. \E f : Solves(f, Len(pieces))
  BY <1>3
<1> QED BY <1>4 DEF Packed

\* The partitions are sets of edges of the graph.
LEMMA PartitionsAre ==
    ASSUME IsGraph(graph)
    PROVE  Partitions \in Seq(SUBSET Edge)
<1>1. CASE Len(graph.edges) <= MaxPart
  BY <1>1 DEF Partitions
<1>2. CASE ~(Len(graph.edges) <= MaxPart)
  <2>1. PICK number \in Nat : /\ Pieces = [n \in 1..number |-> Pieces[n]]
                              /\ \A n \in 1..number : Pieces[n] \in PieceSet
    BY PiecesListed
  <2>2. \A A \in PieceSet : A \subseteq Edge
    BY PieceIs DEF PieceSet
  <2> DEFINE pieces == Pieces
             packed == Packed(pieces)
             K == {k \in Nat : k <= number => packed[k] \in Seq(SUBSET Edge)}
  <2>3. Partitions = packed[Len(pieces)]
    BY <1>2 DEF Partitions
  <2>4. Len(pieces) = number /\ \A n \in 1..number : pieces[n] \in SUBSET Edge
    <3>1. pieces = [n \in 1..number |-> pieces[n]] /\ \A n \in 1..number : pieces[n] \in SUBSET Edge
      BY <2>1, <2>2
    <3> HIDE DEF pieces
    <3> QED BY <3>1
  <2> HIDE DEF pieces
  <2>5. packed = [n \in 0..number |-> IF n = 0 THEN <<>> ELSE Pack(packed[n - 1], pieces[n])]
    BY <2>4, PackedIs
  <2> HIDE DEF packed
  <2>6. 0 \in K
    BY <2>5
  <2>7. ASSUME NEW k \in K PROVE k + 1 \in K
    <3> SUFFICES ASSUME k + 1 <= number PROVE packed[k + 1] \in Seq(SUBSET Edge)
      OBVIOUS
    <3>1. k \in Nat /\ packed[k] \in Seq(SUBSET Edge) /\ pieces[k + 1] \in SUBSET Edge
      BY <2>4
    <3>2. packed[k + 1] = Pack(packed[k], pieces[k + 1])
      BY <2>5, <3>1
    <3> DEFINE before == packed[k]
               piece == pieces[k + 1]
               Sets == SUBSET Edge
    <3> HIDE DEF before, piece
    <3>3. ASSUME before # <<>> PROVE [before EXCEPT ![Len(before)] = @ \cup piece] \in Seq(Sets)
      <4>1. before \in Seq(Sets) /\ Len(before) \in 1..Len(before) /\ before[Len(before)] \cup piece \in Sets
        <5>1. before \in Seq(Sets) /\ piece \in Sets
          BY <3>1 DEF before, piece
        <5>2. Len(before) \in 1..Len(before)
          BY <3>3, <5>1
        <5>3. before[Len(before)] \in Sets
          <6> HIDE DEF Sets
          <6> QED BY <5>1, <5>2
        <5> QED BY <5>1, <5>2, <5>3
      <4> HIDE DEF Sets
      <4> QED BY <4>1
    <3>4. Append(before, piece) \in Seq(Sets)
      <4>1. before \in Seq(Sets) /\ piece \in Sets
        BY <3>1 DEF before, piece
      <4> HIDE DEF Sets
      <4> QED BY <4>1
    <3>5. packed[k + 1] = Pack(before, piece)
      BY <3>2 DEF before, piece
    <3> QED BY <3>3, <3>4, <3>5 DEF Pack
  <2>8. K = Nat
    <3>1. K \in SUBSET Nat
      OBVIOUS
    <3> HIDE DEF K
    <3> QED BY <2>6, <2>7, <3>1, AllNumbers
  <2>9. packed[number] \in Seq(SUBSET Edge)
    <3>1. number \in K
      <4> HIDE DEF K
      <4> QED BY <2>8
    <3> QED BY <3>1
  <2> QED BY <2>3, <2>4, <2>9
<1> QED BY <1>1, <1>2

-----------------------------------------------------------------------------
(* Types.                                                                  *)

PlaceTypes ==
    /\ phase \in {"idle", "loaded", "train", "split", "decide", "filter", "written",
                  "restore", "pruned", "prompted", "told", "failed"}
    /\ todo \subseteq (IF phase \in {"restore", "failed"} THEN Path ELSE Edge)
    /\ parts \in Seq(SUBSET Edge)
KnownTypes ==
    /\ scope \subseteq Edge /\ mask \subseteq scope /\ enforced \subseteq Path
    /\ witness \in [enforced -> SUBSET scope]
ListTypes == prune \subseteq Edge /\ overrides \subseteq Edge /\ prompt \subseteq kept
StoryTypes ==
    /\ story.nodes \subseteq Nodes(kept) /\ story.timeline \subseteq kept
    /\ DOMAIN story.routes \subseteq Path /\ story.routes \in [DOMAIN story.routes -> SUBSET kept]
    /\ story.omitted \in 0..Len(graph.required) /\ story.walks \subseteq Seq(Node)
    /\ story.partial \in BOOLEAN /\ story.digest.edges \in 0..Len(graph.edges)

\* Nothing is there before it is made.
Untold ==
    /\ phase = "idle" => GuardInit
    /\ phase \notin {"prompted", "told"} => prompt = {}
    /\ phase # "told" => story = NoStory

TypesInv == PlaceTypes /\ KnownTypes /\ ListTypes /\ StoryTypes /\ Untold

\* An answer about edges that the guard knows leaves witnesses of such edges.
LEMMA AskTypes ==
    ASSUME KnownTypes, NEW m \in SUBSET scope, NEW i, Ask(m, i), UNCHANGED graph, mask' \subseteq mask
    PROVE  KnownTypes'
<1> DEFINE answers == [p \in enforced |->
                          IF p \in Searched(m, i) THEN FindPath(m \ {i}, p) ELSE {witness[p]}]
<1>1. witness' \in Picks(answers) /\ UNCHANGED <<scope, enforced>> /\ DOMAIN answers = enforced
  BY DEF Ask
<1>2. DOMAIN witness' = enforced /\ \A p \in enforced : witness'[p] \in answers[p]
  BY <1>1, Picked
<1>3. ASSUME NEW p \in enforced PROVE witness'[p] \subseteq scope
  <2>1. CASE p \in Searched(m, i)
    <3>1. witness'[p] \in FindPath(m \ {i}, p)
      BY <1>2, <2>1
    <3> QED BY <3>1, FoundConnects
  <2>2. CASE p \notin Searched(m, i)
    BY <1>2, <2>2 DEF KnownTypes
  <2> QED BY <2>1, <2>2
<1>4. witness' \in [DOMAIN answers -> UNION {answers[p] : p \in DOMAIN answers}]
  <2> HIDE DEF answers
  <2> QED BY <1>1 DEF Picks
<1>5. witness' \in [enforced -> SUBSET scope]
  <2> HIDE DEF answers
  <2> QED BY <1>1, <1>3, <1>4
<1> QED BY <1>1, <1>5, SameGraph DEF KnownTypes

LEMMA NewGuardTypes ==
    ASSUME NEW edges \in SUBSET Edge, NEW paths \in SUBSET Path, NewGuard(edges, paths), UNCHANGED graph
    PROVE  KnownTypes'
<1> DEFINE answers == [p \in paths |-> FindPath(edges, p)]
<1>1. /\ scope' = edges /\ enforced' = paths /\ mask' = edges
      /\ witness' \in Picks(answers)
  BY DEF NewGuard
<1>2. DOMAIN answers = paths /\ witness' \in [DOMAIN answers -> UNION {answers[p] : p \in DOMAIN answers}]
  <2>1. DOMAIN answers = paths
    OBVIOUS
  <2> HIDE DEF answers
  <2> QED BY <1>1, <2>1 DEF Picks
<1>3. \A p \in paths : witness'[p] \subseteq edges
  <2>1. \A p \in paths : witness'[p] \in FindPath(edges, p)
    BY <1>1, Picked
  <2> QED BY <2>1, FoundConnects
<1>4. witness' \in [paths -> SUBSET edges]
  <2> HIDE DEF answers
  <2> QED BY <1>2, <1>3
<1> QED BY <1>1, <1>4, SameGraph DEF KnownTypes

\* Types of a guard and of what is told, where nothing of them changes.
LEMMA KnownStill ==
    ASSUME KnownTypes, UNCHANGED <<graph, scope, enforced, mask, witness>> PROVE KnownTypes'
BY SameGraph DEF KnownTypes

LEMMA NothingTold ==
    ASSUME IsGraph(graph), story = NoStory PROVE StoryTypes
<1>1. Len(graph.edges) \in Nat /\ Len(graph.required) \in Nat
  BY DEF IsGraph
<1>2. DOMAIN <<>> = {} /\ <<>> \in [DOMAIN <<>> -> SUBSET kept]
  OBVIOUS
<1>3. /\ story.nodes = {} /\ story.timeline = {} /\ story.routes = <<>> /\ story.omitted = 0
      /\ story.walks = {} /\ story.partial = FALSE /\ story.digest.edges = 0
  BY DEF NoStory
<1>4. DOMAIN story.routes \subseteq Path /\ story.routes \in [DOMAIN story.routes -> SUBSET kept]
  BY <1>2, <1>3
<1>5. 0 \in 0..Len(graph.edges) /\ 0 \in 0..Len(graph.required)
  BY <1>1
<1> QED BY <1>3, <1>4, <1>5 DEF StoryTypes

LEMMA CountedIn ==
    ASSUME NEW N \in Nat, NEW S \in SUBSET (1..N)
    PROVE  IsFiniteSet(S) /\ Cardinality(S) \in 0..N
<1>1. IsFiniteSet(1..N) /\ Cardinality(1..N) = N
  <2>1. 1 \in Int /\ N \in Int
    OBVIOUS
  <2>2. IsFiniteSet(1..N) /\ Cardinality(1..N) = IF 1 > N THEN 0 ELSE N - 1 + 1
    BY <2>1, FS_Interval
  <2> QED BY <2>2
<1>2. IsFiniteSet(S) /\ Cardinality(S) <= N /\ Cardinality(S) \in Nat
  BY <1>1, FS_Subset, FS_CardinalityType
<1> QED BY <1>2

LEMMA TellTypes ==
    ASSUME PipelineInv, ListTypes, Tell
    PROVE  StoryTypes'
<1>1. /\ phase = "prompted" /\ UNCHANGED <<graph, kept, prompt>>
      /\ IsGraph(graph) /\ prompt \subseteq kept /\ kept \subseteq Edge
  BY DEF Tell, PipelineInv, ListTypes, KeptIsPart
<1>2. PICK routes \in Routes(prompt) : story' = Narrative(prompt, routes)
  BY DEF Tell
<1> DEFINE found == {p \in Path : FindPath(prompt, p) # {}}
           told == Narrative(prompt, routes)
<1>3. /\ DOMAIN routes = found /\ found \subseteq Path
      /\ \A p \in found : routes[p] \subseteq prompt
  <2>1. routes \in Picks([p \in found |-> FindPath(prompt, p)])
    BY <1>2 DEF Routes
  <2>2. DOMAIN routes = found /\ \A p \in found : routes[p] \in FindPath(prompt, p)
    <3> HIDE DEF found
    <3> QED BY <2>1, Picked
  <2> QED BY <2>2, FoundConnects
<1>4. /\ told.nodes = Nodes(prompt)
      /\ told.timeline = Timeline(prompt) /\ told.routes = [p \in Listed(routes) |-> routes[p]]
      /\ told.omitted = Cardinality(found) - Cardinality(Listed(routes))
      /\ told.walks = {Walk(prompt, entry) : entry \in Entries(prompt)}
      /\ told.partial = (prompt # kept) /\ told.digest.edges = Cardinality(prompt)
  BY <1>3 DEF Narrative, Digest
<1>5. Listed(routes) \subseteq found
  BY <1>3 DEF Listed
<1> HIDE DEF found
<1>6. told.omitted \in 0..Len(graph.required)
  <2>1. Len(graph.required) \in Nat /\ found \in SUBSET (1..Len(graph.required))
    BY <1>1, <1>3 DEF IsGraph, Path
  <2>2. IsFiniteSet(found) /\ Cardinality(found) \in 0..Len(graph.required)
    BY <2>1, CountedIn
  <2>3. Cardinality(Listed(routes)) <= Cardinality(found) /\ Cardinality(Listed(routes)) \in Nat
    BY <1>5, <2>2, FS_Subset, FS_CardinalityType
  <2> HIDE DEF told
  <2> QED BY <1>4, <2>1, <2>2, <2>3
<1>7. told.digest.edges \in 0..Len(graph.edges)
  <2>1. Len(graph.edges) \in Nat /\ prompt \in SUBSET (1..Len(graph.edges))
    BY <1>1 DEF IsGraph, Edge
  <2> HIDE DEF told
  <2> QED BY <1>4, <2>1, CountedIn
<1>8. told.walks \subseteq Seq(Node)
  <2>1. \A entry \in Entries(prompt) : Walk(prompt, entry) \in Seq(Node)
    BY <1>1, WalksStraight DEF Straight
  <2> HIDE DEF told
  <2> QED BY <1>4, <2>1
<1>9. told.nodes \subseteq Nodes(kept) /\ told.timeline \subseteq kept
  <2>1. Nodes(prompt) \subseteq Nodes(kept) /\ Timeline(prompt) \subseteq prompt
    BY <1>1 DEF Nodes, Timeline
  <2> HIDE DEF told
  <2> QED BY <1>1, <1>4, <2>1
<1>10. DOMAIN told.routes \subseteq Path /\ told.routes \in [DOMAIN told.routes -> SUBSET kept]
  <2>1. DOMAIN told.routes = Listed(routes) /\ \A p \in Listed(routes) : told.routes[p] = routes[p]
    <3> HIDE DEF told
    <3> QED BY <1>4
  <2>2. \A p \in Listed(routes) : routes[p] \subseteq kept
    BY <1>1, <1>3, <1>5
  <2> HIDE DEF told
  <2> QED BY <1>3, <1>4, <1>5, <2>1, <2>2
<1>11. told.partial \in BOOLEAN
  <2> HIDE DEF told
  <2> QED BY <1>4
<1> HIDE DEF told
<1>12. story' = told /\ graph' = graph /\ kept' = kept /\ Path' = Path /\ Nodes(kept)' = Nodes(kept)
  <2>1. Nodes(kept)' = Nodes(kept)
    BY <1>1 DEF Nodes
  <2> QED BY <1>1, <1>2, <2>1, SameGraph DEF told
<1> QED BY <1>6, <1>7, <1>8, <1>9, <1>10, <1>11, <1>12 DEF StoryTypes

\* What was told stays true where nothing of it changes.
LEMMA UntoldStep ==
    ASSUME PipelineInv, TypesInv, phase # "idle", phase' # "idle", graph' = graph, UNCHANGED <<prompt, story>>,
           \/ phase \notin {"prompted", "told"} /\ phase' \notin {"prompted", "told"}
           \/ phase' = phase /\ kept' = kept
    PROVE  prompt' \subseteq kept' /\ StoryTypes' /\ Untold'
<1>1. IsGraph(graph)
  BY DEF PipelineInv
<1>2. CASE phase \notin {"prompted", "told"} /\ phase' \notin {"prompted", "told"}
  <2>1. IsGraph(graph)' /\ story' = NoStory /\ prompt' = {}
    BY <1>1, <1>2 DEF TypesInv, Untold, IsGraph
  <2>2. StoryTypes'
    <3>1. NoStory' = NoStory
      BY DEF NoStory
    <3>2. (IsGraph(graph) /\ story = NoStory => StoryTypes)'
      BY NothingTold, PTL
    <3> QED BY <2>1, <3>1, <3>2
  <2>3. NoStory' = NoStory
    BY DEF NoStory
  <2> QED BY <1>2, <2>1, <2>2, <2>3 DEF Untold
<1>3. CASE phase' = phase /\ kept' = kept
  <2>1. Path' = Path /\ Nodes(kept)' = Nodes(kept)
    BY <1>3, SameGraph DEF Nodes
  <2>2. StoryTypes'
    BY <1>3, <2>1 DEF TypesInv, StoryTypes
  <2> QED BY <1>3, <2>2 DEF TypesInv, ListTypes, Untold, NoStory
<1> QED BY <1>2, <1>3

\* The steps with the guard at work, and those before and after it.
LEMMA TrainTypes ==
    ASSUME PipelineInv, TypesInv, Train
    PROVE  TypesInv'
<1> DEFINE Quiet == /\ phase \in {"loaded", "train"} /\ phase' = "train" /\ graph' = graph
                    /\ UNCHANGED <<parts, prune, overrides, kept, prompt, story>>
<1>1. Quiet
  <2>1. ASSUME StartTraining \/ NextEpisode PROVE Quiet
    BY <2>1 DEF StartTraining, NextEpisode
  <2>2. ASSUME NEW i, NEW action, TrainStep(i, action) PROVE Quiet
    BY <2>2 DEF TrainStep
  <2>3. ASSUME NEW m, NEW i, Replay(m, i) PROVE Quiet
    BY <2>3 DEF Replay
  <2> HIDE DEF Quiet
  <2> QED BY <2>1, <2>2, <2>3 DEF Train
<1>2. PlaceTypes /\ KnownTypes /\ ListTypes /\ (phase = "train" => scope = Edge)
  BY DEF TypesInv, PipelineInv, GuardInv, Prepared
<1>3. todo' \subseteq Edge /\ KnownTypes'
  <2>1. CASE StartTraining
    BY <2>1, NewGuardTypes DEF StartTraining
  <2>2. CASE NextEpisode
    BY <1>2, <2>2, SameGraph DEF NextEpisode, KnownTypes
  <2>3. ASSUME NEW i, NEW action, TrainStep(i, action) PROVE todo' \subseteq Edge /\ KnownTypes'
    <3>1. Ask(mask, i) /\ graph' = graph /\ mask' \subseteq mask /\ todo' \subseteq todo /\ phase = "train"
      BY <2>3 DEF TrainStep
    <3>2. mask \in SUBSET scope
      BY <1>2 DEF KnownTypes
    <3>3. KnownTypes'
      BY <1>2, <3>1, <3>2, AskTypes
    <3> QED BY <1>2, <3>1, <3>3 DEF PlaceTypes
  <2>4. ASSUME NEW m \in SUBSET Edge, NEW i, Replay(m, i) PROVE todo' \subseteq Edge /\ KnownTypes'
    <3>1. Ask(m, i) /\ graph' = graph /\ mask' = mask /\ todo' = todo /\ phase = "train"
      BY <2>4 DEF Replay
    <3>2. m \in SUBSET scope
      BY <1>2, <3>1
    <3>3. KnownTypes'
      BY <1>2, <3>1, <3>2, AskTypes
    <3> QED BY <1>2, <3>1, <3>3 DEF PlaceTypes
  <2> QED BY <2>1, <2>2, <2>3, <2>4 DEF Train
<1>4. Edge' = Edge /\ Path' = Path
  BY <1>1, SameGraph
<1>5. PlaceTypes'
  BY <1>1, <1>2, <1>3, <1>4 DEF PlaceTypes
<1>6. prompt' \subseteq kept' /\ StoryTypes' /\ Untold'
  BY <1>1, UntoldStep
<1>7. ListTypes'
  BY <1>1, <1>2, <1>4, <1>6 DEF ListTypes
<1> QED BY <1>3, <1>5, <1>6, <1>7 DEF TypesInv

\* Whatever the decision on the edge.
LEMMA DecideTypes ==
    ASSUME PipelineInv, TypesInv, NEW action, Decide(action) \/ Filter
    PROVE  TypesInv'
<1> DEFINE i == Lowest(todo)
<1>1. /\ phase \in {"decide", "filter"} /\ phase' = phase /\ graph' = graph /\ todo # {}
      /\ UNCHANGED <<parts, kept, prompt, story>>
      /\ todo' = todo \ {i} /\ mask' \subseteq mask
      /\ prune' \subseteq prune \cup {i} /\ overrides' \subseteq overrides \cup {i}
      /\ Ask(mask, i) \/ UNCHANGED <<scope, enforced, witness>>
  BY DEF Decide, Filter, DontAsk
<1>2. PlaceTypes /\ KnownTypes /\ ListTypes /\ IsGraph(graph)
  BY <1>1 DEF TypesInv, PipelineInv
<1>3. todo \subseteq Edge /\ i \in Edge
  <2>1. todo \subseteq Edge
    BY <1>1, <1>2 DEF PlaceTypes
  <2>2. todo \in SUBSET Nat
    BY <1>2, <2>1, EdgesFinite
  <2> QED BY <1>1, <2>1, <2>2, LowestIn
<1> HIDE DEF i
<1>4. KnownTypes'
  <2>1. CASE Ask(mask, i)
    <3>1. mask \in SUBSET scope
      BY <1>2 DEF KnownTypes
    <3> QED BY <1>1, <1>2, <2>1, <3>1, AskTypes
  <2>2. CASE UNCHANGED <<scope, enforced, witness>>
    BY <1>1, <1>2, <2>2, SameGraph DEF KnownTypes
  <2> QED BY <1>1, <2>1, <2>2
<1>5. Edge' = Edge /\ Path' = Path
  BY <1>1, SameGraph
<1>6. PlaceTypes'
  BY <1>1, <1>2, <1>3, <1>5 DEF PlaceTypes
<1>7. prompt' \subseteq kept' /\ StoryTypes' /\ Untold'
  BY <1>1, UntoldStep
<1>8. ListTypes'
  BY <1>1, <1>2, <1>3, <1>5, <1>7 DEF ListTypes
<1> QED BY <1>4, <1>6, <1>7, <1>8 DEF TypesInv

\* Steps that ask nothing of the guard, and those that get a new one or give it up.
LEMMA TurnTypes ==
    ASSUME PipelineInv, TypesInv,
           \/ StartDqn \/ TakePart \/ EndPart \/ StartFilter \/ Write \/ Annotate
           \/ DqnFails \/ EndRestore \/ Refuse \/ (\E p \in Path : Restore(p))
    PROVE  TypesInv'
<1>1. /\ phase \in {"loaded", "split", "decide", "filter", "written", "restore"}
      /\ phase' \in {"split", "decide", "filter", "written", "restore", "pruned", "failed"}
      /\ graph' = graph /\ UNCHANGED <<prompt, story>>
      /\ prune' \in {prune, {}} /\ overrides' \in {overrides, {}}
  <2> DEFINE Quiet == /\ phase \in {"loaded", "split", "decide", "filter", "written", "restore"}
                      /\ phase' \in {"split", "decide", "filter", "written", "restore", "pruned", "failed"}
                      /\ graph' = graph /\ UNCHANGED <<prompt, story>>
                      /\ prune' \in {prune, {}} /\ overrides' \in {overrides, {}}
  <2>1. ASSUME StartDqn \/ TakePart \/ EndPart \/ StartFilter \/ Write \/ Annotate PROVE Quiet
    BY <2>1 DEF StartDqn, TakePart, EndPart, StartFilter, Write, Annotate
  <2>2. ASSUME DqnFails \/ EndRestore \/ Refuse PROVE Quiet
    BY <2>2 DEF DqnFails, EndRestore, Refuse
  <2>3. ASSUME NEW p, Restore(p) PROVE Quiet
    BY <2>3 DEF Restore
  <2> HIDE DEF Quiet
  <2>4. Quiet
    BY <2>1, <2>2, <2>3
  <2> QED BY <2>4 DEF Quiet
<1>2. PlaceTypes /\ KnownTypes /\ ListTypes /\ IsGraph(graph) /\ kept \subseteq Edge
  BY <1>1 DEF TypesInv, PipelineInv, KeptIsPart
<1>3. Edge' = Edge /\ Path' = Path
  BY <1>1, SameGraph
<1>4. PlaceTypes' /\ KnownTypes'
  <2>1. CASE StartDqn
    BY <1>2, <1>3, <2>1, PartitionsAre, KnownStill DEF StartDqn, PlaceTypes, guard
  <2>2. CASE TakePart
    <3> DEFINE A == Head(parts)
               Sets == SUBSET Edge
               inPart == {p \in Path : Connects(A, p)}
    <3>1. /\ parts # <<>> /\ NewGuard(A, inPart) /\ parts' = Tail(parts) /\ todo' = A /\ phase' = "decide"
      BY <2>2 DEF TakePart
    <3>2. parts \in Seq(Sets)
      BY <1>2 DEF PlaceTypes
    <3>3. A \in Sets /\ Tail(parts) \in Seq(Sets)
      <4> HIDE DEF Sets
      <4> QED BY <3>1, <3>2
    <3>4. inPart \in SUBSET Path
      OBVIOUS
    <3> HIDE DEF A, inPart
    <3>5. KnownTypes'
      BY <1>1, <3>1, <3>3, <3>4, NewGuardTypes
    <3> QED BY <1>3, <3>1, <3>3, <3>5 DEF PlaceTypes
  <2>3. CASE StartFilter
    <3>1. NewGuard(Edge, Path) /\ todo' = prune /\ phase' = "filter" /\ parts' = parts
      BY <2>3 DEF StartFilter
    <3>2. KnownTypes'
      BY <1>1, <3>1, NewGuardTypes
    <3> QED BY <1>2, <1>3, <3>1, <3>2 DEF PlaceTypes, ListTypes
  <2>4. CASE DqnFails
    <3>1. NoGuard /\ todo' = Path /\ phase' = "restore" /\ parts' = <<>>
      BY <2>4 DEF DqnFails
    <3>2. KnownTypes'
      BY <1>3, <3>1 DEF NoGuard, KnownTypes
    <3> QED BY <1>3, <3>1, <3>2 DEF PlaceTypes
  <2>5. CASE EndPart \/ Write \/ Annotate \/ EndRestore \/ Refuse
    <3>1. UNCHANGED <<graph, scope, enforced, mask, witness, parts, todo>>
      BY <2>5 DEF EndPart, Write, Annotate, EndRestore, Refuse, guard
    <3>2. \/ phase \in {"decide", "filter", "written"} /\ phase' \in {"split", "written", "pruned"}
          \/ phase = "restore" /\ todo = {} /\ phase' = "pruned"
          \/ phase = "restore" /\ phase' = "failed"
      BY <2>5 DEF EndPart, Write, Annotate, EndRestore, Refuse
    <3> QED BY <1>2, <1>3, <3>1, <3>2, KnownStill DEF PlaceTypes
  <2>6. ASSUME NEW p, Restore(p) PROVE PlaceTypes' /\ KnownTypes'
    <3>1. UNCHANGED <<graph, scope, enforced, mask, witness, parts>> /\ todo' \subseteq todo
          /\ phase = "restore" /\ phase' = "restore"
      BY <2>6 DEF Restore, guard
    <3> QED BY <1>2, <1>3, <3>1, KnownStill DEF PlaceTypes
  <2> QED BY <2>1, <2>2, <2>3, <2>4, <2>5, <2>6
<1>5. prompt' \subseteq kept' /\ StoryTypes' /\ Untold'
  BY <1>1, UntoldStep
<1>6. ListTypes'
  BY <1>1, <1>2, <1>3, <1>5 DEF ListTypes
<1> QED BY <1>4, <1>5, <1>6 DEF TypesInv

LEMMA PromptTypes ==
    ASSUME PipelineInv, TypesInv, BuildPrompt \/ Tell
    PROVE  TypesInv'
<1>1. /\ phase \in {"pruned", "prompted"} /\ phase' \in {"prompted", "told"} /\ graph' = graph
      /\ UNCHANGED <<parts, todo, scope, enforced, mask, witness, prune, overrides, kept>>
  BY DEF BuildPrompt, Tell, guard
<1>2. PlaceTypes /\ KnownTypes /\ ListTypes /\ StoryTypes /\ Untold /\ IsGraph(graph)
  BY <1>1 DEF TypesInv, PipelineInv
<1>3. Edge' = Edge /\ Path' = Path
  BY <1>1, SameGraph
<1>4. PlaceTypes' /\ KnownTypes'
  BY <1>1, <1>2, <1>3, KnownStill DEF PlaceTypes
<1>5. CASE BuildPrompt
  <2>1. prompt' \subseteq kept /\ story' = story /\ phase' = "prompted" /\ phase = "pruned"
    BY <1>5, LatestOf DEF BuildPrompt
  <2>2. Nodes(kept)' = Nodes(kept)
    BY <1>1 DEF Nodes
  <2>3. StoryTypes'
    BY <1>1, <1>2, <1>3, <2>1, <2>2 DEF StoryTypes
  <2>4. Untold'
    BY <1>2, <2>1 DEF Untold, NoStory
  <2> QED BY <1>1, <1>2, <1>3, <1>4, <2>1, <2>3, <2>4 DEF TypesInv, ListTypes
<1>6. CASE Tell
  <2>1. StoryTypes'
    BY <1>2, <1>6, TellTypes
  <2>2. Untold'
    BY <1>6 DEF Untold, Tell
  <2>3. ListTypes'
    BY <1>1, <1>2, <1>3, <1>6 DEF ListTypes, Tell
  <2> QED BY <1>4, <2>1, <2>2, <2>3 DEF TypesInv
<1> QED BY <1>5, <1>6

LEMMA LoadTypes ==
    ASSUME TypesInv, NEW g, IsGraph(g), Load(g)
    PROVE  TypesInv'
<1>1. /\ phase = "idle" /\ phase' = "loaded" /\ GuardInit /\ graph' = g
      /\ UNCHANGED <<parts, todo, scope, enforced, mask, witness, prune, overrides, kept, prompt, story>>
  BY DEF Load, TypesInv, Untold, guard
<1>2. /\ parts' = <<>> /\ todo' = {} /\ scope' = {} /\ enforced' = {} /\ mask' = {} /\ witness' = <<>>
      /\ prune' = {} /\ overrides' = {} /\ kept' = {} /\ prompt' = {} /\ story' = NoStory
  BY <1>1 DEF GuardInit
<1>3. PlaceTypes'
  BY <1>1, <1>2 DEF PlaceTypes
<1>4. KnownTypes'
  BY <1>2 DEF KnownTypes
<1>5. ListTypes'
  BY <1>2 DEF ListTypes
<1>6. StoryTypes'
  <2>1. IsGraph(graph)' /\ (story = NoStory)'
    BY <1>1, <1>2 DEF IsGraph, NoStory
  <2>2. (IsGraph(graph) /\ story = NoStory => StoryTypes)'
    BY NothingTold, PTL
  <2> QED BY <2>1, <2>2
<1>7. Untold'
  BY <1>1, <1>2 DEF Untold, NoStory
<1> QED BY <1>3, <1>4, <1>5, <1>6, <1>7 DEF TypesInv

LEMMA IdleTypes == GuardInit => TypesInv
<1> SUFFICES ASSUME GuardInit PROVE TypesInv
  OBVIOUS
<1>1. /\ phase = "idle" /\ graph = [edges |-> <<>>, required |-> <<>>] /\ parts = <<>> /\ todo = {}
      /\ scope = {} /\ enforced = {} /\ mask = {} /\ witness = <<>>
      /\ prune = {} /\ overrides = {} /\ kept = {} /\ prompt = {} /\ story = NoStory
  BY DEF GuardInit
<1>2. IsGraph(graph)
  BY <1>1 DEF IsGraph
<1>3. StoryTypes
  BY <1>1, <1>2, NothingTold
<1>4. PlaceTypes
  BY <1>1 DEF PlaceTypes
<1>5. KnownTypes
  BY <1>1 DEF KnownTypes
<1>6. ListTypes
  BY <1>1 DEF ListTypes
<1> QED BY <1>1, <1>3, <1>4, <1>5, <1>6 DEF TypesInv, Untold

\* Every step of step 3.
LEMMA TypesStep ==
    ASSUME PipelineInv, TypesInv, [GuardNext]_guardVars
    PROVE  TypesInv'
<1>1. CASE UNCHANGED guardVars
  <2>1. CASE phase = "idle"
    <3>1. GuardInit'
      BY <1>1, <2>1 DEF guardVars, TypesInv, Untold, GuardInit, NoStory
    <3>2. (GuardInit => TypesInv)'
      BY IdleTypes, PTL
    <3> QED BY <3>1, <3>2
  <2>2. CASE phase # "idle"
    <3>1. UNCHANGED <<phase, graph, parts, todo, scope, enforced, mask, witness, prune, overrides, kept, prompt, story>>
      BY <1>1 DEF guardVars
    <3>2. Edge' = Edge /\ Path' = Path
      BY <3>1, SameGraph
    <3>3. StoryTypes' /\ Untold'
      BY <2>2, <3>1, UntoldStep
    <3>4. PlaceTypes' /\ KnownTypes' /\ ListTypes'
      BY <3>1, <3>2, KnownStill DEF TypesInv, PlaceTypes, ListTypes
    <3> QED BY <3>3, <3>4 DEF TypesInv
  <2> QED BY <2>1, <2>2
<1>2. ASSUME NEW g, IsGraph(g), Load(g) PROVE TypesInv'
  BY <1>2, LoadTypes
<1>3. CASE Train
  BY <1>3, TrainTypes
<1>4. CASE Prune
  BY <1>4, DecideTypes, TurnTypes, PromptTypes DEF Prune
<1> QED BY <1>1, <1>2, <1>3, <1>4 DEF GuardNext

\* Of step 2, what is not in BuildInv.
ContractTypes == (step # "graph" => required = {}) /\ skipped \subseteq Nat

LEMMA ContractStep ==
    ASSUME BuildInv, ContractTypes, Step2!Next \/ UNCHANGED graphVars
    PROVE  ContractTypes'
<1>1. CASE Step2!ToDict
  <2>1. skipped' = Step2!Unbounded(corr) /\ step' = "graph"
    BY <1>1 DEF Step2!ToDict
  <2>2. \A c \in corr : c.path \in Nat
    <3>1. InRows /\ Correlated
      BY DEF BuildInv
    <3>2. \A c \in corr : c.to \in Step2!EventId /\ c.path = path[c.to]
      BY <3>1 DEF Correlated, Joined
    <3>3. \A i \in Step2!EventId : path[i] \in Nat
      BY <3>1 DEF InRows
    <3> QED BY <3>2, <3>3
  <2> QED BY <2>1, <2>2 DEF ContractTypes, Step2!Unbounded, Step2!Paths
<1>2. ASSUME NEW a, NEW gap, Step2!TakeEvent(a, gap) PROVE ContractTypes'
  BY <1>2 DEF Step2!TakeEvent, ContractTypes
<1>3. CASE Step2!BuildPathEdges \/ Step2!BuildTimelineEdges \/ UNCHANGED graphVars
  BY <1>3 DEF Step2!BuildPathEdges, Step2!BuildTimelineEdges, graphVars, ContractTypes
<1> QED BY <1>1, <1>2, <1>3 DEF Step2!Next

LEMMA BuildTyped ==
    ASSUME BuildInv, ContractTypes
    PROVE  Step2!TypeOK
<1>1. InRows /\ Correlated /\ Step2!EventId = 1..Len(events) /\ Len(events) \in Nat
  BY EventsAre DEF BuildInv
<1>2. /\ \A i \in Step2!EventId : attacker[i] \in Nat \ {0} /\ path[i] \in Nat \ {0}
  BY <1>1 DEF InRows
<1>3. /\ time \in [Step2!EventId -> Nat]
      /\ attacker \in [Step2!EventId -> Nat \ {0}] /\ path \in [Step2!EventId -> Nat \ {0}]
  BY <1>1, <1>2 DEF InRows
<1>4. \A k \in DOMAIN anchorOf : anchorOf[k] \in Nat \ {0}
  BY <1>1 DEF InRows
<1>5. \A c \in corr : c.from \in Step2!EventId /\ c.to \in Step2!EventId /\ c.path \in Nat \ {0}
  BY <1>1, <1>2 DEF Correlated, Joined
<1>6. \A r \in required : r.source \in Step2!EventId /\ r.target \in Step2!EventId
  BY DEF BuildInv, Bounded, ContractTypes
<1> QED BY <1>1, <1>3, <1>4, <1>5, <1>6 DEF BuildInv, InRows, ContractTypes, Step2!TypeOK

\* Types of the analysis: what the guard knows is of the graph, and so is what is cut, kept, shown and told.
THEOREM PipelineTypes == Spec => []TypeOK
<1> DEFINE TInv == IInv /\ TypesInv /\ ContractTypes
<1>1. Init => TInv
  <2> SUFFICES ASSUME Init PROVE TInv
    OBVIOUS
  <2>1. IInv
    BY PipelineInvInit DEF IInv, ToldInv, NarrativeHonest, Init, GuardInit
  <2>2. TypesInv
    BY IdleTypes DEF Init
  <2>3. ContractTypes
    BY DEF ContractTypes, Init, Step2!Init
  <2> QED BY <2>1, <2>2, <2>3
<1>2. TInv /\ [Next]_vars => TInv'
  <2> SUFFICES ASSUME TInv, [Next]_vars PROVE TInv'
    OBVIOUS
  <2>1. PipelineInv /\ [GuardNext]_guardVars /\ (Step2!Next \/ UNCHANGED graphVars)
    BY NextIsGuardNext DEF IInv
  <2>2. IInv'
    BY <2>1, PipelineInvStep, ToldStep DEF IInv
  <2>3. TypesInv'
    BY <2>1, TypesStep
  <2>4. ContractTypes'
    BY <2>1, ContractStep DEF PipelineInv
  <2> QED BY <2>2, <2>3, <2>4
<1>3. TInv => TypeOK
  <2> SUFFICES ASSUME TInv PROVE TypeOK
    OBVIOUS
  <2>1. Step2!TypeOK
    BY BuildTyped DEF IInv, PipelineInv
  <2>2. GuardTypeOK
    BY DEF IInv, PipelineInv, KeptIsPart, TypesInv, PlaceTypes, KnownTypes, ListTypes, StoryTypes, GuardTypeOK
  <2> QED BY <2>1, <2>2 DEF TypeOK
<1> QED BY <1>1, <1>2, <1>3, PTL DEF Spec

\* The types of everything that the run has side by side: the collection, the mapping, the
\* actors, and steps 2 to 4 of the analysis.
THEOREM StepsAreTyped ==
    Spec /\ Collect!Spec /\ Mapping!Spec /\ Actors!Spec => []StepTypes
<1>1. Spec => []TypeOK
  BY PipelineTypes
<1>2. Collect!Spec => []Collect!TypeOK
  BY CollectionTypes, StepsAssumption
<1>3. Mapping!Spec => []Mapping!TypeOK
  BY MappingTypes, StepsAssumption
<1>4. Actors!Spec => []Actors!TypeOK
  BY ActorTypes, StepsAssumption
<1>5. TypeOK /\ Collect!TypeOK /\ Mapping!TypeOK /\ Actors!TypeOK => StepTypes
  BY DEF StepTypes
<1> QED BY <1>1, <1>2, <1>3, <1>4, <1>5, PTL
=============================================================================
