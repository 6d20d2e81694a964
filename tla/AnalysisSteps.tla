---------------------------- MODULE AnalysisSteps ----------------------------
(***************************************************************************)
(* The steps of an analysis: AnalysisPipeline from the second on, and      *)
(* beside it what happens to the alerts before, which shares no state with *)
(* it: their collection, how what they say gets to the graph, and the      *)
(* actors that are shown with them.                                        *)
(***************************************************************************)
EXTENDS AnalysisPipeline

CONSTANTS
    Source, Untimed, Config, Width, Hour, Hours, Day, Zone, MaxTime, \* of EventCollection
    Record, Honeyfile, MaxReports,                                   \* of EventMapping
    ShownRow, MaxShown                                               \* of ActorGroups

VARIABLES
    now, raw, stored, call,                         \* of EventCollection
    progress, reports, way, fallen, items, mapped,  \* of EventMapping
    shown, parent, owner                            \* of ActorGroups

collectVars == <<now, raw, stored, call>>
mappingVars == <<progress, reports, way, fallen, items, mapped>>
actorVars == <<shown, parent, owner>>

Collect == INSTANCE EventCollection WITH Alert <- Source
Mapping == INSTANCE EventMapping WITH phase <- progress, events <- mapped
Actors == INSTANCE ActorGroups WITH Row <- ShownRow

ASSUME StepsAssumption == Collect!CollectAssumption /\ Mapping!MappingAssumption /\ Actors!ActorsAssumption

-----------------------------------------------------------------------------
\* A collection has what its window has, or is refused (collect_all, collector.py).
CollectedWhole == Collect!CollectedWhole

\* Alerts are laid to one attacker for what they share (_normalize_event,
\* graph_builder.py).
EvidenceJoins == Mapping!EvidenceJoins

\* Rows are of one actor exactly if a chain of signals joins them
\* (_attach_source_and_actor_intel, alert_store.py).
ActorsConnected == Actors!ActorsConnected

\* Types: of the analysis, and of what is beside it.
StepTypes == TypeOK /\ Collect!TypeOK /\ Mapping!TypeOK /\ Actors!TypeOK
=============================================================================
