------------------------- MODULE MCLiveAnalysis -------------------------
(***************************************************************************)
(* The management process for TLC, in scenes.  The store's pulls and the   *)
(* files of the analyses share nothing but the events a query reads, so    *)
(* each of them, and the query, is explored by itself.  The baits and the  *)
(* replay of their deployments share no state with these: baits without    *)
(* places for two requests at once, at most one of them a repair or an     *)
(* agent's download, and with a place for one request at a time.  Nor      *)
(* does the start, with what it takes over and with what it sets up.       *)
(***************************************************************************)
EXTENDS Management, TLC

Symmetry == Permutations(Puller) \cup Permutations(Request)

VARIABLE scene

A(kind, key, sub, time) == [kind |-> kind, key |-> key, sub |-> sub, time |-> time]

\* Two sightings of one file, and two account attempts of one second; or the file
\* and a visit of a page.
Pulled == {A("file", "a", "m", 2), A("file", "a", "m", 3),
           A("account", "b", "p", 1), A("account", "b", "q", 1)}
Counted == {A("file", "a", "m", 2), A("file", "a", "m", 3), A("parasitic", "c", "s", 1)}
MCAlert == Pulled \cup Counted
MCWindows == {[from |-> 0, to |-> 9], [from |-> 2, to |-> 2]}

\* Of one file and of two, and of pages, each with an option that may differ.
Deployed(kind, files, option) ==
    [kind |-> kind, agent |-> "a", target |-> "p", files |-> files, option |-> option]
MCDeployment == {Deployed("file", {1}, o) : o \in BOOLEAN}
                \cup {Deployed("file", {1, 2}, TRUE)} \cup {Deployed("page", {}, o) : o \in BOOLEAN}

-----------------------------------------------------------------------------
\* Pulls of three alerts that overlap, faults, the second while there are three rows at
\* most, and backfills.
StoreScene == /\ StoreStep \/ RestartAll
              /\ arrived' \subseteq Pulled /\ Cardinality(arrived') <= 3
              /\ nextId' > 4 => faults' < 2

\* Pulls that overlap each other and the query of an analysis; the lock lets one run.
InputScene ==
    \/ StoreStep /\ arrived' \subseteq Counted /\ UNCHANGED <<place, faults>>
    \/ LET o == CHOOSE o \in Operator : TRUE
       IN Accept(o) \/ Count(o) \/ Load(o) \/ LoadScenario(o) \/ LoadBalanced(o)

\* Analyses, of a store with nothing in it, and reports that overlap.
FilesScene ==
    \/ RestartAll
    \/ \E o \in Operator : AnalysisStep(o)
    \/ \E r \in Reader : ReportStep(r)

\* Renewals, repairs and deletions that overlap.
BaitsScene ==
    /\ Baits!Next /\ UNCHANGED deployed
    /\ \A r \in Request : request'[r].op # "deploy"
    /\ \A r, s \in Request : {request'[r].op, request'[s].op} \subseteq {"repair", "agent"} => r = s

\* Deployments, two at a time, and removals.
PlacesScene ==
    /\ Baits!Next /\ Cardinality(deployed') <= 2
    /\ \A r \in Request : request'[r].op \in {"none", "create", "delete", "deploy"}
    /\ \E r \in Request : \A s \in Request \ {r} : request'[s].op = "none"

\* The older database is taken over, with three rows at most and one of this installation's own.
TakenOver ==
    /\ StartupNext /\ UNCHANGED <<account, bait, issued>>
    /\ Cardinality({g \in Table \X RowId :
           store'[g[1]][g[2]] # Missing /\ store'[g[1]][g[2]] # LegacyRow(g[2])}) <= 1
    /\ Cardinality({g \in Table \X RowId : g[2] \in legacy'.rows[g[1]]}) <= 3

\* The local account, agent and demo bait are set up.
SetUp == /\ StartupNext /\ UNCHANGED <<legacy, store, cursor, marker>>
         /\ stage' # "business"

OneInit == /\ Init /\ Baits!Init /\ Replays!Init
           /\ scene \in {"store", "input", "files", "baits", "baits in place", "replay", "start", "local"}
           /\ StartupInit
           /\ scene # "start" => legacy.cursor = 0 /\ \A t \in Table : legacy.rows[t] = {}

OneNext ==
    /\ scene' = scene
    /\ \/ /\ UNCHANGED <<baitVars, replayVars, startupVars>>
          /\ \/ scene = "store" /\ StoreScene
             \/ scene = "input" /\ InputScene
             \/ scene = "files" /\ FilesScene
       \/ /\ UNCHANGED <<vars, replayVars, startupVars>>
          /\ \/ scene = "baits" /\ BaitsScene
             \/ scene = "baits in place" /\ PlacesScene
       \/ scene = "replay" /\ Replays!Next /\ UNCHANGED <<vars, baitVars, startupVars>>
       \/ /\ UNCHANGED <<vars, baitVars, replayVars>>
          /\ \/ scene = "start" /\ TakenOver
             \/ scene = "local" /\ SetUp

OneSpec == OneInit /\ [][OneNext]_<<vars, baitVars, replayVars, startupVars, scene>>
=========================================================================
