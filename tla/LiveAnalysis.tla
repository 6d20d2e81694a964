----------------------------- MODULE LiveAnalysis -----------------------------
(***************************************************************************)
(* The analyses operators start from the management pages (views.py, over  *)
(* export_alerts_to_step1.py), above the alert store they read.            *)
(*                                                                         *)
(* One analysis runs at a time in the process (analysis_guard.py); others  *)
(* are refused.  It counts and loads the events of its window, and writes  *)
(* the files of each step into its directory, which a request may name     *)
(* again; at the end the pointer names that directory as the latest.  The  *)
(* pages follow the pointer, or the directory they are asked for, file by  *)
(* file, and a report of the language model is asked for, outside the lock,*)
(* from the prompt that is there.                                          *)
(*                                                                         *)
(* A file is known by the number of the analysis that wrote it: 0 when it  *)
(* is not there, Torn when a write of it has not ended.                    *)
(***************************************************************************)
EXTENDS AlertStore

CONSTANTS
    Operator,  \* requests that start analyses
    Reader,    \* requests for a report
    Dir,       \* directories of runs; Default holds what is there without one
    Default,
    Windows,   \* [from, to]: the times that are asked for; only a scenario has an end
    MaxAlerts, \* MAX_ALERTS_FOR_LIVE_ANALYSIS
    PerType,   \* alerts of a kind a balanced analysis takes
    MaxRuns    \* bound on the analyses

\* What is in a file, or in the pointer, that was emptied and not yet written.
Torn == 1000

ASSUME AnalysisAssumption ==
    /\ Default \in Dir /\ Windows \subseteq [from : Nat, to : Nat] /\ None \notin Dir \cup Operator
    /\ MaxAlerts \in Nat /\ PerType \in Nat \ {0}
    /\ MaxRuns \in Nat /\ MaxRuns < Torn /\ Torn \notin Dir

VARIABLES
    lock,     \* _analysis_lock: the request that holds it, or None
    analysis, \* the analysis each request is in
    runs,     \* the analyses that have been accepted
    loaded,   \* of each, the keys its query found, and those it went on with
    file,     \* what is in each directory
    pointer,  \* latest_analysis_run.json: a directory, Torn, or None before the first
    report    \* the request for a report each reader is in

fileVars == <<file, pointer>>
analysisVars == <<lock, analysis, runs, loaded, fileVars, report>>
vars == <<storeVars, analysisVars>>

Version == 0..MaxRuns \cup {Torn}
Output == {"step1", "step2", "step3", "template", "prompt", "summary", "report", "meta"}
NoFiles == [f \in Output |-> 0]
Resting == [pc |-> "idle", kind |-> "live", dir |-> Default,
            window |-> [from |-> 0, to |-> 0], run |-> 0, left |-> <<>>]
NoReport == [pc |-> "idle", dir |-> Default, prompt |-> 0]
NotLoaded == [kind |-> "live", there |-> {}, taken |-> {}]

\* run_steps_from_unified, summarize; the scenario's template and second step 3.
Files(kind) ==
    IF kind = "scenario"
    THEN <<"step1", "step2", "step3", "prompt", "template", "step3", "prompt", "summary", "summary">>
    ELSE <<"step1", "step2", "step3", "prompt", "summary", "summary">>

\* What may be left of the files of a kind.
Ends(kind) == {SubSeq(Files(kind), n, Len(Files(kind))) : n \in 1..Len(Files(kind)) + 1}

TypeOK ==
    /\ StoreTypeOK
    /\ lock \in Operator \cup {None} /\ runs \in 0..MaxRuns
    /\ analysis \in [Operator ->
          [pc : {"idle", "count", "load", "write", "point", "pointing"},
           kind : {"live", "scenario", "balanced"}, dir : Dir, window : Windows \cup {Resting.window},
           run : 0..MaxRuns, left : Ends("live") \cup Ends("scenario")]]
    /\ loaded \in [1..MaxRuns -> [kind : {"live", "scenario", "balanced"},
                                  there : SUBSET Keys, taken : SUBSET Keys]]
    /\ file \in [Dir -> [Output -> Version]] /\ pointer \in Dir \cup {Torn, None}
    /\ report \in [Reader -> [pc : {"idle", "asked", "write", "meta"}, dir : Dir, prompt : Version]]

Init ==
    /\ StoreInit
    /\ lock = None /\ analysis = [o \in Operator |-> Resting] /\ runs = 0
    /\ loaded = [n \in 1..MaxRuns |-> NotLoaded]
    /\ file = [d \in Dir |-> NoFiles] /\ pointer = None
    /\ report = [r \in Reader |-> NoReport]

Go(o, new) == analysis' = [analysis EXCEPT ![o] = new]

-----------------------------------------------------------------------------
(* Reading the store.                                                      *)

\* alert_time, which the query goes by, is that of the row ingested last; the time
\* shown of a file event is its last.
AlertTime(k) == row[event[k].latest].time
ShownTime(k) == IF k.kind = "file" THEN event[k].last ELSE AlertTime(k)

\* unified_alert_query.
InWindow(a) == {k \in Keys : /\ event[k] # Absent /\ AlertTime(k) >= a.window.from
                             /\ a.kind = "scenario" => AlertTime(k) <= a.window.to}

\* The n newest of V, as any order of equal times gives them.
Newest(V, n, Time(_)) == {S \in SUBSET V : /\ Cardinality(S) = Min({n, Cardinality(V)})
                                           /\ \A k \in S, l \in V \ S : Time(k) >= Time(l)}

\* Deviation: nothing keeps the analyses apart.
AcceptAnyway(o) ==
    /\ analysis[o].pc = "idle" /\ runs < MaxRuns
    /\ lock' = o
    /\ runs' = runs + 1
    /\ \E d \in Dir \ {Default}, w \in Windows :
          Go(o, [Resting EXCEPT !.pc = "count", !.dir = d, !.window = w, !.run = runs + 1])
    /\ UNCHANGED <<storeVars, loaded, fileVars, report>>

\* one_analysis_at_a_time: 429 while another holds the lock.
Accept(o) ==
    /\ analysis[o].pc = "idle" /\ runs < MaxRuns
    /\ lock = None /\ lock' = o
    /\ runs' = runs + 1
    /\ \E kind \in {"live", "scenario", "balanced"}, d \in Dir \ {Default}, w \in Windows :
          Go(o, [Resting EXCEPT !.pc = "count", !.kind = kind, !.dir = d, !.window = w,
                                !.run = runs + 1])
    /\ UNCHANGED <<storeVars, loaded, fileVars, report>>

\* The lock is released however the request ends.
End(o) == lock' = None /\ Go(o, Resting)

\* collect_live_alerts_from_systemwire2_api: too many alerts are refused.
Count(o) ==
    /\ analysis[o].pc = "count"
    /\ IF analysis[o].kind # "balanced" /\ Cardinality(InWindow(analysis[o])) > MaxAlerts
       THEN End(o)
       ELSE Go(o, [analysis[o] EXCEPT !.pc = "load"]) /\ UNCHANGED lock
    /\ UNCHANGED <<storeVars, runs, loaded, fileVars, report>>

\* Deviation: the limit of the query is the limit of the analysis.
LimitedRows(a) == Newest(InWindow(a), MaxAlerts, AlertTime)

\* One more than the limit is asked for, to see that there are too many.
WindowRows(a) == Newest(InWindow(a), MaxAlerts + 1, AlertTime)

\* collect_live_alerts_between looks at the time that is shown once more.
InRange(a, keys) == {k \in keys : ShownTime(k) >= a.window.from /\ ShownTime(k) <= a.window.to}

Take(o, keys) ==
    /\ loaded' = [loaded EXCEPT ![analysis[o].run] = [kind |-> analysis[o].kind,
                                there |-> InWindow(analysis[o]), taken |-> keys]]
    /\ Go(o, [analysis[o] EXCEPT !.pc = "write", !.left = Files(analysis[o].kind)])
    /\ UNCHANGED lock

\* More may have come since they were counted.
Load(o) ==
    /\ analysis[o].pc = "load" /\ analysis[o].kind = "live"
    /\ \E keys \in WindowRows(analysis[o]) :
          IF Cardinality(keys) > MaxAlerts THEN End(o) /\ UNCHANGED loaded ELSE Take(o, keys)
    /\ UNCHANGED <<storeVars, runs, fileVars, report>>

\* export_scenario_live.  (Which of the alerts are the scenario's shows in the
\* template and in the summary, not in what is analysed.)
LoadScenario(o) ==
    /\ analysis[o].pc = "load" /\ analysis[o].kind = "scenario"
    /\ \E keys \in WindowRows(analysis[o]) :
          IF Cardinality(keys) > MaxAlerts THEN End(o) /\ UNCHANGED loaded
          ELSE Take(o, InRange(analysis[o], keys))
    /\ UNCHANGED <<storeVars, runs, fileVars, report>>

\* build_balanced_alert_subset, of the candidates of a kind.  (Actors are grouped
\* kind by kind before, so that none is across honeypots and comes first.)
Balanced(a, kind) ==
    UNION {Newest(C, PerType, ShownTime) :
              C \in Newest({k \in InWindow(a) : k.kind = kind}, 10 * PerType, AlertTime)}

\* export_balanced_live.
LoadBalanced(o) ==
    /\ analysis[o].pc = "load" /\ analysis[o].kind = "balanced"
    /\ \E f \in Balanced(analysis[o], "file"), a \in Balanced(analysis[o], "account"),
          p \in Balanced(analysis[o], "parasitic") : Take(o, f \cup a \cup p)
    /\ UNCHANGED <<storeVars, runs, fileVars, report>>

-----------------------------------------------------------------------------
(* Writing the results.                                                    *)

\* The next file, dump_json or write_text.
WriteFile(o) ==
    /\ analysis[o].pc = "write"
    /\ file' = [file EXCEPT ![analysis[o].dir][Head(analysis[o].left)] = analysis[o].run]
    /\ Go(o, [analysis[o] EXCEPT !.left = Tail(@), !.pc = IF Len(analysis[o].left) = 1
                                                           THEN "point" ELSE "write"])
    /\ UNCHANGED <<storeVars, lock, runs, loaded, pointer, report>>

\* _write_latest_analysis_run: the file is emptied and then written.
PointStart(o) ==
    /\ analysis[o].pc = "point" /\ pointer' = Torn
    /\ Go(o, [analysis[o] EXCEPT !.pc = "pointing"])
    /\ UNCHANGED <<storeVars, lock, runs, loaded, file, report>>

\* Deviation: the pointer gets the number of the analysis.
PointNumber(o) ==
    /\ analysis[o].pc = "pointing" /\ pointer' = analysis[o].run /\ End(o)
    /\ UNCHANGED <<storeVars, runs, loaded, file, report>>

PointEnd(o) ==
    /\ analysis[o].pc = "pointing" /\ pointer' = analysis[o].dir /\ End(o)
    /\ UNCHANGED <<storeVars, runs, loaded, file, report>>

\* What a write that breaks off leaves behind.
Broken(o) == IF analysis[o].pc = "write"
             THEN {file, [file EXCEPT ![analysis[o].dir][Head(analysis[o].left)] = Torn]}
             ELSE {file}

\* The query, a step or a write fails: the request is answered with an error.
FailAnalysis(o) ==
    /\ analysis[o].pc # "idle" /\ OneFault /\ file' \in Broken(o) /\ End(o)
    /\ UNCHANGED <<arrived, tables, nextId, place, pull, runs, loaded, pointer, report>>

-----------------------------------------------------------------------------
(* The report of the language model: no lock is held.                      *)

\* _latest_analysis_run_dir: a pointer that cannot be read is none.
Latest == IF pointer \in Dir THEN pointer ELSE Default

AskReport(r) ==
    /\ report[r].pc = "idle"
    /\ \E d \in {Latest} \cup Dir :
          /\ file[d].prompt # 0
          /\ report' = [report EXCEPT ![r] = [pc |-> "asked", dir |-> d, prompt |-> file[d].prompt]]
    /\ UNCHANGED <<storeVars, lock, analysis, runs, loaded, fileVars>>

\* generate_deepseek_report answers, or does not.
Answer(r) ==
    /\ report[r].pc = "asked"
    /\ \/ report' = [report EXCEPT ![r].pc = "write"]
       \/ report' = [report EXCEPT ![r] = NoReport]
    /\ UNCHANGED <<storeVars, lock, analysis, runs, loaded, fileVars>>

WriteReport(r) ==
    /\ report[r].pc = "write"
    /\ file' = [file EXCEPT ![report[r].dir].report = report[r].prompt]
    /\ report' = [report EXCEPT ![r].pc = "meta"]
    /\ UNCHANGED <<storeVars, lock, analysis, runs, loaded, pointer>>

WriteMeta(r) ==
    /\ report[r].pc = "meta"
    /\ file' = [file EXCEPT ![report[r].dir].meta = report[r].prompt]
    /\ report' = [report EXCEPT ![r] = NoReport]
    /\ UNCHANGED <<storeVars, lock, analysis, runs, loaded, pointer>>

-----------------------------------------------------------------------------
\* The process ends: pulls, analyses and requests with it, and their writes.
RestartAll ==
    /\ Restart
    /\ file' \in {file} \cup UNION {Broken(o) : o \in Operator}
    /\ lock' = None /\ analysis' = [o \in Operator |-> Resting]
    /\ report' = [r \in Reader |-> NoReport]
    /\ UNCHANGED <<runs, loaded, pointer>>

StoreStep ==
    /\ \/ \E a \in Alert : Arrive(a)
       \/ \E p \in Puller : StartPull(p) \/ PullStep(p)
       \/ Redeploy \/ Refresh
    /\ UNCHANGED analysisVars

AnalysisStep(o) == \/ Accept(o) \/ Count(o) \/ Load(o) \/ LoadScenario(o) \/ LoadBalanced(o)
                   \/ WriteFile(o) \/ PointStart(o) \/ PointEnd(o) \/ FailAnalysis(o)

ReportStep(r) == AskReport(r) \/ Answer(r) \/ WriteReport(r) \/ WriteMeta(r)

Next == \/ StoreStep \/ RestartAll
        \/ \E o \in Operator : AnalysisStep(o)
        \/ \E r \in Reader : ReportStep(r)

Spec == Init /\ [][Next]_vars

-----------------------------------------------------------------------------
\* An analysis of the live window goes on with every alert the window has when it
\* is queried, however many came after they were counted, or it is refused: it
\* never works on the newest part of too many.  A scenario leaves out only file
\* events, those whose last time is not the time the query went by.
InputWhole ==
    \A n \in 1..MaxRuns :
        /\ loaded[n].kind # "balanced" => Cardinality(loaded[n].taken) <= MaxAlerts
        /\ loaded[n].kind = "live" => loaded[n].taken = loaded[n].there
        /\ loaded[n].kind = "scenario" =>
              \A k \in loaded[n].there \ loaded[n].taken : k.kind = "file"

\* The summary a directory shows was written after the files it sums up, and the
\* pointer names a directory that has one: an older analysis never overwrites the
\* steps of a newer one, and a failed one leaves older results only behind newer
\* or torn ones.
ResultsTogether ==
    /\ \A d \in Dir : \A f \in {"step1", "step2", "step3", "prompt"} :
          file[d][f] >= file[d].summary \/ file[d].summary = Torn
    /\ pointer \in Dir => file[pointer].summary # 0
=============================================================================
