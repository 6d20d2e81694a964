----------------------------- MODULE AuditMonitor -----------------------------
(***************************************************************************)
(* The agent's file monitor over auditd (auditdMonitor_linux.go).  Every   *)
(* ten seconds a loop asks ausearch for the records between lastQueryTime  *)
(* and now, moves that time, saves it, and hands the records to a          *)
(* goroutine that writes them down and reports them to the server.         *)
(*                                                                         *)
(* Each reconnect of the agent cancels the context of the running loop and *)
(* starts another one: the old loop may still be inside a query, and a     *)
(* select between its timer and its context may start one more.  All loops *)
(* share lastQueryTime, the state file and the temporary file it is made   *)
(* of; the lock covers single accesses to the time, and nothing the files. *)
(*                                                                         *)
(* Times are seconds, as in ausearch's arguments; -ts and -te include the  *)
(* second they name.  A record is in the audit log within its second.      *)
(***************************************************************************)
EXTENDS Naturals, FiniteSets

CONSTANTS Event,      \* audit records that concern a monitored path
          Loop,       \* handlrAusearch goroutines
          MaxTime,    \* bound of the clock, less than the 24 hours of a first start
          MaxFailures \* bound on failed searches, saves, reports and crashes

ASSUME MonitorAssumption ==
    /\ MaxTime \in Nat \ {0} /\ MaxFailures \in Nat
    /\ IsFiniteSet(Event) /\ IsFiniteSet(Loop)

VARIABLES
    now,
    stamp,     \* the second of each record, 0 before it is logged
    lastQueryTime, \* 0: the 24 hours of a first start
    savedTime, \* last_query_time in log/audit_monitor_state.json, 0 without one
    tempTime,  \* the same in the file's .tmp, which is there after its write
    up,        \* the agent process runs
    loop,      \* the state of each loop
    batches,   \* HandleEvent goroutines: the records and the loop's context
    found,     \* history: records of searches whose time was recorded
    written,   \* records in the event log file
    reported,  \* records the server has been told of ...
    refused,   \* ... and those it answered Successful = false for
    handled,   \* history: records of the batches HandleEvent returned nil for
    failures

eventVars   == <<written, reported, refused, handled>>
fileVars    == <<savedTime, tempTime>>
monitorVars == <<now, stamp, lastQueryTime, fileVars, up, loop, batches, found, eventVars,
                 failures>>

NoFile == <<>>

Off == [pc |-> "off", alive |-> FALSE, start |-> 0, until |-> 0, hits |-> {},
        state |-> 0]

LoopState == [pc : {"off", "wait", "search", "record", "save", "write", "rename", "hand"},
              alive : BOOLEAN, start : 0..MaxTime, until : 0..MaxTime, hits : SUBSET Event,
              state : 0..MaxTime]

MonitorTypeOK ==
    /\ now \in 1..MaxTime /\ stamp \in [Event -> 0..MaxTime]
    /\ lastQueryTime \in 0..MaxTime /\ savedTime \in 0..MaxTime /\ up \in BOOLEAN
    /\ tempTime \in {NoFile} \cup {<<t>> : t \in 0..MaxTime}
    /\ loop \in [Loop -> LoopState]
    /\ batches \subseteq (SUBSET Event) \X Loop
    /\ found \subseteq Event /\ written \subseteq Event /\ reported \subseteq Event
    /\ refused \subseteq reported /\ handled \subseteq Event /\ failures \in 0..MaxFailures

MonitorInit ==
    /\ now = 1 /\ stamp = [e \in Event |-> 0]
    /\ lastQueryTime = 0 /\ savedTime = 0 /\ tempTime = NoFile /\ up = TRUE
    /\ loop = [l \in Loop |-> Off] /\ batches = {}
    /\ found = {} /\ written = {} /\ reported = {}
    /\ refused = {} /\ handled = {} /\ failures = 0

Step(l, new) == loop' = [loop EXCEPT ![l] = new]
OneFailure == failures < MaxFailures /\ failures' = failures + 1

-----------------------------------------------------------------------------
(* The host.                                                               *)

\* A monitored path is touched.
Touch(e) ==
    /\ stamp[e] = 0
    /\ stamp' = [stamp EXCEPT ![e] = now]
    /\ UNCHANGED <<now, lastQueryTime, fileVars, up, loop, batches, found, eventVars,
                   failures>>

Tick ==
    /\ now < MaxTime /\ now' = now + 1
    /\ UNCHANGED <<stamp, lastQueryTime, fileVars, up, loop, batches, found, eventVars,
                   failures>>

-----------------------------------------------------------------------------
(* The agent's connection.                                                 *)

\* Start: a loop on the new context. (A goroutine that ended is another one's
\* name, once nothing holds its context any more.)
Start(l) ==
    /\ up /\ loop[l].pc = "off" /\ \A b \in batches : b[2] # l
    /\ \A k \in Loop : ~loop[k].alive
    /\ Step(l, [Off EXCEPT !.pc = "wait", !.alive = TRUE])
    /\ UNCHANGED <<now, stamp, lastQueryTime, fileVars, up, batches, found, eventVars,
                   failures>>

\* The status report fails: the agent cancels the context and reconnects.
Disconnect(l) ==
    /\ up /\ loop[l].alive /\ OneFailure
    /\ Step(l, [loop[l] EXCEPT !.alive = FALSE])
    /\ UNCHANGED <<now, stamp, lastQueryTime, fileVars, up, batches, found, eventVars>>

\* A cancelled loop notices.
LoopEnds(l) ==
    /\ loop[l].pc = "wait" /\ ~loop[l].alive
    /\ Step(l, Off)
    /\ UNCHANGED <<now, stamp, lastQueryTime, fileVars, up, batches, found, eventVars,
                   failures>>

-----------------------------------------------------------------------------
(* queryAndProcessAuditLogs                                                *)

\* Deviation: the query begins after the second the last one ended in.
AskAfter(l) ==
    /\ loop[l].pc = "wait" /\ lastQueryTime < now
    /\ Step(l, [loop[l] EXCEPT !.pc = "search", !.start = lastQueryTime + 1, !.until = now])
    /\ UNCHANGED <<now, stamp, lastQueryTime, fileVars, up, batches, found, eventVars,
                   failures>>

\* Deviation: the query reaches into the next second.
AskAhead(l) ==
    /\ loop[l].pc = "wait"
    /\ Step(l, [loop[l] EXCEPT !.pc = "search", !.start = lastQueryTime, !.until = now + 1])
    /\ UNCHANGED <<now, stamp, lastQueryTime, fileVars, up, batches, found, eventVars,
                   failures>>

\* The timer fires: both ends of the query are read.
Ask(l) ==
    /\ loop[l].pc = "wait"
    /\ Step(l, [loop[l] EXCEPT !.pc = "search", !.start = lastQueryTime, !.until = now])
    /\ UNCHANGED <<now, stamp, lastQueryTime, fileVars, up, batches, found, eventVars,
                   failures>>

\* ausearch prints what the audit log has of the interval.
Search(l) ==
    /\ loop[l].pc = "search"
    /\ Step(l, [loop[l] EXCEPT !.pc = "record",
                  !.hits = {e \in Event : /\ stamp[e] # 0
                                          /\ stamp[e] >= loop[l].start
                                          /\ stamp[e] <= loop[l].until}])
    /\ UNCHANGED <<now, stamp, lastQueryTime, fileVars, up, batches, found, eventVars,
                   failures>>

\* Deviation: a failed search ends the loop.
SearchFailsEnd(l) ==
    /\ loop[l].pc = "search" /\ OneFailure
    /\ Step(l, [loop[l] EXCEPT !.pc = "off"])
    /\ UNCHANGED <<now, stamp, lastQueryTime, fileVars, up, batches, found, eventVars>>

\* ausearch fails for another reason than no matches: the time stays.
SearchFails(l) ==
    /\ loop[l].pc = "search" /\ OneFailure
    /\ Step(l, [loop[l] EXCEPT !.pc = "wait", !.start = 0, !.until = 0])
    /\ UNCHANGED <<now, stamp, lastQueryTime, fileVars, up, batches, found, eventVars>>

\* lastQueryTime = currentTime, matches or not.
Advance(l) ==
    /\ loop[l].pc = "record"
    /\ lastQueryTime' = loop[l].until
    /\ found' = found \cup loop[l].hits
    /\ Step(l, [loop[l] EXCEPT !.pc = "save", !.start = 0, !.until = 0])
    /\ UNCHANGED <<now, stamp, fileVars, up, batches, eventVars, failures>>

\* saveState reads the shared time, which may be another loop's by now, ...
ReadState(l) ==
    /\ loop[l].pc = "save"
    /\ Step(l, [loop[l] EXCEPT !.pc = "write", !.state = lastQueryTime])
    /\ UNCHANGED <<now, stamp, lastQueryTime, fileVars, up, batches, found, eventVars,
                   failures>>

\* ... writes the temporary file, which the loops share, too, ...
WriteState(l) ==
    /\ loop[l].pc = "write"
    /\ \/ /\ tempTime' = <<loop[l].state>>
          /\ Step(l, [loop[l] EXCEPT !.pc = "rename", !.state = 0])
          /\ UNCHANGED failures
       \/ /\ OneFailure /\ UNCHANGED tempTime
          /\ Step(l, [loop[l] EXCEPT !.pc = "hand", !.state = 0])
    /\ UNCHANGED <<now, stamp, lastQueryTime, savedTime, up, batches, found, eventVars>>

\* ... and renames it, with whichever loop's time is in it; when another loop
\* has renamed it already this fails, and a failed save is only logged.
RenameState(l) ==
    /\ loop[l].pc = "rename"
    /\ \/ tempTime # NoFile /\ savedTime' = tempTime[1] /\ tempTime' = NoFile
       \/ tempTime = NoFile /\ UNCHANGED fileVars
    /\ Step(l, [loop[l] EXCEPT !.pc = "hand"])
    /\ UNCHANGED <<now, stamp, lastQueryTime, up, batches, found, eventVars,
                   failures>>

\* The records are handed to a goroutine that nobody waits for.
HandOver(l) ==
    /\ loop[l].pc = "hand"
    /\ batches' = IF loop[l].hits = {} THEN batches
                  ELSE batches \cup {<<loop[l].hits, l>>}
    /\ Step(l, [loop[l] EXCEPT !.pc = "wait", !.hits = {}])
    /\ UNCHANGED <<now, stamp, lastQueryTime, fileVars, up, found, eventVars,
                   failures>>

\* HandleEvent: dropped when the context is cancelled; else the first record
\* is written and reported, and the method returns: an error when the call
\* fails, nil also when the server's answer is not Successful.
HandleEvent(b) ==
    /\ b \in batches /\ batches' = batches \ {b}
    /\ \/ ~loop[b[2]].alive
          /\ UNCHANGED <<eventVars, failures>>
       \/ /\ loop[b[2]].alive
          /\ \E first \in b[1] :
                /\ \A e \in b[1] : stamp[first] <= stamp[e]
                /\ written' = written \cup {first}
                /\ \/ /\ reported' = reported \cup {first}
                      /\ refused' \in {refused, refused \cup {first}}
                      /\ handled' = handled \cup b[1]
                      /\ UNCHANGED failures
                   \/ OneFailure /\ UNCHANGED <<reported, refused, handled>>
    /\ UNCHANGED <<now, stamp, lastQueryTime, fileVars, up, loop, found>>

-----------------------------------------------------------------------------

\* The agent process ends; loops and batches go with it.
AgentEnds ==
    /\ up /\ OneFailure
    /\ up' = FALSE /\ loop' = [l \in Loop |-> Off] /\ batches' = {}
    /\ UNCHANGED <<now, stamp, lastQueryTime, fileVars, found, eventVars>>

\* NewAuditdMonitor: the time comes from the state file.
NewAuditdMonitor ==
    /\ ~up /\ up' = TRUE /\ lastQueryTime' = savedTime
    /\ UNCHANGED <<now, stamp, fileVars, loop, batches, found, eventVars,
                   failures>>

Query(l) == \/ Search(l) \/ SearchFails(l) \/ Advance(l)
            \/ ReadState(l) \/ WriteState(l) \/ RenameState(l) \/ HandOver(l)

MonitorNext == \/ Tick \/ AgentEnds \/ NewAuditdMonitor
        \/ \E e \in Event : Touch(e)
        \/ \E l \in Loop : Start(l) \/ Disconnect(l) \/ LoopEnds(l) \/ Ask(l) \/ Query(l)
        \/ \E b \in batches : HandleEvent(b)

MonitorSpec == MonitorInit /\ [][MonitorNext]_monitorVars

\* The process is restarted and reconnects, a live loop's timer fires, and a
\* query that runs ends.  A cancelled loop may stay in its select's other
\* branch for good.
MonitorFairness ==
    /\ WF_monitorVars(NewAuditdMonitor) /\ WF_monitorVars(\E l \in Loop : Start(l))
    /\ \A l \in Loop : /\ WF_monitorVars(loop[l].alive /\ Ask(l))
                       /\ WF_monitorVars(Query(l)) /\ WF_monitorVars(LoopEnds(l))
    /\ WF_monitorVars(\E b \in batches : HandleEvent(b))

MonitorFairSpec == MonitorSpec /\ MonitorFairness

-----------------------------------------------------------------------------

\* The query time never passes a record that no search has shown, whatever
\* loops overlap, searches and saves fail and restarts fall back to the file.
NoGap ==
    \A e \in Event : stamp[e] # 0 /\ (stamp[e] < lastQueryTime \/ stamp[e] < savedTime)
                        => e \in found

\* Every record is found by some search: failures, cancelled loops and
\* restarts delay it only.
EventFound == \A e \in Event : stamp[e] # 0 ~> e \in found

\* "push alerts to the management end (offline mode need not)": what
\* HandleEvent returned nil for, the server has been told.
HandledReported == handled \subseteq reported
=============================================================================
