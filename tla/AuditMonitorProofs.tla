-------------------------- MODULE AuditMonitorProofs --------------------------
(***************************************************************************)
(* Proofs about AuditMonitor for any number of records and loops: types,   *)
(* and that the query time never passes a record no search has shown.  The *)
(* inductive invariant follows a query: what lies before its start was     *)
(* found when it read the start, what lies before its end is in its hits,  *)
(* and the clock has reached its end; and a save: the time it took from    *)
(* memory, and the one in the temporary file whoever wrote it, have        *)
(* passed nothing that was not found.                                      *)
(***************************************************************************)
EXTENDS AuditMonitor, TLAPS

LEMMA OffType == Off \in LoopState
BY MonitorAssumption DEF Off, LoopState

\* A loop's fields may be set to anything of their type.
LEMMA FieldsType ==
    ASSUME NEW q \in LoopState, NEW to \in {"wait", "save", "rename", "hand"}
    PROVE  /\ [q EXCEPT !.pc = to, !.start = 0, !.until = 0] \in LoopState
           /\ [q EXCEPT !.pc = to, !.start = 0, !.until = 0].pc = to
           /\ [q EXCEPT !.pc = to, !.state = 0] \in LoopState
           /\ [q EXCEPT !.pc = to, !.state = 0].pc = to
<1>1. 0 \in 0..MaxTime
  BY MonitorAssumption
<1>2. PICK f \in LoopState : f = [q EXCEPT !.pc = to]
  BY DEF LoopState
<1>3. PICK g \in LoopState : g = [f EXCEPT !.start = 0]
  BY <1>1 DEF LoopState
<1>4. [g EXCEPT !.until = 0] \in LoopState /\ [g EXCEPT !.until = 0].pc = g.pc
  BY <1>1 DEF LoopState
<1>5. [f EXCEPT !.state = 0] \in LoopState /\ [f EXCEPT !.state = 0].pc = f.pc
  BY <1>1 DEF LoopState
<1>6. f.pc = to /\ g.pc = to
  BY <1>2, <1>3 DEF LoopState
<1> QED
  BY <1>2, <1>3, <1>4, <1>5, <1>6

\* The states a save and a failed search leave a loop in.
LEMMA LeftStates ==
    ASSUME NEW q \in LoopState
    PROVE  /\ [q EXCEPT !.pc = "wait", !.start = 0, !.until = 0] \in LoopState
           /\ [q EXCEPT !.pc = "wait", !.start = 0, !.until = 0].pc = "wait"
           /\ [q EXCEPT !.pc = "save", !.start = 0, !.until = 0] \in LoopState
           /\ [q EXCEPT !.pc = "save", !.start = 0, !.until = 0].pc = "save"
           /\ [q EXCEPT !.pc = "rename", !.state = 0] \in LoopState
           /\ [q EXCEPT !.pc = "rename", !.state = 0].pc = "rename"
           /\ [q EXCEPT !.pc = "hand", !.state = 0] \in LoopState
           /\ [q EXCEPT !.pc = "hand", !.state = 0].pc = "hand"
<1> DEFINE P(to) == /\ [q EXCEPT !.pc = to, !.start = 0, !.until = 0] \in LoopState
                    /\ [q EXCEPT !.pc = to, !.start = 0, !.until = 0].pc = to
                    /\ [q EXCEPT !.pc = to, !.state = 0] \in LoopState
                    /\ [q EXCEPT !.pc = to, !.state = 0].pc = to
<1>1. \A to \in {"wait", "save", "rename", "hand"} : P(to)
  BY FieldsType
<1>2. P("wait") /\ P("save") /\ P("rename") /\ P("hand")
  BY <1>1, Zenon
<1> QED
  BY <1>2

\* A loop that steps to a well-typed state keeps the loops well-typed.
LEMMA StepType ==
    ASSUME MonitorTypeOK, NEW l \in Loop, NEW new \in LoopState, Step(l, new)
    PROVE  /\ loop' \in [Loop -> LoopState]
           /\ loop'[l] = new
           /\ \A k \in Loop \ {l} : loop'[k] = loop[k]
BY DEF MonitorTypeOK, Step

-----------------------------------------------------------------------------

\* Every record before t has been found.
Behind(t) == t <= now /\ \A e \in Event : stamp[e] # 0 /\ stamp[e] < t => e \in found

\* What a loop in a query or in a save knows.
QueryKnows(l) ==
    LET q == loop[l] IN
    /\ q.pc \in {"search", "record"} => Behind(q.start) /\ q.until <= now
    /\ q.pc = "record" =>
         \A e \in Event : stamp[e] # 0 /\ q.start <= stamp[e] /\ stamp[e] < q.until
                             => e \in q.hits
    /\ q.pc = "write" => Behind(q.state)

\* The times in memory and in the two files.
TimesKnow == /\ Behind(lastQueryTime) /\ Behind(savedTime)
             /\ tempTime # NoFile => Behind(tempTime[1])

IInv == MonitorTypeOK /\ TimesKnow /\ \A l \in Loop : QueryKnows(l)

\* Every step keeps the types.
LEMMA TypeStep == MonitorTypeOK /\ [MonitorNext]_monitorVars => MonitorTypeOK'
<1> SUFFICES ASSUME MonitorTypeOK, [MonitorNext]_monitorVars PROVE MonitorTypeOK'
  OBVIOUS
<1> USE MonitorAssumption
<1> \A l \in Loop : loop[l] \in LoopState
  BY DEF MonitorTypeOK
<1>1. ASSUME NEW e \in Event, Touch(e) PROVE MonitorTypeOK'
  BY <1>1 DEF MonitorTypeOK, fileVars, eventVars, Touch
<1>2. CASE Tick
  BY <1>2 DEF MonitorTypeOK, fileVars, eventVars, Tick
<1>3. ASSUME NEW l \in Loop, NEW new \in LoopState, Step(l, new)
      PROVE  loop' \in [Loop -> LoopState]
  BY <1>3, StepType
<1>4. ASSUME NEW l \in Loop, Start(l) PROVE MonitorTypeOK'
  <2>1. [Off EXCEPT !.pc = "wait", !.alive = TRUE] \in LoopState
    BY OffType DEF LoopState
  <2>2. loop' \in [Loop -> LoopState]
    BY <1>3, <1>4, <2>1 DEF Start
  <2> QED BY <1>4, <2>2 DEF MonitorTypeOK, fileVars, eventVars, Start
<1>5. ASSUME NEW l \in Loop, Disconnect(l) PROVE MonitorTypeOK'
  <2>1. [loop[l] EXCEPT !.alive = FALSE] \in LoopState
    BY DEF LoopState
  <2>2. loop' \in [Loop -> LoopState]
    BY <1>3, <1>5, <2>1 DEF Disconnect
  <2> QED BY <1>5, <2>2 DEF MonitorTypeOK, fileVars, eventVars, Disconnect, OneFailure
<1>6. ASSUME NEW l \in Loop, LoopEnds(l) PROVE MonitorTypeOK'
  <2>1. loop' \in [Loop -> LoopState]
    BY <1>3, <1>6, OffType DEF LoopEnds
  <2> QED BY <1>6, <2>1 DEF MonitorTypeOK, fileVars, eventVars, LoopEnds
<1>7. ASSUME NEW l \in Loop, Ask(l) PROVE MonitorTypeOK'
  <2>1. lastQueryTime \in 0..MaxTime /\ now \in 0..MaxTime
    BY DEF MonitorTypeOK
  <2>2. [loop[l] EXCEPT !.pc = "search", !.start = lastQueryTime, !.until = now] \in LoopState
    BY <2>1 DEF LoopState
  <2>3. loop' \in [Loop -> LoopState]
    BY <1>3, <1>7, <2>2 DEF Ask
  <2> QED BY <1>7, <2>3 DEF MonitorTypeOK, fileVars, eventVars, Ask
<1>8. ASSUME NEW l \in Loop, Search(l) PROVE MonitorTypeOK'
  <2>1. \A H \in SUBSET Event : [loop[l] EXCEPT !.pc = "record", !.hits = H] \in LoopState
    BY DEF LoopState
  <2>2. loop' \in [Loop -> LoopState]
    BY <1>3, <1>8, <2>1 DEF Search
  <2> QED BY <1>8, <2>2 DEF MonitorTypeOK, fileVars, eventVars, Search
<1>9. ASSUME NEW l \in Loop, SearchFails(l) PROVE MonitorTypeOK'
  <2>1. [loop[l] EXCEPT !.pc = "wait", !.start = 0, !.until = 0] \in LoopState
    BY LeftStates
  <2>2. loop' \in [Loop -> LoopState]
    BY <1>3, <1>9, <2>1 DEF SearchFails
  <2> QED BY <1>9, <2>2 DEF MonitorTypeOK, fileVars, eventVars, SearchFails, OneFailure
<1>10. ASSUME NEW l \in Loop, Advance(l) PROVE MonitorTypeOK'
  <2>1. /\ [loop[l] EXCEPT !.pc = "save", !.start = 0, !.until = 0] \in LoopState
        /\ loop[l].until \in 0..MaxTime /\ loop[l].hits \subseteq Event
    BY LeftStates DEF LoopState
  <2>2. loop' \in [Loop -> LoopState]
    BY <1>3, <1>10, <2>1 DEF Advance
  <2> QED BY <1>10, <2>1, <2>2 DEF MonitorTypeOK, fileVars, eventVars, Advance
<1>11. ASSUME NEW l \in Loop, ReadState(l) PROVE MonitorTypeOK'
  <2>1. [loop[l] EXCEPT !.pc = "write", !.state = lastQueryTime] \in LoopState
    BY DEF LoopState, MonitorTypeOK
  <2>2. loop' \in [Loop -> LoopState]
    BY <1>3, <1>11, <2>1 DEF ReadState
  <2> QED BY <1>11, <2>2 DEF MonitorTypeOK, ReadState, fileVars, eventVars
<1>17. ASSUME NEW l \in Loop, WriteState(l) PROVE MonitorTypeOK'
  <2>1. /\ [loop[l] EXCEPT !.pc = "rename", !.state = 0] \in LoopState
        /\ [loop[l] EXCEPT !.pc = "hand", !.state = 0] \in LoopState
        /\ loop[l].state \in 0..MaxTime
    BY LeftStates DEF LoopState
  <2>2. loop' \in [Loop -> LoopState]
    BY <1>3, <1>17, <2>1 DEF WriteState
  <2>3. tempTime' \in {NoFile} \cup {<<t>> : t \in 0..MaxTime}
    BY <1>17, <2>1 DEF WriteState, MonitorTypeOK
  <2>4. failures' \in 0..MaxFailures
    BY <1>17 DEF WriteState, OneFailure, MonitorTypeOK
  <2> QED BY <1>17, <2>2, <2>3, <2>4 DEF MonitorTypeOK, WriteState, eventVars
<1>18. ASSUME NEW l \in Loop, RenameState(l) PROVE MonitorTypeOK'
  <2>1. [loop[l] EXCEPT !.pc = "hand"] \in LoopState
    BY DEF LoopState
  <2>2. loop' \in [Loop -> LoopState]
    BY <1>3, <1>18, <2>1 DEF RenameState
  <2>3. tempTime # NoFile => tempTime[1] \in 0..MaxTime
    BY DEF MonitorTypeOK
  <2>4. savedTime' \in 0..MaxTime /\ tempTime' \in {NoFile} \cup {<<t>> : t \in 0..MaxTime}
    BY <1>18, <2>3 DEF RenameState, MonitorTypeOK, fileVars
  <2> QED BY <1>18, <2>2, <2>4 DEF MonitorTypeOK, RenameState, eventVars
<1>12. ASSUME NEW l \in Loop, HandOver(l) PROVE MonitorTypeOK'
  <2>1. /\ [loop[l] EXCEPT !.pc = "wait", !.hits = {}] \in LoopState
        /\ loop[l].hits \subseteq Event
    BY DEF LoopState
  <2>2. loop' \in [Loop -> LoopState]
    BY <1>3, <1>12, <2>1 DEF HandOver
  <2>3. batches' \subseteq (SUBSET Event) \X Loop
    BY <1>12, <2>1 DEF HandOver, MonitorTypeOK
  <2> QED BY <1>12, <2>2, <2>3 DEF MonitorTypeOK, fileVars, eventVars, HandOver
<1>13. ASSUME NEW b \in batches, HandleEvent(b) PROVE MonitorTypeOK'
  <2>1. b[1] \subseteq Event
    BY DEF MonitorTypeOK
  <2>2. /\ written' \subseteq Event /\ reported' \subseteq Event
        /\ refused' \subseteq reported' /\ handled' \subseteq Event
        /\ failures' \in 0..MaxFailures
    BY <1>13, <2>1 DEF HandleEvent, OneFailure, MonitorTypeOK, eventVars
  <2> QED BY <1>13, <2>2 DEF MonitorTypeOK, fileVars, eventVars, HandleEvent
<1>14. CASE AgentEnds
  <2>1. loop' \in [Loop -> LoopState] /\ failures' \in 0..MaxFailures
    BY <1>14, OffType DEF AgentEnds, OneFailure, MonitorTypeOK
  <2> QED BY <1>14, <2>1 DEF MonitorTypeOK, fileVars, eventVars, AgentEnds
<1>15. CASE NewAuditdMonitor
  BY <1>15 DEF MonitorTypeOK, fileVars, eventVars, NewAuditdMonitor
<1>16. CASE UNCHANGED monitorVars
  BY <1>16 DEF MonitorTypeOK, monitorVars, fileVars, eventVars
<1> QED
  BY <1>1, <1>2, <1>4, <1>5, <1>6, <1>7, <1>8, <1>9, <1>10, <1>11, <1>12, <1>13, <1>14,
     <1>15, <1>16, <1>17, <1>18 DEF MonitorNext, Query

\* What was found stays found, and what is logged later is not earlier.
LEMMA BehindKept ==
    ASSUME NEW t \in Nat, Behind(t), UNCHANGED <<now, stamp>>, found \subseteq found'
    PROVE  Behind(t)'
BY DEF Behind

\* What holds of a query holds on while records are found.
LEMMA QueryKept ==
    ASSUME NEW l \in Loop, QueryKnows(l), loop'[l] = loop[l], UNCHANGED <<now, stamp>>,
           found \subseteq found'
    PROVE  QueryKnows(l)'
BY DEF QueryKnows, Behind

\* A loop outside a query knows nothing.
LEMMA QueryOutside ==
    ASSUME NEW l \in Loop, loop'[l].pc \notin {"search", "record", "write"}
    PROVE  QueryKnows(l)'
BY DEF QueryKnows

LEMMA InitIInv == MonitorInit => IInv
BY MonitorAssumption, OffType DEF MonitorInit, IInv, MonitorTypeOK, TimesKnow, Behind, QueryKnows, Off, NoFile

\* Every step keeps the invariant.
LEMMA IInvStep == IInv /\ [MonitorNext]_monitorVars => IInv'
<1> SUFFICES ASSUME IInv, [MonitorNext]_monitorVars
             PROVE  TimesKnow' /\ \A k \in Loop : QueryKnows(k)'
  BY TypeStep DEF IInv
<1> DEFINE Goal == TimesKnow' /\ \A k \in Loop : QueryKnows(k)'
<1> USE MonitorAssumption
<1>1. /\ MonitorTypeOK /\ TimesKnow /\ \A k \in Loop : QueryKnows(k)
      /\ now \in Nat /\ lastQueryTime \in Nat /\ savedTime \in Nat
      /\ \A e \in Event : stamp[e] \in Nat
      /\ tempTime # NoFile => tempTime[1] \in Nat
      /\ \A k \in Loop : /\ loop[k] \in LoopState /\ loop[k].start \in Nat
                         /\ loop[k].until \in Nat /\ loop[k].state \in Nat
  <2>1. tempTime # NoFile => tempTime[1] \in 0..MaxTime
    BY DEF IInv, MonitorTypeOK
  <2> QED BY <2>1 DEF IInv, MonitorTypeOK, LoopState
\* A loop steps out of what QueryKnows speaks of.
<1>2. ASSUME NEW l \in Loop, NEW new \in LoopState, Step(l, new),
             new.pc \notin {"search", "record", "write"}, UNCHANGED <<now, stamp>>,
             found \subseteq found'
      PROVE  \A k \in Loop : QueryKnows(k)'
  <2>1. loop'[l] = new /\ \A k \in Loop \ {l} : loop'[k] = loop[k]
    BY <1>1, <1>2, StepType
  <2> QED BY <1>1, <1>2, <2>1, QueryKept, QueryOutside
\* The times stay where they are.
<1>3. ASSUME UNCHANGED <<now, stamp, lastQueryTime, savedTime, tempTime>>,
             found \subseteq found'
      PROVE  TimesKnow'
  BY <1>1, <1>3, BehindKept DEF TimesKnow
<1>4. ASSUME NEW e \in Event, Touch(e) PROVE Goal
  <2>1. /\ stamp[e] = 0 /\ stamp'[e] = now /\ \A d \in Event \ {e} : stamp'[d] = stamp[d]
        /\ UNCHANGED <<now, lastQueryTime, savedTime, tempTime, loop, found>>
    BY <1>1, <1>4 DEF Touch, MonitorTypeOK, fileVars
  <2>2. \A t \in Nat : Behind(t) => Behind(t)'
    BY <1>1, <2>1 DEF Behind
  <2>3. TimesKnow'
    BY <1>1, <2>1, <2>2 DEF TimesKnow
  <2>4. ASSUME NEW k \in Loop PROVE QueryKnows(k)'
    <3>1. \A d \in Event : stamp'[d] # stamp[d] => stamp'[d] = now
      BY <2>1
    <3> QED BY <1>1, <2>1, <2>2, <3>1 DEF QueryKnows
  <2> QED BY <2>3, <2>4
<1>5. CASE Tick
  <2>1. /\ now' = now + 1
        /\ UNCHANGED <<stamp, lastQueryTime, savedTime, tempTime, loop, found>>
    BY <1>5 DEF Tick, fileVars
  <2>2. \A t \in Nat : Behind(t) => Behind(t)'
    BY <1>1, <2>1 DEF Behind
  <2>3. TimesKnow'
    BY <1>1, <2>1, <2>2 DEF TimesKnow
  <2>4. \A k \in Loop : QueryKnows(k)'
    BY <1>1, <2>1, <2>2 DEF QueryKnows
  <2> QED BY <2>3, <2>4
<1>6. ASSUME NEW l \in Loop, Start(l) PROVE Goal
  <2>1. /\ [Off EXCEPT !.pc = "wait", !.alive = TRUE] \in LoopState
        /\ [Off EXCEPT !.pc = "wait", !.alive = TRUE].pc = "wait"
    BY OffType DEF LoopState, Off
  <2> QED BY <1>2, <1>3, <1>6, <2>1 DEF Start, fileVars
<1>7. ASSUME NEW l \in Loop, Disconnect(l) PROVE Goal
  <2>1. /\ UNCHANGED <<now, stamp, lastQueryTime, savedTime, tempTime, found>>
        /\ \A k \in Loop \ {l} : loop'[k] = loop[k]
        /\ loop'[l].pc = loop[l].pc /\ loop'[l].start = loop[l].start
        /\ loop'[l].until = loop[l].until /\ loop'[l].hits = loop[l].hits
        /\ loop'[l].state = loop[l].state
    BY <1>1, <1>7 DEF Disconnect, Step, MonitorTypeOK, LoopState, fileVars
  <2>2. \A k \in Loop : QueryKnows(k)'
    BY <1>1, <2>1 DEF QueryKnows, Behind
  <2> QED BY <1>3, <2>1, <2>2
<1>8. ASSUME NEW l \in Loop, LoopEnds(l) PROVE Goal
  <2>1. Off.pc = "off"
    BY DEF Off
  <2> QED BY <1>2, <1>3, <1>8, <2>1, OffType DEF LoopEnds, fileVars
<1>9. ASSUME NEW l \in Loop, Ask(l) PROVE Goal
  <2>1. /\ UNCHANGED <<now, stamp, lastQueryTime, savedTime, tempTime, found>>
        /\ \A k \in Loop \ {l} : loop'[k] = loop[k]
        /\ loop'[l].pc = "search" /\ loop'[l].start = lastQueryTime /\ loop'[l].until = now
    BY <1>1, <1>9 DEF Ask, Step, MonitorTypeOK, LoopState, fileVars
  <2>2. \A k \in Loop : QueryKnows(k)'
    BY <1>1, <2>1 DEF QueryKnows, TimesKnow, Behind
  <2> QED BY <1>3, <2>1, <2>2
<1>10. ASSUME NEW l \in Loop, Search(l) PROVE Goal
  <2>1. /\ UNCHANGED <<now, stamp, lastQueryTime, savedTime, tempTime, found>>
        /\ \A k \in Loop \ {l} : loop'[k] = loop[k]
        /\ loop[l].pc = "search"
        /\ loop'[l].pc = "record" /\ loop'[l].start = loop[l].start
        /\ loop'[l].until = loop[l].until
        /\ loop'[l].hits = {e \in Event : /\ stamp[e] # 0
                                          /\ stamp[e] >= loop[l].start
                                          /\ stamp[e] <= loop[l].until}
    BY <1>1, <1>10 DEF Search, Step, MonitorTypeOK, LoopState, fileVars
  <2>2. \A k \in Loop : QueryKnows(k)'
    BY <1>1, <2>1 DEF QueryKnows, Behind
  <2> QED BY <1>3, <2>1, <2>2
<1>11. ASSUME NEW l \in Loop, SearchFails(l) PROVE Goal
  <2>1. /\ [loop[l] EXCEPT !.pc = "wait", !.start = 0, !.until = 0] \in LoopState
        /\ [loop[l] EXCEPT !.pc = "wait", !.start = 0, !.until = 0].pc = "wait"
    BY <1>1, LeftStates
  <2> QED BY <1>2, <1>3, <1>11, <2>1 DEF SearchFails, fileVars
<1>12. ASSUME NEW l \in Loop, Advance(l) PROVE Goal
  <2>1. /\ loop[l].pc = "record" /\ lastQueryTime' = loop[l].until
        /\ found' = found \cup loop[l].hits
        /\ UNCHANGED <<now, stamp, savedTime, tempTime>>
        /\ Step(l, [loop[l] EXCEPT !.pc = "save", !.start = 0, !.until = 0])
    BY <1>12 DEF Advance, fileVars
  <2>2. /\ [loop[l] EXCEPT !.pc = "save", !.start = 0, !.until = 0] \in LoopState
        /\ [loop[l] EXCEPT !.pc = "save", !.start = 0, !.until = 0].pc = "save"
    BY <1>1, LeftStates
  <2>3. \A k \in Loop : QueryKnows(k)'
    BY <1>2, <2>1, <2>2
  <2>4. Behind(lastQueryTime)'
    BY <1>1, <2>1 DEF QueryKnows, Behind
  <2> QED BY <1>1, <2>1, <2>3, <2>4, BehindKept DEF TimesKnow
<1>13. ASSUME NEW l \in Loop, ReadState(l) PROVE Goal
  <2>1. /\ UNCHANGED <<now, stamp, lastQueryTime, savedTime, tempTime, found>>
        /\ \A k \in Loop \ {l} : loop'[k] = loop[k]
        /\ loop'[l].pc = "write" /\ loop'[l].state = lastQueryTime
    BY <1>1, <1>13 DEF ReadState, Step, MonitorTypeOK, LoopState, fileVars
  <2>2. \A k \in Loop : QueryKnows(k)'
    BY <1>1, <2>1 DEF QueryKnows, TimesKnow, Behind
  <2> QED BY <1>3, <2>1, <2>2
<1>14. ASSUME NEW l \in Loop, WriteState(l) PROVE Goal
  <2>1. /\ loop[l].pc = "write"
        /\ tempTime' = <<loop[l].state>> \/ tempTime' = tempTime
        /\ UNCHANGED <<now, stamp, lastQueryTime, savedTime, found>>
    BY <1>14 DEF WriteState
  <2>2. PICK new \in LoopState : Step(l, new) /\ new.pc \in {"rename", "hand"}
    BY <1>1, <1>14, LeftStates DEF WriteState
  <2>3. \A k \in Loop : QueryKnows(k)'
    BY <1>2, <2>1, <2>2
  <2>4. tempTime' # NoFile => Behind(tempTime[1])'
    <3>1. CASE tempTime' = <<loop[l].state>>
      <4>1. Behind(loop[l].state)
        BY <1>1, <2>1 DEF QueryKnows
      <4> QED BY <2>1, <3>1, <4>1 DEF Behind
    <3>2. CASE tempTime' = tempTime
      BY <1>1, <2>1, <3>2 DEF TimesKnow, Behind
    <3> QED BY <2>1, <3>1, <3>2
  <2> QED BY <1>1, <2>1, <2>3, <2>4 DEF TimesKnow, Behind
<1>15. ASSUME NEW l \in Loop, RenameState(l) PROVE Goal
  <2>1. /\ \/ tempTime # NoFile /\ savedTime' = tempTime[1] /\ tempTime' = NoFile
           \/ savedTime' = savedTime /\ tempTime' = tempTime
        /\ UNCHANGED <<now, stamp, lastQueryTime, found>>
        /\ Step(l, [loop[l] EXCEPT !.pc = "hand"])
    BY <1>15 DEF RenameState, fileVars
  <2>2. [loop[l] EXCEPT !.pc = "hand"] \in LoopState /\ [loop[l] EXCEPT !.pc = "hand"].pc = "hand"
    BY <1>1 DEF LoopState
  <2>3. \A k \in Loop : QueryKnows(k)'
    BY <1>2, <2>1, <2>2
  <2> QED BY <1>1, <2>1, <2>3 DEF TimesKnow, Behind
<1>16. ASSUME NEW l \in Loop, HandOver(l) PROVE Goal
  <2>1. /\ [loop[l] EXCEPT !.pc = "wait", !.hits = {}] \in LoopState
        /\ [loop[l] EXCEPT !.pc = "wait", !.hits = {}].pc = "wait"
    BY <1>1 DEF LoopState
  <2> QED BY <1>2, <1>3, <1>16, <2>1 DEF HandOver, fileVars
<1>17. ASSUME NEW b \in batches, HandleEvent(b) PROVE Goal
  <2>1. UNCHANGED <<now, stamp, lastQueryTime, savedTime, tempTime, loop, found>>
    BY <1>17 DEF HandleEvent, fileVars
  <2> QED BY <1>1, <1>3, <2>1, QueryKept
<1>18. CASE AgentEnds
  <2>1. /\ UNCHANGED <<now, stamp, lastQueryTime, savedTime, tempTime, found>>
        /\ \A k \in Loop : loop'[k].pc = "off"
    BY <1>18 DEF AgentEnds, Off, fileVars
  <2> QED BY <1>1, <1>3, <2>1, QueryOutside
<1>19. CASE NewAuditdMonitor
  <2>1. /\ lastQueryTime' = savedTime /\ UNCHANGED <<now, stamp, savedTime, tempTime, loop, found>>
    BY <1>19 DEF NewAuditdMonitor, fileVars
  <2> QED BY <1>1, <2>1, QueryKept DEF TimesKnow, Behind
<1>20. CASE UNCHANGED monitorVars
  <2>1. UNCHANGED <<now, stamp, lastQueryTime, savedTime, tempTime, loop, found>>
    BY <1>20 DEF monitorVars, fileVars
  <2> QED BY <1>1, <1>3, <2>1, QueryKept
<1> QED
  BY <1>4, <1>5, <1>6, <1>7, <1>8, <1>9, <1>10, <1>11, <1>12, <1>13, <1>14, <1>15, <1>16,
     <1>17, <1>18, <1>19, <1>20 DEF MonitorNext, Query

\* The invariant of the monitor holds throughout (audit monitor of the agent).
THEOREM Invariance == MonitorSpec => []IInv
BY InitIInv, IInvStep, PTL DEF MonitorSpec

\* All variables keep their types.
THEOREM TypeCorrect == MonitorSpec => []MonitorTypeOK
<1>1. IInv => MonitorTypeOK
  BY DEF IInv
<1> QED BY Invariance, <1>1, PTL

\* However loops overlap and restarts fall back, no record is passed over.
THEOREM NoRecordPassedOver == MonitorSpec => []NoGap
<1>1. IInv => NoGap
  BY DEF IInv, TimesKnow, Behind, NoGap
<1> QED BY Invariance, <1>1, PTL
=============================================================================
