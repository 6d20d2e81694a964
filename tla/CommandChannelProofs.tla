------------------------ MODULE CommandChannelProofs ------------------------
(***************************************************************************)
(* Proofs about CommandChannel for every set of commands and streams and   *)
(* every number of faults.  The inductive invariant IInv follows a command *)
(* on its way: it is in at most one place (queue, a generator's hand, a    *)
(* wire) before the agent starts it, it has its row from the moment it is  *)
(* put, and its outcome travels unchanged and only once to that row.       *)
(***************************************************************************)
EXTENDS CommandChannel, TLAPS

NoDup(q) == \A i, j \in DOMAIN q : q[i] = q[j] => i = j

\* Every command is in one place at a time.
OnePlace ==
    /\ NoDup(queue)
    /\ \A s \in Stream :
         /\ NoDup(wire[s])
         /\ hold[s] \notin Elems(queue)
         /\ \A c \in Elems(wire[s]) : c \notin Elems(queue)
         /\ \A t \in Stream :
              /\ hold[s] \notin Elems(wire[t])
              /\ s # t => /\ hold[s] \in Cmd => hold[s] # hold[t]
                          /\ \A c \in Elems(wire[s]) : c \notin Elems(wire[t])

\* A command under way was put and has not been started.
UnderWay == \A c \in Cmd : Travels(c) => op[c] = "put" /\ execs[c] = 0

\* What the view has done for a command.
Logged == \A c \in Cmd :
    /\ execs[c] > 0 => op[c] = "put"
    /\ op[c] \in {"committed", "put"} => row[c] # "none"
    /\ op[c] \in {"idle", "checked"} => row[c] = "none"

\* What the agent has done for it.
Executed == \A c \in Cmd :
    /\ execs[c] \in {0, 1}
    /\ (execs[c] = 0) <=> (job[c] = "none")
    /\ job[c] \in {"none", "running"} => outcome[c] = "none"
    /\ job[c] \in Outcome => outcome[c] = job[c]
    /\ job[c] # "gone" => row[c] \notin Outcome

\* Results in flight and recorded.
Returned ==
    /\ \A m \in results : /\ job[m.cmd] = "gone"
                          /\ outcome[m.cmd] = m.successful
                          /\ row[m.cmd] = "pending"
    /\ \A c \in Cmd : row[c] \in Outcome => execs[c] = 1 /\ row[c] = outcome[c]

\* A generator that dropped a command is about to end or has ended.
Stealing == \A s \in Stream :
    /\ \A c, d \in stole[s] : c = d
    /\ stole[s] # {} => gen[s] \in {"finally", "dboffline", "closed"}
    /\ rcv[s] = "none" => gen[s] = "unused"

\* A live receiver belongs to the serving loop.
Receiving ==
    /\ \A s \in Stream : rcv[s] = "on" => phase = "serving"
    /\ \A s, t \in Stream : rcv[s] = "on" /\ rcv[t] = "on" => s = t

IInv == /\ TypeOK /\ OnePlace /\ UnderWay /\ Logged /\ Executed /\ Returned
        /\ Stealing /\ Receiving

-----------------------------------------------------------------------------

\* Facts about sequences the proofs use.
LEMMA AppendElems ==
    ASSUME NEW S, NEW q \in Seq(S), NEW e \in S
    PROVE  /\ Append(q, e) \in Seq(S)
           /\ Elems(Append(q, e)) = Elems(q) \cup {e}
           /\ NoDup(q) /\ e \notin Elems(q) => NoDup(Append(q, e))
<1>1. /\ Append(q, e) \in Seq(S)
      /\ DOMAIN Append(q, e) = DOMAIN q \cup {Len(q) + 1}
      /\ \A i \in DOMAIN q : Append(q, e)[i] = q[i]
      /\ Append(q, e)[Len(q) + 1] = e
  OBVIOUS
<1>2. Elems(Append(q, e)) = Elems(q) \cup {e}
  BY <1>1, Zenon DEF Elems
<1>3. NoDup(q) /\ e \notin Elems(q) => NoDup(Append(q, e))
  BY <1>1, Zenon DEF NoDup, Elems
<1> QED BY <1>1, <1>2, <1>3

\* Tail takes the head of a sequence without repetitions out of its elements.
LEMMA TailElems ==
    ASSUME NEW S, NEW q \in Seq(S), q # <<>>
    PROVE  /\ Head(q) \in S /\ Tail(q) \in Seq(S)
           /\ Elems(q) = Elems(Tail(q)) \cup {Head(q)}
           /\ NoDup(q) => NoDup(Tail(q)) /\ Head(q) \notin Elems(Tail(q))
<1>1. Head(q) \in S /\ Tail(q) \in Seq(S)
  OBVIOUS
<1>2. Elems(q) = Elems(Tail(q)) \cup {Head(q)}
  <2>1. \A i \in DOMAIN Tail(q) : i + 1 \in DOMAIN q /\ Tail(q)[i] = q[i + 1]
    OBVIOUS
  <2>2. \A i \in DOMAIN q : i = 1 \/ (i - 1 \in DOMAIN Tail(q) /\ q[i] = Tail(q)[i - 1])
    OBVIOUS
  <2>3. 1 \in DOMAIN q /\ q[1] = Head(q)
    OBVIOUS
  <2>4. ASSUME NEW x \in Elems(q) PROVE x \in Elems(Tail(q)) \cup {Head(q)}
    BY <2>2, <2>3, Zenon DEF Elems
  <2>5. ASSUME NEW x \in Elems(Tail(q)) \cup {Head(q)} PROVE x \in Elems(q)
    BY <2>1, <2>3, Zenon DEF Elems
  <2> QED BY <2>4, <2>5
<1>3. NoDup(q) => NoDup(Tail(q)) /\ Head(q) \notin Elems(Tail(q))
  BY DEF NoDup, Elems
<1> QED BY <1>1, <1>2, <1>3

\* The empty sequence holds nothing.
LEMMA EmptyElems == Elems(<<>>) = {} /\ NoDup(<<>>)
  BY DEF Elems, NoDup

-----------------------------------------------------------------------------

\* A yield sends the command in hand or nothing.
LEMMA SendWire ==
    ASSUME NEW s \in Stream, GenSend(s)
    PROVE  \/ wire' = wire
           \/ hold[s] \in Cmd /\ wire' = [wire EXCEPT ![s] = Append(wire[s], hold[s])]
  BY Zenon DEF GenSend

\* Every step keeps the variables in their types.
LEMMA TypeStep == TypeOK /\ [Next]_vars => TypeOK'
<1> SUFFICES ASSUME TypeOK, [Next]_vars PROVE TypeOK'
  OBVIOUS
<1> USE ChannelAssumption
<1> USE DEF TypeOK, viewVars, genVars, statusVars, agentVars, netVars, OneFault,
            Outcome, OpState, GenState, Phase, RcvState, JobState
<1>1. ASSUME NEW c \in Cmd, ApiCheck(c) PROVE TypeOK'
  BY <1>1 DEF ApiCheck
<1>2. ASSUME NEW c \in Cmd, LegacyCheck(c) PROVE TypeOK'
  BY <1>2 DEF LegacyCheck
<1>3. ASSUME NEW c \in Cmd, CommitRow(c) PROVE TypeOK'
  <2>0. \E o \in OpState : op' = [op EXCEPT ![c] = o]
    BY <1>3, Zenon DEF CommitRow
  <2>1. op' \in [Cmd -> OpState]
    BY <2>0
  <2>2. row' \in [Cmd -> {"none", "pending"} \cup Outcome]
    BY <1>3 DEF CommitRow
  <2> QED BY <1>3, <2>1, <2>2 DEF CommitRow
<1>4. ASSUME NEW c \in Cmd, PutCmd(c) PROVE TypeOK'
  BY <1>4 DEF PutCmd
<1>5. ASSUME NEW c \in Cmd, Execute(c) PROVE TypeOK'
  BY <1>5 DEF Execute
<1>6. ASSUME NEW c \in Cmd, SendResult(c) PROVE TypeOK'
  BY <1>6 DEF SendResult
<1>7. ASSUME NEW s \in Stream, RequestCmd(s) PROVE TypeOK'
  BY <1>7 DEF RequestCmd
<1>8. ASSUME NEW s \in Stream, GenLoop(s) PROVE TypeOK'
  BY <1>8 DEF GenLoop
<1>9. ASSUME NEW s \in Stream, GenGet(s) PROVE TypeOK'
  BY <1>9 DEF GenGet
<1>10. ASSUME NEW s \in Stream, GenTimeout(s) PROVE TypeOK'
  BY <1>10 DEF GenTimeout
<1>11. ASSUME NEW s \in Stream, GenSend(s) PROVE TypeOK'
  <2>0. \E g \in GenState : gen' = [gen EXCEPT ![s] = g]
    BY <1>11, Zenon DEF GenSend
  <2>1. gen' \in [Stream -> GenState] /\ hold' \in [Stream -> Cmd \cup {Beat, NoCmd}]
    BY <1>11, <2>0 DEF GenSend
  <2>2. wire' \in [Stream -> Seq(Cmd)]
    <3>1. \/ wire' = wire
          \/ hold[s] \in Cmd /\ wire' = [wire EXCEPT ![s] = Append(wire[s], hold[s])]
      BY <1>11, SendWire
    <3>2. CASE wire' = wire
      BY <3>2
    <3>3. CASE hold[s] \in Cmd /\ wire' = [wire EXCEPT ![s] = Append(wire[s], hold[s])]
      <4>1. Append(wire[s], hold[s]) \in Seq(Cmd)
        BY <3>3, AppendElems
      <4> QED BY <3>3, <4>1
    <3> QED BY <3>1, <3>2, <3>3
  <2>3. \E D \in SUBSET Cmd : stole' = [stole EXCEPT ![s] = D] \/ stole' = stole
    <3>1. CASE srvUp[s]
      BY <1>11, <3>1 DEF GenSend
    <3>2. CASE ~srvUp[s]
      <4>1. stole' = [stole EXCEPT ![s] = stole[s] \cup ({hold[s]} \cap Cmd)]
        BY <1>11, <3>2, Zenon DEF GenSend
      <4>2. stole[s] \cup ({hold[s]} \cap Cmd) \in SUBSET Cmd
        OBVIOUS
      <4> QED BY <4>1, <4>2, Zenon
    <3> QED BY <3>1, <3>2
  <2>4. stole' \in [Stream -> SUBSET Cmd]
    BY <2>3
  <2> QED BY <1>11, <2>1, <2>2, <2>4 DEF GenSend
<1>12. ASSUME NEW s \in Stream, GenOffline(s) PROVE TypeOK'
  BY <1>12 DEF GenOffline
<1>13. ASSUME NEW s \in Stream, GenDbOffline(s) PROVE TypeOK'
  BY <1>13 DEF GenDbOffline
<1>14. ASSUME NEW s \in Stream, OpenStream(s) PROVE TypeOK'
  BY <1>14 DEF OpenStream
<1>15. ASSUME NEW s \in Stream, Recv(s) PROVE TypeOK'
  BY <1>15 DEF Recv
<1>16. ASSUME NEW s \in Stream, RecvErr(s) PROVE TypeOK'
  BY <1>16 DEF RecvErr
<1>17. ASSUME NEW s \in Stream, ServerNotices(s) PROVE TypeOK'
  BY <1>17 DEF ServerNotices
<1>18. ASSUME NEW s \in Stream, NetBreak(s) PROVE TypeOK'
  BY <1>18 DEF NetBreak
<1>19. ASSUME NEW m \in results, ReturnCmdResult(m) PROVE TypeOK'
  BY <1>19 DEF ReturnCmdResult
<1>20. ASSUME NEW m \in results, LoseResult(m) PROVE TypeOK'
  BY <1>20 DEF LoseResult
<1>21. ASSUME AgentStart PROVE TypeOK'
  BY <1>21 DEF AgentStart
<1>22. ASSUME RegisterDb PROVE TypeOK'
  BY <1>22 DEF RegisterDb
<1>23. ASSUME RegisterMem PROVE TypeOK'
  BY <1>23 DEF RegisterMem
<1>24. ASSUME ReportMem PROVE TypeOK'
  BY <1>24 DEF ReportMem
<1>25. ASSUME ReportDb PROVE TypeOK'
  BY <1>25 DEF ReportDb
<1>26. ASSUME ReportFail PROVE TypeOK'
  BY <1>26 DEF ReportFail
<1>27. ASSUME AgentCrash PROVE TypeOK'
  BY <1>27 DEF AgentCrash
<1>28. ASSUME ServerRestart PROVE TypeOK'
  <2>1. gen' \in [Stream -> GenState] /\ op' \in [Cmd -> OpState]
    BY <1>28 DEF ServerRestart
  <2>2. queue' \in Seq(Cmd) /\ faults' \in 0..MaxFaults
    BY <1>28 DEF ServerRestart
  <2> QED BY <1>28, <2>1, <2>2 DEF ServerRestart
<1>29. CASE UNCHANGED vars
  BY <1>29 DEF vars
<1> QED
  BY <1>1, <1>2, <1>3, <1>4, <1>5, <1>6, <1>7, <1>8, <1>9, <1>10, <1>11, <1>12, <1>13, <1>14, <1>15, <1>16, <1>17, <1>18, <1>19, <1>20, <1>21, <1>22, <1>23, <1>24, <1>25, <1>26, <1>27, <1>28, <1>29
  DEF Next, OperatorStep, GenStep, AgentStep, StreamStep, JobStep, Fault
-----------------------------------------------------------------------------
(* Where a command is.                                                     *)

\* The only steps that move a command from one place to another.
LEMMA Moves ==
    [Next]_vars => \/ UNCHANGED <<queue, hold, wire>>
                   \/ \E c \in Cmd : PutCmd(c)
                   \/ \E s \in Stream : \/ GenGet(s) \/ GenTimeout(s) \/ GenSend(s)
                                         \/ Recv(s) \/ RecvErr(s)
                   \/ AgentCrash \/ ServerRestart
  BY DEF Next, OperatorStep, GenStep, AgentStep, StreamStep, JobStep, Fault, vars,
         viewVars, genVars, statusVars, agentVars, netVars, ApiCheck, LegacyCheck,
         CommitRow, RequestCmd, GenLoop, GenOffline, GenDbOffline, AgentStart,
         RegisterDb, RegisterMem, OpenStream, ReportMem, ReportDb, ReportFail,
         Execute, SendResult, ReturnCmdResult, LoseResult, NetBreak, ServerNotices

\* Only commands are queued and sent.
LEMMA ElemsInCmd ==
    TypeOK => Elems(queue) \subseteq Cmd /\ \A s \in Stream : Elems(wire[s]) \subseteq Cmd
  BY DEF TypeOK, Elems

\* No step puts a command in two places (GenGet, GenSend, Recv).
LEMMA OnePlaceStep == IInv /\ [Next]_vars => OnePlace'
<1> SUFFICES ASSUME IInv, [Next]_vars PROVE OnePlace'
  OBVIOUS
<1> USE ChannelAssumption, ElemsInCmd, EmptyElems
<1>0. TypeOK /\ OnePlace /\ UnderWay
  BY DEF IInv
<1>1. CASE UNCHANGED <<queue, hold, wire>>
  BY <1>0, <1>1 DEF OnePlace
<1>2. ASSUME NEW c \in Cmd, PutCmd(c) PROVE OnePlace'
  <2>1. ~Travels(c)
    BY <1>0, <1>2 DEF UnderWay, PutCmd
  <2>2. /\ Elems(queue') = Elems(queue) \cup {c}
        /\ NoDup(queue')
    BY <1>0, <1>2, <2>1, AppendElems DEF PutCmd, TypeOK, OnePlace, Travels
  <2>3. UNCHANGED <<hold, wire>>
    BY <1>2 DEF PutCmd, netVars
  <2> QED BY <1>0, <2>1, <2>2, <2>3 DEF OnePlace, Travels
<1>3. ASSUME NEW s \in Stream, GenGet(s) PROVE OnePlace'
  <2>1. /\ Elems(queue) = Elems(queue') \cup {Head(queue)}
        /\ NoDup(queue') /\ Head(queue) \notin Elems(queue')
        /\ Head(queue) \in Cmd
    BY <1>0, <1>3, TailElems DEF GenGet, TypeOK, OnePlace
  <2>2. hold' = [hold EXCEPT ![s] = Head(queue)] /\ wire' = wire
    BY <1>3 DEF GenGet, netVars
  <2>3. hold \in [Stream -> Cmd \cup {Beat, NoCmd}]
    BY <1>0 DEF TypeOK
  <2> QED BY <1>0, <2>1, <2>2, <2>3 DEF OnePlace
<1>4. ASSUME NEW s \in Stream, GenTimeout(s) PROVE OnePlace'
  <2>1. hold' = [hold EXCEPT ![s] = Beat] /\ wire' = wire /\ queue' = queue
    BY <1>4 DEF GenTimeout, netVars
  <2>2. hold \in [Stream -> Cmd \cup {Beat, NoCmd}]
    BY <1>0 DEF TypeOK
  <2> QED BY <1>0, <2>1, <2>2 DEF OnePlace
<1>5. ASSUME NEW s \in Stream, GenSend(s) PROVE OnePlace'
  <2>1. hold' = [hold EXCEPT ![s] = NoCmd] /\ queue' = queue
    BY <1>5 DEF GenSend
  <2>2. hold \in [Stream -> Cmd \cup {Beat, NoCmd}]
    BY <1>0 DEF TypeOK
  <2>3. CASE wire' = wire
    BY <1>0, <2>1, <2>2, <2>3 DEF OnePlace
  <2>4. CASE hold[s] \in Cmd /\ wire' = [wire EXCEPT ![s] = Append(wire[s], hold[s])]
    <3>1. /\ Elems(wire'[s]) = Elems(wire[s]) \cup {hold[s]}
          /\ NoDup(wire'[s])
          /\ \A t \in Stream \ {s} : wire'[t] = wire[t]
      BY <1>0, <2>4, AppendElems DEF TypeOK, OnePlace
    <3>2. hold'[s] = NoCmd /\ \A t \in Stream \ {s} : hold'[t] = hold[t]
      BY <2>1, <2>2
    <3>3. \A t \in Stream : NoCmd \notin Elems(wire'[t]) /\ NoCmd \notin Elems(queue)
      BY <1>0, <2>4, <3>1
    <3>4. \A t \in Stream \ {s} : hold[s] \notin Elems(wire[t]) /\ hold[s] # hold[t]
      BY <1>0, <2>4 DEF OnePlace
    <3> QED BY <1>0, <2>1, <2>4, <3>1, <3>2, <3>3, <3>4 DEF OnePlace
  <2> QED BY <1>5, <2>3, <2>4, SendWire
<1>6. ASSUME NEW s \in Stream, Recv(s) PROVE OnePlace'
  <2>1. /\ Elems(wire[s]) = Elems(wire'[s]) \cup {Head(wire[s])}
        /\ NoDup(wire'[s])
        /\ \A t \in Stream \ {s} : wire'[t] = wire[t]
    BY <1>0, <1>6, TailElems DEF Recv, TypeOK, OnePlace
  <2>2. UNCHANGED <<hold, queue>>
    BY <1>6 DEF Recv, genVars
  <2> QED BY <1>0, <2>1, <2>2 DEF OnePlace
<1>7. ASSUME \/ \E s \in Stream : RecvErr(s)
             \/ AgentCrash \/ ServerRestart
      PROVE  OnePlace'
  <2>1. /\ queue' \in {queue, <<>>}
        /\ \A s \in Stream : wire'[s] \in {wire[s], <<>>} /\ hold'[s] \in {hold[s], NoCmd}
    BY <1>0, <1>7 DEF RecvErr, AgentCrash, ServerRestart, TypeOK, genVars, agentVars
  <2> QED BY <1>0, <2>1 DEF OnePlace
<1> QED BY <1>1, <1>2, <1>3, <1>4, <1>5, <1>6, <1>7, Moves

\* Only put sets a command on its way, and a started command has left.
LEMMA TravelStep ==
    IInv /\ [Next]_vars =>
      \A d \in Cmd : Travels(d)' => /\ Travels(d) \/ PutCmd(d)
                                    /\ \A s \in Stream : Recv(s) => d # Head(wire[s])
<1> SUFFICES ASSUME IInv, [Next]_vars, NEW d \in Cmd, Travels(d)'
             PROVE  /\ Travels(d) \/ PutCmd(d)
                    /\ \A s \in Stream : Recv(s) => d # Head(wire[s])
  OBVIOUS
<1> USE ChannelAssumption, ElemsInCmd, EmptyElems
<1>0. TypeOK /\ OnePlace
  BY DEF IInv
<1>1. ASSUME NEW s \in Stream, Recv(s) PROVE Travels(d) /\ d # Head(wire[s])
  <2>1. /\ Elems(wire[s]) = Elems(wire'[s]) \cup {Head(wire[s])}
        /\ Head(wire[s]) \notin Elems(wire'[s])
        /\ \A t \in Stream \ {s} : wire'[t] = wire[t]
    BY <1>0, <1>1, TailElems DEF Recv, TypeOK, OnePlace
  <2>2. UNCHANGED <<hold, queue>>
    BY <1>1 DEF Recv, genVars
  <2> QED BY <1>0, <2>1, <2>2 DEF OnePlace, Travels
<1>2. Travels(d) \/ PutCmd(d)
  <2>1. CASE UNCHANGED <<queue, hold, wire>>
    BY <2>1 DEF Travels
  <2>2. ASSUME NEW c \in Cmd, PutCmd(c) PROVE Travels(d) \/ PutCmd(d)
    <3>1. Elems(queue') = Elems(queue) \cup {c}
      BY <1>0, <2>2, AppendElems DEF PutCmd, TypeOK
    <3>2. UNCHANGED <<hold, wire>>
      BY <2>2 DEF PutCmd, netVars
    <3> QED BY <2>2, <3>1, <3>2 DEF Travels
  <2>3. ASSUME NEW s \in Stream, GenGet(s) PROVE Travels(d)
    <3>1. /\ Elems(queue) = Elems(queue') \cup {Head(queue)}
          /\ hold' = [hold EXCEPT ![s] = Head(queue)] /\ wire' = wire
      BY <1>0, <2>3, TailElems DEF GenGet, TypeOK, netVars
    <3> QED BY <1>0, <3>1 DEF Travels, TypeOK
  <2>4. ASSUME NEW s \in Stream, GenTimeout(s) PROVE Travels(d)
    <3>1. hold' = [hold EXCEPT ![s] = Beat] /\ wire' = wire /\ queue' = queue
      BY <2>4 DEF GenTimeout, netVars
    <3> QED BY <1>0, <3>1 DEF Travels, TypeOK
  <2>5. ASSUME NEW s \in Stream, GenSend(s) PROVE Travels(d)
    <3>1. hold' = [hold EXCEPT ![s] = NoCmd] /\ queue' = queue
      BY <2>5 DEF GenSend
    <3>2. \A t \in Stream : Elems(wire'[t]) \subseteq Elems(wire[t]) \cup {hold[s]}
      <4>1. CASE wire' = wire
        BY <4>1
      <4>2. CASE hold[s] \in Cmd /\ wire' = [wire EXCEPT ![s] = Append(wire[s], hold[s])]
        BY <1>0, <4>2, AppendElems DEF TypeOK
      <4> QED BY <2>5, <4>1, <4>2, SendWire
    <3> QED BY <1>0, <3>1, <3>2 DEF Travels, TypeOK
  <2>6. ASSUME \/ \E s \in Stream : RecvErr(s)
               \/ AgentCrash \/ ServerRestart
        PROVE  Travels(d)
    <3>1. /\ queue' \in {queue, <<>>}
          /\ \A s \in Stream : wire'[s] \in {wire[s], <<>>} /\ hold'[s] \in {hold[s], NoCmd}
      BY <1>0, <2>6 DEF RecvErr, AgentCrash, ServerRestart, TypeOK, genVars, agentVars
    <3> QED BY <3>1 DEF Travels
  <2> QED BY <1>1, <2>1, <2>2, <2>3, <2>4, <2>5, <2>6, Moves
<1> QED BY <1>1, <1>2

-----------------------------------------------------------------------------
(* What the views and the agent do with a command, and when.               *)

\* The only steps that change what is recorded of a command.
LEMMA Progress ==
    [Next]_vars => \/ UNCHANGED <<op, row, execs, job, outcome, results>>
                   \/ \E c \in Cmd : \/ ApiCheck(c) \/ LegacyCheck(c) \/ CommitRow(c)
                                      \/ PutCmd(c) \/ Execute(c) \/ SendResult(c)
                   \/ \E s \in Stream : Recv(s)
                   \/ \E m \in results : ReturnCmdResult(m) \/ LoseResult(m)
                   \/ AgentCrash \/ ServerRestart
  BY DEF Next, OperatorStep, GenStep, AgentStep, StreamStep, JobStep, Fault, vars,
         viewVars, genVars, statusVars, agentVars, netVars, RequestCmd, GenLoop,
         GenGet, GenTimeout, GenSend, GenOffline, GenDbOffline, AgentStart,
         RegisterDb, RegisterMem, OpenStream, ReportMem, ReportDb, ReportFail,
         RecvErr, NetBreak, ServerNotices

\* A travelling command was put and has not been started (PutCmd, Recv).
LEMMA UnderWayStep == IInv /\ [Next]_vars => UnderWay'
<1> SUFFICES ASSUME IInv, [Next]_vars, NEW d \in Cmd, Travels(d)'
             PROVE  op'[d] = "put" /\ execs'[d] = 0
  BY DEF UnderWay
<1>0. TypeOK /\ UnderWay /\ Logged
  BY DEF IInv
<1>1. Travels(d) \/ PutCmd(d)
  BY TravelStep
<1>2. CASE UNCHANGED <<op, row, execs, job, outcome, results>>
  BY <1>0, <1>1, <1>2 DEF UnderWay, PutCmd, Logged, TypeOK
<1>3. ASSUME NEW c \in Cmd, \/ ApiCheck(c) \/ LegacyCheck(c) \/ CommitRow(c)
                            \/ PutCmd(c) \/ Execute(c) \/ SendResult(c)
      PROVE  op'[d] = "put" /\ execs'[d] = 0
  BY <1>0, <1>1, <1>3
  DEF UnderWay, Logged, TypeOK, agentVars, viewVars, ApiCheck, LegacyCheck, CommitRow,
      PutCmd, Execute, SendResult
<1>4. ASSUME NEW s \in Stream, Recv(s) PROVE op'[d] = "put" /\ execs'[d] = 0
  <2>1. d # Head(wire[s])
    BY <1>4, TravelStep
  <2> QED BY <1>0, <1>1, <1>4, <2>1 DEF UnderWay, PutCmd, Recv, viewVars, TypeOK
<1>5. ASSUME \/ \E m \in results : ReturnCmdResult(m) \/ LoseResult(m)
             \/ AgentCrash \/ ServerRestart
      PROVE  op'[d] = "put" /\ execs'[d] = 0
  BY <1>0, <1>1, <1>5
  DEF UnderWay, PutCmd, ReturnCmdResult, LoseResult, AgentCrash, ServerRestart,
      agentVars, viewVars, TypeOK
<1> QED BY <1>2, <1>3, <1>4, <1>5, Progress

\* The row is written before anything else happens to a command (CommitRow).
LEMMA LoggedStep == IInv /\ [Next]_vars => Logged'
<1> SUFFICES ASSUME IInv, [Next]_vars PROVE Logged'
  OBVIOUS
<1> USE ChannelAssumption DEF Outcome, viewVars, agentVars, genVars, netVars
<1>0. TypeOK /\ UnderWay /\ Logged /\ Executed /\ Returned
  BY DEF IInv
<1>1. CASE UNCHANGED <<op, row, execs, job, outcome, results>>
  BY <1>0, <1>1 DEF Logged
<1>2. ASSUME NEW c \in Cmd, ApiCheck(c) PROVE Logged'
  BY <1>0, <1>2 DEF ApiCheck, TypeOK, Logged, Executed, Returned
<1>3. ASSUME NEW c \in Cmd, LegacyCheck(c) PROVE Logged'
  BY <1>0, <1>3 DEF LegacyCheck, TypeOK, Logged, Executed, Returned
<1>4. ASSUME NEW c \in Cmd, CommitRow(c) PROVE Logged'
  BY <1>0, <1>4 DEF CommitRow, TypeOK, Logged, Executed, Returned
<1>5. ASSUME NEW c \in Cmd, PutCmd(c) PROVE Logged'
  BY <1>0, <1>5 DEF PutCmd, TypeOK, Logged, Executed, Returned
<1>6. ASSUME NEW c \in Cmd, Execute(c) PROVE Logged'
  BY <1>0, <1>6 DEF Execute, TypeOK, Logged, Executed, Returned
<1>7. ASSUME NEW c \in Cmd, SendResult(c) PROVE Logged'
  BY <1>0, <1>7 DEF SendResult, TypeOK, Logged, Executed, Returned
<1>8. ASSUME NEW s \in Stream, Recv(s) PROVE Logged'
  <2> DEFINE h == Head(wire[s])
  <2>1. h \in Cmd /\ op[h] = "put" /\ execs[h] = 0
    <3>1. h \in Cmd /\ h \in Elems(wire[s])
      BY <1>0, <1>8, TailElems DEF Recv, TypeOK
    <3> QED BY <1>0, <3>1 DEF UnderWay, Travels
  <2>2. /\ job' = [job EXCEPT ![h] = "running"] /\ execs' = [execs EXCEPT ![h] = @ + 1]
        /\ UNCHANGED <<op, row, outcome, results>>
    BY <1>8 DEF Recv
  <2> HIDE DEF h
  <2> QED BY <1>0, <2>1, <2>2 DEF TypeOK, Logged, Executed, Returned
<1>9. ASSUME NEW m \in results, ReturnCmdResult(m) PROVE Logged'
  BY <1>0, <1>9 DEF ReturnCmdResult, TypeOK, Logged, Executed, Returned
<1>10. ASSUME NEW m \in results, LoseResult(m) PROVE Logged'
  BY <1>0, <1>10 DEF LoseResult, TypeOK, Logged, Executed, Returned
<1>11. ASSUME AgentCrash PROVE Logged'
  BY <1>0, <1>11 DEF AgentCrash, TypeOK, Logged, Executed, Returned
<1>12. ASSUME ServerRestart PROVE Logged'
  BY <1>0, <1>12 DEF ServerRestart, TypeOK, Logged, Executed, Returned
<1> QED
  BY <1>1, <1>2, <1>3, <1>4, <1>5, <1>6, <1>7, <1>8, <1>9, <1>10, <1>11, <1>12, Progress

\* Execution counts and job states go together (Recv, Execute, AgentCrash).
LEMMA ExecutedStep == IInv /\ [Next]_vars => Executed'
<1> SUFFICES ASSUME IInv, [Next]_vars PROVE Executed'
  OBVIOUS
<1> USE ChannelAssumption DEF Outcome, viewVars, agentVars, genVars, netVars
<1>0. TypeOK /\ UnderWay /\ Logged /\ Executed /\ Returned
  BY DEF IInv
<1>1. CASE UNCHANGED <<op, row, execs, job, outcome, results>>
  BY <1>0, <1>1 DEF Executed
<1>2. ASSUME NEW c \in Cmd, ApiCheck(c) PROVE Executed'
  BY <1>0, <1>2 DEF ApiCheck, TypeOK, Logged, Executed, Returned
<1>3. ASSUME NEW c \in Cmd, LegacyCheck(c) PROVE Executed'
  BY <1>0, <1>3 DEF LegacyCheck, TypeOK, Logged, Executed, Returned
<1>4. ASSUME NEW c \in Cmd, CommitRow(c) PROVE Executed'
  BY <1>0, <1>4 DEF CommitRow, TypeOK, Logged, Executed, Returned
<1>5. ASSUME NEW c \in Cmd, PutCmd(c) PROVE Executed'
  BY <1>0, <1>5 DEF PutCmd, TypeOK, Logged, Executed, Returned
<1>6. ASSUME NEW c \in Cmd, Execute(c) PROVE Executed'
  BY <1>0, <1>6 DEF Execute, TypeOK, Logged, Executed, Returned
<1>7. ASSUME NEW c \in Cmd, SendResult(c) PROVE Executed'
  BY <1>0, <1>7 DEF SendResult, TypeOK, Logged, Executed, Returned
<1>8. ASSUME NEW s \in Stream, Recv(s) PROVE Executed'
  <2> DEFINE h == Head(wire[s])
  <2>1. h \in Cmd /\ op[h] = "put" /\ execs[h] = 0
    <3>1. h \in Cmd /\ h \in Elems(wire[s])
      BY <1>0, <1>8, TailElems DEF Recv, TypeOK
    <3> QED BY <1>0, <3>1 DEF UnderWay, Travels
  <2>2. /\ job' = [job EXCEPT ![h] = "running"] /\ execs' = [execs EXCEPT ![h] = @ + 1]
        /\ UNCHANGED <<op, row, outcome, results>>
    BY <1>8 DEF Recv
  <2> HIDE DEF h
  <2> QED BY <1>0, <2>1, <2>2 DEF TypeOK, Logged, Executed, Returned
<1>9. ASSUME NEW m \in results, ReturnCmdResult(m) PROVE Executed'
  BY <1>0, <1>9 DEF ReturnCmdResult, TypeOK, Logged, Executed, Returned
<1>10. ASSUME NEW m \in results, LoseResult(m) PROVE Executed'
  BY <1>0, <1>10 DEF LoseResult, TypeOK, Logged, Executed, Returned
<1>11. ASSUME AgentCrash PROVE Executed'
  BY <1>0, <1>11 DEF AgentCrash, TypeOK, Logged, Executed, Returned
<1>12. ASSUME ServerRestart PROVE Executed'
  BY <1>0, <1>12 DEF ServerRestart, TypeOK, Logged, Executed, Returned
<1> QED
  BY <1>1, <1>2, <1>3, <1>4, <1>5, <1>6, <1>7, <1>8, <1>9, <1>10, <1>11, <1>12, Progress

\* Results in flight and rows carry the outcome of the job (SendResult).
LEMMA ReturnedStep == IInv /\ [Next]_vars => Returned'
<1> SUFFICES ASSUME IInv, [Next]_vars PROVE Returned'
  OBVIOUS
<1> USE ChannelAssumption DEF Outcome, viewVars, agentVars, genVars, netVars
<1>0. TypeOK /\ UnderWay /\ Logged /\ Executed /\ Returned
  BY DEF IInv
<1>1. CASE UNCHANGED <<op, row, execs, job, outcome, results>>
  BY <1>0, <1>1 DEF Returned
<1>2. ASSUME NEW c \in Cmd, ApiCheck(c) PROVE Returned'
  BY <1>0, <1>2 DEF ApiCheck, TypeOK, Logged, Executed, Returned
<1>3. ASSUME NEW c \in Cmd, LegacyCheck(c) PROVE Returned'
  BY <1>0, <1>3 DEF LegacyCheck, TypeOK, Logged, Executed, Returned
<1>4. ASSUME NEW c \in Cmd, CommitRow(c) PROVE Returned'
  BY <1>0, <1>4 DEF CommitRow, TypeOK, Logged, Executed, Returned
<1>5. ASSUME NEW c \in Cmd, PutCmd(c) PROVE Returned'
  BY <1>0, <1>5 DEF PutCmd, TypeOK, Logged, Executed, Returned
<1>6. ASSUME NEW c \in Cmd, Execute(c) PROVE Returned'
  BY <1>0, <1>6 DEF Execute, TypeOK, Logged, Executed, Returned
<1>7. ASSUME NEW c \in Cmd, SendResult(c) PROVE Returned'
  <2>1. /\ job[c] \in Outcome /\ outcome[c] = job[c] /\ row[c] = "pending"
        /\ \A m \in results : m.cmd # c
    BY <1>0, <1>7 DEF SendResult, TypeOK, Logged, Executed, Returned
  <2>2. /\ results' \subseteq results \cup {[cmd |-> c, successful |-> job[c]]}
        /\ job' = [job EXCEPT ![c] = "gone"]
        /\ UNCHANGED <<row, outcome, execs>>
    BY <1>7 DEF SendResult
  <2>3. \A m \in results' : job'[m.cmd] = "gone" /\ outcome[m.cmd] = m.successful
                             /\ row[m.cmd] = "pending"
    BY <1>0, <2>1, <2>2 DEF TypeOK, Returned
  <2> QED BY <1>0, <2>2, <2>3 DEF Returned
<1>8. ASSUME NEW s \in Stream, Recv(s) PROVE Returned'
  <2> DEFINE h == Head(wire[s])
  <2>1. h \in Cmd /\ op[h] = "put" /\ execs[h] = 0
    <3>1. h \in Cmd /\ h \in Elems(wire[s])
      BY <1>0, <1>8, TailElems DEF Recv, TypeOK
    <3> QED BY <1>0, <3>1 DEF UnderWay, Travels
  <2>2. /\ job' = [job EXCEPT ![h] = "running"] /\ execs' = [execs EXCEPT ![h] = @ + 1]
        /\ UNCHANGED <<op, row, outcome, results>>
    BY <1>8 DEF Recv
  <2> HIDE DEF h
  <2> QED BY <1>0, <2>1, <2>2 DEF TypeOK, Logged, Executed, Returned
<1>9. ASSUME NEW m \in results, ReturnCmdResult(m) PROVE Returned'
  <2>1. \A n \in results \ {m} : n.cmd # m.cmd
    <3>1. ASSUME NEW n \in results, n.cmd = m.cmd PROVE n = m
      <4>1. n.successful = m.successful
        BY <1>0, <3>1 DEF Returned
      <4>2. /\ m \in [cmd : Cmd, successful : {"ok", "fail"}]
            /\ n \in [cmd : Cmd, successful : {"ok", "fail"}]
        BY <1>0 DEF TypeOK
      <4> QED BY <3>1, <4>1, <4>2
    <3> QED BY <3>1
  <2>2. /\ m.cmd \in Cmd /\ row[m.cmd] = "pending" /\ m.successful \in Outcome
        /\ outcome[m.cmd] = m.successful /\ execs[m.cmd] = 1
    BY <1>0 DEF TypeOK, Returned, Executed
  <2>3. /\ row' = [row EXCEPT ![m.cmd] = m.successful] \/ row' = row
        /\ results' = results \ {m} /\ UNCHANGED <<job, outcome, execs>>
    BY <1>9, <2>2 DEF ReturnCmdResult
  <2>4. row \in [Cmd -> {"none", "pending"} \cup Outcome] /\ \A n \in results : n.cmd \in Cmd
    BY <1>0 DEF TypeOK
  <2>5. CASE row' = row
    <3>1. UNCHANGED <<row, job, outcome, execs>> /\ results' \subseteq results
      BY <2>3, <2>5
    <3> QED BY <1>0, <3>1, Zenon DEF Returned
  <2>6. CASE row' = [row EXCEPT ![m.cmd] = m.successful]
    BY <1>0, <2>1, <2>2, <2>3, <2>4, <2>6 DEF Returned
  <2> QED BY <2>3, <2>5, <2>6
<1>10. ASSUME NEW m \in results, LoseResult(m) PROVE Returned'
  BY <1>0, <1>10 DEF LoseResult, TypeOK, Logged, Executed, Returned
<1>11. ASSUME AgentCrash PROVE Returned'
  BY <1>0, <1>11 DEF AgentCrash, TypeOK, Logged, Executed, Returned
<1>12. ASSUME ServerRestart PROVE Returned'
  BY <1>0, <1>12 DEF ServerRestart, TypeOK, Logged, Executed, Returned
<1> QED
  BY <1>1, <1>2, <1>3, <1>4, <1>5, <1>6, <1>7, <1>8, <1>9, <1>10, <1>11, <1>12, Progress

-----------------------------------------------------------------------------
(* Generators and receivers.                                               *)

\* A generator that dropped a command never returns to the loop (GenSend).
LEMMA StealingStep == IInv /\ [Next]_vars => Stealing'
<1> SUFFICES ASSUME IInv, [Next]_vars PROVE Stealing'
  OBVIOUS
<1> USE DEF viewVars, agentVars, genVars, netVars
<1>0. TypeOK /\ Stealing
  BY DEF IInv
<1>1. CASE UNCHANGED <<stole, gen, rcv>>
  BY <1>0, <1>1 DEF Stealing
<1>2. ASSUME NEW s \in Stream, RequestCmd(s) \/ GenLoop(s) \/ GenGet(s) \/ GenTimeout(s)
                               \/ GenOffline(s) \/ GenDbOffline(s)
      PROVE  Stealing'
  <2>1. /\ rcv' = rcv /\ stole' = stole
        /\ \A t \in Stream \ {s} : gen'[t] = gen[t]
        /\ rcv[s] # "none" \/ gen[s] # "unused"
        /\ gen[s] \in {"finally", "dboffline", "closed"}
             => gen'[s] \in {"finally", "dboffline", "closed"}
    <3>1. CASE RequestCmd(s) \/ GenLoop(s)
      BY <1>0, <3>1 DEF TypeOK, RequestCmd, GenLoop
    <3>2. CASE GenGet(s) \/ GenTimeout(s)
      BY <1>0, <3>2 DEF TypeOK, GenGet, GenTimeout
    <3>3. CASE GenOffline(s) \/ GenDbOffline(s)
      BY <1>0, <3>3 DEF TypeOK, GenOffline, GenDbOffline
    <3> QED BY <1>2, <3>1, <3>2, <3>3
  <2> QED BY <1>0, <2>1 DEF Stealing
<1>3. ASSUME NEW s \in Stream, GenSend(s) PROVE Stealing'
  <2>1. /\ stole[s] = {} /\ rcv[s] # "none" /\ rcv' = rcv
        /\ \A t \in Stream \ {s} : gen'[t] = gen[t]
    BY <1>0, <1>3 DEF Stealing, TypeOK, GenSend
  <2>2. CASE srvUp[s]
    BY <1>0, <1>3, <2>1, <2>2 DEF Stealing, GenSend
  <2>3. CASE ~srvUp[s]
    <3>1. /\ stole' = [stole EXCEPT ![s] = stole[s] \cup ({hold[s]} \cap Cmd)]
          /\ gen' = [gen EXCEPT ![s] = "finally"]
      BY <1>3, <2>3, Zenon DEF GenSend
    <3>2. /\ stole'[s] = {hold[s]} \cap Cmd /\ gen'[s] = "finally"
          /\ \A t \in Stream \ {s} : stole'[t] = stole[t]
      BY <1>0, <2>1, <3>1 DEF TypeOK
    <3> QED BY <1>0, <2>1, <3>2 DEF Stealing
  <2> QED BY <2>2, <2>3
<1>4. ASSUME NEW s \in Stream, OpenStream(s) \/ Recv(s) \/ RecvErr(s) PROVE Stealing'
  BY <1>0, <1>4 DEF Stealing, TypeOK, OpenStream, Recv, RecvErr
<1>5. ASSUME ReportFail \/ AgentCrash \/ ServerRestart PROVE Stealing'
  BY <1>0, <1>5 DEF Stealing, TypeOK, ReportFail, AgentCrash, ServerRestart
<1>6. \/ UNCHANGED <<stole, gen, rcv>>
      \/ \E s \in Stream : \/ RequestCmd(s) \/ GenLoop(s) \/ GenGet(s) \/ GenTimeout(s)
                            \/ GenOffline(s) \/ GenDbOffline(s) \/ GenSend(s)
                            \/ OpenStream(s) \/ Recv(s) \/ RecvErr(s)
      \/ ReportFail \/ AgentCrash \/ ServerRestart
  BY DEF Next, OperatorStep, GenStep, AgentStep, StreamStep, JobStep, Fault, vars,
         statusVars, ApiCheck, LegacyCheck, CommitRow, PutCmd, AgentStart, RegisterDb,
         RegisterMem, ReportMem, ReportDb, Execute, SendResult, ReturnCmdResult,
         LoseResult, NetBreak, ServerNotices
<1> QED BY <1>1, <1>2, <1>3, <1>4, <1>5, <1>6

\* The agent opens a stream only when no receiver is live (ReportFail).
LEMMA ReceivingStep == IInv /\ [Next]_vars => Receiving'
<1> SUFFICES ASSUME IInv, [Next]_vars PROVE Receiving'
  OBVIOUS
<1> USE DEF viewVars, agentVars, genVars, netVars
<1>0. TypeOK /\ Receiving
  BY DEF IInv
<1>1. CASE UNCHANGED <<phase, rcv>>
  BY <1>0, <1>1 DEF Receiving
<1>2. ASSUME NEW s \in Stream, OpenStream(s) \/ Recv(s) \/ RecvErr(s) PROVE Receiving'
  BY <1>0, <1>2 DEF Receiving, TypeOK, OpenStream, Recv, RecvErr
<1>3. ASSUME AgentStart \/ RegisterMem \/ ReportFail \/ AgentCrash PROVE Receiving'
  BY <1>0, <1>3 DEF Receiving, TypeOK, AgentStart, RegisterMem, ReportFail, AgentCrash
<1>4. \/ UNCHANGED <<phase, rcv>>
      \/ \E s \in Stream : OpenStream(s) \/ Recv(s) \/ RecvErr(s)
      \/ AgentStart \/ RegisterMem \/ ReportFail \/ AgentCrash
  BY DEF Next, OperatorStep, GenStep, AgentStep, StreamStep, JobStep, Fault, vars,
         statusVars, ApiCheck, LegacyCheck, CommitRow, PutCmd, RequestCmd, GenLoop,
         GenGet, GenTimeout, GenSend, GenOffline, GenDbOffline, RegisterDb, ReportMem,
         ReportDb, Execute, SendResult, ReturnCmdResult, LoseResult, NetBreak,
         ServerNotices, ServerRestart
<1> QED BY <1>1, <1>2, <1>3, <1>4

-----------------------------------------------------------------------------
(* The theorems.                                                           *)

\* The invariant holds before anything has been asked of the agent.
LEMMA InitIInv == Init => IInv
<1> SUFFICES ASSUME Init PROVE IInv
  OBVIOUS
<1> USE ChannelAssumption, EmptyElems DEF Init
<1>1. TypeOK
  <2>1. <<>> \in Seq(Cmd)
    OBVIOUS
  <2>2. /\ wire \in [Stream -> Seq(Cmd)] /\ queue \in Seq(Cmd)
        /\ gen \in [Stream -> GenState] /\ rcv \in [Stream -> RcvState]
    BY <2>1 DEF GenState, RcvState
  <2>3. /\ op \in [Cmd -> OpState] /\ job \in [Cmd -> JobState] /\ phase \in Phase
        /\ row \in [Cmd -> {"none", "pending"} \cup Outcome]
        /\ outcome \in [Cmd -> {"none"} \cup Outcome]
    BY DEF OpState, JobState, Phase, Outcome
  <2>4. /\ hold \in [Stream -> Cmd \cup {Beat, NoCmd}]
        /\ srvUp \in [Stream -> BOOLEAN] /\ net \in [Stream -> BOOLEAN]
        /\ ctx \in [Cmd -> Stream \cup {NoStream}]
        /\ execs \in [Cmd -> Nat] /\ stole \in [Stream -> SUBSET Cmd]
        /\ faults \in 0..MaxFaults /\ results = {}
    OBVIOUS
  <2> QED BY <2>2, <2>3, <2>4 DEF TypeOK
<1>2. OnePlace
  BY DEF OnePlace
<1>3. UnderWay
  BY DEF UnderWay, Travels
<1>4. Logged /\ Executed /\ Returned
  BY DEF Logged, Executed, Returned, Outcome
<1>5. Stealing /\ Receiving
  BY DEF Stealing, Receiving
<1> QED BY <1>1, <1>2, <1>3, <1>4, <1>5 DEF IInv

\* Whatever the streams, restarts and lost calls, IInv holds in every state.
THEOREM Invariance == Spec => []IInv
<1>1. IInv /\ [Next]_vars => IInv'
  <2> SUFFICES ASSUME IInv, [Next]_vars PROVE IInv'
    OBVIOUS
  <2>1. TypeOK'
    BY TypeStep DEF IInv
  <2> QED
    BY <2>1, OnePlaceStep, UnderWayStep, LoggedStep, ExecutedStep, ReturnedStep,
       StealingStep, ReceivingStep DEF IInv
<1> QED BY <1>1, InitIInv, PTL DEF Spec

\* The variables of the channel keep their types.
THEOREM TypeCorrect == Spec => []TypeOK
  BY Invariance, PTL DEF IInv

\* No interleaving of streams, reconnects and restarts makes the agent start a
\* command twice (receiveCmds, doCmd).
THEOREM StartedOnce == Spec => []AtMostOnce
<1>1. IInv => AtMostOnce
  <2>1. \A n \in {0, 1} : n <= 1
    OBVIOUS
  <2> QED BY <2>1, Zenon DEF IInv, Executed, AtMostOnce
<1> QED BY <1>1, Invariance, PTL

\* An AgentControlLog row never tells of an outcome the agent did not have.
THEOREM TruthfulLog == Spec => []RowTellsTheTruth
<1>1. IInv => RowTellsTheTruth
  BY DEF IInv, Returned, RowTellsTheTruth, Recorded
<1> QED BY <1>1, Invariance, PTL

\* Wherever a command is on its way, its row exists.
THEOREM RowComesFirst == Spec => []LoggedBeforeQueued
<1>1. IInv => LoggedBeforeQueued
  <2> SUFFICES ASSUME IInv, NEW c \in Cmd, Travels(c) \/ execs[c] > 0
               PROVE  row[c] # "none"
    BY DEF LoggedBeforeQueued
  <2>1. op[c] = "put"
    BY DEF IInv, UnderWay, Logged
  <2> QED BY <2>1 DEF IInv, Logged
<1> QED BY <1>1, Invariance, PTL

\* A dead stream swallows at most one command popped after its death.
THEOREM OneStolenCommand == Spec => []DeadStreamTakesOne
<1>1. IInv => DeadStreamTakesOne
  BY DEF IInv, Stealing, DeadStreamTakesOne
<1> QED BY <1>1, Invariance, PTL

\* At most one receiver of the agent has a live context.
THEOREM SingleReceiver == Spec => []OneLiveReceiver
<1>1. IInv => OneLiveReceiver
  BY DEF IInv, Receiving, OneLiveReceiver
<1> QED BY <1>1, Invariance, PTL

-----------------------------------------------------------------------------
(* The channel implements CommandDelivery.                                 *)

\* When one command's stage changes, RanState changes at that command.
LEMMA RanStateAt ==
    ASSUME NEW d \in Cmd, NEW v,
           RanState'[d] = v, \A c \in Cmd \ {d} : RanState'[c] = RanState[c]
    PROVE  RanState' = [RanState EXCEPT ![d] = v]
<1>1. DOMAIN RanState = Cmd /\ DOMAIN RanState' = Cmd
  BY DEF RanState
<1>2. RanState = [c \in Cmd |-> RanState[c]] /\ RanState' = [c \in Cmd |-> RanState'[c]]
  BY Zenon DEF RanState
<1> HIDE DEF RanState
<1> QED BY <1>1, <1>2

\* Every step of the channel is a step of the delivery or changes nothing it sees.
LEMMA StepRefines == IInv /\ [Next]_vars => [Delivery!Next]_<<row, RanState>>
<1> SUFFICES ASSUME IInv, [Next]_vars
             PROVE  Delivery!Next \/ UNCHANGED <<row, RanState>>
  OBVIOUS
<1> USE DEF viewVars, agentVars, genVars, netVars
<1>0. TypeOK /\ UnderWay /\ Logged /\ Executed /\ Returned
  BY DEF IInv
<1>1. CASE UNCHANGED <<row, execs, outcome>>
  BY <1>1 DEF RanState
<1>2. ASSUME NEW c \in Cmd, CommitRow(c), row' # row PROVE Delivery!Accept(c)
  <2>1. row[c] = "none" /\ row' = [row EXCEPT ![c] = "pending"]
    BY <1>0, <1>2 DEF CommitRow, Logged
  <2>2. RanState' = RanState
    BY <1>2 DEF CommitRow, RanState
  <2> QED BY <2>1, <2>2 DEF Delivery!Accept
<1>3. ASSUME NEW s \in Stream, Recv(s) PROVE Delivery!Start(Head(wire[s])) /\ Head(wire[s]) \in Cmd
  <2> DEFINE h == Head(wire[s])
  <2>1. h \in Cmd /\ h \in Elems(wire[s])
    BY <1>0, <1>3, TailElems DEF Recv, TypeOK
  <2>2. op[h] = "put" /\ execs[h] = 0
    BY <1>0, <2>1 DEF UnderWay, Travels
  <2>3. execs' = [execs EXCEPT ![h] = @ + 1] /\ UNCHANGED <<row, outcome>>
    BY <1>3 DEF Recv
  <2> HIDE DEF h
  <2>4. row[h] = "pending" /\ outcome[h] = "none"
    BY <1>0, <2>1, <2>2 DEF TypeOK, Logged, Executed
  <2>5. execs'[h] = 1 /\ \A c \in Cmd \ {h} : execs'[c] = execs[c]
    BY <1>0, <2>1, <2>2, <2>3 DEF TypeOK
  <2>6. RanState[h] = "no" /\ RanState' = [RanState EXCEPT ![h] = "started"]
    <3>1. RanState[h] = "no" /\ RanState'[h] = "started"
      BY <2>1, <2>2, <2>3, <2>4, <2>5 DEF RanState
    <3>2. \A c \in Cmd \ {h} : RanState'[c] = RanState[c]
      BY <2>3, <2>5 DEF RanState
    <3> QED BY <2>1, <3>1, <3>2, RanStateAt
  <2>7. Delivery!Start(h)
    BY <2>3, <2>4, <2>6 DEF Delivery!Start
  <2> QED BY <2>1, <2>7 DEF h
<1>4. ASSUME NEW c \in Cmd, Execute(c) PROVE Delivery!Finish(c)
  <2>1. PICK r \in Outcome : outcome' = [outcome EXCEPT ![c] = r]
    BY <1>4 DEF Execute
  <2>2. execs[c] = 1 /\ outcome[c] = "none" /\ UNCHANGED <<row, execs>>
    BY <1>0, <1>4 DEF Execute, Executed
  <2>3. /\ outcome'[c] = r /\ r # "none"
        /\ \A d \in Cmd \ {c} : outcome'[d] = outcome[d]
    BY <1>0, <2>1 DEF TypeOK, Outcome
  <2>4. RanState[c] = "started" /\ RanState' = [RanState EXCEPT ![c] = r]
    <3>1. RanState[c] = "started" /\ RanState'[c] = r
      BY <2>2, <2>3 DEF RanState
    <3>2. \A d \in Cmd \ {c} : RanState'[d] = RanState[d]
      BY <2>2, <2>3 DEF RanState
    <3> QED BY <3>1, <3>2, RanStateAt
  <2> QED BY <2>2, <2>4 DEF Delivery!Finish, Delivery!Outcome, Outcome
<1>5. ASSUME NEW m \in results, ReturnCmdResult(m), row' # row
      PROVE  Delivery!Record(m.cmd) /\ m.cmd \in Cmd
  <2>1. /\ m.cmd \in Cmd /\ m.successful \in Outcome
        /\ row[m.cmd] = "pending" /\ outcome[m.cmd] = m.successful
    BY <1>0 DEF TypeOK, Returned
  <2>2. row' = [row EXCEPT ![m.cmd] = m.successful] /\ UNCHANGED <<execs, outcome>>
    BY <1>5, <2>1 DEF ReturnCmdResult
  <2>3. RanState[m.cmd] = m.successful /\ RanState' = RanState
    BY <2>1, <2>2 DEF RanState, Outcome
  <2> QED BY <2>1, <2>2, <2>3 DEF Delivery!Record, Delivery!Outcome, Outcome
<1>6. \/ UNCHANGED <<row, execs, outcome>>
      \/ \E c \in Cmd : CommitRow(c) /\ row' # row
      \/ \E c \in Cmd : Execute(c)
      \/ \E s \in Stream : Recv(s)
      \/ \E m \in results : ReturnCmdResult(m) /\ row' # row
  BY Progress DEF ApiCheck, LegacyCheck, CommitRow, PutCmd, SendResult,
                  ReturnCmdResult, LoseResult, AgentCrash, ServerRestart
<1> QED BY <1>1, <1>2, <1>3, <1>4, <1>5, <1>6 DEF Delivery!Next

\* An operator reading AgentControlLog sees the abstract delivery: each command
\* logged, started at most once, and its outcome recorded at most once.
THEOREM ImplementsDelivery == Spec => DeliverySpec
<1>1. Init => Delivery!Init
  BY DEF Init, Delivery!Init, RanState
<1>2. IInv /\ [Next]_vars => [Delivery!Next]_(Delivery!vars)
  BY StepRefines DEF Delivery!vars
<1> QED BY <1>1, <1>2, Invariance, PTL DEF Spec, DeliverySpec, Delivery!Spec
=============================================================================
