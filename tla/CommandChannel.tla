--------------------------- MODULE CommandChannel ---------------------------
(***************************************************************************)
(* The command channel between systemwire2 (Flask views and the gRPC       *)
(* agent server, one process) and one agent-go process.                    *)
(*                                                                         *)
(* An operator's request commits an AgentControlLog row and then puts the  *)
(* command on the agent's in-memory queue.  Every RequestCmd stream of the *)
(* agent is served by a generator that pops this ONE queue, so a generator *)
(* whose stream has died competes with its successor.  The agent executes  *)
(* each received command in a goroutine and returns the result once, with  *)
(* a context that dies with the stream's receiver.  Streams break, results *)
(* get lost, either process restarts.                                      *)
(*                                                                         *)
(* Entries of agent_list and commond_queue are independent per agent, so   *)
(* one agent is enough here; the gRPC worker pool all agents share is not  *)
(* modelled (a handler may start late, at any time).  Heartbeat commands   *)
(* (id 0) are modelled at the server, where they end dead generators; the  *)
(* agent does nothing for them and ReturnCmdResult ignores id 0.           *)
(***************************************************************************)
EXTENDS Naturals, Sequences

CONSTANTS Cmd,        \* the commands operators may issue (operate_id values)
          Stream,     \* RequestCmd calls the agent may open (bounds reconnects)
          MaxFaults,  \* bound on breaks, lost results, failed reports, restarts
          Beat,       \* the heartbeat command, id 0
          NoCmd,      \* a generator that holds nothing
          NoStream    \* agent.task_stream before the first RequestCmd

ASSUME ChannelAssumption ==
    /\ MaxFaults \in Nat
    /\ Beat \notin Cmd /\ NoCmd \notin Cmd /\ Beat # NoCmd
    /\ NoStream \notin Stream

VARIABLES
    \* management server, volatile
    status,      \* agent_list[agent].status
    queueReady,  \* the agent has an entry in commond_queue
    queue,       \* that entry: commands put and not yet popped
    taskStream,  \* agent.task_stream: the newest RequestCmd context
    gen,         \* where the generator of each stream is
    hold,        \* the command a generator has popped and not yet sent
    srvUp,       \* context.is_active(): the server believes the stream lives
    rpc,         \* the agent's unary status call the server is inside
    op,          \* where the operator's request for each command is
    \* management server, persistent
    dbStatus,    \* ClientInfo.status
    row,         \* AgentControlLog.success: none, pending (NULL), ok, fail
    \* network
    net,         \* the transport of a stream carries data
    wire,        \* commands sent on a stream and not yet received
    results,     \* ReturnCmdResult calls in flight
    \* agent
    phase,       \* the main loop of Agent.Start
    rcv,         \* the receiveCmds goroutine of each stream
    job,         \* the doCmd goroutine of each command
    ctx,         \* the stream whose receiver started that goroutine
    \* history and bound
    execs,       \* how often doCmd was started for each command
    outcome,     \* what the last execution ended with
    stole,       \* commands a generator popped and dropped on a dead stream
    faults       \* faults so far

viewVars   == <<op, row>>
genVars    == <<queue, taskStream, gen, hold, srvUp, stole>>
statusVars == <<status, dbStatus, rpc>>
agentVars  == <<phase, rcv, job, ctx, execs, outcome>>
netVars    == <<net, wire>>
vars == <<viewVars, genVars, statusVars, agentVars, netVars, queueReady,
          results, faults>>

Outcome == {"ok", "fail"}
Phase   == {"down", "registering", "registered", "serving"}
OpState == {"idle", "checked", "committed", "put", "dropped"}
GenState == {"unused", "loop", "waiting", "yield", "finally", "dboffline", "closed"}
RcvState == {"none", "on", "cancelled", "done"}
JobState == {"none", "running", "ok", "fail", "gone"}

Elems(s) == {s[i] : i \in DOMAIN s}
OneFault == faults < MaxFaults /\ faults' = faults + 1

\* The AgentControlLog row as ReturnCmdResult leaves it.
Recorded(c) == row[c] \in Outcome

TypeOK ==
    /\ status \in {"online", "offline"} /\ dbStatus \in {"online", "offline"}
    /\ queueReady \in BOOLEAN
    /\ queue \in Seq(Cmd)
    /\ taskStream \in Stream \cup {NoStream}
    /\ gen \in [Stream -> GenState]
    /\ hold \in [Stream -> Cmd \cup {Beat, NoCmd}]
    /\ srvUp \in [Stream -> BOOLEAN]
    /\ rpc \in {"idle", "register", "report"}
    /\ op \in [Cmd -> OpState]
    /\ row \in [Cmd -> {"none", "pending"} \cup Outcome]
    /\ net \in [Stream -> BOOLEAN]
    /\ wire \in [Stream -> Seq(Cmd)]
    /\ results \subseteq [cmd : Cmd, successful : Outcome]
    /\ phase \in Phase
    /\ rcv \in [Stream -> RcvState]
    /\ job \in [Cmd -> JobState]
    /\ ctx \in [Cmd -> Stream \cup {NoStream}]
    /\ execs \in [Cmd -> Nat]
    /\ outcome \in [Cmd -> {"none"} \cup Outcome]
    /\ stole \in [Stream -> SUBSET Cmd]
    /\ faults \in 0..MaxFaults

Init ==
    /\ status = "offline" /\ dbStatus = "offline" /\ rpc = "idle"
    /\ queueReady = FALSE /\ queue = <<>> /\ taskStream = NoStream
    /\ gen = [s \in Stream |-> "unused"]
    /\ hold = [s \in Stream |-> NoCmd]
    /\ srvUp = [s \in Stream |-> FALSE]
    /\ op = [c \in Cmd |-> "idle"] /\ row = [c \in Cmd |-> "none"]
    /\ net = [s \in Stream |-> FALSE] /\ wire = [s \in Stream |-> <<>>]
    /\ results = {}
    /\ phase = "registering"
    /\ rcv = [s \in Stream |-> "none"]
    /\ job = [c \in Cmd |-> "none"] /\ ctx = [c \in Cmd |-> NoStream]
    /\ execs = [c \in Cmd |-> 0] /\ outcome = [c \in Cmd |-> "none"]
    /\ stole = [s \in Stream |-> {}]
    /\ faults = 0

-----------------------------------------------------------------------------
(* The operators' requests: three steps a restart or a reconnect can split. *)

\* api_agent_command and _queue_agent_cmd look at the status and the queue.
ApiCheck(c) ==
    /\ op[c] = "idle"
    /\ status = "online" /\ queueReady
    /\ op' = [op EXCEPT ![c] = "checked"]
    /\ UNCHANGED <<row, genVars, statusVars, agentVars, netVars, queueReady,
                   results, faults>>

\* agent_command, the older endpoint, does not look at the status.
LegacyCheck(c) ==
    /\ op[c] = "idle"
    /\ queueReady
    /\ op' = [op EXCEPT ![c] = "checked"]
    /\ UNCHANGED <<row, genVars, statusVars, agentVars, netVars, queueReady,
                   results, faults>>

\* db.session.commit() of the row, or its failure: nothing is queued then.
CommitRow(c) ==
    /\ op[c] = "checked"
    /\ \/ /\ op' = [op EXCEPT ![c] = "committed"]
          /\ row' = [row EXCEPT ![c] = "pending"]
       \/ /\ op' = [op EXCEPT ![c] = "dropped"]
          /\ UNCHANGED row
    /\ UNCHANGED <<genVars, statusVars, agentVars, netVars, queueReady,
                   results, faults>>

\* queue.put(cmd_message)
PutCmd(c) ==
    /\ op[c] = "committed"
    /\ op' = [op EXCEPT ![c] = "put"]
    /\ queue' = Append(queue, c)
    /\ UNCHANGED <<row, taskStream, gen, hold, srvUp, stole, statusVars,
                   agentVars, netVars, queueReady, results, faults>>

-----------------------------------------------------------------------------
(* RequestCmd: one generator per stream, all of them on the same queue.     *)

\* The handler starts; it may start after its stream has already broken.
RequestCmd(s) ==
    /\ rcv[s] # "none" /\ gen[s] = "unused"
    /\ gen' = [gen EXCEPT ![s] = "loop"]
    /\ srvUp' = [srvUp EXCEPT ![s] = TRUE]
    /\ taskStream' = s
    /\ status' = "online"
    /\ queueReady' = TRUE
    /\ UNCHANGED <<viewVars, queue, hold, stole, dbStatus, rpc, agentVars,
                   netVars, results, faults>>

\* while agent.task_stream.is_active(): the test reads the NEWEST context.
\* grpc abandons the generator instead when its own stream is inactive.
GenLoop(s) ==
    /\ gen[s] = "loop"
    /\ \/ /\ srvUp[taskStream]
          /\ gen' = [gen EXCEPT ![s] = "waiting"]
       \/ /\ ~srvUp[taskStream] \/ ~srvUp[s]
          /\ gen' = [gen EXCEPT ![s] = "finally"]
    /\ UNCHANGED <<viewVars, queue, taskStream, hold, srvUp, stole, statusVars,
                   agentVars, netVars, queueReady, results, faults>>

\* Deviation: the generator reads the head of the queue and leaves it there.
GenPeek(s) ==
    /\ gen[s] = "waiting" /\ queue # <<>>
    /\ hold' = [hold EXCEPT ![s] = Head(queue)]
    /\ gen' = [gen EXCEPT ![s] = "yield"]
    /\ UNCHANGED <<viewVars, queue, taskStream, srvUp, stole, statusVars,
                   agentVars, netVars, queueReady, results, faults>>

\* queue.get(timeout=20) returns a command.
GenGet(s) ==
    /\ gen[s] = "waiting" /\ queue # <<>>
    /\ hold' = [hold EXCEPT ![s] = Head(queue)]
    /\ queue' = Tail(queue)
    /\ gen' = [gen EXCEPT ![s] = "yield"]
    /\ UNCHANGED <<viewVars, taskStream, srvUp, stole, statusVars, agentVars,
                   netVars, queueReady, results, faults>>

\* except Empty: a heartbeat is yielded instead.
GenTimeout(s) ==
    /\ gen[s] = "waiting" /\ queue = <<>>
    /\ hold' = [hold EXCEPT ![s] = Beat]
    /\ gen' = [gen EXCEPT ![s] = "yield"]
    /\ UNCHANGED <<viewVars, queue, taskStream, srvUp, stole, statusVars,
                   agentVars, netVars, queueReady, results, faults>>

\* Deviation: heartbeats are sent as commands with an id of their own.
GenSendBeats(s) ==
    /\ gen[s] = "yield" /\ srvUp[s] /\ net[s]
    /\ hold' = [hold EXCEPT ![s] = NoCmd]
    /\ gen' = [gen EXCEPT ![s] = "loop"]
    /\ wire' = [wire EXCEPT ![s] = Append(@, hold[s])]
    /\ UNCHANGED <<viewVars, queue, taskStream, srvUp, stole, statusVars,
                   agentVars, net, queueReady, results, faults>>

\* yield cmd_message: grpc sends it, into the void when the transport is gone,
\* or drops it and abandons the generator when it knows the stream is dead.
GenSend(s) ==
    /\ gen[s] = "yield"
    /\ hold' = [hold EXCEPT ![s] = NoCmd]
    /\ \/ /\ srvUp[s]
          /\ gen' = [gen EXCEPT ![s] = "loop"]
          /\ wire' = IF hold[s] \in Cmd /\ net[s]
                     THEN [wire EXCEPT ![s] = Append(@, hold[s])] ELSE wire
          /\ UNCHANGED stole
       \/ /\ ~srvUp[s]
          /\ gen' = [gen EXCEPT ![s] = "finally"]
          /\ stole' = [stole EXCEPT ![s] = @ \cup ({hold[s]} \cap Cmd)]
          /\ UNCHANGED wire
    /\ UNCHANGED <<viewVars, queue, taskStream, srvUp, statusVars, agentVars,
                   net, queueReady, results, faults>>

\* finally: the status in memory first ...
GenOffline(s) ==
    /\ gen[s] = "finally"
    /\ status' = "offline"
    /\ gen' = [gen EXCEPT ![s] = "dboffline"]
    /\ UNCHANGED <<viewVars, queue, taskStream, hold, srvUp, stole, dbStatus,
                   rpc, agentVars, netVars, queueReady, results, faults>>

\* ... then the one in the database, and the call is over.
GenDbOffline(s) ==
    /\ gen[s] = "dboffline"
    /\ dbStatus' = "offline"
    /\ gen' = [gen EXCEPT ![s] = "closed"]
    /\ srvUp' = [srvUp EXCEPT ![s] = FALSE]
    /\ UNCHANGED <<viewVars, queue, taskStream, hold, stole, status, rpc,
                   agentVars, netVars, queueReady, results, faults>>

-----------------------------------------------------------------------------
(* The agent's main loop and its unary calls.                              *)

\* systemd restarts a process that ended (sysagent.service, Restart=always).
AgentStart ==
    /\ phase = "down" /\ rpc = "idle"
    /\ phase' = "registering"
    /\ UNCHANGED <<viewVars, genVars, statusVars, rcv, job, ctx, execs, outcome,
                   netVars, queueReady, results, faults>>

\* RegisterHost commits ClientInfo first ...
RegisterDb ==
    /\ phase = "registering" /\ rpc = "idle"
    /\ rpc' = "register"
    /\ dbStatus' = "online"
    /\ UNCHANGED <<viewVars, genVars, status, agentVars, netVars, queueReady,
                   results, faults>>

\* ... then sets the runtime agent and answers; without the answer
\* registerHost tries again after ten seconds.
RegisterMem ==
    /\ rpc = "register"
    /\ rpc' = "idle"
    /\ status' = "online"
    /\ \/ /\ phase' = IF phase = "registering" THEN "registered" ELSE phase
          /\ UNCHANGED faults
       \/ OneFault /\ UNCHANGED phase
    /\ UNCHANGED <<viewVars, genVars, dbStatus, rcv, job, ctx, execs, outcome,
                   netVars, queueReady, results>>

\* RequestCmd on the client: the stream exists, receiveCmds starts.
OpenStream(s) ==
    /\ phase = "registered" /\ rcv[s] = "none"
    /\ phase' = "serving"
    /\ rcv' = [rcv EXCEPT ![s] = "on"]
    /\ net' = [net EXCEPT ![s] = TRUE]
    /\ UNCHANGED <<viewVars, genVars, statusVars, job, ctx, execs, outcome,
                   wire, queueReady, results, faults>>

\* Deviation: a report refreshes the database row only.
ReportLeavesMem ==
    /\ phase = "serving" /\ rpc = "idle"
    /\ rpc' = "report"
    /\ UNCHANGED <<viewVars, genVars, status, dbStatus, agentVars, netVars,
                   queueReady, results, faults>>

\* ReprotState: memory first ...
ReportMem ==
    /\ phase = "serving" /\ rpc = "idle"
    /\ rpc' = "report"
    /\ status' = "online"
    /\ UNCHANGED <<viewVars, genVars, dbStatus, agentVars, netVars, queueReady,
                   results, faults>>

\* ... then the database.
ReportDb ==
    /\ rpc = "report"
    /\ rpc' = "idle"
    /\ dbStatus' = "online"
    /\ UNCHANGED <<viewVars, genVars, status, agentVars, netVars, queueReady,
                   results, faults>>

\* Deviation: the reconnect forgets to cancel the old context.
ReportFailKeepsContext ==
    /\ phase = "serving" /\ OneFault
    /\ phase' = "registering"
    /\ UNCHANGED <<viewVars, genVars, statusVars, rcv, job, ctx, execs, outcome,
                   netVars, queueReady, results>>

\* A report fails: the context of the receiver is cancelled and the loop
\* starts over.  This is the only way back: a receiver that ends by itself
\* (RecvErr) opens no new stream.
ReportFail ==
    /\ phase = "serving" /\ OneFault
    /\ phase' = "registering"
    /\ rcv' = [s \in Stream |-> IF rcv[s] = "on" THEN "cancelled" ELSE rcv[s]]
    /\ net' = [s \in Stream |-> net[s] /\ rcv[s] # "on"]
    /\ UNCHANGED <<viewVars, genVars, statusVars, job, ctx, execs, outcome,
                   wire, queueReady, results>>

\* The process ends: Fatalf on a failed stream or monitor, a crash, a signal.
AgentCrash ==
    /\ phase # "down" /\ OneFault
    /\ phase' = "down"
    /\ rcv' = [s \in Stream |-> IF rcv[s] = "none" THEN "none" ELSE "done"]
    /\ net' = [s \in Stream |-> FALSE]
    /\ wire' = [s \in Stream |-> <<>>]
    /\ job' = [c \in Cmd |-> IF job[c] = "none" THEN "none" ELSE "gone"]
    /\ UNCHANGED <<viewVars, genVars, statusVars, ctx, execs, outcome,
                   queueReady, results>>

-----------------------------------------------------------------------------
(* receiveCmds and doCmd.                                                  *)

\* Recv returns a command, doCmd starts in a goroutine.  A receiver that was
\* blocked in Recv when its context was cancelled may still return one.
Recv(s) ==
    /\ rcv[s] \in {"on", "cancelled"} /\ wire[s] # <<>>
    /\ LET c == Head(wire[s]) IN
         /\ job' = [job EXCEPT ![c] = "running"]
         /\ ctx' = [ctx EXCEPT ![c] = s]
         /\ execs' = [execs EXCEPT ![c] = @ + 1]
    /\ wire' = [wire EXCEPT ![s] = Tail(@)]
    /\ rcv' = [rcv EXCEPT ![s] = IF @ = "cancelled" THEN "done" ELSE @]
    /\ UNCHANGED <<viewVars, genVars, statusVars, phase, outcome, net,
                   queueReady, results, faults>>

\* Recv returns an error (or the end of the stream): the receiver ends, its
\* deferred cancel ends subCtx, and what was still buffered is gone.
RecvErr(s) ==
    /\ \/ rcv[s] = "cancelled"
       \/ rcv[s] = "on" /\ ~net[s]
       \/ rcv[s] = "on" /\ gen[s] = "closed" /\ wire[s] = <<>>
    /\ rcv' = [rcv EXCEPT ![s] = "done"]
    /\ net' = [net EXCEPT ![s] = FALSE]
    /\ wire' = [wire EXCEPT ![s] = <<>>]
    /\ UNCHANGED <<viewVars, genVars, statusVars, phase, job, ctx, execs,
                   outcome, queueReady, results, faults>>

\* The handler of the command returns, with or without an error.
Execute(c) ==
    /\ job[c] = "running"
    /\ \E r \in Outcome : /\ job' = [job EXCEPT ![c] = r]
                          /\ outcome' = [outcome EXCEPT ![c] = r]
    /\ UNCHANGED <<viewVars, genVars, statusVars, phase, rcv, ctx, execs,
                   netVars, queueReady, results, faults>>

\* Deviation: success is reported while the handler is still running.
SendResultEarly(c) ==
    /\ job[c] = "running"
    /\ results' = IF rcv[ctx[c]] = "on"
                  THEN results \cup {[cmd |-> c, successful |-> "ok"]}
                  ELSE results
    /\ UNCHANGED <<viewVars, genVars, statusVars, agentVars, netVars, queueReady,
                   faults>>

\* Deviation: doCmd reports errors only.
SendResultOnError(c) ==
    /\ job[c] \in Outcome
    /\ job' = [job EXCEPT ![c] = "gone"]
    /\ results' = IF rcv[ctx[c]] = "on" /\ job[c] = "fail"
                  THEN results \cup {[cmd |-> c, successful |-> "fail"]}
                  ELSE results
    /\ UNCHANGED <<viewVars, genVars, statusVars, phase, rcv, ctx, execs,
                   outcome, netVars, queueReady, faults>>

\* doCmd calls ReturnCmdResult once, with the receiver's context; when the
\* receiver has ended the call fails at once and is only logged.
SendResult(c) ==
    /\ job[c] \in Outcome
    /\ job' = [job EXCEPT ![c] = "gone"]
    /\ results' = IF rcv[ctx[c]] = "on"
                  THEN results \cup {[cmd |-> c, successful |-> job[c]]}
                  ELSE results
    /\ UNCHANGED <<viewVars, genVars, statusVars, phase, rcv, ctx, execs,
                   outcome, netVars, queueReady, faults>>

\* Deviation: any result marks the command as done.
ReturnCmdResultDone(m) ==
    /\ results' = results \ {m}
    /\ row' = IF row[m.cmd] = "none" THEN row ELSE [row EXCEPT ![m.cmd] = "ok"]
    /\ UNCHANGED <<op, genVars, statusVars, agentVars, netVars, queueReady,
                   faults>>

\* The handler: the row with this operate_id, if there is one, is updated.
\* PostgreSQL refuses the update when the error text does not fit into the 50
\* characters of AgentControlLog.result; the handler rolls back.
ReturnCmdResult(m) ==
    /\ results' = results \ {m}
    /\ \/ row' = IF row[m.cmd] = "none" THEN row
                 ELSE [row EXCEPT ![m.cmd] = m.successful]
       \/ m.successful = "fail" /\ UNCHANGED row
    /\ UNCHANGED <<op, genVars, statusVars, agentVars, netVars, queueReady,
                   faults>>

\* The call is lost or its commit is rolled back; doCmd does not try again.
LoseResult(m) ==
    /\ OneFault
    /\ results' = results \ {m}
    /\ UNCHANGED <<viewVars, genVars, statusVars, agentVars, netVars,
                   queueReady>>

-----------------------------------------------------------------------------
(* Failures of the transport and of the server.                            *)

NetBreak(s) ==
    /\ net[s] /\ OneFault
    /\ net' = [net EXCEPT ![s] = FALSE]
    /\ UNCHANGED <<viewVars, genVars, statusVars, agentVars, wire, queueReady,
                   results>>

\* context.is_active() turns false some time after the transport is gone.
ServerNotices(s) ==
    /\ srvUp[s] /\ ~net[s]
    /\ srvUp' = [srvUp EXCEPT ![s] = FALSE]
    /\ UNCHANGED <<viewVars, queue, taskStream, gen, hold, stole, statusVars,
                   agentVars, netVars, queueReady, results, faults>>

\* The systemwire2 process restarts: load_agent starts with offline agents and
\* no queues, requests in progress end, every transport is gone.
ServerRestart ==
    /\ OneFault
    /\ status' = "offline" /\ dbStatus' = "offline" /\ rpc' = "idle"
    /\ queueReady' = FALSE /\ queue' = <<>> /\ taskStream' = NoStream
    /\ gen' = [s \in Stream |-> IF rcv[s] = "none" THEN "unused" ELSE "closed"]
    /\ hold' = [s \in Stream |-> NoCmd]
    /\ srvUp' = [s \in Stream |-> FALSE]
    /\ op' = [c \in Cmd |-> IF op[c] \in {"checked", "committed"}
                            THEN "dropped" ELSE op[c]]
    /\ net' = [s \in Stream |-> FALSE]
    /\ results' = {}
    /\ UNCHANGED <<row, stole, agentVars, wire>>

-----------------------------------------------------------------------------

OperatorStep(c) == ApiCheck(c) \/ LegacyCheck(c) \/ CommitRow(c) \/ PutCmd(c)

GenStep(s) == \/ RequestCmd(s) \/ GenLoop(s) \/ GenGet(s) \/ GenTimeout(s)
              \/ GenSend(s) \/ GenOffline(s) \/ GenDbOffline(s)

AgentStep == AgentStart \/ RegisterDb \/ RegisterMem \/ ReportMem \/ ReportDb

StreamStep(s) == OpenStream(s) \/ Recv(s) \/ RecvErr(s) \/ ServerNotices(s)

JobStep(c) == Execute(c) \/ SendResult(c)

Fault == \/ ReportFail \/ AgentCrash \/ ServerRestart
         \/ \E s \in Stream : NetBreak(s)
         \/ \E m \in results : LoseResult(m)

Next == \/ \E c \in Cmd : OperatorStep(c) \/ JobStep(c)
        \/ \E s \in Stream : GenStep(s) \/ StreamStep(s)
        \/ \E m \in results : ReturnCmdResult(m)
        \/ AgentStep
        \/ Fault

Spec == Init /\ [][Next]_vars

-----------------------------------------------------------------------------
(* Safety.                                                                 *)

\* A command is on its way: queued, in a generator's hand, or sent.
Travels(c) == \/ c \in Elems(queue)
              \/ \E s \in Stream : c = hold[s] \/ c \in Elems(wire[s])

\* However streams break and overlap, and whatever restarts, the agent starts
\* a command at most once: the queue hands it to one generator, and nothing
\* puts it back (RequestCmd, receiveCmds).
AtMostOnce == \A c \in Cmd : execs[c] <= 1

\* A row that says how a command ended says how the agent's execution of that
\* command ended (ReturnCmdResult, doCmd).
RowTellsTheTruth == \A c \in Cmd : Recorded(c) => execs[c] = 1 /\ row[c] = outcome[c]

\* A command that has left the view, wherever it is, has its row: a result
\* always finds the row it belongs to (api_agent_command, ReturnCmdResult).
LoggedBeforeQueued ==
    \A c \in Cmd : Travels(c) \/ execs[c] > 0 => row[c] # "none"

\* A dead stream can make its successor miss one command, never two: its
\* generator ends as soon as the first yield fails (RequestCmd).
DeadStreamTakesOne == \A s \in Stream : \A c, d \in stole[s] : c = d

\* No two receivers run with a live context: after a reconnect the receiver of
\* the old stream cannot deliver results any more (Start, receiveCmds).
OneLiveReceiver == \A s, t \in Stream : rcv[s] = "on" /\ rcv[t] = "on" => s = t

\* How far the execution of a command is, as CommandDelivery sees it.
RanState == [c \in Cmd |-> IF outcome[c] # "none" THEN outcome[c]
                          ELSE IF execs[c] > 0 THEN "started" ELSE "no"]

Delivery == INSTANCE CommandDelivery WITH log <- row, ran <- RanState

\* The channel implements the abstract delivery: at most one start, and the
\* row takes exactly the outcome of it, once.
DeliverySpec == Delivery!Spec

-----------------------------------------------------------------------------
(* Liveness.  Every thread of both processes goes on; operators need not    *)
(* issue anything and faults need not happen.                               *)

Fairness ==
    /\ \A c \in Cmd : WF_vars(CommitRow(c)) /\ WF_vars(PutCmd(c)) /\ WF_vars(JobStep(c))
    /\ \A s \in Stream : /\ WF_vars(GenStep(s))
                         /\ WF_vars(Recv(s)) /\ WF_vars(RecvErr(s))
                         /\ WF_vars(ServerNotices(s))
    /\ WF_vars(\E s \in Stream : OpenStream(s))
    /\ WF_vars(\E m \in results : ReturnCmdResult(m))
    /\ WF_vars(AgentStep)

FairSpec == Spec /\ Fairness

\* The stream s works at both ends, no other generator or late request is
\* left, and no further fault will come.
Settled(s) ==
    /\ faults = MaxFaults
    /\ rcv[s] = "on" /\ net[s] /\ srvUp[s] /\ taskStream = s
    /\ gen[s] \in {"loop", "waiting", "yield"}
    /\ \A t \in Stream \ {s} :
          gen[t] \in {"finally", "dboffline", "closed"} \/ rcv[t] = "none"

\* A command that is queued once one stream works and its predecessors have
\* given up is executed, and its success reaches the row; a failure need not,
\* for its text may be too long for the row.
SettledDelivers ==
    \A c \in Cmd : (c \in Elems(queue) /\ \E s \in Stream : Settled(s)) ~>
        outcome[c] \in Outcome /\ (outcome[c] = "ok" => Recorded(c))

\* The status heals: when the agent's loop goes on serving, the "offline" a
\* stale generator writes late is overwritten by the next reports, in memory
\* and in the database (RequestCmd's finally against ReprotState).
StatusHeals == <>[](phase = "serving") => <>[](status = "online" /\ dbStatus = "online")
=============================================================================
