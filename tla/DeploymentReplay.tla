-------------------------- MODULE DeploymentReplay --------------------------
(***************************************************************************)
(* The second half of a repair (repair_honeypot_delivery_chain, views.py): *)
(* the latest deployments in the command log are sent to their agents once *)
(* more, first those of files, then those of pages, the newest first and   *)
(* each target once.  Meanwhile agents come and go, files are deleted and  *)
(* deployments go on.                                                      *)
(***************************************************************************)
EXTENDS Naturals, Sequences, FiniteSets, FiniteSetsExt

CONSTANTS
    Agent, File,
    Deployment, \* what the log may hold: [kind, agent, target, files, option]
    MaxLog,     \* bound on the log
    MaxReplay   \* rows a repair reads of each kind

VARIABLES
    log,    \* AgentControlLog, oldest first
    online, \* agents with a command stream
    gone,   \* files that were deleted
    read,   \* rows of the log the repair has read
    todo,   \* of these, those it still goes through
    stage,  \* "file", "page" or "idle"
    seen,   \* seen_targets
    sent,   \* rows sent again by this repair
    left,   \* files deleted since it started
    upTo    \* how long the log was when it read the rows of each kind

vars == <<log, online, gone, read, todo, stage, seen, sent, left, upTo>>
Entry == 1..Len(log)

\* What the proofs assume of the constants.
ReplayAssumption ==
    /\ MaxLog \in Nat /\ MaxReplay \in Nat
    /\ Deployment \subseteq [kind : {"file", "page"}, agent : Agent, files : SUBSET File,
                             target : {d.target : d \in Deployment}, option : {d.option : d \in Deployment}]

TypeOK ==
    /\ log \in Seq(Deployment) /\ Len(log) <= MaxLog
    /\ online \subseteq Agent /\ gone \subseteq File /\ left \subseteq gone
    /\ stage \in {"idle", "file", "page"}
    /\ read \subseteq Entry /\ todo \cup sent \subseteq read
    /\ upTo \in [{"file", "page"} -> 0..Len(log)]

Init == /\ log = <<>> /\ online = {} /\ gone = {} /\ read = {} /\ todo = {} /\ stage = "idle"
        /\ seen = {} /\ sent = {} /\ left = {} /\ upTo = [kind \in {"file", "page"} |-> 0]

\* A deployment is sent and logged (agent_command); only to an agent that is online.
Deploy(d) ==
    /\ Len(log) < MaxLog /\ d.agent \in online /\ d.files \cap gone = {}
    /\ log' = Append(log, d)
    /\ UNCHANGED <<online, gone, read, todo, stage, seen, sent, left, upTo>>
Come(a) == online' = online \cup {a} /\ UNCHANGED <<log, gone, read, todo, stage, seen, sent, left, upTo>>
Go(a) == online' = online \ {a} /\ UNCHANGED <<log, gone, read, todo, stage, seen, sent, left, upTo>>
DeleteFile(f) ==
    /\ gone' = gone \cup {f} /\ left' = IF stage = "idle" THEN left ELSE left \cup {f}
    /\ UNCHANGED <<log, online, read, todo, stage, seen, sent, upTo>>

-----------------------------------------------------------------------------
\* The newest rows of a kind.
Rows(kind) == {i \in Entry : log[i].kind = kind}
Newer(i) == {j \in Rows(log[i].kind) : j > i}
Newest(kind) == {i \in Rows(kind) : Cardinality(Newer(i)) < MaxReplay}

StartRepair ==
    /\ stage = "idle" /\ log # <<>>
    /\ stage' = "file" /\ read' = Newest("file") /\ todo' = read'
    /\ seen' = {} /\ sent' = {} /\ left' = {} /\ upTo' = [upTo EXCEPT !["file"] = Len(log)]
    /\ UNCHANGED <<log, online, gone>>

\* _normalize_existing_file_payload, _normalize_existing_parasitic_payload.
Valid(d) == d.kind = "page" \/ d.files \ gone # {}
Target(d) == [agent |-> d.agent, target |-> d.target, files |-> d.files \ gone]

\* Deviation: a target counts as seen when it was sent.
ReplaySent ==
    LET i == Max(todo) IN
    /\ stage # "idle" /\ todo # {} /\ todo' = todo \ {i}
    /\ \/ /\ Valid(log[i]) /\ Target(log[i]) \notin seen /\ log[i].agent \in online
          /\ seen' = seen \cup {Target(log[i])} /\ sent' = sent \cup {i}
       \/ /\ Valid(log[i]) => Target(log[i]) \in seen \/ log[i].agent \notin online
          /\ UNCHANGED <<seen, sent>>
    /\ UNCHANGED <<log, online, gone, read, stage, left, upTo>>

\* A row is passed over if nothing of it is left or its target was seen; and without
\* effect if the agent is offline, or the database fails.
Replay ==
    LET i == Max(todo) IN
    /\ stage # "idle" /\ todo # {} /\ todo' = todo \ {i}
    /\ \/ /\ Valid(log[i]) /\ Target(log[i]) \notin seen
          /\ seen' = seen \cup {Target(log[i])}
          /\ \/ log[i].agent \in online /\ sent' = sent \cup {i}
             \/ sent' = sent
       \/ (Valid(log[i]) => Target(log[i]) \in seen) /\ UNCHANGED <<seen, sent>>
    /\ UNCHANGED <<log, online, gone, read, stage, left, upTo>>

\* The pages' turn.
Turn ==
    /\ stage = "file" /\ todo = {}
    /\ stage' = "page" /\ todo' = Newest("page") /\ read' = read \cup todo' /\ seen' = {}
    /\ upTo' = [upTo EXCEPT !["page"] = Len(log)]
    /\ UNCHANGED <<log, online, gone, sent, left>>

\* A repair ends after the pages, with an exception, or with the process.
EndRepair ==
    /\ stage # "idle" /\ stage' = "idle"
    /\ todo' = {} /\ read' = {} /\ seen' = {} /\ sent' = {} /\ left' = {}
    /\ upTo' = [kind \in {"file", "page"} |-> 0]
    /\ UNCHANGED <<log, online, gone>>

Next ==
    \/ \E d \in Deployment : Deploy(d)
    \/ \E a \in Agent : Come(a) \/ Go(a)
    \/ \E f \in File : DeleteFile(f)
    \/ StartRepair \/ Replay \/ Turn \/ EndRepair

Spec == Init /\ [][Next]_vars

-----------------------------------------------------------------------------
\* Deployments that differ in their option only.
Same(i, j) == [log[j] EXCEPT !.option = log[i].option] = log[i]

\* A repair never sends a deployment again where one of the same files to the same
\* place comes later in the log, be the agent away when that one's turn came: so its
\* options do not come back.  There are two exceptions, and they do come back in both:
\* where the later one was logged after the repair had read the rows of its kind, and
\* where one of the files was deleted while it ran (_replay_latest_file_deployments,
\* views.py:2021-2047).
ReplayedLatest ==
    \A i \in sent, j \in Entry :
        j > i /\ Same(i, j) => j > upTo[log[i].kind] \/ log[i].files \cap left # {}
=============================================================================
