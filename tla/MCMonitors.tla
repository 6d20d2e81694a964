----------------------------- MODULE MCMonitors -----------------------------
(* The two processes that follow a log and keep where they are on disk, one *)
(* per scene: the observer of nginx's log and the agent's audit monitor.    *)
EXTENDS AccessObserver, AuditMonitor, TLC

VARIABLE scene

\* TLC takes no symmetry with liveness: of the inode numbers a new file may get,
\* the one that is chosen first; and one line of all the files is malformed or too
\* long at most.
FirstOf(S) == CHOOSE i \in S : TRUE
Odd == {<<f, p>> \in File \X (1..MaxLines) : p \in DOMAIN lines[f] /\ lines[f][p] # "ok"}
OneNext == /\ Next
           /\ last' > last =>
                inode'[last'] = FirstOf(Inode \ {inode[f] : f \in 1..last})
           /\ Cardinality(Odd') <= 1

MonitorsInit == /\ scene \in {"observer", "audit"}
                /\ Init /\ inode[1] = FirstOf(Inode) /\ MonitorInit
MonitorsNext == /\ UNCHANGED scene
                /\ \/ scene = "observer" /\ OneNext /\ UNCHANGED monitorVars
                   \/ scene = "audit" /\ MonitorNext /\ UNCHANGED vars
MonitorsSpec ==
    /\ MonitorsInit /\ [][MonitorsNext]_<<scene, vars, monitorVars>>
    \* ObserverFairness and MonitorFairness, each in its scene
    /\ WF_vars(scene = "observer" /\ Observer)
    /\ WF_vars(scene = "observer" /\ WriteEnd) /\ WF_vars(scene = "observer" /\ Reopen)
    /\ WF_monitorVars(scene = "audit" /\ NewAuditdMonitor)
    /\ WF_monitorVars(scene = "audit" /\ \E l \in Loop : Start(l))
    /\ \A l \in Loop : /\ WF_monitorVars(scene = "audit" /\ loop[l].alive /\ Ask(l))
                       /\ WF_monitorVars(scene = "audit" /\ Query(l))
                       /\ WF_monitorVars(scene = "audit" /\ LoopEnds(l))
    /\ WF_monitorVars(scene = "audit" /\ \E b \in batches : HandleEvent(b))
=============================================================================
