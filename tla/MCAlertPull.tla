----------------------------- MODULE MCAlertPull -----------------------------
\* Instances of AlertPull for TLC.
EXTENDS AlertPull, TLC

\* Alerts are interchangeable.
Symmetry == Permutations(Event)

\* The last tick is for the database path only, where it lets an operator's window begin
\* behind an alert; the one before it also for a log without faults, where it lets the
\* look-back end behind one.
Horizon == \/ kind = "account_db"
           \/ kind = "parasitic" /\ faults = 0 /\ now < MaxTime
           \/ now < MaxTime - 1

OneSpec == Init /\ [][Next /\ Horizon']_vars
=============================================================================
