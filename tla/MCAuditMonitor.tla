--------------------------- MODULE MCAuditMonitor ---------------------------
\* Instances of AuditMonitor for TLC.
EXTENDS AuditMonitor, TLC

\* Records and loops are interchangeable.
Symmetry == Permutations(Event) \cup Permutations(Loop)
=============================================================================
