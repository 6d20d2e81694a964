-------------------------- MODULE MCCommandChannel --------------------------
\* Instances of CommandChannel for TLC.
EXTENDS CommandChannel, TLC, SequencesExt

\* Commands are interchangeable, and so are streams.  TLC takes no symmetry
\* with liveness: instead, both are used in one order.
InOrder(f, s, unused) ==
    \A n \in 1..Len(s) - 1 : f[s[n]] = unused => f[s[n + 1]] = unused
OneNext == /\ Next
           /\ InOrder(op, SetToSeq(Cmd), "idle")'
           /\ InOrder(rcv, SetToSeq(Stream), "none")'
OneSpec == Init /\ [][OneNext]_vars /\ Fairness
=============================================================================
