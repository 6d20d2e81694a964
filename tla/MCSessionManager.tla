-------------------------- MODULE MCSessionManager --------------------------
\* Instances of SessionManager for TLC.
EXTENDS SessionManager, TLC, SequencesExt

\* Requests are interchangeable, and so are addresses; but TLC takes no symmetry
\* with liveness, so requests come sorted by what they are and where from, and the
\* first of them from the first address.
Reqs == SetToSeq(Req)
Ips == SetToSeq(Ip)
Rank(s, x) == CHOOSE n \in 1..Len(s) : s[n] = x
Key(r) == Rank(<<"info", "ips", "ws">>, kind[r]) * Len(Ips) + Rank(Ips, ip[r])
OneInit == /\ Init
           /\ ip[Reqs[1]] = Ips[1]
           /\ \A n \in 1..Len(Reqs) - 1 : Key(Reqs[n]) <= Key(Reqs[n + 1])
OneSpec == OneInit /\ [][Next]_vars /\ Fairness
=============================================================================
