---------------------------- MODULE ActorGroups ----------------------------
(***************************************************************************)
(* The actors shown beside the alerts (_attach_source_and_actor_intel,     *)
(* alert_store.py): rows that have a signal in common, a public address, a *)
(* fingerprint or a session, are of one actor, and so are rows that a      *)
(* chain of others joins.  The code folds the rows into a forest of        *)
(* parents, one row at a time.                                             *)
(***************************************************************************)
EXTENDS Naturals, Sequences, FiniteSets, Reachability

CONSTANTS
    Row,      \* rows that may be shown: [type, signals], a sequence of [kind, value]
    MaxShown  \* bound on the rows of a page

\* What the proofs assume of the constants: only pages have signals other than addresses
\* (_actor_signals_for_alert).
ActorsAssumption ==
    /\ MaxShown \in Nat
    /\ \A r \in Row : /\ Len(r.signals) \in Nat /\ DOMAIN r.signals = 1..Len(r.signals)
                     /\ \A n \in DOMAIN r.signals :
                           /\ r.signals[n].kind \in {"ip", "fp", "session"}
                           /\ r.type # "parasitic" => r.signals[n].kind = "ip"

VARIABLES
    shown,    \* rows taken so far
    parent,   \* of each row taken
    owner     \* signal_owner: the first row with a signal

vars == <<shown, parent, owner>>
Index == 1..Len(shown)

Init == shown = <<>> /\ parent = <<>> /\ owner = <<>>

\* _find_group_parent: on the way up each row is joined to its grandparent, and no way
\* up has more turns than there are rows.
Turn(s) ==
    IF s.parent[s.root] = s.root THEN s
    ELSE LET q == [s.parent EXCEPT ![s.root] = s.parent[s.parent[s.root]]]
         IN  [root |-> q[s.root], parent |-> q]
Climb(p, i) ==
    LET at[n \in 0..Len(p)] == IF n = 0 THEN [root |-> i, parent |-> p] ELSE Turn(at[n - 1])
    IN  at
Find(p, i) == Climb(p, i)[Len(p)]

\* Deviation: the rows are joined, not their roots.
JoinRows(p, left, right) == [p EXCEPT ![right] = left]

\* _union_group_parent.
Join(p, left, right) ==
    LET l == Find(p, left)
        r == Find(l.parent, right)
    IN  [r.parent EXCEPT ![r.root] = l.root]

\* A signal that was seen joins the row to the first that had it.
Link(state, signal) ==
    LET last == Len(state.parent)
    IN  IF signal \in DOMAIN state.owner
        THEN [state EXCEPT !.parent = Join(@, state.owner[signal], last)]
        ELSE [state EXCEPT !.owner = [s \in DOMAIN @ \cup {signal} |->
                                         IF s = signal THEN last ELSE @[s]]]

\* With a row's signals, one after the other.
Linked(state, signals) ==
    LET after[n \in 0..Len(signals)] == IF n = 0 THEN state ELSE Link(after[n - 1], signals[n])
    IN  after

TakeRow(row) ==
    /\ Len(shown) < MaxShown
    /\ shown' = Append(shown, row)
    /\ LET alone == [parent |-> Append(parent, Len(shown) + 1), owner |-> owner]
           state == Linked(alone, row.signals)[Len(row.signals)]
       IN  parent' = state.parent /\ owner' = state.owner

Next == \E row \in Row : TakeRow(row)

Spec == Init /\ [][Next]_vars

-----------------------------------------------------------------------------
\* The group of a row, and what is said of it.
Group(i) == {j \in Index : Find(parent, j).root = Find(parent, i).root}
Has(i, signal) == \E n \in DOMAIN shown[i].signals : shown[i].signals[n] = signal
SharedSignals(i) == {s \in DOMAIN owner : Cardinality({j \in Group(i) : Has(j, s)}) > 1}

\* _actor_confidence, for a group of several.
Confidence(i) ==
    LET kinds == {s.kind : s \in SharedSignals(i)}
    IN  IF Cardinality(Group(i)) = 1 THEN "single"
        ELSE IF "ip" \in kinds \/ {"fp", "session"} \subseteq kinds THEN "high"
        ELSE IF kinds # {} THEN "medium" ELSE "low"
CrossHoneypot(i) == Cardinality({shown[j].type : j \in Group(i)}) > 1

\* Types: the parents form a forest on the rows, in which each way up ends.
TypeOK ==
    /\ shown \in Seq(Row) /\ Len(shown) <= MaxShown
    /\ parent \in [Index -> Index]
    /\ \A i \in Index : LET root == Find(parent, i).root IN root \in Index /\ parent[root] = root
    /\ owner \in [DOMAIN owner -> Index]

\* However the rows are ordered, two of them are of one actor exactly if a chain
\* of shared signals joins them; an actor of several rows rests on a signal, so
\* that its confidence is never low, and one whose rows are of different honeypots
\* and who is not known by an address owes it to the web (alert_store.py:736).
ActorsConnected ==
    LET near == {pair \in Index \X Index : \E s \in DOMAIN owner : Has(pair[1], s) /\ Has(pair[2], s)}
    IN  \A i \in Index :
            /\ Group(i) = {j \in Index : Reachable(Index, near, i, j)}
            /\ Confidence(i) # "low"
            /\ CrossHoneypot(i) => Confidence(i) = "high"
=============================================================================
