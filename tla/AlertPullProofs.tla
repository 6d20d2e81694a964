--------------------------- MODULE AlertPullProofs ---------------------------
(***************************************************************************)
(* Proofs about AlertPull for every set of alerts and pullers, every page  *)
(* size and every bound: types, one row per alert on all four paths, the   *)
(* honest cursor of the path inside the one database, and that a pull that *)
(* is through is complete.  The cursor needs a history: what a pull passed *)
(* over was already stored, what it saw and has its batches behind it is   *)
(* stored, and what it did not see is too young for the cursor it will     *)
(* leave.  A pull of pages is complete because the log only grows: what it *)
(* has not met is still below the pages it has had.                        *)
(***************************************************************************)
EXTENDS AlertPull, FiniteSetTheorems, TLAPS

-----------------------------------------------------------------------------
(* Types.                                                                  *)

\* A page and a batch are sets of the listed rows; sets of alerts are counted.
LEMMA Listed ==
    ASSUME NEW V \in SUBSET Event
    PROVE  /\ \A n : \A D \in Heads(V, n) : D \subseteq V /\ D \subseteq Event
           /\ \A page : \A D \in Pages(V, page) : D \subseteq V /\ D \subseteq Event
           /\ IsFiniteSet(V) /\ Cardinality(V) \in Nat
<1>1. IsFiniteSet(V)
  BY PullAssumption, FS_Subset
<1>2. \A n : \A D \in Heads(V, n) : D \subseteq V
  BY DEF Heads
<1>3. \A page : \A D \in Pages(V, page) : D \subseteq V
  <2> SUFFICES ASSUME NEW page, NEW rows \in Pages(V, page)
               PROVE  rows \subseteq V
    OBVIOUS
  <2>1. PICK D \in Heads(V, (page - 1) * PageSize) \X Heads(V, page * PageSize) :
             rows = D[2] \ D[1]
    BY DEF Pages
  <2> QED BY <2>1, <1>2
<1> QED BY <1>1, <1>2, <1>3, FS_CardinalityType

\* What the source can list is made of alerts.
LEMMA NewerListed ==
    ASSUME TypeOK
    PROVE  /\ Visible \subseteq Event
           /\ \A since : Newer(since) \subseteq Event
BY DEF TypeOK, Visible, Arrived, Newer

\* A puller that steps to a well-typed state keeps the pulls well-typed.
LEMMA StepType ==
    ASSUME TypeOK, NEW p \in Puller, NEW new \in PullState, Step(p, new)
    PROVE  /\ pull' \in [Puller -> PullState]
           /\ pull'[p] = new
           /\ \A q \in Puller \ {p} : pull'[q] = pull[q]
BY DEF TypeOK, Step

LEMMA IdleType == Idle \in PullState
BY PullAssumption DEF Idle, PullState

\* Every step keeps the types.
LEMMA TypeStep == TypeOK /\ [Next]_vars => TypeOK'
<1> SUFFICES ASSUME TypeOK, [Next]_vars PROVE TypeOK'
  OBVIOUS
<1> USE PullAssumption
<1> \A p \in Puller : pull[p] \in PullState
  BY DEF TypeOK
<1>1. ASSUME NEW e \in Event, Trigger(e) PROVE TypeOK'
  BY <1>1 DEF TypeOK, Trigger
<1>2. ASSUME NEW e \in Event, Arrive(e) PROVE TypeOK'
  BY <1>2 DEF TypeOK, Arrive
<1>3. CASE Reload
  BY <1>3 DEF TypeOK, Reload, Arrived
<1>4. CASE Tick
  BY <1>4 DEF TypeOK, Tick, sourceVars
<1>5. ASSUME NEW p \in Puller, StartPull(p) PROVE TypeOK'
  <2>1. PICK from \in {cursor} \cup (IF p = Task THEN {} ELSE {now - d : d \in Days}) :
             Step(p, [Idle EXCEPT !.pc = "fetch", !.days = from # cursor, !.since = from - Lookback,
                        !.start = now, !.seen = Newer(from - Lookback)])
    BY <1>5 DEF StartPull
  <2>2. from - Lookback \in Int
    BY DEF TypeOK, Lookback
  <2>3. [Idle EXCEPT !.pc = "fetch", !.days = from # cursor, !.since = from - Lookback,
                     !.start = now, !.seen = Newer(from - Lookback)] \in PullState
    <3>1. Newer(from - Lookback) \subseteq Event
      BY NewerListed
    <3>2. now \in 0..MaxTime
      BY DEF TypeOK
    <3>3. \A days \in BOOLEAN, since \in Int, seen \in SUBSET Event :
             [Idle EXCEPT !.pc = "fetch", !.days = days, !.since = since, !.start = now,
                          !.seen = seen] \in PullState
      BY IdleType, <3>2 DEF PullState
    <3>4. (from # cursor) \in BOOLEAN
      OBVIOUS
    <3> QED BY <2>2, <3>1, <3>3, <3>4
  <2>4. pull' \in [Puller -> PullState]
    BY <2>1, <2>3, StepType
  <2> QED BY <1>5, <2>4 DEF TypeOK, StartPull, sourceVars
<1>6. ASSUME NEW p \in Puller, FetchFile(p) PROVE TypeOK'
  <2>1. PICK rows \in Pages(Newer(pull[p].since), 1) :
             Step(p, [pull[p] EXCEPT !.pc = "check", !.rows = rows])
    BY <1>6 DEF FetchFile
  <2>2. [pull[p] EXCEPT !.pc = "check", !.rows = rows] \in PullState
    <3>1. Newer(pull[p].since) \subseteq Event
      BY NewerListed
    <3>2. rows \subseteq Event
      BY <2>1, <3>1, Listed
    <3> QED BY <3>2 DEF PullState
  <2>3. pull' \in [Puller -> PullState]
    BY <2>1, <2>2, StepType
  <2> QED BY <1>6, <2>3 DEF TypeOK, FetchFile, sourceVars
<1>7. ASSUME NEW p \in Puller, FetchAccounts(p) PROVE TypeOK'
  <2> DEFINE new == Newer(pull[p].since)
  <2>1. new \subseteq Event /\ Cardinality(new) \in Nat /\ pull[p].page \in Nat \ {0}
    BY NewerListed, Listed DEF PullState
  <2>2. PICK rows \in Pages(new, pull[p].page) :
           \/ Step(p, [pull[p] EXCEPT !.pc = "check", !.rows = rows,
                         !.total = IF pull[p].page = 1 THEN Cardinality(new) ELSE @])
           \/ Step(p, IF pull[p].page = 1 THEN [pull[p] EXCEPT !.pc = "record"] ELSE Idle)
    BY <1>7 DEF FetchAccounts
  <2>3. rows \subseteq Event
    BY <2>1, Listed
  <2>4. /\ [pull[p] EXCEPT !.pc = "check", !.rows = rows,
              !.total = IF pull[p].page = 1 THEN Cardinality(new) ELSE @] \in PullState
        /\ [pull[p] EXCEPT !.pc = "record"] \in PullState
    BY <2>1, <2>3 DEF PullState
  <2>5. pull' \in [Puller -> PullState]
    BY <2>2, <2>4, IdleType, StepType
  <2> QED BY <1>7, <2>5 DEF TypeOK, FetchAccounts, sourceVars
<1>8. ASSUME NEW p \in Puller, FetchLogs(p) PROVE TypeOK'
  <2>1. PICK rows \in Pages(cache, pull[p].page) :
           \/ Step(p, [pull[p] EXCEPT !.pc = "check", !.rows = rows,
                         !.total = Cardinality(cache)])
           \/ Step(p, [pull[p] EXCEPT !.pc = "record"])
    BY <1>8 DEF FetchLogs
  <2>2. cache \in SUBSET Event
    BY DEF TypeOK
  <2>3. rows \subseteq Event /\ Cardinality(cache) \in Nat
    <3> HIDE DEF Pages
    <3> QED BY <2>1, <2>2, Listed
  <2>4. /\ [pull[p] EXCEPT !.pc = "check", !.rows = rows,
              !.total = Cardinality(cache)] \in PullState
        /\ [pull[p] EXCEPT !.pc = "record"] \in PullState
    BY <2>3 DEF PullState
  <2>5. pull' \in [Puller -> PullState]
    BY <2>1, <2>4, StepType
  <2> QED BY <1>8, <2>5 DEF TypeOK, FetchLogs, sourceVars
<1>9. ASSUME NEW p \in Puller, CheckRows(p) PROVE TypeOK'
  <2> DEFINE fresh == {e \in pull[p].rows : time[e] > pull[p].since /\ stored[e] = 0}
  <2>1. [pull[p] EXCEPT !.pc = "commit", !.fresh = fresh] \in PullState
    BY DEF PullState
  <2>2. pull' \in [Puller -> PullState]
    BY <1>9, <2>1, StepType DEF CheckRows
  <2> QED BY <1>9, <2>2 DEF TypeOK, CheckRows, sourceVars
<1>10. ASSUME NEW p \in Puller, CommitRows(p) PROVE TypeOK'
  <2>1. Cardinality(pull[p].rows) \in Nat
    BY Listed DEF PullState
  <2>2. NextPage(p) \in PullState
    <3>1. pull[p].page + 1 \in Nat \ {0} /\ pull[p].received + Cardinality(pull[p].rows) \in Nat
      BY <2>1 DEF PullState
    <3>2. [pull[p] EXCEPT !.pc = "record", !.rows = {}, !.fresh = {}] \in PullState
      BY DEF PullState
    <3>3. [pull[p] EXCEPT !.pc = "fetch", !.page = @ + 1, !.rows = {}, !.fresh = {},
             !.received = @ + Cardinality(pull[p].rows)] \in PullState
      BY <3>1 DEF PullState
    <3> QED BY <3>2, <3>3 DEF NextPage
  <2>3. pull' \in [Puller -> PullState]
    BY <1>10, <2>2, IdleType, StepType DEF CommitRows
  <2>4. stored' \in [Event -> Nat]
    BY <1>10 DEF CommitRows, TypeOK
  <2> QED BY <1>10, <2>3, <2>4 DEF TypeOK, CommitRows, sourceVars
<1>11. ASSUME NEW p \in Puller, SyncBatch(p) PROVE TypeOK'
  <2> DEFINE W == {e \in Newer(pull[p].since) : Below(e, pull[p].before)}
  <2>1. PICK rows \in Heads(W, PageSize) :
          /\ stored' = [e \in Event |-> IF e \in rows /\ stored[e] = 0
                                        THEN 1 ELSE stored[e]]
          /\ IF rows = {} THEN Step(p, [pull[p] EXCEPT !.pc = "record"])
             ELSE \E last \in {id[e] : e \in rows} :
                     /\ \A e \in rows : last <= id[e]
                     /\ Step(p, [pull[p] EXCEPT !.before = last])
    BY <1>11 DEF SyncBatch
  <2>2. rows \subseteq Event
    <3>1. W \subseteq Event
      BY NewerListed
    <3> HIDE DEF W
    <3> QED BY <3>1, <2>1, Listed
  <2>3. /\ [pull[p] EXCEPT !.pc = "record"] \in PullState
        /\ \A last \in Nat : [pull[p] EXCEPT !.before = last] \in PullState
    BY DEF PullState
  <2>4. \A last \in {id[e] : e \in rows} : last \in Nat
    BY <2>2 DEF TypeOK
  <2>5. pull' \in [Puller -> PullState]
    BY <2>1, <2>3, <2>4, StepType
  <2>6. stored' \in [Event -> Nat]
    BY <2>1 DEF TypeOK
  <2> QED BY <1>11, <2>5, <2>6 DEF TypeOK, SyncBatch, sourceVars
<1>12. ASSUME NEW p \in Puller, Record(p) PROVE TypeOK'
  <2>1. pull' \in [Puller -> PullState]
    BY <1>12, IdleType, StepType DEF Record
  <2>2. cursor' \in 0..MaxTime
    BY <1>12 DEF Record, TypeOK, PullState
  <2>3. left' \subseteq Event
    BY <1>12 DEF Record, TypeOK, Happened
  <2> QED BY <1>12, <2>1, <2>2, <2>3 DEF TypeOK, Record, sourceVars
<1>13. ASSUME NEW p \in Puller, Fail(p) PROVE TypeOK'
  <2>1. pull' \in [Puller -> PullState]
    BY <1>13, IdleType, StepType DEF Fail
  <2>2. faults' \in 0..MaxFaults
    BY <1>13 DEF Fail, OneFault, TypeOK
  <2> QED BY <1>13, <2>1, <2>2 DEF TypeOK, Fail, sourceVars
<1>14. CASE UNCHANGED vars
  BY <1>14 DEF TypeOK, vars, sourceVars
<1> QED
  BY <1>1, <1>2, <1>3, <1>4, <1>5, <1>6, <1>7, <1>8, <1>9, <1>10, <1>11, <1>12, <1>13,
     <1>14 DEF Next, Source, PullStep

LEMMA InitType == Init => TypeOK
BY PullAssumption, IdleType DEF Init, TypeOK

\* All variables keep their types on all four paths.
THEOREM TypeCorrect == Spec => []TypeOK
BY InitType, TypeStep, PTL DEF Spec

-----------------------------------------------------------------------------
(* One row per alert.                                                      *)

\* A page adds no row where the table has one.
LEMMA StoredStep == TypeOK /\ StoredOnce /\ [Next]_vars => StoredOnce'
<1> SUFFICES ASSUME TypeOK, StoredOnce, [Next]_vars PROVE StoredOnce'
  OBVIOUS
<1>1. ASSUME NEW p \in Puller, CommitRows(p) PROVE StoredOnce'
  <2>1. CASE UNCHANGED stored
    BY <2>1 DEF StoredOnce
  <2>2. CASE stored' = [e \in Event |-> IF e \in pull[p].fresh /\ stored[e] = 0
                                          THEN 1 ELSE stored[e]]
    BY <2>2 DEF StoredOnce, TypeOK
  <2> QED BY <1>1, <2>1, <2>2 DEF CommitRows
<1>2. ASSUME NEW p \in Puller, SyncBatch(p) PROVE StoredOnce'
  <2>1. PICK rows : stored' = [e \in Event |-> IF e \in rows /\ stored[e] = 0
                                               THEN 1 ELSE stored[e]]
    BY <1>2 DEF SyncBatch
  <2> QED BY <2>1 DEF StoredOnce, TypeOK
<1>3. CASE UNCHANGED stored
  BY <1>3 DEF StoredOnce
<1> QED
  BY <1>1, <1>2, <1>3 DEF Next, Source, PullStep, Trigger, Arrive, Reload, Tick, StartPull,
     FetchFile, FetchAccounts, FetchLogs, CheckRows, Record, Fail, vars

\* On all four paths, an alert never has two rows in the unified table.
THEOREM OneRowPerAlert == Spec => []StoredOnce
<1>1. Init => StoredOnce
  BY DEF Init, StoredOnce
<1> QED BY <1>1, InitType, TypeStep, StoredStep, PTL DEF Spec

-----------------------------------------------------------------------------
(* The honest cursor of the path inside one database.                      *)

\* The look-back covers the delay of the source and the length of an operator's
\* pull.  Operators may ask for any window.
Timely == MaxDelay + MaxPull < Overlap

\* Alerts have ids of their own, and are visible in time.
SourceInv ==
    /\ cursor <= now
    /\ \A e \in Event : /\ time[e] <= now
                        /\ id[e] # 0 => time[e] # 0
                        /\ time[e] # 0 /\ id[e] = 0 => now <= time[e] + MaxDelay
                        /\ id[e] <= lastId
    /\ \A d, e \in Event : id[d] = id[e] /\ id[d] # 0 => d = e

\* A pull that starts from the cursor passed over alerts that are stored or were left
\* out before; every pull has stored what it saw and has its batches behind it, and
\* what it did not see is young.
PullInv(p) ==
    LET q == pull[p] IN
    /\ q.pc \in {"idle", "fetch", "record"}
    /\ q.pc # "idle" =>
         /\ q.since + Overlap <= q.start /\ q.start <= now
         /\ p \in Manual => now <= q.start + MaxPull
         /\ \A e \in Event : time[e] # 0 =>
              /\ time[e] <= q.since => stored[e] > 0 \/ e \in left \/ q.days
              /\ e \notin q.seen /\ time[e] > q.since => q.start <= time[e] + MaxDelay
         /\ \A e \in q.seen :
              /\ id[e] # 0 /\ time[e] > q.since
              /\ q.pc = "record" \/ (q.before # 0 /\ id[e] >= q.before) => stored[e] > 0

DbInv == kind = "account_db" =>
            SourceInv /\ CursorHonest /\ \A p \in Puller : PullInv(p)

IInv == TypeOK /\ DbInv

\* A batch is empty only when nothing is left, and it is the newest of what is.
LEMMA BatchFacts ==
    ASSUME NEW W \in SUBSET Event, NEW rows \in Heads(W, PageSize), kind = "account_db"
    PROVE  /\ rows \subseteq W
           /\ rows = {} => W = {}
           /\ \A x \in rows, y \in W \ rows : ~(id[y] > id[x])
<1>1. /\ rows \subseteq W
      /\ Cardinality(rows) = IF Cardinality(W) < PageSize THEN Cardinality(W) ELSE PageSize
      /\ \A x \in rows, y \in W \ rows : ~Above(y, x)
  BY DEF Heads
<1>2. IsFiniteSet(W) /\ Cardinality(W) \in Nat
  BY Listed
<1>3. rows = {} => W = {}
  <2> SUFFICES ASSUME rows = {} PROVE Cardinality(W) = 0
    BY <1>2, FS_EmptySet
  <2>1. Cardinality(rows) = 0
    BY FS_EmptySet
  <2> QED BY <1>1, <1>2, <2>1, PullAssumption
<1>4. \A x, y : Above(y, x) <=> id[y] > id[x]
  BY DEF Above
<1> QED BY <1>1, <1>3, <1>4

\* What holds of a pull holds on while others store rows.
LEMMA PullKept ==
    ASSUME TypeOK, NEW q \in Puller, PullInv(q), pull'[q] = pull[q],
           UNCHANGED <<now, time, id>>, left \subseteq left',
           \A e \in Event : stored[e] > 0 => stored'[e] > 0
    PROVE  PullInv(q)'
BY DEF TypeOK, PullInv, PullState

\* A pull that ended is honest.
LEMMA IdleKept ==
    ASSUME TypeOK, NEW p \in Puller, Step(p, Idle) PROVE PullInv(p)'
<1>1. pull'[p] = Idle
  BY IdleType, StepType
<1> QED BY <1>1 DEF PullInv, Idle

\* Rows that reach the table keep the cursor honest.
LEMMA HonestKept ==
    ASSUME CursorHonest, UNCHANGED <<kind, time, cursor>>, left \subseteq left',
           \A e \in Event : stored[e] > 0 => stored'[e] > 0
    PROVE  CursorHonest'
BY DEF CursorHonest, Happened, Lookback

\* Every step keeps the invariant of the database path.
LEMMA DbStep ==
    ASSUME Timely, TypeOK, TypeOK', DbInv, [Next]_vars PROVE DbInv'
<1> SUFFICES ASSUME kind' = "account_db"
             PROVE  SourceInv' /\ CursorHonest' /\ \A q \in Puller : PullInv(q)'
  BY DEF DbInv
<1>1. kind = "account_db" /\ kind' = kind
  BY DEF Next, Source, PullStep, Trigger, Arrive, Reload, Tick, StartPull, FetchFile,
     FetchAccounts, FetchLogs, CheckRows, CommitRows, SyncBatch, Record, Fail, vars
<1>2. SourceInv /\ CursorHonest /\ \A q \in Puller : PullInv(q)
  BY <1>1 DEF DbInv
<1>3. /\ now \in Nat /\ cursor \in Nat /\ lastId \in Nat /\ now <= MaxTime
      /\ \A e \in Event : time[e] \in Nat /\ id[e] \in Nat /\ stored[e] \in Nat
      /\ \A q \in Puller : pull[q] \in PullState
  BY DEF TypeOK
<1>4. Overlap \in Nat /\ MaxDelay \in Nat /\ MaxPull \in Nat /\ MaxTime \in Nat
      /\ Task \notin Manual /\ Days \subseteq Nat
  BY PullAssumption
<1>5. ASSUME NEW e \in Event, Trigger(e)
      PROVE  SourceInv' /\ CursorHonest' /\ \A q \in Puller : PullInv(q)'
  <2>1. /\ time[e] = 0 /\ time'[e] = now /\ \A d \in Event \ {e} : time'[d] = time[d]
        /\ UNCHANGED <<now, id, lastId, cursor, stored, pull, left>>
    BY <1>5 DEF Trigger, TypeOK
  <2>2. id[e] = 0
    BY <1>2, <2>1 DEF SourceInv
  <2>3. SourceInv'
    BY <1>2, <1>3, <1>4, <2>1, <2>2 DEF SourceInv
  <2>4. CursorHonest'
    BY <1>1, <1>2, <1>3, <1>4, <2>1 DEF CursorHonest, SourceInv, Happened, Lookback, Timely
  <2>5. ASSUME NEW q \in Puller PROVE PullInv(q)'
    BY <1>2, <1>3, <1>4, <2>1, <2>2 DEF PullInv, PullState, Timely
  <2> QED BY <2>3, <2>4, <2>5
<1>6. ASSUME NEW e \in Event, Arrive(e)
      PROVE  SourceInv' /\ CursorHonest' /\ \A q \in Puller : PullInv(q)'
  <2>1. /\ time[e] # 0 /\ id[e] = 0 /\ lastId' = lastId + 1
        /\ id'[e] = lastId + 1 /\ \A d \in Event \ {e} : id'[d] = id[d]
        /\ UNCHANGED <<kind, now, time, cursor, stored, pull, left>>
    BY <1>6 DEF Arrive, TypeOK
  <2>2. SourceInv'
    BY <1>2, <1>3, <2>1 DEF SourceInv
  <2>3. CursorHonest'
    BY <1>2, <2>1 DEF CursorHonest, Happened, Lookback
  <2>4. ASSUME NEW q \in Puller PROVE PullInv(q)'
    BY <1>2, <1>3, <2>1 DEF PullInv, PullState
  <2> QED BY <2>2, <2>3, <2>4
<1>7. CASE Tick
  <2>1. /\ now' = now + 1
        /\ \A e \in Happened : now < time[e] + MaxDelay \/ Served(e)
        /\ \A p \in Manual : pull[p].pc # "idle" => now < pull[p].start + MaxPull
        /\ UNCHANGED <<kind, time, id, lastId, cursor, stored, pull, left>>
    BY <1>7 DEF Tick, sourceVars
  <2>2. \A e \in Event : time[e] # 0 /\ id[e] = 0 => now < time[e] + MaxDelay
    BY <1>1, <2>1 DEF Happened, Served, Visible, Arrived
  <2>3. SourceInv'
    BY <1>2, <1>3, <1>4, <2>1, <2>2 DEF SourceInv
  <2>4. CursorHonest'
    BY <1>2, <2>1, HonestKept
  <2>5. ASSUME NEW q \in Puller PROVE PullInv(q)'
    BY <1>2, <1>3, <1>4, <2>1 DEF PullInv, PullState
  <2> QED BY <2>3, <2>4, <2>5
<1>8. ASSUME NEW p \in Puller, StartPull(p)
      PROVE  SourceInv' /\ CursorHonest' /\ \A q \in Puller : PullInv(q)'
  <2>1. PICK from \in {cursor} \cup (IF p = Task THEN {} ELSE {now - d : d \in Days}) :
             Step(p, [Idle EXCEPT !.pc = "fetch", !.days = from # cursor, !.since = from - Lookback,
                        !.start = now, !.seen = Newer(from - Lookback)])
    BY <1>8 DEF StartPull
  <2> DEFINE since == from - Overlap
             new == [Idle EXCEPT !.pc = "fetch", !.days = from # cursor, !.since = since,
                       !.start = now, !.seen = Newer(since)]
  <2>2. UNCHANGED <<kind, now, time, id, lastId, cursor, stored, left>>
    BY <1>8 DEF StartPull, sourceVars
  <2>3. pull'[p] = new /\ \A q \in Puller \ {p} : pull'[q] = pull[q]
    BY <1>1, <2>1 DEF Step, Lookback, TypeOK
  <2>4. /\ new.pc = "fetch" /\ new.since = since /\ new.start = now
        /\ new.seen = Newer(since) /\ new.before = 0 /\ new.days = (from # cursor)
    BY DEF Idle
  <2>5. /\ since \in Int /\ since + Overlap <= now
        /\ from = cursor \/ \E d \in Days : from = now - d
    BY <1>2, <1>3, <1>4, <2>1 DEF SourceInv
  <2>6. \A e \in Event : time[e] # 0 /\ time[e] <= since
                             => stored[e] > 0 \/ e \in left \/ from # cursor
    BY <1>1, <1>2 DEF CursorHonest, Happened, Lookback
  <2>7. Newer(since) = {e \in Event : id[e] # 0 /\ time[e] > since}
    BY <1>1 DEF Newer, Visible, Arrived
  <2>8. PullInv(p)'
    <3> HIDE DEF new, since
    <3>1. \A e \in Event : time[e] # 0 /\ e \notin Newer(since) /\ time[e] > since
                              => now <= time[e] + MaxDelay
      BY <1>2, <2>7 DEF SourceInv
    <3>2. \A e \in Newer(since) : e \in Event /\ id[e] # 0 /\ time[e] > since
      BY <2>7
    <3>3. \A e \in Event : time[e] # 0 /\ time[e] <= since
                             => stored[e] > 0 \/ e \in left \/ new.days
      BY <2>4, <2>6
    <3>4. /\ new.pc = "fetch" /\ new.since = since /\ new.start = now
          /\ new.seen = Newer(since) /\ new.before = 0
      BY <2>4
    <3> QED BY <1>3, <1>4, <2>2, <2>3, <2>5, <3>1, <3>2, <3>3, <3>4 DEF PullInv
  <2>9. ASSUME NEW q \in Puller \ {p} PROVE PullInv(q)'
    BY <1>2, <2>2, <2>3, PullKept
  <2>10. SourceInv' /\ CursorHonest'
    BY <1>2, <2>2, HonestKept DEF SourceInv
  <2> QED BY <2>8, <2>9, <2>10
<1>9. ASSUME NEW p \in Puller, SyncBatch(p)
      PROVE  SourceInv' /\ CursorHonest' /\ \A q \in Puller : PullInv(q)'
  <2> DEFINE W == {e \in Newer(pull[p].since) : Below(e, pull[p].before)}
  <2>1. PICK rows \in Heads(W, PageSize) :
          /\ stored' = [e \in Event |-> IF e \in rows /\ stored[e] = 0
                                        THEN 1 ELSE stored[e]]
          /\ IF rows = {} THEN Step(p, [pull[p] EXCEPT !.pc = "record"])
             ELSE \E last \in {id[e] : e \in rows} :
                     /\ \A e \in rows : last <= id[e]
                     /\ Step(p, [pull[p] EXCEPT !.before = last])
    BY <1>9 DEF SyncBatch
  <2>2. pull[p].pc = "fetch" /\ UNCHANGED <<kind, now, time, id, lastId, cursor, left>>
    BY <1>9 DEF SyncBatch, sourceVars
  <2>3. /\ W \subseteq Event
        /\ \A e \in Event : e \in W <=> /\ id[e] # 0 /\ time[e] > pull[p].since
                                        /\ pull[p].before = 0 \/ id[e] < pull[p].before
    BY <1>1 DEF Newer, Visible, Arrived, Below
  <2>4. /\ rows \subseteq W
        /\ rows = {} => W = {}
        /\ \A x \in rows, y \in W \ rows : ~(id[y] > id[x])
    <3> HIDE DEF W
    <3> QED BY <1>1, <2>1, <2>3, BatchFacts
  <2> HIDE DEF W
  <2>5. /\ \A e \in Event : stored[e] > 0 => stored'[e] > 0
        /\ \A e \in rows : stored'[e] > 0
    BY <1>3, <2>1, <2>3, <2>4
  <2>6. ASSUME NEW q \in Puller \ {p} PROVE PullInv(q)'
    <3>1. pull'[q] = pull[q]
      BY <2>1 DEF Step, TypeOK
    <3> QED BY <1>2, <2>2, <2>5, <3>1, PullKept
  <2>7. PullInv(p)'
    <3> DEFINE P == pull[p]
    <3>1. /\ P.since + Overlap <= P.start /\ P.start <= now
          /\ p \in Manual => now <= P.start + MaxPull
          /\ \A e \in Event : time[e] # 0 =>
               /\ time[e] <= P.since => stored[e] > 0 \/ e \in left \/ P.days
               /\ e \notin P.seen /\ time[e] > P.since => P.start <= time[e] + MaxDelay
          /\ \A e \in P.seen : e \in Event /\ id[e] # 0 /\ time[e] > P.since
          /\ \A e \in P.seen : P.before # 0 /\ id[e] >= P.before => stored[e] > 0
      BY <1>2, <1>3, <2>2 DEF PullInv, PullState
    <3>2. CASE rows = {}
      <4>1. pull'[p] = [P EXCEPT !.pc = "record"]
        BY <2>1, <3>2 DEF Step, TypeOK
      <4>2. /\ pull'[p].pc = "record" /\ pull'[p].since = P.since /\ pull'[p].start = P.start
            /\ pull'[p].seen = P.seen /\ pull'[p].before = P.before /\ pull'[p].days = P.days
        BY <1>3, <4>1 DEF PullState
      <4>3. \A e \in P.seen : stored[e] > 0
        <5> SUFFICES ASSUME NEW e \in P.seen PROVE P.before # 0 /\ id[e] >= P.before
          BY <3>1
        <5>1. e \in Event /\ e \notin W
          BY <2>4, <3>1, <3>2
        <5> QED BY <1>3, <2>3, <3>1, <5>1 DEF PullState
      <4> QED BY <2>2, <2>5, <3>1, <4>2, <4>3 DEF PullInv
    <3>3. CASE rows # {}
      <4>1. PICK low \in rows : /\ \A e \in rows : id[low] <= id[e]
                                /\ Step(p, [P EXCEPT !.before = id[low]])
        BY <2>1, <3>3
      <4>2. pull'[p] = [P EXCEPT !.before = id[low]]
        BY <4>1 DEF Step, TypeOK
      <4>3. /\ pull'[p].pc = "fetch" /\ pull'[p].since = P.since /\ pull'[p].start = P.start
            /\ pull'[p].seen = P.seen /\ pull'[p].before = id[low] /\ pull'[p].days = P.days
        BY <1>3, <2>2, <4>2 DEF PullState
      <4>4. ASSUME NEW e \in P.seen, id[e] >= id[low] PROVE stored'[e] > 0
        <5>1. e \in Event /\ low \in Event /\ low \in W
          BY <2>3, <2>4, <3>1
        <5>2. CASE e \notin W
          BY <1>3, <2>3, <2>5, <3>1, <5>1, <5>2 DEF PullState
        <5>3. CASE e \in W \ rows
          <6>1. id[e] = id[low]
            BY <1>3, <2>4, <4>4, <5>1, <5>3
          <6>2. e = low
            BY <1>2, <2>3, <5>1, <6>1 DEF SourceInv
          <6> QED BY <5>3, <6>2
        <5> QED BY <2>5, <5>2, <5>3
      <4> QED BY <2>2, <2>5, <3>1, <4>3, <4>4 DEF PullInv
    <3> QED BY <3>2, <3>3
  <2>8. SourceInv' /\ CursorHonest'
    BY <1>2, <2>2, <2>5, HonestKept DEF SourceInv
  <2> QED BY <2>6, <2>7, <2>8
<1>10. ASSUME NEW p \in Puller, Record(p)
       PROVE  SourceInv' /\ CursorHonest' /\ \A q \in Puller : PullInv(q)'
  <2>1. /\ pull[p].pc = "record" /\ Step(p, Idle)
        /\ cursor' = IF p = Task THEN pull[p].start ELSE now
        /\ left' = IF ~pull[p].days THEN left
                   ELSE left \cup {e \in Happened : time[e] <= pull[p].since /\ stored[e] = 0}
        /\ UNCHANGED <<kind, now, time, id, lastId, stored>>
    BY <1>10 DEF Record, sourceVars
  <2>2. /\ pull[p].start \in Nat /\ pull[p].since \in Int
        /\ cursor' <= now /\ cursor' \in Nat
        /\ cursor' <= pull[p].start + MaxPull
    BY <1>2, <1>3, <1>4, <2>1 DEF PullInv, PullState, Puller
  <2>3. SourceInv'
    BY <1>2, <2>1, <2>2 DEF SourceInv
  <2>4. CursorHonest'
    <3> SUFFICES ASSUME NEW e \in Event, time[e] # 0, time[e] <= cursor' - Overlap
                 PROVE  stored[e] > 0 \/ e \in left'
      BY <1>1, <2>1 DEF CursorHonest, Happened, Lookback
    <3>1. pull[p].start > time[e] + MaxDelay
      BY <1>3, <1>4, <2>2 DEF Timely
    <3>2. time[e] <= pull[p].since \/ e \in pull[p].seen
      BY <1>2, <1>3, <1>4, <2>1, <2>2, <3>1 DEF PullInv
    <3>3. CASE e \in pull[p].seen
      BY <1>2, <2>1, <3>3 DEF PullInv
    <3>4. CASE time[e] <= pull[p].since
      <4>1. stored[e] > 0 \/ e \in left \/ pull[p].days
        BY <1>2, <2>1, <3>4 DEF PullInv
      <4>2. e \in Happened /\ (stored[e] > 0 \/ stored[e] = 0)
        BY <1>3 DEF Happened
      <4> QED BY <2>1, <3>4, <4>1, <4>2
    <3> QED BY <3>2, <3>3, <3>4
  <2>5. PullInv(p)'
    BY <2>1, IdleKept
  <2>6. ASSUME NEW q \in Puller \ {p} PROVE PullInv(q)'
    <3>1. pull'[q] = pull[q]
      BY <2>1 DEF Step, TypeOK
    <3> QED BY <1>2, <2>1, <3>1, PullKept
  <2> QED BY <2>3, <2>4, <2>5, <2>6
<1>11. ASSUME NEW p \in Puller, Fail(p)
       PROVE  SourceInv' /\ CursorHonest' /\ \A q \in Puller : PullInv(q)'
  <2>1. Step(p, Idle) /\ UNCHANGED <<kind, now, time, id, lastId, cursor, stored, left>>
    BY <1>11 DEF Fail, sourceVars
  <2>2. SourceInv' /\ CursorHonest'
    BY <1>2, <2>1, HonestKept DEF SourceInv
  <2>3. PullInv(p)'
    BY <2>1, IdleKept
  <2>4. ASSUME NEW q \in Puller \ {p} PROVE PullInv(q)'
    <3>1. pull'[q] = pull[q]
      BY <2>1 DEF Step, TypeOK
    <3> QED BY <1>2, <2>1, <3>1, PullKept
  <2> QED BY <2>2, <2>3, <2>4
<1>12. CASE UNCHANGED vars
  <2>1. UNCHANGED <<kind, now, time, id, lastId, cursor, stored, pull, left>>
    BY <1>12 DEF vars, sourceVars
  <2>2. SourceInv' /\ CursorHonest'
    BY <1>2, <2>1, HonestKept DEF SourceInv
  <2>3. ASSUME NEW q \in Puller PROVE PullInv(q)'
    BY <1>2, <2>1, PullKept
  <2> QED BY <2>2, <2>3
<1>13. ~Reload /\ \A p \in Puller : /\ ~FetchFile(p) /\ ~FetchAccounts(p) /\ ~FetchLogs(p)
                                    /\ ~CheckRows(p) /\ ~CommitRows(p)
  BY <1>1, <1>2 DEF Reload, FetchFile, FetchAccounts, FetchLogs, CheckRows, CommitRows, PullInv
<1> QED
  BY <1>5, <1>6, <1>7, <1>8, <1>9, <1>10, <1>11, <1>12, <1>13 DEF Next, Source, PullStep

LEMMA InitDb == Init => DbInv
BY PullAssumption DEF Init, DbInv, SourceInv, CursorHonest, Happened, PullInv, Idle

\* The database path lets its cursor pass an alert it has not stored only where an
\* operator's window left it out, however late alerts arrive, pulls fail and
\* operators pull in between.
THEOREM CursorIsHonest == ASSUME Timely PROVE Spec => []CursorHonest
<1>1. IInv /\ [Next]_vars => IInv'
  BY Timely, TypeStep, DbStep DEF IInv
<1>2. Init => IInv
  BY InitType, InitDb DEF IInv
<1>3. IInv => CursorHonest
  BY DEF IInv, DbInv, CursorHonest
<1> QED BY <1>1, <1>2, <1>3, PTL DEF Spec

-----------------------------------------------------------------------------
(* Pulls that are through.  Turning pages over a list that only grows, a   *)
(* pull may meet a row twice, but what it has not met is still below the   *)
(* pages it has had.                                                       *)

Listing ==
    /\ cache \subseteq Arrived
    /\ \A e \in Event : (id[e] # 0 => time[e] # 0) /\ id[e] <= lastId
    /\ \A d, e \in Event : id[d] = id[e] /\ id[d] # 0 => d = e

\* The batches are behind it.
BatchesSeen(p) ==
    LET q == pull[p] IN
    /\ q.pc \in {"idle", "fetch", "record"}
    /\ q.pc # "idle" => \A e \in q.seen :
          /\ id[e] # 0 /\ time[e] > q.since
          /\ q.pc = "record" \/ (q.before # 0 /\ id[e] >= q.before) => stored[e] > 0

\* The rows the log has above e.
Over(e) == {x \in cache : time[x] > time[e]}

\* What is on none of the pages up to this one comes on a later one.
StillBelow(e, q) == Cardinality(Over(e)) >= q.page * PageSize /\ q.page * PageSize < q.total
                /\ Cardinality(q.rows) >= PageSize

PagesSeen(p) ==
    LET q == pull[p] IN
    q.pc # "idle" => \A e \in q.seen :
        /\ e \in cache /\ time[e] > q.since
        /\ Alone(e) /\ stored[e] = 0 =>
              /\ q.pc # "record"
              /\ q.pc = "fetch" => Cardinality(Over(e)) >= (q.page - 1) * PageSize
              /\ q.pc = "check" => e \in q.rows \/ StillBelow(e, q)
              /\ q.pc = "commit" => e \in q.fresh \/ StillBelow(e, q)

SeenInv ==
    /\ Listing
    /\ kind = "account_db" => \A p \in Puller : BatchesSeen(p)
    /\ kind = "parasitic" /\ Cardinality(Arrived) <= CacheSize => \A p \in Puller : PagesSeen(p)

LEMMA OverFacts ==
    ASSUME TypeOK, Listing, NEW e \in Event
    PROVE  IsFiniteSet(Over(e)) /\ Cardinality(Over(e)) \in Nat /\ Over(e) \subseteq cache
BY Listed DEF TypeOK, Over

\* What a page does not have of the rows below the pages before is below it, too, and
\* then the page is full and not the last.
LEMMA NotOnThePage ==
    ASSUME kind = "parasitic", TypeOK, NEW page \in Nat \ {0}, NEW rows \in Pages(cache, page),
           NEW e \in cache \ rows, Alone(e), Cardinality(Over(e)) >= (page - 1) * PageSize
    PROVE  /\ Cardinality(Over(e)) >= page * PageSize /\ page * PageSize < Cardinality(cache)
           /\ Cardinality(rows) >= PageSize /\ rows # {}
<1> DEFINE m == (page - 1) * PageSize
           n == page * PageSize
           A == Over(e)
<1>1. PageSize \in Nat \ {0} /\ m \in Nat /\ n \in Nat /\ n = m + PageSize
  <2>1. PageSize \in Nat \ {0} /\ page - 1 \in Nat
    BY PullAssumption
  <2>2. \A a, b \in Nat : a * b \in Nat
    OBVIOUS
  <2>3. \A a, b \in Nat : a * b = (a - 1) * b + b
    OBVIOUS
  <2> QED BY <2>1, <2>2, <2>3
<1>2. PICK D \in Heads(cache, m) \X Heads(cache, n) : D[1] \subseteq D[2] /\ rows = D[2] \ D[1]
  BY DEF Pages
<1> DEFINE D1 == D[1]
           D2 == D[2]
<1>3. cache \subseteq Event /\ IsFiniteSet(cache) /\ Cardinality(cache) \in Nat
  BY Listed DEF TypeOK
<1>4. /\ D1 \subseteq cache /\ D2 \subseteq cache /\ D1 \subseteq D2 /\ rows = D2 \ D1
      /\ Cardinality(D1) = IF Cardinality(cache) < m THEN Cardinality(cache) ELSE m
      /\ Cardinality(D2) = IF Cardinality(cache) < n THEN Cardinality(cache) ELSE n
      /\ \A x \in D1, y \in cache \ D1 : ~Above(y, x)
      /\ \A x \in D2, y \in cache \ D2 : ~Above(y, x)
  BY <1>2 DEF Heads
<1>5. \A x, y : Above(x, y) <=> time[x] > time[y]
  BY DEF Above
<1>6. \A x \in Event : time[x] \in Nat
  BY DEF TypeOK
<1>7. A \subseteq cache /\ A = {x \in cache : time[x] > time[e]} /\ e \in cache /\ Cardinality(A) >= m
  BY DEF Over
<1> HIDE DEF m, n, A, D1, D2
<1>8. /\ IsFiniteSet(A) /\ IsFiniteSet(D1) /\ IsFiniteSet(D2)
      /\ Cardinality(A) \in Nat /\ Cardinality(D1) \in Nat /\ Cardinality(D2) \in Nat
  BY <1>3, <1>4, <1>7, FS_Subset, FS_CardinalityType
<1>9. e \notin A
  BY <1>3, <1>6, <1>7
<1>10. IsFiniteSet(A \cup {e}) /\ Cardinality(A \cup {e}) = Cardinality(A) + 1
  BY <1>8, <1>9, FS_AddElement
<1>11. e \notin D1
  <2> SUFFICES ASSUME e \in D1 PROVE FALSE
    OBVIOUS
  <2>1. A \cup {e} \subseteq D1
    BY <1>4, <1>5, <1>7
  <2>2. Cardinality(A) + 1 <= Cardinality(D1)
    BY <1>8, <1>10, <2>1, FS_Subset
  <2>3. Cardinality(D1) <= m
    BY <1>1, <1>3, <1>4
  <2> QED BY <1>1, <1>7, <1>8, <2>2, <2>3
<1>12. e \notin D2
  BY <1>4, <1>11
<1>13. D2 \subseteq A
  <2> SUFFICES ASSUME NEW x \in D2 PROVE x \in A
    OBVIOUS
  <2>1. x \in cache /\ ~(time[e] > time[x])
    BY <1>4, <1>5, <1>7, <1>12
  <2>2. time[x] # time[e]
    BY <1>3, <1>12, <2>1 DEF Alone
  <2> QED BY <1>3, <1>6, <1>7, <2>1, <2>2
<1>14. Cardinality(D2) <= Cardinality(A)
  BY <1>8, <1>13, FS_Subset
<1>15. Cardinality(A) + 1 <= Cardinality(cache)
  <2>1. A \cup {e} \subseteq cache
    BY <1>7
  <2> QED BY <1>3, <1>10, <2>1, FS_Subset
<1>16. /\ Cardinality(D2) = n /\ Cardinality(A) >= n /\ n < Cardinality(cache)
       /\ Cardinality(D1) = m
  BY <1>1, <1>3, <1>4, <1>8, <1>14, <1>15
<1>17. Cardinality(rows) = Cardinality(D2) - Cardinality(D2 \cap D1)
  BY <1>4, <1>8, FS_Difference
<1>18. D2 \cap D1 = D1
  BY <1>4
<1>19. Cardinality(rows) = PageSize
  <2>1. Cardinality(D2 \cap D1) = m
    BY <1>16, <1>18
  <2>2. Cardinality(rows) = n - m
    BY <1>16, <1>17, <2>1
  <2> QED BY <1>1, <2>2
<1>20. rows # {}
  BY <1>1, <1>19, FS_EmptySet
<1> QED BY <1>1, <1>16, <1>19, <1>20 DEF m, n, A

\* More rows in the log leave no fewer above one of them.
LEMMA OverGrows ==
    ASSUME TypeOK, TypeOK', NEW e \in Event, e \in cache, cache \subseteq cache',
           \A d \in cache : time'[d] = time[d]
    PROVE  Cardinality(Over(e)) <= Cardinality(Over(e)')
<1>1. Over(e) \subseteq Over(e)'
  BY DEF Over
<1>2. cache' \subseteq Event /\ IsFiniteSet(cache') /\ Over(e)' \subseteq cache'
  BY PullAssumption, FS_Subset DEF TypeOK, Over
<1> QED BY <1>1, <1>2, FS_Subset

\* What a pull knows of the pages lasts while the log grows and rows are stored.
LEMMA PagesKept ==
    ASSUME TypeOK, TypeOK', Listing, NEW q \in Puller, PagesSeen(q), pull'[q] = pull[q],
           cache \subseteq cache', \A d \in Event : time[d] # 0 => time'[d] = time[d],
           \A d \in Event : stored'[d] = 0 => stored[d] = 0
    PROVE  PagesSeen(q)'
<1> SUFFICES ASSUME pull[q].pc # "idle", NEW e \in pull[q].seen
             PROVE  /\ e \in cache' /\ time'[e] > pull[q].since
                    /\ Alone(e)' /\ stored'[e] = 0 =>
                          /\ pull[q].pc # "record"
                          /\ pull[q].pc = "fetch" =>
                                Cardinality(Over(e)') >= (pull[q].page - 1) * PageSize
                          /\ pull[q].pc = "check" => e \in pull[q].rows \/ StillBelow(e, pull[q])'
                          /\ pull[q].pc = "commit" => e \in pull[q].fresh \/ StillBelow(e, pull[q])'
  BY DEF PagesSeen
<1>1. e \in Event /\ e \in cache /\ time[e] > pull[q].since /\ pull[q] \in PullState
  BY DEF PagesSeen, TypeOK, PullState
<1>2. \A d \in cache : d \in Event /\ time[d] # 0 /\ time'[d] = time[d]
  BY DEF Listing, Arrived
<1>3. Cardinality(Over(e)) <= Cardinality(Over(e)') /\ Cardinality(Over(e)) \in Nat
      /\ Cardinality(Over(e)') \in Nat
  <2>1. IsFiniteSet(Over(e)')
    BY PullAssumption, FS_Subset DEF TypeOK, Over
  <2> QED BY <1>1, <1>2, <2>1, OverGrows, OverFacts, FS_CardinalityType
<1>4. Alone(e)' => Alone(e)
  BY <1>1, <1>2 DEF Alone, TypeOK
<1>5. StillBelow(e, pull[q]) => StillBelow(e, pull[q])'
  <2>1. pull[q].page * PageSize \in Nat
    <3>1. pull[q].page \in Nat /\ PageSize \in Nat
      BY <1>1, PullAssumption DEF PullState
    <3>2. \A a, b \in Nat : a * b \in Nat
      OBVIOUS
    <3> QED BY <3>1, <3>2
  <2> QED BY <1>3, <2>1 DEF StillBelow
<1>6. (pull[q].page - 1) * PageSize \in Nat
  <2>1. pull[q].page - 1 \in Nat /\ PageSize \in Nat
    BY <1>1, PullAssumption DEF PullState
  <2>2. \A a, b \in Nat : a * b \in Nat
    OBVIOUS
  <2> QED BY <2>1, <2>2
<1> QED BY <1>1, <1>2, <1>3, <1>4, <1>5, <1>6 DEF PagesSeen

\* The log and its ids.
LEMMA ListingStep == ASSUME TypeOK, Listing, [Next]_vars PROVE Listing'
<1>0. lastId \in Nat /\ now # 0 /\ \A e \in Event : time[e] \in Nat /\ id[e] \in Nat
  BY DEF TypeOK
<1>1. ASSUME NEW e \in Event, Trigger(e) PROVE Listing'
  <2>1. /\ time[e] = 0 /\ time'[e] = now /\ \A d \in Event \ {e} : time'[d] = time[d]
        /\ UNCHANGED <<id, lastId, cache>>
    BY <1>1 DEF Trigger, TypeOK
  <2> QED BY <1>0, <2>1 DEF Listing, Arrived
<1>2. ASSUME NEW e \in Event, Arrive(e) PROVE Listing'
  <2>1. /\ time[e] # 0 /\ id[e] = 0 /\ lastId' = lastId + 1 /\ id'[e] = lastId + 1
        /\ \A d \in Event \ {e} : id'[d] = id[d]
        /\ UNCHANGED <<time, cache>>
    BY <1>2 DEF Arrive, TypeOK
  <2>2. cache \subseteq Arrived'
    BY <1>0, <2>1 DEF Listing, Arrived
  <2> QED BY <1>0, <2>1, <2>2 DEF Listing
<1>3. CASE Reload
  <2>1. cache' \subseteq Arrived /\ UNCHANGED <<time, id, lastId>>
    BY <1>3 DEF Reload
  <2> QED BY <2>1 DEF Listing, Arrived
<1>4. CASE UNCHANGED <<time, id, lastId, cache>>
  BY <1>4 DEF Listing, Arrived
<1> QED
  BY <1>1, <1>2, <1>3, <1>4 DEF Next, Source, PullStep, Tick, StartPull, FetchFile, FetchAccounts,
     FetchLogs, CheckRows, CommitRows, SyncBatch, Record, Fail, vars, sourceVars

\* What the source shows stays as it is, and so do the rows of the table.
LEMMA NothingGoes ==
    ASSUME TypeOK, Listing, [Next]_vars
    PROVE  /\ kind' = kind
           /\ \A d \in Event : time[d] # 0 => time'[d] = time[d]
           /\ \A d \in Event : id[d] # 0 => id'[d] = id[d] /\ time'[d] = time[d]
           /\ \A d \in Event : stored[d] > 0 => stored'[d] > 0
<1>1. kind' = kind
  BY DEF Next, Source, PullStep, Trigger, Arrive, Reload, Tick, StartPull, FetchFile,
     FetchAccounts, FetchLogs, CheckRows, CommitRows, SyncBatch, Record, Fail, vars
<1>2. \A d \in Event : time[d] # 0 => time'[d] = time[d]
  BY DEF TypeOK, Next, Source, PullStep, Trigger, Arrive, Reload, Tick, StartPull, FetchFile,
     FetchAccounts, FetchLogs, CheckRows, CommitRows, SyncBatch, Record, Fail, vars, sourceVars
<1>3. \A d \in Event : id[d] # 0 => id'[d] = id[d]
  BY DEF TypeOK, Next, Source, PullStep, Trigger, Arrive, Reload, Tick, StartPull, FetchFile,
     FetchAccounts, FetchLogs, CheckRows, CommitRows, SyncBatch, Record, Fail, vars, sourceVars
<1>4. \A d \in Event : stored[d] > 0 => stored'[d] > 0
  <2>1. ASSUME NEW rows, stored' = [e \in Event |-> IF e \in rows /\ stored[e] = 0
                                                    THEN 1 ELSE stored[e]]
        PROVE  \A d \in Event : stored[d] > 0 => stored'[d] > 0
    BY <2>1
  <2>2. CASE UNCHANGED stored
    BY <2>2
  <2>3. UNCHANGED stored \/ \E rows : stored' = [e \in Event |-> IF e \in rows /\ stored[e] = 0
                                                                THEN 1 ELSE stored[e]]
    BY DEF Next, Source, PullStep, Trigger, Arrive, Reload, Tick, StartPull, FetchFile,
     FetchAccounts, FetchLogs, CheckRows, CommitRows, SyncBatch, Record, Fail, vars
  <2> QED BY <2>1, <2>2, <2>3
<1> QED BY <1>1, <1>2, <1>3, <1>4 DEF Listing

\* A step that is not of a pull leaves the pulls as they are; one of a pull, the others.
LEMMA OnePull ==
    ASSUME TypeOK, [Next]_vars
    PROVE  \/ UNCHANGED <<pull, stored>>
           \/ \E p \in Puller :
                 /\ StartPull(p) \/ PullStep(p) \/ Fail(p)
                 /\ \A q \in Puller \ {p} : pull'[q] = pull[q]
<1>1. ASSUME NEW p \in Puller, StartPull(p) \/ PullStep(p) \/ Fail(p)
      PROVE  \A q \in Puller \ {p} : pull'[q] = pull[q]
  <2>1. \E new : Step(p, new)
    BY <1>1, Zenon DEF PullStep, StartPull, FetchFile, FetchAccounts, FetchLogs, CheckRows, CommitRows,
       SyncBatch, Record, Fail
  <2> QED BY <2>1 DEF Step, TypeOK
<1>2. Source \/ Tick \/ UNCHANGED vars => UNCHANGED <<pull, stored>>
  BY DEF Source, Trigger, Arrive, Reload, Tick, vars
<1> QED BY <1>1, <1>2 DEF Next

LEMMA BatchesStep ==
    ASSUME TypeOK, TypeOK', Listing, [Next]_vars, kind = "account_db", NEW q \in Puller, BatchesSeen(q)
    PROVE  BatchesSeen(q)'
<1>1. /\ \A e \in Event : id[e] \in Nat /\ time[e] \in Nat /\ stored[e] \in Nat
      /\ pull[q] \in PullState /\ pull[q].seen \subseteq Event
  BY DEF TypeOK, PullState
<1>2. CASE pull'[q] = pull[q]
  <2>1. \A e \in pull[q].seen : id[e] # 0 => id'[e] = id[e] /\ time'[e] = time[e]
    BY <1>1, NothingGoes
  <2>2. \A e \in pull[q].seen : stored[e] > 0 => stored'[e] > 0
    BY <1>1, NothingGoes
  <2> QED BY <1>2, <2>1, <2>2 DEF BatchesSeen
<1>3. ASSUME Step(q, Idle) PROVE BatchesSeen(q)'
  <2>1. pull'[q] = Idle
    BY <1>3, IdleType, StepType
  <2> QED BY <2>1 DEF BatchesSeen, Idle
<1>4. CASE StartPull(q)
  <2>1. PICK from : Step(q, [Idle EXCEPT !.pc = "fetch", !.days = from # cursor,
                               !.since = from - Lookback, !.start = now,
                               !.seen = Newer(from - Lookback)])
    BY <1>4 DEF StartPull
  <2> DEFINE new == [Idle EXCEPT !.pc = "fetch", !.days = from # cursor,
                               !.since = from - Lookback, !.start = now,
                               !.seen = Newer(from - Lookback)]
  <2>2. pull'[q] = new /\ UNCHANGED <<time, id, stored>>
    BY <1>4, <2>1 DEF StartPull, Step, TypeOK, sourceVars
  <2>3. /\ new.pc = "fetch" /\ new.since = from - Lookback /\ new.before = 0
        /\ new.seen = Newer(from - Lookback)
    BY DEF Idle
  <2> HIDE DEF new
  <2>4. \A e \in new.seen : id[e] # 0 /\ time[e] > new.since
    BY <2>3 DEF Newer, Visible, Arrived
  <2> QED BY <2>2, <2>3, <2>4 DEF BatchesSeen
<1>5. CASE SyncBatch(q)
  <2> DEFINE W == {e \in Newer(pull[q].since) : Below(e, pull[q].before)}
  <2>1. PICK rows \in Heads(W, PageSize) :
          /\ stored' = [e \in Event |-> IF e \in rows /\ stored[e] = 0 THEN 1 ELSE stored[e]]
          /\ IF rows = {} THEN Step(q, [pull[q] EXCEPT !.pc = "record"])
             ELSE \E last \in {id[e] : e \in rows} :
                     /\ \A e \in rows : last <= id[e]
                     /\ Step(q, [pull[q] EXCEPT !.before = last])
    BY <1>5 DEF SyncBatch
  <2>2. /\ pull[q].pc = "fetch" /\ UNCHANGED <<time, id>>
    BY <1>5 DEF SyncBatch, sourceVars
  <2>3. W \subseteq Event /\ \A e \in pull[q].seen : /\ id[e] # 0 /\ time[e] > pull[q].since
                                                     /\ e \in Newer(pull[q].since)
    BY <1>1, <2>2, NewerListed DEF BatchesSeen, Newer, Visible, Arrived
  <2>4. /\ rows \subseteq W /\ (rows = {} => W = {})
        /\ \A x \in rows, y \in W \ rows : ~(id[y] > id[x])
    BY <2>1, <2>3, BatchFacts
  <2>5. \A e \in Event : (stored[e] > 0 \/ e \in rows) => stored'[e] > 0
    BY <1>1, <2>1
  <2>6. \A e \in pull[q].seen \ W : stored[e] > 0
    <3>1. pull[q].before \in Nat
      BY <1>1 DEF PullState
    <3> QED BY <1>1, <2>2, <2>3, <3>1 DEF Below, BatchesSeen
  <2>7. CASE rows = {}
    <3>1. pull'[q] = [pull[q] EXCEPT !.pc = "record"]
      BY <2>1, <2>7 DEF Step, TypeOK
    <3>2. pull'[q].pc = "record" /\ pull'[q].seen = pull[q].seen /\ pull'[q].since = pull[q].since
      BY <1>1, <3>1 DEF PullState
    <3> QED BY <1>1, <2>2, <2>3, <2>4, <2>5, <2>6, <2>7, <3>2 DEF BatchesSeen
  <2>8. CASE rows # {}
    <3>1. PICK x \in rows : /\ \A e \in rows : id[x] <= id[e]
                            /\ Step(q, [pull[q] EXCEPT !.before = id[x]])
      BY <2>1, <2>8
    <3>2. pull'[q] = [pull[q] EXCEPT !.before = id[x]]
      BY <3>1 DEF Step, TypeOK
    <3>3. /\ pull'[q].pc = "fetch" /\ pull'[q].seen = pull[q].seen /\ pull'[q].since = pull[q].since
          /\ pull'[q].before = id[x]
      BY <1>1, <2>2, <3>2 DEF PullState
    <3>4. \A e \in pull[q].seen : id[e] >= id[x] => stored'[e] > 0
      <4> SUFFICES ASSUME NEW e \in pull[q].seen, id[e] >= id[x] PROVE stored'[e] > 0
        OBVIOUS
      <4>1. CASE e \notin W
        BY <1>1, <2>5, <2>6, <4>1
      <4>2. CASE e \in rows
        BY <1>1, <2>5, <4>2
      <4>3. CASE e \in W \ rows
        <5>1. ~(id[e] > id[x]) /\ x \in Event /\ e \in Event
          BY <1>1, <2>3, <2>4, <4>3
        <5>2. id[e] = id[x] /\ id[e] # 0
          BY <1>1, <2>3, <5>1
        <5> QED BY <4>3, <5>1, <5>2 DEF Listing
      <4> QED BY <4>1, <4>2, <4>3
    <3> QED BY <2>2, <2>3, <3>3, <3>4 DEF BatchesSeen
  <2> QED BY <2>7, <2>8
<1>6. CASE Record(q) \/ Fail(q)
  BY <1>3, <1>6 DEF Record, Fail
<1>7. /\ ~FetchFile(q) /\ ~FetchAccounts(q) /\ ~FetchLogs(q) /\ ~CheckRows(q) /\ ~CommitRows(q)
  BY DEF FetchFile, FetchAccounts, FetchLogs, CheckRows, CommitRows, BatchesSeen
<1> QED BY <1>2, <1>4, <1>5, <1>6, <1>7, OnePull DEF PullStep

LEMMA PagesStep ==
    ASSUME TypeOK, TypeOK', Listing, [Next]_vars, kind = "parasitic",
           Cardinality(Arrived') <= CacheSize, NEW q \in Puller, PagesSeen(q)
    PROVE  PagesSeen(q)'
<1> DEFINE old == pull[q]
<1>1. /\ \A e \in Event : id[e] \in Nat /\ time[e] \in Nat /\ stored[e] \in Nat
      /\ old \in PullState /\ old.seen \subseteq Event /\ old.page \in Nat \ {0}
      /\ cache \subseteq Event /\ PageSize \in Nat \ {0}
  BY PullAssumption DEF TypeOK, PullState
<1>2. cache \subseteq cache'
  <2>1. CASE cache' = cache
    BY <2>1
  <2>2. CASE Reload
    <3>1. PICK D \in SUBSET Arrived :
             /\ cache' = D
             /\ Cardinality(D) = IF Cardinality(Arrived) < CacheSize
                                 THEN Cardinality(Arrived) ELSE CacheSize
      BY <2>2 DEF Reload
    <3>2. Arrived' = Arrived
      BY <2>2 DEF Reload, Arrived
    <3>3. IsFiniteSet(Arrived) /\ Cardinality(Arrived) \in Nat
      BY Listed DEF Arrived
    <3>4. Cardinality(D) = Cardinality(Arrived)
      BY <3>1, <3>2, <3>3, PullAssumption
    <3>5. D = Arrived
      BY <3>3, <3>4, FS_Subset
    <3> QED BY <3>1, <3>5 DEF Listing
  <2>3. cache' = cache \/ Reload
    BY DEF Next, Source, PullStep, Trigger, Arrive, Tick, StartPull, FetchFile, FetchAccounts,
       FetchLogs, CheckRows, CommitRows, SyncBatch, Record, Fail, vars, sourceVars
  <2> QED BY <2>1, <2>2, <2>3
<1>3. CASE pull'[q] = pull[q]
  <2>1. \A d \in Event : stored'[d] = 0 => stored[d] = 0
    <3>1. \A d \in Event : stored[d] > 0 => stored'[d] > 0
      BY NothingGoes
    <3> QED BY <1>1, <3>1
  <2> QED BY <1>2, <1>3, <2>1, NothingGoes, PagesKept
<1>4. ASSUME Step(q, Idle) PROVE PagesSeen(q)'
  <2>1. pull'[q] = Idle
    BY <1>4, IdleType, StepType
  <2> QED BY <2>1 DEF PagesSeen, Idle
<1>5. ASSUME UNCHANGED <<time, cache>>
      PROVE  \A e : Over(e)' = Over(e) /\ (Alone(e)' <=> Alone(e))
  BY <1>5 DEF Over, Alone
<1>6. CASE StartPull(q)
  <2>1. PICK from : Step(q, [Idle EXCEPT !.pc = "fetch", !.days = from # cursor,
                               !.since = from - Lookback, !.start = now,
                               !.seen = Newer(from - Lookback)])
    BY <1>6 DEF StartPull
  <2> DEFINE new == [Idle EXCEPT !.pc = "fetch", !.days = from # cursor,
                               !.since = from - Lookback, !.start = now,
                               !.seen = Newer(from - Lookback)]
  <2>2. pull'[q] = new /\ UNCHANGED <<time, cache, stored>>
    BY <1>6, <2>1 DEF StartPull, Step, TypeOK, sourceVars
  <2>3. /\ new.pc = "fetch" /\ new.since = from - Lookback /\ new.page = 1
        /\ new.seen = Newer(from - Lookback)
    BY DEF Idle
  <2> HIDE DEF new
  <2>4. \A e \in new.seen : e \in cache /\ time[e] > new.since
    BY <2>3 DEF Newer, Visible
  <2>5. (1 - 1) * PageSize = 0
    BY <1>1
  <2>6. \A e \in new.seen : Cardinality(Over(e)) >= (1 - 1) * PageSize
    <3>1. \A e \in new.seen : Cardinality(Over(e)) \in Nat
      BY <1>1, <2>4, OverFacts
    <3> QED BY <2>5, <3>1
  <2> QED BY <1>5, <2>2, <2>3, <2>4, <2>6 DEF PagesSeen
<1>7. CASE FetchLogs(q)
  <2>1. PICK rows \in Pages(cache, old.page) :
           \/ /\ rows # {}
              /\ Step(q, [old EXCEPT !.pc = "check", !.rows = rows, !.total = Cardinality(cache)])
           \/ rows = {} /\ Step(q, [old EXCEPT !.pc = "record"])
    BY <1>7 DEF FetchLogs
  <2>2. old.pc = "fetch" /\ UNCHANGED <<time, cache, stored>>
    BY <1>7 DEF FetchLogs, sourceVars
  <2>3. \A e \in old.seen : e \in cache /\ time[e] > old.since
    BY <2>2 DEF PagesSeen
  <2>4. ASSUME NEW e \in old.seen, Alone(e), stored[e] = 0, e \notin rows
        PROVE  /\ Cardinality(Over(e)) >= old.page * PageSize
               /\ old.page * PageSize < Cardinality(cache)
               /\ Cardinality(rows) >= PageSize /\ rows # {}
    <3>1. Cardinality(Over(e)) >= (old.page - 1) * PageSize
      BY <2>2, <2>4 DEF PagesSeen
    <3>2. e \in cache \ rows
      BY <2>3, <2>4
    <3> QED BY <1>1, <2>4, <3>1, <3>2, NotOnThePage
  <2>5. CASE rows = {}
    <3>1. pull'[q] = [old EXCEPT !.pc = "record"]
      BY <2>1, <2>5 DEF Step, TypeOK
    <3>2. pull'[q].pc = "record" /\ pull'[q].seen = old.seen /\ pull'[q].since = old.since
      BY <1>1, <3>1 DEF PullState
    <3>3. \A e \in old.seen : ~(Alone(e) /\ stored[e] = 0)
      BY <2>4, <2>5
    <3> QED BY <1>5, <2>2, <2>3, <3>2, <3>3 DEF PagesSeen
  <2>6. CASE rows # {}
    <3> DEFINE new == [old EXCEPT !.pc = "check", !.rows = rows, !.total = Cardinality(cache)]
    <3>1. pull'[q] = new
      BY <2>1, <2>6 DEF Step, TypeOK
    <3>2. /\ new.pc = "check" /\ new.rows = rows /\ new.total = Cardinality(cache)
          /\ new.seen = old.seen /\ new.since = old.since /\ new.page = old.page
      BY <1>1 DEF PullState
    <3> HIDE DEF new, old
    <3>3. ASSUME NEW e \in new.seen, Alone(e), stored[e] = 0, e \notin rows PROVE StillBelow(e, new)
      BY <2>4, <3>2, <3>3 DEF StillBelow
    <3>4. \A e \in new.seen : Alone(e) /\ stored[e] = 0 /\ e \notin rows =>
              /\ Cardinality(Over(e)') >= pull'[q].page * PageSize
              /\ pull'[q].page * PageSize < pull'[q].total /\ Cardinality(pull'[q].rows) >= PageSize
      BY <1>5, <2>2, <3>1, <3>3 DEF StillBelow
    <3> QED BY <1>5, <2>2, <2>3, <3>1, <3>2, <3>4 DEF PagesSeen, StillBelow
  <2> QED BY <2>5, <2>6
<1>8. CASE CheckRows(q)
  <2> DEFINE new == [old EXCEPT !.pc = "commit",
                       !.fresh = {e \in old.rows : time[e] > old.since /\ stored[e] = 0}]
  <2>1. pull'[q] = new /\ old.pc = "check" /\ UNCHANGED <<time, cache, stored>>
    BY <1>8 DEF CheckRows, Step, TypeOK, sourceVars
  <2>2. /\ new.pc = "commit" /\ new.seen = old.seen /\ new.since = old.since /\ new.page = old.page
        /\ new.rows = old.rows /\ new.total = old.total
        /\ new.fresh = {e \in old.rows : time[e] > old.since /\ stored[e] = 0}
    BY <1>1 DEF PullState
  <2>3. \A e \in old.seen : /\ e \in cache /\ time[e] > old.since
                            /\ Alone(e) /\ stored[e] = 0 => e \in old.rows \/ StillBelow(e, old)
    BY <2>1 DEF PagesSeen
  <2> HIDE DEF new, old
  <2>4. \A e \in new.seen : Alone(e) /\ stored[e] = 0 /\ e \notin new.fresh =>
            /\ Cardinality(Over(e)') >= pull'[q].page * PageSize
            /\ pull'[q].page * PageSize < pull'[q].total /\ Cardinality(pull'[q].rows) >= PageSize
    BY <1>5, <2>1, <2>2, <2>3 DEF StillBelow
  <2> QED BY <1>5, <2>1, <2>2, <2>3, <2>4 DEF PagesSeen, StillBelow
<1>9. CASE CommitRows(q)
  <2>1. CASE Step(q, Idle)
    BY <1>4, <2>1
  <2>2. CASE ~Step(q, Idle)
    <3>1. /\ stored' = [e \in Event |-> IF e \in old.fresh /\ stored[e] = 0 THEN 1 ELSE stored[e]]
          /\ pull'[q] = NextPage(q) /\ old.pc = "commit" /\ UNCHANGED <<time, cache>>
      BY <1>9, <2>2 DEF CommitRows, Step, TypeOK, sourceVars
    <3>2. \A e \in old.seen : /\ e \in cache /\ time[e] > old.since
                              /\ Alone(e) /\ stored[e] = 0 => e \in old.fresh \/ StillBelow(e, old)
      BY <3>1 DEF PagesSeen
    <3>3. \A e \in old.seen : stored'[e] = 0 => stored[e] = 0 /\ e \notin old.fresh
      BY <1>1, <3>1
    <3>4. Cardinality(old.rows) \in Nat /\ old.total \in Nat /\ old.page * PageSize \in Nat
      <4>1. old.rows \subseteq Event /\ old.total \in Nat
        BY <1>1 DEF PullState
      <4>2. \A a, b \in Nat : a * b \in Nat
        OBVIOUS
      <4> QED BY <1>1, <4>1, <4>2, Listed
    <3>5. \A e : StillBelow(e, old) => ~Through(q)
      BY <1>1, <3>4 DEF StillBelow, Through
    <3>6. CASE Through(q)
      <4>1. pull'[q] = [old EXCEPT !.pc = "record", !.rows = {}, !.fresh = {}]
        BY <3>1, <3>6 DEF NextPage
      <4>2. pull'[q].pc = "record" /\ pull'[q].seen = old.seen /\ pull'[q].since = old.since
        BY <1>1, <4>1 DEF PullState
      <4> QED BY <1>5, <3>1, <3>2, <3>3, <3>5, <3>6, <4>2 DEF PagesSeen
    <3>7. CASE ~Through(q)
      <4>1. pull'[q] = [old EXCEPT !.pc = "fetch", !.page = @ + 1, !.rows = {}, !.fresh = {},
                          !.received = @ + Cardinality(old.rows)]
        BY <3>1, <3>7 DEF NextPage
      <4>2. /\ pull'[q].pc = "fetch" /\ pull'[q].seen = old.seen /\ pull'[q].since = old.since
            /\ pull'[q].page = old.page + 1
        BY <1>1, <4>1 DEF PullState
      <4>3. (old.page + 1) - 1 = old.page
        BY <1>1
      <4>4. \A e \in old.seen : Alone(e) /\ stored'[e] = 0 =>
                Cardinality(Over(e)') >= (pull'[q].page - 1) * PageSize
        BY <1>5, <3>1, <3>2, <3>3, <4>2, <4>3 DEF StillBelow
      <4> QED BY <1>5, <3>1, <3>2, <4>2, <4>4 DEF PagesSeen
    <3> QED BY <3>6, <3>7
  <2> QED BY <2>1, <2>2
<1>10. CASE Record(q) \/ Fail(q)
  BY <1>4, <1>10 DEF Record, Fail
<1>11. ~FetchFile(q) /\ ~FetchAccounts(q) /\ ~SyncBatch(q)
  BY DEF FetchFile, FetchAccounts, SyncBatch
<1> QED BY <1>3, <1>6, <1>7, <1>8, <1>9, <1>10, <1>11, OnePull DEF PullStep

LEMMA SeenStep == TypeOK /\ TypeOK' /\ SeenInv /\ [Next]_vars => SeenInv'
<1> SUFFICES ASSUME TypeOK, TypeOK', SeenInv, [Next]_vars PROVE SeenInv'
  OBVIOUS
<1>1. Listing' /\ kind' = kind
  BY ListingStep, NothingGoes DEF SeenInv
<1>2. kind = "account_db" => \A p \in Puller : BatchesSeen(p)'
  BY BatchesStep DEF SeenInv
<1>3. kind = "parasitic" /\ Cardinality(Arrived') <= CacheSize => \A p \in Puller : PagesSeen(p)'
  <2> SUFFICES ASSUME kind = "parasitic", Cardinality(Arrived') <= CacheSize
               PROVE  \A p \in Puller : PagesSeen(p)'
    OBVIOUS
  <2>1. Arrived \subseteq Arrived' /\ Arrived \subseteq Event /\ Arrived' \subseteq Event
    BY NothingGoes DEF Arrived, SeenInv
  <2>2. /\ IsFiniteSet(Arrived') /\ Cardinality(Arrived') \in Nat
        /\ Cardinality(Arrived) \in Nat
    BY <2>1, Listed
  <2>3. Cardinality(Arrived) <= CacheSize
    BY <2>1, <2>2, FS_Subset, PullAssumption
  <2> QED BY <2>3, PagesStep DEF SeenInv
<1> QED BY <1>1, <1>2, <1>3 DEF SeenInv

LEMMA InitSeen == Init => SeenInv
BY PullAssumption DEF Init, SeenInv, Listing, Arrived, BatchesSeen, PagesSeen, Idle

\* A pull that is through has stored what the source showed when it started, batch by
\* batch of descending ids or page by page of a log that grows meanwhile, whatever
\* arrives, fails or is pulled beside it (sync_account_alert_batch, get_parasitic_alert).
THEOREM PullsAreComplete == Spec => []PullComplete
<1>1. TypeOK /\ SeenInv => PullComplete
  <2> SUFFICES ASSUME TypeOK, SeenInv PROVE PullComplete
    OBVIOUS
  <2>1. \A p \in Puller : pull[p].seen \subseteq Event
    BY DEF TypeOK, PullState
  <2>2. \A e \in Event : stored[e] = 0 \/ stored[e] > 0
    BY DEF TypeOK
  <2> QED BY <2>1, <2>2 DEF SeenInv, PullComplete, BatchesSeen, PagesSeen
<1> QED BY <1>1, InitType, TypeStep, InitSeen, SeenStep, PTL DEF Spec
=============================================================================
