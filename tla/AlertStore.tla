------------------------------ MODULE AlertStore ------------------------------
(***************************************************************************)
(* The unified alert store of systemwire2 (alert_store.py) and the pulls   *)
(* that fill it.  An alert is kept twice: as a row of the table of its     *)
(* kind, and in an event, which stands for all alerts of one logical key   *)
(* in one span of time and has a unique dedupe key.                        *)
(*                                                                         *)
(* A pull checks each alert against the rows, inserts a row, and reads and *)
(* rewrites the event; nothing is locked, and everything is committed at   *)
(* the end.  PostgreSQL shows a statement what was committed when it began *)
(* (read committed); an UPDATE writes the columns whose value changed.     *)
(*                                                                         *)
(* AlertPull has the requests, pages and cursors that decide which alerts  *)
(* a pull gets; here it gets any of those that arrived, newest first.      *)
(***************************************************************************)
EXTENDS Integers, FiniteSets, SequencesExt

CONSTANTS
    Alert,    \* [kind, key, sub, time]: sub is what the events of a kind tell apart
              \* and its rows do not (the message, the session), or the other way
              \* round (the password of an account alert)
    Puller,   \* the scheduled task and the operators' requests
    Window,   \* 60 seconds
    Place,    \* where a honeyfile is deployed, as its rows tell
    None,
    MaxBatch, \* bound on the alerts of one pull
    MaxRows,  \* bound on the rows
    MaxFaults \* bound on restarts and changes of the deployment

ASSUME StoreAssumption ==
    /\ Alert \subseteq [kind : {"file", "account", "parasitic"}, key : STRING,
                        sub : STRING, time : Nat]
    /\ IsFiniteSet(Alert) /\ Window \in Nat \ {0} /\ None \notin Place /\ None \notin Alert
    /\ MaxBatch \in Nat /\ MaxRows \in Nat /\ MaxFaults \in Nat

VARIABLES
    arrived,  \* the alerts alert_server has
    row,      \* the tables of rows: the alert of each id, None where there is none
    nextId,   \* their sequence, which no rollback turns back
    event,    \* alert_events with its detail: Absent, or an event, for each key
    place,    \* where the honeyfile is now; None when it is deleted
    pull,     \* the transaction each puller is in
    faults

tables == <<row, event>>
storeVars == <<arrived, row, nextId, event, place, pull, faults>>

Id == 1..MaxRows
Absent == [raw |-> {}, latest |-> 0, first |-> 0, last |-> 0, place |-> None]

\* _file_alert_bucket and _parasitic_logical_key; _account_dedupe_key.
Bucket(a) == IF a.kind = "account" THEN a.time ELSE a.time \div Window
EventKey(a) == [kind |-> a.kind, key |-> a.key, bucket |-> Bucket(a),
                sub |-> IF a.kind = "account" THEN "" ELSE a.sub]
Keys == {EventKey(a) : a \in Alert}

\* A transaction: the alerts to check, the ones checked (had) and the files among
\* them to insert (fresh), its rows, and the events as it read and as it left them.
Idle == [pc |-> "idle", todo |-> <<>>, had |-> {}, fresh |-> <<>>, mine |-> {},
         read |-> <<>>, work |-> <<>>]

StoreTypeOK ==
    /\ arrived \subseteq Alert /\ place \in Place \cup {None}
    /\ row \in [Id -> Alert \cup {None}] /\ nextId \in 1..MaxRows + 1
    /\ DOMAIN event = Keys
    /\ \A k \in Keys : /\ event[k].raw \subseteq Id /\ event[k].latest \in {0} \cup Id
                       /\ event[k].place \in Place \cup {None}
    /\ \A p \in Puller : /\ pull[p].pc \in {"idle", "work"} /\ pull[p].mine \subseteq Id \X Alert
                         /\ DOMAIN pull[p].work = DOMAIN pull[p].read

StoreInit ==
    /\ arrived = {} /\ row = [i \in Id |-> None] /\ nextId = 1
    /\ event = [k \in Keys |-> Absent] /\ place \in Place
    /\ pull = [p \in Puller |-> Idle] /\ faults = 0

Near(a, b) == a.time - b.time \in -Window..Window

\* The queries that find an alert's row in its table.
SameRow(a, b) ==
    /\ a.kind = b.kind /\ a.key = b.key
    /\ IF a.kind = "account" THEN a.time = b.time /\ a.sub = b.sub ELSE Near(a, b)

\* batch_logical_alerts and seen_keys: alerts this pull has had before.
SameInBatch(a, b) ==
    /\ a.kind = b.kind /\ a.key = b.key /\ a.sub = b.sub
    /\ CASE a.kind = "file" -> Near(a, b)
         [] a.kind = "parasitic" -> Bucket(a) = Bucket(b)
         [] OTHER -> FALSE

Rows == {i \in Id : row[i] # None}

\* The event e with row i of alert a.  (open_count is the number of raw ids.)
IngestFileAlert(e, i, a, meta) ==
    [raw |-> e.raw \cup {i}, latest |-> i, place |-> meta,
     first |-> IF e = Absent \/ a.time < e.first THEN a.time ELSE e.first,
     last  |-> IF e = Absent \/ a.time > e.last  THEN a.time ELSE e.last]

IngestOther(e, i) == [e EXCEPT !.latest = i]

\* _lookup_honeyfile_meta, of a token whose file is there or not.
HoneyfileMeta == place

Ingest(e, i, a, meta) == IF a.kind = "file" THEN IngestFileAlert(e, i, a, meta) ELSE IngestOther(e, i)

-----------------------------------------------------------------------------
Transaction(p, new) == pull' = [pull EXCEPT ![p] = new]

Arrive(a) ==
    /\ a \notin arrived /\ arrived' = arrived \cup {a}
    /\ UNCHANGED <<row, nextId, event, place, pull, faults>>

\* Sequences of all of B, newest first; those of one time in any order.
NewestFirst(B) == {s \in SetToSeqs(B) : \A i, j \in DOMAIN s : i < j => s[i].time >= s[j].time}

\* The answer of alert_server: alerts of one kind, newest first.
StartPull(p) ==
    /\ pull[p].pc = "idle"
    /\ \E B \in SUBSET arrived :
          /\ B # {} /\ Cardinality(B) <= MaxBatch /\ \A a, b \in B : a.kind = b.kind
          /\ \E s \in NewestFirst(B) : Transaction(p, [Idle EXCEPT !.pc = "work", !.todo = s])
    /\ UNCHANGED <<arrived, tables, nextId, place, faults>>

With(f, k, v) == [l \in DOMAIN f \cup {k} |-> IF l = k THEN v ELSE f[l]]

\* A row is inserted (flush), the event read and rewritten in the transaction.
Store(p, a, new) ==
    LET k == EventKey(a)
        held == k \in DOMAIN pull[p].work
        old == IF held THEN pull[p].work[k] ELSE event[k]
    IN /\ nextId \in Id /\ nextId' = nextId + 1
       /\ Transaction(p, [new EXCEPT !.mine = @ \cup {<<nextId, a>>},
             !.read = IF held THEN @ ELSE With(@, k, event[k]),
             !.work = With(@, k, Ingest(old, nextId, a, HoneyfileMeta))])

\* Files are inserted after the checks, so only the other kinds meet their own.
HasRow(p, a) == \/ \E i \in Rows : SameRow(a, row[i])
                \/ \E m \in pull[p].mine : SameRow(a, m[2])

\* The first alert left is looked up among the rows, committed or this pull's.
\* A file's row waits until all are checked, the others are inserted at once.
Check(p) ==
    /\ pull[p].pc = "work" /\ pull[p].todo # <<>>
    /\ LET a == Head(pull[p].todo)
           repeated == \E b \in pull[p].had : SameInBatch(a, b)
           rest == [pull[p] EXCEPT !.todo = Tail(@), !.had = IF repeated THEN @ ELSE @ \cup {a}]
           known == repeated \/ HasRow(p, a)
       IN \/ /\ known
             /\ Transaction(p, rest) /\ UNCHANGED nextId
          \/ /\ ~known /\ a.kind = "file"
             /\ Transaction(p, [rest EXCEPT !.fresh = Append(@, a)]) /\ UNCHANGED nextId
          \/ ~known /\ a.kind # "file" /\ Store(p, a, rest)
    /\ UNCHANGED <<arrived, tables, place, faults>>

IngestFile(p) ==
    /\ pull[p].pc = "work" /\ pull[p].todo = <<>> /\ pull[p].fresh # <<>>
    /\ Store(p, Head(pull[p].fresh), [pull[p] EXCEPT !.fresh = Tail(@)])
    /\ UNCHANGED <<arrived, tables, place, faults>>

\* What an UPDATE leaves of an event: the columns this pull did not change keep
\* what others have written meanwhile.
Merge(read, work, now) ==
    [c \in DOMAIN work |-> IF work[c] = read[c] THEN now[c] ELSE work[c]]

\* An event two pulls both found missing: the second insert breaks the key.
Conflict(p) == \E k \in DOMAIN pull[p].work : pull[p].read[k] = Absent /\ event[k] # Absent

WrittenRows(p) == [i \in Id |-> IF \E m \in pull[p].mine : m[1] = i
                                THEN (CHOOSE m \in pull[p].mine : m[1] = i)[2] ELSE row[i]]
WrittenEvents(p) == [k \in Keys |-> IF k \in DOMAIN pull[p].work
                                    THEN Merge(pull[p].read[k], pull[p].work[k], event[k]) ELSE event[k]]

Commit(p) ==
    /\ pull[p].pc = "work" /\ pull[p].todo = <<>> /\ pull[p].fresh = <<>>
    /\ IF Conflict(p) THEN UNCHANGED tables
       ELSE row' = WrittenRows(p) /\ event' = WrittenEvents(p)
    /\ Transaction(p, Idle)
    /\ UNCHANGED <<arrived, nextId, place, faults>>

-----------------------------------------------------------------------------
OneFault == faults < MaxFaults /\ faults' = faults + 1

\* A deployment is added or removed, or the honeyfile deleted.
Redeploy ==
    /\ OneFault /\ place' \in (Place \cup {None}) \ {place}
    /\ UNCHANGED <<arrived, tables, nextId, pull>>

\* _refresh_file_alert_metadata: a deleted honeyfile leaves its events as they are.
Refreshed(events) ==
    [k \in Keys |-> IF k.kind = "file" /\ events[k] # Absent /\ place # None
                    THEN [events[k] EXCEPT !.place = place] ELSE events[k]]

Refresh ==
    /\ event' = Refreshed(event) /\ event' # event
    /\ UNCHANGED <<arrived, row, nextId, place, pull, faults>>

\* Deviation: the rows in the order they were inserted in.
InIdOrder(i, j) == i < j

InTime(i, j) == \/ row[i].time < row[j].time
                \/ row[i].time = row[j].time /\ i < j

LastInTime(S) == CHOOSE i \in S : \A j \in S \ {i} : InTime(j, i)

\* backfill_unified_alerts: every row is ingested again, in time order.
IngestAgain(i, events) == [events EXCEPT ![EventKey(row[i])] = Ingest(@, i, row[i], HoneyfileMeta)]
Backfilled == Refreshed(MapThenFoldSet(IngestAgain, event, LAMBDA i : i, LastInTime, Rows))

\* Deviation: each row is committed as it is inserted, the events at the end.
RestartHalf ==
    /\ OneFault
    /\ pull' = [p \in Puller |-> Idle]
    /\ \E p \in Puller : row' = WrittenRows(p)
    /\ UNCHANGED <<arrived, event, nextId, place>>

\* The process ends and starts again, with SYSTEMWIRE_STARTUP_BACKFILL or without.
Restart ==
    /\ OneFault
    /\ pull' = [p \in Puller |-> Idle]
    /\ event' \in {event, Backfilled}
    /\ UNCHANGED <<arrived, row, nextId, place>>

PullStep(p) == Check(p) \/ IngestFile(p) \/ Commit(p)

StoreNext ==
    \/ \E a \in Alert : Arrive(a)
    \/ \E p \in Puller : StartPull(p) \/ PullStep(p)
    \/ Redeploy \/ Refresh \/ Restart

-----------------------------------------------------------------------------
RowsOf(k) == {i \in Rows : EventKey(row[i]) = k}

\* However pulls overlap, break off and roll back, no row is left without its
\* event (the pages of both kinds count the same alerts), and an event names only
\* rows that are there and are of its key, also those it opens as its latest.
RowsHaveEvents ==
    /\ \A i \in Rows : event[EventKey(row[i])] # Absent
    /\ \A k \in Keys : event[k] # Absent =>
          /\ event[k].raw \cup {event[k].latest} \subseteq RowsOf(k)
          /\ k.kind = "file" => event[k].latest \in event[k].raw

\* An event as its rows tell it.
Rebuilt ==
    \A k \in Keys : RowsOf(k) # {} =>
        /\ \A i \in RowsOf(k) : row[i].time <= row[event[k].latest].time
        /\ k.kind = "file" =>
              /\ event[k].raw = RowsOf(k)
              /\ \A i \in RowsOf(k) : row[i].time \in event[k].first..event[k].last

\* Pulls that overlap give an event a second row, the older one last, and its time
\* with it; a backfill that changes anything leaves every event as its rows tell,
\* whatever state the pulls it broke off had left.
BackfillRestores == [][Restart => event' = event \/ Rebuilt']_storeVars
=============================================================================
