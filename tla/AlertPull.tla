------------------------------ MODULE AlertPull ------------------------------
(***************************************************************************)
(* How systemwire2 collects the alerts that alert_server records: a        *)
(* scheduled task and the operators' GET requests pull everything newer    *)
(* than a cursor (a row of LastQueryTime), page by page, into the unified  *)
(* alert_events table, and move the cursor when they are through.          *)
(*                                                                         *)
(* Four paths share this shape (kind):                                     *)
(*   file         one request for the newest rows after the cursor         *)
(*   account_http offset pages of rows after the cursor, newest first      *)
(*   account_db   batches inside the one database, by descending id        *)
(*   parasitic    offset pages of a cache of the whole log, newest first   *)
(*                                                                         *)
(* While a pull runs, alerts arrive, other pulls run, and requests fail.   *)
(* An alert reaches the source's table up to MaxDelay ticks after the time *)
(* it carries; the pulls look back by Overlap (5 minutes) for this reason. *)
(* The source table keeps its rows, and the cursor row exists (a missing   *)
(* one counts as "seven days ago", before everything here).                *)
(***************************************************************************)
EXTENDS Integers, FiniteSets

CONSTANTS Event,      \* alerts, each with a dedupe key of its own
          Kinds,      \* the paths to look at
          Task,       \* the scheduled job (it never overlaps itself)
          Manual,     \* concurrent GET requests of operators
          Days,       \* the windows operators may ask for (days=), in ticks
          PageSize,   \* rows per page, count or batch (100 or 500)
          CacheSize,  \* rows of the parasitic log cache (1000)
          Overlap,    \* ticks the account and parasitic pulls look back
          MaxDelay,   \* ticks until an alert is visible at the source
          MaxPull,    \* ticks an operator's pull takes at most
          MaxTime,    \* bound of the clock
          MaxFaults   \* bound on failed requests, commits and crashes

ASSUME PullAssumption ==
    /\ Kinds \subseteq {"file", "account_http", "account_db", "parasitic"}
    /\ Kinds # {} /\ Task \notin Manual /\ Days \subseteq Nat
    /\ PageSize \in Nat \ {0} /\ CacheSize \in Nat \ {0}
    /\ Overlap \in Nat /\ MaxDelay \in Nat /\ MaxPull \in Nat
    /\ MaxTime \in Nat \ {0} /\ MaxFaults \in Nat /\ IsFiniteSet(Event)

VARIABLES
    kind,    \* the path of this behaviour
    now,     \* the clock
    \* alert_server
    time,    \* trigger_time of each alert, 0 before it happens
    id,      \* its row id in the source's table, 0 before it is there
    lastId,
    cache,   \* logCache: what /api/logs serves
    \* systemwire2
    cursor,  \* LastQueryTime.query_time
    stored,  \* committed alert_events rows of each alert
    pull,    \* the pull each puller is in
    faults,
    left     \* alerts older than a window an operator asked for, when the
             \* cursor was moved for it (a history variable)

sourceVars == <<time, id, lastId, cache>>
vars == <<kind, now, sourceVars, cursor, stored, pull, faults, left>>

Puller == {Task} \cup Manual

\* Deviation: pages are counted from zero.
IdleFromZero == [pc |-> "idle", days |-> FALSE, since |-> 0, start |-> 0, page |-> 0,
                 received |-> 0, total |-> 0, before |-> 0, rows |-> {}, fresh |-> {},
                 seen |-> {}]

Idle == [pc |-> "idle", days |-> FALSE, since |-> 0, start |-> 0, page |-> 1, received |-> 0,
         total |-> 0, before |-> 0, rows |-> {}, fresh |-> {}, seen |-> {}]

Happened == {e \in Event : time[e] # 0}
Arrived  == {e \in Event : id[e] # 0}

\* What a request to the source can return.
Visible == IF kind = "parasitic" THEN cache ELSE Arrived
Newer(since) == {e \in Visible : time[e] > since}

\* x is listed before y: by trigger time (ties by id, or any order where the
\* handler's sort is not stable), or by creation.
Above(x, y) ==
    CASE kind = "account_http" -> \/ time[x] > time[y]
                                  \/ time[x] = time[y] /\ id[x] > id[y]
      [] kind = "parasitic"    -> time[x] > time[y]
      [] OTHER                 -> id[x] > id[y]

\* The sets of rows a listing of V can begin with, n of them if there are.
Heads(V, n) ==
    {D \in SUBSET V : /\ Cardinality(D) = IF Cardinality(V) < n
                                          THEN Cardinality(V) ELSE n
                      /\ \A x \in D, y \in V \ D : ~Above(y, x)}

\* Offset paging: what the page may hold.
Pages(V, page) ==
    {D[2] \ D[1] : D \in {P \in Heads(V, (page - 1) * PageSize)
                                \X Heads(V, page * PageSize) : P[1] \subseteq P[2]}}

PullState ==
    [pc : {"idle", "fetch", "check", "commit", "record"}, days : BOOLEAN,
     since : Int, start : 0..MaxTime, page : Nat \ {0}, received : Nat, total : Nat,
     before : Nat, rows : SUBSET Event, fresh : SUBSET Event, seen : SUBSET Event]

TypeOK ==
    /\ kind \in Kinds /\ now \in 1..MaxTime
    /\ time \in [Event -> 0..MaxTime] /\ id \in [Event -> Nat] /\ lastId \in Nat
    /\ cache \subseteq Event
    /\ cursor \in 0..MaxTime /\ stored \in [Event -> Nat]
    /\ pull \in [Puller -> PullState]
    /\ faults \in 0..MaxFaults /\ left \subseteq Event

Init ==
    /\ kind \in Kinds /\ now = 1
    /\ time = [e \in Event |-> 0] /\ id = [e \in Event |-> 0] /\ lastId = 0
    /\ cache = {}
    /\ cursor = 0 /\ stored = [e \in Event |-> 0]
    /\ pull = [p \in Puller |-> Idle] /\ faults = 0 /\ left = {}

OneFault == faults < MaxFaults /\ faults' = faults + 1

-----------------------------------------------------------------------------
(* alert_server                                                            *)

\* A honeypot is touched; the alert carries this time.
Trigger(e) ==
    /\ time[e] = 0
    /\ time' = [time EXCEPT ![e] = now]
    /\ UNCHANGED <<kind, now, id, lastId, cache, cursor, stored, pull, faults, left>>

\* The row is inserted: after the handler's work, or after the reporter's
\* delivery when the time is the reporter's.
Arrive(e) ==
    /\ time[e] # 0 /\ id[e] = 0
    /\ lastId' = lastId + 1
    /\ id' = [id EXCEPT ![e] = lastId + 1]
    /\ UNCHANGED <<kind, now, time, cache, cursor, stored, pull, faults, left>>

\* reloadLogCache: the newest rows replace the cache.
Reload ==
    /\ kind = "parasitic"
    /\ cache' \in {D \in SUBSET Arrived :
                     /\ Cardinality(D) = IF Cardinality(Arrived) < CacheSize
                                         THEN Cardinality(Arrived) ELSE CacheSize
                     /\ \A x \in D, y \in Arrived \ D : id[x] > id[y]}
    /\ cache' # cache
    /\ UNCHANGED <<kind, now, time, id, lastId, cursor, stored, pull, faults, left>>

\* The source would list e, or its cache has had to let it go.
Served(e) == \/ e \in Visible
             \/ /\ kind = "parasitic" /\ id[e] # 0
                /\ Cardinality({x \in Arrived : id[x] > id[e]}) >= CacheSize

\* Time passes; alerts become visible in time, and operators' pulls end.
Tick ==
    /\ now < MaxTime
    /\ \A e \in Happened : now < time[e] + MaxDelay \/ Served(e)
    /\ \A p \in Manual : pull[p].pc # "idle" => now < pull[p].start + MaxPull
    /\ now' = now + 1
    /\ UNCHANGED <<kind, sourceVars, cursor, stored, pull, faults, left>>

-----------------------------------------------------------------------------
(* systemwire2: one pull.                                                  *)

Lookback == IF kind = "file" THEN 0 ELSE Overlap

Step(p, new) == pull' = [pull EXCEPT ![p] = new]

\* The task starts from the cursor, an operator from the cursor or from some
\* days ago; the clock is read before anything is asked of the source.
StartPull(p) ==
    /\ pull[p].pc = "idle"
    /\ \E from \in {cursor} \cup (IF p = Task THEN {} ELSE {now - d : d \in Days}) :
          LET since == from - Lookback
          IN Step(p, [Idle EXCEPT !.pc = "fetch", !.days = from # cursor, !.since = since,
                        !.start = now, !.seen = Newer(since)])
    /\ UNCHANGED <<kind, now, sourceVars, cursor, stored, faults, left>>

\* get_file_alert: one request, the newest PageSize rows after the cursor.
FetchFile(p) ==
    /\ kind = "file" /\ pull[p].pc = "fetch"
    /\ \E rows \in Pages(Newer(pull[p].since), 1) :
          Step(p, [pull[p] EXCEPT !.pc = "check", !.rows = rows])
    /\ UNCHANGED <<kind, now, sourceVars, cursor, stored, faults, left>>

\* get_account_alert over HTTP: the first page's total is the goal; a page
\* that comes back empty before it is reached fails the pull.
FetchAccounts(p) ==
    /\ kind = "account_http" /\ pull[p].pc = "fetch"
    /\ LET new == Newer(pull[p].since) IN
         \E rows \in Pages(new, pull[p].page) :
            \/ /\ rows # {}
               /\ Step(p, [pull[p] EXCEPT !.pc = "check", !.rows = rows,
                             !.total = IF pull[p].page = 1 THEN Cardinality(new) ELSE @])
            \/ /\ rows = {}
               /\ Step(p, IF pull[p].page = 1 THEN [pull[p] EXCEPT !.pc = "record"]
                                              ELSE Idle)
    /\ UNCHANGED <<kind, now, sourceVars, cursor, stored, faults, left>>

\* get_parasitic_alert: the pages are those of the whole cache, and the rows
\* before the cursor are left out here; an empty page ends the pull.
FetchLogs(p) ==
    /\ kind = "parasitic" /\ pull[p].pc = "fetch"
    /\ \E rows \in Pages(cache, pull[p].page) :
          \/ /\ rows # {}
             /\ Step(p, [pull[p] EXCEPT !.pc = "check", !.rows = rows,
                           !.total = Cardinality(cache)])
          \/ rows = {} /\ Step(p, [pull[p] EXCEPT !.pc = "record"])
    /\ UNCHANGED <<kind, now, sourceVars, cursor, stored, faults, left>>

\* The rows that are not in the table yet are added to the session.
CheckRows(p) ==
    /\ pull[p].pc = "check"
    /\ Step(p, [pull[p] EXCEPT !.pc = "commit",
                  !.fresh = {e \in pull[p].rows : /\ time[e] > pull[p].since
                                                  /\ stored[e] = 0}])
    /\ UNCHANGED <<kind, now, sourceVars, cursor, stored, faults, left>>

\* What follows a committed page.
Through(p) ==
    CASE kind = "file"         -> TRUE
      [] kind = "account_http" -> pull[p].received + Cardinality(pull[p].rows)
                                     >= pull[p].total
      [] kind = "parasitic"    -> \/ pull[p].total <= pull[p].page * PageSize
                                  \/ Cardinality(pull[p].rows) < PageSize
      [] OTHER                 -> FALSE

NextPage(p) ==
    IF Through(p) THEN [pull[p] EXCEPT !.pc = "record", !.rows = {}, !.fresh = {}]
    ELSE [pull[p] EXCEPT !.pc = "fetch", !.page = @ + 1, !.rows = {}, !.fresh = {},
            !.received = @ + Cardinality(pull[p].rows)]

\* Deviation: the insert relies on the earlier check.
CommitUnchecked(p) ==
    /\ pull[p].pc = "commit"
    /\ stored' = [e \in Event |-> IF e \in pull[p].fresh THEN stored[e] + 1 ELSE stored[e]]
    /\ Step(p, NextPage(p))
    /\ UNCHANGED <<kind, now, sourceVars, cursor, faults, left>>

\* The page is committed.  An alert whose event another pull has committed since the
\* check is found when its event is looked up, or only by the unique key of
\* alert_events, which rolls the page back and ends the pull.
CommitRows(p) ==
    /\ pull[p].pc = "commit"
    /\ \/ /\ stored' = [e \in Event |-> IF e \in pull[p].fresh /\ stored[e] = 0
                                        THEN 1 ELSE stored[e]]
          /\ Step(p, NextPage(p))
       \/ /\ \E e \in pull[p].fresh : stored[e] > 0
          /\ Step(p, Idle) /\ UNCHANGED stored
    /\ UNCHANGED <<kind, now, sourceVars, cursor, faults, left>>

\* Deviation: both the cursor and the comparison leave an id out.
BelowNext(e, before) == before = 0 \/ id[e] < before - 1

\* The batches start from the largest id there can be, here 0.
Below(e, before) == before = 0 \/ id[e] < before

\* sync_account_alert_batch: a batch is read, compared and inserted in one
\* transaction under an advisory lock, and the lowest id is the next cursor.
SyncBatch(p) ==
    /\ kind = "account_db" /\ pull[p].pc = "fetch"
    /\ \E rows \in Heads({e \in Newer(pull[p].since) : Below(e, pull[p].before)}, PageSize) :
          /\ stored' = [e \in Event |-> IF e \in rows /\ stored[e] = 0
                                        THEN 1 ELSE stored[e]]
          /\ IF rows = {} THEN Step(p, [pull[p] EXCEPT !.pc = "record"])
             ELSE \E last \in {id[e] : e \in rows} :
                     /\ \A e \in rows : last <= id[e]
                     /\ Step(p, [pull[p] EXCEPT !.before = last])
    /\ UNCHANGED <<kind, now, sourceVars, cursor, faults, left>>

\* The pull is through: the task's cursor is when it started, an operator's is
\* when it ended, whatever window was asked for.
Record(p) ==
    /\ pull[p].pc = "record"
    /\ cursor' = IF p = Task THEN pull[p].start ELSE now
    /\ left' = IF ~pull[p].days THEN left
               ELSE left \cup {e \in Happened : time[e] <= pull[p].since /\ stored[e] = 0}
    /\ Step(p, Idle)
    /\ UNCHANGED <<kind, now, sourceVars, stored, faults>>

\* Deviation: the cursor moves although the pull failed.
FailRecords(p) ==
    /\ pull[p].pc # "idle" /\ OneFault
    /\ cursor' = pull[p].start
    /\ Step(p, Idle)
    /\ UNCHANGED <<kind, now, sourceVars, stored, left>>

\* A request or a commit fails, or the process ends: pages that were committed
\* stay, the cursor stays.
Fail(p) ==
    /\ pull[p].pc # "idle" /\ OneFault
    /\ Step(p, Idle)
    /\ UNCHANGED <<kind, now, sourceVars, cursor, stored, left>>

-----------------------------------------------------------------------------

Source == Reload \/ \E e \in Event : Trigger(e) \/ Arrive(e)

PullStep(p) == \/ FetchFile(p) \/ FetchAccounts(p) \/ FetchLogs(p) \/ SyncBatch(p)
               \/ CheckRows(p) \/ CommitRows(p) \/ Record(p)

Next == \/ Source \/ Tick
        \/ \E p \in Puller : StartPull(p) \/ PullStep(p) \/ Fail(p)

Spec == Init /\ [][Next]_vars

-----------------------------------------------------------------------------

\* However pulls overlap, an alert has one row: the check is not atomic with
\* the insert, the unique key decides (ingest_*_alert, CommitRows).
StoredOnce == \A e \in Event : stored[e] <= 1

\* No other alert carries the same second.
Alone(e) == \A d \in Event \ {e} : time[d] # time[e]

\* A pull that is through has collected every alert the source showed when it
\* started: pages do not skip, whatever arrives while they are turned. (A log
\* that overflows its cache, and ties the log's sort may turn around, excepted.)
PullComplete ==
    (kind = "account_db" \/ (kind = "parasitic" /\ Cardinality(Arrived) <= CacheSize)) =>
        \A p \in Puller : pull[p].pc = "record" =>
            \A e \in pull[p].seen : stored[e] > 0 \/ (kind = "parasitic" /\ ~Alone(e))

\* The cursor passes an alert that is not in the table for one reason only, an
\* operator who asked for fewer days than that (the request sets the cursor as if
\* everything had been read): neither late arrivals nor failures nor pulls that
\* overlap or take their time let it go by (get_account_alert, account_alert_pull).
CursorHonest ==
    kind = "account_db" =>
        \A e \in Happened : time[e] <= cursor - Lookback => stored[e] > 0 \/ e \in left

-----------------------------------------------------------------------------
(* What deployment/postgres/README.md says of the HTTP path, too.          *)

\* "neither path skips a failed batch or advances a failed cursor": a pull of
\* pages that fell short of the advertised rows fails, so here, too, what is
\* older than the next pull looks back is in the table.
HttpCursorHonest ==
    kind = "account_http" =>
        \A e \in Happened : time[e] <= cursor - Lookback => stored[e] > 0
=============================================================================
