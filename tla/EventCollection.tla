-------------------------- MODULE EventCollection --------------------------
(***************************************************************************)
(* Step 1 of the analysis: collector.py gathers the alerts of a window.    *)
(* Alerts lie in the raw sources of the honeypots (alert_server's SQLite   *)
(* file, the SSH log, the agent's logs) and, once a pull has brought them, *)
(* in the store of the management process.  A collection reads the store,  *)
(* kind by kind, and falls back on the raw source of a kind of which the   *)
(* store has nothing; or it asks the store's API for all kinds at once.    *)
(*                                                                         *)
(* Parsing fills an alert with what the later steps show; of it only the   *)
(* kind and the time matter here.  The result is sorted by time.           *)
(***************************************************************************)
EXTENDS Integers, FiniteSets, FiniteSetsExt

CONSTANTS
    Alert,     \* [kind, id]
    Untimed,   \* those whose raw record has a time that cannot be read
    None,
    Config,    \* [mode, database, prefer, fallback, audit, include]: prefer and include are stored kinds
    Width,     \* widths of windows; a window may also have no start, or no end
    Hour,      \* ticks of an hour
    Hours,     \* of the window the API takes when there is no start
    Day, Zone, \* ticks of a day, and between local time and UTC
    MaxTime    \* bound on the clock

Stored == {"file", "account", "parasitic"}
Kinds == Stored \cup {"audit"}

VARIABLES
    now,
    raw,     \* when each alert came to its raw source, None before
    stored,  \* the alerts in the store
    call     \* the collection

vars == <<now, raw, stored, call>>
Time == 0..MaxTime

NoCall == [pc |-> "idle", config |-> None, from |-> None, to |-> None, left |-> {},
           got |-> {}, asked |-> {}, read |-> 0, failed |-> FALSE]

\* What the proofs assume of the constants.
CollectAssumption ==
    /\ MaxTime \in Nat /\ Hour \in Nat \ {0} /\ Hours \in Nat /\ None \notin Int
    /\ \A a \in Alert : a.kind \in Kinds
    /\ Config \subseteq [mode : {"each", "unified"}, database : {"postgres", "sqlite"},
                        prefer : SUBSET Stored, fallback : BOOLEAN, audit : BOOLEAN,
                        include : SUBSET Stored]

TypeOK ==
    /\ now \in Time /\ raw \in [Alert -> Time \cup {None}]
    /\ stored \subseteq {a \in Alert : a.kind \in Stored /\ raw[a] # None}
    /\ call.pc \in {"idle", "store", "raw", "query", "done", "refused"}
    /\ call.config \in Config \cup {None} /\ {call.from, call.to} \subseteq Time \cup {None}
    /\ call.left \subseteq Kinds /\ call.got \cup call.asked \subseteq Alert
    /\ call.read \in Time /\ call.failed \in BOOLEAN

Init == now = 0 /\ raw = [a \in Alert |-> None] /\ stored = {} /\ call = NoCall

\* An alert comes to its raw source; a pull brings it to the store.
Occur(a) == raw[a] = None /\ raw' = [raw EXCEPT ![a] = now] /\ UNCHANGED <<now, stored, call>>
Pulled(a) == /\ raw[a] # None /\ a.kind \in Stored /\ a \notin stored
             /\ stored' = stored \cup {a} /\ UNCHANGED <<now, raw, call>>
Tick == now < MaxTime /\ now' = now + 1 /\ UNCHANGED <<raw, stored, call>>

-----------------------------------------------------------------------------
\* _parse_time_value and the adapters: a time that cannot be read is now.
ParsedTime(a) == IF a \in Untimed THEN now ELSE raw[a]

\* _in_time_range.
InTimeRange(t) == /\ call.from # None => t >= call.from
                  /\ call.to # None => t <= call.to

\* _execute_window_query.  SQLite compares text: a time at the very end, which has
\* its fraction written out, may count as later than the end, which has none.
WindowQuery(kind, atEnd) ==
    {a \in stored : a.kind = kind /\ InTimeRange(raw[a]) /\ (atEnd \/ raw[a] # call.to)}

\* The raw query of collect_file_honeypot compares text too, a local time with a
\* blank against UTC times with a T, which is the later letter: only days count.
LocalDay(t) == (t + Zone) \div Day
RawWindow(t) == /\ call.from # None => LocalDay(t) > call.from \div Day
                /\ call.to # None => LocalDay(t) <= call.to \div Day

RawRows(kind) == {a \in Alert : /\ a.kind = kind /\ raw[a] # None /\ InTimeRange(ParsedTime(a))
                                /\ kind = "file" => RawWindow(raw[a])}

-----------------------------------------------------------------------------
\* collect_all.
Call(config, from, to) ==
    /\ call.pc = "idle"
    /\ call' = [NoCall EXCEPT !.pc = IF config.mode = "unified" THEN "query" ELSE "store",
                    !.config = config, !.from = from, !.to = to, !.asked = stored,
                    !.left = Stored \cup (IF config.audit THEN {"audit"} ELSE {})]
    /\ UNCHANGED <<now, raw, stored>>

\* Files, then accounts, then pages, then audit records.
Current == LET order == <<"file", "account", "parasitic", "audit">>
           IN  order[CHOOSE n \in 1..4 : order[n] \in call.left /\ \A m \in 1..n - 1 : order[m] \notin call.left]

\* With the alerts of the current kind the collection goes on to the next one.
With(alerts) == [call EXCEPT !.got = @ \cup alerts, !.left = @ \ {Current},
                             !.pc = IF call.left = {Current} THEN "done" ELSE "store"]

\* What the store answered, or if that is nothing the raw source.
Answered(rows) == IF rows # {} \/ ~call.config.fallback THEN With(rows)
                  ELSE [call EXCEPT !.pc = "raw"]

ReadStore ==
    /\ call.pc = "store" /\ Current \in call.config.prefer
    /\ \E atEnd \in {call.config.database = "postgres", TRUE} :
          call' = Answered(WindowQuery(Current, atEnd))
    /\ UNCHANGED <<now, raw, stored>>

\* Deviation: a store that cannot be read is taken for an empty one.
ReadStoreFailsQuietly ==
    /\ call.pc = "store" /\ Current \in call.config.prefer
    /\ call' = Answered({})
    /\ UNCHANGED <<now, raw, stored>>

\* A failed read of PostgreSQL ends the collection; of SQLite it found nothing.
ReadStoreFails ==
    /\ call.pc = "store" /\ Current \in call.config.prefer
    /\ call' = IF call.config.database = "postgres" THEN [call EXCEPT !.pc = "refused"]
               ELSE [Answered({}) EXCEPT !.failed = TRUE]
    /\ UNCHANGED <<now, raw, stored>>

\* Audit records, and kinds that are not preferred, are in their raw source only.
NotInStore ==
    /\ call.pc = "store" /\ Current \notin call.config.prefer
    /\ call' = [call EXCEPT !.pc = "raw"]
    /\ UNCHANGED <<now, raw, stored>>

\* The raw source, or what was read of it before it failed or was not there.
ReadRaw ==
    /\ call.pc = "raw"
    /\ \E alerts \in SUBSET RawRows(Current) : call' = With(alerts)
    /\ UNCHANGED <<now, raw, stored>>

Length == (IF call.to = None THEN now ELSE call.to) - call.from

\* Deviation: the hours of the window, rounded down.
HoursDown == IF call.from = None THEN Hours ELSE Length \div Hour

\* The hours of the window, rounded up; the fraction of its last second is cut off first.
HoursBack == IF call.from = None THEN Hours ELSE Max({(Length + Hour - 1) \div Hour, 1})

\* _collect_from_systemwire2_unified_api; any failure is the caller's.  The hours count
\* back from the moment of the query, which reads the clock once more: what lies within
\* a moment of their beginning may be missed.
QueryApi ==
    /\ call.pc = "query"
    /\ \/ call' = [call EXCEPT !.pc = "refused"]
       \/ \E atStart \in BOOLEAN :
          call' = [call EXCEPT !.pc = "done", !.read = now, !.got =
              {a \in stored : /\ a.kind \in call.config.include /\ InTimeRange(raw[a])
                              /\ \/ raw[a] + HoursBack * Hour > now
                                 \/ atStart /\ raw[a] + HoursBack * Hour = now}]
    /\ UNCHANGED <<now, raw, stored>>

Window == {w \in (Time \cup {None}) \X {now, None} :
              w[1] # None => w[1] <= now /\ now - w[1] \in Width}

Next ==
    \/ Tick
    \/ \E a \in Alert : Occur(a) \/ Pulled(a)
    \/ \E config \in Config, w \in Window : Call(config, w[1], w[2])
    \/ ReadStore \/ ReadStoreFails \/ NotInStore \/ ReadRaw \/ QueryApi

Spec == Init /\ [][Next]_vars

-----------------------------------------------------------------------------
Due == {a \in call.asked : InTimeRange(raw[a])}
OfKinds(kinds) == {a \in Alert : a.kind \in kinds}

\* A collection that ends has every alert of its window the store had when it was
\* asked, although kinds are read one after the other while pulls go on, or it is
\* refused: a store that fails is never passed over for older logs
\* (collector.py:463).  SQLite may miss the window's last moment, and says nothing
\* when it fails; and the API loses what passed out of the window's length before
\* it was asked, the window's first moment included (collector.py:344).
CollectedWhole ==
    call.pc = "done" =>
        IF call.config.mode = "unified"
        THEN /\ call.got \subseteq stored
             /\ call.from # None =>
                    {a \in Due \cap OfKinds(call.config.include) :
                        raw[a] + (IF call.to = None THEN call.read ELSE call.to) > call.from + call.read}
                    \subseteq call.got
        ELSE /\ ~call.failed => {a \in Due \cap OfKinds(call.config.prefer) :
                   call.config.database = "postgres" \/ raw[a] # call.to} \subseteq call.got
             /\ call.config.fallback \/ call.got \cap OfKinds(call.config.prefer) \subseteq stored
=============================================================================
