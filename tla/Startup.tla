-------------------------------- MODULE Startup --------------------------------
(***************************************************************************)
(* The start of the management process (init_exts), with a backfill that   *)
(* takes over the database of an older installation and with the local     *)
(* account, agent and demo bait set up.                                    *)
(*                                                                         *)
(* The older database is copied in two parts, each with a marker that      *)
(* names the file's modification time.  The business tables go first, over *)
(* a connection of their own that commits each table; the alerts and the   *)
(* lookup time go through the session.  Both markers are committed with    *)
(* the alerts, at the end of the backfill.  What raises on the way ends    *)
(* the start.  The older installation may still be running.  (All of this  *)
(* is for SQLite; on PostgreSQL a backfill takes nothing over.)            *)
(***************************************************************************)
EXTENDS Integers, Sequences

CONSTANTS
    MaxId,      \* bound on the ids of a table
    MaxTime,    \* bound on the alerts' times
    MaxVersion, \* bound on the modification times of the older database
    MaxStarts,  \* bound on starts
    MaxToken,   \* bound on the tokens handed out
    Missing

VARIABLES
    legacy,   \* the older database: the ids of each table, its lookup time (0: none),
              \* and the file's modification time
    store,    \* this database, as committed: the row of each id of a table, with its name
              \* (0: one the older database does not have)
    cursor,   \* its lookup time, 0 where there is none
    marker,   \* AlertMigrationState of both parts, 0 where there is none
    stage,    \* where the start is
    tried,    \* how many business tables were tried to be copied
    failed,   \* whether one could not be copied
    noted,    \* what the session would commit: markers, alerts, the lookup time, a token
    gone,     \* what marker.business was when a business row of the older database was
              \* last removed here
    account,  \* whether the local administrator, agent and alert_server are there, and
              \* the agent's status
    bait,     \* the demo honeyfile: the token of its row and the one in its document
    issued,   \* tokens alert_server has handed out
    starts

startupVars == <<legacy, store, cursor, marker, stage, tried, failed, noted, gone, account,
                 bait, issued, starts>>
bootVars == <<account, bait, issued>>
dataVars == <<store, cursor, marker>>

\* A deployment i is one of honeyfile i.
Order == <<"honeyfiles", "filedeploy">>
Business == {"honeyfiles", "filedeploy"}
Table == Business \cup {"alerts"}
RowId == 1..MaxId
Placeholder == 0

\* The names of honeyfiles are unique.  The older database's honeyfile i is named i.
Row == [by : {"legacy", "own"}, name : 0..MaxId]
LegacyRow(i) == [by |-> "legacy", name |-> i]

\* What the proofs assume of the constants.
StartupAssumption ==
    /\ MaxId \in Nat \ {0} /\ MaxTime \in Nat \ {0} /\ MaxVersion \in Nat \ {0}
    /\ MaxToken \in Nat /\ Missing \notin Row /\ Missing \notin 0..MaxToken

NotedType == [business : 0..MaxVersion, alerts : 0..MaxVersion, rows : SUBSET RowId,
              cursor : 0..MaxTime, token : {Missing} \cup 0..MaxToken]

StartupTypeOK ==
    /\ legacy \in [rows : [Table -> SUBSET RowId], cursor : 0..MaxTime, version : 1..MaxVersion]
    /\ store \in [Table -> [RowId -> Row \cup {Missing}]] /\ cursor \in 0..MaxTime
    /\ marker \in [business : 0..MaxVersion, alerts : 0..MaxVersion]
    /\ stage \in {"down", "business", "copy", "alerts", "read", "rest", "bootstrap", "document",
                 "account", "up"}
    /\ tried \in 0..Len(Order) /\ failed \in BOOLEAN
    /\ noted \in NotedType
    /\ gone \in [Business -> [RowId -> 0..MaxVersion]]
    /\ account \in [there : BOOLEAN, agent : {"online", "offline"}]
    /\ bait \in [row : {Missing} \cup 0..MaxToken, document : 0..MaxToken]
    /\ issued \in 0..MaxToken

Present(t) == {i \in RowId : store[t][i] # Missing}
Named(t, n) == t = "honeyfiles" /\ \E j \in Present(t) : store[t][j].name = n

\* SQLite gives a row the id after the largest one.
IsNextId(i, ids) == (i = 1 \/ i - 1 \in ids) /\ \A j \in ids : j < i

Nothing == [business |-> 0, alerts |-> 0, rows |-> {}, cursor |-> 0, token |-> Missing]

StartupInit ==
    /\ \E ids \in [Table -> SUBSET {1}], c \in 0..1 :
          legacy = [rows |-> ids, cursor |-> c, version |-> 1]
    /\ store = [t \in Table |-> [i \in RowId |-> Missing]]
    /\ cursor = 0 /\ marker = [business |-> 0, alerts |-> 0]
    /\ stage = "down" /\ tried = 0 /\ failed = FALSE /\ noted = Nothing
    /\ gone = [t \in Business |-> [i \in RowId |-> 0]]
    /\ account = [there |-> FALSE, agent |-> "offline"]
    /\ bait = [row |-> Missing, document |-> Placeholder] /\ issued = 0 /\ starts = 0

-----------------------------------------------------------------------------
(* The older installation and this one at work.                            *)

LegacyWrites(new) == legacy' = [new EXCEPT !.version = legacy.version + 1]

LegacyAdds(t) ==
    /\ legacy.version < MaxVersion
    /\ \E i \in RowId : /\ IsNextId(i, legacy.rows[t])
                     /\ LegacyWrites([legacy EXCEPT !.rows[t] = @ \cup {i},
                                   !.cursor = IF t = "alerts" /\ @ < MaxTime THEN @ + 1 ELSE @])
    /\ UNCHANGED <<dataVars, stage, tried, failed, noted, gone, bootVars, starts>>

\* Pages and pulls add rows; an alert's row and the lookup time are committed apart.
Add(t) ==
    /\ stage = "up"
    /\ \E i \in RowId, n \in IF t = "honeyfiles" THEN 0..MaxId ELSE {0} :
          /\ IsNextId(i, Present(t)) /\ (n # 0 => ~Named(t, n))
          /\ store' = [store EXCEPT ![t][i] = [by |-> "own", name |-> n]]
    /\ UNCHANGED <<legacy, cursor, marker, stage, tried, failed, noted, gone, bootVars, starts>>

LookUp ==
    /\ stage = "up" /\ cursor < MaxTime /\ cursor' = cursor + 1
    /\ UNCHANGED <<legacy, store, marker, stage, tried, failed, noted, gone, bootVars, starts>>

\* A row of the older database is here, or another in its place.
Held(t, i) == i \in Present(t) \/ Named(t, i)

\* file_delete and the removals: a deployed honeyfile stays.
RemoveRow(t, i) ==
    /\ stage = "up" /\ store[t][i] # Missing
    /\ t = "honeyfiles" => store["filedeploy"][i] = Missing
    /\ store' = [store EXCEPT ![t][i] = Missing]
    /\ gone' = [gone EXCEPT ![t] = [j \in RowId |->
                    IF Held(t, j) /\ ~Held(t, j)' THEN marker.business ELSE @[j]]]
    /\ UNCHANGED <<legacy, cursor, marker, stage, tried, failed, noted, bootVars, starts>>

\* The local agent registers.
AgentOnline ==
    /\ stage = "up" /\ account.there /\ account.agent # "online" /\ account' = [account EXCEPT !.agent = "online"]
    /\ UNCHANGED <<legacy, dataVars, stage, tried, failed, noted, gone, bait, issued, starts>>

-----------------------------------------------------------------------------
(* The start.                                                              *)

\* init_exts and init_db; SYSTEMWIRE_STARTUP_BACKFILL decides about the backfill.
Start ==
    /\ stage = "down" /\ starts < MaxStarts /\ starts' = starts + 1
    /\ stage' \in {"business", "bootstrap"}
    /\ tried' = 0 /\ failed' = FALSE /\ noted' = Nothing
    /\ UNCHANGED <<legacy, dataVars, gone, bootVars>>

\* What raises, and a crash: the session is lost, what was committed is not.
Down ==
    /\ stage # "down" /\ stage' = "down" /\ noted' = Nothing
    /\ UNCHANGED <<legacy, dataVars, tried, failed, gone, bootVars, starts>>

Proceed(new) == stage' = new /\ UNCHANGED <<legacy, gone, bootVars, starts>>

\* _migrate_legacy_business_tables: the file's time is read before its rows.
BusinessBegin ==
    /\ stage = "business"
    /\ IF marker.business = legacy.version
       THEN Proceed("alerts") /\ UNCHANGED <<tried, noted>>
       ELSE Proceed("copy") /\ tried' = 0 /\ noted' = [noted EXCEPT !.business = legacy.version]
    /\ UNCHANGED <<dataVars, failed>>

\* The rows whose id and name are free (INSERT OR IGNORE).
Copied(t) == [i \in RowId |-> IF i \in legacy.rows[t] /\ ~Held(t, i) THEN LegacyRow(i)
                           ELSE store[t][i]]

\* A deployment whose honeyfile is not there, for its name was taken, breaks the
\* foreign key.
Refused(t) == /\ t = "filedeploy"
              /\ \E i \in legacy.rows[t] : store[t][i] = Missing /\ store["honeyfiles"][i] = Missing

CopyTable ==
    /\ stage = "copy" /\ tried < Len(Order) /\ tried' = tried + 1
    /\ \/ ~Refused(Order[tried']) /\ UNCHANGED failed
          /\ store' = [store EXCEPT ![Order[tried']] = Copied(Order[tried'])]
       \/ failed' = TRUE /\ UNCHANGED store
    /\ Proceed("copy") /\ UNCHANGED <<cursor, marker, noted>>

\* Deviation: the marker is kept although a table failed.
BusinessEndRegardless ==
    /\ stage = "copy" /\ tried = Len(Order)
    /\ Proceed("alerts") /\ UNCHANGED <<dataVars, tried, failed, noted>>

\* With a table that failed there is no marker, and the next start tries again.
BusinessEnd ==
    /\ stage = "copy" /\ tried = Len(Order)
    /\ noted' = IF failed THEN [noted EXCEPT !.business = 0] ELSE noted
    /\ Proceed("alerts") /\ UNCHANGED <<dataVars, tried, failed>>

\* _migrate_from_legacy_temp_db, in the same order.
AlertsBegin ==
    /\ stage = "alerts"
    /\ IF marker.alerts = legacy.version
       THEN Proceed("rest") /\ UNCHANGED noted
       ELSE Proceed("read") /\ noted' = [noted EXCEPT !.alerts = legacy.version]
    /\ UNCHANGED <<dataVars, tried, failed>>

\* A lookup time read back from SQLite has no zone: to compare it with the older one
\* raises, and the start ends.
AlertsRead ==
    /\ stage = "read"
    /\ IF cursor # 0 /\ legacy.cursor # 0
       THEN Proceed("down") /\ noted' = Nothing
       ELSE /\ Proceed("rest")
            /\ noted' = [noted EXCEPT !.rows = legacy.rows["alerts"] \ Present("alerts"),
                                      !.cursor = IF cursor = 0 THEN legacy.cursor ELSE 0]
    /\ UNCHANGED <<dataVars, tried, failed>>

Marked(old, new) == IF new = 0 THEN old ELSE new

\* The rest of backfill_unified_alerts, and the one commit of the session.
BackfillEnd ==
    /\ stage = "rest" /\ Proceed("bootstrap") /\ noted' = Nothing
    /\ store' = [store EXCEPT !["alerts"] =
                    [i \in RowId |-> IF i \in noted.rows THEN LegacyRow(i) ELSE @[i]]]
    /\ cursor' = Marked(cursor, noted.cursor)
    /\ marker' = [business |-> Marked(marker.business, noted.business),
                  alerts |-> Marked(marker.alerts, noted.alerts)]
    /\ UNCHANGED <<tried, failed>>

Boot(new) == stage' = new /\ UNCHANGED <<legacy, dataVars, tried, failed, gone, starts>>

\* bootstrap_local_data, unless LOCAL_BOOTSTRAP is off: the row of the demo bait, if
\* there is to be one, gets a token if it has none and alert_server answers.
Tokenless == bait.row \in {Missing, Placeholder}

DemoToken ==
    /\ stage = "bootstrap"
    /\ \/ Boot("up") /\ UNCHANGED <<noted, bootVars>>
       \/ /\ Boot("document") /\ UNCHANGED <<account, bait>>
          /\ \/ noted' = [noted EXCEPT !.token = bait.row] /\ UNCHANGED issued
             \/ /\ Tokenless /\ noted' = [noted EXCEPT !.token = Placeholder] /\ UNCHANGED issued
             \/ /\ Tokenless /\ issued < MaxToken /\ issued' = issued + 1
                /\ noted' = [noted EXCEPT !.token = issued']

\* Its document gets the token of the row, where it can be written, before the commit.
DemoDocument ==
    /\ stage = "document" /\ Boot("account") /\ UNCHANGED <<noted, account, issued>>
    /\ bait' \in {bait} \cup (IF noted.token \in {Missing, Placeholder} THEN {}
                              ELSE {[bait EXCEPT !.document = noted.token]})

\* The configured agent is set to "offline"; but with nothing new (an account, an
\* address, a token) there is no commit, and that is lost with the session.
BootstrapEnd ==
    /\ stage = "account" /\ Boot("up") /\ noted' = Nothing /\ UNCHANGED issued
    /\ \E readdressed \in BOOLEAN :
          IF account.there /\ ~readdressed /\ noted.token = bait.row
          THEN UNCHANGED <<account, bait>>
          ELSE /\ account' = [there |-> TRUE, agent |-> "offline"]
               /\ bait' = [bait EXCEPT !.row = noted.token]

StartupNext ==
    \/ \E t \in Table : LegacyAdds(t) \/ Add(t)
    \/ \E t \in Business, i \in RowId : RemoveRow(t, i)
    \/ LookUp \/ AgentOnline \/ Start \/ Down
    \/ BusinessBegin \/ CopyTable \/ BusinessEnd \/ AlertsBegin \/ AlertsRead \/ BackfillEnd
    \/ DemoToken \/ DemoDocument \/ BootstrapEnd

StartupSpec == StartupInit /\ [][StartupNext]_startupVars

-----------------------------------------------------------------------------
\* Whatever start breaks off or is tried again, and whatever the older installation
\* goes on to write: once a marker names the state its file is in, each of its rows
\* is here, or a row with its id or its name, or was removed with that marker set, and
\* its lookup time is reached; and while the file stays in that state, no start brings
\* back what was removed.  (What was removed before the marker was set, and all that
\* was removed once the file has changed, the next backfill does bring back:
\* _copy_sqlite_table_rows, alert_store.py:1087.)
LegacyCarriedOver ==
    /\ marker.business = legacy.version =>
          \A t \in Business : \A i \in legacy.rows[t] : Held(t, i) \/ gone[t][i] = legacy.version
    /\ marker.alerts = legacy.version =>
          legacy.rows["alerts"] \subseteq Present("alerts") /\ cursor >= legacy.cursor
    /\ \A t \in Business, i \in RowId : gone[t][i] = legacy.version => store[t][i] # LegacyRow(i)
=============================================================================
