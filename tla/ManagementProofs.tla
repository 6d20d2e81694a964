--------------------------- MODULE ManagementProofs ---------------------------
(***************************************************************************)
(* Proofs about what the management process does beside its store and its  *)
(* analyses (these are in LiveAnalysisProofs).                             *)
(*                                                                         *)
(* The start: types, and that an older database is carried over whole.     *)
(* The invariant says, for each part of the takeover, what must already be *)
(* here when the session holds the marker of the state its file is in: a   *)
(* file that changes meanwhile has another state, and the marker that is   *)
(* then committed asks for the part to be taken over again.                *)
(*                                                                         *)
(* The bait documents: there is one token for a file, two for one from     *)
(* before seeds, and no row, session of a request, document or copy that   *)
(* was given away holds another.                                           *)
(*                                                                         *)
(* The replay of deployments: what was gone through of a kind is what is   *)
(* newer than the rest, and the targets of it were seen; so a row that is  *)
(* sent had no later one of its target.                                    *)
(***************************************************************************)
EXTENDS Management, LiveAnalysisProofs

-----------------------------------------------------------------------------
(* The start.                                                              *)

Left == {Order[k] : k \in tried + 1..Len(Order)}

\* The markers are never ahead of the file, a marker is behind it while its tables
\* are copied, and what was removed, was with a marker that is not ahead of today's.
Behind ==
    /\ marker.business <= legacy.version /\ marker.alerts <= legacy.version
    /\ noted.business <= legacy.version /\ noted.alerts <= legacy.version
    /\ \A t \in Business, i \in RowId : gone[t][i] <= marker.business
    /\ noted.business # 0 => marker.business < noted.business
    /\ stage = "copy" => marker.business < legacy.version
    /\ stage \notin {"copy", "alerts", "read", "rest"} => noted.business = 0
    /\ stage \notin {"read", "rest"} => noted.alerts = 0

AllHeld == \A t \in Business : \A i \in legacy.rows[t] : Held(t, i)

\* The tables that are copied, once no table failed.
TablesCopied ==
    noted.business = legacy.version =>
        /\ stage = "copy" /\ ~failed =>
              \A t \in Business \ Left : \A i \in legacy.rows[t] : Held(t, i)
        /\ stage # "copy" => AllHeld

\* The alerts and the lookup time that the session holds.
AlertsNoted ==
    stage = "rest" /\ noted.alerts = legacy.version =>
        /\ legacy.rows["alerts"] \subseteq Present("alerts") \cup noted.rows
        /\ Marked(cursor, noted.cursor) >= legacy.cursor

\* The session holds a lookup time only where there was none.
LookedUp == noted.cursor # 0 => stage = "rest" /\ cursor = 0

StartInv == StartupTypeOK /\ Behind /\ TablesCopied /\ AlertsNoted /\ LookedUp /\ LegacyCarriedOver

-----------------------------------------------------------------------------
LEMMA TableFacts == Business \subseteq Table /\ "alerts" \in Table \ Business
BY DEF Business, Table

\* Present that stay keep what holds the place of an older row.
LEMMA HeldStays ==
    ASSUME NEW t \in Table, NEW i \in RowId, Held(t, i),
           \A j \in Present(t) : j \in Present(t)' /\ store'[t][j] = store[t][j]
    PROVE  Held(t, i)'
BY DEF Held, Named

LEMMA OrderFacts ==
    /\ Len(Order) = 2 /\ Order[1] = "honeyfiles" /\ Order[2] = "filedeploy"
    /\ \A k \in 1..2 : Order[k] \in Business /\ Order[k] \in Table
BY DEF Order, Business, Table

LEMMA TriedFacts == 0 \in 0..Len(Order) /\ \A k \in 0..1 : k + 1 \in 0..Len(Order)
<1>1. Len(Order) = 2
  BY OrderFacts
<1> QED BY <1>1

-----------------------------------------------------------------------------
(* Types.                                                                  *)

LEMMA StartTypeInit == ASSUME StartupAssumption, StartupInit PROVE StartupTypeOK
<1>1. PICK ids \in [Table -> SUBSET {1}], c \in 0..1 :
        legacy = [rows |-> ids, cursor |-> c, version |-> 1]
  BY DEF StartupInit
<1>2. ids \in [Table -> SUBSET RowId] /\ c \in 0..MaxTime /\ 1 \in 1..MaxVersion
  BY DEF StartupAssumption, RowId
<1>3. legacy \in [rows : [Table -> SUBSET RowId], cursor : 0..MaxTime, version : 1..MaxVersion]
  BY <1>1, <1>2
<1>4. noted \in NotedType
  BY DEF StartupInit, Nothing, NotedType, StartupAssumption
<1>5. /\ store \in [Table -> [RowId -> Row \cup {Missing}]] /\ cursor \in 0..MaxTime
      /\ marker \in [business : 0..MaxVersion, alerts : 0..MaxVersion]
      /\ bait \in [row : {Missing} \cup 0..MaxToken, document : 0..MaxToken]
      /\ issued \in 0..MaxToken
  BY DEF StartupInit, StartupAssumption, Placeholder
<1>6. /\ stage = "down" /\ tried = 0 /\ failed = FALSE
      /\ gone \in [Business -> [RowId -> 0..MaxVersion]]
      /\ account \in [there : BOOLEAN, agent : {"online", "offline"}]
  BY DEF StartupInit, StartupAssumption
<1> QED BY <1>3, <1>4, <1>5, <1>6, TriedFacts DEF StartupTypeOK

LEMMA NothingType ==
    ASSUME StartupAssumption
    PROVE  Nothing \in NotedType
BY DEF Nothing, NotedType, StartupAssumption

LEMMA StartTypeStep ==
    ASSUME StartupAssumption, StartupTypeOK, [StartupNext]_startupVars PROVE StartupTypeOK'
<1> USE DEF StartupTypeOK, dataVars, bootVars
<1>1. CASE UNCHANGED startupVars
  BY <1>1 DEF startupVars
<1>2. ASSUME NEW t \in Table, LegacyAdds(t) PROVE StartupTypeOK'
  <2>1. PICK i \in RowId :
          LegacyWrites([legacy EXCEPT !.rows[t] = @ \cup {i},
                     !.cursor = IF t = "alerts" /\ @ < MaxTime THEN @ + 1 ELSE @])
    BY <1>2 DEF LegacyAdds
  <2>2. legacy' \in [rows : [Table -> SUBSET RowId], cursor : 0..MaxTime, version : 1..MaxVersion]
    <3>1. [legacy.rows EXCEPT ![t] = @ \cup {i}] \in [Table -> SUBSET RowId]
      OBVIOUS
    <3>2. (IF t = "alerts" /\ legacy.cursor < MaxTime THEN legacy.cursor + 1
                                                     ELSE legacy.cursor) \in 0..MaxTime
      BY DEF StartupAssumption
    <3>3. legacy.version + 1 \in 1..MaxVersion
      BY <1>2 DEF LegacyAdds, StartupAssumption
    <3>4. legacy' = [rows |-> [legacy.rows EXCEPT ![t] = @ \cup {i}],
                     cursor |-> IF t = "alerts" /\ legacy.cursor < MaxTime
                                THEN legacy.cursor + 1 ELSE legacy.cursor,
                     version |-> legacy.version + 1]
      BY <2>1 DEF LegacyWrites
    <3> QED BY <3>1, <3>2, <3>3, <3>4
  <2> QED BY <1>2, <2>2 DEF LegacyAdds
<1>3. ASSUME NEW t \in Table, Add(t) PROVE StartupTypeOK'
  <2>1. PICK i \in RowId, n \in 0..MaxId : store' = [store EXCEPT ![t][i] = [by |-> "own", name |-> n]]
    <3>1. (IF t = "honeyfiles" THEN 0..MaxId ELSE {0}) \subseteq 0..MaxId
      BY DEF StartupAssumption
    <3> QED BY <1>3, <3>1 DEF Add
  <2>2. [by |-> "own", name |-> n] \in Row
    BY DEF Row
  <2>3. store' \in [Table -> [RowId -> Row \cup {Missing}]]
    BY <2>1, <2>2
  <2> QED BY <1>3, <2>3 DEF Add
<1>4. ASSUME NEW t \in Business, NEW i \in RowId, RemoveRow(t, i) PROVE StartupTypeOK'
  <2>1. store' \in [Table -> [RowId -> Row \cup {Missing}]]
    BY <1>4, TableFacts DEF RemoveRow
  <2>2. gone' \in [Business -> [RowId -> 0..MaxVersion]]
    BY <1>4 DEF RemoveRow
  <2> QED BY <1>4, <2>1, <2>2 DEF RemoveRow
<1>5. CASE LookUp
  BY <1>5 DEF LookUp, StartupAssumption
<1>6. CASE AgentOnline
  BY <1>6 DEF AgentOnline
<1>7. CASE Start
  BY <1>7, NothingType, TriedFacts DEF Start
<1>8. CASE Down
  BY <1>8, NothingType DEF Down
<1>9. CASE BusinessBegin
  <2>1. noted' \in NotedType
    <3>1. legacy.version \in 0..MaxVersion
      BY DEF StartupAssumption
    <3>2. [noted EXCEPT !.business = legacy.version] \in NotedType
      BY <3>1 DEF NotedType
    <3> QED BY <1>9, <3>2 DEF BusinessBegin
  <2> QED BY <1>9, <2>1, TriedFacts DEF BusinessBegin, Proceed
<1>10. CASE CopyTable
  <2>1. tried \in 0..1 /\ tried' = tried + 1
    BY <1>10, OrderFacts DEF CopyTable
  <2>2. Order[tried'] \in Table
    BY <2>1, OrderFacts
  <2>3. Copied(Order[tried']) \in [RowId -> Row \cup {Missing}]
    BY <2>2 DEF Copied, LegacyRow, Row, RowId, StartupAssumption
  <2>4. store' \in [Table -> [RowId -> Row \cup {Missing}]]
    BY <1>10, <2>2, <2>3 DEF CopyTable
  <2>5. /\ tried' \in 0..Len(Order) /\ failed' \in BOOLEAN /\ stage' = "copy"
        /\ UNCHANGED <<legacy, cursor, marker, noted, gone, account, bait, issued>>
    BY <1>10, <2>1, TriedFacts DEF CopyTable, Proceed
  <2> QED BY <2>4, <2>5
<1>11. CASE BusinessEnd
  <2>1. 0 \in 0..MaxVersion
    BY DEF StartupAssumption
  <2>2. [noted EXCEPT !.business = 0] \in NotedType
    BY <2>1 DEF NotedType
  <2> QED BY <1>11, <2>2 DEF BusinessEnd, Proceed
<1>12. CASE AlertsBegin
  <2>1. noted' \in NotedType
    <3>1. legacy.version \in 0..MaxVersion
      BY DEF StartupAssumption
    <3>2. [noted EXCEPT !.alerts = legacy.version] \in NotedType
      BY <3>1 DEF NotedType
    <3> QED BY <1>12, <3>2 DEF AlertsBegin
  <2> QED BY <1>12, <2>1 DEF AlertsBegin, Proceed
<1>13. CASE AlertsRead
  <2>1. noted' \in NotedType
    <3>1. legacy.rows["alerts"] \ Present("alerts") \in SUBSET RowId
      BY TableFacts
    <3>2. (IF cursor = 0 THEN legacy.cursor ELSE 0) \in 0..MaxTime
      BY DEF StartupAssumption
    <3> QED BY <1>13, <3>1, <3>2, NothingType DEF AlertsRead, NotedType
  <2> QED BY <1>13, <2>1 DEF AlertsRead, Proceed
<1>14. CASE BackfillEnd
  <2>1. store' \in [Table -> [RowId -> Row \cup {Missing}]]
    BY <1>14, TableFacts DEF BackfillEnd, NotedType, LegacyRow, Row, RowId, StartupAssumption
  <2>2. cursor' \in 0..MaxTime /\ marker' \in [business : 0..MaxVersion, alerts : 0..MaxVersion]
    BY <1>14 DEF BackfillEnd, Marked, NotedType
  <2> QED BY <1>14, <2>1, <2>2, NothingType DEF BackfillEnd, Proceed
<1>15. CASE DemoToken
  <2>1. noted' \in NotedType
    <3>1. \A token \in {Missing} \cup 0..MaxToken : [noted EXCEPT !.token = token] \in NotedType
      BY DEF NotedType
    <3>2. bait.row \in {Missing} \cup 0..MaxToken /\ Placeholder \in 0..MaxToken
      BY DEF Placeholder, StartupAssumption
    <3>3. issued + 1 \in 0..MaxToken \/ ~(issued < MaxToken)
      BY DEF StartupAssumption
    <3>4. PICK token \in {Missing} \cup 0..MaxToken :
            noted' = noted \/ noted' = [noted EXCEPT !.token = token]
      <4>1. CASE UNCHANGED noted
        BY <4>1
      <4>2. CASE noted' = [noted EXCEPT !.token = bait.row]
        BY <4>2, <3>2
      <4>3. CASE noted' = [noted EXCEPT !.token = Placeholder]
        BY <4>3, <3>2
      <4>4. CASE issued < MaxToken /\ issued' = issued + 1 /\ noted' = [noted EXCEPT !.token = issued']
        BY <4>4, <3>3
      <4> QED BY <1>15, <4>1, <4>2, <4>3, <4>4 DEF DemoToken
    <3> QED BY <3>1, <3>4
  <2>2. issued' \in 0..MaxToken
    BY <1>15 DEF DemoToken, StartupAssumption
  <2> QED BY <1>15, <2>1, <2>2 DEF DemoToken, Boot
<1>16. CASE DemoDocument
  <2>1. noted.token \in {Missing, Placeholder} \/ noted.token \in 0..MaxToken
    BY DEF NotedType
  <2> QED BY <1>16, <2>1 DEF DemoDocument, Boot
<1>17. CASE BootstrapEnd
  <2>1. [bait EXCEPT !.row = noted.token] \in [row : {Missing} \cup 0..MaxToken, document : 0..MaxToken]
    BY DEF NotedType
  <2>2. bait' \in {bait, [bait EXCEPT !.row = noted.token]}
        /\ account' \in {account, [there |-> TRUE, agent |-> "offline"]}
    BY <1>17 DEF BootstrapEnd
  <2>3. bait' \in [row : {Missing} \cup 0..MaxToken, document : 0..MaxToken]
    BY <2>1, <2>2
  <2>4. [there |-> TRUE, agent |-> "offline"] \in [there : BOOLEAN, agent : {"online", "offline"}]
    OBVIOUS
  <2>5. account' \in [there : BOOLEAN, agent : {"online", "offline"}]
    BY <2>2, <2>4
  <2> QED BY <1>17, <2>3, <2>5, NothingType DEF BootstrapEnd, Boot
<1> QED BY <1>1, <1>2, <1>3, <1>4, <1>5, <1>6, <1>7, <1>8, <1>9, <1>10, <1>11, <1>12, <1>13,
           <1>14, <1>15, <1>16, <1>17 DEF StartupNext

-----------------------------------------------------------------------------
(* The takeover.                                                           *)

LEMMA Numbers ==
    ASSUME StartupAssumption, StartupTypeOK
    PROVE  /\ legacy.version \in Nat \ {0} /\ legacy.cursor \in Nat /\ cursor \in Nat
           /\ marker.business \in Nat /\ marker.alerts \in Nat
           /\ noted.business \in Nat /\ noted.alerts \in Nat /\ noted.cursor \in Nat
BY DEF StartupTypeOK, NotedType, StartupAssumption

\* The older installation writes: its file is ahead of every marker.
LEMMA LegacyStep ==
    ASSUME StartupAssumption, StartInv, NEW t \in Table, LegacyAdds(t)
    PROVE  Behind' /\ TablesCopied' /\ AlertsNoted' /\ LegacyCarriedOver'
<1>1. legacy'.version = legacy.version + 1
  BY DEF LegacyAdds, LegacyWrites, StartInv, StartupTypeOK
<1>2. /\ marker.business < legacy'.version /\ marker.alerts < legacy'.version
      /\ noted.business < legacy'.version /\ noted.alerts < legacy'.version
  BY <1>1, Numbers DEF StartInv, Behind
<1>3. UNCHANGED <<store, cursor, marker, stage, tried, failed, noted, gone>>
  BY DEF LegacyAdds, dataVars
<1>4. Behind'
  BY <1>1, <1>2, <1>3, Numbers DEF StartInv, Behind
<1>6. \A u \in Business, i \in RowId : gone'[u][i] # legacy'.version
  <2> SUFFICES ASSUME NEW u \in Business, NEW i \in RowId PROVE gone[u][i] # legacy'.version
    BY <1>3
  <2>1. gone[u][i] \in Nat /\ gone[u][i] <= marker.business
    BY DEF StartInv, StartupTypeOK, Behind
  <2> QED BY <1>1, <1>2, <2>1, Numbers DEF StartInv
<1>5. marker'.business # legacy'.version /\ marker'.alerts # legacy'.version
      /\ noted'.business # legacy'.version /\ noted'.alerts # legacy'.version
  BY <1>1, <1>2, <1>3, Numbers DEF StartInv
<1> QED BY <1>4, <1>5, <1>6 DEF TablesCopied, AlertsNoted, LegacyCarriedOver

LEMMA CarriedStays ==
    ASSUME LegacyCarriedOver, UNCHANGED <<legacy, store, marker, gone>>,
           cursor >= legacy.cursor => cursor' >= legacy'.cursor
    PROVE  LegacyCarriedOver'
<1>1. \A t, i : Held(t, i)' <=> Held(t, i)
  BY DEF Held, Named, Present
<1>2. Present("alerts")' = Present("alerts")
  BY DEF Present
<1> QED BY <1>1, <1>2 DEF LegacyCarriedOver

\* Pages, pulls and the agent: the session of the start is empty.
LEMMA PageStep ==
    ASSUME StartupAssumption, StartInv, StartupTypeOK',
           \/ \E t \in Table : Add(t)
           \/ \E t \in Business, i \in RowId : RemoveRow(t, i)
           \/ LookUp \/ AgentOnline
    PROVE  Behind' /\ TablesCopied' /\ AlertsNoted' /\ LegacyCarriedOver'
<1> USE DEF StartInv
<1>1. stage = "up" /\ UNCHANGED <<legacy, marker, stage, noted>>
  BY DEF Add, RemoveRow, LookUp, AgentOnline, dataVars
<1>2. noted.business = 0 /\ legacy.version # 0
  BY <1>1, Numbers DEF Behind
<1>3. TablesCopied' /\ AlertsNoted'
  BY <1>1, <1>2 DEF TablesCopied, AlertsNoted
<1>4. ASSUME NEW t \in Table, Add(t) PROVE Behind' /\ LegacyCarriedOver'
  <2>1. PICK i \in RowId, n \in IF t = "honeyfiles" THEN 0..MaxId ELSE {0} :
          /\ IsNextId(i, Present(t))
          /\ store' = [store EXCEPT ![t][i] = [by |-> "own", name |-> n]]
    BY <1>4 DEF Add
  <2>2. i \notin Present(t)
    BY <2>1 DEF IsNextId, Present, RowId
  <2>3. \A u \in Table : \A j \in Present(u) : j \in Present(u)' /\ store'[u][j] = store[u][j]
    BY <2>1, <2>2 DEF StartupTypeOK, Present
  <2>4. \A u \in Table : \A j \in RowId : Held(u, j) => Held(u, j)'
    BY <2>3, HeldStays
  <2>5. ASSUME NEW u \in Business, NEW k \in RowId, gone[u][k] = legacy.version
        PROVE  store'[u][k] # LegacyRow(k)
    <3>1. u \in Table /\ store[u][k] # LegacyRow(k)
      BY <2>5, TableFacts DEF LegacyCarriedOver
    <3>2. [by |-> "own", name |-> n] # LegacyRow(k)
      BY DEF LegacyRow
    <3>3. \/ store'[u][k] = store[u][k]
          \/ store'[u][k] = [by |-> "own", name |-> n]
      BY <2>1, <3>1 DEF StartupTypeOK
    <3> QED BY <3>1, <3>2, <3>3
  <2>6. UNCHANGED <<legacy, cursor, marker, stage, noted, gone>>
    BY <1>4 DEF Add
  <2>7. LegacyCarriedOver'
    <3>1. ASSUME marker.business = legacy.version, NEW u \in Business, NEW j \in legacy.rows[u]
          PROVE  Held(u, j)' \/ gone[u][j] = legacy.version
      BY <3>1, <2>4, TableFacts DEF LegacyCarriedOver, StartupTypeOK
    <3>2. legacy.rows["alerts"] \subseteq Present("alerts") => legacy.rows["alerts"] \subseteq Present("alerts")'
      BY <2>3, TableFacts
    <3> QED BY <2>5, <2>6, <3>1, <3>2 DEF LegacyCarriedOver
  <2> QED BY <2>6, <2>7 DEF Behind
<1>5. ASSUME NEW t \in Business, NEW i \in RowId, RemoveRow(t, i) PROVE Behind' /\ LegacyCarriedOver'
  <2>1. store' = [store EXCEPT ![t][i] = Missing]
    BY <1>5 DEF RemoveRow
  <2>2. UNCHANGED <<legacy, cursor, marker, stage, noted>>
    BY <1>5 DEF RemoveRow
  <2>3. Present("alerts")' = Present("alerts")
    BY <2>1, TableFacts DEF StartupTypeOK, Present
  <2>4. ASSUME NEW u \in Business, NEW j \in RowId
        PROVE  gone'[u][j] = IF u = t /\ Held(t, j) /\ ~Held(t, j)' THEN marker.business ELSE gone[u][j]
    BY <1>5 DEF RemoveRow, StartupTypeOK
  <2>5. ASSUME marker.business = legacy.version, NEW u \in Business, NEW j \in legacy.rows[u]
        PROVE  Held(u, j)' \/ gone'[u][j] = legacy.version
    <3>1. u \in Table /\ j \in RowId
      BY TableFacts DEF StartupTypeOK
    <3>2. Held(u, j) \/ gone[u][j] = legacy.version
      BY <2>5 DEF LegacyCarriedOver
    <3>3. CASE u = t
      BY <2>4, <2>5, <3>1, <3>2, <3>3
    <3>4. CASE u # t
      <4>1. store'[u] = store[u]
        BY <2>1, <3>1, <3>4 DEF StartupTypeOK
      <4>2. Held(u, j)' <=> Held(u, j)
        BY <4>1 DEF Held, Named, Present
      <4> QED BY <2>4, <3>1, <3>2, <3>4, <4>2
    <3> QED BY <3>3, <3>4
  <2>6. ASSUME NEW u \in Business, NEW j \in RowId, gone'[u][j] = legacy.version
        PROVE  store'[u][j] # LegacyRow(j)
    <3>1. u \in Table /\ LegacyRow(j) \in Row /\ LegacyRow(j) # Missing
      <4>1. LegacyRow(j) \in Row
        BY DEF LegacyRow, Row, RowId, StartupAssumption
      <4> QED BY <4>1, TableFacts DEF StartupAssumption
    <3>2. CASE u = t /\ Held(t, j) /\ ~Held(t, j)'
      <4>1. store'[t][j] = Missing
        BY <3>2 DEF Held, Present
      <4> QED BY <3>1, <3>2, <4>1
    <3>3. CASE ~(u = t /\ Held(t, j) /\ ~Held(t, j)')
      <4>1. gone[u][j] = legacy.version
        BY <2>4, <2>6, <3>3
      <4>2. store[u][j] # LegacyRow(j)
        BY <4>1 DEF LegacyCarriedOver
      <4>3. store'[u][j] \in {Missing, store[u][j]}
        BY <2>1, <3>1 DEF StartupTypeOK
      <4> QED BY <3>1, <4>2, <4>3
    <3> QED BY <3>2, <3>3
  <2>7. ASSUME NEW u \in Business, NEW j \in RowId PROVE gone'[u][j] <= marker.business
    BY <2>4, Numbers DEF Behind
  <2>8. Behind'
    BY <2>2, <2>7 DEF Behind
  <2> QED BY <2>2, <2>3, <2>5, <2>6, <2>8 DEF LegacyCarriedOver
<1>6. CASE LookUp
  <2>1. UNCHANGED <<legacy, store, marker, stage, noted, gone>> /\ cursor' = cursor + 1
    BY <1>6 DEF LookUp
  <2>2. cursor >= legacy.cursor => cursor' >= legacy.cursor'
    BY <2>1, Numbers
  <2>3. LegacyCarriedOver'
    BY <2>1, <2>2, CarriedStays
  <2> QED BY <1>3, <2>1, <2>3 DEF Behind
<1>7. CASE AgentOnline
  <2>1. UNCHANGED <<legacy, store, cursor, marker, stage, noted, gone>>
    BY <1>7 DEF AgentOnline, dataVars
  <2>2. LegacyCarriedOver'
    BY <2>1, CarriedStays
  <2> QED BY <1>3, <2>1, <2>2 DEF Behind
<1> QED BY <1>3, <1>4, <1>5, <1>6, <1>7

\* The steps of a start that write no row: the first of each part reads the marker and
\* the file's time, and the older alerts go to the session.
LEMMA SessionStep ==
    ASSUME StartupAssumption, StartInv, StartupTypeOK',
           \/ Start \/ Down \/ BusinessBegin \/ BusinessEnd \/ AlertsBegin \/ AlertsRead
           \/ DemoToken \/ DemoDocument \/ BootstrapEnd
    PROVE  Behind' /\ TablesCopied' /\ AlertsNoted' /\ LegacyCarriedOver'
<1> USE DEF StartInv
<1>1. UNCHANGED <<legacy, store, cursor, marker, gone>>
  BY DEF Start, Down, BusinessBegin, BusinessEnd, AlertsBegin, AlertsRead, DemoToken,
     DemoDocument, BootstrapEnd, Proceed, Boot, dataVars
<1>2. LegacyCarriedOver'
  BY <1>1, CarriedStays
<1>3. AllHeld' <=> AllHeld
  <2>1. \A t, i : Held(t, i)' <=> Held(t, i)
    BY <1>1 DEF Held, Named, Present
  <2> QED BY <1>1, <2>1 DEF AllHeld
<1>4. legacy.version # 0 /\ Present("alerts")' = Present("alerts")
  BY <1>1, Numbers DEF Present
<1>5. CASE Start \/ Down
  <2>1. noted'.business = 0 /\ noted'.alerts = 0 /\ stage' \in {"business", "bootstrap", "down"}
    BY <1>5 DEF Start, Down, Nothing
  <2>2. Behind'
    BY <1>1, <2>1, Numbers DEF Behind
  <2> QED BY <1>1, <1>2, <1>4, <2>1, <2>2 DEF TablesCopied, AlertsNoted
<1>6. CASE BusinessBegin
  <2>1. noted.business = 0 /\ noted.alerts = 0
    BY <1>6 DEF BusinessBegin, Behind
  <2>2. CASE marker.business = legacy.version
    <3>1. stage' = "alerts" /\ noted' = noted
      BY <1>6, <2>2 DEF BusinessBegin, Proceed
    <3> QED BY <1>1, <1>2, <1>4, <2>1, <3>1 DEF Behind, TablesCopied, AlertsNoted
  <2>3. CASE marker.business # legacy.version
    <3>1. /\ stage' = "copy" /\ tried' = 0
          /\ noted'.business = legacy.version /\ noted'.alerts = 0
      BY <1>6, <2>1, <2>3 DEF BusinessBegin, Proceed, StartupTypeOK, NotedType
    <3>2. marker.business < legacy.version
      BY <2>3, Numbers DEF Behind
    <3>3. Behind'
      BY <1>1, <3>1, <3>2, Numbers DEF Behind
    <3>4. Left' = Business
      BY <3>1, OrderFacts DEF Left, Business
    <3> QED BY <1>1, <1>2, <1>4, <3>1, <3>3, <3>4 DEF TablesCopied, AlertsNoted
  <2> QED BY <2>2, <2>3
<1>7. CASE BusinessEnd
  <2>1. /\ stage = "copy" /\ stage' = "alerts" /\ tried = Len(Order)
        /\ noted' = IF failed THEN [noted EXCEPT !.business = 0] ELSE noted
    BY <1>7 DEF BusinessEnd, Proceed
  <2>2. Left = {}
    BY <2>1, OrderFacts DEF Left
  <2>3. /\ noted'.business \in {0, noted.business} /\ noted'.alerts = noted.alerts
        /\ failed => noted'.business = 0
    BY <2>1 DEF StartupTypeOK, NotedType
  <2>4. Behind'
    BY <1>1, <2>1, <2>3, Numbers DEF Behind
  <2>5. noted'.business = legacy.version => AllHeld
    BY <1>4, <2>1, <2>2, <2>3 DEF TablesCopied, AllHeld
  <2> QED BY <1>1, <1>2, <1>3, <2>1, <2>4, <2>5 DEF TablesCopied, AlertsNoted
<1>8. CASE AlertsBegin
  <2>1. /\ stage = "alerts" /\ stage' \in {"rest", "read"}
        /\ noted'.business = noted.business
    BY <1>8 DEF AlertsBegin, Proceed, StartupTypeOK, NotedType
  <2>2. \/ stage' = "rest" /\ noted'.alerts = 0
        \/ stage' = "read" /\ noted'.alerts = legacy.version
    BY <1>8 DEF AlertsBegin, Proceed, StartupTypeOK, NotedType, Behind
  <2>3. Behind'
    BY <1>1, <2>1, <2>2, Numbers DEF Behind
  <2> QED BY <1>1, <1>2, <1>3, <1>4, <2>1, <2>2, <2>3 DEF TablesCopied, AlertsNoted
<1>9. CASE AlertsRead
  <2>1. CASE cursor # 0 /\ legacy.cursor # 0
    <3>1. stage' = "down" /\ noted'.business = 0 /\ noted'.alerts = 0
      BY <1>9, <2>1 DEF AlertsRead, Proceed, Nothing
    <3>2. Behind'
      BY <1>1, <3>1, Numbers DEF Behind
    <3> QED BY <1>1, <1>2, <1>4, <3>1, <3>2 DEF TablesCopied, AlertsNoted
  <2>2. CASE ~(cursor # 0 /\ legacy.cursor # 0)
    <3>1. /\ stage = "read" /\ stage' = "rest"
          /\ noted'.business = noted.business /\ noted'.alerts = noted.alerts
          /\ noted'.rows = legacy.rows["alerts"] \ Present("alerts")
          /\ noted'.cursor = IF cursor = 0 THEN legacy.cursor ELSE 0
      BY <1>9, <2>2 DEF AlertsRead, Proceed, StartupTypeOK, NotedType
    <3>2. Marked(cursor, noted'.cursor) >= legacy.cursor
      BY <2>2, <3>1, Numbers DEF Marked
    <3>3. Behind'
      BY <1>1, <3>1, Numbers DEF Behind
    <3> QED BY <1>1, <1>2, <1>3, <1>4, <3>1, <3>2, <3>3 DEF TablesCopied, AlertsNoted, Marked
  <2> QED BY <2>1, <2>2
<1>10. CASE DemoToken \/ DemoDocument \/ BootstrapEnd
  <2>1. /\ noted.business = 0 /\ noted.alerts = 0
        /\ stage' \in {"up", "document", "account"}
    BY <1>10 DEF DemoToken, DemoDocument, BootstrapEnd, Boot, Behind
  <2>2. \A token : [noted EXCEPT !.token = token].business = noted.business
                  /\ [noted EXCEPT !.token = token].alerts = noted.alerts
    BY DEF StartupTypeOK, NotedType
  <2>3. \/ noted' \in {noted, Nothing}
        \/ \E token : noted' = [noted EXCEPT !.token = token]
    BY <1>10 DEF DemoToken, DemoDocument, BootstrapEnd
  <2>4. noted'.business = 0 /\ noted'.alerts = 0
    <3>1. Nothing.business = 0 /\ Nothing.alerts = 0
      BY DEF Nothing
    <3>2. CASE noted' = noted
      BY <3>2, <2>1
    <3>3. CASE noted' = Nothing
      BY <3>3, <3>1
    <3>4. CASE \E token : noted' = [noted EXCEPT !.token = token]
      <4>1. PICK token : noted' = [noted EXCEPT !.token = token]
        BY <3>4
      <4> QED BY <4>1, <2>1, <2>2
    <3> QED BY <2>3, <3>2, <3>3, <3>4
  <2>5. Behind'
    BY <1>1, <2>1, <2>4, Numbers DEF Behind
  <2> QED BY <1>1, <1>2, <1>4, <2>1, <2>4, <2>5 DEF TablesCopied, AlertsNoted
<1> QED BY <1>5, <1>6, <1>7, <1>8, <1>9, <1>10

\* After a table was copied, each row of the older one is here, or its name is taken.
LEMMA CopyStep ==
    ASSUME StartupAssumption, StartInv, StartupTypeOK', CopyTable
    PROVE  Behind' /\ TablesCopied' /\ AlertsNoted' /\ LegacyCarriedOver'
<1> USE DEF StartInv
<1> DEFINE copy == Order[tried']
<1>1. /\ tried \in 0..1 /\ tried' = tried + 1 /\ copy \in Business /\ copy \in Table
      /\ copy # "alerts"
  BY OrderFacts, TableFacts DEF CopyTable, StartupTypeOK
<1>2. stage = "copy" /\ stage' = "copy" /\ UNCHANGED <<legacy, cursor, marker, noted, gone>>
  BY DEF CopyTable, Proceed
<1>3. \/ store' = [store EXCEPT ![copy] = Copied(copy)] /\ failed' = failed
      \/ store' = store /\ failed' = TRUE
  BY DEF CopyTable
<1>4. \A i \in RowId : LegacyRow(i) # Missing /\ LegacyRow(i).name = i
  BY DEF LegacyRow, Row, RowId, StartupAssumption
<1>5. \A u \in Table : \A j \in Present(u) : j \in Present(u)' /\ store'[u][j] = store[u][j]
  <2>1. \A j \in Present(copy) : Copied(copy)[j] = store[copy][j]
    BY <1>1 DEF Copied, Present, Held
  <2> QED BY <1>1, <1>3, <2>1 DEF StartupTypeOK, Present
<1>6. \A u \in Table : \A j \in RowId : Held(u, j) => Held(u, j)'
  BY <1>5, HeldStays
<1>7. Present("alerts")' = Present("alerts")
  BY <1>1, <1>3, TableFacts DEF StartupTypeOK, Present
<1>8. Behind'
  BY <1>2 DEF Behind
<1>9. LegacyCarriedOver'
  <2>1. marker'.business # legacy'.version
    BY <1>2, Numbers DEF Behind
  <2>2. \A u \in Business, i \in RowId : gone'[u][i] # legacy'.version
    <3> SUFFICES ASSUME NEW u \in Business, NEW i \in RowId PROVE gone[u][i] # legacy.version
      BY <1>2
    <3>1. gone[u][i] \in Nat /\ gone[u][i] <= marker.business
      BY DEF StartupTypeOK, Behind
    <3> QED BY <1>2, <3>1, Numbers DEF Behind
  <2> QED BY <1>2, <1>7, <2>1, <2>2 DEF LegacyCarriedOver
<1>10. TablesCopied'
  <2> SUFFICES ASSUME noted.business = legacy.version, ~failed',
                      NEW t \in Business \ Left', NEW i \in legacy.rows[t]
               PROVE  Held(t, i)'
    BY <1>2 DEF TablesCopied
  <2>1. ~failed /\ store' = [store EXCEPT ![copy] = Copied(copy)] /\ t \in Table /\ i \in RowId
    BY <1>3, TableFacts DEF StartupTypeOK
  <2>2. CASE t = copy
    <3>1. CASE Held(t, i)
      BY <3>1, <2>1, <1>6
    <3>2. CASE ~Held(t, i)
      <4>1. store'[t][i] = LegacyRow(i)
        BY <3>2, <2>1, <2>2, <1>1 DEF Copied, StartupTypeOK
      <4> QED BY <4>1, <2>1, <1>4 DEF Held, Present
    <3> QED BY <3>1, <3>2
  <2>3. CASE t # copy
    <3>1. t \notin Left
      BY <1>1, <2>3, OrderFacts DEF Left
    <3>2. Held(t, i)
      BY <1>2, <2>1, <3>1 DEF TablesCopied
    <3> QED BY <3>2, <2>1, <1>6
  <2> QED BY <2>2, <2>3
<1> QED BY <1>2, <1>8, <1>9, <1>10 DEF AlertsNoted

\* The commit of the session: the markers, and with them the alerts and the lookup time.
LEMMA BackfillStep ==
    ASSUME StartupAssumption, StartInv, StartupTypeOK', BackfillEnd
    PROVE  Behind' /\ TablesCopied' /\ AlertsNoted' /\ LegacyCarriedOver'
<1> USE DEF StartInv
<1>1. /\ stage = "rest" /\ stage' = "bootstrap" /\ UNCHANGED <<legacy, gone>>
      /\ noted'.business = 0 /\ noted'.alerts = 0
  BY DEF BackfillEnd, Proceed, Nothing
<1>2. /\ marker'.business = Marked(marker.business, noted.business)
      /\ marker'.alerts = Marked(marker.alerts, noted.alerts)
      /\ cursor' = Marked(cursor, noted.cursor)
  BY DEF BackfillEnd
<1>3. ASSUME NEW t \in Business, NEW i \in RowId PROVE gone'[t][i] <= marker'.business
  <2>1. gone[t][i] \in Nat /\ gone[t][i] <= marker.business
    BY DEF StartupTypeOK, Behind
  <2> QED BY <1>1, <1>2, <2>1, Numbers DEF Behind, Marked
<1>4. Behind'
  BY <1>1, <1>2, <1>3, Numbers DEF Behind, Marked
<1>5. \A t \in Business : store'[t] = store[t]
  BY TableFacts DEF BackfillEnd, StartupTypeOK
<1>6. \A t \in Business : \A i : Held(t, i)' <=> Held(t, i)
  BY <1>5 DEF Held, Named, Present
<1>7. \A i \in RowId : store'["alerts"][i] = IF i \in noted.rows THEN LegacyRow(i) ELSE store["alerts"][i]
  BY TableFacts DEF BackfillEnd, StartupTypeOK
<1>8. Present("alerts") \cup (noted.rows \cap RowId) \subseteq Present("alerts")'
  <2>1. \A i \in RowId : LegacyRow(i) # Missing
    BY DEF LegacyRow, Row, RowId, StartupAssumption
  <2> QED BY <1>7, <2>1 DEF Present
<1>9. marker'.business = legacy.version =>
        \A t \in Business : \A i \in legacy.rows[t] : Held(t, i)' \/ gone[t][i] = legacy.version
  <2>1. CASE noted.business = 0
    BY <1>2, <1>6, <2>1 DEF Marked, LegacyCarriedOver
  <2>2. CASE noted.business # 0
    <3> SUFFICES ASSUME noted.business = legacy.version PROVE AllHeld'
      BY <1>1, <1>2, <2>2 DEF Marked, AllHeld
    <3>1. AllHeld
      BY <1>1 DEF TablesCopied
    <3> QED BY <1>1, <1>6, <3>1 DEF AllHeld
  <2> QED BY <2>1, <2>2
<1>10. marker'.alerts = legacy.version =>
        legacy.rows["alerts"] \subseteq Present("alerts")' /\ cursor' >= legacy.cursor
  <2>1. CASE noted.alerts = 0
    <3>1. Marked(cursor, noted.cursor) >= cursor
      BY Numbers DEF Marked, LookedUp
    <3> QED BY <1>2, <1>8, <2>1, <3>1, Numbers DEF Marked, LegacyCarriedOver
  <2>2. CASE noted.alerts # 0
    <3>1. noted.rows \subseteq RowId
      BY DEF StartupTypeOK, NotedType
    <3> QED BY <1>1, <1>2, <1>8, <2>2, <3>1 DEF Marked, AlertsNoted
  <2> QED BY <2>1, <2>2
<1>11. \A t \in Business, i \in RowId : gone[t][i] = legacy.version => store'[t][i] # LegacyRow(i)
  BY <1>5 DEF LegacyCarriedOver
<1> QED BY <1>1, <1>4, <1>9, <1>10, <1>11, Numbers DEF TablesCopied, AlertsNoted, LegacyCarriedOver

LEMMA LookedUpStep ==
    ASSUME StartupAssumption, StartupTypeOK, LookedUp, StartupNext
    PROVE  LookedUp'
<1> USE DEF LookedUp
<1>1. ASSUME NEW t \in Table, LegacyAdds(t) \/ Add(t) PROVE LookedUp'
  BY <1>1 DEF LegacyAdds, Add, dataVars
<1>2. ASSUME NEW t \in Business, NEW i \in RowId, RemoveRow(t, i) PROVE LookedUp'
  BY <1>2 DEF RemoveRow
<1>3. CASE LookUp \/ AgentOnline
  BY <1>3 DEF LookUp, AgentOnline, dataVars
<1>4. CASE Start \/ Down \/ BackfillEnd \/ BootstrapEnd
  BY <1>4 DEF Start, Down, BackfillEnd, BootstrapEnd, Boot, Nothing
<1>5. CASE AlertsRead
  <2>1. CASE cursor # 0 /\ legacy.cursor # 0
    BY <1>5, <2>1 DEF AlertsRead, Nothing
  <2>2. CASE ~(cursor # 0 /\ legacy.cursor # 0)
    <3>1. /\ stage' = "rest" /\ cursor' = cursor
          /\ noted'.cursor = IF cursor = 0 THEN legacy.cursor ELSE 0
      BY <1>5, <2>2 DEF AlertsRead, Proceed, StartupTypeOK, NotedType, dataVars
    <3> QED BY <3>1
  <2> QED BY <2>1, <2>2
<1>6. CASE BusinessBegin \/ CopyTable \/ BusinessEnd \/ AlertsBegin \/ DemoToken \/ DemoDocument
  <2>1. noted'.cursor = noted.cursor /\ stage # "rest"
    <3>1. \A x : /\ [noted EXCEPT !.business = x].cursor = noted.cursor
                 /\ [noted EXCEPT !.alerts = x].cursor = noted.cursor
                 /\ [noted EXCEPT !.token = x].cursor = noted.cursor
      BY DEF StartupTypeOK, NotedType
    <3>2. CASE BusinessBegin
      BY <3>1, <3>2 DEF BusinessBegin
    <3>3. CASE CopyTable \/ DemoDocument
      BY <3>3 DEF CopyTable, DemoDocument
    <3>4. CASE BusinessEnd
      BY <3>1, <3>4 DEF BusinessEnd
    <3>5. CASE AlertsBegin
      BY <3>1, <3>5 DEF AlertsBegin
    <3>6. CASE DemoToken
      BY <3>1, <3>6 DEF DemoToken
    <3> QED BY <1>6, <3>2, <3>3, <3>4, <3>5, <3>6
  <2> QED BY <2>1
<1> QED BY <1>1, <1>2, <1>3, <1>4, <1>5, <1>6 DEF StartupNext

-----------------------------------------------------------------------------
LEMMA StartInvInit == ASSUME StartupAssumption, StartupInit PROVE StartInv
<1>1. StartupTypeOK
  BY StartTypeInit
<1>2. /\ marker.business = 0 /\ marker.alerts = 0 /\ noted.business = 0 /\ noted.alerts = 0
      /\ stage = "down" /\ \A t \in Business, i \in RowId : gone[t][i] = 0
  BY DEF StartupInit, Nothing
<1>3. legacy.version # 0 /\ legacy.version \in Nat /\ noted.cursor = 0
  BY <1>1, Numbers DEF StartupInit, Nothing
<1> QED BY <1>1, <1>2, <1>3 DEF StartInv, Behind, TablesCopied, AlertsNoted, LookedUp, LegacyCarriedOver

LEMMA StartInvStep ==
    ASSUME StartupAssumption, StartInv, [StartupNext]_startupVars PROVE StartInv'
<1>1. StartupTypeOK'
  BY StartTypeStep DEF StartInv
<1>0. StartupNext => LookedUp'
  BY LookedUpStep DEF StartInv
<1>2. CASE UNCHANGED startupVars
  BY <1>2 DEF startupVars, StartInv, StartupTypeOK, Behind, TablesCopied, AllHeld, Left, AlertsNoted,
     LookedUp, LegacyCarriedOver, Held, Named, Present
<1>3. ASSUME NEW t \in Table, LegacyAdds(t) PROVE StartInv'
  BY <1>0, <1>1, <1>3, LegacyStep DEF StartInv, StartupNext
<1>4. CASE \/ \E t \in Table : Add(t)
           \/ \E t \in Business, i \in RowId : RemoveRow(t, i)
           \/ LookUp \/ AgentOnline
  BY <1>0, <1>1, <1>4, PageStep DEF StartInv, StartupNext
<1>5. CASE \/ Start \/ Down \/ BusinessBegin \/ BusinessEnd \/ AlertsBegin \/ AlertsRead
           \/ DemoToken \/ DemoDocument \/ BootstrapEnd
  BY <1>0, <1>1, <1>5, SessionStep DEF StartInv, StartupNext
<1>6. CASE CopyTable
  BY <1>0, <1>1, <1>6, CopyStep DEF StartInv, StartupNext
<1>7. CASE BackfillEnd
  BY <1>0, <1>1, <1>7, BackfillStep DEF StartInv, StartupNext
<1> QED BY <1>2, <1>3, <1>4, <1>5, <1>6, <1>7 DEF StartupNext

\* Every state of the start has its types.
THEOREM StartTypes == ASSUME StartupAssumption PROVE StartupSpec => []StartupTypeOK
<1>1. StartupInit => StartupTypeOK
  BY StartTypeInit
<1>2. StartupTypeOK /\ [StartupNext]_startupVars => StartupTypeOK'
  BY StartTypeStep
<1> QED BY <1>1, <1>2, PTL DEF StartupSpec

\* Once a marker names the state its file is in, an older database is carried over whole
\* but for what was removed with that marker set, and that stays away for as long as the
\* file is in that state: for any number of rows, starts and changes of the file,
\* wherever a start breaks off (the markers of both migrations, alert_store.py).
THEOREM CarriedOver == ASSUME StartupAssumption PROVE StartupSpec => []LegacyCarriedOver
<1>1. StartupInit => StartInv
  BY StartInvInit
<1>2. StartInv /\ [StartupNext]_startupVars => StartInv'
  BY StartInvStep
<1>3. StartInv => LegacyCarriedOver
  BY DEF StartInv
<1> QED BY <1>1, <1>2, <1>3, PTL DEF StartupSpec

-----------------------------------------------------------------------------
(* The bait documents.                                                     *)

\* The tokens and the seeds there can be for a file.
Tokens(f) == IF f \in Seedless THEN {Baits!Old(f), Baits!ById(f)} ELSE {Baits!Random(f)}
Seeds(f) == IF f \in Seedless THEN {Baits!ById(f)} ELSE {Baits!Random(f)}
RowsOfFile(f) ==
    [token : Tokens(f), seed : IF f \in Seedless THEN Seeds(f) \cup {None} ELSE Seeds(f)]

Sessions == UNION {[files -> [token : Baits!Token \cup {None}, seed : Baits!Token]] :
                      files \in SUBSET Baits!File}
RequestRow ==
    [op : {"none", "create", "delete", "deploy", "user", "agent", "repair"},
     pc : {"idle", "look", "issue", "write", "commit", "serve", "end", "erase", "record"},
     file : Baits!File \cup {None}, place : Container \cup {None}, todo : SUBSET Baits!File,
     forced : BOOLEAN, session : Sessions]

SessionFits(session) ==
    \A f \in DOMAIN session : session[f] \in [token : Seeds(f) \cup {None}, seed : Seeds(f)]

\* A request to create a file has a token for it whenever its session has a row, and
\* a document is written when there is a token to write.
Fits(q) ==
    /\ q \in RequestRow
    /\ SessionFits(q.session)
    /\ q.op = "create" => /\ q.file \notin Seedless /\ q.pc \in {"issue", "write", "commit"}
                          /\ \A f \in DOMAIN q.session : q.session[f].token # None
    /\ q.pc = "issue" /\ q.op # "create" => q.file \in DOMAIN q.session
    /\ q.pc = "write" => q.file \in DOMAIN q.session /\ q.session[q.file].token # None
    /\ q.pc \in {"look", "issue", "write", "commit", "serve", "erase", "record"} =>
          q.file \in Baits!File
    /\ q.pc = "record" => q.place \in Container

RequestsFit == request \in [Request -> RequestRow] /\ \A r \in Request : Fits(request[r])
RowsFit ==
    /\ honeyfile \in [Baits!File -> [token : Baits!Token, seed : Baits!Token \cup {None}]
                                    \cup {None, Unborn}]
    /\ \A f \in Baits!File : /\ f \in Seedless => honeyfile[f] # Unborn
                             /\ Baits!Exists(f) => honeyfile[f] \in RowsOfFile(f)
DocumentsFit ==
    /\ document \in [Baits!File -> Baits!Token \cup {None, TornDocument}]
    /\ \A f \in Baits!File : document[f] \in Tokens(f) \cup {None, TornDocument}
PlantedFit ==
    /\ planted \subseteq [file : Baits!File, token : Baits!Token]
    /\ \A b \in planted : b.token \in Tokens(b.file)
PlacesFit ==
    /\ inside \subseteq [file : Baits!File, place : Container, name : {"name", "short name"}]
    /\ deployed \cup removed \subseteq [file : Baits!File, place : Container]

BaitInv == RequestsFit /\ RowsFit /\ DocumentsFit /\ PlantedFit /\ PlacesFit

LEMMA TokenFacts ==
    ASSUME NEW f \in Baits!File
    PROVE  /\ Tokens(f) \subseteq Baits!Token /\ Seeds(f) \subseteq Tokens(f)
           /\ f \notin Seedless => Tokens(f) = {Baits!Random(f)} /\ Seeds(f) = {Baits!Random(f)}
           /\ f \in Seedless => Seeds(f) = {Baits!ById(f)}
BY DEF Tokens, Seeds, Baits!Old, Baits!Random, Baits!ById, Baits!Token

LEMMA TokenIsNone ==
    ASSUME Baits!BaitAssumption
    PROVE  /\ None \notin Baits!Token /\ TornDocument \notin Baits!Token /\ None # Unborn
           /\ None \notin Baits!File
BY DEF Baits!BaitAssumption

LEMMA NoRequestFits ==
    ASSUME Baits!BaitAssumption
    PROVE  Fits(Baits!NoRequest) /\ Baits!NoRequest.session = <<>>
<1>1. <<>> \in Sessions
  <2>1. <<>> \in [{} -> [token : Baits!Token \cup {None}, seed : Baits!Token]]
    OBVIOUS
  <2> QED BY <2>1 DEF Sessions
<1>2. Baits!NoRequest \in RequestRow
  BY <1>1 DEF Baits!NoRequest, RequestRow
<1> QED BY <1>2 DEF Fits, SessionFits, Baits!NoRequest

\* A request changes its own record only.
LEMMA OneRequest ==
    ASSUME RequestsFit, NEW r \in Request, NEW q, Fits(q),
           request' = [request EXCEPT ![r] = q]
    PROVE  RequestsFit'
BY DEF RequestsFit, Fits

LEMMA SessionType ==
    ASSUME NEW session
    PROVE  session \in Sessions <=>
              /\ DOMAIN session \subseteq Baits!File
              /\ session = [f \in DOMAIN session |-> session[f]]
              /\ \A f \in DOMAIN session :
                    session[f] \in [token : Baits!Token \cup {None}, seed : Baits!Token]
<1>1. ASSUME session \in Sessions
      PROVE  /\ DOMAIN session \subseteq Baits!File
             /\ session = [f \in DOMAIN session |-> session[f]]
             /\ \A f \in DOMAIN session :
                   session[f] \in [token : Baits!Token \cup {None}, seed : Baits!Token]
  <2>1. PICK files \in SUBSET Baits!File :
          session \in [files -> [token : Baits!Token \cup {None}, seed : Baits!Token]]
    BY <1>1 DEF Sessions
  <2> QED BY <2>1
<1>2. ASSUME DOMAIN session \subseteq Baits!File,
             session = [f \in DOMAIN session |-> session[f]],
             \A f \in DOMAIN session :
                session[f] \in [token : Baits!Token \cup {None}, seed : Baits!Token]
      PROVE  session \in Sessions
  <2>1. session \in [DOMAIN session -> [token : Baits!Token \cup {None}, seed : Baits!Token]]
    BY <1>2
  <2> QED BY <1>2, <2>1 DEF Sessions
<1> QED BY <1>1, <1>2

\* A session with one more row.
LEMMA WithFits ==
    ASSUME Baits!BaitAssumption, NEW r \in Request, Fits(request[r]), NEW f \in Baits!File,
           NEW token \in Seeds(f) \cup {None}, NEW seed \in Seeds(f)
    PROVE  /\ Baits!With(r, f, token, seed) \in Sessions
           /\ SessionFits(Baits!With(r, f, token, seed))
           /\ DOMAIN Baits!With(r, f, token, seed) = DOMAIN request[r].session \cup {f}
           /\ Baits!With(r, f, token, seed)[f].token = token
           /\ \A g \in DOMAIN request[r].session : g # f =>
                 Baits!With(r, f, token, seed)[g] = request[r].session[g]
<1> DEFINE session == request[r].session
           new == Baits!With(r, f, token, seed)
<1>1. session \in Sessions /\ SessionFits(session)
  BY DEF Fits, RequestRow
<1>2. /\ new = [g \in DOMAIN session \cup {f} |->
                   IF g = f THEN [token |-> token, seed |-> seed] ELSE session[g]]
  BY DEF Baits!With
<1> HIDE DEF new, session
<1>3. /\ DOMAIN new = DOMAIN session \cup {f} /\ new[f] = [token |-> token, seed |-> seed]
      /\ \A g \in DOMAIN session : g # f => new[g] = session[g]
  BY <1>2
<1>4. SessionFits(new)
  BY <1>1, <1>3 DEF SessionFits
<1>5. new \in Sessions
  <2>1. DOMAIN new \subseteq Baits!File
    BY <1>1, <1>3, SessionType
  <2>2. \A g \in DOMAIN new : new[g] \in [token : Baits!Token \cup {None}, seed : Baits!Token]
    BY <1>4, <2>1, TokenFacts DEF SessionFits
  <2>3. new = [g \in DOMAIN new |-> new[g]]
    BY <1>2
  <2> QED BY <2>1, <2>2, <2>3, SessionType
<1> QED BY <1>3, <1>4, <1>5 DEF new, session

LEMMA SeedFits ==
    ASSUME Baits!BaitAssumption, RowsFit, NEW f \in Baits!File, Baits!Exists(f)
    PROVE  Baits!Seed(f) \in Seeds(f)
<1>1. honeyfile[f] \in RowsOfFile(f)
  BY DEF RowsFit
<1> QED BY <1>1, TokenFacts, TokenIsNone DEF RowsOfFile, Baits!Seed

LEMMA SmallestIn ==
    ASSUME NEW S \in SUBSET Nat, S # {}
    PROVE  \E n \in S : \A m \in S : n <= m
<1> DEFINE prefixes == {0..n : n \in S}
           subsets == FiniteSubsetsOf(Nat)
<1>1. prefixes \subseteq subsets /\ prefixes # {}
  <2>1. \A n \in S : IsFiniteSet(0..n)
    <3> SUFFICES ASSUME NEW n \in S PROVE IsFiniteSet(0..n)
      OBVIOUS
    <3>1. 0 \in Int /\ n \in Int
      OBVIOUS
    <3> QED BY <3>1, FS_Interval
  <2>2. \A n \in S : 0..n \subseteq Nat
    OBVIOUS
  <2> QED BY <2>1, <2>2 DEF FiniteSubsetsOf
<1>2. PICK least \in prefixes : \A other \in prefixes : ~(<<other, least>> \in StrictSubsetOrdering(Nat))
  <2>1. IsWellFoundedOn(StrictSubsetOrdering(Nat), subsets)
    BY FS_StrictSubsetOrderingWellFounded
  <2> HIDE DEF prefixes, subsets
  <2> QED BY <1>1, <2>1, WFMin
<1>3. PICK n \in S : least = 0..n
  BY <1>2
<1>4. ASSUME NEW m \in S PROVE n <= m
  <2>1. 0..m \in prefixes /\ 0..n \in SUBSET Nat /\ 0..m \in SUBSET Nat /\ m \in Nat /\ n \in Nat
    OBVIOUS
  <2>2. ~(0..m \subseteq 0..n /\ 0..m # 0..n)
    BY <1>2, <1>3, <2>1 DEF StrictSubsetOrdering
  <2>3. SUFFICES ASSUME m < n PROVE FALSE
    BY <2>1
  <2>4. 0..m \subseteq 0..n /\ n \in 0..n /\ n \notin 0..m
    BY <2>1, <2>3
  <2> QED BY <2>2, <2>4
<1> QED BY <1>4

LEMMA LargestIn ==
    ASSUME NEW n \in Nat, NEW S \in SUBSET (1..n), S # {}
    PROVE  \E m \in S : \A k \in S : k <= m
<1> DEFINE below == {n - k : k \in S}
<1>1. below \in SUBSET Nat /\ below # {}
  <2>1. \A k \in S : n - k \in Nat
    OBVIOUS
  <2> QED BY <2>1
<1>2. PICK b \in below : \A c \in below : b <= c
  <2> HIDE DEF below
  <2> QED BY <1>1, SmallestIn
<1>3. PICK m \in S : b = n - m
  BY <1>2
<1>4. ASSUME NEW k \in S PROVE k <= m
  <2>1. n - k \in below
    OBVIOUS
  <2>2. n - m <= n - k
    BY <1>2, <1>3, <2>1
  <2> QED BY <2>2
<1> QED BY <1>4

LEMMA FirstIn ==
    ASSUME Baits!BaitAssumption, NEW files \in SUBSET Baits!File
    PROVE  IF files = {} THEN Baits!First(files) = None ELSE Baits!First(files) \in files
<1>1. CASE files = {}
  BY <1>1 DEF Baits!First
<1>2. CASE files # {}
  <2>1. files \in SUBSET Nat
    BY DEF Baits!File, Baits!BaitAssumption
  <2>2. PICK n \in files : \A m \in files : n <= m
    BY <1>2, <2>1, SmallestIn
  <2>3. Baits!Min(files) \in files
    BY <2>2 DEF Baits!Min
  <2> QED BY <1>2, <2>3 DEF Baits!First
<1> QED BY <1>1, <1>2

\* A request goes on, or ends, with a session that fits; one that creates a file ends.
LEMMA DoneFits ==
    ASSUME Baits!BaitAssumption, RequestsFit, NEW r \in Request, request[r].file \in Baits!File,
           NEW ok \in BOOLEAN, NEW session \in Sessions, SessionFits(session),
           Baits!Done(r, ok, session)
    PROVE  RequestsFit'
<1> DEFINE q == request[r]
           rest == q.todo \ {q.file}
           next == [q EXCEPT !.todo = rest, !.file = Baits!First(rest), !.session = session,
                             !.pc = IF rest = {} THEN "end" ELSE "look"]
           served == [q EXCEPT !.pc = "serve", !.session = session]
<1>1. q \in RequestRow /\ Fits(q)
  BY DEF RequestsFit
<1>2. \/ q.op = "repair" /\ request' = [request EXCEPT ![r] = next]
      \/ q.op # "create" /\ request' = [request EXCEPT ![r] = served]
      \/ request' = [request EXCEPT ![r] = Baits!NoRequest]
  BY DEF Baits!Done
<1>3. ASSUME q.op = "repair" PROVE Fits(next)
  <2>1. rest \in SUBSET Baits!File
    BY <1>1 DEF RequestRow
  <2>2. IF rest = {} THEN Baits!First(rest) = None ELSE Baits!First(rest) \in rest
    BY <2>1, FirstIn
  <2>3. /\ next.op = "repair" /\ next.session = session /\ next.file = Baits!First(rest)
        /\ next.pc = IF rest = {} THEN "end" ELSE "look"
    BY <1>1, <1>3 DEF RequestRow
  <2>4. next \in RequestRow
    <3>1. Baits!First(rest) \in Baits!File \cup {None}
      BY <2>1, <2>2
    <3> HIDE DEF rest
    <3> QED BY <1>1, <2>1, <3>1 DEF RequestRow
  <2> HIDE DEF next, rest
  <2>5. next.pc = "look" => next.file \in Baits!File
    BY <2>1, <2>2, <2>3
  <2> QED BY <2>3, <2>4, <2>5 DEF Fits
<1>4. ASSUME q.op # "create" PROVE Fits(served)
  <2>1. /\ served.op = q.op /\ served.session = session /\ served.file = q.file
        /\ served.pc = "serve" /\ served \in RequestRow
    BY <1>1 DEF RequestRow
  <2> HIDE DEF served
  <2> QED BY <1>4, <2>1 DEF Fits
<1> HIDE DEF next, served
<1> QED BY <1>2, <1>3, <1>4, OneRequest, NoRequestFits

\* What a session writes fits, if its rows are there, or it has a token for each.
LEMMA CommittedFits ==
    ASSUME Baits!BaitAssumption, RowsFit, NEW session \in Sessions, SessionFits(session),
           Baits!CanCommit(session) \/ \A f \in DOMAIN session : session[f].token # None,
           honeyfile' = Baits!Committed(session)
    PROVE  RowsFit'
<1>1. /\ honeyfile' \in [Baits!File -> UNION {{honeyfile'[f]} : f \in Baits!File}]
      /\ \A f \in Baits!File \ DOMAIN session : honeyfile'[f] = honeyfile[f]
      /\ \A f \in Baits!File \cap DOMAIN session : honeyfile'[f] =
            [session[f] EXCEPT !.token = IF @ = None THEN honeyfile[f].token ELSE @]
  BY DEF Baits!Committed
<1>2. ASSUME NEW f \in Baits!File, f \in DOMAIN session
      PROVE  honeyfile'[f] \in RowsOfFile(f)
  <2>1. session[f] \in [token : Tokens(f) \cup {None}, seed : Seeds(f)]
    BY <1>2, TokenFacts DEF SessionFits
  <2>2. session[f].token = None => honeyfile[f].token \in Tokens(f)
    <3> SUFFICES ASSUME session[f].token = None PROVE honeyfile[f].token \in Tokens(f)
      OBVIOUS
    <3>1. Baits!Exists(f)
      BY <1>2 DEF Baits!CanCommit
    <3> QED BY <3>1 DEF RowsFit, RowsOfFile
  <2>3. honeyfile'[f] = [token |-> IF session[f].token = None THEN honeyfile[f].token
                                                                ELSE session[f].token,
                         seed |-> session[f].seed]
    BY <1>1, <1>2, <2>1
  <2> QED BY <2>1, <2>2, <2>3 DEF RowsOfFile
<1>3. ASSUME NEW f \in Baits!File
      PROVE  RowsOfFile(f) \subseteq [token : Baits!Token, seed : Baits!Token \cup {None}]
  BY TokenFacts DEF RowsOfFile
<1>4. ASSUME NEW f \in Baits!File
      PROVE  /\ honeyfile'[f] \in [token : Baits!Token, seed : Baits!Token \cup {None}]
                                   \cup {None, Unborn}
             /\ f \in Seedless => honeyfile'[f] # Unborn
             /\ Baits!Exists(f)' => honeyfile'[f] \in RowsOfFile(f)
  <2>1. CASE f \in DOMAIN session
    BY <1>2, <1>3, <2>1 DEF Baits!BaitAssumption
  <2>2. CASE f \notin DOMAIN session
    BY <1>1, <2>2 DEF RowsFit, Baits!Exists
  <2> QED BY <2>1, <2>2
<1>5. honeyfile' \in [Baits!File -> [token : Baits!Token, seed : Baits!Token \cup {None}]
                                    \cup {None, Unborn}]
  BY <1>1, <1>4
<1> QED BY <1>4, <1>5 DEF RowsFit

LEMMA BaitsInit == ASSUME Baits!BaitAssumption, Baits!Init PROVE BaitInv
<1> USE DEF Baits!Init
<1>1. RequestsFit
  BY NoRequestFits DEF RequestsFit, Fits
<1>2. RowsFit
  <2>1. ASSUME NEW f \in Baits!File, f \in Seedless
        PROVE  honeyfile[f] = [token |-> Baits!Old(f), seed |-> None]
    BY <2>1
  <2>2. ASSUME NEW f \in Baits!File, f \in Seedless
        PROVE  /\ honeyfile[f] \in [token : Baits!Token, seed : Baits!Token \cup {None}]
               /\ honeyfile[f] \in RowsOfFile(f)
    <3>1. Baits!Old(f) \in Tokens(f) /\ Tokens(f) \subseteq Baits!Token
      BY <2>2, TokenFacts DEF Tokens
    <3> QED BY <2>1, <2>2, <3>1 DEF RowsOfFile
  <2>3. ASSUME NEW f \in Baits!File, f \notin Seedless
        PROVE  honeyfile[f] = Unborn
    BY <2>3
  <2> QED BY <2>2, <2>3 DEF RowsFit, Baits!Exists, Baits!BaitAssumption
<1>3. DocumentsFit
  <2>1. \A f \in Baits!File : document[f] \in Tokens(f) \cup {None, TornDocument}
    BY DEF Tokens
  <2> QED BY <2>1, TokenFacts DEF DocumentsFit
<1>4. PlantedFit /\ PlacesFit
  BY DEF PlantedFit, PlacesFit
<1> QED BY <1>1, <1>2, <1>3, <1>4 DEF BaitInv

\* A request that starts.
LEMMA StartFits ==
    ASSUME Baits!BaitAssumption, RequestsFit, NEW r \in Request, NEW f \in Baits!File,
           NEW op, NEW pc, Baits!Start(r, op, pc, f),
           \/ op = "create" /\ pc = "issue" /\ f \notin Seedless
           \/ op \in {"user", "agent"} /\ pc = "look"
           \/ op = "delete" /\ pc = "erase"
    PROVE  RequestsFit'
<1> DEFINE q == [Baits!NoRequest EXCEPT !.op = op, !.pc = pc, !.file = f]
<1>1. Baits!NoRequest \in RequestRow /\ Fits(Baits!NoRequest) /\ Baits!NoRequest.session = <<>>
  BY NoRequestFits DEF Fits
<1>2. q \in RequestRow /\ q.op = op /\ q.pc = pc /\ q.file = f /\ q.session = <<>>
  BY <1>1 DEF RequestRow
<1>3. request' = [request EXCEPT ![r] = q]
  BY DEF Baits!Start
<1> HIDE DEF q
<1>4. Fits(q)
  BY <1>2 DEF Fits, SessionFits
<1> QED BY <1>3, <1>4, OneRequest

LEMMA EndFits ==
    ASSUME Baits!BaitAssumption, RequestsFit, NEW r \in Request, Baits!End(r)
    PROVE  RequestsFit'
BY NoRequestFits, OneRequest DEF Baits!End

\* A row with a token and seed that fit is in the session, and the request goes on.
LEMMA SessionGrows ==
    ASSUME Baits!BaitAssumption, RequestsFit, NEW r \in Request, request[r].file \in Baits!File,
           NEW token \in Seeds(request[r].file) \cup {None}, NEW seed \in Seeds(request[r].file),
           NEW pc,
           request' = [request EXCEPT ![r].pc = pc,
                                      ![r].session = Baits!With(r, request[r].file, token, seed)],
           \/ pc = "issue" /\ request[r].op # "create"
           \/ pc = "write" /\ token # None
    PROVE  RequestsFit'
<1> DEFINE f == request[r].file
           new == Baits!With(r, f, token, seed)
           q == [request[r] EXCEPT !.pc = pc, !.session = new]
<1>1. request[r] \in RequestRow /\ Fits(request[r])
  BY DEF RequestsFit
<1>2. /\ new \in Sessions /\ SessionFits(new) /\ DOMAIN new = DOMAIN request[r].session \cup {f}
      /\ new[f].token = token
      /\ \A g \in DOMAIN request[r].session : g # f => new[g] = request[r].session[g]
  BY <1>1, WithFits
<1>3. request' = [request EXCEPT ![r] = q]
  BY DEF RequestsFit
<1> HIDE DEF new
<1>4. /\ q \in RequestRow /\ q.pc = pc /\ q.op = request[r].op /\ q.file = f /\ q.session = new
  BY <1>1, <1>2 DEF RequestRow
<1> HIDE DEF q
<1>5. Fits(q)
  <2>1. q.op = "create" => /\ pc = "write" /\ q.file \notin Seedless
                           /\ \A g \in DOMAIN new : new[g].token # None
    BY <1>1, <1>2, <1>4 DEF Fits
  <2> QED BY <1>2, <1>4, <2>1 DEF Fits
<1> QED BY <1>3, <1>5, OneRequest

-----------------------------------------------------------------------------
LEMMA LookStep ==
    ASSUME Baits!BaitAssumption, BaitInv, NEW r \in Request,
           Baits!LookAlive(r) \/ Baits!LookDead(r) \/ Baits!LookGone(r)
    PROVE  BaitInv'
<1> USE DEF BaitInv
<1> DEFINE f == request[r].file
           session == Baits!With(r, f, None, Baits!Seed(f))
<1>1. /\ request[r] \in RequestRow /\ Fits(request[r]) /\ request[r].pc = "look"
      /\ request[r].op # "create" /\ f \in Baits!File
  BY DEF RequestsFit, Fits, Baits!LookAlive, Baits!LookDead, Baits!LookGone
<1>2. request[r].session \in Sessions /\ SessionFits(request[r].session)
  BY <1>1 DEF Fits, RequestRow
<1>3. UNCHANGED <<document, planted, inside, deployed, removed>>
  BY DEF Baits!LookAlive, Baits!LookDead, Baits!LookGone
<1>4. DocumentsFit' /\ PlantedFit' /\ PlacesFit'
  BY <1>3 DEF DocumentsFit, PlantedFit, PlacesFit
<1>5. CASE Baits!LookGone(r)
  <2>1. RequestsFit' /\ honeyfile' = honeyfile
    BY <1>5, EndFits DEF Baits!LookGone
  <2> QED BY <1>4, <2>1 DEF RowsFit, Baits!Exists
<1>6. ASSUME Baits!Exists(f)
      PROVE  Baits!Seed(f) \in Seeds(f) /\ session \in Sessions /\ SessionFits(session)
  BY <1>1, <1>6, SeedFits, WithFits
<1>7. CASE Baits!LookDead(r)
  <2>1. /\ Baits!Exists(f) /\ honeyfile' = honeyfile
        /\ request' = [request EXCEPT ![r].pc = "issue", ![r].session = session]
    BY <1>7 DEF Baits!LookDead
  <2>2. RequestsFit'
    BY <1>1, <1>6, <2>1, SessionGrows
  <2> QED BY <1>4, <2>1, <2>2 DEF RowsFit, Baits!Exists
<1>8. CASE Baits!LookAlive(r)
  <2> HIDE DEF session
  <2>1. Baits!Exists(f)
    BY <1>8 DEF Baits!LookAlive
  <2>2. CASE Baits!Done(r, TRUE, request[r].session) /\ honeyfile' = honeyfile
    <3>1. RequestsFit'
      BY <1>1, <1>2, <2>2, DoneFits
    <3> QED BY <1>4, <2>2, <3>1 DEF RowsFit, Baits!Exists
  <2>3. CASE /\ Baits!CanCommit(session) /\ honeyfile' = Baits!Committed(session)
             /\ Baits!Done(r, TRUE, <<>>)
    <3>1. RowsFit'
      BY <1>6, <2>1, <2>3, CommittedFits
    <3>2. <<>> \in Sessions /\ SessionFits(<<>>)
      BY NoRequestFits DEF Fits, RequestRow
    <3>3. RequestsFit'
      BY <1>1, <2>3, <3>2, DoneFits
    <3> QED BY <1>4, <3>1, <3>3
  <2>4. CASE Baits!End(r) /\ honeyfile' = honeyfile
    <3>1. RequestsFit'
      BY <2>4, EndFits
    <3> QED BY <1>4, <2>4, <3>1 DEF RowsFit, Baits!Exists
  <2> QED BY <1>8, <2>2, <2>3, <2>4 DEF Baits!LookAlive, session
<1> QED BY <1>5, <1>7, <1>8

LEMMA IssueStep ==
    ASSUME Baits!BaitAssumption, BaitInv, NEW r \in Request, Baits!Issue(r)
    PROVE  BaitInv'
<1> USE DEF BaitInv
<1> DEFINE f == request[r].file
           seed == IF request[r].op = "create" THEN Baits!Random(f) ELSE request[r].session[f].seed
<1>1. /\ request[r] \in RequestRow /\ Fits(request[r]) /\ request[r].pc = "issue" /\ f \in Baits!File
  BY DEF RequestsFit, Fits, Baits!Issue
<1>2. request[r].session \in Sessions /\ SessionFits(request[r].session)
  BY <1>1 DEF Fits, RequestRow
<1>3. seed \in Seeds(f) /\ seed \in Tokens(f)
  <2>1. CASE request[r].op = "create"
    BY <1>1, <2>1, TokenFacts DEF Fits
  <2>2. CASE request[r].op # "create"
    <3>1. request[r].session[f] \in [token : Seeds(f) \cup {None}, seed : Seeds(f)]
      BY <1>1, <1>2, <2>2 DEF Fits, SessionFits
    <3> QED BY <1>1, <2>2, <3>1, TokenFacts
  <2> QED BY <2>1, <2>2
<1>4. seed # None
  BY <1>1, <1>3, TokenFacts, TokenIsNone
<1>5. \/ request' = [request EXCEPT ![r].pc = "write", ![r].session = Baits!With(r, f, seed, seed)]
      \/ Baits!Done(r, FALSE, request[r].session)
  BY DEF Baits!Issue
<1> HIDE DEF seed
<1>6. RequestsFit'
  <2>1. CASE request' = [request EXCEPT ![r].pc = "write",
                                        ![r].session = Baits!With(r, f, seed, seed)]
    <3>1. RequestsFit
      OBVIOUS
    <3>2. seed \in Seeds(f) \cup {None} /\ "write" = "write"
      BY <1>3
    <3> QED BY <1>1, <1>3, <1>4, <2>1, <3>1, <3>2, SessionGrows
  <2>2. CASE Baits!Done(r, FALSE, request[r].session)
    BY <1>1, <1>2, <2>2, DoneFits
  <2> QED BY <1>5, <2>1, <2>2
<1>7. UNCHANGED <<honeyfile, document, planted, inside, deployed, removed>>
  BY DEF Baits!Issue
<1> QED BY <1>6, <1>7 DEF RowsFit, Baits!Exists, DocumentsFit, PlantedFit, PlacesFit

LEMMA WriteStep ==
    ASSUME Baits!BaitAssumption, BaitInv, NEW r \in Request, Baits!Write(r)
    PROVE  BaitInv'
<1> USE DEF BaitInv
<1> DEFINE f == request[r].file
           token == request[r].session[f].token
           q == [request[r] EXCEPT !.pc = "commit"]
<1>1. /\ request[r] \in RequestRow /\ Fits(request[r]) /\ request[r].pc = "write" /\ f \in Baits!File
  BY DEF RequestsFit, Fits, Baits!Write
<1>2. request[r].session \in Sessions /\ SessionFits(request[r].session)
  BY <1>1 DEF Fits, RequestRow
<1>3. token \in Tokens(f)
  BY <1>1, <1>2, TokenFacts DEF Fits, SessionFits
<1>4. UNCHANGED <<honeyfile, planted, inside, deployed, removed>>
  BY DEF Baits!Write
<1>5. RowsFit' /\ PlantedFit' /\ PlacesFit'
  BY <1>4 DEF RowsFit, Baits!Exists, PlantedFit, PlacesFit
<1>6. document' \in {document, [document EXCEPT ![f] = TornDocument], [document EXCEPT ![f] = token]}
  BY DEF Baits!Write
<1>7. DocumentsFit'
  BY <1>1, <1>3, <1>6, TokenFacts DEF DocumentsFit
<1>8. CASE Baits!Goto(r, "commit")
  <2>1. request' = [request EXCEPT ![r] = q]
    BY <1>8 DEF Baits!Goto, RequestsFit
  <2>2. /\ q \in RequestRow /\ q.pc = "commit" /\ q.op = request[r].op /\ q.file = f
        /\ q.session = request[r].session
    BY <1>1 DEF RequestRow
  <2> HIDE DEF q
  <2>3. Fits(q)
    BY <1>1, <2>2 DEF Fits
  <2> QED BY <1>5, <1>7, <2>1, <2>3, OneRequest
<1>9. CASE Baits!Done(r, FALSE, request[r].session)
  <2>1. RequestsFit'
    BY <1>1, <1>2, <1>9, DoneFits
  <2> QED BY <1>5, <1>7, <2>1
<1> QED BY <1>8, <1>9 DEF Baits!Write

LEMMA CommitStep ==
    ASSUME Baits!BaitAssumption, BaitInv, NEW r \in Request, Baits!Commit(r) \/ Baits!EndRepair(r)
    PROVE  BaitInv'
<1> USE DEF BaitInv
<1> DEFINE session == request[r].session
<1>1. request[r] \in RequestRow /\ Fits(request[r])
  BY DEF RequestsFit
<1>2. session \in Sessions /\ SessionFits(session) /\ <<>> \in Sessions /\ SessionFits(<<>>)
  BY <1>1, NoRequestFits DEF Fits, RequestRow
<1>3. request[r].op = "create" => \A f \in DOMAIN session : session[f].token # None
  BY <1>1 DEF Fits
<1>4. RequestsFit'
  <2>1. CASE Baits!Commit(r)
    <3>1. request[r].file \in Baits!File /\ \E ok \in BOOLEAN : Baits!Done(r, ok, <<>>)
      BY <1>1, <2>1 DEF Baits!Commit, Fits
    <3> QED BY <1>2, <3>1, DoneFits
  <2>2. CASE Baits!EndRepair(r)
    BY <2>2, EndFits DEF Baits!EndRepair
  <2> QED BY <2>1, <2>2
<1>5. RowsFit'
  <2>1. CASE honeyfile' = honeyfile
    BY <2>1 DEF RowsFit, Baits!Exists
  <2>2. CASE /\ request[r].op = "create" \/ Baits!CanCommit(session)
             /\ honeyfile' = Baits!Committed(session)
    <3> HIDE DEF session
    <3> QED BY <1>2, <1>3, <2>2, CommittedFits
  <2> QED BY <2>1, <2>2 DEF Baits!Commit, Baits!EndRepair
<1>6. UNCHANGED <<document, planted, inside, deployed, removed>>
  BY DEF Baits!Commit, Baits!EndRepair
<1> QED BY <1>4, <1>5, <1>6 DEF DocumentsFit, PlantedFit, PlacesFit

\* The requests that start, and those that give a document away or end.
LEMMA PageFits ==
    ASSUME Baits!BaitAssumption, BaitInv, NEW r \in Request,
           \/ \E f \in Baits!File : Baits!Create(r, f) \/ Baits!Delete(r, f)
           \/ \E f \in Baits!File, op \in {"user", "agent"} : Baits!Download(r, op, f)
           \/ \E forced \in BOOLEAN : Baits!Repair(r, forced)
           \/ \E f \in Baits!File, p \in Container : Baits!Deploy(r, f, p)
           \/ Baits!Serve(r) \/ Baits!Erase(r) \/ Baits!Record(r)
    PROVE  RequestsFit'
<1> USE DEF BaitInv
<1>1. ASSUME NEW f \in Baits!File, Baits!Create(r, f) PROVE RequestsFit'
  <2>1. f \notin Seedless /\ Baits!Start(r, "create", "issue", f)
    BY <1>1 DEF Baits!Create, RowsFit
  <2> QED BY <2>1, StartFits
<1>2. ASSUME NEW f \in Baits!File, NEW op \in {"user", "agent"},
             Baits!Delete(r, f) \/ Baits!Download(r, op, f)
      PROVE  RequestsFit'
  BY <1>2, StartFits DEF Baits!Delete, Baits!Download
<1>3. ASSUME NEW forced \in BOOLEAN, Baits!Repair(r, forced) PROVE RequestsFit'
  <2> DEFINE files == {f \in Baits!File : Baits!Exists(f)}
             q == [Baits!NoRequest EXCEPT !.op = "repair", !.forced = forced,
                      !.pc = IF files = {} THEN "end" ELSE "look", !.file = Baits!First(files),
                      !.todo = files]
  <2>1. request' = [request EXCEPT ![r] = q]
    BY <1>3 DEF Baits!Repair
  <2>2. files \in SUBSET Baits!File
    OBVIOUS
  <2> HIDE DEF files
  <2>3. IF files = {} THEN Baits!First(files) = None ELSE Baits!First(files) \in files
    BY <2>2, FirstIn
  <2>4. Baits!NoRequest \in RequestRow /\ Baits!NoRequest.session = <<>>
    BY NoRequestFits DEF Fits
  <2>5. /\ q \in RequestRow /\ q.op = "repair" /\ q.session = <<>> /\ q.file = Baits!First(files)
        /\ q.pc = IF files = {} THEN "end" ELSE "look"
    <3>1. Baits!First(files) \in Baits!File \cup {None}
      BY <2>2, <2>3
    <3> QED BY <2>2, <2>4, <3>1 DEF RequestRow
  <2> HIDE DEF q
  <2>6. Fits(q)
    BY <2>2, <2>3, <2>5 DEF Fits, SessionFits
  <2> QED BY <2>1, <2>6, OneRequest
<1>4. ASSUME NEW f \in Baits!File, NEW p \in Container, Baits!Deploy(r, f, p) PROVE RequestsFit'
  <2> DEFINE q == [Baits!NoRequest EXCEPT !.op = "deploy", !.pc = "record", !.file = f, !.place = p]
  <2>1. request' = [request EXCEPT ![r] = q]
    BY <1>4 DEF Baits!Deploy
  <2>2. Baits!NoRequest \in RequestRow /\ Baits!NoRequest.session = <<>>
    BY NoRequestFits DEF Fits
  <2>3. q \in RequestRow /\ q.op = "deploy" /\ q.pc = "record" /\ q.file = f /\ q.place = p
        /\ q.session = <<>>
    BY <2>2 DEF RequestRow
  <2> HIDE DEF q
  <2>4. Fits(q)
    BY <2>3 DEF Fits, SessionFits
  <2> QED BY <2>1, <2>4, OneRequest
<1>5. CASE Baits!Serve(r) \/ Baits!Erase(r) \/ Baits!Record(r)
  BY <1>5, EndFits DEF Baits!Serve, Baits!Erase, Baits!Record
<1> QED BY <1>1, <1>2, <1>3, <1>4, <1>5

LEMMA GivenFits ==
    ASSUME Baits!BaitAssumption, DocumentsFit, PlantedFit, NEW f \in Baits!File, planted' = planted \cup Baits!Given(f)
    PROVE  PlantedFit'
<1>1. \A b \in Baits!Given(f) : /\ b \in [file : Baits!File, token : Baits!Token]
                                /\ b.file = f /\ b.token = document[f] /\ document[f] \in Baits!Token
  BY DEF Baits!Given
<1>2. document[f] \in Baits!Token => document[f] \in Tokens(f)
  <2> SUFFICES ASSUME document[f] \in Baits!Token PROVE document[f] \in Tokens(f)
    OBVIOUS
  <2>1. document[f] \notin {None, TornDocument}
    BY TokenIsNone
  <2> QED BY <2>1 DEF DocumentsFit
<1> QED BY <1>1, <1>2 DEF PlantedFit

LEMMA PageRowsFit ==
    ASSUME Baits!BaitAssumption, BaitInv, NEW r \in Request,
           \/ \E f \in Baits!File : Baits!Create(r, f) \/ Baits!Delete(r, f)
           \/ \E f \in Baits!File, op \in {"user", "agent"} : Baits!Download(r, op, f)
           \/ \E forced \in BOOLEAN : Baits!Repair(r, forced)
           \/ \E f \in Baits!File, p \in Container : Baits!Deploy(r, f, p)
           \/ Baits!Serve(r) \/ Baits!Erase(r) \/ Baits!Record(r)
    PROVE  RowsFit' /\ DocumentsFit' /\ PlantedFit' /\ PlacesFit'
<1> USE DEF BaitInv
<1>1. request[r] \in RequestRow /\ Fits(request[r])
  BY DEF RequestsFit
<1>2. ASSUME NEW f \in Baits!File, honeyfile' = [honeyfile EXCEPT ![f] = None],
             f \in Seedless => honeyfile[f] # Unborn
      PROVE  RowsFit'
  BY <1>2, TokenIsNone DEF RowsFit, Baits!Exists
<1>3. ASSUME UNCHANGED <<honeyfile, document, planted, inside, deployed, removed>>
      PROVE  RowsFit' /\ DocumentsFit' /\ PlantedFit' /\ PlacesFit'
  BY <1>3 DEF RowsFit, Baits!Exists, DocumentsFit, PlantedFit, PlacesFit
<1>4. ASSUME NEW f \in Baits!File, Baits!Create(r, f)
      PROVE  RowsFit' /\ DocumentsFit' /\ PlantedFit' /\ PlacesFit'
  <2>1. RowsFit'
    BY <1>2, <1>4 DEF Baits!Create, RowsFit
  <2> QED BY <1>4, <2>1 DEF Baits!Create, DocumentsFit, PlantedFit, PlacesFit
<1>5. ASSUME NEW f \in Baits!File, Baits!Delete(r, f)
      PROVE  RowsFit' /\ DocumentsFit' /\ PlantedFit' /\ PlacesFit'
  <2>1. document' = [document EXCEPT ![f] = None]
    BY <1>5 DEF Baits!Delete
  <2>2. DocumentsFit'
    BY <2>1 DEF DocumentsFit
  <2> QED BY <1>5, <2>2 DEF Baits!Delete, RowsFit, Baits!Exists, PlantedFit, PlacesFit
<1>6. CASE \/ \E f \in Baits!File, op \in {"user", "agent"} : Baits!Download(r, op, f)
           \/ \E forced \in BOOLEAN : Baits!Repair(r, forced)
  BY <1>3, <1>6 DEF Baits!Download, Baits!Repair
<1>7. ASSUME NEW f \in Baits!File, NEW p \in Container, Baits!Deploy(r, f, p)
      PROVE  RowsFit' /\ DocumentsFit' /\ PlantedFit' /\ PlacesFit'
  <2>1. UNCHANGED <<honeyfile, document, deployed>>
    BY <1>7 DEF Baits!Deploy
  <2>2. PlantedFit'
    <3>1. planted' = planted \cup Baits!Given(f) \/ planted' = planted
      BY <1>7 DEF Baits!Deploy
    <3> QED BY <3>1, GivenFits DEF PlantedFit
  <2>3. PlacesFit'
    <3>1. \E name \in {"name", "short name"} :
            inside' \subseteq inside \cup {[file |-> f, place |-> p, name |-> name]}
      BY <1>7 DEF Baits!Deploy
    <3>2. removed' \subseteq removed
      BY <1>7 DEF Baits!Deploy
    <3>3. PICK name \in {"name", "short name"} :
            inside' \subseteq inside \cup {[file |-> f, place |-> p, name |-> name]}
      BY <3>1
    <3>4. [file |-> f, place |-> p, name |-> name]
             \in [file : Baits!File, place : Container, name : {"name", "short name"}]
      OBVIOUS
    <3> QED BY <2>1, <3>2, <3>3, <3>4 DEF PlacesFit
  <2> QED BY <2>1, <2>2, <2>3 DEF RowsFit, Baits!Exists, DocumentsFit
<1>8. CASE Baits!Serve(r)
  <2>1. /\ request[r].file \in Baits!File /\ planted' = planted \cup Baits!Given(request[r].file)
        /\ UNCHANGED <<honeyfile, document, inside, deployed, removed>>
    BY <1>1, <1>8 DEF Baits!Serve, Fits
  <2>2. PlantedFit'
    BY <2>1, GivenFits
  <2> QED BY <2>1, <2>2 DEF RowsFit, Baits!Exists, DocumentsFit, PlacesFit
<1>9. CASE Baits!Erase(r)
  <2>1. /\ request[r].file \in Baits!File /\ UNCHANGED <<document, planted, inside, deployed, removed>>
        /\ \/ honeyfile' = honeyfile
           \/ Baits!Exists(request[r].file)
              /\ honeyfile' = [honeyfile EXCEPT ![request[r].file] = None]
    BY <1>1, <1>9 DEF Baits!Erase, Fits
  <2>2. RowsFit'
    BY <1>2, <1>3, <2>1 DEF Baits!Exists
  <2> QED BY <2>1, <2>2 DEF DocumentsFit, PlantedFit, PlacesFit
<1>10. CASE Baits!Record(r)
  <2>1. request[r].pc = "record" /\ UNCHANGED <<honeyfile, document, planted, inside, removed>>
    BY <1>10 DEF Baits!Record
  <2>2. \/ deployed' = deployed
        \/ deployed' = deployed \cup {[file |-> request[r].file, place |-> request[r].place]}
    BY <1>10 DEF Baits!Record
  <2>3. request[r].file \in Baits!File /\ request[r].place \in Container
    BY <1>1, <2>1 DEF Fits
  <2>4. PlacesFit'
    <3>1. [file |-> request[r].file, place |-> request[r].place]
             \in [file : Baits!File, place : Container]
      BY <2>3
    <3> QED BY <2>1, <2>2, <3>1 DEF PlacesFit
  <2> QED BY <2>1, <2>4 DEF RowsFit, Baits!Exists, DocumentsFit, PlantedFit
<1> QED BY <1>4, <1>5, <1>6, <1>7, <1>8, <1>9, <1>10

\* Rows of deployments that are noted, moved and removed.
LEMMA DeploymentStep ==
    ASSUME BaitInv,
           \/ \E f \in Baits!File, p \in Container : Baits!Note(f, p)
           \/ \E d \in deployed, p \in Container : Baits!Modify(d, p)
           \/ \E d \in deployed : Baits!Remove(d)
           \/ Baits!RemoveAll
    PROVE  BaitInv'
<1> USE DEF BaitInv
<1>1. UNCHANGED <<honeyfile, document, planted, request>>
  BY DEF Baits!Note, Baits!Modify, Baits!Remove, Baits!RemoveAll
<1>2. PlacesFit'
  <2>1. ASSUME NEW f \in Baits!File, NEW p \in Container, Baits!Note(f, p) PROVE PlacesFit'
    <3>1. [file |-> f, place |-> p] \in [file : Baits!File, place : Container]
      OBVIOUS
    <3> QED BY <2>1, <3>1 DEF Baits!Note, PlacesFit
  <2>2. ASSUME NEW d \in deployed, NEW p \in Container, Baits!Modify(d, p) PROVE PlacesFit'
    <3>1. [d EXCEPT !.place = p] \in [file : Baits!File, place : Container]
      BY DEF PlacesFit
    <3> QED BY <2>2, <3>1 DEF Baits!Modify, PlacesFit
  <2>3. ASSUME NEW d \in deployed, Baits!Remove(d) PROVE PlacesFit'
    <3>1. inside' \subseteq inside /\ deployed' \subseteq deployed /\ removed' \subseteq removed \cup {d}
      BY <2>3 DEF Baits!Remove, Baits!AfterRm
    <3> QED BY <3>1 DEF PlacesFit
  <2>4. ASSUME Baits!RemoveAll PROVE PlacesFit'
    <3>1. /\ inside' \subseteq inside /\ deployed' \subseteq deployed
          /\ removed' \subseteq removed \cup deployed
      BY <2>4 DEF Baits!RemoveAll
    <3> QED BY <3>1 DEF PlacesFit
  <2> QED BY <2>1, <2>2, <2>3, <2>4
<1> QED BY <1>1, <1>2 DEF RequestsFit, RowsFit, Baits!Exists, DocumentsFit, PlantedFit

LEMMA BaitsStep ==
    ASSUME Baits!BaitAssumption, BaitInv, [Baits!Next]_baitVars PROVE BaitInv'
<1>1. CASE UNCHANGED baitVars
  BY <1>1 DEF baitVars, BaitInv, RequestsFit, RowsFit, Baits!Exists, DocumentsFit, PlantedFit,
     PlacesFit
<1>2. ASSUME NEW r \in Request, Baits!Ensure(r) \/ Baits!EndRepair(r) PROVE BaitInv'
  BY <1>2, LookStep, IssueStep, WriteStep, CommitStep DEF Baits!Ensure
<1>3. ASSUME NEW r \in Request,
             \/ \E f \in Baits!File : Baits!Create(r, f) \/ Baits!Delete(r, f)
             \/ \E f \in Baits!File, op \in {"user", "agent"} : Baits!Download(r, op, f)
             \/ \E forced \in BOOLEAN : Baits!Repair(r, forced)
             \/ \E f \in Baits!File, p \in Container : Baits!Deploy(r, f, p)
             \/ Baits!Serve(r) \/ Baits!Erase(r) \/ Baits!Record(r)
      PROVE  BaitInv'
  BY <1>3, PageFits, PageRowsFit DEF BaitInv
<1>4. CASE \/ \E f \in Baits!File, p \in Container : Baits!Note(f, p)
           \/ \E d \in deployed, p \in Container : Baits!Modify(d, p)
           \/ \E d \in deployed : Baits!Remove(d)
           \/ Baits!RemoveAll
  BY <1>4, DeploymentStep
<1>5. CASE Baits!Restart
  <2>1. RequestsFit'
    BY <1>5, NoRequestFits DEF Baits!Restart, RequestsFit, Fits
  <2> QED BY <1>5, <2>1 DEF BaitInv, Baits!Restart, RowsFit, Baits!Exists, DocumentsFit,
     PlantedFit, PlacesFit
<1> QED BY <1>1, <1>2, <1>3, <1>4, <1>5 DEF Baits!Next

LEMMA BaitsHold == ASSUME Baits!BaitAssumption PROVE Baits!Spec => []BaitInv
<1>1. Baits!Init => BaitInv
  BY BaitsInit
<1>2. BaitInv /\ [Baits!Next]_baitVars => BaitInv'
  BY BaitsStep
<1>3. BaitInv /\ [Baits!Next]_(Baits!vars) => BaitInv'
  BY <1>2 DEF Baits!vars, baitVars
<1> QED BY <1>1, <1>3, PTL DEF Baits!Spec

\* A step that leaves a file's row in place leaves its content, or commits a session.
LEMMA RowsChange ==
    ASSUME Baits!BaitAssumption, BaitInv, [Baits!Next]_(Baits!vars), NEW f \in Baits!File,
           Baits!Exists(f), Baits!Exists(f)'
    PROVE  \/ honeyfile'[f] = honeyfile[f]
           \/ \E session : SessionFits(session) /\ honeyfile' = Baits!Committed(session)
<1>1. CASE UNCHANGED honeyfile
  BY <1>1
<1>2. ASSUME NEW r \in Request, Baits!Create(r, f) \/ Baits!Erase(r)
      PROVE  honeyfile'[f] = honeyfile[f]
  BY <1>2 DEF Baits!Create, Baits!Erase, Baits!Exists, BaitInv, RowsFit
<1>3. ASSUME NEW r \in Request, NEW g \in Baits!File, g # f, Baits!Create(r, g)
      PROVE  honeyfile'[f] = honeyfile[f]
  BY <1>3 DEF Baits!Create, BaitInv, RowsFit
<1>4. ASSUME NEW r \in Request, Baits!Commit(r) \/ Baits!EndRepair(r)
      PROVE  \/ honeyfile' = honeyfile
             \/ SessionFits(request[r].session) /\ honeyfile' = Baits!Committed(request[r].session)
  BY <1>4 DEF Baits!Commit, Baits!EndRepair, BaitInv, RequestsFit, Fits
<1>5. ASSUME NEW r \in Request, Baits!LookAlive(r), honeyfile' # honeyfile
      PROVE  \E session : SessionFits(session) /\ honeyfile' = Baits!Committed(session)
  <2> DEFINE g == request[r].file
             session == Baits!With(r, g, None, Baits!Seed(g))
  <2>1. Baits!Exists(g) /\ request[r].pc = "look" /\ honeyfile' = Baits!Committed(session)
    BY <1>5 DEF Baits!LookAlive
  <2>2. request[r] \in RequestRow /\ Fits(request[r]) /\ g \in Baits!File
    BY <2>1 DEF BaitInv, RequestsFit, Fits
  <2>3. request[r].session \in Sessions /\ SessionFits(request[r].session)
    BY <2>2 DEF Fits, RequestRow
  <2>4. Baits!Seed(g) \in Seeds(g)
    BY <2>1, <2>2, SeedFits DEF BaitInv
  <2>5. SessionFits(session)
    BY <2>2, <2>3, <2>4, WithFits
  <2> HIDE DEF session
  <2> QED BY <2>1, <2>5
<1>6. CASE Baits!Next /\ honeyfile' # honeyfile
  <2>1. \/ \E r \in Request, g \in Baits!File : Baits!Create(r, g)
        \/ \E r \in Request : \/ Baits!LookAlive(r) \/ Baits!Commit(r)
                              \/ Baits!EndRepair(r) \/ Baits!Erase(r)
    BY <1>6 DEF Baits!Next, Baits!Ensure, Baits!Delete, Baits!Download, Baits!Repair, Baits!Deploy,
       Baits!LookDead, Baits!LookGone, Baits!Issue, Baits!Write, Baits!Serve, Baits!Record,
       Baits!Note, Baits!Modify, Baits!Remove, Baits!RemoveAll, Baits!Restart
  <2> QED BY <1>2, <1>3, <1>4, <1>5, <1>6, <2>1
<1> QED BY <1>1, <1>6 DEF Baits!vars

\* A row keeps its token, or it is from before seeds and changes to its second.
LEMMA RowKeepsToken ==
    ASSUME Baits!BaitAssumption, BaitInv, BaitInv', [Baits!Next]_(Baits!vars),
           NEW f \in Baits!File, Baits!Exists(f), Baits!Exists(f)'
    PROVE  honeyfile'[f].token = honeyfile[f].token \/ Baits!Renewed(f)
<1>1. honeyfile[f].token \in Tokens(f) /\ honeyfile'[f].token \in Tokens(f)
  BY DEF BaitInv, RowsFit, RowsOfFile
<1>2. CASE f \notin Seedless
  BY <1>1, <1>2 DEF Tokens
<1>3. CASE f \in Seedless
  <2> SUFFICES ASSUME honeyfile[f].token = Baits!ById(f) PROVE honeyfile'[f].token = Baits!ById(f)
    BY <1>1, <1>3 DEF Tokens, Baits!Renewed
  <2>1. CASE honeyfile'[f] = honeyfile[f]
    BY <2>1
  <2>2. ASSUME NEW session, SessionFits(session), honeyfile' = Baits!Committed(session)
        PROVE  honeyfile'[f].token = Baits!ById(f)
    <3>1. CASE f \notin DOMAIN session
      BY <2>2, <3>1 DEF Baits!Committed
    <3>2. CASE f \in DOMAIN session
      <4>1. session[f] \in [token : Seeds(f) \cup {None}, seed : Seeds(f)]
        BY <2>2, <3>2 DEF SessionFits
      <4>2. honeyfile'[f] = [session[f] EXCEPT !.token =
                                IF session[f].token = None THEN honeyfile[f].token ELSE session[f].token]
        BY <2>2, <3>2, <4>1 DEF Baits!Committed
      <4>3. session[f].token \in {None, Baits!ById(f)}
        BY <1>3, <4>1 DEF Seeds
      <4> QED BY <4>1, <4>2, <4>3
    <3> QED BY <3>1, <3>2
  <2> QED BY <2>1, <2>2, RowsChange
<1> QED BY <1>2, <1>3

\* The row of a file that has its seed from the start never changes its token, and every
\* document given away calls that; a file from before seeds has two tokens, its row
\* changes to the second at most once, never back, and a document calls one of the two, not
\* always the one the row holds: for any number of files and requests, and through
\* whatever renewals, repairs, failures and restarts (_ensure_local_honeyfile_is_live,
\* views.py).
THEOREM BaitsLead == ASSUME Baits!BaitAssumption PROVE Baits!Spec => BaitsResolve
<1>1. ASSUME BaitInv, BaitInv', [Baits!Next]_(Baits!vars) PROVE Baits!Lead
  <2> SUFFICES ASSUME NEW f \in Baits!File, Baits!Exists(f)'
               PROVE  /\ Baits!Exists(f) => \/ honeyfile'[f].token = honeyfile[f].token
                                           \/ Baits!Renewed(f)
                      /\ \A b \in planted' : b.file = f =>
                            \/ b.token = honeyfile'[f].token
                            \/ f \in Seedless /\ b.token \in {Baits!Old(f), Baits!ById(f)}
    BY DEF Baits!Lead
  <2>1. Baits!Exists(f) => honeyfile'[f].token = honeyfile[f].token \/ Baits!Renewed(f)
    BY <1>1, RowKeepsToken
  <2>2. ASSUME NEW b \in planted', b.file = f
        PROVE  \/ b.token = honeyfile'[f].token
               \/ f \in Seedless /\ b.token \in {Baits!Old(f), Baits!ById(f)}
    <3>1. b.token \in Tokens(f) /\ honeyfile'[f].token \in Tokens(f)
      BY <1>1, <2>2 DEF BaitInv, PlantedFit, RowsFit, RowsOfFile
    <3> QED BY <3>1 DEF Tokens
  <2> QED BY <2>1, <2>2
<1> QED BY <1>1, BaitsHold, PTL DEF BaitsResolve, Baits!BaitsResolve, Baits!Spec

\* The bait documents' variables keep their types, for any files, places and requests.
THEOREM BaitTypes == ASSUME Baits!BaitAssumption PROVE Baits!Spec => []Baits!TypeOK
<1>1. BaitInv => Baits!TypeOK
  <2> SUFFICES ASSUME BaitInv PROVE Baits!TypeOK
    OBVIOUS
  <2>1. ASSUME NEW r \in Request
        PROVE  /\ request[r] \in RequestRow /\ DOMAIN request[r].session \subseteq Baits!File
               /\ \A f \in DOMAIN request[r].session :
                     request[r].session[f] \in [token : Baits!Token \cup {None}, seed : Baits!Token]
    <3>1. request[r] \in RequestRow /\ request[r].session \in Sessions
      BY DEF BaitInv, RequestsFit, RequestRow
    <3> QED BY <3>1, SessionType
  <2> QED BY <2>1 DEF BaitInv, RequestRow, RowsFit, DocumentsFit, PlantedFit, PlacesFit, Baits!TypeOK
<1> QED BY <1>1, BaitsHold, PTL

-----------------------------------------------------------------------------
(* The replay of deployments.                                              *)

ReplayTypes ==
    /\ log \in Seq(Deployment) /\ Len(log) <= MaxLog
    /\ online \subseteq Agent /\ deleted \subseteq Baits!File /\ left \subseteq deleted
    /\ phase \in {"idle", "file", "page"}
    /\ read \subseteq 1..Len(log) /\ todo \subseteq read /\ sent \subseteq read
    /\ upTo \in [{"file", "page"} -> 0..Len(log)]

\* What was read is of the kinds whose turn it was, and the newest goes first.
InTurn ==
    /\ phase = "idle" => read = {}
    /\ phase = "file" => \A j \in read : log[j].kind = "file"
    /\ \A i \in todo : log[i].kind = phase
    /\ \A i \in todo, j \in read \ todo : log[j].kind = phase => j > i

\* The target of each row that was gone through counts as seen, unless one of its
\* files was deleted since.
Handled ==
    \A j \in read \ todo :
        log[j].kind = phase /\ log[j].files \cap left = {} /\ Replays!Valid(log[j])
            => Replays!Target(log[j]) \in seen

\* What was sent is the latest of what was read.
LatestOfRead ==
    \A i \in sent, j \in read :
        j > i /\ Replays!Same(i, j) => log[i].files \cap left # {}

\* What was read is the newest of what was there to read.
NewestWasRead ==
    \A i \in read, j \in 1..Len(log) :
        j > i /\ log[j].kind = log[i].kind /\ j <= upTo[log[i].kind] => j \in read

ReplayInv == ReplayTypes /\ InTurn /\ Handled /\ LatestOfRead /\ NewestWasRead

\* Deployments that differ in their option only.
LEMMA SameButOption ==
    ASSUME Replays!ReplayAssumption, NEW d \in Deployment, NEW e \in Deployment,
           [d EXCEPT !.option = e.option] = e
    PROVE  d.kind = e.kind /\ d.agent = e.agent /\ d.target = e.target /\ d.files = e.files
<1> DEFINE T == {b.target : b \in Deployment}
           O == {b.option : b \in Deployment}
<1>1. d \in [kind : {"file", "page"}, agent : Agent, files : SUBSET Baits!File, target : T, option : O]
  BY DEF Replays!ReplayAssumption
<1> HIDE DEF T, O
<1>2. /\ [d EXCEPT !.option = e.option].kind = d.kind
      /\ [d EXCEPT !.option = e.option].agent = d.agent
      /\ [d EXCEPT !.option = e.option].files = d.files
      /\ [d EXCEPT !.option = e.option].target = d.target
  BY <1>1
<1> QED BY <1>2

\* The newest rows of a kind reach up to the end of the log.
LEMMA NewestReachUp ==
    ASSUME MaxReplay \in Nat, NEW kind, Len(log) \in Nat, NEW i \in Replays!Newest(kind),
           NEW j \in 1..Len(log), j > i, log[j].kind = kind
    PROVE  j \in Replays!Newest(kind)
<1>0. \A S : Replays!Cardinality(S) = Cardinality(S)
  BY DEF Replays!Cardinality, Cardinality
<1>1. i \in 1..Len(log) /\ log[i].kind = kind /\ Cardinality(Replays!Newer(i)) < MaxReplay
  BY <1>0 DEF Replays!Newest, Replays!Rows, Replays!Entry
<1>2. Replays!Newer(j) \subseteq Replays!Newer(i)
  BY <1>1 DEF Replays!Newer, Replays!Rows, Replays!Entry
<1>3. IsFiniteSet(Replays!Newer(i))
  <2>1. IsFiniteSet(1..Len(log)) /\ Replays!Newer(i) \subseteq 1..Len(log)
    BY FS_Interval DEF Replays!Newer, Replays!Rows, Replays!Entry
  <2> QED BY <2>1, FS_Subset
<1>4. /\ Cardinality(Replays!Newer(j)) <= Cardinality(Replays!Newer(i))
      /\ Cardinality(Replays!Newer(i)) \in Nat /\ Cardinality(Replays!Newer(j)) \in Nat
  BY <1>2, <1>3, FS_Subset, FS_CardinalityType
<1>5. Cardinality(Replays!Newer(j)) < MaxReplay
  BY <1>1, <1>4
<1> QED BY <1>0, <1>5 DEF Replays!Newest, Replays!Rows, Replays!Entry

LEMMA KindOf ==
    ASSUME Replays!ReplayAssumption, NEW d \in Deployment
    PROVE  d.kind \in {"file", "page"}
BY DEF Replays!ReplayAssumption

\* Agents that come and go, and deployments that go on, change nothing of it.
LEMMA LogStep ==
    ASSUME Replays!ReplayAssumption, ReplayInv,
           \/ \E d \in Deployment : Replays!Deploy(d)
           \/ \E a \in Agent : Replays!Come(a) \/ Replays!Go(a)
    PROVE  ReplayInv'
<1> USE DEF ReplayInv
<1> DEFINE Grown == /\ UNCHANGED <<deleted, read, todo, phase, seen, sent, left, upTo>>
                    /\ log' \in Seq(Deployment) /\ Len(log) <= Len(log') /\ Len(log') <= MaxLog
                    /\ \A j \in 1..Len(log) : log'[j] = log[j]
                    /\ online' \subseteq Agent
<1>1. Grown
  <2>1. ASSUME NEW d \in Deployment, Replays!Deploy(d) PROVE Grown
    <3>1. /\ UNCHANGED <<online, deleted, read, todo, phase, seen, sent, left, upTo>>
          /\ log' = Append(log, d) /\ Len(log) < MaxLog
      BY <2>1 DEF Replays!Deploy
    <3>2. log \in Seq(Deployment) /\ Len(log) \in Nat
      BY DEF ReplayTypes
    <3>3. /\ log' \in Seq(Deployment) /\ Len(log') = Len(log) + 1
          /\ \A j \in 1..Len(log) : log'[j] = log[j]
      BY <3>1, <3>2
    <3>4. MaxLog \in Nat
      BY DEF Replays!ReplayAssumption
    <3>5. Len(log) <= Len(log') /\ Len(log') <= MaxLog
      BY <3>1, <3>2, <3>3, <3>4
    <3> QED BY <3>1, <3>3, <3>5 DEF ReplayTypes
  <2>2. ASSUME NEW a \in Agent, Replays!Come(a) \/ Replays!Go(a) PROVE Grown
    BY <2>2 DEF Replays!Come, Replays!Go, ReplayTypes
  <2> QED BY <2>1, <2>2
<1>2. \A j \in read : log'[j] = log[j]
  BY <1>1 DEF ReplayTypes
<1>3. ReplayTypes'
  BY <1>1 DEF ReplayTypes
<1>4. InTurn'
  BY <1>1, <1>2 DEF InTurn, ReplayTypes
<1>5. Handled'
  BY <1>1, <1>2 DEF Handled, Replays!Valid, Replays!Target
<1>6. LatestOfRead'
  BY <1>1, <1>2 DEF LatestOfRead, Replays!Same, ReplayTypes
<1>7. NewestWasRead'
  <2> SUFFICES ASSUME NEW i \in read, NEW j \in 1..Len(log'), j > i, log'[j].kind = log'[i].kind,
                      j <= upTo[log'[i].kind]
               PROVE  j \in read
    BY <1>1 DEF NewestWasRead
  <2>1. i \in 1..Len(log) /\ log'[i] = log[i] /\ log[i] \in Deployment
    BY <1>1 DEF ReplayTypes
  <2>2. upTo[log[i].kind] \in 0..Len(log)
    BY <2>1, KindOf DEF ReplayTypes
  <2>3. j \in 1..Len(log)
    BY <2>1, <2>2
  <2> QED BY <1>1, <2>1, <2>3 DEF NewestWasRead
<1> QED BY <1>3, <1>4, <1>5, <1>6, <1>7

LEMMA DeleteStep ==
    ASSUME ReplayInv, NEW f \in Baits!File, Replays!DeleteFile(f)
    PROVE  ReplayInv'
<1> USE DEF ReplayInv
<1>1. /\ UNCHANGED <<log, online, read, todo, phase, seen, sent, upTo>>
      /\ deleted' = deleted \cup {f} /\ left \subseteq left'
      /\ phase # "idle" => left' = left \cup {f}
      /\ left' \subseteq left \cup {f}
  BY DEF Replays!DeleteFile
<1>2. ReplayTypes' /\ InTurn'
  BY <1>1 DEF ReplayTypes, InTurn
<1>3. Handled'
  <2> SUFFICES ASSUME NEW j \in read \ todo, log[j].kind = phase, log[j].files \cap left' = {},
                      Replays!Valid(log[j])'
               PROVE  Replays!Target(log[j])' \in seen
    BY <1>1 DEF Handled
  <2>1. f \notin log[j].files
    BY <1>1 DEF InTurn
  <2>2. log[j].files \ deleted' = log[j].files \ deleted
    BY <1>1, <2>1
  <2>3. Replays!Valid(log[j]) /\ Replays!Target(log[j])' = Replays!Target(log[j])
    BY <1>1, <2>2 DEF Replays!Valid, Replays!Target
  <2> QED BY <1>1, <2>3 DEF Handled
<1>4. LatestOfRead' /\ NewestWasRead'
  BY <1>1 DEF LatestOfRead, NewestWasRead, Replays!Same
<1> QED BY <1>2, <1>3, <1>4

LEMMA TurnStep ==
    ASSUME Replays!ReplayAssumption, ReplayInv,
           Replays!StartRepair \/ Replays!Turn \/ Replays!EndRepair
    PROVE  ReplayInv'
<1> USE DEF ReplayInv
<1>1. UNCHANGED <<log, online, deleted>>
  BY DEF Replays!StartRepair, Replays!Turn, Replays!EndRepair
<1>2. ASSUME NEW kind
      PROVE  Replays!Newest(kind) \subseteq 1..Len(log)
             /\ \A i \in Replays!Newest(kind) : log[i].kind = kind
  BY DEF Replays!Newest, Replays!Rows, Replays!Entry
<1>6. Len(log) \in Nat /\ MaxReplay \in Nat
  BY DEF ReplayTypes, Replays!ReplayAssumption
<1>3. CASE Replays!StartRepair
  <2>1. /\ phase' = "file" /\ read' = Replays!Newest("file") /\ todo' = read' /\ sent' = {} /\ left' = {}
        /\ upTo' = [upTo EXCEPT !["file"] = Len(log)]
    BY <1>3 DEF Replays!StartRepair
  <2>2. ReplayTypes'
    BY <1>1, <1>2, <1>6, <2>1 DEF ReplayTypes
  <2>3. NewestWasRead'
    BY <1>1, <1>2, <1>6, <2>1, NewestReachUp DEF NewestWasRead
  <2> QED BY <1>1, <1>2, <2>1, <2>2, <2>3 DEF InTurn, Handled, LatestOfRead
<1>4. CASE Replays!EndRepair
  <2>1. /\ phase' = "idle" /\ read' = {} /\ todo' = {} /\ sent' = {} /\ left' = {}
        /\ upTo' = [kind \in {"file", "page"} |-> 0]
    BY <1>4 DEF Replays!EndRepair
  <2> QED BY <1>1, <1>6, <2>1 DEF ReplayTypes, InTurn, Handled, LatestOfRead, NewestWasRead
<1>5. CASE Replays!Turn
  <2>1. /\ phase = "file" /\ phase' = "page" /\ todo' = Replays!Newest("page")
        /\ read' = read \cup todo' /\ UNCHANGED <<sent, left>>
        /\ upTo' = [upTo EXCEPT !["page"] = Len(log)]
    BY <1>5 DEF Replays!Turn
  <2>2. /\ \A j \in read : log[j].kind = "file"
        /\ \A i \in todo' : log[i].kind = "page"
    BY <1>2, <2>1 DEF InTurn
  <2>6. ReplayTypes'
    <3>1. upTo' \in [{"file", "page"} -> 0..Len(log)]
      BY <1>6, <2>1 DEF ReplayTypes
    <3>2. todo' \subseteq 1..Len(log) /\ todo = {}
      BY <1>2, <1>5, <2>1 DEF Replays!Turn
    <3> QED BY <1>1, <2>1, <3>1, <3>2 DEF ReplayTypes
  <2>3. ReplayTypes' /\ InTurn' /\ Handled'
    BY <1>1, <1>2, <2>1, <2>2, <2>6 DEF ReplayTypes, InTurn, Handled
  <2>4. LatestOfRead'
    <3> SUFFICES ASSUME NEW i \in sent, NEW j \in read', j > i, log[i].files \cap left = {},
                        [log[j] EXCEPT !.option = log[i].option] = log[i]
                 PROVE  FALSE
      BY <1>1, <2>1 DEF LatestOfRead, Replays!Same
    <3>1. log[i] \in Deployment /\ log[j] \in Deployment
      BY <1>1, <2>1, <2>3 DEF ReplayTypes
    <3>2. log[j].kind = log[i].kind
      BY <3>1, SameButOption
    <3>3. j \in read
      BY <2>1, <2>2, <3>2 DEF ReplayTypes
    <3> QED BY <3>3 DEF LatestOfRead, Replays!Same
  <2>5. NewestWasRead'
    <3> SUFFICES ASSUME NEW i \in read', NEW j \in 1..Len(log), j > i, log[j].kind = log[i].kind,
                        j <= upTo'[log[i].kind]
                 PROVE  j \in read'
      BY <1>1 DEF NewestWasRead
    <3>1. CASE log[i].kind = "page"
      <4>1. i \in todo'
        BY <2>1, <2>2, <3>1
      <4> QED BY <1>6, <2>1, <3>1, <4>1, NewestReachUp
    <3>2. CASE log[i].kind # "page"
      <4>1. i \in read /\ log[i].kind = "file"
        BY <2>1, <2>2, <3>2
      <4>2. upTo'["file"] = upTo["file"]
        BY <2>1 DEF ReplayTypes
      <4> QED BY <2>1, <4>1, <4>2 DEF NewestWasRead
    <3> QED BY <3>1, <3>2
  <2> QED BY <2>3, <2>4, <2>5
<1> QED BY <1>3, <1>4, <1>5

LEMMA ReplayStep ==
    ASSUME Replays!ReplayAssumption, ReplayInv, Replays!Replay
    PROVE  ReplayInv'
<1> USE DEF ReplayInv
<1> DEFINE i == Replays!Max(todo)
<1>1. /\ phase # "idle" /\ todo # {} /\ todo' = todo \ {i}
      /\ UNCHANGED <<log, online, deleted, read, phase, left, upTo>>
  BY DEF Replays!Replay
<1>2. i \in todo /\ \A k \in todo : k <= i
  <2>1. Len(log) \in Nat /\ todo \in SUBSET (1..Len(log))
    BY DEF ReplayTypes
  <2>2. PICK m \in todo : \A k \in todo : k <= m
    BY <1>1, <2>1, LargestIn
  <2> QED BY <2>2 DEF Replays!Max
<1>3. /\ seen \subseteq seen' /\ sent' \subseteq sent \cup {i}
      /\ Replays!Valid(log[i]) => Replays!Target(log[i]) \in seen'
      /\ sent' # sent => Replays!Valid(log[i]) /\ Replays!Target(log[i]) \notin seen
  BY DEF Replays!Replay
<1> HIDE DEF i
<1>4. ReplayTypes'
  BY <1>1, <1>2, <1>3 DEF ReplayTypes
<1>5. InTurn'
  <2>1. ASSUME NEW k \in todo', NEW j \in read \ todo', log[j].kind = phase PROVE j > k
    <3>1. CASE j = i
      BY <1>1, <1>2, <2>1, <3>1 DEF ReplayTypes
    <3>2. CASE j # i
      BY <1>1, <2>1, <3>2 DEF InTurn
    <3> QED BY <3>1, <3>2
  <2> QED BY <1>1, <2>1 DEF InTurn
<1>6. Handled'
  BY <1>1, <1>3 DEF Handled, Replays!Valid, Replays!Target
<1>8. NewestWasRead'
  BY <1>1 DEF NewestWasRead
<1>7. LatestOfRead'
  <2> SUFFICES ASSUME sent' # sent, NEW j \in read, j > i, log[i].files \cap left = {},
                      [log[j] EXCEPT !.option = log[i].option] = log[i]
               PROVE  FALSE
    BY <1>1, <1>3 DEF LatestOfRead, Replays!Same
  <2>1. log[i] \in Deployment /\ log[j] \in Deployment /\ i \in Nat /\ j \in Nat
    BY <1>2 DEF ReplayTypes
  <2>2. /\ log[j].kind = log[i].kind /\ log[j].agent = log[i].agent
        /\ log[j].target = log[i].target /\ log[j].files = log[i].files
    BY <2>1, SameButOption
  <2>3. Replays!Valid(log[j]) /\ Replays!Target(log[j]) = Replays!Target(log[i])
    BY <1>3, <2>2 DEF Replays!Valid, Replays!Target
  <2>4. j \in read \ todo /\ log[j].kind = phase
    BY <1>2, <2>1, <2>2 DEF InTurn
  <2>5. Replays!Target(log[j]) \in seen
    BY <2>2, <2>3, <2>4 DEF Handled
  <2> QED BY <1>3, <2>3, <2>5
<1> QED BY <1>4, <1>5, <1>6, <1>7, <1>8

LEMMA ReplayHolds == ASSUME Replays!ReplayAssumption PROVE Replays!Spec => []ReplayInv
<1>1. Replays!Init => ReplayInv
  BY DEF Replays!Init, Replays!ReplayAssumption, ReplayInv, ReplayTypes, InTurn, Handled,
     LatestOfRead, Replays!Same, NewestWasRead
<1>2. ReplayInv /\ [Replays!Next]_(Replays!vars) => ReplayInv'
  <2> SUFFICES ASSUME ReplayInv, [Replays!Next]_(Replays!vars) PROVE ReplayInv'
    OBVIOUS
  <2>1. CASE UNCHANGED Replays!vars
    BY <2>1 DEF Replays!vars, ReplayInv, ReplayTypes, InTurn, Handled, Replays!Valid, Replays!Target,
       LatestOfRead, Replays!Same, NewestWasRead
  <2>2. CASE Replays!Next
    BY <2>2, LogStep, DeleteStep, TurnStep, ReplayStep DEF Replays!Next
  <2> QED BY <2>1, <2>2
<1> QED BY <1>1, <1>2, PTL DEF Replays!Spec

\* A repair sends a deployment again only if none of the same files to the same place
\* was later in the log when it read the kind's rows, however many agents, files and rows
\* there are and whoever comes and goes meanwhile, unless one of the files is deleted
\* while it runs.  One that is logged after the rows were read is not looked at
\* (_replay_latest_file_deployments, views.py:2021-2047).
THEOREM LatestIsSent == ASSUME Replays!ReplayAssumption PROVE Replays!Spec => []ReplayedLatest
<1>1. ReplayInv => ReplayedLatest
  <2> SUFFICES ASSUME ReplayInv, NEW i \in sent, NEW j \in 1..Len(log), j > i, Replays!Same(i, j),
                      ~(j > upTo[log[i].kind])
               PROVE  log[i].files \cap left # {}
    BY DEF ReplayedLatest, Replays!ReplayedLatest, Replays!Entry
  <2>1. /\ i \in read /\ i \in 1..Len(log) /\ Len(log) \in Nat
        /\ log[i] \in Deployment /\ log[j] \in Deployment
    BY DEF ReplayInv, ReplayTypes
  <2>2. log[j].kind = log[i].kind
    BY <2>1, SameButOption DEF Replays!Same
  <2>3. upTo[log[i].kind] \in 0..Len(log)
    BY <2>1, KindOf DEF ReplayInv, ReplayTypes
  <2>4. j <= upTo[log[i].kind]
    BY <2>3
  <2>5. j \in read
    BY <2>1, <2>2, <2>4 DEF ReplayInv, NewestWasRead
  <2> QED BY <2>5 DEF ReplayInv, LatestOfRead
<1> QED BY <1>1, ReplayHolds, PTL

\* The variables of a replay keep their types, for any agents, files and log.
THEOREM ReplayTypesHold == ASSUME Replays!ReplayAssumption PROVE Replays!Spec => []Replays!TypeOK
<1>1. ReplayInv => Replays!TypeOK
  BY DEF ReplayInv, ReplayTypes, Replays!TypeOK, Replays!Entry
<1> QED BY <1>1, ReplayHolds, PTL

-----------------------------------------------------------------------------
\* All variables of the management process keep their types: those of the store and of
\* the analyses, of the start, of the bait documents and of the replay, which share
\* nothing (views.py, alert_store.py, exts.py).
THEOREM ManagementIsTyped ==
    Spec /\ StartupSpec /\ Baits!Spec /\ Replays!Spec => []ManagementTypes
<1>1. TypeOK /\ StartupTypeOK /\ Baits!TypeOK /\ Replays!TypeOK => ManagementTypes
  BY DEF ManagementTypes
<1>2. /\ StartupSpec => []StartupTypeOK
      /\ Baits!Spec => []Baits!TypeOK
      /\ Replays!Spec => []Replays!TypeOK
  BY ManagementAssumption, StartTypes, BaitTypes, ReplayTypesHold DEF ManagementAssumption
<1> QED BY <1>1, <1>2, AnalysisTypes, PTL
=============================================================================
