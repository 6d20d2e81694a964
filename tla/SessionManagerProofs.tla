------------------------ MODULE SessionManagerProofs ------------------------
(***************************************************************************)
(* Proofs about SessionManager for every number of requests and addresses  *)
(* and every channel capacity.  The inductive invariant IInv says who may  *)
(* write to a buffer (only handlers of the address it was made for, also   *)
(* after it left the map), that a buffer in the map has not been saved,    *)
(* and that a flag is only up when the data it stands for is there.        *)
(***************************************************************************)
EXTENDS SessionManager, TLAPS

\* A buffer in the map was made for its address and has not been saved.
EntryOwned == \A i \in Ip : entry[i] # None =>
    /\ stage[entry[i]] # "idle"
    /\ ip[entry[i]] = i
    /\ saves[entry[i]] = 0

\* A handler's pointer leads to a buffer of its own address.
PtrOwned == \A r \in Req : stage[r] # "idle" =>
    /\ ptr[r] \in Req
    /\ stage[ptr[r]] # "idle"
    /\ ip[ptr[r]] = ip[r]

\* A buffer holds data of its own address; one not made yet holds nothing.
HeapOwned == \A b \in Req :
    /\ \A f \in Field : heap[b][f] # None => ip[heap[b][f]] = ip[b]
    /\ stage[b] = "idle" => heap[b] = Blank /\ saves[b] = 0
    /\ saves[b] <= 1

\* saveToDB writes the row of the address the buffer was made for.
SaverOwned ==
    /\ \A g \in savers : /\ g.ip = ip[g.buf]
                         /\ g.ips \notin {None, "unread"} => ip[g.ips] = g.ip
    /\ RowOfOneClient

\* The first writes of a handler are in its buffer; a flag implies its data.
WrittenFirst ==
    /\ \A r \in Req : stage[r] = "idle" => pc[r] = 0
    /\ \A r \in Req : stage[r] = "running" =>
         /\ kind[r] = "info" /\ pc[r] >= 1 => heap[ptr[r]]["token"] # None
         /\ kind[r] = "info" /\ pc[r] >= 2 => heap[ptr[r]]["details"] # None
         /\ kind[r] = "ips" /\ pc[r] >= 1 => heap[ptr[r]]["ips"] # None
    /\ \A b \in Req :
         /\ HttpReady(b) => heap[b]["token"] # None /\ heap[b]["details"] # None
         /\ WebReady(b) => heap[b]["ips"] # None

\* What is being saved is ready, and rows are complete.
SavedReady ==
    /\ \A g \in savers : /\ HttpReady(g.buf)
                         /\ g.full => WebReady(g.buf)
                         /\ g.full /\ g.ips # "unread" => g.ips # None
    /\ RowComplete

IInv == /\ TypeOK /\ EntryOwned /\ PtrOwned /\ HeapOwned /\ SaverOwned
        /\ WrittenFirst /\ SavedReady /\ NoLostWakeup

-----------------------------------------------------------------------------

\* Facts about the channel and about a handler's writes the proofs use.
LEMMA QueuedFacts ==
    ASSUME checkCh \in Seq(Ip)
    PROVE  /\ \A i \in Ip : checkCh' = Append(checkCh, i)
                              => Queued' = Queued \cup {i}
           /\ checkCh # <<>> /\ checkCh' = Tail(checkCh)
                              => Queued = Queued' \cup {Head(checkCh)}
           /\ checkCh' = checkCh => Queued' = Queued
<1>1. ASSUME NEW i \in Ip, checkCh' = Append(checkCh, i)
      PROVE  Queued' = Queued \cup {i}
  <2>1. /\ DOMAIN checkCh' = DOMAIN checkCh \cup {Len(checkCh) + 1}
        /\ \A n \in DOMAIN checkCh : checkCh'[n] = checkCh[n]
        /\ checkCh'[Len(checkCh) + 1] = i
    BY <1>1
  <2> QED BY <2>1, Zenon DEF Queued
<1>2. ASSUME checkCh # <<>>, checkCh' = Tail(checkCh)
      PROVE  Queued = Queued' \cup {Head(checkCh)}
  <2>1. \A n \in DOMAIN checkCh' : n + 1 \in DOMAIN checkCh
                                      /\ checkCh'[n] = checkCh[n + 1]
    BY <1>2
  <2>2. \A n \in DOMAIN checkCh : n = 1 \/ (n - 1 \in DOMAIN checkCh'
                                             /\ checkCh[n] = checkCh'[n - 1])
    BY <1>2
  <2>3. 1 \in DOMAIN checkCh /\ checkCh[1] = Head(checkCh)
    BY <1>2
  <2>4. ASSUME NEW x \in Queued PROVE x \in Queued' \cup {Head(checkCh)}
    BY <2>2, <2>3, Zenon DEF Queued
  <2>5. ASSUME NEW x \in Queued' \cup {Head(checkCh)} PROVE x \in Queued
    BY <2>1, <2>3, Zenon DEF Queued
  <2> QED BY <2>4, <2>5
<1>3. checkCh' = checkCh => Queued' = Queued
  BY Zenon DEF Queued
<1> QED BY <1>1, <1>2, <1>3

\* The next write of a handler, for each kind and program counter.
LEMMA NextWrite ==
    ASSUME TypeOK, NEW r \in Req, pc[r] < Len(Writes(kind[r]))
    PROVE  /\ pc[r] + 1 \in 1..4
           /\ Writes(kind[r])[pc[r] + 1] \in Field
           /\ kind[r] = "info" => Writes(kind[r])[pc[r] + 1] =
                IF pc[r] = 0 THEN "token" ELSE IF pc[r] = 1 THEN "details"
                ELSE IF pc[r] = 2 THEN "http" ELSE "agent"
           /\ kind[r] = "ips" => pc[r] \in {0, 1} /\ Writes(kind[r])[pc[r] + 1] =
                IF pc[r] = 0 THEN "ips" ELSE "web"
           /\ kind[r] = "ws" => Writes(kind[r])[pc[r] + 1] \in {"rtt", "ws"}
<1> USE DEF TypeOK
<1>1. pc[r] \in 0..4 /\ kind[r] \in Kind
  OBVIOUS
<1>2. CASE kind[r] = "info"
  <2>1. Writes(kind[r]) = <<"token", "details", "http", "agent">>
    BY <1>2 DEF Writes
  <2>2. pc[r] \in 0..3
    BY <1>1, <2>1
  <2> QED BY <1>2, <2>1, <2>2 DEF Field
<1>3. CASE kind[r] = "ips"
  <2>1. Writes(kind[r]) = <<"ips", "web">>
    BY <1>3 DEF Writes
  <2> QED BY <1>1, <1>3, <2>1 DEF Field
<1>4. CASE kind[r] = "ws"
  <2>1. Writes(kind[r]) = <<"rtt", "ws">>
    BY <1>4 DEF Writes
  <2> QED BY <1>1, <1>4, <2>1 DEF Field
<1> QED BY <1>1, <1>2, <1>3, <1>4 DEF Kind

\* A write changes one field of the buffer the handler points to.
LEMMA WriteEffect ==
    ASSUME TypeOK, PtrOwned, NEW r \in Req, Write(r)
    PROVE  LET f == Writes(kind[r])[pc[r] + 1] IN
           /\ f \in Field /\ ptr[r] \in Req
           /\ heap' \in [Req -> [Field -> Req \cup {None}]]
           /\ heap'[ptr[r]][f] = r
           /\ \A b \in Req, g \in Field :
                (b # ptr[r] \/ g # f) => heap'[b][g] = heap[b][g]
           /\ \A b \in Req : b # ptr[r] => heap'[b] = heap[b]
<1>1. ptr[r] \in Req
  BY DEF PtrOwned, Write, Busy
<1>2. Writes(kind[r])[pc[r] + 1] \in Field
  BY NextWrite DEF Write
<1>3. /\ heap' = [heap EXCEPT ![ptr[r]][Writes(kind[r])[pc[r] + 1]] = r]
      /\ heap \in [Req -> [Field -> Req \cup {None}]]
  BY Zenon DEF Write, TypeOK
<1> QED BY <1>1, <1>2, <1>3

\* Every step keeps the variables in their types.
LEMMA TypeStep == TypeOK /\ PtrOwned /\ [Next]_vars => TypeOK'
<1> SUFFICES ASSUME TypeOK, PtrOwned, [Next]_vars PROVE TypeOK'
  OBVIOUS
<1> USE SessionAssumption DEF requestVars, storeVars
<1>1. ASSUME NEW r \in Req, GetBuffer(r) PROVE TypeOK'
  <2>1. (IF entry[ip[r]] = None THEN r ELSE entry[ip[r]]) \in Req
    BY DEF TypeOK
  <2> QED BY <1>1, <2>1 DEF TypeOK, GetBuffer
<1>2. ASSUME NEW r \in Req, Write(r) PROVE TypeOK'
  <2>1. heap' \in [Req -> [Field -> Req \cup {None}]]
    BY <1>2, WriteEffect
  <2>2. pc' \in [Req -> 0..4]
    BY <1>2, NextWrite DEF Write, TypeOK
  <2> QED BY <1>2, <2>1, <2>2 DEF TypeOK, Write
<1>3. ASSUME NEW r \in Req, SignalReady(r) PROVE TypeOK'
  <2>1. checkCh' \in Seq(Ip) /\ Len(checkCh') <= ChannelCap
    <3>1. CASE Len(checkCh) < ChannelCap /\ checkCh' = Append(checkCh, ip[r])
      <4>1. ip[r] \in Ip /\ checkCh \in Seq(Ip)
        BY DEF TypeOK
      <4>2. checkCh' \in Seq(Ip) /\ Len(checkCh') = Len(checkCh) + 1
        BY <3>1, <4>1
      <4>3. Len(checkCh) \in Nat /\ ChannelCap \in Nat
        BY <4>1 DEF SessionAssumption
      <4> QED BY <3>1, <4>2, <4>3
    <3>2. CASE checkCh' = checkCh
      BY <3>2 DEF TypeOK
    <3> QED BY <1>3, <3>1, <3>2 DEF SignalReady
  <2>2. skipped' \subseteq Req
    BY <1>3 DEF TypeOK, SignalReady
  <2> QED BY <1>3, <2>1, <2>2 DEF TypeOK, SignalReady
<1>4. CASE TakeSignal
  BY <1>4 DEF TypeOK, TakeSignal
<1>5. CASE CheckAndSave
  <2>1. CASE entry[checking] # None /\ BothReady(entry[checking])
    <3>1. entry[checking] \in Req /\ checking \in Ip
      BY <1>5, <2>1 DEF CheckAndSave, TypeOK
    <3>2. savers' = savers \cup {Saver(checking, TRUE)}
      BY <1>5, <2>1 DEF CheckAndSave
    <3>3. Saver(checking, TRUE) \in SaverType
      BY <3>1 DEF Saver, SaverType
    <3>4. savers' \subseteq SaverType
      BY <3>2, <3>3 DEF TypeOK
    <3>5. /\ entry' = [entry EXCEPT ![checking] = None]
          /\ saves' = [saves EXCEPT ![entry[checking]] = @ + 1]
      BY <1>5, <2>1, Zenon DEF CheckAndSave
    <3>6. entry' \in [Ip -> Req \cup {None}] /\ saves' \in [Req -> Nat]
      BY <3>1, <3>5 DEF TypeOK
    <3> QED BY <1>5, <3>4, <3>6 DEF CheckAndSave, TypeOK
  <2>2. CASE ~(entry[checking] # None /\ BothReady(entry[checking]))
    BY <1>5, <2>2 DEF CheckAndSave, TypeOK
  <2> QED BY <2>1, <2>2
<1>6. CASE Cleanup
  <2>1. \A i \in Fallback \cup Expired : i \in Ip /\ entry[i] \in Req
    BY DEF Fallback, Expired, TypeOK
  <2>2. \A i \in Fallback : Saver(i, FALSE) \in SaverType
    BY <2>1 DEF Saver, SaverType
  <2>3. savers' = savers \cup {Saver(i, FALSE) : i \in Fallback}
    BY <1>6 DEF Cleanup
  <2>4. savers' \subseteq SaverType
    <3>1. savers \subseteq SaverType
      BY DEF TypeOK
    <3> QED BY <2>2, <2>3, <3>1, Zenon
  <2>5. entry' \in [Ip -> Req \cup {None}] /\ saves' \in [Req -> Nat]
    BY <1>6 DEF Cleanup, TypeOK
  <2>6. discarded' \subseteq Req
    BY <1>6, <2>1 DEF Cleanup, TypeOK
  <2> QED BY <1>6, <2>4, <2>5, <2>6 DEF Cleanup, TypeOK
<1>7. ASSUME NEW i \in Ip, Age(i) PROVE TypeOK'
  <2>1. idle[i] + 1 \in 0..2
    <3>1. idle[i] \in 0..2 /\ idle[i] < 2
      BY <1>7, Zenon DEF Age, TypeOK
    <3> QED BY <3>1
  <2>2. idle' \in [Ip -> 0..2]
    BY <1>7, <2>1 DEF Age, TypeOK
  <2> QED BY <1>7, <2>2 DEF Age, TypeOK
<1>8. ASSUME NEW g \in savers, ReadIps(g) PROVE TypeOK'
  <2>1. g \in SaverType
    BY DEF TypeOK
  <2>2. heap[g.buf]["ips"] \in Req \cup {None}
    BY <2>1 DEF TypeOK, Field, SaverType
  <2>3. [g EXCEPT !.ips = heap[g.buf]["ips"]] \in SaverType
    BY <2>1, <2>2 DEF SaverType
  <2> QED BY <1>8, <2>3 DEF ReadIps, TypeOK
<1>9. ASSUME NEW g \in savers, InsertRow(g) PROVE TypeOK'
  <2>1. g \in SaverType
    BY DEF TypeOK
  <2>2. \A f \in Field : heap[g.buf][f] \in Req \cup {None}
    BY <2>1 DEF TypeOK, SaverType
  <2>3. [ip |-> g.ip, full |-> g.full, ips |-> g.ips,
         token |-> heap[g.buf]["token"], details |-> heap[g.buf]["details"],
         agent |-> heap[g.buf]["agent"]] \in RowType
    BY <1>9, <2>1, <2>2 DEF InsertRow, Field, SaverType, RowType
  <2> QED BY <1>9, <2>3 DEF InsertRow, TypeOK
<1>10. CASE UNCHANGED vars
  BY <1>10 DEF vars, TypeOK
<1> QED BY <1>1, <1>2, <1>3, <1>4, <1>5, <1>6, <1>7, <1>8, <1>9, <1>10
        DEF Next, Handler

-----------------------------------------------------------------------------

\* Buffers stay with their address, and leave the map when they are saved.
LEMMA OwnedStep ==
    ASSUME TypeOK, EntryOwned, PtrOwned, HeapOwned, [Next]_vars
    PROVE  EntryOwned' /\ PtrOwned' /\ HeapOwned'
<1> USE SessionAssumption DEF requestVars, storeVars
<1>1. ASSUME NEW r \in Req, GetBuffer(r)
      PROVE  EntryOwned' /\ PtrOwned' /\ HeapOwned'
  <2> DEFINE b == IF entry[ip[r]] = None THEN r ELSE entry[ip[r]]
  <2>1. /\ stage[r] = "idle" /\ stage' = [stage EXCEPT ![r] = "running"]
        /\ entry' = [entry EXCEPT ![ip[r]] = b]
        /\ ptr' = [ptr EXCEPT ![r] = b]
        /\ UNCHANGED <<ip, heap, saves>>
    BY <1>1 DEF GetBuffer
  <2>2. /\ b \in Req /\ ip[r] \in Ip
        /\ ip[b] = ip[r] /\ stage'[b] # "idle" /\ saves[b] = 0
    BY <2>1 DEF TypeOK, EntryOwned, HeapOwned
  <2> HIDE DEF b
  <2>3. EntryOwned'
    BY <2>1, <2>2 DEF EntryOwned, TypeOK
  <2>4. PtrOwned'
    BY <2>1, <2>2 DEF PtrOwned, TypeOK
  <2>5. HeapOwned'
    BY <2>1 DEF HeapOwned, TypeOK
  <2> QED BY <2>3, <2>4, <2>5
<1>2. ASSUME NEW r \in Req, Write(r)
      PROVE  EntryOwned' /\ PtrOwned' /\ HeapOwned'
  <2>1. /\ stage[r] = "running"
        /\ UNCHANGED <<stage, ip, ptr, entry, saves>>
    BY <1>2 DEF Write, Busy
  <2>2. /\ ptr[r] \in Req /\ stage[ptr[r]] # "idle" /\ ip[ptr[r]] = ip[r]
    BY <2>1 DEF PtrOwned
  <2>3. EntryOwned' /\ PtrOwned'
    BY <2>1 DEF EntryOwned, PtrOwned
  <2>4. PICK f \in Field :
          /\ heap'[ptr[r]][f] = r
          /\ \A c \in Req, g \in Field :
               (c # ptr[r] \/ g # f) => heap'[c][g] = heap[c][g]
          /\ \A c \in Req : c # ptr[r] => heap'[c] = heap[c]
    BY <1>2, WriteEffect
  <2>5. HeapOwned'
    <3> SUFFICES ASSUME NEW c \in Req
                 PROVE  /\ \A g \in Field : heap'[c][g] # None => ip[heap'[c][g]] = ip[c]
                        /\ stage[c] = "idle" => heap'[c] = Blank /\ saves[c] = 0
                        /\ saves[c] <= 1
      BY <2>1 DEF HeapOwned
    <3>1. ASSUME NEW g \in Field, heap'[c][g] # None PROVE ip[heap'[c][g]] = ip[c]
      BY <2>2, <2>4, <3>1 DEF HeapOwned
    <3>2. stage[c] = "idle" => heap'[c] = Blank /\ saves[c] = 0
      BY <2>2, <2>4 DEF HeapOwned
    <3>3. saves[c] <= 1
      BY DEF HeapOwned
    <3> QED BY <3>1, <3>2, <3>3
  <2> QED BY <2>3, <2>5
<1>3. ASSUME NEW r \in Req, SignalReady(r)
      PROVE  EntryOwned' /\ PtrOwned' /\ HeapOwned'
  <2>1. /\ stage[r] = "running" /\ stage' = [stage EXCEPT ![r] = "done"]
        /\ UNCHANGED <<ip, ptr, heap, entry, saves>>
    BY <1>3 DEF SignalReady, Busy
  <2>2. \A c \in Req : stage'[c] = "idle" <=> stage[c] = "idle"
    BY <2>1 DEF TypeOK
  <2>3. EntryOwned'
    BY <2>1, <2>2 DEF EntryOwned, TypeOK
  <2>4. PtrOwned'
    BY <2>1, <2>2 DEF PtrOwned
  <2>5. HeapOwned'
    BY <2>1, <2>2 DEF HeapOwned
  <2> QED BY <2>3, <2>4, <2>5
<1>4. CASE CheckAndSave
  <2>1. UNCHANGED <<stage, ip, ptr, heap>> /\ checking \in Ip
    BY <1>4 DEF CheckAndSave, TypeOK
  <2>2. PtrOwned'
    BY <2>1 DEF PtrOwned
  <2>3. CASE UNCHANGED <<entry, saves>>
    BY <2>1, <2>2, <2>3 DEF EntryOwned, HeapOwned
  <2>4. CASE /\ entry[checking] # None
             /\ entry' = [entry EXCEPT ![checking] = None]
             /\ saves' = [saves EXCEPT ![entry[checking]] = @ + 1]
    <3>1. /\ entry[checking] \in Req /\ ip[entry[checking]] = checking
          /\ saves[entry[checking]] = 0 /\ stage[entry[checking]] # "idle"
      BY <2>1, <2>4 DEF EntryOwned, TypeOK
    <3>2. EntryOwned'
      BY <2>1, <2>4, <3>1 DEF EntryOwned, TypeOK
    <3>3. HeapOwned'
      BY <2>1, <2>4, <3>1 DEF HeapOwned, TypeOK
    <3> QED BY <2>2, <3>2, <3>3
  <2> QED BY <1>4, <2>3, <2>4 DEF CheckAndSave
<1>5. CASE Cleanup
  <2>1. /\ UNCHANGED <<stage, ip, ptr, heap>>
        /\ entry' = [i \in Ip |-> IF i \in Fallback \cup Expired THEN None ELSE entry[i]]
        /\ saves' = [b \in Req |-> IF \E i \in Fallback : entry[i] = b
                                   THEN saves[b] + 1 ELSE saves[b]]
    BY <1>5 DEF Cleanup
  <2>2. \A i \in Fallback : i \in Ip /\ entry[i] \in Req /\ ip[entry[i]] = i
                            /\ saves[entry[i]] = 0 /\ stage[entry[i]] # "idle"
    BY DEF Fallback, EntryOwned, TypeOK
  <2>3. PtrOwned'
    BY <2>1 DEF PtrOwned
  <2>4. EntryOwned'
    <3> SUFFICES ASSUME NEW i \in Ip, entry'[i] # None
                 PROVE  stage[entry'[i]] # "idle" /\ ip[entry'[i]] = i
                        /\ saves'[entry'[i]] = 0
      BY <2>1 DEF EntryOwned
    <3>1. entry'[i] = entry[i] /\ i \notin Fallback /\ entry[i] \in Req
      BY <2>1 DEF TypeOK
    <3>2. stage[entry[i]] # "idle" /\ ip[entry[i]] = i /\ saves[entry[i]] = 0
      BY <3>1 DEF EntryOwned
    <3>3. ~ \E j \in Fallback : entry[j] = entry[i]
      BY <2>2, <3>1, <3>2
    <3> QED BY <2>1, <3>1, <3>2, <3>3
  <2>5. HeapOwned'
    BY <2>1, <2>2 DEF HeapOwned, TypeOK
  <2> QED BY <2>3, <2>4, <2>5
<1>6. CASE UNCHANGED <<stage, ip, ptr, heap, entry, saves>>
  BY <1>6 DEF EntryOwned, PtrOwned, HeapOwned
<1>7. CASE TakeSignal
  BY <1>6, <1>7 DEF TakeSignal
<1>8. ASSUME NEW i \in Ip, Age(i) PROVE UNCHANGED <<stage, ip, ptr, heap, entry, saves>>
  BY <1>8, Zenon DEF Age
<1>9. ASSUME NEW g \in savers, ReadIps(g) \/ InsertRow(g)
      PROVE  UNCHANGED <<stage, ip, ptr, heap, entry, saves>>
  BY <1>9, Zenon DEF ReadIps, InsertRow
<1>10. CASE UNCHANGED vars
  BY <1>6, <1>10 DEF vars
<1> QED BY <1>1, <1>2, <1>3, <1>4, <1>5, <1>6, <1>7, <1>8, <1>9, <1>10
        DEF Next, Handler

-----------------------------------------------------------------------------

\* A goroutine as checkAndSave and cleanup start it for a buffer in the map.
Fresh(g) == \E i \in Ip :
    /\ g = Saver(i, TRUE) \/ g = Saver(i, FALSE)
    /\ entry[i] # None /\ HttpReady(entry[i])
    /\ g.full => BothReady(entry[i])

\* What a step does to the goroutines that save and to the rows: nothing, new
\* goroutines for buffers in the map, addresses read, or a row inserted.
LEMMA SaverSteps ==
    ASSUME TypeOK, [Next]_vars
    PROVE  \/ UNCHANGED <<savers, rows>>
           \/ UNCHANGED <<rows, heap, ip>> /\ \A g \in savers' \ savers : Fresh(g)
           \/ \E g \in savers : ReadIps(g) \/ InsertRow(g)
<1> USE DEF requestVars, storeVars
<1>1. CASE CheckAndSave
  <2>1. checking \in Ip /\ UNCHANGED <<rows, heap, ip>>
    BY <1>1 DEF CheckAndSave, TypeOK
  <2>2. CASE savers' = savers
    BY <2>1, <2>2
  <2>3. CASE /\ entry[checking] # None /\ BothReady(entry[checking])
             /\ savers' = savers \cup {Saver(checking, TRUE)}
    BY <2>1, <2>3 DEF BothReady, Fresh
  <2> QED BY <1>1, <2>2, <2>3 DEF CheckAndSave
<1>2. CASE Cleanup
  <2>1. UNCHANGED <<rows, heap, ip>>
    BY <1>2 DEF Cleanup
  <2>2. savers' = savers \cup {Saver(i, FALSE) : i \in Fallback}
    BY <1>2 DEF Cleanup
  <2>3. \A i \in Fallback : /\ i \in Ip /\ entry[i] # None
                            /\ HttpReady(entry[i]) /\ ~Saver(i, FALSE).full
    BY DEF Fallback, Saver
  <2> QED BY <2>1, <2>2, <2>3 DEF Fresh
<1>3. ASSUME NEW r \in Req, Handler(r) PROVE UNCHANGED <<savers, rows>>
  BY <1>3, Zenon DEF Handler, GetBuffer, Write, SignalReady
<1>4. CASE TakeSignal
  BY <1>4, Zenon DEF TakeSignal
<1>5. ASSUME NEW i \in Ip, Age(i) PROVE UNCHANGED <<savers, rows>>
  BY <1>5, Zenon DEF Age
<1>6. CASE UNCHANGED vars
  BY <1>6 DEF vars
<1> QED BY <1>1, <1>2, <1>3, <1>4, <1>5, <1>6 DEF Next

\* A row is of the address its buffer was made for.
LEMMA SaverStep ==
    ASSUME TypeOK, EntryOwned, HeapOwned, SaverOwned, [Next]_vars
    PROVE  SaverOwned'
<1> USE DEF requestVars, storeVars
<1>0. UNCHANGED <<kind, ip>>
  BY Zenon DEF Next, Handler, GetBuffer, Write, SignalReady, TakeSignal,
     CheckAndSave, Cleanup, Age, ReadIps, InsertRow, vars
<1>1. CASE UNCHANGED <<savers, rows>>
  BY <1>0, <1>1 DEF SaverOwned, RowOfOneClient
<1>2. CASE UNCHANGED <<rows, heap, ip>> /\ \A g \in savers' \ savers : Fresh(g)
  <2>1. ASSUME NEW g \in savers' \ savers
        PROVE  g.ip = ip[g.buf] /\ g.ips = "unread"
    <3>1. PICK i \in Ip : /\ g = Saver(i, TRUE) \/ g = Saver(i, FALSE)
                          /\ entry[i] # None /\ HttpReady(entry[i])
                          /\ g.full => BothReady(entry[i])
      BY <1>2, <2>1 DEF Fresh
    <3>2. g.ip = i /\ g.buf = entry[i] /\ g.ips = "unread"
      BY <3>1 DEF Saver
    <3> QED BY <3>1, <3>2 DEF EntryOwned
  <2> QED BY <1>2, <2>1 DEF SaverOwned, RowOfOneClient
<1>3. ASSUME NEW g \in savers, ReadIps(g) PROVE SaverOwned'
  <2>1. g \in SaverType
    BY DEF TypeOK
  <2>2. g.buf \in Req /\ g.ip = ip[g.buf]
    BY <2>1 DEF SaverType, SaverOwned
  <2>3. heap[g.buf]["ips"] # None => ip[heap[g.buf]["ips"]] = g.ip
    BY <2>2 DEF HeapOwned, Field
  <2> DEFINE h == [g EXCEPT !.ips = heap[g.buf]["ips"]]
  <2>4. h.ip = g.ip /\ h.buf = g.buf /\ h.ips = heap[g.buf]["ips"]
    BY <2>1 DEF SaverType
  <2>5. savers' = (savers \ {g}) \cup {h} /\ UNCHANGED <<ip, rows>>
    BY <1>3 DEF ReadIps
  <2> HIDE DEF h
  <2> QED BY <2>2, <2>3, <2>4, <2>5 DEF SaverOwned, RowOfOneClient
<1>4. ASSUME NEW g \in savers, InsertRow(g) PROVE SaverOwned'
  <2>1. g \in SaverType
    BY DEF TypeOK
  <2>2. g.buf \in Req /\ g.ip = ip[g.buf] /\ g.ips # "unread"
    BY <1>4, <2>1 DEF SaverType, SaverOwned, InsertRow
  <2>3. /\ \A f \in Field : heap[g.buf][f] # None => ip[heap[g.buf][f]] = g.ip
        /\ g.ips # None => ip[g.ips] = g.ip
    BY <2>2 DEF HeapOwned, SaverOwned
  <2> DEFINE row == [ip |-> g.ip, full |-> g.full, ips |-> g.ips,
                     token |-> heap[g.buf]["token"],
                     details |-> heap[g.buf]["details"],
                     agent |-> heap[g.buf]["agent"]]
  <2>4. \A f \in {"token", "details", "agent", "ips"} :
            row[f] # None => ip[row[f]] = row.ip
    BY <2>3 DEF Field
  <2>5. /\ savers' = savers \ {g} /\ UNCHANGED ip
        /\ rows' = rows \cup {row} \/ rows' = rows
    BY <1>4 DEF InsertRow
  <2> HIDE DEF row
  <2> QED BY <2>4, <2>5 DEF SaverOwned, RowOfOneClient
<1> QED BY <1>1, <1>2, <1>3, <1>4, SaverSteps

\* Handlers write the data before the flag.
LEMMA WrittenStep ==
    ASSUME TypeOK, PtrOwned, HeapOwned, WrittenFirst, [Next]_vars
    PROVE  WrittenFirst'
<1> USE SessionAssumption DEF requestVars, storeVars
<1>1. ASSUME NEW r \in Req, GetBuffer(r) PROVE WrittenFirst'
  <2>1. /\ stage[r] = "idle" /\ stage' = [stage EXCEPT ![r] = "running"]
        /\ \E b : ptr' = [ptr EXCEPT ![r] = b]
        /\ UNCHANGED <<kind, pc, heap>>
    BY <1>1 DEF GetBuffer
  <2>2. pc[r] = 0
    BY <2>1 DEF WrittenFirst
  <2> QED BY <2>1, <2>2 DEF WrittenFirst, TypeOK, HttpReady, WebReady
<1>2. ASSUME NEW r \in Req, Write(r) PROVE WrittenFirst'
  <2> DEFINE f == Writes(kind[r])[pc[r] + 1]
  <2>1. /\ stage[r] = "running" /\ pc[r] < Len(Writes(kind[r]))
        /\ pc' = [pc EXCEPT ![r] = @ + 1]
        /\ UNCHANGED <<stage, kind, ptr>>
    BY <1>2 DEF Write, Busy
  <2>2. /\ f \in Field /\ ptr[r] \in Req /\ heap'[ptr[r]][f] = r
        /\ \A b \in Req, g \in Field :
             (b # ptr[r] \/ g # f) => heap'[b][g] = heap[b][g]
    BY <1>2, WriteEffect
  <2>3. \A b \in Req, g \in Field : heap[b][g] # None => heap'[b][g] # None
    BY <2>2
  <2>4. /\ kind[r] = "info" => f = IF pc[r] = 0 THEN "token" ELSE IF pc[r] = 1
                            THEN "details" ELSE IF pc[r] = 2 THEN "http" ELSE "agent"
        /\ kind[r] = "ips" => f = IF pc[r] = 0 THEN "ips" ELSE "web"
        /\ kind[r] = "ips" => pc[r] \in {0, 1}
        /\ kind[r] = "ws" => f \in {"rtt", "ws"}
        /\ pc[r] \in 0..3 /\ kind[r] \in Kind
    <3>1. pc[r] \in 0..4 /\ kind[r] \in Kind
      BY DEF TypeOK
    <3> QED BY <2>1, <3>1, NextWrite
  <2> HIDE DEF f
  <2>5. ASSUME NEW q \in Req, stage'[q] = "running"
        PROVE  /\ kind[q] = "info" /\ pc'[q] >= 1 => heap'[ptr[q]]["token"] # None
               /\ kind[q] = "info" /\ pc'[q] >= 2 => heap'[ptr[q]]["details"] # None
               /\ kind[q] = "ips" /\ pc'[q] >= 1 => heap'[ptr[q]]["ips"] # None
    <3>1. ptr[q] \in Req /\ stage[q] = "running"
      BY <2>1, <2>5 DEF PtrOwned
    <3>2. CASE q # r
      <4>1. pc'[q] = pc[q]
        BY <2>1, <3>2 DEF TypeOK
      <4> QED BY <2>3, <3>1, <4>1 DEF WrittenFirst, Field
    <3>3. CASE q = r
      <4>1. pc'[r] = pc[r] + 1
        BY <2>1 DEF TypeOK
      <4>2. r # None
        OBVIOUS
      <4>3. kind[r] = "info" /\ pc[r] + 1 >= 1 => heap'[ptr[r]]["token"] # None
        BY <2>1, <2>2, <2>3, <2>4, <4>2 DEF WrittenFirst, Field
      <4>4. kind[r] = "info" /\ pc[r] + 1 >= 2 => heap'[ptr[r]]["details"] # None
        BY <2>1, <2>2, <2>3, <2>4, <4>2 DEF WrittenFirst, Field
      <4>5. kind[r] = "ips" /\ pc[r] + 1 >= 1 => heap'[ptr[r]]["ips"] # None
        BY <2>1, <2>2, <2>3, <2>4, <4>2 DEF WrittenFirst, Field
      <4> QED BY <3>3, <4>1, <4>3, <4>4, <4>5
    <3> QED BY <3>2, <3>3
  <2>6. ASSUME NEW b \in Req, heap'[b]["http"] # None
        PROVE  heap'[b]["token"] # None /\ heap'[b]["details"] # None
    <3>1. CASE heap[b]["http"] # None
      BY <2>3, <3>1 DEF WrittenFirst, HttpReady, Field
    <3>2. CASE heap[b]["http"] = None
      <4>1. b = ptr[r] /\ f = "http"
        BY <2>2, <2>6, <3>2 DEF Field
      <4>2. kind[r] = "info" /\ pc[r] = 2
        BY <2>4, <4>1 DEF Kind
      <4>3. heap[b]["token"] # None /\ heap[b]["details"] # None
        BY <2>1, <4>1, <4>2 DEF WrittenFirst
      <4> QED BY <2>3, <4>3 DEF Field
    <3> QED BY <3>1, <3>2
  <2>7. ASSUME NEW b \in Req, heap'[b]["web"] # None
        PROVE  heap'[b]["ips"] # None
    <3>1. CASE heap[b]["web"] # None
      BY <2>3, <3>1 DEF WrittenFirst, WebReady, Field
    <3>2. CASE heap[b]["web"] = None
      <4>1. b = ptr[r] /\ f = "web"
        BY <2>2, <2>7, <3>2 DEF Field
      <4>2. kind[r] = "ips" /\ pc[r] = 1
        BY <2>4, <4>1 DEF Kind
      <4>3. heap[b]["ips"] # None
        BY <2>1, <4>1, <4>2 DEF WrittenFirst
      <4> QED BY <2>3, <4>3 DEF Field
    <3> QED BY <3>1, <3>2
  <2>8. \A q \in Req : stage'[q] = "idle" => pc'[q] = 0
    BY <2>1 DEF WrittenFirst, TypeOK
  <2> QED BY <2>1, <2>5, <2>6, <2>7, <2>8 DEF WrittenFirst, HttpReady, WebReady
<1>3. ASSUME NEW r \in Req, SignalReady(r) PROVE WrittenFirst'
  <2>1. stage' = [stage EXCEPT ![r] = "done"] /\ UNCHANGED <<kind, pc, ptr, heap>>
    BY <1>3 DEF SignalReady
  <2>2. \A q \in Req : stage'[q] \in {"idle", "running"} => stage'[q] = stage[q]
    BY <2>1 DEF TypeOK
  <2> QED BY <2>1, <2>2 DEF WrittenFirst, HttpReady, WebReady
<1>4. CASE UNCHANGED <<requestVars, heap>>
  BY <1>4 DEF WrittenFirst, HttpReady, WebReady
<1>5. CASE TakeSignal \/ CheckAndSave \/ Cleanup \/ UNCHANGED vars
  BY <1>4, <1>5, Zenon DEF TakeSignal, CheckAndSave, Cleanup, vars
<1>6. ASSUME NEW i \in Ip, Age(i) PROVE UNCHANGED <<requestVars, heap>>
  BY <1>6, Zenon DEF Age
<1>7. ASSUME NEW g \in savers, ReadIps(g) \/ InsertRow(g)
      PROVE  UNCHANGED <<requestVars, heap>>
  BY <1>7, Zenon DEF ReadIps, InsertRow
<1> QED BY <1>1, <1>2, <1>3, <1>4, <1>5, <1>6, <1>7 DEF Next, Handler

\* What is saved stays ready, and rows are built from ready buffers.
LEMMA SavedStep ==
    ASSUME TypeOK, PtrOwned, WrittenFirst, SavedReady, [Next]_vars
    PROVE  SavedReady'
<1> USE DEF requestVars, storeVars
<1>0. \A b \in Req, f \in Field : heap[b][f] # None => heap'[b][f] # None
  <2>1. ASSUME NEW r \in Req, Write(r)
        PROVE  \A b \in Req, f \in Field : heap[b][f] # None => heap'[b][f] # None
    <3>1. r # None
      BY SessionAssumption
    <3> QED BY <2>1, <3>1, WriteEffect
  <2>2. heap' = heap \/ \E r \in Req : Write(r)
    BY Zenon DEF Next, Handler, GetBuffer, SignalReady, TakeSignal,
       CheckAndSave, Cleanup, Age, ReadIps, InsertRow, vars
  <2> QED BY <2>1, <2>2
<1>1. \A b \in Req : /\ heap[b]["http"] # None => heap'[b]["http"] # None
                     /\ heap[b]["web"] # None => heap'[b]["web"] # None
  BY <1>0 DEF Field
<1>2. \A g \in savers : g \in SaverType /\ g.buf \in Req
  BY DEF TypeOK, SaverType
<1>r. \A g \in savers : /\ heap'[g.buf]["http"] # None
                        /\ g.full => heap'[g.buf]["web"] # None
                        /\ g.full /\ g.ips # "unread" => g.ips # None
  <2> SUFFICES ASSUME NEW g \in savers
               PROVE  /\ heap'[g.buf]["http"] # None
                      /\ g.full => heap'[g.buf]["web"] # None
                      /\ g.full /\ g.ips # "unread" => g.ips # None
    OBVIOUS
  <2>1. /\ heap[g.buf]["http"] # None
        /\ g.full => heap[g.buf]["web"] # None
        /\ g.full /\ g.ips # "unread" => g.ips # None
    BY DEF SavedReady, HttpReady, WebReady
  <2>2. g.buf \in Req
    BY <1>2
  <2> QED BY <1>1, <2>1, <2>2
<1>3. CASE UNCHANGED <<savers, rows>>
  BY <1>r, <1>3 DEF SavedReady, RowComplete, HttpReady, WebReady
<1>4. CASE UNCHANGED <<rows, heap, ip>> /\ \A g \in savers' \ savers : Fresh(g)
  <2>1. ASSUME NEW g \in savers' \ savers
        PROVE  HttpReady(g.buf) /\ (g.full => WebReady(g.buf)) /\ g.ips = "unread"
    <3>1. PICK i \in Ip : /\ g = Saver(i, TRUE) \/ g = Saver(i, FALSE)
                          /\ entry[i] # None /\ HttpReady(entry[i])
                          /\ g.full => BothReady(entry[i])
      BY <1>4, <2>1 DEF Fresh
    <3>2. g.buf = entry[i] /\ g.ips = "unread"
      BY <3>1 DEF Saver
    <3> QED BY <3>1, <3>2 DEF BothReady
  <2> QED BY <1>4, <2>1 DEF SavedReady, RowComplete, HttpReady, WebReady
<1>5. ASSUME NEW g \in savers, ReadIps(g) PROVE SavedReady'
  <2> DEFINE h == [g EXCEPT !.ips = heap[g.buf]["ips"]]
  <2>1. h.full = g.full /\ h.buf = g.buf /\ h.ips = heap[g.buf]["ips"]
    BY <1>2 DEF SaverType
  <2>2. HttpReady(g.buf) /\ (g.full => WebReady(g.buf))
    BY DEF SavedReady
  <2>3. g.full => heap[g.buf]["ips"] # None
    BY <1>2, <2>2 DEF WrittenFirst
  <2>4. savers' = (savers \ {g}) \cup {h} /\ UNCHANGED rows
    BY <1>5 DEF ReadIps
  <2> HIDE DEF h
  <2>5. /\ heap'[h.buf]["http"] # None
        /\ h.full => heap'[h.buf]["web"] # None /\ h.ips # None
    BY <1>r, <2>1, <2>3
  <2> QED BY <1>r, <2>4, <2>5 DEF SavedReady, RowComplete, HttpReady, WebReady
<1>6. ASSUME NEW g \in savers, InsertRow(g) PROVE SavedReady'
  <2> DEFINE row == [ip |-> g.ip, full |-> g.full, ips |-> g.ips,
                     token |-> heap[g.buf]["token"],
                     details |-> heap[g.buf]["details"],
                     agent |-> heap[g.buf]["agent"]]
  <2>1. g.ips # "unread"
    BY <1>6 DEF InsertRow
  <2>2. /\ HttpReady(g.buf)
        /\ g.full => g.ips # None
    BY <2>1 DEF SavedReady
  <2>3. row.token # None /\ row.details # None /\ (row.full => row.ips # None)
    BY <1>2, <2>2 DEF WrittenFirst
  <2>4. /\ savers' = savers \ {g}
        /\ rows' = rows \cup {row} \/ rows' = rows
    BY <1>6 DEF InsertRow
  <2> HIDE DEF row
  <2> QED BY <1>r, <2>3, <2>4 DEF SavedReady, RowComplete, HttpReady, WebReady
<1> QED BY <1>3, <1>4, <1>5, <1>6, SaverSteps

\* A complete buffer in the map has a signal coming, or lost one to the cap.
LEMMA WakeupStep ==
    ASSUME TypeOK, EntryOwned, PtrOwned, HeapOwned, NoLostWakeup, [Next]_vars
    PROVE  NoLostWakeup'
<1> USE SessionAssumption DEF requestVars, storeVars
<1>q. checkCh \in Seq(Ip)
  BY DEF TypeOK
<1>1. ASSUME NEW r \in Req, GetBuffer(r) PROVE NoLostWakeup'
  <2>1. /\ stage[r] = "idle" /\ stage' = [stage EXCEPT ![r] = "running"]
        /\ entry' = [entry EXCEPT ![ip[r]] = IF entry[ip[r]] = None THEN r
                                            ELSE entry[ip[r]]]
        /\ UNCHANGED <<ip, heap, checkCh, checking, skipped>>
    BY <1>1 DEF GetBuffer
  <2>2. Queued' = Queued
    BY <1>q, <2>1, QueuedFacts
  <2>3. Busy(r)' /\ \A q \in Req : Busy(q) => Busy(q)'
    BY <2>1 DEF Busy, TypeOK
  <2> SUFFICES ASSUME NEW i \in Ip, (entry[i] # None /\ BothReady(entry[i]))'
               PROVE  \/ i \in Queued' \/ checking' = i
                      \/ \E q \in Req : Busy(q)' /\ ip'[q] = i
                      \/ entry'[i] \in skipped'
    BY DEF NoLostWakeup
  <2>4. CASE i = ip[r]
    BY <2>1, <2>3, <2>4
  <2>5. CASE i # ip[r]
    <3>1. entry'[i] = entry[i]
      BY <2>1, <2>5 DEF TypeOK
    <3>2. BothReady(entry[i])
      BY <2>1, <3>1 DEF BothReady, HttpReady, WebReady
    <3> QED BY <2>1, <2>2, <2>3, <3>1, <3>2 DEF NoLostWakeup
  <2> QED BY <2>4, <2>5
<1>2. ASSUME NEW r \in Req, Write(r) PROVE NoLostWakeup'
  <2>1. /\ Busy(r) /\ UNCHANGED <<stage, ip, ptr, entry, checkCh, checking, skipped>>
    BY <1>2 DEF Write
  <2>2. /\ ptr[r] \in Req /\ ip[ptr[r]] = ip[r]
        /\ \A b \in Req : b # ptr[r] => heap'[b] = heap[b]
    BY <1>2, <2>1, WriteEffect DEF PtrOwned, Busy
  <2>3. Queued' = Queued /\ \A q \in Req : Busy(q)' <=> Busy(q)
    BY <1>q, <2>1, QueuedFacts DEF Busy
  <2> SUFFICES ASSUME NEW i \in Ip, entry[i] # None, BothReady(entry[i])'
               PROVE  \/ i \in Queued' \/ checking' = i
                      \/ \E q \in Req : Busy(q)' /\ ip'[q] = i
                      \/ entry[i] \in skipped'
    BY <2>1 DEF NoLostWakeup, BothReady, HttpReady, WebReady
  <2>4. entry[i] \in Req /\ ip[entry[i]] = i
    BY DEF EntryOwned, TypeOK
  <2>5. CASE entry[i] = ptr[r]
    BY <2>1, <2>2, <2>3, <2>4, <2>5
  <2>6. CASE entry[i] # ptr[r]
    <3>1. BothReady(entry[i])
      BY <2>1, <2>2, <2>4, <2>6 DEF BothReady, HttpReady, WebReady
    <3> QED BY <2>1, <2>3, <3>1 DEF NoLostWakeup
  <2> QED BY <2>5, <2>6
<1>3. ASSUME NEW r \in Req, SignalReady(r) PROVE NoLostWakeup'
  <2>1. /\ stage' = [stage EXCEPT ![r] = "done"] /\ ip[r] \in Ip
        /\ UNCHANGED <<ip, heap, entry, checking>>
    BY <1>3 DEF SignalReady, TypeOK
  <2>2. \/ Queued' = Queued \cup {ip[r]} /\ skipped' = skipped
        \/ Queued' = Queued /\ skipped' = skipped \cup ({entry[ip[r]]} \ {None})
    BY <1>3, <1>q, <2>1, QueuedFacts DEF SignalReady
  <2>3. \A q \in Req : q # r /\ Busy(q) => Busy(q)'
    BY <2>1 DEF Busy, TypeOK
  <2> SUFFICES ASSUME NEW i \in Ip, entry[i] # None, BothReady(entry[i])
               PROVE  \/ i \in Queued' \/ checking' = i
                      \/ \E q \in Req : Busy(q)' /\ ip'[q] = i
                      \/ entry[i] \in skipped'
    BY <2>1 DEF NoLostWakeup, BothReady, HttpReady, WebReady
  <2>4. CASE i = ip[r]
    BY <2>2, <2>4
  <2>5. CASE i # ip[r]
    BY <2>1, <2>2, <2>3, <2>5 DEF NoLostWakeup
  <2> QED BY <2>4, <2>5
<1>4. CASE TakeSignal
  <2>1. /\ checkCh # <<>> /\ checkCh' = Tail(checkCh) /\ checking' = Head(checkCh)
        /\ checking = None /\ UNCHANGED <<stage, ip, heap, entry, skipped>>
    BY <1>4 DEF TakeSignal
  <2>2. Queued = Queued' \cup {checking'}
    BY <1>q, <2>1, QueuedFacts
  <2> QED BY <2>1, <2>2 DEF NoLostWakeup, BothReady, HttpReady, WebReady, Busy
<1>5. CASE CheckAndSave
  <2>1. /\ checking \in Ip /\ checking' = None
        /\ UNCHANGED <<stage, ip, heap, checkCh, skipped>>
        /\ \/ /\ entry[checking] # None /\ BothReady(entry[checking])
              /\ entry' = [entry EXCEPT ![checking] = None]
           \/ /\ ~(entry[checking] # None /\ BothReady(entry[checking]))
              /\ entry' = entry
    BY <1>5 DEF CheckAndSave, TypeOK
  <2>2. Queued' = Queued
    BY <1>q, <2>1, QueuedFacts
  <2> SUFFICES ASSUME NEW i \in Ip, (entry[i] # None /\ BothReady(entry[i]))'
               PROVE  \/ i \in Queued'
                      \/ \E q \in Req : Busy(q)' /\ ip'[q] = i
                      \/ entry'[i] \in skipped'
    BY DEF NoLostWakeup
  <2>3. i # checking /\ entry'[i] = entry[i] /\ BothReady(entry[i])
    BY <2>1 DEF TypeOK, BothReady, HttpReady, WebReady
  <2> QED BY <2>1, <2>2, <2>3 DEF NoLostWakeup, Busy
<1>6. CASE Cleanup
  <2>1. /\ UNCHANGED <<stage, ip, heap, checkCh, checking, skipped>>
        /\ \A i \in Ip : entry'[i] # None => entry'[i] = entry[i]
    BY <1>6 DEF Cleanup
  <2>2. Queued' = Queued
    BY <1>q, <2>1, QueuedFacts
  <2> QED BY <2>1, <2>2 DEF NoLostWakeup, BothReady, HttpReady, WebReady, Busy
<1>7. CASE UNCHANGED <<stage, ip, heap, entry, checkCh, checking, skipped>>
  <2>1. Queued' = Queued
    BY <1>q, <1>7, QueuedFacts
  <2> QED BY <1>7, <2>1 DEF NoLostWakeup, BothReady, HttpReady, WebReady, Busy
<1>8. ASSUME NEW i \in Ip, Age(i)
      PROVE  UNCHANGED <<stage, ip, heap, entry, checkCh, checking, skipped>>
  BY <1>8, Zenon DEF Age
<1>9. ASSUME NEW g \in savers, ReadIps(g) \/ InsertRow(g)
      PROVE  UNCHANGED <<stage, ip, heap, entry, checkCh, checking, skipped>>
  BY <1>9, Zenon DEF ReadIps, InsertRow
<1>10. CASE UNCHANGED vars
  BY <1>7, <1>10 DEF vars
<1> QED BY <1>1, <1>2, <1>3, <1>4, <1>5, <1>6, <1>7, <1>8, <1>9, <1>10
        DEF Next, Handler

-----------------------------------------------------------------------------

\* The invariant holds initially: no buffer, no signal, no row.
LEMMA InitIInv == Init => IInv
<1> SUFFICES ASSUME Init PROVE IInv
  OBVIOUS
<1> USE SessionAssumption DEF Init
<1>1. TypeOK
  BY DEF TypeOK, Blank
<1>2. EntryOwned /\ PtrOwned
  BY DEF EntryOwned, PtrOwned
<1>3. HeapOwned
  BY DEF HeapOwned, Blank
<1>4. SaverOwned /\ SavedReady
  BY DEF SaverOwned, SavedReady, RowOfOneClient, RowComplete
<1>5. WrittenFirst
  BY DEF WrittenFirst, HttpReady, WebReady, Blank, Field
<1>6. NoLostWakeup
  BY DEF NoLostWakeup
<1> QED BY <1>1, <1>2, <1>3, <1>4, <1>5, <1>6 DEF IInv

\* IInv is an invariant of the specification.
THEOREM Invariance == Spec => []IInv
<1>1. IInv /\ [Next]_vars => IInv'
  BY TypeStep, OwnedStep, SaverStep, WrittenStep, SavedStep, WakeupStep DEF IInv
<1> QED BY InitIInv, <1>1, PTL DEF Spec

\* All variables keep their types; the channel never exceeds its capacity.
THEOREM TypeCorrect == Spec => []TypeOK
<1>1. IInv => TypeOK
  BY DEF IInv
<1> QED BY Invariance, <1>1, PTL

\* checkLoop and cleanup never save one buffer twice.
THEOREM SavedAtMostOnce == Spec => []SavedOnce
<1>1. IInv => SavedOnce
  <2> SUFFICES ASSUME IInv, NEW b \in Req, NEW i \in Ip
               PROVE  saves[b] <= 1 /\ (saves[b] = 1 => entry[i] # b)
    BY DEF SavedOnce, IInv, HeapOwned
  <2>1. saves[b] <= 1
    BY DEF IInv, HeapOwned
  <2>2. entry[i] = b => saves[b] = 0
    BY SessionAssumption DEF IInv, EntryOwned
  <2> QED BY <2>1, <2>2
<1> QED BY Invariance, <1>1, PTL

\* Rows never mix clients, whatever stale pointers handlers write through.
THEOREM RowsKeepClientsApart == Spec => []RowOfOneClient
<1>1. IInv => RowOfOneClient
  BY DEF IInv, SaverOwned
<1> QED BY Invariance, <1>1, PTL

\* Rows carry the data their buffer's flags announced.
THEOREM RowsAreComplete == Spec => []RowComplete
<1>1. IInv => RowComplete
  BY DEF IInv, SavedReady
<1> QED BY Invariance, <1>1, PTL

\* A complete buffer is forgotten only if a full channel dropped its signal.
THEOREM WakeupsAreKept == Spec => []NoLostWakeup
<1>1. IInv => NoLostWakeup
  BY DEF IInv
<1> QED BY Invariance, <1>1, PTL
=============================================================================
