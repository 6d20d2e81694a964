--------------------------- MODULE SessionManager ---------------------------
(***************************************************************************)
(* The SessionManager of alert_server merges what one visitor's browser    *)
(* sends over three channels (POST /info, POST /ips, the /ws latency       *)
(* probe) into one DeviceFingerprint row per client address.               *)
(*                                                                         *)
(* A handler takes a pointer to the address's buffer under the lock and    *)
(* writes through it without the lock, so it may still be writing when     *)
(* checkLoop or cleanup has removed the buffer.  A buffer is named after   *)
(* the request that created it; a field holds the request that wrote it    *)
(* last, a flag is up when its field is not None.  The unlocked writes     *)
(* become visible in program order, as they do on the amd64 targets the    *)
(* project builds for.                                                     *)
(***************************************************************************)
EXTENDS Naturals, Sequences

CONSTANTS Req,         \* requests of the three kinds (bounds the traffic)
          Ip,          \* client addresses
          ChannelCap,  \* capacity of checkCh (1000 in the code)
          Prompt,      \* TRUE: no 30 s pass inside a handler or for a signal
          None

ASSUME SessionAssumption ==
    /\ ChannelCap \in Nat \ {0} /\ Prompt \in BOOLEAN
    /\ None \notin Req /\ None \notin Ip

VARIABLES
    stage,     \* a request's handler: idle, running, done
    pc,        \* how many of its writes it has done
    kind, ip,  \* what the request is and where it comes from
    ptr,       \* the *BufferData a handler holds
    heap,      \* every buffer ever made, in the map or not
    entry,     \* sm.buffers
    idle,      \* now - LastTouch: 0 fresh, 1 over 30 s, 2 over sm.timeout
    checkCh,   \* sm.checkCh
    checking,  \* the address checkLoop has received and not yet checked
    savers,    \* the saveToDB goroutines
    rows,      \* the device_fingerprints table
    saves,     \* history: how often a buffer was given to saveToDB
    skipped,   \* history: buffers whose address lost a signal
    discarded  \* history: buffers cleanup removed without saving them

requestVars == <<stage, pc, kind, ip, ptr>>
storeVars   == <<rows, saves, skipped, discarded>>
vars == <<requestVars, heap, entry, idle, checkCh, checking, savers, storeVars>>

Kind  == {"info", "ips", "ws"}
Field == {"token", "details", "http", "agent", "ips", "web", "rtt", "ws"}
Blank == [f \in Field |-> None]

\* Deviation: the flag goes up before the data is there.
WritesFlagFirst(k) == CASE k = "info" -> <<"http", "token", "details", "agent">>
                        [] k = "ips"  -> <<"ips", "web">>
                        [] k = "ws"   -> <<"rtt", "ws">>

\* The writes of each handler, in its order.
Writes(k) == CASE k = "info" -> <<"token", "details", "http", "agent">>
               [] k = "ips"  -> <<"ips", "web">>
               [] k = "ws"   -> <<"rtt", "ws">>

Queued  == {checkCh[n] : n \in DOMAIN checkCh}
Busy(r) == stage[r] = "running"

HttpReady(b) == heap[b]["http"] # None
WebReady(b)  == heap[b]["web"] # None
BothReady(b) == HttpReady(b) /\ WebReady(b)

SaverType == [buf : Req, ip : Ip, full : BOOLEAN,
              ips : Req \cup {None, "unread"}]
RowType   == [ip : Ip, full : BOOLEAN, token : Req \cup {None},
              details : Req \cup {None}, agent : Req \cup {None},
              ips : Req \cup {None}]

TypeOK ==
    /\ stage \in [Req -> {"idle", "running", "done"}] /\ pc \in [Req -> 0..4]
    /\ kind \in [Req -> Kind] /\ ip \in [Req -> Ip]
    /\ ptr \in [Req -> Req \cup {None}]
    /\ heap \in [Req -> [Field -> Req \cup {None}]]
    /\ entry \in [Ip -> Req \cup {None}] /\ idle \in [Ip -> 0..2]
    /\ checkCh \in Seq(Ip) /\ Len(checkCh) <= ChannelCap
    /\ checking \in Ip \cup {None}
    /\ savers \subseteq SaverType /\ rows \subseteq RowType
    /\ saves \in [Req -> Nat]
    /\ skipped \subseteq Req /\ discarded \subseteq Req

\* Each request's kind and address are whatever the visitor sends.
Init ==
    /\ stage = [r \in Req |-> "idle"] /\ pc = [r \in Req |-> 0]
    /\ kind \in [Req -> Kind] /\ ip \in [Req -> Ip]
    /\ ptr = [r \in Req |-> None]
    /\ heap = [r \in Req |-> Blank]
    /\ entry = [i \in Ip |-> None] /\ idle = [i \in Ip |-> 0]
    /\ checkCh = <<>> /\ checking = None
    /\ savers = {} /\ rows = {}
    /\ saves = [r \in Req |-> 0] /\ skipped = {} /\ discarded = {}

-----------------------------------------------------------------------------
(* FingerprintInfoHandler, IPSHandler, WSHandler                            *)

\* GetBuffer, under the lock: the buffer of the address, made if missing.
GetBuffer(r) ==
    /\ stage[r] = "idle"
    /\ stage' = [stage EXCEPT ![r] = "running"]
    /\ LET i == ip[r]
           b == IF entry[i] = None THEN r ELSE entry[i]
       IN /\ entry' = [entry EXCEPT ![i] = b]
          /\ idle' = [idle EXCEPT ![i] = 0]
          /\ ptr' = [ptr EXCEPT ![r] = b]
    /\ UNCHANGED <<pc, kind, ip, heap, checkCh, checking, savers, storeVars>>

\* The next write through the pointer, without the lock.
Write(r) ==
    /\ Busy(r) /\ pc[r] < Len(Writes(kind[r]))
    /\ pc' = [pc EXCEPT ![r] = @ + 1]
    /\ heap' = [heap EXCEPT ![ptr[r]][Writes(kind[r])[pc[r] + 1]] = r]
    /\ UNCHANGED <<stage, kind, ip, ptr, entry, idle, checkCh, checking, savers,
                   storeVars>>

\* Deviation: the send does not care for the capacity.
SignalUnbounded(r) ==
    /\ Busy(r) /\ pc[r] = Len(Writes(kind[r]))
    /\ stage' = [stage EXCEPT ![r] = "done"]
    /\ checkCh' = Append(checkCh, ip[r])
    /\ UNCHANGED <<pc, kind, ip, ptr, heap, entry, idle, checking, savers,
                   storeVars>>

\* Deviation: the fingerprint handler counts on the WebRTC one to signal.
SignalByOthers(r) ==
    /\ Busy(r) /\ pc[r] = Len(Writes(kind[r]))
    /\ stage' = [stage EXCEPT ![r] = "done"]
    /\ \/ kind[r] = "info" /\ UNCHANGED <<checkCh, skipped>>
       \/ /\ kind[r] # "info" /\ Len(checkCh) < ChannelCap
          /\ checkCh' = Append(checkCh, ip[r]) /\ UNCHANGED skipped
       \/ /\ kind[r] # "info" /\ Len(checkCh) = ChannelCap
          /\ skipped' = skipped \cup ({entry[ip[r]]} \ {None}) /\ UNCHANGED checkCh
    /\ UNCHANGED <<pc, kind, ip, ptr, heap, entry, idle, checking, savers, rows,
                   saves, discarded>>

\* SignalReady: a send that never blocks; into a full channel it is skipped.
SignalReady(r) ==
    /\ Busy(r) /\ pc[r] = Len(Writes(kind[r]))
    /\ stage' = [stage EXCEPT ![r] = "done"]
    /\ \/ /\ Len(checkCh) < ChannelCap
          /\ checkCh' = Append(checkCh, ip[r])
          /\ UNCHANGED skipped
       \/ /\ Len(checkCh) = ChannelCap
          /\ skipped' = skipped \cup ({entry[ip[r]]} \ {None})
          /\ UNCHANGED checkCh
    /\ UNCHANGED <<pc, kind, ip, ptr, heap, entry, idle, checking, savers, rows,
                   saves, discarded>>

-----------------------------------------------------------------------------
(* checkLoop                                                               *)

TakeSignal ==
    /\ checking = None /\ checkCh # <<>>
    /\ checking' = Head(checkCh)
    /\ checkCh' = Tail(checkCh)
    /\ UNCHANGED <<requestVars, heap, entry, idle, savers, storeVars>>

Saver(i, full) == [buf |-> entry[i], ip |-> i, full |-> full, ips |-> "unread"]

\* Deviation: the buffer is saved and stays in the map.
CheckAndKeep ==
    /\ checking # None
    /\ checking' = None
    /\ LET i == checking IN
         IF entry[i] # None /\ BothReady(entry[i])
         THEN /\ savers' = savers \cup {Saver(i, TRUE)}
              /\ saves' = [saves EXCEPT ![entry[i]] = @ + 1]
         ELSE UNCHANGED <<savers, saves>>
    /\ UNCHANGED <<requestVars, heap, entry, idle, checkCh, rows, skipped,
                   discarded>>

\* checkAndSave, under the lock: with HTTP and WebRTC ready, whatever the
\* WebSocket probe has sent, the buffer leaves the map and a goroutine saves it.
CheckAndSave ==
    /\ checking # None
    /\ checking' = None
    /\ LET i == checking IN
         IF entry[i] # None /\ BothReady(entry[i])
         THEN /\ entry' = [entry EXCEPT ![i] = None]
              /\ savers' = savers \cup {Saver(i, TRUE)}
              /\ saves' = [saves EXCEPT ![entry[i]] = @ + 1]
         ELSE UNCHANGED <<entry, savers, saves>>
    /\ UNCHANGED <<requestVars, heap, idle, checkCh, rows, skipped, discarded>>

-----------------------------------------------------------------------------
(* cleanupLoop                                                             *)

\* Addresses whose buffer cleanup saves without WebRTC data ...
Fallback == {i \in Ip : /\ entry[i] # None
                        /\ HttpReady(entry[i]) /\ ~WebReady(entry[i])
                        /\ idle[i] >= 1}
\* ... and those whose buffer it throws away.
Expired  == {i \in Ip \ Fallback : entry[i] # None /\ idle[i] = 2}

\* Deviation: the goroutines share the loop variable.
CleanupSharesLoopVariable ==
    /\ entry' = [i \in Ip |-> IF i \in Fallback \cup Expired THEN None ELSE entry[i]]
    /\ \E j \in Ip : savers' = savers \cup {[Saver(i, FALSE) EXCEPT !.ip = j] :
                                               i \in Fallback}
    /\ saves' = [b \in Req |-> IF \E i \in Fallback : entry[i] = b
                               THEN saves[b] + 1 ELSE saves[b]]
    /\ discarded' = discarded \cup {entry[i] : i \in Expired}
    /\ UNCHANGED <<requestVars, heap, idle, checkCh, checking, rows, skipped>>

\* Deviation: nothing is thrown away.
CleanupNeverDiscards ==
    /\ entry' = [i \in Ip |-> IF i \in Fallback THEN None ELSE entry[i]]
    /\ savers' = savers \cup {Saver(i, FALSE) : i \in Fallback}
    /\ saves' = [b \in Req |-> IF \E i \in Fallback : entry[i] = b
                               THEN saves[b] + 1 ELSE saves[b]]
    /\ UNCHANGED <<requestVars, heap, idle, checkCh, checking, rows, skipped,
                   discarded>>

\* cleanup, one pass over the map under the lock.
Cleanup ==
    /\ entry' = [i \in Ip |-> IF i \in Fallback \cup Expired THEN None ELSE entry[i]]
    /\ savers' = savers \cup {Saver(i, FALSE) : i \in Fallback}
    /\ saves' = [b \in Req |-> IF \E i \in Fallback : entry[i] = b
                               THEN saves[b] + 1 ELSE saves[b]]
    /\ discarded' = discarded \cup {entry[i] : i \in Expired}
    /\ UNCHANGED <<requestVars, heap, idle, checkCh, checking, rows, skipped>>

\* LastTouch falls behind a limit.
Age(i) ==
    /\ entry[i] # None /\ idle[i] < 2
    /\ Prompt => /\ i \notin Queued /\ checking # i
                 /\ \A r \in Req : Busy(r) => ip[r] # i
    /\ idle' = [idle EXCEPT ![i] = @ + 1]
    /\ UNCHANGED <<requestVars, heap, entry, checkCh, checking, savers, storeVars>>

-----------------------------------------------------------------------------
(* saveToDB, in a goroutine without the lock                               *)

\* The WebRTC addresses are read first, for the JSON and the proxy verdict.
ReadIps(g) ==
    /\ g.ips = "unread"
    /\ savers' = (savers \ {g}) \cup {[g EXCEPT !.ips = heap[g.buf]["ips"]]}
    /\ UNCHANGED <<requestVars, heap, entry, idle, checkCh, checking, storeVars>>

\* Then the record is built and inserted; a failed insert is only logged.
InsertRow(g) ==
    /\ g.ips # "unread"
    /\ savers' = savers \ {g}
    /\ \/ rows' = rows \cup {[ip |-> g.ip, full |-> g.full, ips |-> g.ips,
                              token |-> heap[g.buf]["token"],
                              details |-> heap[g.buf]["details"],
                              agent |-> heap[g.buf]["agent"]]}
       \/ UNCHANGED rows
    /\ UNCHANGED <<requestVars, heap, entry, idle, checkCh, checking, saves,
                   skipped, discarded>>

-----------------------------------------------------------------------------

Handler(r) == GetBuffer(r) \/ Write(r) \/ SignalReady(r)

Next == \/ \E r \in Req : Handler(r)
        \/ TakeSignal \/ CheckAndSave
        \/ Cleanup \/ \E i \in Ip : Age(i)
        \/ \E g \in savers : ReadIps(g) \/ InsertRow(g)

Spec == Init /\ [][Next]_vars

-----------------------------------------------------------------------------
(* Safety.                                                                 *)

\* checkLoop and cleanup both remove buffers and start saveToDB: a buffer is
\* saved by at most one of them, and not while it is still in the map.
SavedOnce ==
    \A b \in Req : /\ saves[b] <= 1
                   /\ saves[b] = 1 => \A i \in Ip : entry[i] # b

\* A row holds data of the client it names only, also when handlers go on
\* writing through a pointer to a buffer that left the map long ago.
RowOfOneClient ==
    \A row \in rows : \A f \in {"token", "details", "agent", "ips"} :
        row[f] # None => ip[row[f]] = row.ip

\* A row has a fingerprint and its session token, and one that did not come
\* from the fallback has the WebRTC addresses: the handlers write the data
\* before the flag (FingerprintInfoHandler, IPSHandler, checkAndSave).
RowComplete ==
    \A row \in rows : /\ row.token # None /\ row.details # None
                      /\ row.full => row.ips # None

\* No wake-up is lost: while a complete buffer waits in the map, a signal for
\* it is queued or being handled, or a handler is about to send one, or the
\* full channel swallowed one (SignalReady, checkLoop).
NoLostWakeup ==
    \A i \in Ip : entry[i] # None /\ BothReady(entry[i]) =>
        \/ i \in Queued \/ checking = i
        \/ \E r \in Req : Busy(r) /\ ip[r] = i
        \/ entry[i] \in skipped

-----------------------------------------------------------------------------
(* Liveness.  Handlers, both loops and the ticker go on; time passes.      *)

Fairness ==
    /\ \A r \in Req : WF_vars(Write(r) \/ SignalReady(r))
    /\ WF_vars(TakeSignal) /\ WF_vars(CheckAndSave) /\ WF_vars(Cleanup)
    /\ \A i \in Ip : WF_vars(Age(i))

FairSpec == Spec /\ Fairness

\* The map does not grow for ever: when an address falls silent its buffer is
\* saved or discarded (cleanup).
EntriesLeave == \A i \in Ip : entry[i] # None ~> entry[i] = None

\* A buffer that is complete by what checkAndSave tests (HTTP and WebRTC) and
\* whose signals got through is given to saveToDB, unless the process sleeps
\* through its timeout (Prompt).
CompleteIsSaved ==
    \A i \in Ip, b \in Req :
        entry[i] = b /\ BothReady(b) ~> saves[b] = 1 \/ b \in skipped

-----------------------------------------------------------------------------
(* What the comments in session.go say and the code does not do.           *)

\* "the channel is full: skip, the next cleanup will handle it" (SignalReady):
\* cleanup never throws away a buffer that is complete.
CleanupHandlesSkipped ==
    [][\A b \in discarded' \ discarded : ~BothReady(b)]_vars

\* "check whether the data of all three channels is ready" (checkAndSave): what
\* it hands to saveToDB has the WebSocket probe's data, too.
AllThreeReady ==
    [][\A g \in savers' \ savers : g.full /\ g.ips = "unread"
                                      => heap[g.buf]["ws"] # None]_vars
=============================================================================
