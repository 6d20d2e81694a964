--------------------------- MODULE AccessObserver ---------------------------
(***************************************************************************)
(* observe_access.py copies the lines of nginx's observation log into the  *)
(* table web_access_observations.  It reads LOG.1 and then LOG, commits a  *)
(* batch of rows, and then writes a checkpoint: for each inode the offset  *)
(* up to which the file has been read.  nginx appends, logrotate renames,  *)
(* and the observer or its database fails at any point.                    *)
(*                                                                         *)
(* Offsets are counted in lines; an incomplete final line is less than a   *)
(* line.  A file that logrotate has removed may leave its inode to a new   *)
(* one (Reuse), as the usual file systems do.  The checkpoint keeps the    *)
(* MaxKept inodes that entered it last.  The hourly pruning of old rows    *)
(* (retain) is left out: table is what was ever inserted.                  *)
(***************************************************************************)
EXTENDS Naturals, Sequences

CONSTANTS MaxFiles,   \* files nginx ever writes (bounds the rotations)
          MaxLines,   \* lines per file
          Limit,      \* lines read_batch takes at most (250 in the code)
          MaxKept,    \* inodes the checkpoint keeps (32 in the code)
          Inode,      \* inode numbers
          Reuse,      \* TRUE: a new file may get the inode of a removed one
          MaxFaults   \* bound on failures of the observer and its database

ASSUME ObserverAssumption ==
    /\ MaxFiles \in Nat \ {0} /\ MaxLines \in Nat /\ Limit \in Nat \ {0}
    /\ MaxKept \in Nat \ {0, 1} /\ MaxFaults \in Nat /\ Reuse \in BOOLEAN /\ Inode # {}

File == 1..MaxFiles
None == 0

VARIABLES
    \* nginx and logrotate
    lines,    \* the complete lines of each file; some are malformed, or
              \* longer than the 65537 bytes readline takes
    part,     \* the file ends with an incomplete line
    inode,    \* of the files up to last
    last,     \* the newest file: LOG; the one before it is LOG.1
    writer,   \* the file nginx has open
    \* the observer
    pc,       \* where main is
    path,     \* the file name main is at: "prev" is LOG.1, "cur" is LOG
    batch,    \* what read_batch returned, until it is saved
    state,    \* offsets in memory, 0 for an inode that is not kept
    keys,     \* the inodes state keeps, in the order they entered it
    saved,    \* STATE, the checkpoint on disk, ...
    savedKeys, \* ... and the inodes it keeps
    table,    \* web_access_observations: the lines, by file and number
    faults

logVars == <<lines, part, inode, last, writer>>
memVars == <<state, keys>>
diskVars == <<saved, savedKeys>>
vars == <<logVars, pc, path, batch, memVars, diskVars, table, faults>>

Line   == {"ok", "bad", "long"}
Offset == 0..MaxLines
Batch == [file : File, from : Offset, offset : Offset]
NoBatch == [file |-> 1, from |-> 0, offset |-> 0]

Log(n) == IF n = "cur" THEN last ELSE last - 1
OnDisk == {last, last - 1} \ {None}

IsRow(f, p) == p \in DOMAIN lines[f] /\ lines[f][p] = "ok"

\* The rows read_batch makes of the lines of f after a up to b: normalize
\* rejects the malformed ones, which do not hold up the others.
Rows(f, a, b) == {<<f, p>> : p \in {q \in (a + 1)..b : IsRow(f, q)}}

TypeOK ==
    /\ lines \in [File -> Seq(Line)] /\ part \in [File -> BOOLEAN]
    /\ inode \in [File -> Inode]
    /\ last \in File /\ writer \in OnDisk
    /\ pc \in {"down", "sleep", "read", "commit", "save"}
    /\ path \in {"prev", "cur"}
    /\ batch \in Batch
    /\ state \in [Inode -> Offset] /\ saved \in [Inode -> Offset]
    /\ keys \in Seq(Inode) /\ savedKeys \in Seq(Inode)
    /\ table \subseteq File \X Nat
    /\ faults \in 0..MaxFaults

Init ==
    /\ lines = [f \in File |-> <<>>] /\ part = [f \in File |-> FALSE]
    /\ \E i \in Inode : inode = [f \in File |-> i]
    /\ last = 1 /\ writer = 1
    /\ pc = "sleep" /\ path = "prev" /\ batch = NoBatch
    /\ state = [i \in Inode |-> 0] /\ saved = [i \in Inode |-> 0]
    /\ keys = <<>> /\ savedKeys = <<>>
    /\ table = {} /\ faults = 0

OneFault == faults < MaxFaults /\ faults' = faults + 1

-----------------------------------------------------------------------------
(* nginx and logrotate (rename, create, delaycompress)                      *)

\* A line reaches the file in two writes ...
WriteBegin ==
    /\ ~part[writer] /\ Len(lines[writer]) < MaxLines
    /\ part' = [part EXCEPT ![writer] = TRUE]
    /\ UNCHANGED <<lines, inode, last, writer, pc, path, batch, memVars, diskVars,
                   table, faults>>

\* ... of which the second completes it.
WriteEnd ==
    /\ part[writer]
    /\ part' = [part EXCEPT ![writer] = FALSE]
    /\ \E k \in Line :
          lines' = [lines EXCEPT ![writer] = Append(@, k)]
    /\ UNCHANGED <<inode, last, writer, pc, path, batch, memVars, diskVars, table,
                   faults>>

\* LOG becomes LOG.1, which is gone; nginx still writes to the renamed file.
Rotate ==
    /\ writer = last /\ last < MaxFiles
    /\ last' = last + 1
    /\ \E i \in Inode :
          /\ i # inode[last]
          /\ Reuse \/ \A f \in 1..last : i # inode[f]
          /\ inode' = [inode EXCEPT ![last + 1] = i]
    /\ UNCHANGED <<lines, part, writer, pc, path, batch, memVars, diskVars,
                   table, faults>>

\* The signal makes nginx open the new LOG.
Reopen ==
    /\ writer # last /\ ~part[writer]
    /\ writer' = last
    /\ UNCHANGED <<lines, part, inode, last, pc, path, batch, memVars, diskVars, table,
                   faults>>

-----------------------------------------------------------------------------
(* main                                                                    *)

\* The database accepts the connection.
Connect ==
    /\ pc = "sleep"
    /\ pc' = "read"
    /\ UNCHANGED <<logVars, path, batch, memVars, diskVars, table, faults>>

\* The next file name, or the end of the round.
NextPath == IF path = "prev" THEN pc' = "read" /\ path' = "cur"
                             ELSE pc' = "sleep" /\ path' = "prev"

\* The round is over before its end; what it had read is gone.
Leave(to) == pc' = to /\ path' = "prev" /\ batch' = NoBatch

\* Where the next batch of f begins: at the offset of the file's inode, or at
\* the start when the file is shorter than that.
From(f) == IF state[inode[f]] > Len(lines[f]) THEN 0 ELSE state[inode[f]]

\* A batch from a ends at b: after Limit lines, at the end of the file, or
\* before a line readline cuts off, which looks incomplete for good.
Ends(f, a, b) ==
    /\ a <= b /\ b <= a + Limit /\ b <= Len(lines[f])
    /\ \A p \in DOMAIN lines[f] : a < p /\ p <= b => lines[f][p] # "long"
    /\ \/ b = a + Limit \/ b = Len(lines[f])
       \/ b < Len(lines[f]) /\ lines[f][b + 1] = "long"

\* Deviation: an incomplete final line is taken for a malformed one.
ReadPartial ==
    /\ pc = "read" /\ Log(path) # None
    /\ LET f == Log(path) IN
         \E b \in Offset :
            /\ Ends(f, From(f), b)
            /\ batch' = [file |-> f, from |-> From(f),
                         offset |-> IF b = Len(lines[f]) /\ part[f] THEN b + 1 ELSE b]
    /\ pc' = "commit"
    /\ UNCHANGED <<logVars, path, memVars, diskVars, table, faults>>

\* Deviation: a batch that comes back empty ends the reading of the file.
ReadStopsAtMalformed ==
    /\ pc = "read" /\ Log(path) # None
    /\ LET f == Log(path) IN
         \E b \in Offset :
            /\ Ends(f, From(f), b)
            /\ batch' = [file |-> f, from |-> From(f),
                         offset |-> IF Rows(f, From(f), b) = {} THEN From(f) ELSE b]
    /\ pc' = "commit"
    /\ UNCHANGED <<logVars, path, memVars, diskVars, table, faults>>

\* Deviation: the offset moves by a whole batch, whatever was there to read.
ReadOverEnd ==
    /\ pc = "read" /\ Log(path) # None
    /\ LET f == Log(path)
       IN batch' = [file |-> f, from |-> From(f), offset |-> From(f) + Limit]
    /\ pc' = "commit"
    /\ UNCHANGED <<logVars, path, memVars, diskVars, table, faults>>

\* read_batch.
ReadBatch ==
    /\ pc = "read" /\ Log(path) # None
    /\ LET f == Log(path) IN
         \E b \in Offset : /\ Ends(f, From(f), b)
                           /\ batch' = [file |-> f, from |-> From(f), offset |-> b]
    /\ pc' = "commit"
    /\ UNCHANGED <<logVars, path, memVars, diskVars, table, faults>>

\* There is no LOG.1 before the first rotation.
SkipPath ==
    /\ pc = "read" /\ Log(path) = None
    /\ NextPath
    /\ UNCHANGED <<logVars, batch, memVars, diskVars, table, faults>>

Known(i) == \E n \in DOMAIN keys : keys[n] = i

\* The checkpoint would change.
Moved == \/ ~Known(inode[batch.file])
         \/ state[inode[batch.file]] # batch.offset

Newest(s) == IF Len(s) <= MaxKept THEN s
             ELSE SubSeq(s, Len(s) - MaxKept + 1, Len(s))

\* The offset moves in memory; an inode that is new may push one out, whose
\* file is read from the start if it is still there.
MoveOffset ==
    LET i == inode[batch.file]
    IN /\ keys' = IF Known(i) THEN keys ELSE Newest(Append(keys, i))
       /\ state' = [j \in Inode |-> IF j = i THEN batch.offset
                                    ELSE IF \E n \in DOMAIN keys' : keys'[n] = j
                                         THEN state[j] ELSE 0]

\* Deviation: the checkpoint is advanced before the commit.
CommitAfterState ==
    /\ pc = "commit"
    /\ pc' = "save"
    /\ MoveOffset /\ saved' = state' /\ savedKeys' = keys'
    /\ UNCHANGED <<logVars, path, batch, table, faults>>

\* executemany(INSERT) and conn.commit(); ON CONFLICT DO NOTHING.
CommitBatch ==
    /\ pc = "commit"
    /\ pc' = "save"
    /\ table' = table \cup Rows(batch.file, batch.from, batch.offset)
    /\ UNCHANGED <<logVars, path, batch, memVars, diskVars, faults>>

\* The offset moves in memory, then the checkpoint file is replaced.
SaveState ==
    /\ pc = "save"
    /\ \/ Moved /\ MoveOffset /\ saved' = state' /\ savedKeys' = keys'
       \/ ~Moved /\ UNCHANGED <<memVars, diskVars>>
    /\ NextPath /\ batch' = NoBatch
    /\ UNCHANGED <<logVars, table, faults>>

\* The checkpoint cannot be written: the offset has moved in memory only.
SaveFails ==
    /\ pc = "save" /\ OneFault
    /\ Moved /\ MoveOffset
    /\ Leave("sleep")
    /\ UNCHANGED <<logVars, diskVars, table>>

\* Any other exception rolls back what is not committed; main tries again.
RoundFails ==
    /\ pc \in {"read", "commit"} /\ OneFault
    /\ Leave("sleep")
    /\ UNCHANGED <<logVars, memVars, diskVars, table>>

\* The process ends at any point ...
Crash ==
    /\ pc # "down" /\ OneFault
    /\ Leave("down")
    /\ state' = [i \in Inode |-> 0] /\ keys' = <<>>
    /\ UNCHANGED <<logVars, diskVars, table>>

\* ... and systemd starts it again (honeypot-web-observer.service).
Restart ==
    /\ pc = "down"
    /\ pc' = "sleep"
    /\ state' = saved /\ keys' = savedKeys
    /\ UNCHANGED <<logVars, path, batch, diskVars, table, faults>>

-----------------------------------------------------------------------------

Environment == WriteBegin \/ WriteEnd \/ Rotate \/ Reopen
Observer == Connect \/ ReadBatch \/ SkipPath \/ CommitBatch \/ SaveState \/ Restart
Fault == SaveFails \/ RoundFails \/ Crash

Next == Environment \/ Observer \/ Fault

Spec == Init /\ [][Next]_vars

\* systemd and the loop keep the observer going; the visitors, logrotate and
\* the faults owe nothing, but nginx finishes a line and reopens its log.
ObserverFairness == WF_vars(Observer) /\ WF_vars(WriteEnd) /\ WF_vars(Reopen)

FairSpec == Spec /\ ObserverFairness

-----------------------------------------------------------------------------

\* "commit-before-checkpoint": whatever fails, every well-formed line of a log
\* on disk that the checkpoint says was read is in the table.
CommitBeforeCheckpoint ==
    \A f \in OnDisk :
        LET at == saved[inode[f]]
        IN at <= Len(lines[f]) => Rows(f, 0, at) \subseteq table

\* The rows of a file have no gap: a line arrives only after the lines before
\* it, also across batches, retries and restarts (read_batch, main).
NoGaps ==
    \A f \in File, p \in 1..MaxLines :
        <<f, p>> \in table => Rows(f, 0, p) \subseteq table

\* A complete line reaches the table unless its file is rotated away before
\* the observer gets to it, or an over-long line stands before it in the file;
\* malformed lines, and inodes the checkpoint forgets, do not stop it.
LinesArrive ==
    \A f \in File, p \in 1..MaxLines :
        IsRow(f, p) ~> \/ <<f, p>> \in table \/ f \notin OnDisk
                       \/ \E q \in DOMAIN lines[f] : q < p /\ lines[f][q] = "long"
=============================================================================
