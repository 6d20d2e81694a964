------------------------ MODULE AccessObserverProofs ------------------------
(***************************************************************************)
(* Safety of the access observer for any number of files, lines, faults    *)
(* and any batch size: the offsets never pass what is in the table, and    *)
(* the rows of a file have no gap.  Both need that no two files ever have  *)
(* the same inode number (Reuse = FALSE); AccessObserverReuse.cfg shows    *)
(* what happens otherwise.  An offset the checkpoint forgets is 0 again,   *)
(* which is behind what is in the table like any other.                    *)
(***************************************************************************)
EXTENDS AccessObserver, TLAPS

\* The rows of the first b lines of f are in the table.
Done(f, b) == \A q \in 1..b : IsRow(f, q) => <<f, q>> \in table

\* A file is as long as nginx may make it, the line in progress included.
Bounded == \A f \in File :
    Len(lines[f]) <= MaxLines /\ (part[f] => Len(lines[f]) < MaxLines)

\* No two files have the same inode number.
Distinct == \A f, g \in 1..last : inode[f] = inode[g] => f = g

\* No offset is kept for an inode number before a file has it.
Unused == \A i \in Inode :
    (\A f \in 1..last : inode[f] # i) => state[i] = 0 /\ saved[i] = 0

\* Offsets point into their file, at lines whose rows are in the table.
Covered == \A f \in 1..last :
    /\ state[inode[f]] <= Len(lines[f]) /\ Done(f, state[inode[f]])
    /\ saved[inode[f]] <= Len(lines[f]) /\ Done(f, saved[inode[f]])

\* A batch starts where the table's rows end; committed, they reach its end.
InBatch == pc \in {"commit", "save"} =>
    /\ batch.file \in 1..last
    /\ batch.from <= batch.offset /\ batch.offset <= Len(lines[batch.file])
    /\ Done(batch.file, batch.from)
    /\ pc = "save" => Done(batch.file, batch.offset)

\* A row of the table is a well-formed line of its file.
TableRows == \A f \in File, p \in Nat : <<f, p>> \in table => IsRow(f, p)

\* The rows of a file have no gap.
Gapless == \A f \in File, p \in Nat : <<f, p>> \in table => Done(f, p)

IInv == /\ TypeOK /\ Bounded /\ Distinct /\ Unused /\ Covered /\ InBatch
        /\ TableRows /\ Gapless

-----------------------------------------------------------------------------

\* Rows and Done speak of the same lines.
LEMMA RowsDone ==
    ASSUME NEW f, NEW b \in Nat
    PROVE  Rows(f, 0, b) \subseteq table <=> Done(f, b)
BY DEF Rows, Done

\* The initial states.
LEMMA InitIInv == Init => IInv
<1> SUFFICES ASSUME Init PROVE IInv
  OBVIOUS
<1> USE ObserverAssumption
<1>1. TypeOK
  BY DEF Init, TypeOK, File, OnDisk, None, Offset, Batch, NoBatch
<1>2. Bounded
  BY DEF Init, Bounded, File
<1>3. Distinct /\ Unused
  BY DEF Init, Distinct, Unused
<1>4. Covered
  BY DEF Init, Covered, Done, File
<1>5. InBatch /\ TableRows /\ Gapless
  BY DEF Init, InBatch, TableRows, Gapless
<1> QED
  BY <1>1, <1>2, <1>3, <1>4, <1>5 DEF IInv

\* A line nginx completes leaves the rows of the lines before it as they were.
LEMMA LinesKept ==
    ASSUME IInv, WriteEnd
    PROVE  /\ \A f \in File : Len(lines'[f]) >= Len(lines[f])
           /\ \A f \in File, p \in Nat :
                 p <= Len(lines[f]) => (IsRow(f, p)' <=> IsRow(f, p))
           /\ \A f \in File, p \in Nat : IsRow(f, p) => IsRow(f, p)'
           /\ \A f \in File, b \in Nat : b <= Len(lines[f]) /\ Done(f, b) => Done(f, b)'
<1> USE DEF IInv, TypeOK
<1>0. writer \in File
  BY ObserverAssumption DEF OnDisk, None, File
<1>1. PICK k \in Line : lines' = [lines EXCEPT ![writer] = Append(@, k)]
  BY DEF WriteEnd, memVars, diskVars
<1>2. table' = table
  BY DEF WriteEnd, memVars, diskVars
<1>3. ASSUME NEW f \in File
      PROVE  /\ Len(lines'[f]) >= Len(lines[f]) /\ Len(lines[f]) \in Nat
             /\ DOMAIN lines[f] = 1..Len(lines[f])
             /\ DOMAIN lines'[f] = 1..Len(lines'[f])
             /\ \A p \in 1..Len(lines[f]) : lines'[f][p] = lines[f][p]
  <2>0. lines[f] \in Seq(Line)
    OBVIOUS
  <2>1. CASE f = writer
    <3>1. lines'[f] = Append(lines[f], k)
      BY <1>1, <2>1
    <3> QED
      BY <2>0, <3>1
  <2>2. CASE f # writer
    <3>1. lines'[f] = lines[f]
      BY <1>1, <2>2
    <3> QED
      BY <2>0, <3>1
  <2> QED
    BY <2>1, <2>2
<1>4. \A f \in File, p \in Nat :
         p <= Len(lines[f]) => (IsRow(f, p)' <=> IsRow(f, p))
  <2> SUFFICES ASSUME NEW f \in File, NEW p \in Nat, p <= Len(lines[f])
               PROVE  IsRow(f, p)' <=> IsRow(f, p)
    OBVIOUS
  <2>1. p \in DOMAIN lines[f] <=> p \in DOMAIN lines'[f]
    BY <1>3
  <2>2. p \in DOMAIN lines[f] => lines'[f][p] = lines[f][p]
    BY <1>3
  <2> QED
    BY <2>1, <2>2 DEF IsRow
<1>5. \A f \in File, p \in Nat : IsRow(f, p) => IsRow(f, p)'
  <2> SUFFICES ASSUME NEW f \in File, NEW p \in Nat, IsRow(f, p)
               PROVE  IsRow(f, p)'
    OBVIOUS
  <2>1. p <= Len(lines[f])
    BY <1>3 DEF IsRow
  <2> QED
    BY <1>4, <2>1
<1>6. \A f \in File, b \in Nat : b <= Len(lines[f]) /\ Done(f, b) => Done(f, b)'
  <2> SUFFICES ASSUME NEW f \in File, NEW b \in Nat, b <= Len(lines[f]),
                      Done(f, b), NEW q \in 1..b, IsRow(f, q)'
               PROVE  <<f, q>> \in table'
    BY DEF Done
  <2>1. q \in Nat /\ q <= Len(lines[f])
    BY <1>3
  <2>2. IsRow(f, q)
    BY <1>4, <2>1
  <2> QED
    BY <1>2, <2>2 DEF Done
<1> QED
  BY <1>3, <1>4, <1>5, <1>6

\* nginx completes a line.
LEMMA WriteEndKeeps ==
    ASSUME IInv, WriteEnd
    PROVE  IInv'
<1> USE DEF IInv, TypeOK
<1>0. writer \in File /\ last \in File
  BY ObserverAssumption DEF OnDisk, None, File
<1>1. PICK k \in Line : lines' = [lines EXCEPT ![writer] = Append(@, k)]
  BY DEF WriteEnd, memVars, diskVars
<1>2. /\ part[writer] /\ part' = [part EXCEPT ![writer] = FALSE]
      /\ UNCHANGED <<inode, last, writer, pc, path, batch, state, keys, saved, savedKeys, table,
                   faults>>
  BY DEF WriteEnd, memVars, diskVars
<1>3. /\ \A f \in File : Len(lines'[f]) >= Len(lines[f])
      /\ \A f \in File, p \in Nat : IsRow(f, p) => IsRow(f, p)'
      /\ \A f \in File, b \in Nat : b <= Len(lines[f]) /\ Done(f, b) => Done(f, b)'
  BY LinesKept
<1>4. lines' \in [File -> Seq(Line)]
  BY <1>0, <1>1
<1>5. TypeOK'
  BY <1>2, <1>4 DEF OnDisk
<1>6. Bounded'
  <2> SUFFICES ASSUME NEW f \in File
               PROVE  Len(lines'[f]) <= MaxLines /\ (part'[f] => Len(lines'[f]) < MaxLines)
    BY DEF Bounded
  <2>1. CASE f = writer
    <3>1. lines'[f] = Append(lines[f], k) /\ ~part'[f] /\ lines[f] \in Seq(Line)
      BY <1>1, <1>2, <2>1
    <3>2. Len(lines'[f]) = Len(lines[f]) + 1
      BY <3>1
    <3> QED
      BY <1>2, <2>1, <3>1, <3>2, ObserverAssumption DEF Bounded
  <2>2. CASE f # writer
    BY <1>1, <1>2, <2>2 DEF Bounded
  <2> QED
    BY <2>1, <2>2
<1>7. Distinct' /\ Unused'
  BY <1>2 DEF Distinct, Unused
<1>8. ASSUME NEW f \in 1..last
      PROVE  f \in File /\ inode[f] \in Inode /\ Len(lines[f]) \in Nat
             /\ Len(lines'[f]) \in Nat
             /\ state[inode[f]] \in Nat /\ saved[inode[f]] \in Nat
  <2>1. f \in File
    BY <1>0, ObserverAssumption DEF File
  <2>2. lines[f] \in Seq(Line) /\ lines'[f] \in Seq(Line)
    BY <1>4, <2>1
  <2>3. inode[f] \in Inode
    BY <2>1
  <2>4. state[inode[f]] \in Nat /\ saved[inode[f]] \in Nat
    BY <2>3, ObserverAssumption DEF Offset
  <2> QED
    BY <2>1, <2>2, <2>3, <2>4
<1>9. Covered'
  BY <1>2, <1>3, <1>8 DEF Covered
<1>10. InBatch'
  <2> SUFFICES ASSUME pc \in {"commit", "save"}
               PROVE  /\ batch.file \in 1..last
                      /\ batch.from <= batch.offset
                      /\ batch.offset <= Len(lines'[batch.file])
                      /\ Done(batch.file, batch.from)'
                      /\ pc = "save" => Done(batch.file, batch.offset)'
    BY <1>2 DEF InBatch
  <2>1. /\ batch.file \in 1..last /\ batch.offset <= Len(lines[batch.file])
        /\ batch.from <= batch.offset /\ batch.offset \in Nat /\ batch.from \in Nat /\ Done(batch.file, batch.from)
        /\ pc = "save" => Done(batch.file, batch.offset)
    BY ObserverAssumption DEF InBatch, Batch, Offset
  <2>2. PICK f \in File, a \in Nat, b \in Nat :
             batch.file = f /\ batch.from = a /\ batch.offset = b
    BY <1>8, <2>1
  <2>3. a <= Len(lines[f]) /\ b <= Len(lines[f]) /\ b <= Len(lines'[f])
    BY <1>3, <1>8, <2>1, <2>2
  <2>4. Done(f, a)' /\ (pc = "save" => Done(f, b)')
    BY <1>3, <2>1, <2>2, <2>3
  <2>5. Done(batch.file, batch.from)' /\ (pc = "save" => Done(batch.file, batch.offset)')
    BY <1>2, <2>2, <2>4 DEF Done, IsRow
  <2> QED
    BY <2>1, <2>2, <2>3, <2>5
<1>11. TableRows'
  BY <1>2, <1>3 DEF TableRows
<1>12. Gapless'
  <2> SUFFICES ASSUME NEW f \in File, NEW p \in Nat, <<f, p>> \in table
               PROVE  Done(f, p)'
    BY <1>2 DEF Gapless
  <2>1. IsRow(f, p) /\ Done(f, p)
    BY DEF TableRows, Gapless
  <2>2. p <= Len(lines[f])
    BY <2>1 DEF IsRow
  <2> QED
    BY <1>3, <2>1, <2>2
<1> QED
  BY <1>5, <1>6, <1>7, <1>9, <1>10, <1>11, <1>12

\* Rows and Done depend on the lines and the table only.
LEMMA RowsUnchanged ==
    ASSUME UNCHANGED <<lines, table>>, NEW f, NEW b
    PROVE  /\ IsRow(f, b)' <=> IsRow(f, b)
           /\ Done(f, b)' <=> Done(f, b)
BY DEF IsRow, Done

\* nginx begins a line, or opens the new log.
LEMMA WriteBeginReopenKeep ==
    ASSUME IInv, WriteBegin \/ Reopen
    PROVE  IInv'
<1> USE DEF IInv
<1>1. UNCHANGED <<lines, inode, last, pc, path, batch, state, keys, saved, savedKeys, table,
                   faults>>
  BY DEF WriteBegin, Reopen, memVars, diskVars
<1>2. writer \in File /\ last \in File
  BY ObserverAssumption DEF TypeOK, OnDisk, None, File
<1>3. TypeOK'
  <2>1. writer' \in OnDisk
    BY <1>2, ObserverAssumption DEF WriteBegin, Reopen, TypeOK, OnDisk, None, File
  <2>2. part' \in [File -> BOOLEAN]
    BY DEF WriteBegin, Reopen, TypeOK
  <2> QED
    BY <1>1, <2>1, <2>2 DEF TypeOK, OnDisk
<1>4. Bounded'
  <2>1. CASE WriteBegin
    BY <1>1, <2>1 DEF WriteBegin, Bounded, TypeOK
  <2>2. CASE Reopen
    BY <1>1, <2>2 DEF Reopen, Bounded
  <2> QED
    BY <2>1, <2>2
<1>5. Distinct' /\ Unused'
  BY <1>1 DEF Distinct, Unused
<1>6. Covered' /\ InBatch' /\ TableRows' /\ Gapless'
  BY <1>1 DEF Covered, InBatch, TableRows, Gapless, Done, IsRow
<1> QED
  BY <1>3, <1>4, <1>5, <1>6

\* logrotate gives the new log an inode number no file before it had.
LEMMA RotateKeeps ==
    ASSUME IInv, ~Reuse, Rotate
    PROVE  IInv'
<1> USE DEF IInv
<1>1. UNCHANGED <<lines, part, writer, pc, path, batch, state, keys, saved, savedKeys, table,
                   faults>>
  BY DEF Rotate, memVars, diskVars
<1>2. last' = last + 1 /\ writer = last /\ last < MaxFiles
  BY DEF Rotate
<1>3. PICK i \in Inode : /\ \A f \in 1..last : i # inode[f]
                         /\ inode' = [inode EXCEPT ![last + 1] = i]
  BY DEF Rotate
<1>4. last \in File /\ last \in Nat /\ last >= 1 /\ last' \in File
  BY <1>2, ObserverAssumption DEF TypeOK, File
<1>5. inode'[last'] = i /\ \A f \in 1..last : inode'[f] = inode[f]
  BY <1>2, <1>3, <1>4, ObserverAssumption DEF TypeOK, File
<1>6. 1..last' = (1..last) \cup {last'}
  BY <1>2, <1>4
<1>7. TypeOK'
  <2>1. writer' \in OnDisk'
    BY <1>1, <1>2, <1>4 DEF OnDisk, None
  <2>2. inode' \in [File -> Inode]
    BY <1>3 DEF TypeOK
  <2> QED
    BY <1>1, <1>4, <2>1, <2>2 DEF TypeOK
<1>8. Bounded'
  BY <1>1 DEF Bounded
<1>9. Distinct'
  BY <1>3, <1>5, <1>6 DEF Distinct
<1>10. Unused'
  BY <1>1, <1>5, <1>6 DEF Unused
<1>11. Covered'
  <2> SUFFICES ASSUME NEW f \in 1..last'
               PROVE  /\ state[inode'[f]] <= Len(lines[f]) /\ Done(f, state[inode'[f]])
                      /\ saved[inode'[f]] <= Len(lines[f]) /\ Done(f, saved[inode'[f]])
    BY <1>1 DEF Covered, Done, IsRow
  <2>1. CASE f \in 1..last
    BY <1>5, <2>1 DEF Covered
  <2>2. CASE f = last'
    <3>1. state[i] = 0 /\ saved[i] = 0
      BY <1>3 DEF Unused
    <3>2. Len(lines[f]) \in Nat
      <4>1. lines[f] \in Seq(Line)
        BY <1>4, <2>2 DEF TypeOK
      <4> QED
        BY <4>1
    <3> QED
      BY <1>5, <2>2, <3>1, <3>2 DEF Done
  <2> QED
    BY <1>6, <2>1, <2>2
<1>12. InBatch'
  BY <1>1, <1>2, <1>4, <1>6 DEF InBatch, Done, IsRow
<1>13. TableRows' /\ Gapless'
  BY <1>1 DEF TableRows, Gapless, Done, IsRow
<1> QED
  BY <1>7, <1>8, <1>9, <1>10, <1>11, <1>12, <1>13

-----------------------------------------------------------------------------

\* What the observer is about to read, where, is in bounds.
LEMMA LogExists ==
    ASSUME IInv, NEW n \in {"prev", "cur"}, Log(n) # None
    PROVE  Log(n) \in 1..last /\ Log(n) \in File /\ inode[Log(n)] \in Inode
<1>1. last \in Nat /\ last >= 1 /\ last <= MaxFiles
  BY ObserverAssumption DEF IInv, TypeOK, File
<1>2. Log(n) \in 1..last /\ Log(n) \in File
  BY <1>1, ObserverAssumption DEF Log, None, File
<1> QED
  BY <1>2 DEF IInv, TypeOK

\* read_batch starts at the offset, which is in the file, and stops in it.
LEMMA ReadBatchKeeps ==
    ASSUME IInv, ReadBatch
    PROVE  IInv'
<1> USE DEF IInv
<1> DEFINE f  == Log(path)
           at == state[inode[f]]
<1>1. UNCHANGED <<logVars, path, memVars, diskVars, table, faults>> /\ pc' = "commit"
  BY DEF ReadBatch
<1>2. f \in 1..last /\ f \in File /\ inode[f] \in Inode
  BY LogExists DEF ReadBatch, TypeOK
<1>3. at \in Nat /\ at <= Len(lines[f]) /\ Done(f, at)
  BY <1>2, ObserverAssumption DEF Covered, TypeOK, Offset
<1>4. Len(lines[f]) \in Nat /\ Len(lines[f]) <= MaxLines
  <2>1. lines[f] \in Seq(Line)
    BY <1>2 DEF TypeOK
  <2> QED
    BY <1>2, <2>1 DEF Bounded
<1>5. From(f) = at
  BY <1>3, <1>4 DEF From
<1>6. PICK to \in Offset : /\ at <= to /\ to <= Len(lines[f])
                           /\ batch' = [file |-> f, from |-> at, offset |-> to]
  BY <1>5 DEF ReadBatch, Ends
<1>7. to \in Nat
  BY ObserverAssumption DEF Offset
<1> HIDE DEF f, at
<1>8. TypeOK'
  <2>1. batch' \in Batch
    BY <1>2, <1>3, <1>4, <1>6, <1>7, ObserverAssumption DEF Batch, Offset
  <2> QED
    BY <1>1, <2>1 DEF TypeOK, logVars, memVars, diskVars, OnDisk
<1>9. Bounded' /\ Distinct' /\ Unused'
  BY <1>1 DEF Bounded, Distinct, Unused, logVars, memVars, diskVars
<1>10. Covered' /\ TableRows' /\ Gapless'
  BY <1>1 DEF Covered, TableRows, Gapless, Done, IsRow, logVars, memVars, diskVars
<1>11. InBatch'
  BY <1>1, <1>2, <1>3, <1>6, <1>7 DEF InBatch, Done, IsRow, logVars
<1> QED
  BY <1>8, <1>9, <1>10, <1>11

\* The commit extends the rows of the file from the batch's start to its end.
LEMMA CommitBatchKeeps ==
    ASSUME IInv, CommitBatch
    PROVE  IInv'
<1> USE DEF IInv
<1>1. /\ UNCHANGED <<logVars, path, batch, memVars, diskVars, faults>>
      /\ pc = "commit" /\ pc' = "save"
      /\ table' = table \cup Rows(batch.file, batch.from, batch.offset)
  BY DEF CommitBatch
<1>2. PICK f \in 1..last, a \in Nat, b \in Nat :
         batch.file = f /\ batch.from = a /\ batch.offset = b
  BY <1>1, ObserverAssumption DEF InBatch, TypeOK, Batch, Offset
<1>3. f \in File /\ a <= b /\ b <= Len(lines[f]) /\ Done(f, a)
  BY <1>1, <1>2, ObserverAssumption DEF InBatch, TypeOK, File
<1>4. \A g \in File, p \in Nat :
         <<g, p>> \in table' <=> \/ <<g, p>> \in table
                                 \/ g = f /\ p \in (a + 1)..b /\ IsRow(f, p)
  <2>1. ASSUME NEW g \in File, NEW p \in Nat
        PROVE  <<g, p>> \in Rows(f, a, b)
               <=> g = f /\ p \in (a + 1)..b /\ IsRow(f, p)
    <3>1. <<g, p>> \in Rows(f, a, b)
          <=> \E q \in (a + 1)..b : IsRow(f, q) /\ <<g, p>> = <<f, q>>
      BY DEF Rows
    <3>2. \A q \in (a + 1)..b : <<g, p>> = <<f, q>> <=> g = f /\ p = q
      OBVIOUS
    <3> QED
      BY <3>1, <3>2
  <2>2. table' = table \cup Rows(f, a, b)
    BY <1>1, <1>2
  <2> SUFFICES ASSUME NEW g \in File, NEW p \in Nat
               PROVE  <<g, p>> \in table'
                      <=> \/ <<g, p>> \in table
                          \/ g = f /\ p \in (a + 1)..b /\ IsRow(f, p)
    OBVIOUS
  <2>3. <<g, p>> \in table' <=> <<g, p>> \in table \/ <<g, p>> \in Rows(f, a, b)
    BY <2>2
  <2> QED
    BY <2>1, <2>3
<1>5. \A g \in File, p \in Nat : Done(g, p) => Done(g, p)'
  BY <1>1 DEF Done, IsRow, logVars
<1>6. \A p \in Nat : p <= b => Done(f, p)'
  <2> SUFFICES ASSUME NEW p \in Nat, p <= b, NEW q \in 1..p, IsRow(f, q)
               PROVE  <<f, q>> \in table'
    BY <1>1 DEF Done, IsRow, logVars
  <2>1. CASE q <= a
    BY <1>1, <1>3, <2>1 DEF Done
  <2>2. CASE q > a
    BY <1>3, <1>4, <2>2
  <2> QED
    BY <2>1, <2>2
<1>7. TypeOK'
  <2>1. Rows(f, a, b) \subseteq File \X Nat
    BY <1>3 DEF Rows
  <2> QED
    BY <1>1, <1>2, <2>1 DEF TypeOK, logVars, memVars, diskVars, OnDisk
<1>8. Bounded' /\ Distinct' /\ Unused'
  BY <1>1 DEF Bounded, Distinct, Unused, logVars, memVars, diskVars
<1>9. Covered'
  <2> SUFFICES ASSUME NEW g \in 1..last
               PROVE  /\ state[inode[g]] <= Len(lines[g]) /\ Done(g, state[inode[g]])'
                      /\ saved[inode[g]] <= Len(lines[g]) /\ Done(g, saved[inode[g]])'
    BY <1>1 DEF Covered, logVars, memVars, diskVars, Done, IsRow
  <2>1. g \in File /\ inode[g] \in Inode
    BY ObserverAssumption DEF TypeOK, File
  <2>2. PICK s \in Nat, d \in Nat : s = state[inode[g]] /\ d = saved[inode[g]]
    BY <2>1, ObserverAssumption DEF TypeOK, Offset
  <2>3. Done(g, s)' /\ Done(g, d)'
    BY <1>5, <2>1, <2>2 DEF Covered
  <2> QED
    BY <1>1, <2>2, <2>3 DEF Covered, Done, IsRow, logVars, memVars, diskVars
<1>10. InBatch'
  <2>1. Done(f, a)' /\ Done(f, b)'
    BY <1>3, <1>6
  <2>2. Done(batch.file, batch.from)' /\ Done(batch.file, batch.offset)'
    BY <1>1, <1>2, <2>1 DEF Done, IsRow
  <2> QED
    BY <1>1, <1>2, <1>3, <2>2 DEF InBatch, logVars
<1>11. TableRows'
  BY <1>1, <1>4 DEF TableRows, IsRow, logVars
<1>12. Gapless'
  BY <1>3, <1>4, <1>5, <1>6 DEF Gapless
<1> QED
  BY <1>7, <1>8, <1>9, <1>10, <1>11, <1>12

\* What the checkpoint keeps are inode numbers.
LEMMA NewestType ==
    ASSUME NEW s \in Seq(Inode)
    PROVE  Newest(s) \in Seq(Inode)
<1>1. CASE Len(s) <= MaxKept
  BY <1>1 DEF Newest
<1>2. CASE ~(Len(s) <= MaxKept)
  <2>1. Len(s) \in Nat /\ Len(s) - MaxKept + 1 \in 1..Len(s)
    BY <1>2, ObserverAssumption
  <2>2. SubSeq(s, Len(s) - MaxKept + 1, Len(s)) \in Seq(Inode)
    BY <2>1
  <2> QED
    BY <1>2, <2>2 DEF Newest
<1> QED
  BY <1>1, <1>2

\* Whether or not the checkpoint can be written, the offset moves to the end
\* of the batch, whose rows are in the table; those that are forgotten are 0.
LEMMA SaveKeeps ==
    ASSUME IInv, SaveState \/ SaveFails
    PROVE  IInv'
<1> USE DEF IInv
<1>0. CASE ~Moved
  <2>1. /\ UNCHANGED <<logVars, memVars, diskVars, table, faults>>
        /\ pc' \in {"read", "sleep"} /\ path' \in {"prev", "cur"} /\ batch' = NoBatch
    BY <1>0 DEF SaveState, SaveFails, NextPath
  <2>2. NoBatch \in Batch
    BY ObserverAssumption DEF NoBatch, Batch, File, Offset
  <2>3. TypeOK'
    BY <2>1, <2>2 DEF TypeOK, logVars, memVars, diskVars, OnDisk
  <2>4. Bounded' /\ Distinct' /\ Unused' /\ InBatch'
    BY <2>1 DEF Bounded, Distinct, Unused, InBatch, logVars, memVars, diskVars
  <2>5. Covered' /\ TableRows' /\ Gapless'
    BY <2>1 DEF Covered, TableRows, Gapless, Done, IsRow, logVars, memVars, diskVars
  <2> QED
    BY <2>3, <2>4, <2>5
<1>1. CASE Moved
  <2>1. /\ UNCHANGED <<logVars, table>> /\ pc = "save" /\ MoveOffset
        /\ \/ saved' = state' /\ savedKeys' = keys'
           \/ UNCHANGED diskVars
        /\ pc' \in {"read", "sleep"} /\ path' \in {"prev", "cur"} /\ batch' = NoBatch
        /\ faults' \in 0..MaxFaults
    BY <1>1, ObserverAssumption
       DEF SaveState, SaveFails, NextPath, Leave, OneFault, TypeOK
  <2>2. PICK f \in 1..last, b \in Offset : batch.file = f /\ batch.offset = b
    BY <2>1 DEF InBatch, TypeOK, Batch
  <2>3. f \in File /\ inode[f] \in Inode /\ b <= Len(lines[f]) /\ Done(f, b)
    BY <2>1, <2>2, ObserverAssumption DEF InBatch, TypeOK, File
  <2>4. \A i \in Inode : IF i = inode[f] THEN state'[i] = b ELSE state'[i] \in {state[i], 0}
    BY <2>1, <2>2 DEF MoveOffset
  <2>5. state' \in [Inode -> Offset] /\ saved' \in [Inode -> Offset]
    <3>1. 0 \in Offset /\ \A i \in Inode : state[i] \in Offset
      BY ObserverAssumption DEF Offset, TypeOK
    <3>2. \A i \in Inode : state'[i] \in Offset
      BY <2>4, <3>1
    <3>3. state' = [i \in Inode |-> state'[i]]
      BY <2>1 DEF MoveOffset
    <3>4. state' \in [Inode -> Offset]
      BY <3>2, <3>3
    <3> QED
      BY <2>1, <3>4 DEF TypeOK, diskVars
  <2>6. keys' \in Seq(Inode) /\ savedKeys' \in Seq(Inode)
    <3>1. keys \in Seq(Inode) /\ Append(keys, inode[f]) \in Seq(Inode)
      BY <2>3 DEF TypeOK
    <3>2. keys' \in Seq(Inode)
      BY <2>1, <2>2, <3>1, NewestType DEF MoveOffset
    <3> QED
      BY <2>1, <3>2 DEF TypeOK, diskVars
  <2>7. TypeOK'
    <3>1. NoBatch \in Batch
      BY ObserverAssumption DEF NoBatch, Batch, File, Offset
    <3> QED
      BY <2>1, <2>5, <2>6, <3>1 DEF TypeOK, logVars, OnDisk
  <2>8. Bounded' /\ Distinct'
    BY <2>1 DEF Bounded, Distinct, logVars
  <2>9. Unused'
    <3> SUFFICES ASSUME NEW i \in Inode, \A g \in 1..last : inode[g] # i
                 PROVE  state'[i] = 0 /\ saved'[i] = 0
      BY <2>1 DEF Unused, logVars
    <3>1. state[i] = 0 /\ saved[i] = 0 /\ i # inode[f]
      BY DEF Unused
    <3>2. state'[i] = 0
      BY <2>4, <3>1
    <3> QED
      BY <2>1, <3>1, <3>2 DEF diskVars
  <2>10. Covered'
    <3> SUFFICES ASSUME NEW g \in 1..last
                 PROVE  /\ state'[inode[g]] <= Len(lines[g]) /\ Done(g, state'[inode[g]])
                        /\ saved'[inode[g]] <= Len(lines[g]) /\ Done(g, saved'[inode[g]])
      BY <2>1 DEF Covered, logVars, Done, IsRow
    <3>1. g \in File /\ inode[g] \in Inode
      BY ObserverAssumption DEF TypeOK, File
    <3>2. Len(lines[g]) \in Nat
      <4>1. lines[g] \in Seq(Line)
        BY <3>1 DEF TypeOK
      <4> QED
        BY <4>1
    <3>3. state'[inode[g]] <= Len(lines[g]) /\ Done(g, state'[inode[g]])
      <4>1. CASE g = f
        BY <2>3, <2>4, <4>1
      <4>2. CASE g # f
        <5>1. inode[g] # inode[f]
          BY <4>2 DEF Distinct
        <5>2. state'[inode[g]] \in {state[inode[g]], 0}
          BY <2>4, <3>1, <5>1
        <5>3. Done(g, 0)
          BY DEF Done
        <5> QED
          BY <3>2, <5>2, <5>3 DEF Covered
      <4> QED
        BY <4>1, <4>2
    <3> QED
      BY <2>1, <3>3 DEF Covered, diskVars
  <2>11. InBatch'
    BY <2>1 DEF InBatch
  <2>12. TableRows' /\ Gapless'
    BY <2>1 DEF TableRows, Gapless, Done, IsRow, logVars
  <2> QED
    BY <2>7, <2>8, <2>9, <2>10, <2>11, <2>12
<1> QED
  BY <1>0, <1>1

\* The other steps begin or end a round, a process or a failure.
LEMMA RoundKeeps ==
    ASSUME IInv, Connect \/ SkipPath \/ RoundFails \/ Crash \/ Restart
    PROVE  IInv'
<1> USE DEF IInv
<1>1. /\ UNCHANGED <<logVars, diskVars, table>>
      /\ \/ state' = saved /\ keys' = savedKeys
         \/ state' = [i \in Inode |-> 0] /\ keys' = <<>>
         \/ UNCHANGED memVars
      /\ pc' \in {"down", "sleep", "read"} /\ path' \in {"prev", "cur"}
      /\ batch' \in Batch /\ faults' \in 0..MaxFaults
  <2>1. NoBatch \in Batch
    BY ObserverAssumption DEF NoBatch, Batch, File, Offset
  <2> QED
    BY <2>1, ObserverAssumption
       DEF Connect, SkipPath, RoundFails, Crash, Restart, NextPath, Leave, OneFault, TypeOK
<1>2. state' \in [Inode -> Offset] /\ keys' \in Seq(Inode)
  <2>1. 0 \in Offset /\ <<>> \in Seq(Inode)
    BY ObserverAssumption DEF Offset
  <2> QED
    BY <1>1, <2>1 DEF TypeOK, memVars
<1>3. TypeOK'
  BY <1>1, <1>2 DEF TypeOK, logVars, diskVars, OnDisk
<1>4. Bounded' /\ Distinct' /\ InBatch'
  BY <1>1 DEF Bounded, Distinct, InBatch, logVars
<1>5. Unused'
  BY <1>1 DEF Unused, logVars, memVars, diskVars
<1>6. Covered'
  <2> SUFFICES ASSUME NEW g \in 1..last
               PROVE  /\ state'[inode[g]] <= Len(lines[g]) /\ Done(g, state'[inode[g]])
                      /\ saved[inode[g]] <= Len(lines[g]) /\ Done(g, saved[inode[g]])
    BY <1>1 DEF Covered, logVars, diskVars, Done, IsRow
  <2>1. g \in File /\ inode[g] \in Inode
    BY ObserverAssumption DEF TypeOK, File
  <2>2. Len(lines[g]) \in Nat
    <3>1. lines[g] \in Seq(Line)
      BY <2>1 DEF TypeOK
    <3> QED
      BY <3>1
  <2>3. Done(g, 0)
    BY DEF Done
  <2> QED
    BY <1>1, <2>1, <2>2, <2>3 DEF Covered, memVars
<1>7. TableRows' /\ Gapless'
  BY <1>1 DEF TableRows, Gapless, Done, IsRow, logVars
<1> QED
  BY <1>3, <1>4, <1>5, <1>6, <1>7

-----------------------------------------------------------------------------

\* Without reuse of inode numbers, IInv is inductive: it holds of every
\* behaviour of nginx, logrotate and the observer, whatever fails.
THEOREM Invariance == ASSUME ~Reuse PROVE Spec => []IInv
<1>1. Init => IInv
  BY InitIInv
<1>2. IInv /\ [Next]_vars => IInv'
  <2> SUFFICES ASSUME IInv, [Next]_vars PROVE IInv'
    OBVIOUS
  <2>1. CASE Environment
    BY <2>1, WriteEndKeeps, WriteBeginReopenKeep, RotateKeeps DEF Environment
  <2>2. CASE Observer
    BY <2>2, RoundKeeps, ReadBatchKeeps, CommitBatchKeeps, SaveKeeps DEF Observer
  <2>3. CASE Fault
    BY <2>3, RoundKeeps, SaveKeeps DEF Fault
  <2>4. CASE UNCHANGED vars
    BY <2>4 DEF vars, logVars, memVars, diskVars, IInv, TypeOK, OnDisk, Bounded, Distinct, Unused,
                Covered, InBatch, TableRows, Gapless, Done, IsRow
  <2> QED
    BY <2>1, <2>2, <2>3, <2>4 DEF Next
<1> QED
  BY <1>1, <1>2, PTL DEF Spec

\* All variables keep their types; no offset passes the end of its file.
THEOREM TypeCorrect == ASSUME ~Reuse PROVE Spec => []TypeOK
<1>1. IInv => TypeOK
  BY DEF IInv
<1> QED
  BY <1>1, Invariance, PTL

\* "commit-before-checkpoint" (observe_access.py): the lines a checkpoint
\* counts as read are in the table, whatever crashed or failed since.
THEOREM CheckpointIsHonest == ASSUME ~Reuse PROVE Spec => []CommitBeforeCheckpoint
<1>1. IInv => CommitBeforeCheckpoint
  <2> SUFFICES ASSUME IInv, NEW f \in OnDisk
               PROVE  Rows(f, 0, saved[inode[f]]) \subseteq table
    BY DEF CommitBeforeCheckpoint
  <2>1. f \in 1..last
    BY ObserverAssumption DEF IInv, TypeOK, OnDisk, None, File
  <2>2. saved[inode[f]] \in Nat
    BY <2>1, ObserverAssumption DEF IInv, TypeOK, File, Offset
  <2> QED
    BY <2>1, <2>2, RowsDone DEF IInv, Covered
<1> QED
  BY <1>1, Invariance, PTL

\* The rows of a file in the table have no gap, across batches, retries and
\* restarts (read_batch and main).
THEOREM RowsHaveNoGaps == ASSUME ~Reuse PROVE Spec => []NoGaps
<1>1. IInv => NoGaps
  <2> SUFFICES ASSUME IInv, NEW f \in File, NEW p \in 1..MaxLines, <<f, p>> \in table
               PROVE  Rows(f, 0, p) \subseteq table
    BY DEF NoGaps
  <2>1. p \in Nat /\ Done(f, p)
    BY ObserverAssumption DEF IInv, Gapless
  <2> QED
    BY <2>1, RowsDone
<1> QED
  BY <1>1, Invariance, PTL
=============================================================================
