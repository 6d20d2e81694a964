-------------------------- MODULE LiveAnalysisProofs --------------------------
(***************************************************************************)
(* Proofs about LiveAnalysis: an analysis works on all of its window or on *)
(* nothing, and the results a directory shows belong together.  The lock   *)
(* keeps analyses apart, so the one that runs has the highest number: what *)
(* it has written is the newest of its directory.  And about the store it  *)
(* reads: rows and events stay together however pulls overlap and break    *)
(* off, and a backfill leaves events as the rows tell.  And the types of   *)
(* both.                                                                   *)
(***************************************************************************)
EXTENDS LiveAnalysis, FiniteSetTheorems, SequenceTheorems, WellFoundedInduction, TLAPS

Kind == {"live", "scenario", "balanced"}
Result == {"step1", "step2", "step3", "prompt"}
Written == Output \ {"report", "meta"}

Types ==
    /\ lock \in Operator \cup {None} /\ runs \in 0..MaxRuns
    /\ analysis \in [Operator ->
          [pc : {"idle", "count", "load", "write", "point", "pointing"}, kind : Kind, dir : Dir,
           window : Windows \cup {Resting.window}, run : 0..MaxRuns, left : Seq(Output)]]
    /\ loaded \in [1..MaxRuns -> [kind : Kind, there : SUBSET Keys, taken : SUBSET Keys]]
    /\ file \in [Dir -> [Output -> Version]] /\ pointer \in Dir \cup {Torn, None}
    /\ report \in [Reader -> [pc : {"idle", "asked", "write", "meta"}, dir : Dir, prompt : Version]]

\* The request that holds the lock is in the latest analysis, the others in none.
Exclusive ==
    \A o \in Operator : analysis[o].pc # "idle" =>
        lock = o /\ analysis[o].run = runs /\ runs >= 1

\* No analysis wrote yet that has not started.
Numbered == \A d \in Dir, f \in Written : file[d][f] \in 0..runs \cup {Torn}

\* The files up to the next one are there, of this analysis.
UpTo(a, n, files, run) ==
    /\ a.left = SubSeq(Files(a.kind), n, Len(Files(a.kind)))
    /\ \A m \in 1..n - 1 : files[a.dir][Files(a.kind)[m]] = run

Progress ==
    \A o \in Operator :
        /\ analysis[o].pc = "write" => \E n \in 1..Len(Files(analysis[o].kind)) :
                                           UpTo(analysis[o], n, file, runs)
        /\ analysis[o].pc \in {"point", "pointing"} => file[analysis[o].dir].summary = runs

IInv == Types /\ Exclusive /\ Numbered /\ Progress /\ ResultsTogether /\ InputWhole

-----------------------------------------------------------------------------
(* The files and the query.                                                *)

LEMMA FilesFacts ==
    ASSUME NEW kind
    PROVE  /\ Files(kind) \in Seq(Written) /\ Len(Files(kind)) \in {6, 9}
           /\ Files(kind)[Len(Files(kind))] = "summary"
           /\ \A n \in 1..Len(Files(kind)) : Files(kind)[n] = "summary" =>
                 \A f \in Result : \E m \in 1..n - 1 : Files(kind)[m] = f
<1>1. CASE kind = "scenario"
  <2>1. Files(kind) = <<"step1", "step2", "step3", "prompt", "template", "step3", "prompt",
                         "summary", "summary">>
    BY <1>1 DEF Files
  <2> QED BY <2>1 DEF Written, Output, Result
<1>2. CASE kind # "scenario"
  <2>1. Files(kind) = <<"step1", "step2", "step3", "prompt", "summary", "summary">>
    BY <1>2 DEF Files
  <2> QED BY <2>1 DEF Written, Output, Result
<1> QED BY <1>1, <1>2

\* The next file, and the ones that remain.
LEMMA LeftFacts ==
    ASSUME NEW kind, NEW n \in 1..Len(Files(kind)), NEW left,
           left = SubSeq(Files(kind), n, Len(Files(kind)))
    PROVE  /\ Head(left) = Files(kind)[n] /\ Head(left) \in Written
           /\ Len(left) = Len(Files(kind)) - n + 1
           /\ n < Len(Files(kind)) =>
                 Tail(left) = SubSeq(Files(kind), n + 1, Len(Files(kind)))
<1>1. Files(kind) \in Seq(Written) /\ Len(Files(kind)) \in Nat
  BY FilesFacts
<1>2. /\ left \in Seq(Written) /\ Len(left) = Len(Files(kind)) - n + 1
      /\ \A i \in 1..Len(Files(kind)) - n + 1 : left[i] = Files(kind)[n + i - 1]
  BY <1>1, SubSeqProperties
<1>3. left # <<>> /\ Head(left) = left[1]
  <2>1. Len(left) # 0
    BY <1>1, <1>2
  <2>2. left # <<>>
    BY <2>1, EmptySeq
  <2> QED BY <1>2, <2>2
<1>4. Head(left) = Files(kind)[n] /\ Head(left) \in Written
  BY <1>1, <1>2, <1>3
<1>5. ASSUME n < Len(Files(kind))
      PROVE  Tail(left) = SubSeq(Files(kind), n + 1, Len(Files(kind)))
  <2> DEFINE rest == SubSeq(Files(kind), n + 1, Len(Files(kind)))
  <2>1. /\ rest \in Seq(Written) /\ Len(rest) = Len(Files(kind)) - n
        /\ \A i \in 1..Len(Files(kind)) - n : rest[i] = Files(kind)[n + 1 + i - 1]
    BY <1>1, <1>5, SubSeqProperties
  <2>2. /\ Tail(left) \in Seq(Written) /\ Len(Tail(left)) = Len(left) - 1
        /\ \A i \in 1..Len(Tail(left)) : Tail(left)[i] = left[i + 1]
    BY <1>2, <1>3, HeadTailProperties
  <2>3. Len(Tail(left)) = Len(rest) /\ \A i \in 1..Len(rest) : Tail(left)[i] = rest[i]
    BY <1>1, <1>2, <2>1, <2>2
  <2> HIDE DEF rest
  <2>4. Tail(left) = rest
    BY <2>1, <2>2, <2>3, SeqEqual
  <2> QED BY <2>4 DEF rest
<1> QED BY <1>2, <1>4, <1>5

LEMMA KeysFinite == IsFiniteSet(Keys)
<1> DEFINE f == [a \in Alert |-> EventKey(a)]
<1>1. f \in Surjection(Alert, Keys)
  BY DEF Surjection, Keys
<1> QED BY <1>1, StoreAssumption, FS_Surjection

\* What a query answers is in the window, and if it is less than asked for, all of it.
LEMMA QueryFacts ==
    ASSUME NEW a, NEW keys \in WindowRows(a), Cardinality(keys) <= MaxAlerts
    PROVE  keys = InWindow(a) /\ keys \subseteq Keys
<1>1. InWindow(a) \subseteq Keys /\ IsFiniteSet(InWindow(a))
  BY KeysFinite, FS_Subset DEF InWindow
<1>2. /\ keys \subseteq InWindow(a)
      /\ Cardinality(keys) = Min({MaxAlerts + 1, Cardinality(InWindow(a))})
  BY DEF WindowRows, Newest
<1>3. Cardinality(InWindow(a)) \in Nat
  BY <1>1, FS_CardinalityType
<1>4. MaxAlerts \in Nat
  BY AnalysisAssumption
<1>5. Min({MaxAlerts + 1, Cardinality(InWindow(a))}) \in {MaxAlerts + 1, Cardinality(InWindow(a))}
  BY <1>3, <1>4 DEF Min
<1>6. Cardinality(keys) = Cardinality(InWindow(a))
  BY <1>2, <1>4, <1>5
<1> QED BY <1>1, <1>2, <1>6, FS_Subset

\* All files are left at first.
LEMMA AllLeft == ASSUME NEW kind PROVE Files(kind) = SubSeq(Files(kind), 1, Len(Files(kind)))
<1> DEFINE all == SubSeq(Files(kind), 1, Len(Files(kind)))
<1>1. Files(kind) \in Seq(Written) /\ Len(Files(kind)) \in Nat \ {0}
  BY FilesFacts
<1>2. /\ all \in Seq(Written) /\ Len(all) = Len(Files(kind))
      /\ \A i \in 1..Len(Files(kind)) : all[i] = Files(kind)[i]
  BY <1>1, SubSeqProperties
<1> HIDE DEF all
<1>3. all = Files(kind)
  BY <1>1, <1>2, SeqEqual
<1> QED BY <1>3 DEF all

-----------------------------------------------------------------------------
(* The steps of an analysis.                                               *)

\* While one is in an analysis the others are not.
LEMMA OthersIdle ==
    ASSUME IInv, NEW o \in Operator, analysis[o].pc # "idle", NEW q \in Operator \ {o}
    PROVE  analysis[q].pc = "idle"
BY DEF IInv, Exclusive

LEMMA StillStep == ASSUME IInv, UNCHANGED analysisVars PROVE IInv'
<1> USE DEF analysisVars, fileVars, IInv
<1>1. Types'
  BY DEF Types
<1>2. Exclusive'
  BY DEF Exclusive
<1>3. Numbered'
  BY DEF Numbered
<1>4. Progress'
  BY DEF Progress
<1>5. ResultsTogether'
  BY DEF ResultsTogether
<1>6. InputWhole'
  BY DEF InputWhole
<1> QED BY <1>1, <1>2, <1>3, <1>4, <1>5, <1>6

LEMMA RestingType ==
    Resting \in [pc : {"idle", "count", "load", "write", "point", "pointing"}, kind : Kind, dir : Dir,
                window : Windows \cup {Resting.window}, run : 0..MaxRuns, left : Seq(Output)]
BY AnalysisAssumption DEF Resting, Kind

LEMMA AcceptStep == ASSUME IInv, NEW o \in Operator, Accept(o) PROVE IInv'
<1> USE DEF Accept, Go, fileVars
<1>1. /\ runs' = runs + 1 /\ runs \in Nat /\ runs + 1 \in 1..MaxRuns /\ lock' = o
      /\ UNCHANGED <<loaded, file, pointer, report>>
  BY AnalysisAssumption DEF IInv, Types
<1>2. \A q \in Operator : analysis[q].pc = "idle"
  BY AnalysisAssumption DEF IInv, Exclusive
<1>3. PICK kind \in Kind, d \in Dir \ {Default}, w \in Windows :
        analysis' = [analysis EXCEPT ![o] = [Resting EXCEPT !.pc = "count", !.kind = kind, !.dir = d,
                                                           !.window = w, !.run = runs + 1]]
  BY DEF Kind
<1> DEFINE new == [Resting EXCEPT !.pc = "count", !.kind = kind, !.dir = d, !.window = w, !.run = runs + 1]
<1>a. /\ new \in [pc : {"idle", "count", "load", "write", "point", "pointing"}, kind : Kind, dir : Dir,
                 window : Windows \cup {Resting.window}, run : 0..MaxRuns, left : Seq(Output)]
      /\ new.pc = "count" /\ new.run = runs + 1
  <2> DEFINE base == Resting
  <2>1. base \in [pc : {"idle", "count", "load", "write", "point", "pointing"}, kind : Kind, dir : Dir,
                 window : Windows \cup {Resting.window}, run : 0..MaxRuns, left : Seq(Output)]
    BY RestingType
  <2>2. new = [base EXCEPT !.pc = "count", !.kind = kind, !.dir = d, !.window = w, !.run = runs + 1]
    OBVIOUS
  <2>3. runs + 1 \in 0..MaxRuns
    BY <1>1
  <2> HIDE DEF base, new
  <2>4. /\ DOMAIN new = DOMAIN base /\ new.left = base.left /\ new.dir = d /\ new.kind = kind
        /\ new.window = w /\ new.run = runs + 1 /\ new.pc = "count"
    BY <2>1, <2>2
  <2> QED BY <2>1, <2>2, <2>3, <2>4
<1> HIDE DEF new
<1>b. analysis' = [analysis EXCEPT ![o] = new]
  BY <1>3 DEF new
<1>4. Types'
  BY <1>1, <1>a, <1>b DEF IInv, Types
<1>5. /\ analysis'[o].pc = "count" /\ analysis'[o].run = runs + 1
      /\ \A q \in Operator \ {o} : analysis'[q].pc = "idle"
  BY <1>2, <1>a, <1>b DEF IInv, Types
<1>6. Exclusive' /\ Progress'
  BY <1>1, <1>5 DEF Exclusive, Progress
<1>7. Numbered'
  BY <1>1 DEF IInv, Numbered
<1>8. ResultsTogether' /\ InputWhole'
  BY <1>1 DEF IInv, ResultsTogether, InputWhole
<1> QED BY <1>4, <1>6, <1>7, <1>8 DEF IInv

\* A request ends; its files are as they are.
LEMMA EndStep ==
    ASSUME IInv, NEW o \in Operator, analysis[o].pc # "idle", End(o),
           UNCHANGED <<runs, loaded, file, pointer, report>>
    PROVE  IInv'
<1>1. \A q \in Operator : analysis'[q].pc = "idle"
  BY OthersIdle DEF End, Go, Resting, IInv, Types
<1>2. Types'
  BY RestingType DEF IInv, Types, End, Go
<1>3. Exclusive' /\ Progress'
  BY <1>1 DEF Exclusive, Progress
<1>4. Numbered' /\ ResultsTogether' /\ InputWhole'
  BY DEF IInv, Numbered, ResultsTogether, InputWhole
<1> QED BY <1>2, <1>3, <1>4 DEF IInv

LEMMA CountStep == ASSUME IInv, NEW o \in Operator, Count(o) PROVE IInv'
<1>1. CASE End(o)
  BY <1>1, EndStep DEF Count, fileVars
<1>2. CASE ~End(o)
  <2>1. /\ analysis[o].pc = "count" /\ Go(o, [analysis[o] EXCEPT !.pc = "load"])
        /\ UNCHANGED <<lock, runs, loaded, file, pointer, report>>
    BY <1>2 DEF Count, fileVars
  <2>2. Types'
    BY <2>1 DEF IInv, Types, Go
  <2>3. /\ analysis'[o].pc = "load" /\ analysis'[o].run = analysis[o].run
        /\ \A q \in Operator \ {o} : analysis'[q].pc = "idle"
    BY <2>1, OthersIdle DEF IInv, Types, Go
  <2>4. Exclusive'
    BY <2>1, <2>3 DEF IInv, Exclusive
  <2>5. Progress'
    BY <2>3 DEF Progress
  <2>6. Numbered' /\ ResultsTogether' /\ InputWhole'
    BY <2>1 DEF IInv, Numbered, ResultsTogether, InputWhole
  <2> QED BY <2>2, <2>4, <2>5, <2>6 DEF IInv
<1> QED BY <1>1, <1>2

\* An analysis goes on with keys that are as its kind asks.
LEMMA TakeStep ==
    ASSUME IInv, NEW o \in Operator, analysis[o].pc = "load", NEW keys \in SUBSET Keys, Take(o, keys),
           analysis[o].kind # "balanced" => Cardinality(keys) <= MaxAlerts,
           analysis[o].kind = "live" => keys = InWindow(analysis[o]),
           analysis[o].kind = "scenario" => \A k \in InWindow(analysis[o]) \ keys : k.kind = "file",
           UNCHANGED <<runs, file, pointer, report>>
    PROVE  IInv'
<1> DEFINE a == analysis[o]
           seen == [kind |-> a.kind, there |-> InWindow(a), taken |-> keys]
           all == [a EXCEPT !.pc = "write", !.left = Files(a.kind)]
<1>1. /\ a.run \in 1..MaxRuns /\ a.kind \in Kind
      /\ a \in [pc : {"idle", "count", "load", "write", "point", "pointing"}, kind : Kind, dir : Dir,
                window : Windows \cup {Resting.window}, run : 0..MaxRuns, left : Seq(Output)]
  BY DEF IInv, Types, Exclusive
<1>2. loaded' = [loaded EXCEPT ![a.run] = seen] /\ analysis' = [analysis EXCEPT ![o] = all] /\ lock' = lock
  BY DEF Take, Go
<1>3. seen \in [kind : Kind, there : SUBSET Keys, taken : SUBSET Keys]
  BY <1>1 DEF InWindow
<1>4. Files(a.kind) \in Seq(Output) /\ Files(a.kind) = SubSeq(Files(a.kind), 1, Len(Files(a.kind)))
      /\ 1 \in 1..Len(Files(a.kind))
  <2>1. Files(a.kind) \in Seq(Written)
    BY FilesFacts
  <2>2. Seq(Written) \subseteq Seq(Output)
    BY DEF Written
  <2>3. Len(Files(a.kind)) \in {6, 9}
    BY FilesFacts
  <2>4. Files(a.kind) \in Seq(Output) /\ 1 \in 1..Len(Files(a.kind))
    <3>1. Files(a.kind) \in Seq(Output)
      BY <2>1, <2>2
    <3>2. 1 \in 1..Len(Files(a.kind))
      BY <2>3
    <3> QED BY <3>1, <3>2
  <2>5. Files(a.kind) = SubSeq(Files(a.kind), 1, Len(Files(a.kind)))
    BY AllLeft
  <2> QED BY <2>4, <2>5
<1>5. Types'
  BY <1>1, <1>2, <1>3, <1>4 DEF IInv, Types
<1>6. /\ analysis'[o] = all /\ \A q \in Operator \ {o} : analysis'[q] = analysis[q]
      /\ \A q \in Operator \ {o} : analysis[q].pc = "idle"
  BY <1>2, OthersIdle DEF IInv, Types
<1>7. Exclusive'
  BY <1>1, <1>2, <1>6 DEF IInv, Exclusive
<1>8. /\ all.left = SubSeq(Files(all.kind), 1, Len(Files(all.kind))) /\ all.pc = "write"
      /\ 1 \in 1..Len(Files(all.kind))
  BY <1>1, <1>4
<1>9. Progress'
  <2>1. \A m \in 1..1 - 1 : file'[all.dir][Files(all.kind)[m]] = runs'
    OBVIOUS
  <2> HIDE DEF all
  <2>2. UpTo(all, 1, file', runs')
    BY <1>8, <2>1 DEF UpTo
  <2> QED BY <1>6, <1>8, <2>2 DEF Progress
<1>10. Numbered' /\ ResultsTogether'
  BY DEF IInv, Numbered, ResultsTogether
<1>11. InputWhole'
  <2>1. \A n \in 1..MaxRuns : loaded'[n] = IF n = a.run THEN seen ELSE loaded[n]
    BY <1>1, <1>2 DEF IInv, Types
  <2> QED BY <2>1 DEF IInv, InputWhole
<1> QED BY <1>5, <1>7, <1>9, <1>10, <1>11 DEF IInv

\* Less than the limit and one more: the whole window, and no more than the limit.
LEMMA FewEnough ==
    ASSUME NEW a, NEW keys \in WindowRows(a), ~(Cardinality(keys) > MaxAlerts)
    PROVE  /\ keys = InWindow(a) /\ keys \subseteq Keys
           /\ \A S \in SUBSET keys : Cardinality(S) <= MaxAlerts
<1>1. IsFiniteSet(keys) /\ Cardinality(keys) \in Nat
  <2>1. keys \subseteq InWindow(a) /\ InWindow(a) \subseteq Keys
    BY DEF WindowRows, Newest, InWindow
  <2> QED BY <2>1, KeysFinite, FS_Subset, FS_CardinalityType
<1>2. keys = InWindow(a) /\ keys \subseteq Keys
  BY <1>1, QueryFacts, AnalysisAssumption
<1>3. ASSUME NEW S \in SUBSET keys PROVE Cardinality(S) <= MaxAlerts
  <2>1. Cardinality(S) \in Nat /\ Cardinality(S) <= Cardinality(keys)
    BY <1>1, FS_Subset, FS_CardinalityType
  <2> QED BY <1>1, <2>1, AnalysisAssumption
<1> QED BY <1>2, <1>3

LEMMA LoadStep == ASSUME IInv, NEW o \in Operator, Load(o) PROVE IInv'
<1>1. PICK keys \in WindowRows(analysis[o]) :
        IF Cardinality(keys) > MaxAlerts THEN End(o) /\ UNCHANGED loaded ELSE Take(o, keys)
  BY DEF Load
<1>2. /\ analysis[o].pc = "load" /\ analysis[o].kind = "live"
      /\ UNCHANGED <<runs, file, pointer, report>>
  BY DEF Load, fileVars
<1>3. CASE Cardinality(keys) > MaxAlerts
  BY <1>1, <1>2, <1>3, EndStep
<1>4. CASE ~(Cardinality(keys) > MaxAlerts)
  BY <1>1, <1>2, <1>4, FewEnough, TakeStep
<1> QED BY <1>3, <1>4

LEMMA LoadScenarioStep == ASSUME IInv, NEW o \in Operator, LoadScenario(o) PROVE IInv'
<1>1. PICK keys \in WindowRows(analysis[o]) :
        IF Cardinality(keys) > MaxAlerts THEN End(o) /\ UNCHANGED loaded
        ELSE Take(o, InRange(analysis[o], keys))
  BY DEF LoadScenario
<1>2. /\ analysis[o].pc = "load" /\ analysis[o].kind = "scenario"
      /\ UNCHANGED <<runs, file, pointer, report>>
  BY DEF LoadScenario, fileVars
<1>3. CASE Cardinality(keys) > MaxAlerts
  BY <1>1, <1>2, <1>3, EndStep
<1>4. CASE ~(Cardinality(keys) > MaxAlerts)
  <2> DEFINE in == InRange(analysis[o], keys)
  <2>1. /\ keys = InWindow(analysis[o]) /\ keys \subseteq Keys
        /\ \A S \in SUBSET keys : Cardinality(S) <= MaxAlerts
    BY <1>4, FewEnough
  <2>2. in \in SUBSET keys /\ Cardinality(in) <= MaxAlerts
    BY <2>1 DEF InRange
  <2>3. \A k \in InWindow(analysis[o]) \ in : k.kind = "file"
    BY <1>2, <2>1 DEF InRange, InWindow, ShownTime
  <2> QED BY <1>1, <1>2, <1>4, <2>1, <2>2, <2>3, TakeStep
<1> QED BY <1>3, <1>4

LEMMA LoadBalancedStep == ASSUME IInv, NEW o \in Operator, LoadBalanced(o) PROVE IInv'
<1>1. \A kind : \A S \in Balanced(analysis[o], kind) : S \subseteq Keys
  BY DEF Balanced, Newest, InWindow
<1>2. PICK f \in Balanced(analysis[o], "file"), a \in Balanced(analysis[o], "account"),
           p \in Balanced(analysis[o], "parasitic") : Take(o, f \cup a \cup p)
  BY DEF LoadBalanced
<1>3. f \cup a \cup p \in SUBSET Keys
  BY <1>1
<1> QED BY <1>2, <1>3, TakeStep DEF LoadBalanced, fileVars

LEMMA WriteFileStep == ASSUME IInv, NEW o \in Operator, WriteFile(o) PROVE IInv'
<1> DEFINE a == analysis[o]
           f == Head(a.left)
           next == [a EXCEPT !.left = Tail(@), !.pc = IF Len(a.left) = 1 THEN "point" ELSE "write"]
<1>1. /\ a.pc = "write" /\ analysis' = [analysis EXCEPT ![o] = next]
      /\ file' = [file EXCEPT ![a.dir][f] = a.run] /\ UNCHANGED <<lock, runs, loaded, pointer, report>>
  BY DEF WriteFile, Go
<1>2. /\ a.run = runs /\ runs \in 1..MaxRuns /\ a.dir \in Dir /\ a.left \in Seq(Output)
      /\ runs < Torn /\ Torn \in Nat
  BY <1>1, AnalysisAssumption DEF IInv, Types, Exclusive, Torn
<1>3. PICK n \in 1..Len(Files(a.kind)) : UpTo(a, n, file, runs)
  BY <1>1 DEF IInv, Progress
<1>4. /\ f = Files(a.kind)[n] /\ f \in Written /\ Len(a.left) = Len(Files(a.kind)) - n + 1
      /\ Len(Files(a.kind)) \in Nat
  BY <1>3, LeftFacts, FilesFacts DEF UpTo
<1>5. \A d \in Dir, g \in Output : file'[d][g] = IF d = a.dir /\ g = f THEN runs ELSE file[d][g]
  BY <1>1, <1>2, <1>4 DEF IInv, Types, Written
<1>6. file' \in [Dir -> [Output -> Version]]
  BY <1>1, <1>2 DEF IInv, Types, Version
<1>7. Types'
  <2>1. Tail(a.left) \in Seq(Output)
    <3>1. a.left # <<>>
      BY <1>3, <1>4
    <3> QED BY <1>2, <3>1, HeadTailProperties
  <2>2. next \in [pc : {"idle", "count", "load", "write", "point", "pointing"}, kind : Kind, dir : Dir,
                window : Windows \cup {Resting.window}, run : 0..MaxRuns, left : Seq(Output)]
    BY <2>1 DEF IInv, Types
  <2> QED BY <1>1, <1>6, <2>2 DEF IInv, Types
<1>8. /\ analysis'[o] = next /\ next.run = a.run /\ next.dir = a.dir /\ next.kind = a.kind
      /\ \A q \in Operator \ {o} : analysis'[q].pc = "idle"
  BY <1>1, OthersIdle DEF IInv, Types
<1>9. Exclusive'
  BY <1>1, <1>8 DEF IInv, Exclusive
<1>10. Numbered'
  BY <1>1, <1>2, <1>5 DEF IInv, Numbered, Written
<1>11. \A m \in 1..n : file'[a.dir][Files(a.kind)[m]] = runs
  <2>1. \A m \in 1..n : Files(a.kind)[m] \in Output
    BY FilesFacts, <1>4 DEF Written
  <2> QED BY <1>2, <1>3, <1>4, <1>5, <2>1 DEF UpTo
<1>12. Progress'
  <2>1. CASE n = Len(Files(a.kind))
    <3>1. f = "summary" /\ next.pc = "point"
      BY <1>4, <2>1, FilesFacts DEF IInv, Types
    <3>2. file'[next.dir].summary = runs'
      BY <1>1, <1>2, <1>5, <1>8, <3>1 DEF Output
    <3> QED BY <1>8, <3>1, <3>2 DEF Progress
  <2>2. CASE n < Len(Files(a.kind))
    <3>1. next.pc = "write" /\ next.left = Tail(a.left)
      BY <1>4, <2>2 DEF IInv, Types
    <3>2. Tail(a.left) = SubSeq(Files(a.kind), n + 1, Len(Files(a.kind)))
      BY <1>3, <2>2, LeftFacts DEF UpTo
    <3>3. n + 1 \in 1..Len(Files(a.kind)) /\ (n + 1) - 1 = n
      BY <1>4, <2>2
    <3> HIDE DEF next
    <3>4. UpTo(next, n + 1, file', runs')
      BY <1>1, <1>8, <1>11, <3>1, <3>2, <3>3 DEF UpTo
    <3> QED BY <1>8, <3>1, <3>3, <3>4 DEF Progress
  <2> QED BY <1>4, <2>1, <2>2
<1>13. ResultsTogether'
  <2>1. ASSUME NEW d \in Dir, NEW g \in Result
        PROVE  file'[d][g] >= file'[d].summary \/ file'[d].summary = Torn
    <3>1. g \in Written /\ g \in Output /\ "summary" \in Written /\ "summary" \in Output
      BY DEF Result, Written, Output
    <3>2. /\ file[d][g] >= file[d].summary \/ file[d].summary = Torn
          /\ file[d].summary \in 0..runs \cup {Torn}
      BY <3>1 DEF IInv, ResultsTogether, Numbered, Result
    <3>3. CASE d = a.dir /\ f = "summary"
      BY <1>2, <1>4, <1>5, <1>11, <3>1, <3>3, FilesFacts
    <3>4. CASE d = a.dir /\ f = g
      BY <1>2, <1>5, <3>1, <3>2, <3>4 DEF Result
    <3>5. CASE ~(d = a.dir /\ f \in {g, "summary"})
      BY <1>5, <3>1, <3>2, <3>5
    <3> QED BY <3>3, <3>4, <3>5
  <2>2. pointer' \in Dir => file'[pointer'].summary # 0
    BY <1>1, <1>2, <1>5 DEF IInv, ResultsTogether, Output
  <2> QED BY <2>1, <2>2 DEF ResultsTogether, Result
<1>14. InputWhole'
  BY <1>1 DEF IInv, InputWhole
<1> QED BY <1>7, <1>9, <1>10, <1>12, <1>13, <1>14 DEF IInv

LEMMA PointStartStep == ASSUME IInv, NEW o \in Operator, PointStart(o) PROVE IInv'
<1>1. /\ analysis[o].pc = "point" /\ analysis' = [analysis EXCEPT ![o].pc = "pointing"] /\ pointer' = Torn
      /\ UNCHANGED <<lock, runs, loaded, file, report>>
  BY DEF PointStart, Go
<1>2. Types'
  BY <1>1 DEF IInv, Types
<1>3. /\ analysis'[o].pc = "pointing" /\ analysis'[o].run = analysis[o].run
      /\ analysis'[o].dir = analysis[o].dir
      /\ \A q \in Operator \ {o} : analysis'[q].pc = "idle"
  BY <1>1, OthersIdle DEF IInv, Types
<1>4. Exclusive' /\ Progress'
  BY <1>1, <1>3 DEF IInv, Exclusive, Progress
<1>5. Numbered' /\ ResultsTogether' /\ InputWhole'
  BY <1>1, AnalysisAssumption DEF IInv, Numbered, ResultsTogether, InputWhole
<1> QED BY <1>2, <1>4, <1>5 DEF IInv

LEMMA PointEndStep == ASSUME IInv, NEW o \in Operator, PointEnd(o) PROVE IInv'
<1>1. /\ analysis[o].pc = "pointing" /\ pointer' = analysis[o].dir /\ End(o)
      /\ UNCHANGED <<runs, loaded, file, report>>
  BY DEF PointEnd
<1>2. analysis[o].dir \in Dir /\ file[analysis[o].dir].summary # 0
  BY <1>1 DEF IInv, Types, Exclusive, Progress
<1>3. \A q \in Operator : analysis'[q].pc = "idle"
  BY <1>1, OthersIdle DEF End, Go, Resting, IInv, Types
<1>4. Types'
  BY <1>1, <1>2, RestingType DEF IInv, Types, End, Go
<1>5. Exclusive' /\ Progress'
  BY <1>3 DEF Exclusive, Progress
<1>6. Numbered' /\ ResultsTogether' /\ InputWhole'
  BY <1>1, <1>2 DEF IInv, Numbered, ResultsTogether, InputWhole
<1> QED BY <1>4, <1>5, <1>6 DEF IInv

-----------------------------------------------------------------------------
(* Failures, and the requests for a report.                                *)

\* A write that breaks off tears one file of the analysis.
LEMMA BrokenFacts ==
    ASSUME IInv, NEW o \in Operator, NEW new \in Broken(o)
    PROVE  /\ new \in [Dir -> [Output -> Version]]
           /\ \A d \in Dir, f \in Written : new[d][f] \in 0..runs \cup {Torn}
           /\ \A d \in Dir, f \in Result : new[d][f] >= new[d].summary \/ new[d].summary = Torn
           /\ pointer \in Dir => new[pointer].summary # 0
<1>1. CASE new = file
  BY <1>1 DEF IInv, Types, Numbered, ResultsTogether, Result
<1>2. CASE new # file
  <2> DEFINE a == analysis[o]
             f == Head(a.left)
  <2>1. a.pc = "write" /\ new = [file EXCEPT ![a.dir][f] = Torn] /\ a.dir \in Dir
    BY <1>2 DEF Broken, IInv, Types
  <2>2. f \in Written /\ f \in Output
    BY <2>1, LeftFacts DEF IInv, Progress, UpTo, Written
  <2>3. runs \in Nat /\ runs < Torn /\ Torn \in Nat /\ Torn # 0 /\ Torn \in Version
    BY AnalysisAssumption DEF IInv, Types, Torn, Version
  <2>4. new \in [Dir -> [Output -> Version]]
    BY <2>1, <2>3 DEF IInv, Types
  <2>5. \A d \in Dir, g \in Output : new[d][g] = IF d = a.dir /\ g = f THEN Torn ELSE file[d][g]
    BY <2>1, <2>2 DEF IInv, Types
  <2>6. \A d \in Dir, g \in Written : new[d][g] \in 0..runs \cup {Torn}
    BY <2>5 DEF IInv, Numbered, Written
  <2>7. ASSUME NEW d \in Dir, NEW g \in Result
        PROVE  new[d][g] >= new[d].summary \/ new[d].summary = Torn
    <3>1. g \in Written /\ g \in Output /\ "summary" \in Written /\ "summary" \in Output
      BY DEF Result, Written, Output
    <3>2. /\ file[d][g] >= file[d].summary \/ file[d].summary = Torn
          /\ new[d].summary \in 0..runs \cup {Torn}
      BY <2>6, <3>1 DEF IInv, ResultsTogether, Result
    <3>3. CASE d = a.dir /\ f \in {g, "summary"}
      BY <2>3, <2>5, <3>1, <3>2, <3>3
    <3>4. CASE ~(d = a.dir /\ f \in {g, "summary"})
      BY <2>5, <3>1, <3>2, <3>4
    <3> QED BY <3>3, <3>4
  <2>8. pointer \in Dir => new[pointer].summary # 0
    BY <2>3, <2>5 DEF IInv, ResultsTogether, Output
  <2> QED BY <2>4, <2>6, <2>7, <2>8
<1> QED BY <1>1, <1>2

\* All requests have ended, and a write with them.
LEMMA BrokenStep ==
    ASSUME IInv, \A q \in Operator : analysis'[q].pc = "idle", Types',
           NEW o \in Operator, file' \in Broken(o), UNCHANGED <<runs, loaded, pointer>>
    PROVE  IInv'
<1>1. Exclusive' /\ Progress'
  BY DEF Exclusive, Progress
<1>2. Numbered' /\ ResultsTogether'
  BY BrokenFacts DEF Numbered, ResultsTogether, Result
<1>3. InputWhole'
  BY DEF IInv, InputWhole
<1> QED BY <1>1, <1>2, <1>3 DEF IInv

LEMMA FailStep == ASSUME IInv, NEW o \in Operator, FailAnalysis(o) PROVE IInv'
<1>1. analysis[o].pc # "idle" /\ file' \in Broken(o) /\ End(o) /\ UNCHANGED <<runs, loaded, pointer, report>>
  BY DEF FailAnalysis
<1>2. \A q \in Operator : analysis'[q].pc = "idle"
  BY <1>1, OthersIdle DEF End, Go, Resting, IInv, Types
<1>3. file' \in [Dir -> [Output -> Version]]
  BY <1>1, BrokenFacts
<1>4. Types'
  BY <1>1, <1>3, RestingType DEF IInv, Types, End, Go
<1> QED BY <1>1, <1>2, <1>4, BrokenStep

LEMMA RestartStep == ASSUME IInv, RestartAll PROVE IInv'
<1>1. /\ lock' = None /\ analysis' = [o \in Operator |-> Resting]
      /\ report' = [r \in Reader |-> NoReport] /\ UNCHANGED <<runs, loaded, pointer>>
      /\ file' \in {file} \cup UNION {Broken(o) : o \in Operator}
  BY DEF RestartAll
<1>2. \A q \in Operator : analysis'[q].pc = "idle"
  BY <1>1 DEF Resting
<1>3. file' \in [Dir -> [Output -> Version]] => Types'
  BY <1>1, AnalysisAssumption DEF IInv, Types, Resting, NoReport, Kind, Version
<1>4. CASE file' = file
  <2>1. Types'
    BY <1>3, <1>4 DEF IInv, Types
  <2> QED BY <1>1, <1>2, <1>4, <2>1 DEF IInv, Exclusive, Progress, Numbered, ResultsTogether, InputWhole
<1>5. CASE file' # file
  <2>1. PICK o \in Operator : file' \in Broken(o)
    BY <1>1, <1>5
  <2>2. Types'
    BY <1>3, <2>1, BrokenFacts
  <2> QED BY <1>1, <1>2, <2>1, <2>2, BrokenStep
<1> QED BY <1>4, <1>5

LEMMA NoReportType == NoReport \in [pc : {"idle", "asked", "write", "meta"}, dir : Dir, prompt : Version]
BY AnalysisAssumption DEF NoReport, Version

LEMMA ReportStepKeeps == ASSUME IInv, NEW r \in Reader, ReportStep(r) PROVE IInv'
<1>1. UNCHANGED <<lock, analysis, runs, loaded, pointer>>
  BY DEF ReportStep, AskReport, Answer, WriteReport, WriteMeta, fileVars
<1>2. Types'
  <2>1. CASE AskReport(r)
    BY <1>1, <2>1, AnalysisAssumption DEF AskReport, IInv, Types, fileVars, Latest, Output
  <2>2. CASE Answer(r)
    <3>1. file' = file /\ report' \in {[report EXCEPT ![r].pc = "write"], [report EXCEPT ![r] = NoReport]}
      BY <2>2 DEF Answer, fileVars
    <3>2. report' \in [Reader -> [pc : {"idle", "asked", "write", "meta"}, dir : Dir, prompt : Version]]
      <4>1. CASE report' = [report EXCEPT ![r] = NoReport]
        BY <4>1, NoReportType DEF IInv, Types
      <4>2. CASE report' = [report EXCEPT ![r].pc = "write"]
        BY <4>2 DEF IInv, Types
      <4> QED BY <3>1, <4>1, <4>2
    <3> QED BY <1>1, <3>1, <3>2 DEF IInv, Types
  <2>3. CASE WriteReport(r)
    BY <1>1, <2>3 DEF WriteReport, IInv, Types
  <2>4. CASE WriteMeta(r)
    BY <1>1, <2>4, NoReportType DEF WriteMeta, IInv, Types
  <2> QED BY <2>1, <2>2, <2>3, <2>4 DEF ReportStep
<1>3. \A d \in Dir, f \in Written : file'[d][f] = file[d][f]
  <2>1. file' \in {file, [file EXCEPT ![report[r].dir].report = report[r].prompt],
                   [file EXCEPT ![report[r].dir].meta = report[r].prompt]}
    BY DEF ReportStep, AskReport, Answer, WriteReport, WriteMeta, fileVars
  <2>2. report[r].dir \in Dir /\ file \in [Dir -> [Output -> Version]]
    BY DEF IInv, Types
  <2> QED BY <2>1, <2>2 DEF Written
<1>4. Result \cup {"summary"} \subseteq Written
  BY DEF Result, Written, Output
<1>5. Progress'
  <2>1. ASSUME NEW o \in Operator, analysis[o].pc = "write"
        PROVE  \E n \in 1..Len(Files(analysis[o].kind)) : UpTo(analysis[o], n, file', runs)
    <3>1. PICK n \in 1..Len(Files(analysis[o].kind)) : UpTo(analysis[o], n, file, runs)
      BY <2>1 DEF IInv, Progress
    <3>2. \A m \in 1..n - 1 : Files(analysis[o].kind)[m] \in Written
      BY <3>1, FilesFacts
    <3>3. analysis[o].dir \in Dir
      BY DEF IInv, Types
    <3> QED BY <1>1, <1>3, <3>1, <3>2, <3>3 DEF UpTo
  <2>2. \A o \in Operator : analysis[o].dir \in Dir
    BY DEF IInv, Types
  <2> QED BY <1>1, <1>3, <1>4, <2>1, <2>2 DEF IInv, Progress
<1>6. Exclusive' /\ Numbered' /\ InputWhole'
  BY <1>1, <1>3 DEF IInv, Exclusive, Numbered, InputWhole
<1>7. ResultsTogether'
  BY <1>1, <1>3, <1>4 DEF IInv, ResultsTogether, Result
<1> QED BY <1>2, <1>5, <1>6, <1>7 DEF IInv

-----------------------------------------------------------------------------
\* The invariant of analyses and of what they write holds throughout (views.py).
THEOREM IInvHolds == Spec => []IInv
<1>1. Init => IInv
  <2> SUFFICES ASSUME Init PROVE IInv
    OBVIOUS
  <2>1. Types
    BY AnalysisAssumption DEF Init, Types, Resting, NoReport, NotLoaded, NoFiles, Kind, Version
  <2>2. Exclusive /\ Progress /\ Numbered
    BY DEF Init, Exclusive, Progress, Numbered, Resting, NoFiles, Written
  <2>3. ResultsTogether
    BY AnalysisAssumption DEF Init, ResultsTogether, NoFiles, Output
  <2>4. InputWhole
    <3>1. ASSUME NEW n \in 1..MaxRuns PROVE loaded[n].kind = "live" /\ loaded[n].taken = {} /\ loaded[n].there = {}
      BY DEF Init, NotLoaded
    <3>2. Cardinality({}) = 0 /\ 0 <= MaxAlerts
      BY AnalysisAssumption, FS_EmptySet
    <3> QED BY <3>1, <3>2 DEF InputWhole
  <2> QED BY <2>1, <2>2, <2>3, <2>4 DEF IInv
<1>2. IInv /\ [Next]_vars => IInv'
  <2> SUFFICES ASSUME IInv, [Next]_vars PROVE IInv'
    OBVIOUS
  <2>1. CASE StoreStep
    BY <2>1, StillStep DEF StoreStep
  <2>2. CASE RestartAll
    BY <2>2, RestartStep
  <2>3. ASSUME NEW o \in Operator, AnalysisStep(o) PROVE IInv'
    BY <2>3, AcceptStep, CountStep, LoadStep, LoadScenarioStep, LoadBalancedStep,
       WriteFileStep, PointStartStep, PointEndStep, FailStep DEF AnalysisStep
  <2>4. ASSUME NEW r \in Reader, ReportStep(r) PROVE IInv'
    BY <2>4, ReportStepKeeps
  <2>5. CASE UNCHANGED vars
    BY <2>5, StillStep DEF vars
  <2> QED BY <2>1, <2>2, <2>3, <2>4, <2>5 DEF Next
<1> QED BY <1>1, <1>2, PTL DEF Spec

\* An analysis goes on with every alert its live window has, or is refused, however
\* many come between the count and the query (export_alerts_to_step1.py).
THEOREM InputIsWhole == Spec => []InputWhole
<1>1. IInv => InputWhole
  BY DEF IInv
<1> QED BY <1>1, IInvHolds, PTL

\* What a directory shows belongs together, whatever analyses were refused, failed
\* or ended with the process before (views.py, analysis_guard.py).
THEOREM ResultsBelongTogether == Spec => []ResultsTogether
<1>1. IInv => ResultsTogether
  BY DEF IInv
<1> QED BY <1>1, IInvHolds, PTL

-----------------------------------------------------------------------------
(* The store.  A row is of one pull and its event is written with it: what a pull   *)
(* read names committed rows, what it leaves opens a row of its own.  A backfill   *)
(* is a recursion over the rows in time order; what it leaves is shown row by row. *)

EventType == [raw : SUBSET Id, latest : {0} \cup Id, place : Place \cup {None}, first : Nat, last : Nat]

StoreTypes ==
    /\ row \in [Id -> Alert \cup {None}] /\ nextId \in 1..MaxRows + 1
    /\ event \in [Keys -> EventType] /\ place \in Place \cup {None}

LEMMA LeastOf ==
    ASSUME NEW S \in SUBSET Nat, S # {}
    PROVE  \E n \in S : \A m \in S : n <= m
<1> DEFINE upTo == {0..n : n \in S}
           subsets == FiniteSubsetsOf(Nat)
<1>1. upTo \subseteq subsets /\ upTo # {}
  <2>1. \A n \in S : IsFiniteSet(0..n)
    <3> SUFFICES ASSUME NEW n \in S PROVE IsFiniteSet(0..n)
      OBVIOUS
    <3>1. 0 \in Int /\ n \in Int
      OBVIOUS
    <3> QED BY <3>1, FS_Interval
  <2>2. \A n \in S : 0..n \subseteq Nat
    OBVIOUS
  <2> QED BY <2>1, <2>2 DEF FiniteSubsetsOf
<1>2. PICK least \in upTo : \A other \in upTo : ~(<<other, least>> \in StrictSubsetOrdering(Nat))
  <2>1. IsWellFoundedOn(StrictSubsetOrdering(Nat), subsets)
    BY FS_StrictSubsetOrderingWellFounded
  <2> HIDE DEF upTo, subsets
  <2> QED BY <1>1, <2>1, WFMin
<1>3. PICK n \in S : least = 0..n
  BY <1>2
<1>4. ASSUME NEW m \in S PROVE n <= m
  <2>1. 0..m \in upTo /\ 0..n \in SUBSET Nat /\ 0..m \in SUBSET Nat /\ m \in Nat /\ n \in Nat
    OBVIOUS
  <2>2. ~(0..m \subseteq 0..n /\ 0..m # 0..n)
    BY <1>2, <1>3, <2>1 DEF StrictSubsetOrdering
  <2>3. SUFFICES ASSUME m < n PROVE FALSE
    BY <2>1
  <2>4. 0..m \subseteq 0..n /\ n \in 0..n /\ n \notin 0..m
    BY <2>1, <2>3
  <2> QED BY <2>2, <2>4
<1> QED BY <1>4

\* Induction, by what a set of numbers contains.
LEMMA AllNumbers ==
    ASSUME NEW S \in SUBSET Nat, 0 \in S, \A n \in S : n + 1 \in S
    PROVE  S = Nat
<1> SUFFICES ASSUME Nat \ S # {} PROVE FALSE
  OBVIOUS
<1>1. PICK n \in Nat \ S : \A m \in Nat \ S : n <= m
  BY LeastOf
<1>2. n # 0 /\ n - 1 \in Nat /\ n - 1 \in S
  BY <1>1
<1> QED BY <1>2

LEMMA RowFacts ==
    ASSUME StoreTypes
    PROVE  /\ Rows \subseteq Id /\ IsFiniteSet(Rows)
           /\ \A i \in Rows : /\ row[i] \in Alert /\ row[i].time \in Nat /\ i \in Nat \ {0}
                              /\ EventKey(row[i]) \in Keys
<1>1. Rows \subseteq Id /\ \A i \in Rows : row[i] \in Alert
  BY DEF Rows, StoreTypes
<1>2. IsFiniteSet(Id)
  BY StoreAssumption, FS_Interval DEF Id
<1>3. IsFiniteSet(Rows)
  BY <1>1, <1>2, FS_Subset
<1>4. \A a \in Alert : a.time \in Nat /\ EventKey(a) \in Keys
  BY StoreAssumption DEF Keys
<1>5. \A i \in Id : i \in Nat \ {0}
  BY StoreAssumption DEF Id
<1> QED BY <1>1, <1>3, <1>4, <1>5

\* There is a last row of any rows.
LEMMA LastIsLast ==
    ASSUME StoreTypes, NEW S \in SUBSET Rows, S # {}
    PROVE  LastInTime(S) \in S /\ \A j \in S \ {LastInTime(S)} : InTime(j, LastInTime(S))
<1>1. /\ IsFiniteSet(S) /\ \A i \in S : row[i].time \in Nat /\ i \in Nat
  BY RowFacts, FS_Subset
<1> DEFINE below(i) == {j \in S : InTime(j, i)}
           sizes == {Cardinality(S) - Cardinality(below(i)) : i \in S}
<1>2. \A i \in S : IsFiniteSet(below(i)) /\ Cardinality(below(i)) \in Nat /\ Cardinality(below(i)) <= Cardinality(S)
  BY <1>1, FS_Subset, FS_CardinalityType
<1>3. Cardinality(S) \in Nat
  BY <1>1, FS_CardinalityType
<1>4. sizes \in SUBSET Nat /\ sizes # {}
  <2>1. \A i \in S : Cardinality(S) - Cardinality(below(i)) \in Nat
    <3> HIDE DEF below
    <3> QED BY <1>2, <1>3
  <2> QED BY <2>1
<1>5. PICK n \in sizes : \A m \in sizes : n <= m
  <2> HIDE DEF sizes
  <2> QED BY <1>4, LeastOf
<1>6. PICK i \in S : n = Cardinality(S) - Cardinality(below(i))
  BY <1>5
<1>7. ASSUME NEW j \in S \ {i} PROVE InTime(j, i)
  <2> SUFFICES ASSUME ~InTime(j, i) PROVE FALSE
    OBVIOUS
  <2>1. InTime(i, j)
    BY <1>1 DEF InTime
  <2>2. below(i) \cup {i} \subseteq below(j) /\ i \notin below(i)
    BY <1>1, <2>1 DEF InTime
  <2>3. Cardinality(below(i) \cup {i}) = Cardinality(below(i)) + 1
    BY <1>2, <2>2, FS_AddElement
  <2>4. Cardinality(below(i) \cup {i}) <= Cardinality(below(j))
    BY <1>2, <2>2, FS_Subset
  <2>5. n <= Cardinality(S) - Cardinality(below(j))
    BY <1>5
  <2> QED BY <1>2, <1>3, <1>6, <2>3, <2>4, <2>5
<1>8. \E k \in S : \A j \in S \ {k} : InTime(j, k)
  BY <1>7
<1> QED BY <1>8 DEF LastInTime

\* What is so of no rows, and of rows if it is of those without the last, is so of all.
LEMMA RowByRow ==
    ASSUME StoreTypes, NEW C \in SUBSET SUBSET Rows, {} \in C,
           \A S \in SUBSET Rows : S # {} /\ S \ {LastInTime(S)} \in C => S \in C
    PROVE  C = SUBSET Rows
<1> DEFINE N == {n \in Nat : \A S \in SUBSET Rows : Cardinality(S) <= n => S \in C}
<1>1. \A S \in SUBSET Rows : IsFiniteSet(S) /\ Cardinality(S) \in Nat
  BY RowFacts, FS_Subset, FS_CardinalityType
<1>2. 0 \in N
  <2> SUFFICES ASSUME NEW S \in SUBSET Rows, Cardinality(S) <= 0 PROVE S \in C
    OBVIOUS
  <2>1. S = {}
    BY <1>1, FS_EmptySet
  <2> QED BY <2>1
<1>3. ASSUME NEW n \in N PROVE n + 1 \in N
  <2> SUFFICES ASSUME NEW S \in SUBSET Rows, Cardinality(S) <= n + 1, S # {} PROVE S \in C
    OBVIOUS
  <2>1. LastInTime(S) \in S
    BY LastIsLast
  <2>2. Cardinality(S \ {LastInTime(S)}) = Cardinality(S) - 1
    BY <1>1, <2>1, FS_RemoveElement
  <2>3. S \ {LastInTime(S)} \in C
    BY <1>1, <2>2
  <2> QED BY <2>3
<1>4. N = Nat
  <2> HIDE DEF N
  <2>1. N \in SUBSET Nat
    BY DEF N
  <2> QED BY <1>2, <1>3, <2>1, AllNumbers
<1> QED BY <1>1, <1>4

\* Some of the rows ingested again.
Ingested(S) ==
    LET iter[T \in SUBSET S] ==
          IF T = {} THEN event ELSE LET i == LastInTime(T) IN IngestAgain(i, iter[T \ {i}])
    IN  iter

LEMMA BackfilledIs == Backfilled = Refreshed(Ingested(Rows)[Rows])
BY DEF Backfilled, Ingested, MapThenFoldSet

LEMMA Recursion ==
    ASSUME StoreTypes
    PROVE  Ingested(Rows) = [T \in SUBSET Rows |->
               IF T = {} THEN event
               ELSE IngestAgain(LastInTime(T), Ingested(Rows)[T \ {LastInTime(T)}])]
<1> DEFINE SizeUpTo(n) == {T \in SUBSET Rows : Cardinality(T) <= n}
           Solves(f, D) == f = [T \in D |-> IF T = {} THEN event
                                ELSE IngestAgain(LastInTime(T), f[T \ {LastInTime(T)}])]
           N == {n \in Nat : \E f : Solves(f, SizeUpTo(n))}
<1>1. \A T \in SUBSET Rows : IsFiniteSet(T) /\ Cardinality(T) \in Nat
  BY RowFacts, FS_Subset, FS_CardinalityType
<1>2. 0 \in N
  <2> DEFINE f == [T \in SizeUpTo(0) |-> event]
  <2>1. \A T \in SizeUpTo(0) : T = {}
    BY <1>1, FS_EmptySet
  <2>2. Solves(f, SizeUpTo(0))
    BY <2>1
  <2> QED BY <2>2
<1>3. ASSUME NEW n \in N PROVE n + 1 \in N
  <2>1. PICK f : Solves(f, SizeUpTo(n))
    OBVIOUS
  <2> DEFINE g == [T \in SizeUpTo(n + 1) |-> IF T = {} THEN event
                                ELSE IngestAgain(LastInTime(T), f[T \ {LastInTime(T)}])]
  <2>2. SizeUpTo(n) \subseteq SizeUpTo(n + 1)
    BY <1>1
  <2>3. ASSUME NEW T \in SizeUpTo(n + 1), T # {}
        PROVE  T \ {LastInTime(T)} \in SizeUpTo(n)
    <3>1. LastInTime(T) \in T
      BY <2>3, LastIsLast
    <3>2. Cardinality(T \ {LastInTime(T)}) = Cardinality(T) - 1
      BY <1>1, <3>1, FS_RemoveElement
    <3> QED BY <1>1, <3>2
  <2>4. \A T \in SizeUpTo(n) : g[T] = f[T]
    BY <2>1, <2>2
  <2>5. \A T \in SizeUpTo(n + 1) : T # {} => f[T \ {LastInTime(T)}] = g[T \ {LastInTime(T)}]
    BY <2>3, <2>4
  <2>6. Solves(g, SizeUpTo(n + 1))
    <3> HIDE DEF SizeUpTo
    <3> QED BY <2>5
  <2>7. n + 1 \in Nat
    OBVIOUS
  <2> HIDE DEF g, Solves
  <2> QED BY <2>6, <2>7
<1>4. N = Nat
  <2> HIDE DEF N
  <2>1. N \in SUBSET Nat
    BY DEF N
  <2> QED BY <1>2, <1>3, <2>1, AllNumbers
<1>5. PICK n \in Nat : n = Cardinality(Rows)
  BY <1>1
<1>6. SizeUpTo(n) = SUBSET Rows
  BY <1>1, <1>5, RowFacts, FS_Subset
<1>7. \E f : Solves(f, SUBSET Rows)
  BY <1>4, <1>6
<1> QED BY <1>7 DEF Ingested

\* Events and the pulls' copies of some of them.
Copies == UNION {[K -> EventType] : K \in SUBSET Keys}
PullType == [pc : {"idle", "work"}, todo : Seq(Alert), had : SUBSET Alert, fresh : Seq(Alert),
             mine : SUBSET (Id \X Alert), read : Copies, work : Copies]

\* A row is of one pull, and has the number of no other.
Inserted ==
    /\ \A i \in Rows : i < nextId
    /\ \A p \in Puller : \A m \in pull[p].mine : m[1] < nextId /\ row[m[1]] = None
    /\ \A p, q \in Puller : \A m \in pull[p].mine, n \in pull[q].mine :
          m[1] = n[1] => p = q /\ m = n

\* An event names rows of I, and a file's opens one it counts.
Names(e, k, I) == e.raw \cup {e.latest} \subseteq I /\ (k.kind = "file" => e.latest \in e.raw)

Own(p, k) == {m[1] : m \in {l \in pull[p].mine : EventKey(l[2]) = k}}

\* A pull has the event of each of its rows, which opens one of them; what it read
\* names committed rows only.
Ingesting ==
    \A p \in Puller :
        /\ DOMAIN pull[p].work = DOMAIN pull[p].read
        /\ \A m \in pull[p].mine : EventKey(m[2]) \in DOMAIN pull[p].work
        /\ \A k \in DOMAIN pull[p].work :
              /\ pull[p].read[k] # Absent => Names(pull[p].read[k], k, RowsOf(k))
              /\ Names(pull[p].work[k], k, RowsOf(k) \cup Own(p, k))
              /\ pull[p].work[k].latest \in Own(p, k)

StoreInv == StoreTypes /\ pull \in [Puller -> PullType] /\ Inserted /\ Ingesting /\ RowsHaveEvents

LEMMA NumbersWith ==
    ASSUME NEW S, NEW i, NEW a
    PROVE  {m[1] : m \in S \cup {<<i, a>>}} = {m[1] : m \in S} \cup {i}
<1>1. <<i, a>>[1] = i
  OBVIOUS
<1> QED BY <1>1

LEMMA AbsentType == Absent \in EventType
BY DEF Absent, EventType

\* What is left when nothing is inserted or written.
LEMMA QuietStore ==
    ASSUME StoreInv, UNCHANGED <<row, event, nextId>>, place' \in Place \cup {None},
           pull' \in [Puller -> PullType],
           \A p \in Puller : /\ pull'[p].mine \in {pull[p].mine, {}}
                             /\ pull'[p].mine = pull[p].mine => /\ pull'[p].read = pull[p].read
                                                               /\ pull'[p].work = pull[p].work
                             /\ pull'[p].mine # pull[p].mine =>
                                   pull'[p].read = <<>> /\ pull'[p].work = <<>>
    PROVE  StoreInv'
<1>1. StoreTypes'
  BY DEF StoreInv, StoreTypes
<1>2. Rows' = Rows /\ \A k : RowsOf(k)' = RowsOf(k)
  BY DEF Rows, RowsOf
<1>3. RowsHaveEvents'
  BY <1>2 DEF StoreInv, RowsHaveEvents
<1>4. Inserted'
  BY <1>2 DEF StoreInv, Inserted
<1>5. Ingesting'
  <2> SUFFICES ASSUME NEW p \in Puller
               PROVE  /\ DOMAIN pull'[p].work = DOMAIN pull'[p].read
                      /\ \A m \in pull'[p].mine : EventKey(m[2]) \in DOMAIN pull'[p].work
                      /\ \A k \in DOMAIN pull'[p].work :
                            /\ pull'[p].read[k] # Absent => Names(pull'[p].read[k], k, RowsOf(k)')
                            /\ Names(pull'[p].work[k], k, RowsOf(k)' \cup Own(p, k)')
                            /\ pull'[p].work[k].latest \in Own(p, k)'
    BY DEF Ingesting
  <2>1. CASE pull'[p].mine = pull[p].mine
    BY <1>2, <2>1 DEF StoreInv, Ingesting, Own
  <2>2. CASE pull'[p].mine # pull[p].mine
    BY <2>2
  <2> QED BY <2>1, <2>2
<1> QED BY <1>1, <1>3, <1>4, <1>5 DEF StoreInv

LEMMA IngestFacts ==
    ASSUME NEW e \in EventType, NEW i \in Id, NEW a \in Alert, NEW meta \in Place \cup {None},
           NEW I, e = Absent \/ Names(e, EventKey(a), I)
    PROVE  /\ Ingest(e, i, a, meta) \in EventType /\ Ingest(e, i, a, meta).latest = i
           /\ Names(Ingest(e, i, a, meta), EventKey(a), I \cup {i})
<1>1. a.time \in Nat /\ EventKey(a).kind = a.kind
  BY StoreAssumption DEF EventKey
<1>2. CASE a.kind = "file"
  <2>1. Ingest(e, i, a, meta) = IngestFileAlert(e, i, a, meta)
    BY <1>2 DEF Ingest
  <2>2. /\ IngestFileAlert(e, i, a, meta).raw = e.raw \cup {i}
        /\ IngestFileAlert(e, i, a, meta).latest = i
        /\ IngestFileAlert(e, i, a, meta) \in EventType
    BY <1>1 DEF IngestFileAlert, EventType
  <2>3. e.raw \subseteq I
    BY DEF Absent, Names
  <2> QED BY <2>1, <2>2, <2>3 DEF Names
<1>3. CASE a.kind # "file"
  <2>1. Ingest(e, i, a, meta) = [e EXCEPT !.latest = i]
    BY <1>3 DEF Ingest, IngestOther
  <2>2. /\ [e EXCEPT !.latest = i] \in EventType
        /\ [e EXCEPT !.latest = i].latest = i /\ [e EXCEPT !.latest = i].raw = e.raw
    BY DEF EventType
  <2>3. e.raw \subseteq I
    BY DEF Absent, Names
  <2> QED BY <1>1, <1>3, <2>1, <2>2, <2>3 DEF Names
<1> QED BY <1>2, <1>3

\* A row is inserted and its event rewritten in the transaction.
LEMMA StoreKeeps ==
    ASSUME StoreInv, NEW p \in Puller, NEW a \in Alert, NEW new \in PullType,
           new.mine = pull[p].mine, new.read = pull[p].read, new.work = pull[p].work,
           Store(p, a, new), UNCHANGED <<row, event, place>>
    PROVE  StoreInv'
<1> DEFINE k == EventKey(a)
           old == IF k \in DOMAIN pull[p].work THEN pull[p].work[k] ELSE event[k]
           e == Ingest(old, nextId, a, place)
           held == k \in DOMAIN pull[p].work
           read == IF held THEN new.read ELSE With(new.read, k, event[k])
           work == With(new.work, k, e)
           next == [new EXCEPT !.mine = @ \cup {<<nextId, a>>}, !.read = read, !.work = work]
<1>1. nextId \in Id /\ nextId' = nextId + 1 /\ pull' = [pull EXCEPT ![p] = next]
  BY DEF Store, Transaction, HoneyfileMeta
<1>2. /\ pull[p] \in PullType /\ k \in Keys /\ event[k] \in EventType
      /\ pull[p].read \in Copies /\ pull[p].work \in Copies /\ place \in Place \cup {None}
      /\ DOMAIN pull[p].work = DOMAIN pull[p].read
  BY DEF StoreInv, StoreTypes, PullType, Keys, Ingesting
<1>3. /\ DOMAIN pull[p].work \subseteq Keys
      /\ \A l \in DOMAIN pull[p].work : pull[p].work[l] \in EventType /\ pull[p].read[l] \in EventType
  BY <1>2 DEF Copies
<1>4. old \in EventType /\ (old = Absent \/ Names(old, k, RowsOf(k) \cup Own(p, k)))
  BY <1>2, <1>3 DEF StoreInv, Ingesting, RowsHaveEvents, Names
<1>5. /\ e \in EventType /\ e.latest = nextId
      /\ Names(e, k, RowsOf(k) \cup Own(p, k) \cup {nextId})
  BY <1>1, <1>2, <1>4, IngestFacts
<1> HIDE DEF e
<1>6. /\ DOMAIN read = DOMAIN pull[p].work \cup {k} /\ DOMAIN work = DOMAIN pull[p].work \cup {k}
      /\ \A l \in DOMAIN pull[p].work : read[l] = pull[p].read[l]
      /\ k \notin DOMAIN pull[p].work => read[k] = event[k]
      /\ work[k] = e /\ \A l \in DOMAIN pull[p].work \ {k} : work[l] = pull[p].work[l]
  <2> HIDE DEF k
  <2> QED BY <1>2 DEF With
<1>7. read \in Copies /\ work \in Copies
  <2>1. DOMAIN work \in SUBSET Keys /\ DOMAIN read \in SUBSET Keys
    BY <1>2, <1>3, <1>6
  <2>2. work \in [DOMAIN work -> EventType]
    <3>1. work = [l \in DOMAIN work |-> work[l]]
      BY DEF With
    <3> HIDE DEF work
    <3> QED BY <1>3, <1>5, <1>6, <3>1
  <2>3. read \in [DOMAIN read -> EventType]
    <3>1. read = [l \in DOMAIN read |-> read[l]]
      BY <1>2 DEF With, Copies
    <3> HIDE DEF read
    <3> QED BY <1>2, <1>3, <1>6, <3>1
  <2> QED BY <2>1, <2>2, <2>3 DEF Copies
<1> HIDE DEF read, work
<1>8. /\ next \in PullType /\ next.mine = pull[p].mine \cup {<<nextId, a>>}
      /\ next.read = read /\ next.work = work
  <2>1. pull[p].mine \cup {<<nextId, a>>} \in SUBSET (Id \X Alert)
    BY <1>1, <1>2 DEF PullType
  <2> QED BY <1>7, <2>1 DEF PullType
<1> HIDE DEF next
<1>9. pull' \in [Puller -> PullType] /\ pull'[p] = next /\ \A q \in Puller \ {p} : pull'[q] = pull[q]
  BY <1>1, <1>8 DEF StoreInv
<1>10. Rows' = Rows /\ \A l : RowsOf(l)' = RowsOf(l)
  BY DEF Rows, RowsOf
<1>11. nextId \in Nat /\ row[nextId] = None /\ nextId' \in 1..MaxRows + 1
  BY <1>1, StoreAssumption DEF Id, Rows, StoreInv, Inserted
<1>12. StoreTypes' /\ RowsHaveEvents'
  BY <1>10, <1>11 DEF StoreInv, StoreTypes, RowsHaveEvents
<1>13. Inserted'
  <2>1. \A q \in Puller : \A m \in pull[q].mine : m[1] < nextId /\ m[1] \in Nat
    BY DEF StoreInv, Inserted, PullType, Id
  <2>2. \A i \in Rows : i < nextId /\ i \in Nat
    BY DEF StoreInv, Inserted, Rows, Id
  <2>3. \A q \in Puller : \A m \in pull'[q].mine :
            (q = p /\ m = <<nextId, a>>) \/ m \in pull[q].mine
    BY <1>8, <1>9
  <2>4. \A q \in Puller : \A m \in pull'[q].mine : m[1] < nextId + 1 /\ row[m[1]] = None
    BY <1>11, <2>1, <2>3 DEF StoreInv, Inserted
  <2>5. \A q, r \in Puller : \A m \in pull'[q].mine, n \in pull'[r].mine :
            m[1] = n[1] => q = r /\ m = n
    BY <1>11, <2>1, <2>3 DEF StoreInv, Inserted
  <2> QED BY <1>1, <1>10, <1>11, <2>2, <2>4, <2>5 DEF Inserted
<1>14. Own(p, k)' = Own(p, k) \cup {nextId} /\ \A l : l # k => Own(p, l)' = Own(p, l)
  <2>1. pull'[p].mine = pull[p].mine \cup {<<nextId, a>>}
    BY <1>8, <1>9
  <2>2. \A l : Own(p, l)' = {m[1] : m \in {n \in pull[p].mine \cup {<<nextId, a>>} : EventKey(n[2]) = l}}
    BY <2>1 DEF Own
  <2>3. \A l : {n \in pull[p].mine \cup {<<nextId, a>>} : EventKey(n[2]) = l}
               = {n \in pull[p].mine : EventKey(n[2]) = l} \cup (IF l = k THEN {<<nextId, a>>} ELSE {})
    OBVIOUS
  <2>4. Own(p, k)' = {m[1] : m \in {n \in pull[p].mine : EventKey(n[2]) = k} \cup {<<nextId, a>>}}
    BY <2>2, <2>3
  <2>5. ASSUME NEW l, l # k PROVE Own(p, l)' = Own(p, l)
    BY <2>2, <2>3, <2>5 DEF Own
  <2> DEFINE mine == {n \in pull[p].mine : EventKey(n[2]) = k}
  <2>6. {m[1] : m \in mine \cup {<<nextId, a>>}} = {m[1] : m \in mine} \cup {nextId}
    BY NumbersWith
  <2>7. Own(p, k)' = Own(p, k) \cup {nextId}
    BY <2>4, <2>6 DEF Own
  <2> QED BY <2>5, <2>7
<1>15. Ingesting'
  <2> SUFFICES ASSUME NEW q \in Puller
               PROVE  /\ DOMAIN pull'[q].work = DOMAIN pull'[q].read
                      /\ \A m \in pull'[q].mine : EventKey(m[2]) \in DOMAIN pull'[q].work
                      /\ \A l \in DOMAIN pull'[q].work :
                            /\ pull'[q].read[l] # Absent => Names(pull'[q].read[l], l, RowsOf(l)')
                            /\ Names(pull'[q].work[l], l, RowsOf(l)' \cup Own(q, l)')
                            /\ pull'[q].work[l].latest \in Own(q, l)'
    BY DEF Ingesting
  <2>1. CASE q # p
    BY <1>9, <1>10, <2>1 DEF StoreInv, Ingesting, Own
  <2>2. CASE q = p
    <3>1. \A m \in pull'[p].mine : EventKey(m[2]) \in DOMAIN work
      BY <1>6, <1>8, <1>9 DEF StoreInv, Ingesting
    <3>2. ASSUME NEW l \in DOMAIN work
          PROVE  /\ read[l] # Absent => Names(read[l], l, RowsOf(l))
                 /\ Names(work[l], l, RowsOf(l) \cup Own(p, l)')
                 /\ work[l].latest \in Own(p, l)'
      <4>1. read[l] # Absent => Names(read[l], l, RowsOf(l))
        BY <1>2, <1>6 DEF StoreInv, Ingesting, RowsHaveEvents, Names
      <4>2. CASE l = k
        BY <1>5, <1>6, <1>14, <4>1, <4>2 DEF Names
      <4>3. CASE l # k
        <5>1. l \in DOMAIN pull[p].work /\ work[l] = pull[p].work[l] /\ Own(p, l)' = Own(p, l)
          BY <1>6, <1>14, <4>3
        <5> QED BY <4>1, <5>1 DEF StoreInv, Ingesting
      <4> QED BY <4>2, <4>3
    <3> QED BY <1>6, <1>8, <1>9, <1>10, <2>2, <3>1, <3>2
  <2> QED BY <2>1, <2>2
<1> QED BY <1>9, <1>12, <1>13, <1>15 DEF StoreInv

LEMMA NoCopies == \A f \in Copies : DOMAIN f = {} => f = <<>>
<1> SUFFICES ASSUME NEW f \in Copies, DOMAIN f = {} PROVE f = <<>>
  OBVIOUS
<1>1. f = [k \in {} |-> f[k]]
  BY DEF Copies
<1>2. <<>> = [k \in {} |-> <<>>[k]]
  OBVIOUS
<1> QED BY <1>1, <1>2

LEMMA IdleType == Idle \in PullType /\ Idle.mine = {} /\ Idle.read = <<>> /\ Idle.work = <<>>
<1>1. <<>> \in Copies
  <2>1. <<>> \in [{} -> EventType] /\ {} \in SUBSET Keys
    OBVIOUS
  <2> QED BY <2>1 DEF Copies
<1>2. <<>> \in Seq(Alert)
  OBVIOUS
<1> QED BY <1>1, <1>2 DEF Idle, PullType

\* The pull p goes on with what it has inserted, or ends.
LEMMA PullGoesOn ==
    ASSUME StoreInv, NEW p \in Puller, NEW new \in PullType, Transaction(p, new),
           \/ new.mine = pull[p].mine /\ new.read = pull[p].read /\ new.work = pull[p].work
           \/ new.mine = {} /\ new.read = <<>> /\ new.work = <<>>,
           UNCHANGED <<row, event, nextId, place>>
    PROVE  StoreInv'
<1>1. pull' = [pull EXCEPT ![p] = new] /\ pull \in [Puller -> PullType]
  BY DEF Transaction, StoreInv
<1>2. pull' \in [Puller -> PullType] /\ pull'[p] = new /\ \A q \in Puller \ {p} : pull'[q] = pull[q]
  BY <1>1
<1>3. place' \in Place \cup {None}
  BY DEF StoreInv, StoreTypes
<1>4. pull[p].mine = {} => pull[p].work = <<>> /\ pull[p].read = <<>>
  <2> SUFFICES ASSUME pull[p].mine = {} PROVE pull[p].work = <<>> /\ pull[p].read = <<>>
    OBVIOUS
  <2>1. \A k : Own(p, k) = {}
    BY DEF Own
  <2>2. DOMAIN pull[p].work = {} /\ DOMAIN pull[p].read = {}
    BY <2>1 DEF StoreInv, Ingesting
  <2>3. pull[p] \in PullType
    BY <1>1
  <2> QED BY <2>2, <2>3, NoCopies DEF PullType
<1> QED BY <1>2, <1>3, <1>4, QuietStore

LEMMA StartPullKeeps == ASSUME StoreInv, NEW p \in Puller, StartPull(p), arrived \subseteq Alert PROVE StoreInv'
<1>1. PICK B \in SUBSET arrived : \E s \in NewestFirst(B) :
         Transaction(p, [Idle EXCEPT !.pc = "work", !.todo = s])
  BY DEF StartPull
<1>2. PICK s \in NewestFirst(B) : Transaction(p, [Idle EXCEPT !.pc = "work", !.todo = s])
  BY <1>1
<1>3. Cardinality(B) \in Nat
  BY StoreAssumption, FS_Subset, FS_CardinalityType
<1>4. s \in Seq(Alert)
  <2>1. s \in [1..Cardinality(B) -> B]
    BY DEF NewestFirst, SetToSeqs
  <2> QED BY <1>3, <2>1
<1> DEFINE new == [Idle EXCEPT !.pc = "work", !.todo = s]
<1>5. new \in PullType /\ new.mine = {} /\ new.read = <<>> /\ new.work = <<>>
  BY <1>4, IdleType DEF PullType
<1> HIDE DEF new
<1> QED BY <1>2, <1>5, PullGoesOn DEF StartPull, tables, new

LEMMA CheckKeeps == ASSUME StoreInv, NEW p \in Puller, Check(p) PROVE StoreInv'
<1> DEFINE a == Head(pull[p].todo)
           repeated == \E b \in pull[p].had : SameInBatch(a, b)
           rest == [pull[p] EXCEPT !.todo = Tail(@), !.had = IF repeated THEN @ ELSE @ \cup {a}]
           fresh == [rest EXCEPT !.fresh = Append(@, a)]
<1>1. /\ pull[p] \in PullType /\ pull[p].todo \in Seq(Alert) /\ pull[p].todo # <<>>
      /\ pull[p].fresh \in Seq(Alert)
  BY DEF Check, StoreInv, PullType
<1>2. a \in Alert /\ Tail(pull[p].todo) \in Seq(Alert)
  BY <1>1
<1>3. /\ rest \in PullType /\ rest.mine = pull[p].mine /\ rest.read = pull[p].read
      /\ rest.work = pull[p].work /\ rest.fresh = pull[p].fresh
  BY <1>1, <1>2 DEF PullType
<1>4. UNCHANGED <<row, event, place>>
  BY DEF Check, tables
<1>5. \/ Transaction(p, rest) /\ UNCHANGED nextId
      \/ Transaction(p, fresh) /\ UNCHANGED nextId
      \/ Store(p, a, rest)
  BY DEF Check
<1>6. /\ fresh \in PullType /\ fresh.mine = pull[p].mine /\ fresh.read = pull[p].read
      /\ fresh.work = pull[p].work
  <2> HIDE DEF rest
  <2>1. Append(rest.fresh, a) \in Seq(Alert)
    BY <1>1, <1>2, <1>3
  <2> QED BY <1>3, <2>1 DEF PullType
<1> HIDE DEF rest, a, fresh
<1>7. CASE Transaction(p, rest) /\ UNCHANGED nextId
  BY <1>3, <1>4, <1>7, PullGoesOn
<1>8. CASE Transaction(p, fresh) /\ UNCHANGED nextId
  BY <1>4, <1>6, <1>8, PullGoesOn
<1>9. CASE Store(p, a, rest)
  BY <1>2, <1>3, <1>4, <1>9, StoreKeeps
<1> QED BY <1>5, <1>7, <1>8, <1>9

LEMMA IngestFileKeeps == ASSUME StoreInv, NEW p \in Puller, IngestFile(p) PROVE StoreInv'
<1> DEFINE new == [pull[p] EXCEPT !.fresh = Tail(@)]
<1>1. /\ pull[p] \in PullType /\ pull[p].fresh \in Seq(Alert) /\ pull[p].fresh # <<>>
  BY DEF IngestFile, StoreInv, PullType
<1>2. Head(pull[p].fresh) \in Alert /\ Tail(pull[p].fresh) \in Seq(Alert)
  BY <1>1
<1>3. /\ new \in PullType /\ new.mine = pull[p].mine /\ new.read = pull[p].read
      /\ new.work = pull[p].work
  BY <1>1, <1>2 DEF PullType
<1>4. Store(p, Head(pull[p].fresh), new) /\ UNCHANGED <<row, event, place>>
  BY DEF IngestFile, tables
<1> HIDE DEF new
<1> QED BY <1>2, <1>3, <1>4, StoreKeeps

-----------------------------------------------------------------------------
\* The rows of a pull, written.
LEMMA WrittenRowsAre ==
    ASSUME StoreInv, NEW p \in Puller, row' = WrittenRows(p)
    PROVE  /\ row' \in [Id -> Alert \cup {None}]
           /\ \A m \in pull[p].mine : row'[m[1]] = m[2]
           /\ \A i \in Id : row[i] # None => row'[i] = row[i]
           /\ \A i \in Id : row'[i] # row[i] => \E m \in pull[p].mine : m[1] = i
           /\ \A k : RowsOf(k)' = RowsOf(k) \cup Own(p, k)
           /\ Rows' = Rows \cup {m[1] : m \in pull[p].mine}
<1> DEFINE mine == pull[p].mine
           of(i) == CHOOSE m \in mine : m[1] = i
<1>1. mine \subseteq Id \X Alert /\ row \in [Id -> Alert \cup {None}]
  BY DEF StoreInv, StoreTypes, PullType
<1>2. \A m, n \in mine : m[1] = n[1] => m = n
  BY DEF StoreInv, Inserted
<1>3. \A i \in Id : row'[i] = IF \E m \in mine : m[1] = i THEN of(i)[2] ELSE row[i]
  BY DEF WrittenRows
<1>4. \A m \in mine : m[1] \in Id /\ of(m[1]) = m /\ m[2] \in Alert /\ row[m[1]] = None
  BY <1>1, <1>2 DEF StoreInv, Inserted
<1>5. \A m \in mine : row'[m[1]] = m[2]
  BY <1>3, <1>4
<1>6. \A i \in Id : (~\E m \in mine : m[1] = i) => row'[i] = row[i]
  BY <1>3
<1>7. row' \in [Id -> Alert \cup {None}]
  <2>1. \A i \in Id : row'[i] \in Alert \cup {None}
    BY <1>1, <1>4, <1>5, <1>6
  <2>2. DOMAIN row' = Id /\ row' = [i \in Id |-> row'[i]]
    BY DEF WrittenRows
  <2> QED BY <2>1, <2>2
<1>8. \A i \in Id : row[i] # None => row'[i] = row[i]
  BY <1>4, <1>6
<1>9. \A i \in Id : row'[i] # row[i] => \E m \in mine : m[1] = i
  BY <1>6
<1>10. \A m \in mine : m[2] # None
  BY <1>4, StoreAssumption
<1>11. Rows' = Rows \cup {m[1] : m \in mine}
  <2>1. Rows' \subseteq Rows \cup {m[1] : m \in mine}
    BY <1>6 DEF Rows
  <2>2. Rows \subseteq Rows'
    BY <1>8 DEF Rows
  <2>3. {m[1] : m \in mine} \subseteq Rows'
    BY <1>4, <1>5, <1>10 DEF Rows
  <2> QED BY <2>1, <2>2, <2>3
<1>12. ASSUME NEW k PROVE RowsOf(k)' = RowsOf(k) \cup Own(p, k)
  <2>1. ASSUME NEW i \in RowsOf(k)' PROVE i \in RowsOf(k) \cup Own(p, k)
    BY <1>5, <1>6, <1>11 DEF RowsOf, Own, Rows
  <2>2. ASSUME NEW i \in RowsOf(k) PROVE i \in RowsOf(k)'
    BY <1>8, <1>11 DEF RowsOf, Rows
  <2>3. ASSUME NEW i \in Own(p, k) PROVE i \in RowsOf(k)'
    BY <1>5, <1>11 DEF RowsOf, Own
  <2> QED BY <2>1, <2>2, <2>3
<1> QED BY <1>5, <1>7, <1>8, <1>9, <1>11, <1>12

\* The events as an UPDATE leaves them.
LEMMA WrittenEventsAre ==
    ASSUME StoreInv, NEW p \in Puller, ~Conflict(p), NEW k \in DOMAIN pull[p].work
    PROVE  /\ k \in Keys /\ WrittenEvents(p)[k] \in EventType /\ WrittenEvents(p)[k] # Absent
           /\ Names(WrittenEvents(p)[k], k, RowsOf(k) \cup Own(p, k))
<1> DEFINE read == pull[p].read[k]
           work == pull[p].work[k]
           now == event[k]
           new == [c \in DOMAIN work |-> IF work[c] = read[c] THEN now[c] ELSE work[c]]
<1>1. pull[p].read \in Copies /\ pull[p].work \in Copies /\ DOMAIN pull[p].work = DOMAIN pull[p].read
  BY DEF StoreInv, PullType, Ingesting
<1>2. k \in Keys /\ read \in EventType /\ work \in EventType /\ now \in EventType
  BY <1>1 DEF Copies, StoreInv, StoreTypes
<1>3. WrittenEvents(p)[k] = new
  BY <1>2 DEF WrittenEvents, Merge
<1>4. /\ read # Absent => Names(read, k, RowsOf(k))
      /\ Names(work, k, RowsOf(k) \cup Own(p, k)) /\ work.latest \in Own(p, k)
      /\ now # Absent => Names(now, k, RowsOf(k))
  BY <1>2 DEF StoreInv, Ingesting, RowsHaveEvents, Names
<1>5. Own(p, k) \cap RowsOf(k) = {} /\ Own(p, k) \subseteq Id /\ 0 \notin Id
  <2>1. \A m \in pull[p].mine : row[m[1]] = None /\ m[1] \in Id
    BY DEF StoreInv, Inserted, PullType
  <2> QED BY <2>1 DEF Own, RowsOf, Rows, Id
<1>6. /\ new \in EventType
      /\ new.raw \in {work.raw, now.raw} /\ (work.raw # read.raw => new.raw = work.raw)
      /\ (work.latest # read.latest => new.latest = work.latest)
  <2> HIDE DEF read, work, now
  <2> QED BY <1>2 DEF EventType
<1>7. /\ read.latest \in RowsOf(k) \cup {0} /\ read.raw \subseteq RowsOf(k)
      /\ now.raw \subseteq RowsOf(k)
  <2> HIDE DEF read, now
  <2> QED BY <1>4 DEF Absent, Names
<1> HIDE DEF new, read, work, now
<1>8. new.latest = work.latest /\ new.latest \in Own(p, k)
  BY <1>4, <1>5, <1>6, <1>7
<1>9. k.kind = "file" => new.raw = work.raw
  BY <1>4, <1>5, <1>6, <1>7 DEF Names
<1>10. new # Absent
  BY <1>5, <1>8 DEF Absent
<1>11. Names(new, k, RowsOf(k) \cup Own(p, k))
  BY <1>4, <1>6, <1>7, <1>8, <1>9 DEF Names
<1> QED BY <1>2, <1>3, <1>6, <1>10, <1>11

LEMMA CommitKeeps == ASSUME StoreInv, NEW p \in Puller, Commit(p) PROVE StoreInv'
<1>1. CASE Conflict(p)
  BY <1>1, IdleType, PullGoesOn DEF Commit, tables
<1>2. CASE ~Conflict(p)
  <2>1. /\ row' = WrittenRows(p) /\ event' = WrittenEvents(p) /\ UNCHANGED <<nextId, place>>
        /\ pull' = [pull EXCEPT ![p] = Idle]
    BY <1>2 DEF Commit, Transaction
  <2>2. /\ pull' \in [Puller -> PullType] /\ pull'[p] = Idle /\ \A q \in Puller \ {p} : pull'[q] = pull[q]
    BY <2>1, IdleType DEF StoreInv
  <2>3. /\ row' \in [Id -> Alert \cup {None}]
        /\ \A m \in pull[p].mine : row'[m[1]] = m[2]
        /\ \A i \in Id : row[i] # None => row'[i] = row[i]
        /\ \A i \in Id : row'[i] # row[i] => \E m \in pull[p].mine : m[1] = i
        /\ \A k : RowsOf(k)' = RowsOf(k) \cup Own(p, k)
        /\ Rows' = Rows \cup {m[1] : m \in pull[p].mine}
    BY <2>1, WrittenRowsAre
  <2>4. \A k \in DOMAIN pull[p].work :
           /\ k \in Keys /\ event'[k] \in EventType /\ event'[k] # Absent
           /\ Names(event'[k], k, RowsOf(k)')
    BY <1>2, <2>1, <2>3, WrittenEventsAre
  <2>5. /\ DOMAIN event' = Keys /\ event' = [k \in Keys |-> event'[k]]
        /\ \A k \in Keys \ DOMAIN pull[p].work : event'[k] = event[k]
    BY <2>1 DEF WrittenEvents
  <2>6. StoreTypes'
    <3>1. \A k \in Keys : event'[k] \in EventType
      BY <2>4, <2>5 DEF StoreInv, StoreTypes
    <3> QED BY <2>1, <2>3, <2>5, <3>1 DEF StoreInv, StoreTypes
  <2>7. RowsHaveEvents'
    <3>1. ASSUME NEW i \in Rows' PROVE event'[EventKey(row'[i])] # Absent
      <4>1. CASE i \in Rows
        <5>1. row'[i] = row[i] /\ event[EventKey(row[i])] # Absent /\ EventKey(row[i]) \in Keys
          BY <2>3, <4>1, RowFacts DEF StoreInv, RowsHaveEvents, Rows
        <5> QED BY <2>4, <2>5, <5>1
      <4>2. CASE i \notin Rows
        <5>1. PICK m \in pull[p].mine : m[1] = i
          BY <2>3, <4>2
        <5>2. row'[i] = m[2] /\ EventKey(m[2]) \in DOMAIN pull[p].work
          BY <2>3, <5>1 DEF StoreInv, Ingesting
        <5> QED BY <2>4, <5>2
      <4> QED BY <4>1, <4>2
    <3>2. ASSUME NEW k \in Keys, event'[k] # Absent PROVE Names(event'[k], k, RowsOf(k)')
      <4>1. CASE k \in DOMAIN pull[p].work
        BY <2>4, <4>1
      <4>2. CASE k \notin DOMAIN pull[p].work
        <5>1. event'[k] = event[k] /\ RowsOf(k) \subseteq RowsOf(k)'
          BY <2>3, <2>5, <4>2
        <5> QED BY <3>2, <5>1 DEF StoreInv, RowsHaveEvents, Names
      <4> QED BY <4>1, <4>2
    <3> QED BY <3>1, <3>2 DEF RowsHaveEvents, Names
  <2>8. Inserted'
    <3>1. \A i \in Rows' : i < nextId'
      BY <2>1, <2>3 DEF StoreInv, Inserted
    <3>2. \A q \in Puller : \A m \in pull'[q].mine : m[1] < nextId' /\ row'[m[1]] = None
      <4> SUFFICES ASSUME NEW q \in Puller \ {p}, NEW m \in pull[q].mine
                   PROVE  m[1] < nextId /\ row'[m[1]] = None
        BY <2>1, <2>2, IdleType
      <4>1. m[1] < nextId /\ row[m[1]] = None /\ m[1] \in Id
        BY DEF StoreInv, Inserted, PullType
      <4>2. ~\E n \in pull[p].mine : n[1] = m[1]
        BY DEF StoreInv, Inserted
      <4> QED BY <2>3, <4>1, <4>2
    <3>3. \A q, r \in Puller : \A m \in pull'[q].mine, n \in pull'[r].mine : m[1] = n[1] => q = r /\ m = n
      BY <2>2, IdleType DEF StoreInv, Inserted
    <3> QED BY <3>1, <3>2, <3>3 DEF Inserted
  <2>9. Ingesting'
    <3> SUFFICES ASSUME NEW q \in Puller
                 PROVE  /\ DOMAIN pull'[q].work = DOMAIN pull'[q].read
                        /\ \A m \in pull'[q].mine : EventKey(m[2]) \in DOMAIN pull'[q].work
                        /\ \A l \in DOMAIN pull'[q].work :
                              /\ pull'[q].read[l] # Absent => Names(pull'[q].read[l], l, RowsOf(l)')
                              /\ Names(pull'[q].work[l], l, RowsOf(l)' \cup Own(q, l)')
                              /\ pull'[q].work[l].latest \in Own(q, l)'
      BY DEF Ingesting
    <3>1. CASE q = p
      BY <2>2, <3>1, IdleType
    <3>2. CASE q # p
      <4>1. pull'[q] = pull[q] /\ \A l : Own(q, l)' = Own(q, l) /\ RowsOf(l) \subseteq RowsOf(l)'
        BY <2>2, <2>3, <3>2 DEF Own
      <4> QED BY <4>1 DEF StoreInv, Ingesting, Names
    <3> QED BY <3>1, <3>2
  <2> QED BY <2>2, <2>6, <2>7, <2>8, <2>9 DEF StoreInv
<1> QED BY <1>1, <1>2

-----------------------------------------------------------------------------
\* Events that are as they should be among the rows.
AsTheRows(events) ==
    /\ events \in [Keys -> EventType]
    /\ \A i \in Rows : events[EventKey(row[i])] # Absent
    /\ \A k \in Keys : events[k] # Absent => Names(events[k], k, RowsOf(k))

LEMMA InvIsAsTheRows == StoreInv => AsTheRows(event)
BY DEF StoreInv, StoreTypes, RowsHaveEvents, AsTheRows, Names

LEMMA RefreshedFacts ==
    ASSUME StoreTypes, NEW events, AsTheRows(events)
    PROVE  /\ AsTheRows(Refreshed(events))
           /\ \A k \in Keys : /\ Refreshed(events)[k].raw = events[k].raw
                              /\ Refreshed(events)[k].latest = events[k].latest
                              /\ Refreshed(events)[k].first = events[k].first
                              /\ Refreshed(events)[k].last = events[k].last
<1> DEFINE new == Refreshed(events)
<1>1. /\ \A k \in Keys : events[k] \in EventType
      /\ place \in Place \cup {None}
  BY DEF AsTheRows, StoreTypes
<1>2. \A k \in Keys : new[k] = IF k.kind = "file" /\ events[k] # Absent /\ place # None
                               THEN [events[k] EXCEPT !.place = place] ELSE events[k]
  BY DEF Refreshed
<1>3. new = [k \in Keys |-> new[k]]
  BY DEF Refreshed
<1>4. ASSUME NEW k \in Keys
      PROVE  /\ new[k] \in EventType /\ new[k].raw = events[k].raw /\ new[k].latest = events[k].latest
             /\ new[k].first = events[k].first /\ new[k].last = events[k].last
             /\ (events[k] = Absent => new[k] = Absent)
  BY <1>1, <1>2 DEF EventType
<1>5. ASSUME NEW k \in Keys, events[k] # Absent PROVE new[k] # Absent
  <2>1. events[k].latest \in Id /\ 0 \notin Id
    BY <1>5 DEF AsTheRows, Names, RowsOf, Rows, Id
  <2> QED BY <1>4, <2>1 DEF Absent
<1> HIDE DEF new
<1>6. new \in [Keys -> EventType]
  BY <1>3, <1>4
<1>7. \A i \in Rows : new[EventKey(row[i])] # Absent
  BY <1>5, RowFacts DEF AsTheRows
<1>8. \A k \in Keys : new[k] # Absent => Names(new[k], k, RowsOf(k))
  BY <1>4 DEF AsTheRows, Names
<1> QED BY <1>4, <1>6, <1>7, <1>8 DEF AsTheRows, new

LEMMA IngestAgainFacts ==
    ASSUME StoreTypes, NEW events, AsTheRows(events), NEW i \in Rows
    PROVE  /\ AsTheRows(IngestAgain(i, events))
           /\ IngestAgain(i, events)[EventKey(row[i])] = Ingest(events[EventKey(row[i])], i, row[i], place)
           /\ \A k \in Keys \ {EventKey(row[i])} : IngestAgain(i, events)[k] = events[k]
<1> DEFINE k == EventKey(row[i])
           e == Ingest(events[k], i, row[i], place)
           new == IngestAgain(i, events)
<1>1. i \in Id /\ row[i] \in Alert /\ k \in Keys /\ i \in RowsOf(k) /\ 0 \notin Id
  BY RowFacts DEF RowsOf, Id
<1>2. events[k] \in EventType /\ Names(events[k], k, RowsOf(k)) /\ place \in Place \cup {None}
  BY <1>1 DEF AsTheRows, StoreTypes
<1>3. e \in EventType /\ e.latest = i /\ Names(e, k, RowsOf(k) \cup {i})
  BY <1>1, <1>2, IngestFacts
<1>4. RowsOf(k) \cup {i} = RowsOf(k)
  BY <1>1
<1>5. new = [events EXCEPT ![k] = e] /\ events \in [Keys -> EventType]
  BY DEF IngestAgain, AsTheRows, HoneyfileMeta
<1> HIDE DEF e, new
<1>6. new \in [Keys -> EventType] /\ new[k] = e /\ \A l \in Keys \ {k} : new[l] = events[l]
  BY <1>1, <1>3, <1>5
<1>7. e # Absent
  BY <1>1, <1>3 DEF Absent
<1>8. \A j \in Rows : new[EventKey(row[j])] # Absent
  BY <1>6, <1>7, RowFacts DEF AsTheRows
<1>9. \A l \in Keys : new[l] # Absent => Names(new[l], l, RowsOf(l))
  BY <1>3, <1>4, <1>6 DEF AsTheRows
<1> QED BY <1>6, <1>8, <1>9 DEF AsTheRows, new, e

\* What is so of an event once the rows of S have been ingested again.
Again(events, S) ==
    \A k \in Keys : RowsOf(k) \cap S # {} =>
        /\ events[k].latest \in RowsOf(k) \cap S
        /\ \A i \in RowsOf(k) \cap S : row[i].time <= row[events[k].latest].time
        /\ k.kind = "file" =>
              /\ RowsOf(k) \cap S \subseteq events[k].raw
              /\ \A i \in RowsOf(k) \cap S : row[i].time \in events[k].first..events[k].last

LEMMA OneMoreAgain ==
    ASSUME StoreTypes, NEW S \in SUBSET Rows, S # {}, NEW events, AsTheRows(events),
           Again(events, S \ {LastInTime(S)})
    PROVE  Again(IngestAgain(LastInTime(S), events), S)
<1> DEFINE i == LastInTime(S)
           K == EventKey(row[i])
           a == row[i]
           old == events[K]
           new == IngestAgain(i, events)
<1>1. /\ i \in S /\ i \in Rows /\ a \in Alert /\ K \in Keys /\ i \in RowsOf(K)
      /\ K.kind = a.kind /\ a.time \in Nat
  BY LastIsLast, RowFacts DEF RowsOf, EventKey
<1>2. \A j \in S : row[j].time \in Nat /\ row[j].time <= a.time
  BY LastIsLast, RowFacts DEF InTime
<1>3. /\ new[K] = Ingest(old, i, a, place) /\ \A k \in Keys \ {K} : new[k] = events[k]
      /\ old \in EventType
  BY <1>1 DEF IngestAgain, AsTheRows, HoneyfileMeta
<1>4. new[K].latest = i
  <2>1. old \in EventType /\ i \in Id
    BY <1>1, <1>3, RowFacts
  <2>2. [old EXCEPT !.latest = i].latest = i
    BY <2>1 DEF EventType
  <2> HIDE DEF i, K, new, old
  <2> QED BY <1>3, <2>2 DEF Ingest, IngestFileAlert, IngestOther
<1> HIDE DEF i, new
<1> SUFFICES ASSUME NEW k \in Keys, RowsOf(k) \cap S # {}
             PROVE  /\ new[k].latest \in RowsOf(k) \cap S
                    /\ \A j \in RowsOf(k) \cap S : row[j].time <= row[new[k].latest].time
                    /\ k.kind = "file" =>
                          /\ RowsOf(k) \cap S \subseteq new[k].raw
                          /\ \A j \in RowsOf(k) \cap S : row[j].time \in new[k].first..new[k].last
  BY DEF Again, new, i
<1>5. CASE k # K
  <2>1. RowsOf(k) \cap (S \ {i}) = RowsOf(k) \cap S
    BY <1>5 DEF RowsOf
  <2> QED BY <1>3, <1>5, <2>1 DEF Again, i
<1>6. CASE k = K
  <2>1. k.kind = "file" =>
           /\ RowsOf(k) \cap S \subseteq new[k].raw
           /\ \A j \in RowsOf(k) \cap S : row[j].time \in new[k].first..new[k].last
    <3> SUFFICES ASSUME k.kind = "file"
                 PROVE  /\ RowsOf(k) \cap S \subseteq new[k].raw
                        /\ \A j \in RowsOf(k) \cap S : row[j].time \in new[k].first..new[k].last
      OBVIOUS
    <3>1. new[K] = IngestFileAlert(old, i, a, place)
      BY <1>1, <1>3, <1>6 DEF Ingest
    <3>2. /\ new[K].raw = old.raw \cup {i}
          /\ new[K].first = IF old = Absent \/ a.time < old.first THEN a.time ELSE old.first
          /\ new[K].last = IF old = Absent \/ a.time > old.last THEN a.time ELSE old.last
          /\ old.first \in Nat /\ old.last \in Nat
      BY <1>3, <3>1 DEF IngestFileAlert, EventType
    <3>3. old # Absent
      BY <1>1 DEF AsTheRows
    <3>4. ASSUME NEW j \in RowsOf(k) \cap S, j # i
          PROVE  j \in old.raw /\ row[j].time \in old.first..old.last
      BY <1>6, <3>4 DEF Again, i
    <3> HIDE DEF old, a
    <3>5. ASSUME NEW j \in RowsOf(k) \cap S PROVE row[j].time \in new[K].first..new[K].last
      <4>1. CASE j = i
        BY <1>1, <3>2, <3>3, <4>1 DEF a
      <4>2. CASE j # i
        BY <1>1, <1>2, <3>2, <3>3, <3>4, <4>2
      <4> QED BY <4>1, <4>2
    <3> QED BY <1>6, <3>2, <3>4, <3>5
  <2> QED BY <1>1, <1>2, <1>4, <1>6, <2>1
<1> QED BY <1>5, <1>6

\* The rows ingested again one by one.
LEMMA AllAgain ==
    ASSUME StoreInv
    PROVE  AsTheRows(Ingested(Rows)[Rows]) /\ Again(Ingested(Rows)[Rows], Rows)
<1> DEFINE after == Ingested(Rows)
           C == {S \in SUBSET Rows : AsTheRows(after[S]) /\ Again(after[S], S)}
<1>1. StoreTypes
  BY DEF StoreInv
<1>2. after[{}] = event
  BY <1>1, Recursion
<1>3. {} \in C
  BY <1>2, InvIsAsTheRows DEF Again
<1>4. ASSUME NEW S \in SUBSET Rows, S # {}, S \ {LastInTime(S)} \in C
      PROVE  S \in C
  <2>1. after[S] = IngestAgain(LastInTime(S), after[S \ {LastInTime(S)}])
    BY <1>1, <1>4, Recursion
  <2>2. LastInTime(S) \in Rows
    BY <1>1, <1>4, LastIsLast
  <2>3. AsTheRows(after[S])
    BY <1>1, <1>4, <2>1, <2>2, IngestAgainFacts
  <2>4. Again(after[S], S)
    BY <1>1, <1>4, <2>1, OneMoreAgain
  <2> QED BY <2>3, <2>4
<1>5. C = SUBSET Rows
  <2>1. C \in SUBSET SUBSET Rows
    OBVIOUS
  <2> HIDE DEF C
  <2> QED BY <1>1, <1>3, <1>4, <2>1, RowByRow
<1> QED BY <1>5

LEMMA BackfilledFacts ==
    ASSUME StoreInv
    PROVE  AsTheRows(Backfilled) /\ Again(Backfilled, Rows)
<1>1. StoreTypes
  BY DEF StoreInv
<1> DEFINE events == Ingested(Rows)[Rows]
<1>2. AsTheRows(events) /\ Again(events, Rows)
  BY AllAgain
<1>3. Backfilled = Refreshed(events)
  BY BackfilledIs
<1> HIDE DEF events
<1> QED BY <1>1, <1>2, <1>3, RefreshedFacts DEF Again

LEMMA RestartKeeps == ASSUME StoreInv, Restart PROVE StoreInv'
<1>1. /\ pull' = [p \in Puller |-> Idle] /\ UNCHANGED <<row, nextId, place>>
      /\ event' = event \/ event' = Backfilled
  BY DEF Restart
<1>2. AsTheRows(event')
  BY <1>1, BackfilledFacts, InvIsAsTheRows
<1>3. Rows' = Rows /\ \A k : RowsOf(k)' = RowsOf(k)
  BY <1>1 DEF Rows, RowsOf
<1>4. StoreTypes' /\ RowsHaveEvents'
  BY <1>1, <1>2, <1>3 DEF StoreInv, StoreTypes, RowsHaveEvents, AsTheRows, Names
<1>5. pull' \in [Puller -> PullType] /\ Inserted' /\ Ingesting'
  BY <1>1, <1>3, IdleType DEF StoreInv, Inserted, Ingesting
<1> QED BY <1>4, <1>5 DEF StoreInv

LEMMA RestartRestores == ASSUME StoreInv, Restart, event' # event PROVE Rebuilt'
<1>1. row' = row /\ event' = Backfilled
  BY DEF Restart
<1>2. Rows' = Rows /\ \A k : RowsOf(k)' = RowsOf(k)
  BY <1>1 DEF Rows, RowsOf
<1>3. AsTheRows(event') /\ Again(event', Rows)
  BY <1>1, BackfilledFacts
<1>4. \A k : RowsOf(k) \cap Rows = RowsOf(k)
  BY DEF RowsOf
<1>5. ASSUME NEW k \in Keys, RowsOf(k) # {} PROVE event'[k].raw \subseteq RowsOf(k)
  BY <1>3, <1>5 DEF AsTheRows, Names, RowsOf
<1> QED BY <1>1, <1>2, <1>3, <1>4, <1>5 DEF Rebuilt, Again

LEMMA RefreshKeeps == ASSUME StoreInv, Refresh PROVE StoreInv'
<1>1. event' = Refreshed(event) /\ UNCHANGED <<row, nextId, place, pull>>
  BY DEF Refresh
<1>2. AsTheRows(event')
  BY <1>1, InvIsAsTheRows, RefreshedFacts DEF StoreInv
<1>3. Rows' = Rows /\ \A k : RowsOf(k)' = RowsOf(k)
  BY <1>1 DEF Rows, RowsOf
<1>4. StoreTypes' /\ RowsHaveEvents'
  BY <1>1, <1>2, <1>3 DEF StoreInv, StoreTypes, RowsHaveEvents, AsTheRows, Names
<1>5. pull' \in [Puller -> PullType] /\ Inserted'
  BY <1>1, <1>3 DEF StoreInv, Inserted
<1>6. \A p, k : Own(p, k)' = Own(p, k)
  BY <1>1 DEF Own
<1>7. Ingesting'
  BY <1>1, <1>3, <1>6 DEF StoreInv, Ingesting, Names
<1> QED BY <1>4, <1>5, <1>7 DEF StoreInv

LEMMA StoreUnmoved == ASSUME StoreInv, UNCHANGED <<row, nextId, event, place, pull>> PROVE StoreInv'
BY QuietStore DEF StoreInv, StoreTypes

LEMMA RedeployKeeps == ASSUME StoreInv, Redeploy PROVE StoreInv'
BY QuietStore DEF Redeploy, tables, StoreInv, StoreTypes

LEMMA StoreStarts == ASSUME StoreInit PROVE StoreInv
<1>1. Rows = {} /\ \A k : RowsOf(k) = {}
  BY DEF StoreInit, Rows, RowsOf
<1>2. StoreTypes
  BY AbsentType, StoreAssumption DEF StoreInit, StoreTypes
<1>3. RowsHaveEvents
  BY <1>1 DEF StoreInit, RowsHaveEvents
<1>4. pull \in [Puller -> PullType] /\ Inserted /\ Ingesting
  BY <1>1, IdleType DEF StoreInit, Inserted, Ingesting
<1> QED BY <1>2, <1>3, <1>4 DEF StoreInv

\* Pulls get alerts.
ArrivedAlerts == arrived \subseteq Alert

LEMMA StoreNextKeeps ==
    ASSUME StoreInv /\ ArrivedAlerts, [Next]_vars
    PROVE  (StoreInv /\ ArrivedAlerts)'
<1>1. ArrivedAlerts'
  <2>1. CASE \E a \in Alert : Arrive(a)
    BY <2>1 DEF ArrivedAlerts, Arrive
  <2>2. CASE UNCHANGED arrived
    BY <2>2 DEF ArrivedAlerts
  <2>3. (\E a \in Alert : Arrive(a)) \/ UNCHANGED arrived
    <3>1. ASSUME StoreStep PROVE (\E a \in Alert : Arrive(a)) \/ UNCHANGED arrived
      BY <3>1 DEF StoreStep, StartPull, PullStep, Check, IngestFile, Commit, Redeploy, Refresh
    <3>2. ASSUME RestartAll PROVE UNCHANGED arrived
      BY <3>2 DEF RestartAll, Restart
    <3>3. ASSUME NEW o \in Operator, AnalysisStep(o) PROVE UNCHANGED arrived
      BY <3>3 DEF AnalysisStep, Accept, Count, Load, LoadScenario, LoadBalanced, WriteFile,
                  PointStart, PointEnd, FailAnalysis, storeVars
    <3>4. ASSUME NEW r \in Reader, ReportStep(r) PROVE UNCHANGED arrived
      BY <3>4 DEF ReportStep, AskReport, Answer, WriteReport, WriteMeta, storeVars
    <3>5. UNCHANGED vars => UNCHANGED arrived
      BY DEF vars, storeVars
    <3> QED BY <3>1, <3>2, <3>3, <3>4, <3>5 DEF Next
  <2> QED BY <2>1, <2>2, <2>3
<1>2. CASE StoreStep
  <2>1. CASE \E a \in Alert : Arrive(a)
    BY <1>1, <2>1, StoreUnmoved DEF Arrive
  <2>2. ASSUME NEW p \in Puller, StartPull(p) PROVE StoreInv'
    BY <2>2, StartPullKeeps DEF ArrivedAlerts
  <2>3. ASSUME NEW p \in Puller, PullStep(p) PROVE StoreInv'
    BY <2>3, CheckKeeps, IngestFileKeeps, CommitKeeps DEF PullStep
  <2>4. CASE Redeploy \/ Refresh
    BY <1>1, <2>4, RedeployKeeps, RefreshKeeps
  <2> QED BY <1>1, <1>2, <2>1, <2>2, <2>3, <2>4 DEF StoreStep
<1>3. CASE RestartAll
  BY <1>1, <1>3, RestartKeeps DEF RestartAll
<1>4. ASSUME NEW o \in Operator, AnalysisStep(o) PROVE StoreInv'
  BY <1>4, StoreUnmoved DEF AnalysisStep, Accept, Count, Load, LoadScenario, LoadBalanced, WriteFile,
                  PointStart, PointEnd, FailAnalysis, storeVars, tables
<1>5. ASSUME NEW r \in Reader, ReportStep(r) PROVE StoreInv'
  BY <1>5, StoreUnmoved DEF ReportStep, AskReport, Answer, WriteReport, WriteMeta, storeVars
<1>6. CASE UNCHANGED vars
  BY <1>1, <1>6, StoreUnmoved DEF vars, storeVars
<1> QED BY <1>1, <1>2, <1>3, <1>4, <1>5, <1>6 DEF Next

LEMMA StoreSafe == Spec => [](StoreInv /\ ArrivedAlerts)
<1>1. Init => StoreInv /\ ArrivedAlerts
  BY StoreStarts DEF Init, StoreInit, ArrivedAlerts
<1>2. (StoreInv /\ ArrivedAlerts) /\ [Next]_vars => (StoreInv /\ ArrivedAlerts)'
  BY StoreNextKeeps
<1> QED BY <1>1, <1>2, PTL DEF Spec

\* However pulls overlap, break off and roll back, and whatever backfills rewrite, no
\* row is without its event and no event names a row that is not its own
\* (alert_store.py).
THEOREM RowsKeepEvents == Spec => []RowsHaveEvents
<1>1. StoreInv => RowsHaveEvents
  BY DEF StoreInv
<1> QED BY <1>1, StoreSafe, PTL

\* A backfill at a start leaves every event with exactly its rows, the newest as its
\* latest, whatever the pulls it broke off had left (backfill_unified_alerts).
THEOREM BackfillRestoresAll == Spec => BackfillRestores
<1>1. StoreInv => [Restart => event' = event \/ Rebuilt']_storeVars
  BY RestartRestores
<1>2. Spec => [][Restart => event' = event \/ Rebuilt']_storeVars
  BY <1>1, StoreSafe, PTL
<1> QED BY <1>2 DEF BackfillRestores

-----------------------------------------------------------------------------
(* Types: beside those of the invariants, what an analysis has left to     *)
(* write is the end of its list of files.                                  *)

AllEnds == Ends("live") \cup Ends("scenario")
LeftTyped == \A o \in Operator : analysis[o].left \in AllEnds

LEMMA EndFacts ==
    ASSUME NEW kind, NEW n \in 1..Len(Files(kind)) + 1
    PROVE  SubSeq(Files(kind), n, Len(Files(kind))) \in AllEnds
<1>1. SubSeq(Files(kind), n, Len(Files(kind))) \in Ends(kind)
  BY DEF Ends
<1>2. PICK k \in {"live", "scenario"} : Files(kind) = Files(k)
  BY DEF Files
<1>3. Ends(kind) = Ends(k)
  BY <1>2 DEF Ends
<1> QED BY <1>1, <1>3 DEF AllEnds

LEMMA NothingIsEnd == <<>> \in AllEnds
<1> DEFINE none == SubSeq(Files("live"), 7, Len(Files("live")))
<1>1. Files("live") \in Seq(Written) /\ Len(Files("live")) = 6
  BY FilesFacts DEF Files
<1>2. none \in Seq(Written) /\ Len(none) = 0
  BY <1>1, SubSeqProperties
<1>3. none = <<>>
  BY <1>2, EmptySeq
<1>a. Len(Files("live")) = 6
  BY <1>1
<1>4. 7 \in 1..Len(Files("live")) + 1
  <2>1. 7 \in 1..6 + 1
    OBVIOUS
  <2> QED BY <1>a, <2>1
<1>5. none \in AllEnds
  BY <1>4, EndFacts
<1> HIDE DEF none
<1> QED BY <1>3, <1>5

LEMMA LeftStep == ASSUME IInv, LeftTyped, [Next]_vars PROVE LeftTyped'
<1>0. Resting.left = <<>> /\ <<>> \in AllEnds
  BY NothingIsEnd DEF Resting
<1>1. CASE UNCHANGED analysis
  BY <1>1 DEF LeftTyped
<1>2. CASE RestartAll
  BY <1>0, <1>2 DEF RestartAll, LeftTyped
<1>3. ASSUME NEW o \in Operator, AnalysisStep(o) PROVE LeftTyped'
  <2>1. ASSUME NEW new, Go(o, new), new.left \in AllEnds PROVE LeftTyped'
    BY <2>1 DEF Go, LeftTyped, IInv, Types
  <2>2. End(o) => LeftTyped'
    BY <1>0, <2>1 DEF End
  <2>3. CASE Accept(o)
    <3>1. PICK kind \in Kind, d \in Dir \ {Default}, w \in Windows :
            Go(o, [Resting EXCEPT !.pc = "count", !.kind = kind, !.dir = d, !.window = w,
                                  !.run = runs + 1])
      BY <2>3 DEF Accept, Kind
    <3>2. [Resting EXCEPT !.pc = "count", !.kind = kind, !.dir = d, !.window = w,
                          !.run = runs + 1].left = Resting.left
      BY DEF Resting
    <3> QED BY <1>0, <2>1, <3>1, <3>2
  <2>4. CASE Count(o)
    <3>1. [analysis[o] EXCEPT !.pc = "load"].left = analysis[o].left
      BY DEF IInv, Types
    <3> QED BY <2>1, <2>2, <2>4, <3>1 DEF Count, LeftTyped
  <2>5. ASSUME NEW keys, Take(o, keys) PROVE LeftTyped'
    <3> DEFINE all == [analysis[o] EXCEPT !.pc = "write", !.left = Files(analysis[o].kind)]
    <3>1. all.left = Files(analysis[o].kind)
      BY DEF IInv, Types
    <3>2. Files(analysis[o].kind) \in AllEnds
      <4>1. 1 \in 1..Len(Files(analysis[o].kind)) + 1
        BY FilesFacts
      <4> QED BY <4>1, AllLeft, EndFacts
    <3> QED BY <2>1, <2>5, <3>1, <3>2 DEF Take
  <2>6. CASE Load(o) \/ LoadScenario(o) \/ LoadBalanced(o)
    BY <2>2, <2>5, <2>6 DEF Load, LoadScenario, LoadBalanced
  <2>7. CASE WriteFile(o)
    <3> DEFINE a == analysis[o]
               next == [a EXCEPT !.left = Tail(@), !.pc = IF Len(a.left) = 1 THEN "point" ELSE "write"]
    <3>1. a.pc = "write" /\ Go(o, next) /\ next.left = Tail(a.left)
      BY <2>7 DEF WriteFile, IInv, Types
    <3>2. PICK n \in 1..Len(Files(a.kind)) : UpTo(a, n, file, runs)
      BY <3>1 DEF IInv, Progress
    <3>3. Len(Files(a.kind)) \in {6, 9} /\ Len(a.left) = Len(Files(a.kind)) - n + 1
      BY <3>2, LeftFacts, FilesFacts DEF UpTo
    <3>a. a.left \in Seq(Output)
      BY DEF IInv, Types
    <3> HIDE DEF a, next
    <3>4. CASE n < Len(Files(a.kind))
      <4>1. Tail(a.left) = SubSeq(Files(a.kind), n + 1, Len(Files(a.kind)))
        BY <3>2, <3>4, LeftFacts DEF UpTo
      <4>2. n + 1 \in 1..Len(Files(a.kind)) + 1
        BY <3>3, <3>4
      <4> QED BY <2>1, <3>1, <4>1, <4>2, EndFacts
    <3>5. CASE n = Len(Files(a.kind))
      <4>0. Len(a.left) = 1
        BY <3>3, <3>5
      <4>1. a.left \in Seq(Output) /\ a.left # <<>>
        <5>1. Len(<<>>) # 1
          OBVIOUS
        <5>2. a.left # <<>>
          BY <4>0, <5>1, Zenon
        <5> QED BY <3>a, <5>2
      <4>3. Tail(a.left) \in Seq(Output) /\ Len(Tail(a.left)) = 0
        BY <4>0, <4>1, HeadTailProperties
      <4>2. Tail(a.left) = <<>>
        BY <4>3, EmptySeq
      <4> QED BY <1>0, <2>1, <3>1, <4>2
    <3> QED BY <3>3, <3>4, <3>5
  <2>8. CASE PointStart(o)
    <3>1. [analysis[o] EXCEPT !.pc = "pointing"].left = analysis[o].left
      BY DEF IInv, Types
    <3> QED BY <2>1, <2>8, <3>1 DEF PointStart, LeftTyped
  <2>9. CASE PointEnd(o) \/ FailAnalysis(o)
    BY <2>2, <2>9 DEF PointEnd, FailAnalysis
  <2> QED BY <1>3, <2>3, <2>4, <2>6, <2>7, <2>8, <2>9 DEF AnalysisStep
<1>4. StoreStep \/ (\E r \in Reader : ReportStep(r)) \/ UNCHANGED vars => UNCHANGED analysis
  BY DEF StoreStep, ReportStep, AskReport, Answer, WriteReport, WriteMeta, vars, analysisVars
<1> QED BY <1>1, <1>2, <1>3, <1>4 DEF Next

LEMMA TypesAre == StoreInv /\ ArrivedAlerts /\ IInv /\ LeftTyped => TypeOK
<1> SUFFICES ASSUME StoreInv, ArrivedAlerts, IInv, LeftTyped PROVE TypeOK
  OBVIOUS
<1>1. StoreTypeOK
  <2>1. ASSUME NEW k \in Keys
        PROVE  /\ event[k].raw \subseteq Id /\ event[k].latest \in {0} \cup Id
               /\ event[k].place \in Place \cup {None}
    BY DEF StoreInv, StoreTypes, EventType
  <2>2. ASSUME NEW p \in Puller
        PROVE  /\ pull[p].pc \in {"idle", "work"} /\ pull[p].mine \subseteq Id \X Alert
               /\ DOMAIN pull[p].work = DOMAIN pull[p].read
    <3>1. pull[p] \in PullType
      BY DEF StoreInv
    <3>2. pull[p].pc \in {"idle", "work"} /\ pull[p].mine \in SUBSET (Id \X Alert)
      BY <3>1 DEF PullType
    <3>3. DOMAIN pull[p].work = DOMAIN pull[p].read
      BY DEF StoreInv, Ingesting
    <3> QED BY <3>2, <3>3
  <2>3. DOMAIN event = Keys
    BY DEF StoreInv, StoreTypes
  <2> QED BY <2>1, <2>2, <2>3 DEF StoreTypeOK, StoreInv, StoreTypes, ArrivedAlerts
<1>2. analysis \in [Operator ->
          [pc : {"idle", "count", "load", "write", "point", "pointing"},
           kind : {"live", "scenario", "balanced"}, dir : Dir,
           window : Windows \cup {Resting.window}, run : 0..MaxRuns,
           left : Ends("live") \cup Ends("scenario")]]
  BY DEF IInv, Types, Kind, LeftTyped, AllEnds
<1>3. loaded \in [1..MaxRuns -> [kind : {"live", "scenario", "balanced"},
                                 there : SUBSET Keys, taken : SUBSET Keys]]
  BY DEF IInv, Types, Kind
<1>4. /\ lock \in Operator \cup {None} /\ runs \in 0..MaxRuns
      /\ file \in [Dir -> [Output -> Version]] /\ pointer \in Dir \cup {Torn, None}
      /\ report \in [Reader -> [pc : {"idle", "asked", "write", "meta"}, dir : Dir, prompt : Version]]
  BY DEF IInv, Types
<1> QED BY <1>1, <1>2, <1>3, <1>4 DEF TypeOK

\* The variables of the store and of the analyses keep their types, for any alerts,
\* pulls, requests and directories (alert_store.py, views.py).
THEOREM AnalysisTypes == Spec => []TypeOK
<1>1. Init => LeftTyped
  BY NothingIsEnd DEF Init, LeftTyped, Resting
<1>2. IInv /\ LeftTyped /\ [Next]_vars => LeftTyped'
  BY LeftStep
<1> QED BY <1>1, <1>2, TypesAre, IInvHolds, StoreSafe, PTL DEF Spec
=============================================================================
