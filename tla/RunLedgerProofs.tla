--------------------------- MODULE RunLedgerProofs ---------------------------
(***************************************************************************)
(* Proofs about RunLedger: where every file is while a run and rollbacks   *)
(* of it work, crash and are repaired, and what the rows know of it.       *)
(*                                                                         *)
(* The invariant is built in parts, each proved inductive from the parts   *)
(* before it.                                                              *)
(***************************************************************************)
EXTENDS RunLedger, Functions, FiniteSetTheorems, SequenceTheorems, TLAPS

---------------------------------------------------------------------------
\* The shape of the state: which steps a worker takes for which operation.

BusySteps == {"check", "rename", "journal", "stage", "second", "home", "homed", "stranded",
              "manifest", "move", "own", "fill", "drop", "moved", "erred", "stuck", "record", "fail"}
CaseSteps == {"journal", "stage", "second", "home", "homed", "stranded"}
CopySteps == {"move", "own", "fill", "drop"}
MoveSteps == CopySteps \cup {"moved", "erred"}
ShutilSteps == {"shmove", "shcopy", "shdrop"}
UndoSteps == {"rpath"} \cup MoveSteps \cup ShutilSteps \cup {"mark_done", "log_done"}
FailSteps == {"mark_failed", "log_failed"}

Job == [pc : Steps, at : Nat, plan : Seq(Step), leg : {"out", "back"}]

ExecShape ==
  LET e == job[Exec] IN
  /\ e.pc \in {"idle", "item", "done", "dead"} \cup BusySteps
  /\ e.at >= 1
  /\ e.pc \in BusySteps => e.at \in Items
  /\ e.pc = "rename" => Ops[e.at] = "rename"
  /\ e.pc \in CaseSteps => Ops[e.at] = "case"
  /\ e.pc \in MoveSteps \cup {"manifest", "stuck"} => Ops[e.at] = "quarantine"
  /\ e.pc \in {"own", "fill", "drop"} => cross

RollbackShape(r) ==
  LET w == job[r] IN
  /\ w.pc \in {"idle", "item", "source", "done", "dead"} \cup UndoSteps \cup FailSteps
  /\ w.at >= 1
  /\ w.pc \in UndoSteps \cup FailSteps => w.at \in DOMAIN w.plan
  /\ w.pc \in UndoSteps => ~w.plan[w.at].blocked
  /\ w.pc \in {"rpath"} \cup MoveSteps => Ops[w.plan[w.at].item] = "quarantine"
  /\ w.pc \in ShutilSteps => Ops[w.plan[w.at].item] # "quarantine"
  /\ w.pc \in {"own", "fill", "drop"} => cross
  /\ \A k \in DOMAIN w.plan :
       w.plan[k].from = "target" \/ (w.plan[k].from = "stage" /\ Ops[w.plan[k].item] = "case")

RowShape(i) ==
  /\ row[i].temp = "stage" => Ops[i] = "case"
  /\ row[i].temp = "target" => Ops[i] = "quarantine"

SeenShape ==
  /\ app \in {"up", "down"} => due = {} /\ seen = NotSeen
  /\ seen.by = "none" => seen = NotSeen
  /\ seen.by # "none" => seen.by \in due
  /\ seen.by = Exec => /\ seen.state \in {"pending", "quarantined", "failed"}
                       /\ seen.state # "pending" => seen.item # 0 /\ Ops[seen.item] = "quarantine"
  /\ seen.by \in Rollbacks => /\ seen.state \in EntryStates
                              /\ seen.item # 0 => seen.manifest.status # "none"

Shape ==
  /\ ExecShape /\ (\A r \in Rollbacks : RollbackShape(r))
  /\ (\A i \in Items : RowShape(i)) /\ SeenShape

Types == TypeOK /\ Shape

LEMMA Basics ==
  /\ Items \subseteq Nat \ {0} /\ IsFiniteSet(Items)
  /\ \A i \in Items : Ops[i] \in {"rename", "case", "quarantine"}
  /\ Exec \in Workers /\ Exec \notin Rollbacks /\ Rollbacks \subseteq Workers
  /\ "none" \notin Rollbacks /\ Exec # "none"
  /\ \A p \in Workers : p = Exec \/ p \in Rollbacks
<1>1. Ops \in Seq({"rename", "case", "quarantine"}) /\ {Exec, "none"} \cap Rollbacks = {}
  BY ConstantsAssumption DEF ConstantsAssumption
<1>2. Items = 1..Len(Ops) /\ Len(Ops) \in Nat
  BY <1>1 DEF Items
<1>3. IsFiniteSet(Items)
  BY <1>2, FS_Interval
<1>4. \A i \in Items : Ops[i] \in {"rename", "case", "quarantine"}
  BY <1>1 DEF Items
<1>5. Exec # "none"
  BY DEF Exec
<1> QED
  BY <1>1, <1>2, <1>3, <1>4, <1>5 DEF Workers

LEMMA GotoFacts ==
  ASSUME TypeOK, NEW p \in Workers, NEW s \in Steps, Goto(p, s)
  PROVE  /\ job' \in [Workers -> Job]
         /\ job'[p].pc = s /\ job'[p].at = job[p].at
         /\ job'[p].plan = job[p].plan /\ job'[p].leg = job[p].leg
         /\ \A q \in Workers : q # p => job'[q] = job[q]
BY DEF TypeOK, Goto, Job

LEMMA NextItemFacts ==
  ASSUME TypeOK, NEW p \in Workers, NextItem(p)
  PROVE  /\ job' \in [Workers -> Job]
         /\ job'[p].pc = "item" /\ job'[p].at = job[p].at + 1
         /\ job'[p].plan = job[p].plan /\ job'[p].leg = job[p].leg
         /\ \A q \in Workers : q # p => job'[q] = job[q]
<1>1. "item" \in Steps
  BY DEF Steps
<1>2. job \in [Workers -> Job]
  BY DEF TypeOK, Job
<1> QED
  BY <1>1, <1>2 DEF NextItem, Job

\* One place of one item is written, or two.
Put(i, p, c) == fs' = [fs EXCEPT ![i][p] = c]
PutAcross(i, p, q, c) == fs' = [fs EXCEPT ![i][p] = "none", ![i][q] = c]

LEMMA PutFacts ==
  ASSUME TypeOK, NEW i \in Items, NEW p \in Places, NEW c \in Contents, Put(i, p, c)
  PROVE  /\ fs' \in [Items -> [Places -> Contents]]
         /\ fs'[i][p] = c
         /\ \A q \in Places : q # p => fs'[i][q] = fs[i][q]
         /\ \A j \in Items : j # i => fs'[j] = fs[j]
BY DEF TypeOK, Put

LEMMA PutAcrossFacts ==
  ASSUME TypeOK, NEW i \in Items, NEW p \in Places, NEW q \in Places, p # q, NEW c \in Contents,
         PutAcross(i, p, q, c)
  PROVE  /\ fs' \in [Items -> [Places -> Contents]]
         /\ fs'[i][p] = "none" /\ fs'[i][q] = c
         /\ \A x \in Places : x \notin {p, q} => fs'[i][x] = fs[i][x]
         /\ \A j \in Items : j # i => fs'[j] = fs[j]
BY DEF TypeOK, Contents, PutAcross

---------------------------------------------------------------------------
\* What a rollback may select.

\* Counting from the newest: of n items there is one before which come k others.
LEMMA NewestTyped ==
  ASSUME NEW S \in SUBSET Items
  PROVE  /\ NewestFirst(S) \in Seq(S)
         /\ \A j, k \in DOMAIN NewestFirst(S) : NewestFirst(S)[j] = NewestFirst(S)[k] => j = k
<1> DEFINE n == Cardinality(S)
           above(i) == {j \in S : i < j}
           rank == [i \in S |-> Cardinality(above(i))]
<1>1. IsFiniteSet(S) /\ n \in Nat /\ S \subseteq Nat
  BY Basics, FS_Subset, FS_CardinalityType
<1>2. ASSUME NEW i \in S
      PROVE  IsFiniteSet(above(i)) /\ Cardinality(above(i)) \in 0..n-1
  <2>1. above(i) \in SUBSET S /\ i \notin above(i) /\ i \in S
    BY <1>1
  <2> HIDE DEF above
  <2>2. /\ IsFiniteSet(above(i)) /\ Cardinality(above(i)) <= n
        /\ n = Cardinality(above(i)) => S = above(i)
    BY <1>1, <2>1, FS_Subset
  <2>3. Cardinality(above(i)) \in Nat
    BY <2>2, FS_CardinalityType
  <2> HIDE DEF n
  <2> QED
    BY <1>1, <2>1, <2>2, <2>3
<1>3. ASSUME NEW i \in S, NEW j \in S, i < j
      PROVE  Cardinality(above(i)) # Cardinality(above(j))
  <2>1. above(j) \in SUBSET above(i) /\ j \in above(i) /\ j \notin above(j)
    <3>1. \A x \in S : i \in Nat /\ j \in Nat /\ x \in Nat
      BY <1>1
    <3> QED
      BY <1>3, <3>1
  <2> HIDE DEF above
  <2> QED
    BY <1>2, <2>1, FS_Subset
<1>4. rank \in Injection(S, 0..n-1)
  <2>1. \A i, j \in S : i # j => i < j \/ j < i
    BY <1>1
  <2>2. \A i \in S : rank[i] = Cardinality(above(i))
    OBVIOUS
  <2>3. rank \in [S -> 0..n-1]
    BY <1>2
  <2> HIDE DEF rank, above, n
  <2> QED
    BY <1>3, <2>1, <2>2, <2>3 DEF Injection, IsInjective
<1>5. IsFiniteSet(0..n-1) /\ Cardinality(0..n-1) = n
  <2> HIDE DEF n
  <2>1. 0 \in Int /\ n - 1 \in Int
    BY <1>1
  <2>2. /\ IsFiniteSet(0..n-1)
        /\ Cardinality(0..n-1) = IF 0 > n - 1 THEN 0 ELSE n - 1 - 0 + 1
    BY <2>1, FS_Interval
  <2> QED
    BY <1>1, <2>2
<1>6. rank \in Surjection(S, 0..n-1)
  <2> HIDE DEF rank
  <2> QED
    BY <1>4, <1>5, FS_Injection
<1>7. \A k \in 1..n : \E i \in S : Cardinality(above(i)) = k - 1
  <2>1. \A t \in 0..n-1 : \E i \in S : rank[i] = t
    <3> HIDE DEF rank
    <3> QED
      BY <1>6 DEF Surjection
  <2>2. \A k \in 1..n : k - 1 \in 0..n-1
    BY <1>1
  <2>3. \A i \in S : rank[i] = Cardinality(above(i))
    OBVIOUS
  <2> HIDE DEF rank, above, n
  <2> QED
    BY <2>1, <2>2, <2>3
<1>8. NewestFirst(S) = [k \in 1..n |-> CHOOSE i \in S : Cardinality(above(i)) = k - 1]
  BY DEF NewestFirst
<1>9. NewestFirst(S) \in [1..n -> S]
  <2> HIDE DEF above, n
  <2> QED
    BY <1>7, <1>8
<1>10. \A k \in 1..n : Cardinality(above(NewestFirst(S)[k])) = k - 1
  <2> HIDE DEF above, n
  <2> QED
    BY <1>7, <1>8
<1>11. NewestFirst(S) \in Seq(S) /\ DOMAIN NewestFirst(S) = 1..n
  <2> HIDE DEF n
  <2> QED
    BY <1>1, <1>9
<1>12. ASSUME NEW j \in 1..n, NEW k \in 1..n, NewestFirst(S)[j] = NewestFirst(S)[k]
       PROVE  j = k
  <2> HIDE DEF above, n
  <2>1. j - 1 = k - 1
    BY <1>10, <1>12
  <2> QED
    BY <1>1, <2>1
<1> QED
  <2> HIDE DEF above, n
  <2> QED
    BY <1>11, <1>12

LEMMA SelectionsTyped == Selections \subseteq Seq(Items)
<1>1. DefaultSelection \in Seq(Items)
  <2> DEFINE S == {i \in Items : Rollbackable(i) /\ row[i].undo # "done"}
  <2>1. S \in SUBSET Items
    OBVIOUS
  <2> HIDE DEF S
  <2>2. NewestFirst(S) \in Seq(S)
    BY <2>1, NewestTyped
  <2>3. NewestFirst(S) \in Seq(Items)
    BY <2>1, <2>2
  <2> QED
    BY <2>3 DEF DefaultSelection, S
<1> QED
  BY <1>1, ConstantsAssumption DEF Selections, ConstantsAssumption

---------------------------------------------------------------------------
\* What the steps of a worker leave alone.

LEMMA ExecutorKeeps ==
  ASSUME Types, ExecutorStep
  PROVE  /\ Serving
         /\ UNCHANGED <<rb, app, due, seen, cross, crashes, joins, touches, faults>>
         /\ job' \in [Workers -> Job] /\ \A r \in Rollbacks : job'[r] = job[r]
         /\ job'[Exec].plan = job[Exec].plan
         /\ job[Exec].pc \in {"idle", "item"} \cup BusySteps
<1> USE Basics DEF Keeping, store, budget, At, BusySteps
<1>0. TypeOK /\ ExecShape /\ job \in [Workers -> Job]
  BY DEF Types, Shape, TypeOK, Job
<1>1. CASE StartRun
  BY <1>0, <1>1, GotoFacts DEF StartRun, Steps
<1>2. CASE BeginItem
  BY <1>0, <1>2, GotoFacts DEF BeginItem, Steps
<1>3. CASE CheckItem
  <2>1. Ops[Item(Exec)] \in {"rename", "case", "quarantine"}
    BY <1>0, <1>3 DEF CheckItem, Item, ExecShape
  <2>2. \E s \in {"rename", "journal", "manifest", "fail"} : Goto(Exec, s)
    BY <1>3, <2>1 DEF CheckItem
  <2> QED
    BY <1>0, <1>3, <2>2, GotoFacts DEF CheckItem, Steps
<1>4. CASE RenameItem \/ StageItem \/ SecondRename \/ RestoreSource
  BY <1>0, <1>4, GotoFacts DEF RenameItem, StageItem, SecondRename, RestoreSource, RenameStep, Steps
<1>5. CASE JournalStage
  BY <1>0, <1>5, GotoFacts DEF JournalStage, Steps
<1>6. CASE SaveManifest
  <2>1. job'[Exec] \in Job
    BY ZenonT(40), <1>0, <1>6 DEF SaveManifest, Steps, Job
  <2> QED
    BY <1>0, <1>6, <2>1 DEF SaveManifest, Job
<1>7. CASE Mover(Exec)
  BY ZenonT(40), <1>0, <1>7, GotoFacts DEF Mover, MoverRename, MoverOpen, MoverOwn, MoverFill, MoverDrop,
     MoverFails, Steps
<1>8. CASE MarkAvailable
  BY <1>0, <1>8, GotoFacts DEF MarkAvailable, Steps
<1>9. CASE QuarantineFailed
  BY <1>0, <1>9, GotoFacts DEF QuarantineFailed, Steps
<1>10. CASE RecordItem \/ FailItem \/ StrandItem
  <2>1. NextItem(Exec)
    BY <1>10 DEF RecordItem, FailItem, StrandItem, EndItem
  <2> QED
    BY <1>0, <1>10, <2>1, NextItemFacts DEF RecordItem, FailItem, StrandItem, EndItem
<1>11. CASE FinishRun
  BY <1>0, <1>11, GotoFacts DEF FinishRun, Steps
<1>12. CASE RenameFails
  BY <1>0, <1>12, GotoFacts DEF RenameFails, Steps
<1> QED
  BY <1>1, <1>2, <1>3, <1>4, <1>5, <1>6, <1>7, <1>8, <1>9, <1>10, <1>11, <1>12 DEF ExecutorStep

LEMMA RollbackKeeps ==
  ASSUME Types, NEW r \in Rollbacks, RollbackStep(r)
  PROVE  /\ Serving
         /\ UNCHANGED <<app, due, seen, cross, crashes, joins, touches, faults>>
         /\ job' \in [Workers -> Job] /\ \A p \in Workers : p # r => job'[p] = job[p]
         /\ job[r].pc \in {"idle", "item", "source"} \cup UndoSteps \cup FailSteps
         /\ \A q \in Rollbacks : q # r => rb'[q] = rb[q]
<1> USE Basics DEF Keeping, store, budget, At, UndoSteps, FailSteps, MoveSteps, CopySteps, ShutilSteps
<1>0. TypeOK /\ job \in [Workers -> Job] /\ rb \in [Rollbacks -> [state : RollbackStates, rows : Seq(Entry)]]
  BY DEF Types, Shape, TypeOK, Job
<1>1. CASE StartRollback(r)
  <2> PICK s \in Selections :
        job' = [job EXCEPT ![r] = [pc |-> "item", at |-> 1, leg |-> "back",
                                   plan |-> [k \in DOMAIN s |-> Preview(s[k])]]]
    BY <1>1 DEF StartRollback
  <2>1. s \in Seq(Items)
    BY SelectionsTyped
  <2>2. \A i \in Items : Preview(i) \in Step
    BY <1>0, ConstantsAssumption DEF Preview, Step, CurrentPlace, TypeOK, RowType, Places
  <2>3. [k \in DOMAIN s |-> Preview(s[k])] \in Seq(Step)
    <3>1. Len(s) \in Nat /\ DOMAIN s = 1..Len(s) /\ \A k \in DOMAIN s : s[k] \in Items
      BY <2>1
    <3>2. [k \in DOMAIN s |-> Preview(s[k])] \in [1..Len(s) -> Step]
      BY <2>2, <3>1
    <3> QED
      BY <3>1, <3>2
  <2>4. job'[r] \in Job
    BY <1>0, <2>3 DEF Job, Steps
  <2> QED
    BY <1>0, <1>1, <2>4 DEF StartRollback
<1>2. CASE BeginUndo(r)
  BY ZenonT(40), <1>0, <1>2, GotoFacts DEF BeginUndo, Steps
<1>3. CASE JournalRestore(r)
  BY <1>0, <1>3, GotoFacts DEF JournalRestore, Steps
<1>4. CASE Mover(r)
  BY ZenonT(40), <1>0, <1>4, GotoFacts DEF Mover, MoverRename, MoverOpen, MoverOwn, MoverFill, MoverDrop,
     MoverFails, Steps
<1>5. CASE ShutilRename(r) \/ ShutilOpen(r) \/ ShutilCopy(r) \/ ShutilDrop(r) \/ ShutilFails(r)
  BY <1>0, <1>5, GotoFacts DEF ShutilRename, ShutilOpen, ShutilCopy, ShutilDrop, ShutilFails, Steps
<1>6. CASE SyncManifest(r)
  BY <1>0, <1>6, GotoFacts DEF SyncManifest, Steps
<1>7. CASE MarkItem(r)
  BY <1>0, <1>7, GotoFacts DEF MarkItem, Steps
<1>8. CASE LogUndo(r)
  BY <1>0, <1>8, NextItemFacts DEF LogUndo
<1>9. CASE FinishRollback(r) \/ FinishSource(r)
  BY <1>0, <1>9, GotoFacts DEF FinishRollback, FinishSource, Steps
<1> QED
  BY <1>1, <1>2, <1>3, <1>4, <1>5, <1>6, <1>7, <1>8, <1>9 DEF RollbackStep

---------------------------------------------------------------------------
\* Types and shape.

FsType == fs \in [Items -> [Places -> Contents]]
StoreType ==
  /\ run \in [state : RunStates, avail : BOOLEAN]
  /\ row \in [Items -> RowType] /\ (\A i \in Items : RowShape(i))
  /\ manifest \in [Items -> ManifestType]

LEMMA ShapeOfRest ==
  ASSUME Types, FsType', StoreType', job' \in [Workers -> Job],
         rb' \in [Rollbacks -> [state : RollbackStates, rows : Seq(Entry)]],
         ExecShape', \A r \in Rollbacks : RollbackShape(r)',
         UNCHANGED <<app, due, seen, cross, crashes, joins, touches, faults>>
  PROVE  Types'
<1>1. TypeOK'
  BY DEF Types, TypeOK, FsType, StoreType, Job
<1>2. SeenShape'
  BY DEF Types, Shape, SeenShape
<1> QED
  BY <1>1, <1>2 DEF Types, Shape, StoreType

\* A rename that is refused or done leaves the file system well-typed.
LEMMA MoveFileTyped ==
  ASSUME TypeOK, NEW i \in Items, NEW p \in Places, NEW q \in Places, p # q, MoveFile(i, p, q)
  PROVE  /\ FsType'
         /\ Present(i, p) /\ ~Exists(i, q)
         /\ fs'[i][p] = "none" /\ fs'[i][q] = fs[i][p]
         /\ \A x \in Places : x \notin {p, q} => fs'[i][x] = fs[i][x]
         /\ \A j \in Items : j # i => fs'[j] = fs[j]
<1>1. fs[i][p] \in Contents
  BY DEF TypeOK
<1>2. Present(i, p) /\ ~Exists(i, q) /\ PutAcross(i, p, q, fs[i][p])
  BY DEF MoveFile, PutAcross
<1>3. /\ fs' \in [Items -> [Places -> Contents]]
      /\ fs'[i][p] = "none" /\ fs'[i][q] = fs[i][p]
      /\ \A x \in Places : x \notin {p, q} => fs'[i][x] = fs[i][x]
      /\ \A j \in Items : j # i => fs'[j] = fs[j]
  BY <1>1, <1>2, PutAcrossFacts
<1> QED
  BY <1>2, <1>3 DEF FsType

\* Where a mover reads, writes and copies.
LEMMA MoverPlaces ==
  ASSUME Types, NEW p \in Workers, job[p].pc \in MoveSteps
  PROVE  /\ Item(p) \in Items /\ Ops[Item(p)] = "quarantine"
         /\ From(p) \in {"origin", "target"} /\ To(p) \in {"origin", "target"} /\ From(p) # To(p)
         /\ Temp(p) \in {"copy", "rcopy"}
         /\ p # Exec \/ job[p].leg = "back" => From(p) = "target" /\ To(p) = "origin"
<1>1. CASE p = Exec
  BY <1>1, Basics DEF Types, Shape, ExecShape, Item, From, To, Temp, MoveSteps, CopySteps, BusySteps,
     TypeOK
<1>2. CASE p \in Rollbacks
  <2>1. RollbackShape(p) /\ p # Exec /\ job[p].plan \in Seq(Step)
    BY <1>2, Basics DEF Types, Shape, TypeOK
  <2>2. job[p].at \in DOMAIN job[p].plan /\ Ops[job[p].plan[job[p].at].item] = "quarantine"
    BY <2>1 DEF RollbackShape, UndoSteps
  <2>3. job[p].plan[job[p].at] \in Step
    BY <2>1, <2>2
  <2>4. job[p].plan[job[p].at].from = "target"
    BY <2>1, <2>2 DEF RollbackShape
  <2> QED
    BY <2>1, <2>2, <2>3, <2>4 DEF Item, From, To, Temp, Step
<1> QED
  BY <1>1, <1>2, Basics

\* What a mover does to the two ends of its move: it renames, completes a copy, drops
\* the source of one, takes one back, or leaves both alone.
MoverOutcome(p) ==
  LET i == Item(p)
      f == From(p)
      t == To(p) IN
  \/ /\ job[p].pc = "move" /\ ~cross /\ fs[i][f] # "none" /\ fs[i][t] = "none"
     /\ job'[p].pc = "moved" /\ fs'[i][f] = "none" /\ fs'[i][t] = fs[i][f]
  \/ /\ job[p].pc = "fill" /\ fs[i][f] # "none" /\ fs[i][t] = "none"
     /\ job'[p].pc = "drop" /\ fs'[i][f] = fs[i][f] /\ fs'[i][t] = fs[i][f]
  \/ /\ job[p].pc = "drop" /\ fs[i][f] # "none"
     /\ \/ job'[p].pc = "moved" /\ fs'[i][f] = "none" /\ fs'[i][t] = fs[i][t]
        \/ job'[p].pc = "erred" /\ fs'[i][f] = fs[i][f] /\ fs'[i][t] = "none"
  \/ /\ job[p].pc \in CopySteps
     /\ job'[p].pc \in {"own", "fill", "erred"} /\ (job'[p].pc \in {"own", "fill"} => cross)
     /\ fs'[i][f] = fs[i][f] /\ fs'[i][t] = fs[i][t]

LEMMA MoverFs ==
  ASSUME Types, NEW p \in Workers, Mover(p)
  PROVE  /\ FsType' /\ job[p].pc \in MoveSteps
         /\ \A j \in Items : j # Item(p) => fs'[j] = fs[j]
         /\ fs'[Item(p)]["stage"] = fs[Item(p)]["stage"]
         /\ job' \in [Workers -> Job]
         /\ job'[p].at = job[p].at /\ job'[p].plan = job[p].plan /\ job'[p].leg = job[p].leg
         /\ \A q \in Workers : q # p => job'[q] = job[q]
         /\ MoverOutcome(p)
<1>0. TypeOK
  BY DEF Types
<1>1. job[p].pc \in MoveSteps
  BY DEF Mover, MoverRename, MoverOpen, MoverOwn, MoverFill, MoverDrop, MoverFails, At, MoveSteps,
     CopySteps
<1>2. /\ Item(p) \in Items /\ From(p) \in Places /\ To(p) \in Places /\ Temp(p) \in Places
      /\ From(p) # To(p) /\ Temp(p) # To(p) /\ Temp(p) # From(p)
      /\ "stage" \notin {From(p), To(p), Temp(p)} /\ "stage" \in Places
      /\ \A x \in Places : Exists(Item(p), x) <=> fs[Item(p)][x] # "none"
  BY SMTT(20), <1>1, MoverPlaces DEF Places, Exists, Present
<1>3. /\ job' \in [Workers -> Job]
      /\ job'[p].at = job[p].at /\ job'[p].plan = job[p].plan /\ job'[p].leg = job[p].leg
      /\ \A q \in Workers : q # p => job'[q] = job[q]
  BY ZenonT(40), <1>0, GotoFacts DEF Mover, MoverRename, MoverOpen, MoverOwn, MoverFill, MoverDrop,
     MoverFails, Steps
<1>4. CASE MoverRename(p)
  <2>1. job[p].pc = "move" /\ job'[p].pc = "moved" /\ ~cross /\ MoveFile(Item(p), From(p), To(p))
    BY <1>0, <1>4, GotoFacts DEF MoverRename, At, Steps
  <2>2. /\ FsType' /\ Present(Item(p), From(p)) /\ ~Exists(Item(p), To(p))
        /\ fs'[Item(p)][From(p)] = "none" /\ fs'[Item(p)][To(p)] = fs[Item(p)][From(p)]
        /\ \A x \in Places : x \notin {From(p), To(p)} => fs'[Item(p)][x] = fs[Item(p)][x]
        /\ \A j \in Items : j # Item(p) => fs'[j] = fs[j]
    BY <1>0, <1>2, <2>1, MoveFileTyped
  <2> QED
    BY <1>1, <1>2, <1>3, <2>1, <2>2 DEF MoverOutcome, Present
<1>5. CASE MoverOpen(p)
  <2>1. /\ Put(Item(p), Temp(p), "part") /\ "part" \in Contents
        /\ cross /\ job[p].pc = "move" /\ job'[p].pc = "own"
    BY <1>0, <1>5, GotoFacts DEF MoverOpen, Put, Contents, At, Steps
  <2>2. /\ fs' \in [Items -> [Places -> Contents]]
        /\ \A x \in Places : x # Temp(p) => fs'[Item(p)][x] = fs[Item(p)][x]
        /\ \A j \in Items : j # Item(p) => fs'[j] = fs[j]
    BY <1>0, <1>2, <2>1, PutFacts
  <2> QED
    BY <1>1, <1>2, <1>3, <2>1, <2>2 DEF FsType, MoverOutcome, CopySteps
<1>6. CASE MoverOwn(p)
  <2>1. fs' = fs /\ job[p].pc = "own" /\ job'[p].pc = "fill"
    BY <1>0, <1>6, GotoFacts DEF MoverOwn, Keeping, At, Steps
  <2>2. cross
    BY <2>1, Basics DEF Types, Shape, ExecShape, RollbackShape
  <2> QED
    BY <1>0, <1>1, <1>3, <2>1, <2>2 DEF TypeOK, FsType, MoverOutcome, CopySteps
<1>7. CASE MoverFill(p)
  <2>1. fs[Item(p)][From(p)] \in Contents
    BY <1>0, <1>2 DEF TypeOK
  <2>2. /\ PutAcross(Item(p), Temp(p), To(p), fs[Item(p)][From(p)])
        /\ job[p].pc = "fill" /\ job'[p].pc = "drop"
        /\ Present(Item(p), From(p)) /\ ~Exists(Item(p), To(p))
    BY <1>0, <1>7, GotoFacts DEF MoverFill, PutAcross, At, Steps
  <2>3. /\ fs' \in [Items -> [Places -> Contents]]
        /\ fs'[Item(p)][To(p)] = fs[Item(p)][From(p)]
        /\ \A x \in Places : x \notin {Temp(p), To(p)} => fs'[Item(p)][x] = fs[Item(p)][x]
        /\ \A j \in Items : j # Item(p) => fs'[j] = fs[j]
    BY <1>0, <1>2, <2>1, <2>2, PutAcrossFacts
  <2> QED
    BY <1>1, <1>2, <1>3, <2>2, <2>3 DEF FsType, MoverOutcome, Present
<1>8. CASE MoverDrop(p)
  <2>1. /\ Put(Item(p), From(p), "none") /\ "none" \in Contents
        /\ job[p].pc = "drop" /\ job'[p].pc = "moved" /\ Present(Item(p), From(p))
    BY <1>0, <1>8, GotoFacts DEF MoverDrop, Put, Contents, At, Steps
  <2>2. /\ fs' \in [Items -> [Places -> Contents]]
        /\ fs'[Item(p)][From(p)] = "none"
        /\ \A x \in Places : x # From(p) => fs'[Item(p)][x] = fs[Item(p)][x]
        /\ \A j \in Items : j # Item(p) => fs'[j] = fs[j]
    BY <1>0, <1>2, <2>1, PutFacts
  <2> QED
    BY <1>1, <1>2, <1>3, <2>1, <2>2 DEF FsType, MoverOutcome, Present
<1>9. CASE MoverFails(p)
  <2> DEFINE left == CASE At(p, "own") \/ At(p, "fill") -> {Temp(p)}
                       [] At(p, "drop") /\ Present(Item(p), From(p)) -> {To(p)}
                       [] OTHER -> {}
  <2>1. /\ fs' = [fs EXCEPT ![Item(p)] = [q \in Places |-> IF q \in left THEN "none" ELSE @[q]]]
        /\ job[p].pc \in CopySteps /\ job'[p].pc = "erred" /\ Serving
    BY <1>0, <1>9, GotoFacts DEF MoverFails, At, CopySteps, Steps
  <2>2. left = IF job[p].pc = "drop"
                 THEN IF fs[Item(p)][From(p)] # "none" THEN {To(p)} ELSE {}
                 ELSE IF job[p].pc \in {"own", "fill"} THEN {Temp(p)} ELSE {}
    BY <2>1 DEF At, Present
  <2> HIDE DEF left
  <2>3. "none" \in Contents /\ fs \in [Items -> [Places -> Contents]]
    BY <1>0 DEF Contents, TypeOK
  <2>4. /\ fs' \in [Items -> [Places -> Contents]]
        /\ \A x \in Places : fs'[Item(p)][x] = IF x \in left THEN "none" ELSE fs[Item(p)][x]
        /\ \A j \in Items : j # Item(p) => fs'[j] = fs[j]
    BY SMTT(20), <1>2, <2>1, <2>3
  <2> QED
    BY <1>1, <1>2, <1>3, <2>1, <2>2, <2>4 DEF FsType, MoverOutcome
<1> QED
  BY <1>4, <1>5, <1>6, <1>7, <1>8, <1>9 DEF Mover

\* What a rename of the executor does.
RenameOutcome ==
  LET i == job[Exec].at IN
  \E f, t \in {"origin", "target", "stage"} :
    /\ <<job[Exec].pc, f, t, job'[Exec].pc>> \in
         {<<"rename", "origin", "target", "record">>, <<"stage", "origin", "stage", "second">>,
          <<"second", "stage", "target", "record">>, <<"home", "stage", "origin", "homed">>}
    /\ fs[i][f] # "none" /\ fs[i][t] = "none"
    /\ job[Exec].pc \in {"second", "home"} => fs[i]["origin"] = "none" /\ fs[i]["target"] = "none"
    /\ fs'[i][f] = "none" /\ fs'[i][t] = fs[i][f]
    /\ \A x \in Places : x \notin {f, t} => fs'[i][x] = fs[i][x]

LEMMA RenameFs ==
  ASSUME Types, RenameItem \/ StageItem \/ SecondRename \/ RestoreSource
  PROVE  /\ FsType' /\ job[Exec].at \in Items
         /\ Ops[job[Exec].at] = IF job[Exec].pc = "rename" THEN "rename" ELSE "case"
         /\ \A j \in Items : j # job[Exec].at => fs'[j] = fs[j]
         /\ job' \in [Workers -> Job]
         /\ job'[Exec].at = job[Exec].at /\ job'[Exec].leg = job[Exec].leg
         /\ RenameOutcome
<1>0. TypeOK /\ Exec \in Workers /\ Item(Exec) = job[Exec].at
  BY Basics DEF Types, Item
<1>1. PICK f \in {"origin", "target", "stage"}, t \in {"origin", "target", "stage"},
           at \in {"rename", "stage", "second", "home"}, next \in Steps :
        /\ <<at, f, t, next>> \in
             {<<"rename", "origin", "target", "record">>, <<"stage", "origin", "stage", "second">>,
              <<"second", "stage", "target", "record">>, <<"home", "stage", "origin", "homed">>}
        /\ RenameStep(at, f, t, next)
  BY DEF RenameItem, StageItem, SecondRename, RestoreSource, Steps
<1>2. job[Exec].pc = at /\ MoveFile(job[Exec].at, f, t) /\ Goto(Exec, next)
  BY <1>0, <1>1 DEF RenameStep, At
<1>3. /\ job' \in [Workers -> Job] /\ job'[Exec].pc = next
      /\ job'[Exec].at = job[Exec].at /\ job'[Exec].leg = job[Exec].leg
  BY <1>0, <1>2, GotoFacts
<1>4. /\ job[Exec].at \in Items
      /\ Ops[job[Exec].at] = IF job[Exec].pc = "rename" THEN "rename" ELSE "case"
  BY <1>2 DEF Types, Shape, ExecShape, BusySteps, CaseSteps
<1>5. f \in Places /\ t \in Places /\ f # t
  BY <1>1 DEF Places
<1>6. /\ FsType' /\ Present(job[Exec].at, f) /\ ~Exists(job[Exec].at, t)
      /\ fs'[job[Exec].at][f] = "none" /\ fs'[job[Exec].at][t] = fs[job[Exec].at][f]
      /\ \A x \in Places : x \notin {f, t} => fs'[job[Exec].at][x] = fs[job[Exec].at][x]
      /\ \A j \in Items : j # job[Exec].at => fs'[j] = fs[j]
  BY <1>0, <1>2, <1>4, <1>5, MoveFileTyped
<1>7. /\ fs[job[Exec].at][f] # "none" /\ fs[job[Exec].at][t] = "none"
      /\ job[Exec].pc \in {"second", "home"} =>
           fs[job[Exec].at]["origin"] = "none" /\ fs[job[Exec].at]["target"] = "none"
  BY <1>1, <1>2, <1>4, <1>6 DEF Present, Exists
<1> QED
  BY <1>1, <1>2, <1>3, <1>4, <1>6, <1>7 DEF RenameOutcome

\* What shutil.move does, the copy it falls back to included.
ShutilOutcome(r) ==
  LET i == Item(r)
      f == From(r) IN
  \/ /\ fs[i][f] # "none"
     /\ \/ /\ job[r].pc = "shmove" /\ job'[r].pc = "mark_done" /\ fs[i]["origin"] = "none"
           /\ fs'[i]["origin"] = fs[i][f] /\ fs'[i][f] = "none"
        \/ /\ job[r].pc = "shmove" /\ job'[r].pc = "shcopy"
           /\ fs'[i]["origin"] = "part" /\ fs'[i][f] = fs[i][f]
        \/ /\ job[r].pc = "shcopy" /\ job'[r].pc = "shdrop"
           /\ fs'[i]["origin"] = fs[i][f] /\ fs'[i][f] = fs[i][f]
        \/ /\ job[r].pc = "shdrop" /\ job'[r].pc = "mark_done"
           /\ fs'[i]["origin"] = fs[i]["origin"] /\ fs'[i][f] = "none"
  \/ /\ job[r].pc \in ShutilSteps /\ job'[r].pc = "mark_failed"
     /\ fs'[i] = fs[i]

Shutil(r) == ShutilRename(r) \/ ShutilOpen(r) \/ ShutilCopy(r) \/ ShutilDrop(r) \/ ShutilFails(r)

LEMMA UndoPlaces ==
  ASSUME Types, NEW r \in Rollbacks, job[r].pc \in UndoSteps \cup FailSteps
  PROVE  /\ r # Exec /\ job[r].at \in DOMAIN job[r].plan /\ job[r].at \in Nat \ {0}
         /\ job[r].plan \in Seq(Step) /\ job[r].plan[job[r].at] \in Step
         /\ Item(r) = job[r].plan[job[r].at].item /\ Item(r) \in Items
         /\ From(r) = job[r].plan[job[r].at].from /\ From(r) \in {"target", "stage"}
         /\ To(r) = "origin" /\ Temp(r) = "rcopy"
<1>1. RollbackShape(r) /\ r # Exec /\ job[r].plan \in Seq(Step)
  BY Basics DEF Types, Shape, TypeOK
<1>2. job[r].at \in DOMAIN job[r].plan
  BY <1>1 DEF RollbackShape
<1>3. job[r].plan[job[r].at] \in Step /\ job[r].at \in Nat \ {0}
  BY <1>1, <1>2
<1>4. job[r].plan[job[r].at].from \in {"target", "stage"}
  BY <1>1, <1>2 DEF RollbackShape
<1> QED
  BY <1>1, <1>2, <1>3, <1>4 DEF Item, From, To, Temp, Step

LEMMA ShutilFs ==
  ASSUME Types, NEW r \in Rollbacks, Shutil(r)
  PROVE  /\ FsType' /\ job[r].pc \in ShutilSteps
         /\ \A j \in Items : j # Item(r) => fs'[j] = fs[j]
         /\ \A x \in Places : x \notin {"origin", From(r)} => fs'[Item(r)][x] = fs[Item(r)][x]
         /\ job' \in [Workers -> Job]
         /\ job'[r].at = job[r].at /\ job'[r].plan = job[r].plan /\ job'[r].leg = job[r].leg
         /\ \A q \in Workers : q # r => job'[q] = job[q]
         /\ ShutilOutcome(r)
<1>0. TypeOK /\ r \in Workers
  BY Basics DEF Types
<1>1. job[r].pc \in ShutilSteps
  BY DEF Shutil, ShutilRename, ShutilOpen, ShutilCopy, ShutilDrop, ShutilFails, At, ShutilSteps
<1>2. /\ Item(r) \in Items /\ From(r) \in Places /\ "origin" \in Places /\ From(r) # "origin"
      /\ fs[Item(r)][From(r)] \in Contents
  BY <1>0, <1>1, UndoPlaces DEF UndoSteps, Places, TypeOK
<1>3. /\ job' \in [Workers -> Job]
      /\ job'[r].at = job[r].at /\ job'[r].plan = job[r].plan /\ job'[r].leg = job[r].leg
      /\ \A q \in Workers : q # r => job'[q] = job[q]
  BY <1>0, GotoFacts DEF Shutil, ShutilRename, ShutilOpen, ShutilCopy, ShutilDrop, ShutilFails, Steps
<1>4. CASE ShutilRename(r)
  <2>1. job[r].pc = "shmove" /\ job'[r].pc = "mark_done" /\ MoveFile(Item(r), From(r), "origin")
    BY <1>0, <1>4, GotoFacts DEF ShutilRename, At, Steps
  <2>2. /\ FsType' /\ Present(Item(r), From(r)) /\ ~Exists(Item(r), "origin")
        /\ fs'[Item(r)][From(r)] = "none" /\ fs'[Item(r)]["origin"] = fs[Item(r)][From(r)]
        /\ \A x \in Places : x \notin {From(r), "origin"} => fs'[Item(r)][x] = fs[Item(r)][x]
        /\ \A j \in Items : j # Item(r) => fs'[j] = fs[j]
    BY <1>0, <1>2, <2>1, MoveFileTyped
  <2> QED
    BY <1>1, <1>3, <2>1, <2>2 DEF ShutilOutcome, Present, Exists
<1>5. CASE ShutilOpen(r)
  <2>1. /\ job[r].pc = "shmove" /\ job'[r].pc = "shcopy" /\ Present(Item(r), From(r))
        /\ Put(Item(r), "origin", "part") /\ "part" \in Contents
    BY <1>0, <1>5, GotoFacts DEF ShutilOpen, Put, Contents, At, Steps
  <2>2. /\ fs' \in [Items -> [Places -> Contents]]
        /\ fs'[Item(r)]["origin"] = "part"
        /\ \A x \in Places : x # "origin" => fs'[Item(r)][x] = fs[Item(r)][x]
        /\ \A j \in Items : j # Item(r) => fs'[j] = fs[j]
    BY <1>0, <1>2, <2>1, PutFacts
  <2> QED
    BY <1>1, <1>2, <1>3, <2>1, <2>2 DEF ShutilOutcome, Present, FsType
<1>6. CASE ShutilCopy(r)
  <2>1. /\ job[r].pc = "shcopy" /\ job'[r].pc = "shdrop" /\ Present(Item(r), From(r))
        /\ Put(Item(r), "origin", fs[Item(r)][From(r)])
    BY <1>0, <1>6, GotoFacts DEF ShutilCopy, Put, At, Steps
  <2>2. /\ fs' \in [Items -> [Places -> Contents]]
        /\ fs'[Item(r)]["origin"] = fs[Item(r)][From(r)]
        /\ \A x \in Places : x # "origin" => fs'[Item(r)][x] = fs[Item(r)][x]
        /\ \A j \in Items : j # Item(r) => fs'[j] = fs[j]
    BY <1>0, <1>2, <2>1, PutFacts
  <2> QED
    BY <1>1, <1>2, <1>3, <2>1, <2>2 DEF ShutilOutcome, Present, FsType
<1>7. CASE ShutilDrop(r)
  <2>1. /\ job[r].pc = "shdrop" /\ job'[r].pc = "mark_done" /\ Present(Item(r), From(r))
        /\ Put(Item(r), From(r), "none") /\ "none" \in Contents
    BY <1>0, <1>7, GotoFacts DEF ShutilDrop, Put, Contents, At, Steps
  <2>2. /\ fs' \in [Items -> [Places -> Contents]]
        /\ fs'[Item(r)][From(r)] = "none"
        /\ \A x \in Places : x # From(r) => fs'[Item(r)][x] = fs[Item(r)][x]
        /\ \A j \in Items : j # Item(r) => fs'[j] = fs[j]
    BY <1>0, <1>2, <2>1, PutFacts
  <2> QED
    BY <1>1, <1>2, <1>3, <2>1, <2>2 DEF ShutilOutcome, Present, FsType
<1>8. CASE ShutilFails(r)
  <2>1. fs' = fs /\ job'[r].pc = "mark_failed"
    BY <1>0, <1>8, GotoFacts DEF ShutilFails, Keeping, Steps
  <2> QED
    BY <1>0, <1>1, <1>2, <1>3, <2>1 DEF ShutilOutcome, TypeOK, FsType
<1> QED
  BY <1>4, <1>5, <1>6, <1>7, <1>8 DEF Shutil

\* What another program, and the restart, do to the files.
LEMMA EnvironmentFs ==
  ASSUME Types, NEW i \in Items, NEW p \in Places, Stranger(i, p) \/ Edit(i, p)
  PROVE  /\ FsType'
         /\ UNCHANGED <<run, row, manifest, rb, job, app, due, seen, cross, crashes, joins, faults>>
         /\ touches' \in 0..MaxTouches
         /\ \A j \in Items : j # i => fs'[j] = fs[j]
         /\ \A x \in Places : x # p => fs'[i][x] = fs[i][x]
         /\ \/ fs[i][p] = "none" /\ fs'[i][p] = "other" /\ p # "stage"
            \/ fs[i][p] = "own" /\ fs'[i][p] = "edited"
<1>0. TypeOK
  BY DEF Types
<1>1. /\ UNCHANGED <<run, row, manifest, rb, job, app, due, seen, cross, crashes, joins, faults>>
      /\ touches' \in 0..MaxTouches
  BY <1>0, ConstantsAssumption DEF Stranger, Edit, Touch, store, TypeOK, ConstantsAssumption
<1>2. CASE Stranger(i, p)
  <2>1. Put(i, p, "other") /\ "other" \in Contents /\ fs[i][p] = "none" /\ p # "stage"
    BY <1>2 DEF Stranger, Put, Contents, Exists, Present
  <2> QED
    BY <1>0, <1>1, <2>1, PutFacts DEF FsType
<1>3. CASE Edit(i, p)
  <2>1. Put(i, p, "edited") /\ "edited" \in Contents /\ fs[i][p] = "own"
    BY <1>3 DEF Edit, Put, Contents, Unchanged
  <2> QED
    BY <1>0, <1>1, <2>1, PutFacts DEF FsType
<1> QED
  BY <1>2, <1>3

LEMMA CleanupFs ==
  ASSUME TypeOK, NEW i \in Items, NEW temp \in {"copy", "rcopy"}, NEW owned, NEW held,
         Cleanup(i, temp, owned, held)
  PROVE  /\ FsType' /\ (\A j \in Items : j # i => fs'[j] = fs[j])
         /\ \A x \in {"origin", "target", "stage"} : fs'[i][x] = fs[i][x]
<1>1. temp \in Places /\ "none" \in Contents /\ {"origin", "target", "stage"} \subseteq Places
  BY DEF Places, Contents
<1>2. CASE owned /\ ~held
  <2>1. Put(i, temp, "none")
    BY <1>2 DEF Cleanup, Put
  <2> QED
    BY <1>1, <2>1, PutFacts DEF FsType
<1>3. CASE ~(owned /\ ~held)
  BY <1>1, <1>3 DEF Cleanup, TypeOK, FsType
<1> QED
  BY <1>2, <1>3

\* The restart looks at one item; the places a user's file may be in are left alone.
LEMMA LookFs ==
  ASSUME Types, LookAtRun \/ \E r \in Rollbacks : LookAtRollback(r)
  PROVE  /\ FsType'
         /\ \A i \in Items : \A x \in {"origin", "target", "stage"} : fs'[i][x] = fs[i][x]
         /\ UNCHANGED <<run, row, manifest, rb, job, app, due, cross, crashes, joins, touches, faults>>
<1>0. TypeOK /\ {"origin", "target", "stage"} \subseteq Places
  BY DEF Types, Places
<1>1. UNCHANGED <<run, row, manifest, rb, job, app, due, cross, crashes, joins, touches, faults>>
  BY ZenonT(40) DEF LookAtRun, LookAtRollback, Look, store, budget
<1>2. ASSUME fs' = fs
      PROVE  FsType' /\ \A i \in Items : \A x \in {"origin", "target", "stage"} : fs'[i][x] = fs[i][x]
  BY <1>0, <1>2 DEF TypeOK, FsType
<1>3. ASSUME NEW i \in Items, NEW temp \in {"copy", "rcopy"}, NEW owned, NEW held,
             Cleanup(i, temp, owned, held)
      PROVE  FsType' /\ \A j \in Items : \A x \in {"origin", "target", "stage"} : fs'[j][x] = fs[j][x]
  BY <1>0, <1>3, CleanupFs
<1>4. CASE LookAtRun
  BY <1>1, <1>2, <1>3, <1>4 DEF LookAtRun, InterruptedItem
<1>5. ASSUME NEW r \in Rollbacks, LookAtRollback(r)
      PROVE  FsType' /\ \A j \in Items : \A x \in {"origin", "target", "stage"} : fs'[j][x] = fs[j][x]
  <2> DEFINE n == Len(rb[r].rows)
  <2>1. CASE n = 0 \/ rb[r].rows[n].state # "pending"
    BY ZenonT(40), <1>2, <1>5, <2>1 DEF LookAtRollback
  <2>2. CASE ~(n = 0 \/ rb[r].rows[n].state # "pending")
    <3>1. rb[r].rows \in Seq(Entry)
      BY <1>0, <1>5 DEF TypeOK
    <3>2. n \in DOMAIN rb[r].rows
      BY <2>2, <3>1
    <3> HIDE DEF n
    <3>3. rb[r].rows[n].item \in Items
      <4>1. rb[r].rows[n] \in Entry
        BY <3>1, <3>2
      <4> QED
        BY <4>1 DEF Entry
    <3>4. \E held \in BOOLEAN :
            Cleanup(rb[r].rows[n].item, "rcopy",
                    /\ Ops[rb[r].rows[n].item] = "quarantine"
                    /\ manifest[rb[r].rows[n].item].rpath /\ manifest[rb[r].rows[n].item].rown, held)
      BY ZenonT(40), <1>5, <2>2 DEF LookAtRollback, n
    <3> QED
      BY <1>3, <3>3, <3>4
  <2> QED
    BY <2>1, <2>2
<1> QED
  BY <1>1, <1>4, <1>5

LEMMA NoManifestTyped == NoManifest \in ManifestType
BY DEF NoManifest, ManifestType

LEMMA JournaledTyped ==
  ASSUME NEW m \in ManifestType
  PROVE  /\ [m EXCEPT !.rpath = TRUE, !.rown = FALSE] \in ManifestType
         /\ [m EXCEPT !.rpath = TRUE, !.rown = FALSE].status = m.status
<1> DEFINE n == [m EXCEPT !.rpath = TRUE, !.rown = FALSE]
<1> DEFINE o == [m EXCEPT !.rpath = TRUE]
<1>1. n = [o EXCEPT !.rown = FALSE]
  OBVIOUS
<1>2. o \in ManifestType /\ o.status = m.status
  BY DEF ManifestType
<1> HIDE DEF n, o
<1>3. n \in ManifestType /\ n.status = m.status
  BY <1>1, <1>2 DEF ManifestType
<1> QED
  BY <1>3 DEF n

LEMMA SetStatusTyped ==
  ASSUME manifest \in [Items -> ManifestType], NEW i \in Items, NEW s, SetStatus(i, s),
         s \in {"pending", "available", "restored", "restore_failed", "conflict", "missing"}
  PROVE  /\ manifest' \in [Items -> ManifestType]
         /\ \A j \in Items : j # i => manifest'[j] = manifest[j]
         /\ manifest'[i].status = "none" <=> manifest[i].status = "none"
<1>1. \A m \in ManifestType : [m EXCEPT !.status = s] \in ManifestType /\ [m EXCEPT !.status = s].status = s
  BY DEF ManifestType
<1>2. NoManifest \in ManifestType /\ NoManifest.status = "none"
  BY DEF NoManifest, ManifestType
<1>3. PICK n \in ManifestType :
        /\ manifest' = [manifest EXCEPT ![i] = n]
        /\ n.status = "none" <=> manifest[i].status = "none"
  BY <1>1, <1>2 DEF SetStatus, SetManifest
<1> QED
  BY <1>3

LEMMA ExecutorTypes == Types /\ ExecutorStep => Types'
<1> SUFFICES ASSUME Types, ExecutorStep PROVE Types'
  OBVIOUS
<1> USE Basics
<1>0. /\ TypeOK /\ ExecShape /\ FsType /\ StoreType /\ Item(Exec) = job[Exec].at
      /\ \A i \in Items : RowShape(i)
  BY DEF Types, Shape, TypeOK, FsType, StoreType, Item
<1>1. /\ UNCHANGED <<rb, app, due, seen, cross, crashes, joins, touches, faults>>
      /\ job' \in [Workers -> Job] /\ \A r \in Rollbacks : job'[r] = job[r]
  BY ExecutorKeeps
<1>2. /\ rb' \in [Rollbacks -> [state : RollbackStates, rows : Seq(Entry)]]
      /\ \A r \in Rollbacks : RollbackShape(r)'
  BY <1>1 DEF Types, Shape, RollbackShape, TypeOK
<1>3. ASSUME FsType', StoreType', ExecShape'
      PROVE  Types'
  BY <1>1, <1>2, <1>3, ShapeOfRest
<1>4. ASSUME fs' = fs, row' = row
      PROVE  FsType' /\ row' \in [Items -> RowType] /\ \A i \in Items : RowShape(i)'
  BY <1>0, <1>4 DEF FsType, StoreType, RowShape
<1>5. ASSUME UNCHANGED <<run, row, manifest>>
      PROVE  StoreType'
  BY <1>0, <1>5 DEF StoreType, RowShape
<1> USE DEF At
<1>6. CASE StartRun
  <2>1. StoreType' /\ FsType'
    BY <1>0, <1>6 DEF StartRun, Keeping, StoreType, FsType, RowShape, RunStates
  <2>2. ExecShape'
    BY <1>0, <1>6, GotoFacts DEF StartRun, ExecShape, Steps, BusySteps, CaseSteps, MoveSteps, CopySteps
  <2> QED
    BY <1>3, <2>1, <2>2
<1>7. CASE BeginItem
  <2>1. FsType' /\ run' = run /\ manifest' = manifest
    BY <1>0, <1>7 DEF BeginItem, Keeping, FsType
  <2>2. row' = [row EXCEPT ![job[Exec].at] = [state |-> "pending", temp |-> "none", undo |-> "none"]]
    <3>1. [NoRow EXCEPT !.state = "pending"] = [state |-> "pending", temp |-> "none", undo |-> "none"]
      BY DEF NoRow
    <3> QED
      BY <1>0, <1>7, <3>1 DEF BeginItem
  <2>3. StoreType'
    BY <1>0, <2>1, <2>2 DEF StoreType, RowShape, RowType
  <2>4. ExecShape'
    BY <1>0, <1>7, GotoFacts DEF BeginItem, ExecShape, Steps, BusySteps, CaseSteps, MoveSteps, CopySteps
  <2> QED
    BY <1>3, <2>1, <2>3, <2>4
<1>8. CASE CheckItem
  <2>1. FsType' /\ StoreType'
    BY <1>0, <1>5, <1>8 DEF CheckItem, Keeping, store, FsType
  <2>2. job[Exec].at \in Items /\ Ops[job[Exec].at] \in {"rename", "case", "quarantine"}
    BY <1>0, <1>8 DEF CheckItem, ExecShape, BusySteps
  <2>3. \/ Goto(Exec, "fail")
        \/ Goto(Exec, "rename") /\ Ops[job[Exec].at] = "rename"
        \/ Goto(Exec, "journal") /\ Ops[job[Exec].at] = "case"
        \/ Goto(Exec, "manifest") /\ Ops[job[Exec].at] = "quarantine"
    BY <1>0, <1>8, <2>2 DEF CheckItem
  <2>4. ExecShape'
    BY <1>0, <2>2, <2>3, GotoFacts DEF ExecShape, Steps, BusySteps, CaseSteps, MoveSteps, CopySteps
  <2> QED
    BY <1>3, <2>1, <2>4
<1>9. CASE RenameItem \/ StageItem \/ SecondRename \/ RestoreSource
  <2>1. StoreType'
    BY <1>5, <1>9 DEF RenameItem, StageItem, SecondRename, RestoreSource, RenameStep, Keeping, store
  <2>2. FsType' /\ RenameOutcome /\ job'[Exec].at = job[Exec].at
    BY <1>9, RenameFs
  <2>3. ExecShape'
    BY <1>0, <2>2 DEF RenameOutcome, ExecShape, BusySteps, CaseSteps, MoveSteps, CopySteps
  <2> QED
    BY <1>3, <2>1, <2>2, <2>3
<1>10. CASE JournalStage
  <2>1. FsType' /\ run' = run /\ manifest' = manifest
    BY <1>0, <1>10 DEF JournalStage, Keeping, FsType
  <2>2. job[Exec].at \in Items /\ Ops[job[Exec].at] = "case"
    BY <1>0, <1>10 DEF JournalStage, ExecShape, BusySteps, CaseSteps
  <2>3. StoreType'
    BY <1>0, <1>10, <2>1, <2>2 DEF JournalStage, StoreType, RowShape, RowType
  <2>4. ExecShape'
    BY <1>0, <1>10, GotoFacts DEF JournalStage, ExecShape, Steps, BusySteps, CaseSteps, MoveSteps, CopySteps
  <2> QED
    BY <1>3, <2>1, <2>3, <2>4
<1>11. CASE SaveManifest
  <2>1. FsType' /\ run' = run /\ row' = row
    BY <1>0, <1>11 DEF SaveManifest, Keeping, FsType
  <2>2. job[Exec].at \in Items /\ Ops[job[Exec].at] = "quarantine"
    BY <1>0, <1>11 DEF SaveManifest, ExecShape, BusySteps
  <2>3. manifest' \in [Items -> ManifestType]
    BY <1>0, <1>11 DEF SaveManifest, StoreType, ManifestType, NoManifest
  <2>4. StoreType'
    BY <1>0, <1>4, <2>1, <2>3 DEF StoreType, FsType, RowShape
  <2>5. job'[Exec].pc = "move" /\ job'[Exec].at = job[Exec].at
    BY <1>0, <1>11 DEF SaveManifest, TypeOK
  <2>6. ExecShape'
    BY <1>0, <1>11, <2>2, <2>5 DEF ExecShape, BusySteps, CaseSteps, MoveSteps, CopySteps
  <2> QED
    BY <1>3, <2>1, <2>4, <2>6
<1>12. CASE Mover(Exec)
  <2>1. /\ FsType' /\ job[Exec].pc \in MoveSteps /\ job'[Exec].at = job[Exec].at
        /\ MoverOutcome(Exec)
    BY <1>12, MoverFs
  <2>2. ExecShape'
    <3>1. job'[Exec].pc \in {"moved", "drop", "erred", "own", "fill"}
      BY <2>1 DEF MoverOutcome
    <3>2. job'[Exec].pc \in {"drop", "own", "fill"} => cross
      BY <1>0, <2>1 DEF MoverOutcome, ExecShape
    <3>3. job[Exec].at \in Items /\ Ops[job[Exec].at] = "quarantine"
      BY <1>0, <2>1 DEF ExecShape, BusySteps, MoveSteps, CopySteps
    <3> QED
      BY <1>0, <1>1, <2>1, <3>1, <3>2, <3>3 DEF ExecShape, BusySteps, CaseSteps, MoveSteps, CopySteps
  <2>3. run' = run /\ row' = row
    BY <1>12 DEF Mover, MoverRename, MoverOpen, MoverOwn, MoverFill, MoverDrop, MoverFails, Keeping, store
  <2>4. manifest' \in [Items -> ManifestType]
    <3>1. CASE manifest' = manifest
      BY <1>0, <3>1 DEF StoreType
    <3>2. CASE MoverOwn(Exec)
      <4>1. \A m \in ManifestType : [m EXCEPT !.own = TRUE] \in ManifestType
        BY DEF ManifestType
      <4>2. \/ manifest' = manifest
            \/ manifest' = [manifest EXCEPT ![job[Exec].at] = [@ EXCEPT !.own = TRUE]]
        BY <1>0, <3>2 DEF MoverOwn
      <4> QED
        BY <1>0, <4>1, <4>2 DEF StoreType
    <3> QED
      BY <1>12, <3>1, <3>2 DEF Mover, MoverRename, MoverOpen, MoverFill, MoverDrop, MoverFails,
         Keeping, store
  <2>5. StoreType'
    BY <1>0, <2>3, <2>4 DEF StoreType, RowShape
  <2> QED
    BY <1>3, <2>1, <2>2, <2>5
<1>13. CASE MarkAvailable \/ QuarantineFailed
  <2>1. FsType' /\ run' = run /\ row' = row
    BY <1>0, <1>13 DEF MarkAvailable, QuarantineFailed, Keeping, FsType
  <2>2. job[Exec].at \in Items /\ Ops[job[Exec].at] = "quarantine"
    BY <1>0, <1>13 DEF MarkAvailable, QuarantineFailed, ExecShape, BusySteps, MoveSteps, CopySteps
  <2>3. manifest' \in [Items -> ManifestType]
    <3>1. SetManifest(job[Exec].at, NoManifest) \/ manifest' = manifest \/ SetStatus(job[Exec].at, "available")
      BY <1>0, <1>13 DEF MarkAvailable, QuarantineFailed
    <3> QED
      BY <1>0, <2>2, <3>1, SetStatusTyped, NoManifestTyped DEF StoreType, SetManifest
  <2>4. StoreType'
    BY <1>0, <2>1, <2>3 DEF StoreType, RowShape
  <2>5. Goto(Exec, "record") \/ Goto(Exec, "stuck") \/ Goto(Exec, "fail")
    BY <1>13 DEF MarkAvailable, QuarantineFailed
  <2>6. ExecShape'
    BY <1>0, <2>2, <2>5, GotoFacts DEF ExecShape, Steps, BusySteps, CaseSteps, MoveSteps, CopySteps
  <2> QED
    BY <1>3, <2>1, <2>4, <2>6
<1>14. CASE RecordItem \/ FailItem \/ StrandItem
  <2>1. /\ job[Exec].at \in Items /\ NextItem(Exec) /\ fs' = fs /\ run' = run /\ manifest' = manifest
        /\ \E state \in {"quarantined", "renamed", "failed"}, temp \in {"none", "stage", "target"} :
             /\ row' = [row EXCEPT ![job[Exec].at] = [state |-> state, temp |-> temp, undo |-> "none"]]
             /\ temp = "stage" => Ops[job[Exec].at] = "case"
             /\ temp = "target" => Ops[job[Exec].at] = "quarantine"
    BY <1>0, <1>14 DEF RecordItem, FailItem, StrandItem, EndItem, Keeping, ExecShape, BusySteps, CaseSteps
  <2>2. FsType' /\ StoreType'
    BY <1>0, <2>1 DEF FsType, StoreType, RowType, RowShape
  <2>3. ExecShape'
    <3>1. job'[Exec].pc = "item" /\ job'[Exec].at = job[Exec].at + 1
      BY <1>0, <2>1, NextItemFacts
    <3>2. job'[Exec].at >= 1
      BY <1>0, <3>1 DEF ExecShape, TypeOK, Job
    <3>3. job'[Exec].pc \notin BusySteps \cup CaseSteps \cup MoveSteps \cup {"rename", "manifest", "stuck", "own", "fill", "drop"}
      BY <3>1 DEF BusySteps, CaseSteps, MoveSteps, CopySteps
    <3> QED
      BY <3>1, <3>2, <3>3 DEF ExecShape
  <2> QED
    BY <1>3, <2>2, <2>3
<1>15. CASE FinishRun
  <2>1. FsType' /\ StoreType'
    BY <1>0, <1>15 DEF FinishRun, FinalState, Keeping, FsType, StoreType, RowShape, RunStates
  <2>2. ExecShape'
    BY <1>0, <1>15, GotoFacts DEF FinishRun, ExecShape, Steps, BusySteps, CaseSteps, MoveSteps, CopySteps
  <2> QED
    BY <1>3, <2>1, <2>2
<1>16. CASE RenameFails
  <2>1. FsType' /\ StoreType'
    BY <1>0, <1>5, <1>16 DEF RenameFails, Keeping, store, FsType
  <2>2. ExecShape'
    BY <1>0, <1>16, GotoFacts DEF RenameFails, ExecShape, Steps, BusySteps, CaseSteps, MoveSteps, CopySteps
  <2> QED
    BY <1>3, <2>1, <2>2
<1> QED
  BY <1>6, <1>7, <1>8, <1>9, <1>10, <1>11, <1>12, <1>13, <1>14, <1>15, <1>16 DEF ExecutorStep

RollbackType == [state : RollbackStates, rows : Seq(Entry)]

LEMMA RowsTyped ==
  ASSUME rb \in [Rollbacks -> RollbackType], NEW r \in Rollbacks, NEW rows \in Seq(Entry),
         rb' = [rb EXCEPT ![r].rows = rows]
  PROVE  /\ rb' \in [Rollbacks -> RollbackType] /\ rb'[r].rows = rows
         /\ \A q \in Rollbacks : q # r => rb'[q] = rb[q]
<1>1. rb' = [rb EXCEPT ![r] = [@ EXCEPT !.rows = rows]]
  OBVIOUS
<1>2. \A x \in RollbackType : [x EXCEPT !.rows = rows] \in RollbackType
  BY DEF RollbackType
<1>3. \A x \in RollbackType : [x EXCEPT !.rows = rows].rows = rows
  BY DEF RollbackType
<1> QED
  BY <1>1, <1>2, <1>3

\* Writing the state of one entry keeps the entries, their order and the rest of each.
SetState(rows, k, s) == [rows EXCEPT ![k] = [@ EXCEPT !.state = s]]

LEMMA StateSet ==
  ASSUME NEW rows \in Seq(Entry), NEW k, NEW s \in EntryStates
  PROVE  LET new == SetState(rows, k, s) IN
         /\ new \in Seq(Entry) /\ DOMAIN new = DOMAIN rows /\ Len(new) = Len(rows)
         /\ \A j \in DOMAIN rows : /\ new[j].item = rows[j].item /\ new[j].from = rows[j].from
                                   /\ new[j].state = IF j = k THEN s ELSE rows[j].state
<1> DEFINE new == [rows EXCEPT ![k] = [@ EXCEPT !.state = s]]
<1>1. \A e \in Entry : [e EXCEPT !.state = s] \in Entry
  BY DEF Entry
<1>2. \A e \in Entry : /\ [e EXCEPT !.state = s].item = e.item /\ [e EXCEPT !.state = s].from = e.from
                       /\ [e EXCEPT !.state = s].state = s
  BY DEF Entry
<1>3. DOMAIN rows = 1..Len(rows) /\ Len(rows) \in Nat /\ \A j \in DOMAIN rows : rows[j] \in Entry
  OBVIOUS
<1>4. /\ DOMAIN new = DOMAIN rows
      /\ \A j \in DOMAIN rows : new[j] = IF j = k THEN [rows[j] EXCEPT !.state = s] ELSE rows[j]
  OBVIOUS
<1>5. new \in [1..Len(rows) -> Entry]
  <2>1. new = [j \in DOMAIN rows |-> IF j = k THEN [rows[j] EXCEPT !.state = s] ELSE rows[j]]
    OBVIOUS
  <2> HIDE DEF new
  <2> QED
    BY <1>1, <1>3, <2>1
<1> HIDE DEF new
<1>6. new \in Seq(Entry) /\ Len(new) = Len(rows)
  BY <1>3, <1>5
<1>7. new \in Seq(Entry) /\ DOMAIN new = DOMAIN rows /\ Len(new) = Len(rows)
      /\ \A j \in DOMAIN rows : /\ new[j].item = rows[j].item /\ new[j].from = rows[j].from
                                /\ new[j].state = IF j = k THEN s ELSE rows[j].state
  BY <1>2, <1>3, <1>4, <1>6
<1> QED
  BY <1>7 DEF new, SetState

\* A rollback takes up an entry of its plan.
LEMMA UndoEntered ==
  ASSUME NEW r, BeginUndo(r)
  PROVE  job[r].pc = "item" /\ job[r].at \in DOMAIN job[r].plan
BY Zenon DEF BeginUndo, At

LEMMA RollbackTypes == \A r \in Rollbacks : Types /\ RollbackStep(r) => Types'
<1> SUFFICES ASSUME NEW r \in Rollbacks, Types, RollbackStep(r) PROVE Types'
  OBVIOUS
<1> USE Basics
<1>0. /\ TypeOK /\ FsType /\ StoreType /\ \A i \in Items : RowShape(i)
      /\ rb \in [Rollbacks -> RollbackType] /\ RollbackShape(r)
      /\ job[r].plan \in Seq(Step) /\ r \in Workers
  BY DEF Types, Shape, TypeOK, FsType, StoreType, RollbackType
<1>1. /\ UNCHANGED <<app, due, seen, cross, crashes, joins, touches, faults>>
      /\ job' \in [Workers -> Job] /\ \A p \in Workers : p # r => job'[p] = job[p]
      /\ job'[Exec] = job[Exec]
  BY RollbackKeeps
<1>2. ExecShape' /\ \A q \in Rollbacks : q # r => RollbackShape(q)'
  BY <1>1 DEF Types, Shape, RollbackShape, ExecShape
<1>3. ASSUME FsType', StoreType', RollbackShape(r)', rb' \in [Rollbacks -> RollbackType]
      PROVE  Types'
  BY <1>1, <1>2, <1>3, ShapeOfRest DEF RollbackType
<1>4. ASSUME UNCHANGED <<run, row, manifest>>
      PROVE  StoreType'
  BY <1>0, <1>4 DEF StoreType, RowShape
<1>5. fs' = fs => FsType'
  BY <1>0 DEF FsType
<1>6. rb' = rb => rb' \in [Rollbacks -> RollbackType]
  BY <1>0
<1> USE DEF At, Keeping, store
<1> USE DEF UndoSteps, FailSteps, MoveSteps, CopySteps, ShutilSteps
<1>7. CASE StartRollback(r)
  <2>1. FsType' /\ StoreType'
    BY <1>4, <1>5, <1>7 DEF StartRollback
  <2>2. rb' \in [Rollbacks -> RollbackType]
    BY <1>0, <1>7 DEF StartRollback, RollbackType, RollbackStates
  <2>0. PICK s \in Selections :
        job' = [job EXCEPT ![r] = [pc |-> "item", at |-> 1, leg |-> "back",
                                   plan |-> [k \in DOMAIN s |-> Preview(s[k])]]]
    BY <1>7 DEF StartRollback
  <2>3. s \in Seq(Items)
    BY SelectionsTyped
  <2>4. \A i \in Items : /\ Preview(i).item = i
                         /\ Preview(i).from = "target" \/ (Preview(i).from = "stage" /\ Ops[i] = "case")
    BY <1>0 DEF Preview, CurrentPlace, TypeOK, RowType, RowShape
  <2>5. /\ job'[r].pc = "item" /\ job'[r].at = 1
        /\ job'[r].plan = [k \in DOMAIN s |-> Preview(s[k])]
    BY <1>0, <2>0 DEF TypeOK
  <2>6. \A k \in DOMAIN job'[r].plan :
          /\ job'[r].plan[k].item \in Items
          /\ \/ job'[r].plan[k].from = "target"
             \/ job'[r].plan[k].from = "stage" /\ Ops[job'[r].plan[k].item] = "case"
    <3>1. \A k \in DOMAIN s : s[k] \in Items
      BY <2>3
    <3>2. DOMAIN job'[r].plan = DOMAIN s /\ \A k \in DOMAIN s : job'[r].plan[k] = Preview(s[k])
      BY <2>5
    <3> TAKE k \in DOMAIN job'[r].plan
    <3>3. k \in DOMAIN s /\ s[k] \in Items /\ job'[r].plan[k] = Preview(s[k])
      BY <3>1, <3>2
    <3>4. job'[r].plan[k].item = s[k]
      BY ZenonT(40), <2>4, <3>3
    <3> QED
      BY <2>4, <3>3, <3>4
  <2>7. RollbackShape(r)'
    BY <2>5, <2>6 DEF RollbackShape
  <2> QED
    BY <1>3, <2>1, <2>2, <2>7
<1>8. CASE BeginUndo(r)
  <2> DEFINE step == job[r].plan[job[r].at]
  <2>1. FsType' /\ StoreType'
    BY ZenonT(40), <1>4, <1>5, <1>8 DEF BeginUndo
  <2>2. step \in Step
    BY <1>0, <1>8, UndoEntered
  <2>3. [item |-> step.item, from |-> step.from, state |-> "pending"] \in Entry
    BY SMTT(20), <2>2 DEF Step, Entry, EntryStates
  <2>4. rb' = [rb EXCEPT ![r].rows = Append(@, [item |-> step.item, from |-> step.from, state |-> "pending"])]
    BY ZenonT(40), <1>8 DEF BeginUndo
  <2>5. \/ Goto(r, "mark_failed")
        \/ Goto(r, "rpath") /\ ~step.blocked /\ Ops[step.item] = "quarantine"
        \/ Goto(r, "shmove") /\ ~step.blocked /\ Ops[step.item] # "quarantine"
    BY ZenonT(40), <1>8, <2>2 DEF BeginUndo, Step
  <2> HIDE DEF step
  <2>6. rb' \in [Rollbacks -> RollbackType]
    <3>1. Append(rb[r].rows, [item |-> step.item, from |-> step.from, state |-> "pending"]) \in Seq(Entry)
      BY <1>0, <2>3 DEF RollbackType
    <3> QED
      BY <1>0, <2>4, <3>1, RowsTyped
  <2>7. job[r].at \in DOMAIN job[r].plan
    BY ZenonT(40), <1>8 DEF BeginUndo
  <2>8. /\ job'[r].at = job[r].at /\ job'[r].plan = job[r].plan
        /\ job'[r].pc \in {"mark_failed", "rpath", "shmove"}
        /\ job'[r].pc # "mark_failed" => ~step.blocked
        /\ job'[r].pc = "rpath" => Ops[step.item] = "quarantine"
        /\ job'[r].pc = "shmove" => Ops[step.item] # "quarantine"
    BY <1>0, <2>5, GotoFacts DEF Steps
  <2>9. RollbackShape(r)'
    BY <1>0, <2>7, <2>8 DEF RollbackShape, step
  <2> QED
    BY <1>3, <2>1, <2>6, <2>9
<1>9. CASE JournalRestore(r)
  <2>1. /\ FsType' /\ run' = run /\ row' = row /\ rb' = rb /\ job[r].pc = "rpath"
        /\ Goto(r, "erred") \/ Goto(r, "move")
    BY <1>5, <1>9 DEF JournalRestore
  <2>2. Item(r) \in Items /\ Item(r) = job[r].plan[job[r].at].item
    BY <2>1, UndoPlaces
  <2>3. manifest' \in [Items -> ManifestType]
    <3> DEFINE n == [manifest[Item(r)] EXCEPT !.rpath = TRUE, !.rown = FALSE]
    <3>1. n \in ManifestType
      <4>1. manifest[Item(r)] \in ManifestType
        BY <1>0, <2>2 DEF StoreType
      <4> QED
        BY ZenonT(40), <4>1, JournaledTyped
    <3>2. manifest' = manifest \/ manifest' = [manifest EXCEPT ![Item(r)] = n]
      BY <1>9 DEF JournalRestore, SetManifest
    <3> HIDE DEF n
    <3> QED
      BY <1>0, <2>2, <3>1, <3>2 DEF StoreType
  <2>4. StoreType'
    BY <1>0, <2>1, <2>3 DEF StoreType, RowShape
  <2>5. RollbackShape(r)'
    BY <1>0, <2>1, GotoFacts DEF RollbackShape, Steps
  <2> QED
    BY <1>3, <1>6, <2>1, <2>4, <2>5
<1>10. CASE Mover(r)
  <2>1. /\ FsType' /\ job[r].pc \in MoveSteps /\ MoverOutcome(r)
        /\ job'[r].at = job[r].at /\ job'[r].plan = job[r].plan
    BY <1>0, <1>10, MoverFs
  <2>2. run' = run /\ row' = row /\ rb' = rb
    BY <1>10 DEF Mover, MoverRename, MoverOpen, MoverOwn, MoverFill, MoverDrop, MoverFails
  <2>3. Item(r) \in Items
    BY <1>0, <2>1, MoverPlaces
  <2>4. manifest' \in [Items -> ManifestType]
    <3>1. \A m \in ManifestType : [m EXCEPT !.rown = TRUE] \in ManifestType
      BY DEF ManifestType
    <3>2. \/ manifest' = manifest
          \/ manifest' = [manifest EXCEPT ![Item(r)] = [@ EXCEPT !.rown = TRUE]]
      BY <1>0, <1>10 DEF Mover, MoverRename, MoverOpen, MoverOwn, MoverFill, MoverDrop, MoverFails
    <3> QED
      BY <1>0, <2>3, <3>1, <3>2 DEF StoreType
  <2>5. StoreType'
    BY <1>0, <2>2, <2>4 DEF StoreType, RowShape
  <2>6. /\ job'[r].pc \in {"moved", "drop", "erred", "own", "fill"}
        /\ job'[r].pc \in {"drop", "own", "fill"} => cross
    BY <1>0, <2>1 DEF MoverOutcome, RollbackShape
  <2>7. RollbackShape(r)'
    BY <1>0, <1>1, <2>1, <2>6 DEF RollbackShape
  <2> QED
    BY <1>3, <1>6, <2>1, <2>2, <2>5, <2>7
<1>11. CASE Shutil(r)
  <2>1. /\ FsType' /\ job[r].pc \in ShutilSteps /\ ShutilOutcome(r)
        /\ job'[r].at = job[r].at /\ job'[r].plan = job[r].plan
    BY <1>11, ShutilFs
  <2>2. UNCHANGED <<run, row, manifest, rb>>
    BY <1>11 DEF Shutil, ShutilRename, ShutilOpen, ShutilCopy, ShutilDrop, ShutilFails
  <2>3. RollbackShape(r)'
    BY <1>0, <2>1 DEF RollbackShape, ShutilOutcome
  <2> QED
    BY <1>3, <1>4, <1>6, <2>1, <2>2, <2>3
<1>12. CASE SyncManifest(r)
  <2>1. /\ FsType' /\ run' = run /\ row' = row /\ rb' = rb
        /\ \/ job[r].pc = "moved" /\ SetStatus(Item(r), "restored") /\ Goto(r, "mark_done")
           \/ job[r].pc = "erred" /\ SetStatus(Item(r), "restore_failed") /\ Goto(r, "mark_failed")
    BY <1>5, <1>12 DEF SyncManifest
  <2>2. Item(r) \in Items
    BY <1>0, <2>1, MoverPlaces
  <2>3. manifest' \in [Items -> ManifestType]
    BY <1>0, <2>1, <2>2, SetStatusTyped DEF StoreType
  <2>4. StoreType'
    BY <1>0, <2>1, <2>3 DEF StoreType, RowShape
  <2>5. RollbackShape(r)'
    BY <1>0, <2>1, GotoFacts DEF RollbackShape, Steps
  <2> QED
    BY <1>3, <1>6, <2>1, <2>4, <2>5
<1>13. CASE MarkItem(r)
  <2>1. /\ FsType' /\ run' = run /\ manifest' = manifest /\ rb' = rb
        /\ \E undo \in {"done", "failed"} : row' = [row EXCEPT ![Item(r)].undo = undo]
        /\ \/ job[r].pc = "mark_done" /\ Goto(r, "log_done")
           \/ job[r].pc = "mark_failed" /\ Goto(r, "log_failed")
    BY <1>5, <1>13 DEF MarkItem
  <2>2. Item(r) \in Items
    BY <2>1, UndoPlaces
  <2>3. PICK undo \in {"done", "failed"} : row' = [row EXCEPT ![Item(r)].undo = undo]
    BY <2>1
  <2>4. \A m \in RowType : [m EXCEPT !.undo = undo] \in RowType /\ [m EXCEPT !.undo = undo].temp = m.temp
    BY DEF RowType
  <2>5. /\ row' \in [Items -> RowType]
        /\ \A i \in Items : row'[i].temp = row[i].temp
    <3>1. row' = [row EXCEPT ![Item(r)] = [@ EXCEPT !.undo = undo]]
      BY <2>3
    <3> QED
      BY <1>0, <2>2, <2>4, <3>1 DEF StoreType
  <2>6. StoreType'
    BY <1>0, <2>1, <2>5 DEF StoreType, RowShape
  <2>7. RollbackShape(r)'
    BY <1>0, <2>1, GotoFacts DEF RollbackShape, Steps
  <2> QED
    BY <1>3, <1>6, <2>1, <2>6, <2>7
<1>14. CASE LogUndo(r)
  <2>1. FsType' /\ StoreType' /\ NextItem(r)
    BY <1>4, <1>5, <1>14 DEF LogUndo
  <2>2. rb' \in [Rollbacks -> RollbackType]
    <3>1. PICK s \in EntryStates : rb' = [rb EXCEPT ![r].rows[job[r].at].state = s]
      BY ZenonT(40), <1>14 DEF LogUndo, EntryStates
    <3>2. rb[r].rows \in Seq(Entry)
      BY <1>0 DEF RollbackType
    <3> DEFINE rows == SetState(rb[r].rows, job[r].at, s)
    <3>3. rb' = [rb EXCEPT ![r].rows = rows]
      BY <3>1 DEF SetState
    <3>4. rows \in Seq(Entry)
      BY <3>2, StateSet
    <3> HIDE DEF rows
    <3> QED
      BY <1>0, <3>3, <3>4, RowsTyped
  <2>3. job'[r].pc = "item" /\ job'[r].at = job[r].at + 1 /\ job'[r].plan = job[r].plan /\ job[r].at \in Nat
    BY <1>0, <2>1, NextItemFacts DEF TypeOK
  <2>4. RollbackShape(r)'
    BY <1>0, <2>3 DEF RollbackShape
  <2> QED
    BY <1>3, <2>1, <2>2, <2>4
<1>15. CASE FinishRollback(r)
  <2>1. FsType' /\ StoreType' /\ Goto(r, "source")
    BY <1>4, <1>5, <1>15 DEF FinishRollback
  <2>2. rb' \in [Rollbacks -> RollbackType]
    BY ZenonT(40), <1>0, <1>15 DEF FinishRollback, RollbackType, RollbackStates
  <2>3. RollbackShape(r)'
    BY <1>0, <2>1, GotoFacts DEF RollbackShape, Steps
  <2> QED
    BY <1>3, <2>1, <2>2, <2>3
<1>16. CASE FinishSource(r)
  <2>1. /\ FsType' /\ rb' = rb /\ row' = row /\ manifest' = manifest /\ Goto(r, "done")
        /\ run' = run \/ run' = [state |-> "rolled_back", avail |-> FALSE]
    BY <1>5, <1>16 DEF FinishSource
  <2>2. [state |-> "rolled_back", avail |-> FALSE] \in [state : RunStates, avail : BOOLEAN]
    BY DEF RunStates
  <2>3. StoreType'
    BY <1>0, <2>1, <2>2 DEF StoreType, RowShape
  <2>4. RollbackShape(r)'
    BY <1>0, <2>1, GotoFacts DEF RollbackShape, Steps
  <2> QED
    BY <1>3, <1>6, <2>1, <2>3, <2>4
<1> QED
  BY <1>7, <1>8, <1>9, <1>10, <1>11, <1>12, <1>13, <1>14, <1>15, <1>16 DEF RollbackStep, Shutil

\* What a database write that raises does to its worker.
FaultOutcome(p) ==
  LET s == job[p].pc
      t == job'[p].pc IN
  IF p = Exec
    THEN \/ s \in {"journal", "manifest", "record", "homed", "stranded", "stuck"} /\ t = "fail"
            /\ job'[p].leg = job[p].leg
         \/ s = "moved" /\ job[p].leg = "out" /\ t = "move" /\ job'[p].leg = "back"
         \/ s = "moved" /\ job[p].leg = "back" /\ t = "fail" /\ job'[p].leg = "back"
         \/ s \in {"item", "fail"} /\ t = "dead"
    ELSE \/ s = "rpath" /\ t = "erred"
         \/ s = "moved" /\ t = "mark_done"
         \/ s = "erred" /\ t = "mark_failed"
         \/ s \in {"item", "source"} \cup {"mark_done", "log_done"} \cup FailSteps /\ t = "dead"

LEMMA FaultFacts ==
  ASSUME Types, NEW p \in Workers, WriteFails(p)
  PROVE  /\ UNCHANGED <<fs, run, row, manifest, rb, app, due, seen, cross, crashes, joins, touches>>
         /\ faults' \in 0..MaxFaults /\ MaxFaults > 0 /\ Serving
         /\ job' \in [Workers -> Job]
         /\ job'[p].at = job[p].at /\ job'[p].plan = job[p].plan
         /\ \A q \in Workers : q # p => job'[q] = job[q]
         /\ FaultOutcome(p)
<1>0. TypeOK /\ job \in [Workers -> Job] /\ MaxFaults \in Nat
  BY ConstantsAssumption DEF Types, TypeOK, Job, ConstantsAssumption
<1>1. /\ UNCHANGED <<fs, run, row, manifest, rb, app, due, seen, cross, crashes, joins, touches>>
      /\ faults' \in 0..MaxFaults /\ MaxFaults > 0 /\ Serving
  BY <1>0 DEF WriteFails, store, TypeOK
<1> DEFINE s == job[p].pc
           leg == IF p = Exec /\ job[p].leg = "out" /\ At(p, "moved") THEN "back" ELSE job[p].leg
<1>2. s \in Steps /\ job[p].leg \in {"out", "back"} /\ OnFault(p) # "none"
  BY <1>0 DEF WriteFails, Job
<1>3. p = Exec \/ p \in Rollbacks
  BY Basics
<1>4. \/ /\ p = Exec
         /\ \/ s \in {"journal", "manifest", "record", "homed", "stranded", "stuck"} /\ OnFault(p) = "fail"
            \/ s = "moved" /\ job[p].leg = "out" /\ OnFault(p) = "move"
            \/ s = "moved" /\ job[p].leg = "back" /\ OnFault(p) = "fail"
            \/ s \in {"item", "fail"} /\ OnFault(p) = "dead"
      \/ /\ p # Exec
         /\ \/ s = "rpath" /\ OnFault(p) = "erred"
            \/ s = "moved" /\ OnFault(p) = "mark_done"
            \/ s = "erred" /\ OnFault(p) = "mark_failed"
            \/ s \in {"item", "source", "mark_done", "log_done", "mark_failed", "log_failed"}
               /\ OnFault(p) = "dead"
  <2>1. CASE p = Exec
    <3>1. s \in {"idle", "item", "done", "dead"} \cup BusySteps
      BY <2>1 DEF Types, Shape, ExecShape
    <3> QED
      BY <1>2, <2>1, <3>1 DEF OnFault, BusySteps
  <2>2. CASE p # Exec
    <3>1. s \in {"idle", "item", "source", "done", "dead"} \cup UndoSteps \cup FailSteps
      BY <1>3, <2>2 DEF Types, Shape, RollbackShape
    <3> QED
      BY <1>2, <2>2, <3>1 DEF OnFault, UndoSteps, FailSteps, MoveSteps, CopySteps, ShutilSteps
  <2> QED
    BY <2>1, <2>2
<1>5. OnFault(p) \in Steps
  BY <1>4 DEF Steps
<1>6. leg \in {"out", "back"} /\ (p = Exec => leg = IF s = "moved" THEN "back" ELSE job[p].leg)
  BY <1>1, <1>2 DEF At
<1>7. job' = [job EXCEPT ![p].pc = OnFault(p), ![p].leg = leg]
  BY DEF WriteFails
<1> HIDE DEF leg
<1>8. /\ job' \in [Workers -> Job]
      /\ job'[p].pc = OnFault(p) /\ job'[p].leg = leg
      /\ job'[p].at = job[p].at /\ job'[p].plan = job[p].plan
      /\ \A q \in Workers : q # p => job'[q] = job[q]
  BY <1>0, <1>5, <1>6, <1>7 DEF Job
<1>9. FaultOutcome(p)
  BY <1>4, <1>6, <1>8 DEF FaultOutcome, FailSteps
<1> QED
  BY <1>1, <1>8, <1>9

LEMMA FaultTypes == \A p \in Workers : Types /\ WriteFails(p) => Types'
<1> SUFFICES ASSUME NEW p \in Workers, Types, WriteFails(p) PROVE Types'
  OBVIOUS
<1>1. /\ UNCHANGED <<fs, run, row, manifest, rb, app, due, seen, cross, crashes, joins, touches>>
      /\ faults' \in 0..MaxFaults
      /\ job' \in [Workers -> Job]
      /\ job'[p].at = job[p].at /\ job'[p].plan = job[p].plan
      /\ \A q \in Workers : q # p => job'[q] = job[q]
      /\ FaultOutcome(p)
  BY FaultFacts
<1>2. TypeOK'
  BY <1>1 DEF Types, TypeOK, Job
<1>3. SeenShape' /\ \A i \in Items : RowShape(i)'
  BY <1>1 DEF Types, Shape, SeenShape, RowShape
<1>4. CASE p = Exec
  <2>1. ExecShape'
    BY <1>1, <1>4 DEF Types, Shape, ExecShape, FaultOutcome, BusySteps, CaseSteps, MoveSteps, CopySteps
  <2>2. \A r \in Rollbacks : RollbackShape(r)'
    BY <1>1, <1>4, Basics DEF Types, Shape, RollbackShape
  <2> QED
    BY <1>2, <1>3, <2>1, <2>2 DEF Types, Shape
<1>5. CASE p # Exec
  <2>1. p \in Rollbacks /\ job'[Exec] = job[Exec]
    BY <1>1, <1>5, Basics
  <2>2. ExecShape'
    BY <1>1, <2>1 DEF Types, Shape, ExecShape
  <2>3. RollbackShape(p)'
    BY <1>1, <1>5, <2>1 DEF Types, Shape, RollbackShape, FaultOutcome, UndoSteps, FailSteps, MoveSteps,
       CopySteps, ShutilSteps
  <2>4. \A r \in Rollbacks : r # p => RollbackShape(r)'
    BY <1>1, Basics DEF Types, Shape, RollbackShape
  <2> QED
    BY <1>2, <1>3, <2>2, <2>3, <2>4 DEF Types, Shape
<1> QED
  BY <1>4, <1>5

LEMMA NotSeenTyped == NotSeen \in Seen /\ NotSeen.by = "none"
<1>1. NoManifest \in ManifestType
  BY NoManifestTyped
<1> QED
  BY <1>1 DEF NotSeen, Seen, EntryStates

LEMMA EnvironmentTypes == Types /\ Environment => Types'
<1> SUFFICES ASSUME Types, NEW i \in Items, NEW p \in Places, Stranger(i, p) \/ Edit(i, p)
             PROVE  Types'
  BY DEF Environment
<1>1. /\ FsType'
      /\ UNCHANGED <<run, row, manifest, rb, job, app, due, seen, cross, crashes, joins, faults>>
      /\ touches' \in 0..MaxTouches
  BY EnvironmentFs
<1>2. TypeOK'
  BY <1>1 DEF Types, TypeOK, FsType
<1>3. Shape'
  BY <1>1 DEF Types, Shape, ExecShape, RollbackShape, RowShape, SeenShape
<1> QED
  BY <1>2, <1>3 DEF Types

LEMMA CrashFacts ==
  ASSUME Types, Crash
  PROVE  /\ UNCHANGED <<fs, run, row, manifest, rb, cross, joins, touches, faults>>
         /\ app' = "down" /\ due' = {} /\ seen' = NotSeen
         /\ crashes' \in 1..MaxCrashes
         /\ job' \in [Workers -> Job]
         /\ \A p \in Workers : /\ job'[p].pc \in {"idle", "done"} /\ job'[p].at = 1
                               /\ job'[p].pc = "idle" => job[p].pc = "idle"
                               /\ job'[p].plan = <<>>
<1>1. /\ UNCHANGED <<fs, run, row, manifest, rb, cross, joins, touches, faults>>
      /\ app' = "down" /\ due' = {} /\ seen' = NotSeen
      /\ crashes' \in 1..MaxCrashes
  BY ConstantsAssumption DEF Crash, store, Types, TypeOK, ConstantsAssumption
<1>2. /\ Idle = [pc |-> "idle", at |-> 1, plan |-> <<>>, leg |-> "out"]
      /\ [Idle EXCEPT !.pc = "done"] = [pc |-> "done", at |-> 1, plan |-> <<>>, leg |-> "out"]
  BY DEF Idle
<1>3. job' = [p \in Workers |-> IF job[p].pc = "idle" THEN Idle ELSE [Idle EXCEPT !.pc = "done"]]
  BY DEF Crash
<1>4. \A p \in Workers :
        \/ job[p].pc = "idle" /\ job'[p] = [pc |-> "idle", at |-> 1, plan |-> <<>>, leg |-> "out"]
        \/ job[p].pc # "idle" /\ job'[p] = [pc |-> "done", at |-> 1, plan |-> <<>>, leg |-> "out"]
  BY <1>2, <1>3
<1>5. \A p \in Workers : job'[p] \in Job
  <2>1. <<>> \in Seq(Step)
    OBVIOUS
  <2>2. /\ [pc |-> "idle", at |-> 1, plan |-> <<>>, leg |-> "out"] \in Job
        /\ [pc |-> "done", at |-> 1, plan |-> <<>>, leg |-> "out"] \in Job
    BY <2>1 DEF Job, Steps
  <2> QED
    BY <1>4, <2>2
<1>6. job' \in [Workers -> Job]
  BY <1>3, <1>5
<1> QED
  BY <1>1, <1>4, <1>6

LEMMA CrashTypes == Types /\ Crash => Types'
<1> SUFFICES ASSUME Types, Crash PROVE Types'
  OBVIOUS
<1>0. MaxCrashes \in Nat
  BY ConstantsAssumption DEF ConstantsAssumption
<1>1. TypeOK'
  <2>1. /\ UNCHANGED <<fs, run, row, manifest, rb, cross, joins, touches, faults>>
        /\ app' = "down" /\ due' = {} /\ seen' = NotSeen
        /\ crashes' \in 0..MaxCrashes /\ job' \in [Workers -> Job]
    BY <1>0, CrashFacts
  <2> QED
    BY <2>1, NotSeenTyped DEF Types, TypeOK, Job
<1>2. ExecShape' /\ \A r \in Rollbacks : RollbackShape(r)'
  BY CrashFacts, Basics DEF ExecShape, RollbackShape, BusySteps, CaseSteps, MoveSteps, CopySteps,
     UndoSteps, FailSteps, ShutilSteps
<1>3. SeenShape' /\ \A i \in Items : RowShape(i)'
  BY CrashFacts, NotSeenTyped, Basics DEF Types, Shape, SeenShape, RowShape
<1> QED
  BY <1>1, <1>2, <1>3 DEF Types, Shape

---------------------------------------------------------------------------
\* The restart.

LEMMA RecoveredRowFacts ==
  ASSUME Types, NEW i \in Items, NEW held \in BOOLEAN
  PROVE  LET v == RecoveredRow(i, held) IN
         /\ v.state \in {"pending", "quarantined", "failed"}
         /\ v.state # "pending" => Ops[i] = "quarantine"
         /\ v.status = "none" <=> manifest[i].status = "none"
         /\ [manifest[i] EXCEPT !.status = v.status] \in ManifestType
         /\ [manifest[i] EXCEPT !.status = v.status].status = v.status
<1>1. manifest[i] \in ManifestType
  BY DEF Types, TypeOK
<1>2. /\ RecoveredRow(i, held).state \in {"pending", "quarantined", "failed"}
      /\ RecoveredRow(i, held).state # "pending" => Ops[i] = "quarantine"
      /\ RecoveredRow(i, held).status = "none" <=> manifest[i].status = "none"
      /\ RecoveredRow(i, held).status \in {"conflict", "available", "missing", manifest[i].status}
  BY DEF RecoveredRow
<1>3. ASSUME NEW s \in {"conflict", "available", "missing", manifest[i].status}
      PROVE  /\ [manifest[i] EXCEPT !.status = s] \in ManifestType
             /\ [manifest[i] EXCEPT !.status = s].status = s
  BY <1>1 DEF ManifestType
<1> QED
  BY <1>2, <1>3

\* What the restart keeps of the item it looked at.
LEMMA LookAtRunFacts ==
  ASSUME Types, LookAtRun
  PROVE  /\ Repairing /\ Exec \in due /\ seen = NotSeen
         /\ seen' \in Seen /\ seen'.by = Exec
         /\ seen'.item \in {0} \cup InterruptedItem
         /\ seen'.state \in {"pending", "quarantined", "failed"}
         /\ seen'.state # "pending" => seen'.item # 0 /\ Ops[seen'.item] = "quarantine"
<1>1. Repairing /\ Exec \in due /\ seen = NotSeen
  BY DEF LookAtRun, Look
<1>2. CASE InterruptedItem = {} /\ seen' = [NotSeen EXCEPT !.by = Exec]
  <2>1. NotSeen \in Seen /\ NotSeen.item = 0 /\ NotSeen.state = "pending"
    BY NotSeenTyped DEF NotSeen
  <2>2. \A x \in Seen : /\ [x EXCEPT !.by = Exec] \in Seen /\ [x EXCEPT !.by = Exec].by = Exec
                        /\ [x EXCEPT !.by = Exec].item = x.item /\ [x EXCEPT !.by = Exec].state = x.state
    BY Basics DEF Seen
  <2> QED
    BY <1>1, <1>2, <2>1, <2>2
<1>3. ASSUME NEW i \in InterruptedItem, NEW held \in BOOLEAN,
             seen' = [by |-> Exec, at |-> 0, item |-> i, state |-> RecoveredRow(i, held).state,
                      manifest |-> [manifest[i] EXCEPT !.status = RecoveredRow(i, held).status]]
      PROVE  /\ seen' \in Seen /\ seen'.by = Exec
             /\ seen'.item \in InterruptedItem /\ seen'.item # 0
             /\ seen'.state \in {"pending", "quarantined", "failed"}
             /\ seen'.state # "pending" => Ops[seen'.item] = "quarantine"
  <2>1. i \in Items /\ i # 0
    BY <1>3, Basics DEF InterruptedItem
  <2>2. PICK st \in {"pending", "quarantined", "failed"}, m \in ManifestType :
          /\ seen' = [by |-> Exec, at |-> 0, item |-> i, state |-> st, manifest |-> m]
          /\ st # "pending" => Ops[i] = "quarantine"
    BY <1>3, <2>1, RecoveredRowFacts
  <2>3. seen' \in Seen
    BY <2>1, <2>2, Basics DEF Seen, EntryStates
  <2> QED
    BY <1>3, <2>1, <2>2, <2>3
<1> QED
  BY <1>1, <1>2, <1>3 DEF LookAtRun

LEMMA LookAtRollbackFacts ==
  ASSUME Types, NEW r \in Rollbacks, LookAtRollback(r)
  PROVE  /\ Repairing /\ r \in due /\ seen = NotSeen
         /\ seen' \in Seen /\ seen'.by = r
         /\ seen'.state \in EntryStates
         /\ seen'.item # 0 =>
              /\ seen'.manifest.status # "none"
              /\ seen'.at \in DOMAIN rb[r].rows
              /\ seen'.item = rb[r].rows[seen'.at].item
              /\ seen'.state \in {"rolled_back", "rollback_failed"}
              /\ seen'.state = "rolled_back" => fs[seen'.item]["origin"] = "own"
         /\ seen'.item = 0 => seen'.state = "pending"
<1>1. Repairing /\ r \in due /\ seen = NotSeen /\ rb[r].rows \in Seq(Entry)
  BY DEF LookAtRollback, Look, Types, TypeOK
<1> DEFINE n == Len(rb[r].rows)
<1>2. CASE seen' = [NotSeen EXCEPT !.by = r]
  <2>1. NotSeen \in Seen /\ NotSeen.item = 0 /\ NotSeen.state = "pending"
    BY NotSeenTyped DEF NotSeen
  <2>2. \A x \in Seen : /\ [x EXCEPT !.by = r] \in Seen /\ [x EXCEPT !.by = r].by = r
                        /\ [x EXCEPT !.by = r].item = x.item /\ [x EXCEPT !.by = r].state = x.state
    BY Basics DEF Seen
  <2> QED
    BY <1>1, <1>2, <2>1, <2>2 DEF EntryStates
<1>3. ASSUME ~(n = 0 \/ rb[r].rows[n].state # "pending"), NEW held \in BOOLEAN,
             seen' = [by |-> r, at |-> n, item |-> rb[r].rows[n].item,
                      state |-> IF RecoveredUndo(rb[r].rows[n], held) = "restored"
                                  THEN "rolled_back" ELSE "rollback_failed",
                      manifest |-> [NoManifest EXCEPT !.status = RecoveredUndo(rb[r].rows[n], held)]]
      PROVE  /\ seen' \in Seen /\ seen'.by = r
             /\ seen'.state \in EntryStates
             /\ seen'.item # 0
             /\ seen'.manifest.status # "none"
             /\ seen'.at \in DOMAIN rb[r].rows
             /\ seen'.item = rb[r].rows[seen'.at].item
             /\ seen'.state \in {"rolled_back", "rollback_failed"}
             /\ seen'.state = "rolled_back" => fs[seen'.item]["origin"] = "own"
  <2>1. n \in Nat /\ n \in DOMAIN rb[r].rows
    BY <1>1, <1>3
  <2>2. rb[r].rows[n] \in Entry
    BY <1>1, <2>1
  <2>3. rb[r].rows[n].item \in Items /\ rb[r].rows[n].item # 0
    BY SMTT(20), <2>2, Basics DEF Entry
  <2> DEFINE e == rb[r].rows[n]
             v == RecoveredUndo(e, held)
  <2>4. /\ v \in {"restored", "restore_failed", "conflict", "missing"}
        /\ v = "restored" => fs[e.item]["origin"] = "own"
    BY <2>3 DEF RecoveredUndo, Unchanged
  <2> HIDE DEF v
  <2>5. [NoManifest EXCEPT !.status = v] \in ManifestType /\ [NoManifest EXCEPT !.status = v].status = v
    <3>1. \A m \in ManifestType : [m EXCEPT !.status = v] \in ManifestType /\ [m EXCEPT !.status = v].status = v
      BY <2>4 DEF ManifestType
    <3> QED
      BY <3>1, NoManifestTyped
  <2>6. PICK st \in {"rolled_back", "rollback_failed"}, m \in ManifestType :
          /\ seen' = [by |-> r, at |-> n, item |-> e.item, state |-> st, manifest |-> m]
          /\ m.status # "none"
          /\ st = "rolled_back" => fs[e.item]["origin"] = "own"
    BY <1>3, <2>4, <2>5 DEF v
  <2> HIDE DEF e, n
  <2>7. e.item \in Items /\ e.item # 0 /\ n \in Nat
    BY <2>1, <2>3 DEF e
  <2>8. seen' \in Seen
    BY <2>6, <2>7, Basics DEF Seen, EntryStates
  <2> QED
    BY <2>1, <2>6, <2>7, <2>8 DEF EntryStates, e
<1> QED
  BY <1>1, <1>2, <1>3 DEF LookAtRollback

\* The transaction that repairs a run.
LEMMA RecoverRunFacts ==
  ASSUME Types, RecoverRun
  PROVE  /\ UNCHANGED <<fs, rb, job, cross, crashes, joins, touches, faults>>
         /\ Repairing /\ seen \in Seen /\ seen.by = Exec /\ Exec \in due
         /\ due' = due \ {Exec} /\ seen' = NotSeen
         /\ app' \in {app, "lock"} /\ app' \in {"boot", "lock"}
         /\ app' = "boot" <=> app = "boot"
         /\ StoreType'
         /\ run'.state = "interrupted"
         /\ \A i \in Items : /\ row'[i].temp = row[i].temp /\ row'[i].undo = row[i].undo
                             /\ row'[i].state =
                                  IF i = seen.item /\ seen.state # "pending" THEN seen.state
                                  ELSE IF row[i].state = "pending" THEN "failed" ELSE row[i].state
         /\ \A i \in Items : manifest'[i].status = "none" <=> manifest[i].status = "none"
<1>0. /\ seen \in Seen /\ row \in [Items -> RowType] /\ manifest \in [Items -> ManifestType]
      /\ app \in {"up", "down", "boot", "join", "lock"}
  BY DEF Types, TypeOK
<1>1. /\ UNCHANGED <<fs, rb, job, cross, crashes, joins, touches, faults>>
      /\ Repairing /\ seen.by = Exec /\ due' = due \ {Exec} /\ seen' = NotSeen
      /\ app' = IF app = "join" THEN "lock" ELSE app
  BY DEF RecoverRun, Write, budget
<1>2. /\ Exec \in due /\ seen.state \in {"pending", "quarantined", "failed"}
      /\ seen.manifest \in ManifestType
  BY <1>0, <1>1, Basics DEF Types, Shape, SeenShape, Seen
<1>3. app' \in {app, "lock"} /\ app' \in {"boot", "lock"} /\ (app' = "boot" <=> app = "boot")
  BY <1>0, <1>1 DEF Repairing
<1>4. \A x \in RowType :
        /\ [x EXCEPT !.state = seen.state] \in RowType
        /\ [x EXCEPT !.state = seen.state].temp = x.temp /\ [x EXCEPT !.state = seen.state].undo = x.undo
        /\ [x EXCEPT !.state = seen.state].state = seen.state
  BY <1>2 DEF RowType
<1>5. \A x \in RowType : /\ EndPending(x) \in RowType
                         /\ EndPending(x).temp = x.temp /\ EndPending(x).undo = x.undo
                         /\ EndPending(x).state = IF x.state = "pending" THEN "failed" ELSE x.state
  BY DEF RowType, EndPending
<1>6. /\ row' \in [Items -> RowType]
      /\ \A i \in Items : /\ row'[i].temp = row[i].temp /\ row'[i].undo = row[i].undo
                          /\ row'[i].state =
                               IF i = seen.item /\ seen.state # "pending" THEN seen.state
                               ELSE IF row[i].state = "pending" THEN "failed" ELSE row[i].state
  <2>1. row' = [i \in Items |->
                  IF i = seen.item /\ seen.state # "pending" THEN [row[i] EXCEPT !.state = seen.state]
                  ELSE EndPending(row[i])]
    BY DEF RecoverRun
  <2>2. \A i \in Items : /\ row'[i] \in RowType
                         /\ row'[i].temp = row[i].temp /\ row'[i].undo = row[i].undo
                         /\ row'[i].state =
                              IF i = seen.item /\ seen.state # "pending" THEN seen.state
                              ELSE IF row[i].state = "pending" THEN "failed" ELSE row[i].state
    <3> TAKE i \in Items
    <3>1. CASE i = seen.item /\ seen.state # "pending"
      BY <1>0, <1>4, <2>1, <3>1
    <3>2. CASE ~(i = seen.item /\ seen.state # "pending")
      BY <1>0, <1>5, <2>1, <3>2
    <3> QED
      BY <3>1, <3>2
  <2> QED
    BY <2>1, <2>2
<1>7. /\ manifest' \in [Items -> ManifestType]
      /\ \A i \in Items : manifest'[i].status = "none" <=> manifest[i].status = "none"
  <2>1. manifest' = [i \in Items |->
          IF i = seen.item /\ seen.manifest.status # "none" /\ manifest[i].status # "none"
            THEN seen.manifest ELSE manifest[i]]
    BY DEF RecoverRun
  <2> QED
    BY <1>0, <1>2, <2>1
<1>8. run' = [state |-> "interrupted", avail |-> HasRollback(row')]
  BY DEF RecoverRun
<1>9. run' \in [state : RunStates, avail : BOOLEAN] /\ run'.state = "interrupted"
  <2>1. HasRollback(row') \in BOOLEAN
    BY DEF HasRollback
  <2> QED
    BY <1>8, <2>1 DEF RunStates
<1>10. StoreType'
  BY <1>6, <1>7, <1>9 DEF Types, Shape, StoreType, RowShape
<1> QED
  BY <1>0, <1>1, <1>2, <1>3, <1>6, <1>7, <1>9, <1>10

\* The transaction that repairs a rollback.
LEMMA RecoverRollbackFacts ==
  ASSUME Types, NEW r \in Rollbacks, RecoverRollback(r)
  PROVE  /\ UNCHANGED <<fs, job, cross, crashes, joins, touches, faults>>
         /\ Repairing /\ seen \in Seen /\ seen.by = r /\ r \in due
         /\ due' = due \ {r} /\ seen' = NotSeen
         /\ app' \in {app, "lock"} /\ app' \in {"boot", "lock"}
         /\ app' = "boot" <=> app = "boot"
         /\ StoreType'
         /\ \A i \in Items : /\ row'[i].temp = row[i].temp /\ row'[i].state = row[i].state
                             /\ row'[i].undo = IF i = seen.item
                                                 THEN IF seen.state = "rolled_back" THEN "done" ELSE "failed"
                                                 ELSE row[i].undo
         /\ \A i \in Items : manifest'[i].status = "none" <=> manifest[i].status = "none"
         /\ rb' \in [Rollbacks -> RollbackType] /\ \A q \in Rollbacks : q # r => rb'[q] = rb[q]
         /\ DOMAIN rb'[r].rows = DOMAIN rb[r].rows
         /\ \A k \in DOMAIN rb[r].rows :
              /\ rb'[r].rows[k].item = rb[r].rows[k].item
              /\ rb'[r].rows[k].state = IF k = seen.at THEN seen.state
                                        ELSE IF rb[r].rows[k].state = "pending" THEN "failed"
                                        ELSE rb[r].rows[k].state
<1>0. /\ seen \in Seen /\ row \in [Items -> RowType] /\ manifest \in [Items -> ManifestType]
      /\ app \in {"up", "down", "boot", "join", "lock"} /\ \A i \in Items : RowShape(i)
      /\ run \in [state : RunStates, avail : BOOLEAN]
      /\ rb \in [Rollbacks -> RollbackType]
  BY DEF Types, TypeOK, Shape, RollbackType
<1>1. /\ UNCHANGED <<fs, job, cross, crashes, joins, touches, faults>>
      /\ Repairing /\ seen.by = r /\ due' = due \ {r} /\ seen' = NotSeen
      /\ app' = IF app = "join" THEN "lock" ELSE app
  BY DEF RecoverRollback, Write, budget
<1>2. /\ r \in due /\ seen.state \in EntryStates /\ seen.manifest \in ManifestType
      /\ seen.item \in Items \cup {0} /\ 0 \notin Items
      /\ seen.item # 0 => seen.manifest.status # "none"
  BY <1>0, <1>1, Basics DEF Types, Shape, SeenShape, Seen
<1>3. app' \in {app, "lock"} /\ app' \in {"boot", "lock"} /\ (app' = "boot" <=> app = "boot")
  BY <1>0, <1>1 DEF Repairing
<1>4. /\ row' \in [Items -> RowType]
      /\ \A i \in Items : /\ row'[i].temp = row[i].temp /\ row'[i].state = row[i].state
                          /\ row'[i].undo = IF i = seen.item
                                              THEN IF seen.state = "rolled_back" THEN "done" ELSE "failed"
                                              ELSE row[i].undo
  <2>1. CASE seen.item = 0
    BY <1>0, <1>2, <2>1 DEF RecoverRollback
  <2>2. CASE seen.item # 0
    <3>1. PICK u \in {"done", "failed"} :
            /\ row' = [row EXCEPT ![seen.item] = [@ EXCEPT !.undo = u]]
            /\ u = IF seen.state = "rolled_back" THEN "done" ELSE "failed"
      BY <2>2 DEF RecoverRollback
    <3>2. \A x \in RowType :
            /\ [x EXCEPT !.undo = u] \in RowType /\ [x EXCEPT !.undo = u].undo = u
            /\ [x EXCEPT !.undo = u].temp = x.temp /\ [x EXCEPT !.undo = u].state = x.state
      BY DEF RowType
    <3> QED
      BY <1>0, <1>2, <2>2, <3>1, <3>2
  <2> QED
    BY <2>1, <2>2
<1>5. /\ manifest' \in [Items -> ManifestType]
      /\ \A i \in Items : manifest'[i].status = "none" <=> manifest[i].status = "none"
  <2>1. manifest' = manifest \/ (seen.item # 0 /\ SetStatus(seen.item, seen.manifest.status))
    BY DEF RecoverRollback
  <2>2. seen.manifest.status \in
          {"none", "pending", "available", "restored", "restore_failed", "conflict", "missing"}
    BY <1>2 DEF ManifestType
  <2>3. CASE seen.item # 0 /\ SetStatus(seen.item, seen.manifest.status)
    <3>1. seen.item \in Items /\ seen.manifest.status # "none"
      BY <1>2, <2>3
    <3> QED
      BY <1>0, <2>2, <2>3, <3>1, SetStatusTyped
  <2> QED
    BY <1>0, <2>1, <2>3
<1>6. run' \in [state : RunStates, avail : BOOLEAN]
  <2>1. /\ [state |-> "rolled_back", avail |-> FALSE] \in [state : RunStates, avail : BOOLEAN]
        /\ [run EXCEPT !.avail = TRUE] \in [state : RunStates, avail : BOOLEAN]
    BY <1>0 DEF RunStates
  <2>2. run' \in {run, [state |-> "rolled_back", avail |-> FALSE], [run EXCEPT !.avail = TRUE]}
    BY DEF RecoverRollback, SourceRun
  <2> QED
    BY <1>0, <2>1, <2>2
<1>7. StoreType'
  BY <1>0, <1>4, <1>5, <1>6 DEF StoreType, RowShape
<1> DEFINE rows == [k \in DOMAIN rb[r].rows |->
                      IF k = seen.at THEN [rb[r].rows[k] EXCEPT !.state = seen.state]
                      ELSE EndPending(rb[r].rows[k])]
           end == IF rows # <<>> /\ AllRolledBack(rows) THEN "rolled_back" ELSE "interrupted"
<1>8. rb' = [rb EXCEPT ![r] = [state |-> end, rows |-> rows]]
  BY DEF RecoverRollback
<1>9. /\ rb[r].rows \in Seq(Entry) /\ DOMAIN rb[r].rows = 1..Len(rb[r].rows) /\ Len(rb[r].rows) \in Nat
      /\ \A k \in DOMAIN rb[r].rows : rb[r].rows[k] \in Entry
  BY <1>0 DEF RollbackType
<1>10. \A x \in Entry :
         /\ [x EXCEPT !.state = seen.state] \in Entry
         /\ [x EXCEPT !.state = seen.state].item = x.item
         /\ [x EXCEPT !.state = seen.state].state = seen.state
         /\ EndPending(x) \in Entry /\ EndPending(x).item = x.item
         /\ EndPending(x).state = IF x.state = "pending" THEN "failed" ELSE x.state
  BY <1>2 DEF Entry, EndPending, EntryStates
<1>11. /\ DOMAIN rows = DOMAIN rb[r].rows
       /\ \A k \in DOMAIN rb[r].rows :
            /\ rows[k] \in Entry
            /\ rows[k].item = rb[r].rows[k].item
            /\ rows[k].state = IF k = seen.at THEN seen.state
                               ELSE IF rb[r].rows[k].state = "pending" THEN "failed"
                               ELSE rb[r].rows[k].state
  <2>1. DOMAIN rows = DOMAIN rb[r].rows
    OBVIOUS
  <2>2. ASSUME NEW k \in DOMAIN rb[r].rows
        PROVE  /\ rows[k] \in Entry
               /\ rows[k].item = rb[r].rows[k].item
               /\ rows[k].state = IF k = seen.at THEN seen.state
                                  ELSE IF rb[r].rows[k].state = "pending" THEN "failed"
                                  ELSE rb[r].rows[k].state
    <3>1. rb[r].rows[k] \in Entry
      BY <1>9
    <3>2. rows[k] = IF k = seen.at THEN [rb[r].rows[k] EXCEPT !.state = seen.state]
                    ELSE EndPending(rb[r].rows[k])
      OBVIOUS
    <3> HIDE DEF rows
    <3>3. CASE k = seen.at
      BY <1>10, <3>1, <3>2, <3>3
    <3>4. CASE k # seen.at
      BY <1>10, <3>1, <3>2, <3>4
    <3> QED
      BY <3>3, <3>4
  <2> HIDE DEF rows
  <2> QED
    BY <2>1, <2>2
<1>12. rows \in Seq(Entry)
  <2>1. rows \in [1..Len(rb[r].rows) -> Entry]
    <3>1. rows = [k \in 1..Len(rb[r].rows) |-> rows[k]]
      BY <1>9
    <3> HIDE DEF rows
    <3> QED
      BY <1>9, <1>11, <3>1
  <2> HIDE DEF rows
  <2> QED
    BY <1>9, <2>1
<1>13. end \in RollbackStates
  BY DEF RollbackStates
<1> HIDE DEF rows, end
<1>14. /\ rb' \in [Rollbacks -> RollbackType] /\ \A q \in Rollbacks : q # r => rb'[q] = rb[q]
       /\ rb'[r].rows = rows
  BY <1>0, <1>8, <1>12, <1>13 DEF RollbackType
<1> QED
  BY <1>0, <1>1, <1>2, <1>3, <1>4, <1>5, <1>7, <1>11, <1>14

LEMMA RestartFacts ==
  ASSUME Types, Restart \/ SecondInstance
  PROVE  /\ UNCHANGED <<fs, run, row, manifest, rb, job, seen, cross, crashes, touches, faults>>
         /\ joins' \in 0..MaxJoins /\ joins' >= joins /\ seen = NotSeen
         /\ due' = Interrupted /\ due' \subseteq Workers
         /\ \/ app = "down" /\ app' = "boot" /\ joins' = joins
            \/ app = "up" /\ app' = "join" /\ joins' > 0 /\ MaxJoins > 0
<1>1. joins \in 0..MaxJoins /\ MaxJoins \in Nat
  BY ConstantsAssumption DEF Types, TypeOK, ConstantsAssumption
<1>2. Interrupted \subseteq Workers
  BY Basics DEF Interrupted
<1>3. app \in {"up", "down"} => seen = NotSeen
  BY DEF Types, Shape, SeenShape
<1> QED
  BY <1>1, <1>2, <1>3 DEF Restart, SecondInstance, store, budget

LEMMA RecoveredFacts ==
  ASSUME Types, Recovered
  PROVE  /\ UNCHANGED <<fs, run, row, manifest, rb, job, seen, due, cross, crashes, joins, touches, faults>>
         /\ due = {} /\ app' = "up" /\ Repairing
BY DEF Recovered, store, budget

LEMMA StartTypes == Types /\ (Restart \/ SecondInstance \/ Recovered) => Types'
<1> SUFFICES ASSUME Types, Restart \/ SecondInstance \/ Recovered PROVE Types'
  OBVIOUS
<1>1. /\ UNCHANGED <<fs, run, row, manifest, rb, job, seen, cross, crashes, touches, faults>>
      /\ joins' \in 0..MaxJoins /\ due' \subseteq Workers
      /\ app' \in {"boot", "join", "up"}
      /\ app' = "up" => due' = {} /\ due = {}
      /\ app' # "up" => seen = NotSeen
  BY RestartFacts, RecoveredFacts DEF Types, TypeOK
<1>2. TypeOK'
  BY <1>1 DEF Types, TypeOK
<1>3. ExecShape' /\ (\A r \in Rollbacks : RollbackShape(r)') /\ \A i \in Items : RowShape(i)'
  BY <1>1 DEF Types, Shape, ExecShape, RollbackShape, RowShape
<1>4. SeenShape'
  BY <1>1, NotSeenTyped, Basics DEF Types, Shape, SeenShape
<1> QED
  BY <1>2, <1>3, <1>4 DEF Types, Shape

LEMMA LookTypes == Types /\ (LookAtRun \/ \E r \in Rollbacks : LookAtRollback(r)) => Types'
<1> SUFFICES ASSUME Types, LookAtRun \/ \E r \in Rollbacks : LookAtRollback(r) PROVE Types'
  OBVIOUS
<1>1. /\ FsType'
      /\ UNCHANGED <<run, row, manifest, rb, job, app, due, cross, crashes, joins, touches, faults>>
  BY LookFs
<1>2. /\ Repairing /\ seen' \in Seen /\ seen'.by \in due /\ seen'.by # "none"
      /\ seen'.by = Exec => /\ seen'.state \in {"pending", "quarantined", "failed"}
                            /\ seen'.state # "pending" => seen'.item # 0 /\ Ops[seen'.item] = "quarantine"
      /\ seen'.by \in Rollbacks => /\ seen'.state \in EntryStates
                                   /\ seen'.item # 0 => seen'.manifest.status # "none"
  <2>1. CASE LookAtRun
    BY <2>1, LookAtRunFacts, Basics
  <2>2. CASE \E r \in Rollbacks : LookAtRollback(r)
    BY <2>2, LookAtRollbackFacts, Basics
  <2> QED
    BY <2>1, <2>2
<1>3. TypeOK'
  BY <1>1, <1>2 DEF Types, TypeOK, FsType
<1>4. ExecShape' /\ (\A r \in Rollbacks : RollbackShape(r)') /\ \A i \in Items : RowShape(i)'
  BY <1>1 DEF Types, Shape, ExecShape, RollbackShape, RowShape
<1>5. SeenShape'
  BY <1>1, <1>2 DEF SeenShape, Repairing
<1> QED
  BY <1>3, <1>4, <1>5 DEF Types, Shape

LEMMA RecoverTypes == Types /\ (RecoverRun \/ \E r \in Rollbacks : RecoverRollback(r)) => Types'
<1> SUFFICES ASSUME Types, RecoverRun \/ \E r \in Rollbacks : RecoverRollback(r) PROVE Types'
  OBVIOUS
<1>1. /\ UNCHANGED <<fs, job, cross, crashes, joins, touches, faults>>
      /\ due' \subseteq due /\ seen' = NotSeen /\ app' \in {"boot", "lock"}
      /\ StoreType' /\ rb' \in [Rollbacks -> RollbackType]
  <2>1. CASE RecoverRun
    BY <2>1, RecoverRunFacts DEF Types, TypeOK, RollbackType
  <2>2. CASE \E r \in Rollbacks : RecoverRollback(r)
    BY <2>2, RecoverRollbackFacts
  <2> QED
    BY <2>1, <2>2
<1>2. TypeOK'
  BY <1>1, NotSeenTyped DEF Types, TypeOK, StoreType, RollbackType
<1>3. ExecShape' /\ (\A r \in Rollbacks : RollbackShape(r)') /\ \A i \in Items : RowShape(i)'
  BY <1>1 DEF Types, Shape, ExecShape, RollbackShape, StoreType
<1>4. SeenShape'
  BY <1>1, NotSeenTyped, Basics DEF SeenShape
<1> QED
  BY <1>2, <1>3, <1>4 DEF Types, Shape

LEMMA InitTypes == Init => Types
<1> SUFFICES ASSUME Init PROVE Types
  OBVIOUS
<1>1. Idle \in Job /\ Idle.pc = "idle" /\ Idle.at = 1 /\ Idle.plan = <<>>
  <2>1. <<>> \in Seq(Step)
    OBVIOUS
  <2> QED
    BY <2>1 DEF Idle, Job, Steps
<1>2. NoRow \in RowType /\ NoRow.temp = "none"
  BY DEF NoRow, RowType
<1>3. [state |-> "none", rows |-> <<>>] \in RollbackType
  <2>1. <<>> \in Seq(Entry)
    OBVIOUS
  <2> QED
    BY <2>1 DEF RollbackType, RollbackStates
<1>4. FsType
  BY DEF Init, FsType, Contents
<1>5. StoreType
  <2>1. run \in [state : RunStates, avail : BOOLEAN]
    BY DEF Init, RunStates
  <2> QED
    BY <1>2, <2>1, NoManifestTyped DEF Init, StoreType, RowShape
<1>6. job \in [Workers -> Job] /\ rb \in [Rollbacks -> RollbackType]
  BY <1>1, <1>3 DEF Init
<1>7. 0 \in 0..MaxCrashes /\ 0 \in 0..MaxJoins /\ 0 \in 0..MaxTouches /\ 0 \in 0..MaxFaults
  BY ConstantsAssumption DEF ConstantsAssumption
<1>8. TypeOK
  BY <1>4, <1>5, <1>6, <1>7, NotSeenTyped DEF Init, TypeOK, FsType, StoreType, Job, RollbackType
<1>9. ExecShape /\ \A r \in Rollbacks : RollbackShape(r)
  BY <1>1, Basics DEF Init, ExecShape, RollbackShape, BusySteps, CaseSteps, MoveSteps, CopySteps,
     UndoSteps, FailSteps, ShutilSteps
<1>10. SeenShape
  BY NotSeenTyped, Basics DEF Init, SeenShape
<1> QED
  BY <1>5, <1>8, <1>9, <1>10 DEF Types, Shape, StoreType

\* The steps of the whole system, one by one.
LEMMA StepCases ==
  ASSUME [Next]_vars
  PROVE  \/ UNCHANGED vars
         \/ ExecutorStep
         \/ \E r \in Rollbacks : RollbackStep(r)
         \/ \E p \in Workers : WriteFails(p)
         \/ Crash
         \/ Restart \/ SecondInstance
         \/ Recovered
         \/ LookAtRun
         \/ \E r \in Rollbacks : LookAtRollback(r)
         \/ RecoverRun
         \/ \E r \in Rollbacks : RecoverRollback(r)
         \/ \E i \in Items, p \in Places : Stranger(i, p) \/ Edit(i, p)
BY DEF Next, Boot, Environment

LEMMA StepTypes == Types /\ [Next]_vars => Types'
<1> SUFFICES ASSUME Types, [Next]_vars PROVE Types'
  OBVIOUS
<1>1. CASE UNCHANGED vars
  <2>1. UNCHANGED <<fs, run, row, manifest, rb, job, app, due, seen, cross, crashes, joins, touches, faults>>
    BY <1>1 DEF vars, store, budget
  <2> QED
    BY <2>1 DEF Types, TypeOK, Shape, ExecShape, RollbackShape, RowShape, SeenShape
<1> QED
  BY <1>1, StepCases, ExecutorTypes, RollbackTypes, FaultTypes, CrashTypes, StartTypes, LookTypes,
     RecoverTypes, EnvironmentTypes DEF Environment

(* Every state of the runs, their rollbacks and the restarts is of its type, and a
   worker is only ever at a step its operation has (executor.py, quarantine.py,
   repository.py). *)
THEOREM TypeCorrect == Spec => []TypeOK
<1>1. Init => Types
  BY InitTypes
<1>2. Types /\ [Next]_vars => Types'
  BY StepTypes
<1>3. Types => TypeOK
  BY DEF Types
<1> QED
  BY <1>1, <1>2, <1>3, PTL DEF Spec

---------------------------------------------------------------------------
\* What the rollbacks have still to undo.

\* Entry k of rollback r was found sound by the preview, and is not yet logged.
Owed(r, k) ==
  /\ k \in DOMAIN job[r].plan /\ ~job[r].plan[k].blocked
  /\ job[r].pc \notin {"idle", "done", "dead"} /\ job[r].at <= k
OwedFor(r, k, i) == Owed(r, k) /\ job[r].plan[k].item = i

LEMMA RollbackPlans ==
  ASSUME Types, NEW r \in Rollbacks, RollbackStep(r)
  PROVE  \/ StartRollback(r)
         \/ /\ job'[r].plan = job[r].plan /\ job'[r].at \in {job[r].at, job[r].at + 1}
            /\ job[r].pc \notin {"idle", "done", "dead"}
            /\ LogUndo(r) \/ job'[r].at = job[r].at
<1> USE Basics DEF At
<1>0. TypeOK /\ r \in Workers
  BY DEF Types
<1>1. CASE BeginUndo(r)
  <2>1. \E s \in {"mark_failed", "rpath", "shmove"} : Goto(r, s)
    BY ZenonT(40), <1>1 DEF BeginUndo
  <2> QED
    BY ZenonT(40), <1>0, <1>1, <2>1, GotoFacts DEF BeginUndo, Steps
<1>2. CASE Mover(r)
  BY <1>0, <1>2, MoverFs DEF MoveSteps, CopySteps
<1>3. CASE Shutil(r)
  BY SMTT(20), <1>3, ShutilFs DEF ShutilSteps
<1>4. CASE LogUndo(r)
  BY ZenonT(40), <1>0, <1>4, NextItemFacts DEF LogUndo
<1>5. CASE JournalRestore(r) \/ SyncManifest(r) \/ MarkItem(r) \/ FinishRollback(r) \/ FinishSource(r)
  <2>1. \E s \in {"erred", "move", "mark_done", "mark_failed", "log_done", "log_failed", "source", "done"} :
          Goto(r, s)
    BY <1>5 DEF JournalRestore, SyncManifest, MarkItem, FinishRollback, FinishSource
  <2>2. job[r].pc \notin {"idle", "done", "dead"}
    BY <1>5 DEF JournalRestore, SyncManifest, MarkItem, FinishRollback, FinishSource
  <2> QED
    BY <1>0, <2>1, <2>2, GotoFacts DEF Steps
<1> QED
  BY <1>1, <1>2, <1>3, <1>4, <1>5 DEF RollbackStep, Shutil

\* What a rollback selects and does not block is gone from its origin and unchanged
\* where the rows say it is.
LEMMA StartFacts ==
  ASSUME Types, NEW r \in Rollbacks, StartRollback(r)
  PROVE  /\ UNCHANGED <<fs, run, row, manifest>>
         /\ job[r].pc = "idle" /\ job'[r].pc = "item" /\ job'[r].at = 1
         /\ \E s \in Selections :
              /\ s \in Seq(Items) /\ DOMAIN job'[r].plan = DOMAIN s
              /\ \A k \in DOMAIN s : s[k] \in Items /\ job'[r].plan[k] = Preview(s[k])
         /\ rb'[r].rows = rb[r].rows /\ \A q \in Rollbacks : q # r => rb'[q] = rb[q]
<1>0. TypeOK /\ r \in Workers
  BY Basics DEF Types
<1>1. UNCHANGED <<fs, run, row, manifest>> /\ job[r].pc = "idle"
  BY DEF StartRollback, Keeping, At
<1>2. rb'[r].rows = rb[r].rows /\ \A q \in Rollbacks : q # r => rb'[q] = rb[q]
  BY <1>0 DEF StartRollback, TypeOK
<1>3. PICK s \in Selections :
        job' = [job EXCEPT ![r] = [pc |-> "item", at |-> 1, leg |-> "back",
                                   plan |-> [k \in DOMAIN s |-> Preview(s[k])]]]
  BY DEF StartRollback
<1>4. job'[r] = [pc |-> "item", at |-> 1, leg |-> "back", plan |-> [k \in DOMAIN s |-> Preview(s[k])]]
  BY <1>0, <1>3 DEF TypeOK
<1>5. s \in Seq(Items)
  BY SelectionsTyped
<1>6. \A k \in DOMAIN s : s[k] \in Items
  BY <1>5
<1> QED
  BY <1>1, <1>2, <1>4, <1>5, <1>6

\* No step but the start of a rollback adds to what is owed.
LEMMA OwedOnlyShrinks ==
  ASSUME Types, [Next]_vars, NEW r \in Rollbacks, NEW k, NEW i, OwedFor(r, k, i)'
  PROVE  \/ OwedFor(r, k, i) /\ job'[r].plan = job[r].plan /\ k \in Nat /\ job[r].at <= job'[r].at
         \/ /\ StartRollback(r) /\ k \in DOMAIN job'[r].plan /\ i \in Items
            /\ job'[r].plan[k] = Preview(i) /\ ~Preview(i).blocked
<1>0. /\ TypeOK /\ r \in Workers /\ r # Exec /\ job[r].at \in Nat /\ job[r].plan \in Seq(Step)
      /\ Types'
  BY Basics, StepTypes DEF Types, TypeOK
<1>1. k \in Nat
  <2>1. job'[r].plan \in Seq(Step)
    BY <1>0 DEF Types, TypeOK
  <2> QED
    BY <2>1 DEF OwedFor, Owed
<1>2. ASSUME job'[r].plan = job[r].plan, job'[r].at \in {job[r].at, job[r].at + 1},
             job[r].pc \notin {"idle", "done", "dead"}
      PROVE  OwedFor(r, k, i) /\ job[r].at <= job'[r].at
  BY <1>0, <1>1, <1>2 DEF OwedFor, Owed
<1>3. ASSUME job'[r] = job[r]
      PROVE  OwedFor(r, k, i) /\ job[r].at <= job'[r].at
  BY <1>0, <1>3 DEF OwedFor, Owed
<1>4. CASE UNCHANGED vars
  BY <1>1, <1>3, <1>4 DEF vars
<1>5. CASE ExecutorStep
  BY <1>1, <1>3, <1>5, ExecutorKeeps
<1>6. ASSUME NEW q \in Rollbacks, RollbackStep(q), q # r
      PROVE  job'[r] = job[r]
  BY <1>0, <1>6, RollbackKeeps
<1>7. CASE StartRollback(r)
  <2>1. PICK s \in Selections :
          /\ s \in Seq(Items) /\ DOMAIN job'[r].plan = DOMAIN s
          /\ \A n \in DOMAIN s : s[n] \in Items /\ job'[r].plan[n] = Preview(s[n])
    BY <1>7, StartFacts
  <2>2. k \in DOMAIN s /\ job'[r].plan[k] = Preview(s[k]) /\ s[k] \in Items
        /\ ~job'[r].plan[k].blocked /\ job'[r].plan[k].item = i
    BY <2>1 DEF OwedFor, Owed
  <2>3. i = s[k]
    BY <2>2 DEF Preview
  <2> QED
    BY <1>7, <2>1, <2>2, <2>3
<1>8. CASE RollbackStep(r)
  BY <1>1, <1>2, <1>7, <1>8, RollbackPlans
<1>9. ASSUME NEW p \in Workers, WriteFails(p)
      PROVE  OwedFor(r, k, i) /\ job'[r].plan = job[r].plan /\ job[r].at <= job'[r].at
  <2>1. CASE p = r
    <3>1. job'[r].at = job[r].at /\ job'[r].plan = job[r].plan /\ job[r].pc \notin {"idle", "done", "dead"}
      BY <1>0, <1>9, <2>1, FaultFacts DEF FaultOutcome, FailSteps
    <3> QED
      BY <1>2, <3>1
  <2>2. CASE p # r
    BY <1>0, <1>3, <1>9, <2>2, FaultFacts
  <2> QED
    BY <2>1, <2>2
<1>10. CASE Crash
  BY <1>0, <1>10, CrashFacts DEF OwedFor, Owed
<1>11. CASE Restart \/ SecondInstance \/ Recovered
  BY <1>1, <1>3, <1>11, RestartFacts, RecoveredFacts
<1>12. CASE LookAtRun \/ \E q \in Rollbacks : LookAtRollback(q)
  BY <1>1, <1>3, <1>12, LookFs
<1>13. CASE RecoverRun \/ \E q \in Rollbacks : RecoverRollback(q)
  BY <1>1, <1>3, <1>13, RecoverRunFacts, RecoverRollbackFacts
<1>14. CASE \E j \in Items, x \in Places : Stranger(j, x) \/ Edit(j, x)
  BY <1>1, <1>3, <1>14, EnvironmentFs
<1>15. ASSUME NEW q \in Rollbacks, RollbackStep(q)
       PROVE  \/ OwedFor(r, k, i) /\ job'[r].plan = job[r].plan /\ k \in Nat /\ job[r].at <= job'[r].at
              \/ /\ StartRollback(r) /\ k \in DOMAIN job'[r].plan /\ i \in Items
                 /\ job'[r].plan[k] = Preview(i) /\ ~Preview(i).blocked
  BY <1>1, <1>3, <1>6, <1>8, <1>15
<1> QED
  BY <1>1, <1>4, <1>5, <1>9, <1>10, <1>11, <1>12, <1>13, <1>14, <1>15, StepCases

---------------------------------------------------------------------------
\* Items the executor has not touched: their file is at home, and nothing is owed.

Before(i) ==
  LET e == job[Exec] IN
  \/ e.pc = "idle"
  \/ e.pc \notin {"done", "dead"} /\ e.at < i
  \/ e.pc \in {"item", "check", "rename", "journal", "stage", "manifest"} /\ e.at = i

BeforeOK ==
  \A i \in Items : Before(i) =>
    /\ Kept(i, "origin")
    /\ \A r \in Rollbacks : \A k \in DOMAIN job[r].plan : ~OwedFor(r, k, i)

\* The executor comes to an item once, and does not come back.
LEMMA BeforeOnlyShrinks ==
  ASSUME Types, [Next]_vars, NEW i \in Items, Before(i)'
  PROVE  /\ Before(i)
         /\ job[Exec].pc \in MoveSteps => Item(Exec) # i
         /\ RenameItem \/ StageItem \/ SecondRename \/ RestoreSource => job[Exec].at # i
<1> USE Basics
<1>0. /\ TypeOK /\ ExecShape /\ Exec \in Workers /\ Item(Exec) = job[Exec].at
      /\ job[Exec].at \in Nat /\ i \in Nat
  BY DEF Types, Shape, TypeOK, Item
<1>1. ASSUME job'[Exec].at = job[Exec].at, job[Exec].pc \notin {"done", "dead"},
             \/ job'[Exec].pc \notin {"idle", "item", "check", "rename", "journal", "stage", "manifest"}
             \/ job[Exec].pc \in {"idle", "item", "check", "rename", "journal", "stage", "manifest"}
                /\ job'[Exec].pc # "idle" /\ ~(RenameItem \/ StageItem \/ SecondRename \/ RestoreSource)
      PROVE  /\ Before(i)
             /\ job[Exec].pc \in MoveSteps => Item(Exec) # i
             /\ RenameItem \/ StageItem \/ SecondRename \/ RestoreSource => job[Exec].at # i
  BY <1>0, <1>1 DEF Before, MoveSteps, CopySteps
<1>2. CASE UNCHANGED vars
  <2>1. job' = job
    BY <1>2 DEF vars
  <2>2. ~(RenameItem \/ StageItem \/ SecondRename \/ RestoreSource)
    <3>1. SUFFICES ASSUME RenameItem \/ StageItem \/ SecondRename \/ RestoreSource PROVE FALSE
      OBVIOUS
    <3> QED
      BY <2>1, <3>1, RenameFs DEF RenameOutcome
  <2> QED
    BY <1>0, <2>1, <2>2 DEF Before, MoveSteps, CopySteps
<1>3. CASE ExecutorStep
  <2> USE DEF At
  <2>1. CASE StartRun \/ BeginItem
    BY <1>0, <1>1, <2>1, GotoFacts DEF StartRun, BeginItem, Steps, RenameItem, StageItem, SecondRename,
       RestoreSource, RenameStep
  <2>2. CASE CheckItem
    <3>1. Ops[job[Exec].at] \in {"rename", "case", "quarantine"}
      BY <1>0, <2>2 DEF CheckItem, ExecShape, BusySteps
    <3>2. \E s \in {"rename", "journal", "manifest", "fail"} : Goto(Exec, s)
      BY <1>0, <2>2, <3>1 DEF CheckItem
    <3>3. job[Exec].pc = "check"
      BY <2>2 DEF CheckItem
    <3>4. ~(RenameItem \/ StageItem \/ SecondRename \/ RestoreSource)
      BY <3>3 DEF RenameItem, StageItem, SecondRename, RestoreSource, RenameStep
    <3> QED
      BY <1>0, <1>1, <3>2, <3>3, <3>4, GotoFacts DEF Steps
  <2>3. CASE RenameItem \/ StageItem \/ SecondRename \/ RestoreSource
    BY <1>0, <1>1, <2>3, RenameFs DEF RenameOutcome
  <2>4. CASE JournalStage
    BY <1>0, <1>1, <2>4, GotoFacts DEF JournalStage, Steps, RenameItem, StageItem, SecondRename,
       RestoreSource, RenameStep
  <2>5. CASE SaveManifest
    <3>1. job'[Exec].pc = "move" /\ job'[Exec].at = job[Exec].at /\ job[Exec].pc = "manifest"
      BY <1>0, <2>5 DEF SaveManifest, TypeOK
    <3> QED
      BY <1>1, <3>1
  <2>6. CASE Mover(Exec)
    BY <1>0, <1>1, <2>6, MoverFs DEF MoverOutcome, MoveSteps, CopySteps
  <2>7. CASE MarkAvailable \/ QuarantineFailed
    BY <1>0, <1>1, <2>7, GotoFacts DEF MarkAvailable, QuarantineFailed, Steps
  <2>8. CASE RecordItem \/ FailItem \/ StrandItem
    <3>1. job[Exec].pc \in {"record", "fail", "homed", "stranded", "stuck"} /\ NextItem(Exec)
      BY <2>8 DEF RecordItem, FailItem, StrandItem, EndItem
    <3>2. job'[Exec].pc = "item" /\ job'[Exec].at = job[Exec].at + 1
      BY <1>0, <3>1, NextItemFacts
    <3>3. ~(RenameItem \/ StageItem \/ SecondRename \/ RestoreSource)
      BY <3>1 DEF RenameItem, StageItem, SecondRename, RestoreSource, RenameStep
    <3> QED
      BY <1>0, <3>1, <3>2, <3>3 DEF Before, MoveSteps, CopySteps
  <2>9. CASE FinishRun
    BY <1>0, <1>1, <2>9, GotoFacts DEF FinishRun, Steps
  <2>10. CASE RenameFails
    BY <1>0, <1>1, <2>10, GotoFacts DEF RenameFails, Steps
  <2> QED
    BY <1>3, <2>1, <2>2, <2>3, <2>4, <2>5, <2>6, <2>7, <2>8, <2>9, <2>10 DEF ExecutorStep
<1>4. ASSUME job'[Exec] = job[Exec]
      PROVE  Before(i) /\ (job[Exec].pc \in MoveSteps => Item(Exec) # i)
             /\ ~(RenameItem \/ StageItem \/ SecondRename \/ RestoreSource)
  <2>1. ~(RenameItem \/ StageItem \/ SecondRename \/ RestoreSource)
    <3>1. SUFFICES ASSUME RenameItem \/ StageItem \/ SecondRename \/ RestoreSource PROVE FALSE
      OBVIOUS
    <3> QED
      BY <1>4, <3>1, RenameFs DEF RenameOutcome
  <2> QED
    BY <1>0, <1>4, <2>1 DEF Before, MoveSteps, CopySteps
<1>5. ASSUME NEW p \in Workers, WriteFails(p)
      PROVE  Before(i) /\ (job[Exec].pc \in MoveSteps => Item(Exec) # i)
             /\ (RenameItem \/ StageItem \/ SecondRename \/ RestoreSource => job[Exec].at # i)
  <2>1. CASE p = Exec
    BY <1>0, <1>1, <1>5, <2>1, FaultFacts DEF FaultOutcome
  <2>2. CASE p # Exec
    BY <1>4, <1>5, <2>2, FaultFacts
  <2> QED
    BY <2>1, <2>2
<1>6. CASE Crash
  <2>1. job'[Exec].pc = "idle" /\ job[Exec].pc = "idle"
    BY <1>6, <1>0, CrashFacts DEF Before
  <2> QED
    BY <2>1 DEF Before, MoveSteps, CopySteps, RenameItem, StageItem, SecondRename, RestoreSource, RenameStep, At
<1>7. CASE \E r \in Rollbacks : RollbackStep(r)
  BY <1>4, <1>7, RollbackKeeps
<1>8. CASE Restart \/ SecondInstance \/ Recovered \/ LookAtRun \/ \E q \in Rollbacks : LookAtRollback(q)
  BY <1>4, <1>8, RestartFacts, RecoveredFacts, LookFs
<1>9. CASE RecoverRun \/ \E q \in Rollbacks : RecoverRollback(q)
  BY <1>4, <1>9, RecoverRunFacts, RecoverRollbackFacts
<1>10. CASE \E j \in Items, x \in Places : Stranger(j, x) \/ Edit(j, x)
  BY <1>4, <1>10, EnvironmentFs
<1> QED
  BY <1>2, <1>3, <1>5, <1>6, <1>7, <1>8, <1>9, <1>10, StepCases

---------------------------------------------------------------------------
\* Who touches the places of an item's file.

\* A step leaves the place alone, or another program creates or edits its file.
Untouched(i, x) ==
  \/ fs'[i][x] = fs[i][x]
  \/ fs[i][x] = "none" /\ fs'[i][x] = "other" /\ x # "stage"
  \/ fs[i][x] = "own" /\ fs'[i][x] = "edited"

Renames == RenameItem \/ StageItem \/ SecondRename \/ RestoreSource

LEMMA FilesStep ==
  ASSUME Types, [Next]_vars, NEW i \in Items
  PROVE  \/ \E p \in Workers : Mover(p) /\ Item(p) = i
         \/ Renames /\ job[Exec].at = i
         \/ \E r \in Rollbacks : Shutil(r) /\ Item(r) = i
         \/ \A x \in {"origin", "target", "stage"} : Untouched(i, x)
<1> USE Basics
<1>1. ASSUME fs' = fs
      PROVE  \A x \in {"origin", "target", "stage"} : Untouched(i, x)
  BY <1>1 DEF Untouched
<1>2. ASSUME fs'[i] = fs[i]
      PROVE  \A x \in {"origin", "target", "stage"} : Untouched(i, x)
  BY <1>2 DEF Untouched
<1>3. CASE UNCHANGED vars
  BY <1>1, <1>3 DEF vars
<1>4. CASE ExecutorStep
  <2>1. CASE Mover(Exec)
    BY <1>2, <2>1, MoverFs
  <2>2. CASE Renames
    BY <1>2, <2>2, RenameFs DEF Renames
  <2>3. CASE ~Mover(Exec) /\ ~Renames
    <3>1. fs' = fs
      BY <1>4, <2>3 DEF ExecutorStep, Renames, StartRun, BeginItem, CheckItem, JournalStage, SaveManifest,
         MarkAvailable, QuarantineFailed, RecordItem, FailItem, StrandItem, EndItem, FinishRun, RenameFails,
         Keeping, store
    <3> QED
      BY <1>1, <3>1
  <2> QED
    BY <2>1, <2>2, <2>3
<1>5. ASSUME NEW r \in Rollbacks, RollbackStep(r)
      PROVE  \/ \E p \in Workers : Mover(p) /\ Item(p) = i
             \/ Shutil(r) /\ Item(r) = i
             \/ \A x \in {"origin", "target", "stage"} : Untouched(i, x)
  <2>1. CASE Mover(r)
    BY <1>2, <2>1, MoverFs
  <2>2. CASE Shutil(r)
    BY <1>2, <2>2, ShutilFs
  <2>3. CASE ~Mover(r) /\ ~Shutil(r)
    <3>1. fs' = fs
      BY ZenonT(40), <1>5, <2>3 DEF RollbackStep, Shutil, StartRollback, BeginUndo, JournalRestore, SyncManifest,
         MarkItem, LogUndo, FinishRollback, FinishSource, Keeping
    <3> QED
      BY <1>1, <3>1
  <2> QED
    BY <2>1, <2>2, <2>3
<1>6. CASE \E p \in Workers : WriteFails(p)
  BY <1>1, <1>6, FaultFacts
<1>7. CASE Crash
  BY <1>1, <1>7, CrashFacts
<1>8. CASE Restart \/ SecondInstance \/ Recovered
  BY <1>1, <1>8, RestartFacts, RecoveredFacts
<1>9. CASE LookAtRun \/ \E q \in Rollbacks : LookAtRollback(q)
  BY <1>9, LookFs DEF Untouched
<1>10. CASE RecoverRun \/ \E q \in Rollbacks : RecoverRollback(q)
  BY <1>1, <1>10, RecoverRunFacts, RecoverRollbackFacts
<1>11. ASSUME NEW j \in Items, NEW y \in Places, Stranger(j, y) \/ Edit(j, y)
       PROVE  \A x \in {"origin", "target", "stage"} : Untouched(i, x)
  <2>1. CASE j = i
    BY <1>11, <2>1, EnvironmentFs DEF Untouched, Places
  <2>2. CASE j # i
    BY <1>2, <1>11, <2>2, EnvironmentFs
  <2> QED
    BY <2>1, <2>2
<1> QED
  BY <1>3, <1>4, <1>5, <1>6, <1>7, <1>8, <1>9, <1>10, <1>11, StepCases

LEMMA KeptUntouched ==
  ASSUME NEW i, NEW x, Untouched(i, x)
  PROVE  /\ Kept(i, x) => Kept(i, x)'
         /\ Kept(i, x)' => Kept(i, x)
BY DEF Untouched, Kept

LEMMA InitBefore == Init => BeforeOK
<1> SUFFICES ASSUME Init, NEW i \in Items PROVE Kept(i, "origin") /\ \A r \in Rollbacks : DOMAIN job[r].plan = {}
  BY DEF BeforeOK
<1>1. fs[i]["origin"] = "own"
  BY DEF Init, Places
<1>2. \A r \in Rollbacks : job[r].plan = <<>>
  BY Basics DEF Init, Idle
<1> QED
  BY <1>1, <1>2 DEF Kept

LEMMA StepBefore == Types /\ BeforeOK /\ [Next]_vars => BeforeOK'
<1> SUFFICES ASSUME Types, BeforeOK, [Next]_vars, NEW i \in Items, Before(i)'
             PROVE  /\ Kept(i, "origin")'
                    /\ \A r \in Rollbacks : \A k : ~OwedFor(r, k, i)'
  BY DEF BeforeOK
<1>1. /\ Before(i)
      /\ job[Exec].pc \in MoveSteps => Item(Exec) # i
      /\ Renames => job[Exec].at # i
  BY BeforeOnlyShrinks DEF Renames
<1>2. Kept(i, "origin") /\ \A r \in Rollbacks : \A k : ~OwedFor(r, k, i)
  BY <1>1 DEF BeforeOK, OwedFor, Owed
<1>3. ASSUME NEW r \in Rollbacks, NEW k, OwedFor(r, k, i)'
      PROVE  FALSE
  <2>1. ~Preview(i).blocked
    BY <1>2, <1>3, OwedOnlyShrinks
  <2> QED
    BY <1>2, <2>1 DEF Preview, Exists, Present, Kept
<1>4. ASSUME NEW r \in Rollbacks, job[r].pc \in UndoSteps
      PROVE  Item(r) # i
  <2>1. /\ job[r].at \in DOMAIN job[r].plan /\ job[r].at \in Nat /\ Item(r) = job[r].plan[job[r].at].item
        /\ ~job[r].plan[job[r].at].blocked
    BY <1>4, UndoPlaces DEF Types, Shape, RollbackShape
  <2>2. job[r].pc \notin {"idle", "done", "dead"}
    BY <1>4 DEF UndoSteps, MoveSteps, CopySteps, ShutilSteps
  <2>3. job[r].at <= job[r].at
    BY <2>1
  <2> QED
    BY <1>2, <2>1, <2>2, <2>3 DEF OwedFor, Owed
<1>5. ~\E p \in Workers : Mover(p) /\ Item(p) = i
  BY <1>1, <1>4, MoverFs, Basics DEF UndoSteps
<1>6. ~\E r \in Rollbacks : Shutil(r) /\ Item(r) = i
  BY <1>4, ShutilFs DEF UndoSteps
<1>7. Untouched(i, "origin")
  BY <1>1, <1>5, <1>6, FilesStep
<1> QED
  BY <1>2, <1>3, <1>7, KeptUntouched

---------------------------------------------------------------------------
\* A quarantined file is whole at one end of its move, whoever moves it.

\* The worker has a verified copy at the target, and removes the source next.
Dropping(p, i) == job[p].pc = "drop" /\ Item(p) = i

QuarantineKept ==
  \A i \in Items : Ops[i] = "quarantine" =>
    /\ Kept(i, "origin") \/ Kept(i, "target")
    /\ \A p \in Workers : Dropping(p, i) =>
         /\ cross /\ Kept(i, "origin") /\ Kept(i, "target")
         /\ \A q \in Workers : Dropping(q, i) => q = p

\* A worker about to remove a source came there by the copy it made.
LEMMA DropStep ==
  ASSUME Types, [Next]_vars, NEW p \in Workers, job'[p].pc = "drop"
  PROVE  \/ Mover(p)
         \/ job'[p] = job[p]
<1> USE Basics
<1>0. TypeOK
  BY DEF Types
<1>1. CASE UNCHANGED vars
  BY <1>1 DEF vars
<1>2. CASE ExecutorStep
  <2>1. CASE p # Exec
    BY <1>2, <2>1, ExecutorKeeps
  <2>2. CASE p = Exec
    <3> USE DEF At
    <3>1. CASE StartRun \/ BeginItem \/ JournalStage \/ MarkAvailable \/ QuarantineFailed \/ FinishRun
               \/ RenameFails
      BY ZenonT(40), <1>0, <2>2, <3>1, GotoFacts DEF StartRun, BeginItem, JournalStage, MarkAvailable, QuarantineFailed,
         FinishRun, RenameFails, Steps
    <3>2. CASE CheckItem
      <4>1. Ops[job[Exec].at] \in {"rename", "case", "quarantine"}
        BY <3>2 DEF CheckItem, Types, Shape, ExecShape, BusySteps
      <4>2. \E s \in {"rename", "journal", "manifest", "fail"} : Goto(Exec, s)
        BY <3>2, <4>1 DEF CheckItem, Item
      <4> QED
        BY <1>0, <2>2, <4>2, GotoFacts DEF Steps
    <3>3. CASE Renames
      BY <2>2, <3>3, RenameFs DEF RenameOutcome, Renames
    <3>4. CASE SaveManifest
      BY <1>0, <2>2, <3>4 DEF SaveManifest, TypeOK
    <3>5. CASE RecordItem \/ FailItem \/ StrandItem
      <4>1. NextItem(Exec)
        BY <3>5 DEF RecordItem, FailItem, StrandItem, EndItem
      <4> QED
        BY <1>0, <2>2, <4>1, NextItemFacts
    <3> QED
      BY SMTT(20), <1>2, <2>2, <3>1, <3>2, <3>3, <3>4, <3>5 DEF ExecutorStep, Renames
  <2> QED
    BY <2>1, <2>2
<1>3. ASSUME NEW r \in Rollbacks, RollbackStep(r)
      PROVE  Mover(p) \/ job'[p] = job[p]
  <2>1. CASE p # r
    BY <1>3, <2>1, RollbackKeeps
  <2>2. CASE p = r
    <3>1. CASE StartRollback(r)
      BY <2>2, <3>1, StartFacts
    <3>2. CASE BeginUndo(r)
      <4>1. \E s \in {"mark_failed", "rpath", "shmove"} : Goto(r, s)
        BY ZenonT(40), <3>2 DEF BeginUndo
      <4> QED
        BY SMTT(20), <1>0, <2>2, <4>1, GotoFacts DEF Steps
    <3>3. CASE Shutil(r)
      BY <2>2, <3>3, ShutilFs DEF ShutilOutcome
    <3>4. CASE JournalRestore(r) \/ SyncManifest(r) \/ MarkItem(r) \/ FinishRollback(r) \/ FinishSource(r)
      <4>1. \E s \in {"erred", "move", "mark_done", "mark_failed", "log_done", "log_failed", "source", "done"} :
              Goto(r, s)
        BY <3>4 DEF JournalRestore, SyncManifest, MarkItem, FinishRollback, FinishSource
      <4> QED
        BY <1>0, <2>2, <4>1, GotoFacts DEF Steps
    <3>5. CASE LogUndo(r)
      BY <1>0, <2>2, <3>5, NextItemFacts DEF LogUndo
    <3> QED
      BY <1>3, <2>2, <3>1, <3>2, <3>3, <3>4, <3>5 DEF RollbackStep, Shutil
  <2> QED
    BY <2>1, <2>2
<1>4. ASSUME NEW q \in Workers, WriteFails(q)
      PROVE  job'[p] = job[p]
  BY <1>4, FaultFacts DEF FaultOutcome
<1>5. ~Crash
  BY CrashFacts
<1>6. CASE Restart \/ SecondInstance \/ Recovered \/ LookAtRun \/ \E q \in Rollbacks : LookAtRollback(q)
  BY <1>6, RestartFacts, RecoveredFacts, LookFs
<1>7. CASE RecoverRun \/ \E q \in Rollbacks : RecoverRollback(q)
  BY <1>7, RecoverRunFacts, RecoverRollbackFacts
<1>8. CASE \E j \in Items, x \in Places : Stranger(j, x) \/ Edit(j, x)
  BY <1>8, EnvironmentFs
<1> QED
  BY <1>1, <1>2, <1>3, <1>4, <1>5, <1>6, <1>7, <1>8, StepCases

LEMMA MoverSteady ==
  ASSUME Types, [Next]_vars, NEW p \in Workers, Mover(p)
  PROVE  UNCHANGED cross /\ Item(p)' = Item(p)
<1>1. UNCHANGED cross
  BY DEF Mover, MoverRename, MoverOpen, MoverOwn, MoverFill, MoverDrop, MoverFails, Keeping, budget
<1>2. job'[p].at = job[p].at /\ job'[p].plan = job[p].plan
  BY MoverFs
<1> QED
  BY <1>1, <1>2 DEF Item

LEMMA CrossFixed == ASSUME Types, [Next]_vars PROVE cross' = cross
<1>1. CASE UNCHANGED vars
  BY <1>1 DEF vars, budget
<1> QED
  BY <1>1, StepCases, ExecutorKeeps, RollbackKeeps, FaultFacts, CrashFacts, RestartFacts, RecoveredFacts,
     LookFs, RecoverRunFacts, RecoverRollbackFacts, EnvironmentFs

LEMMA InitQuarantine == Init => QuarantineKept
<1> SUFFICES ASSUME Init, NEW i \in Items
             PROVE  Kept(i, "origin") /\ \A p \in Workers : job[p].pc = "idle"
  BY DEF QuarantineKept, Dropping
<1>1. fs[i]["origin"] = "own"
  BY DEF Init, Places
<1> QED
  BY <1>1 DEF Init, Idle, Kept

LEMMA StepQuarantine == Types /\ QuarantineKept /\ [Next]_vars => QuarantineKept'
<1> SUFFICES ASSUME Types, QuarantineKept, [Next]_vars, NEW i \in Items, Ops[i] = "quarantine"
             PROVE  /\ Kept(i, "origin")' \/ Kept(i, "target")'
                    /\ \A p \in Workers : Dropping(p, i)' =>
                         /\ cross' /\ Kept(i, "origin")' /\ Kept(i, "target")'
                         /\ \A q \in Workers : Dropping(q, i)' => q = p
  BY DEF QuarantineKept
<1>0. /\ Kept(i, "origin") \/ Kept(i, "target")
      /\ \A p \in Workers : Dropping(p, i) =>
           /\ cross /\ Kept(i, "origin") /\ Kept(i, "target")
           /\ \A q \in Workers : Dropping(q, i) => q = p
      /\ cross' = cross
  BY CrossFixed DEF QuarantineKept
<1>1. ASSUME NEW p \in Workers, Dropping(p, i)', ~Mover(p)
      PROVE  Dropping(p, i)
  <2>1. job'[p] = job[p]
    BY <1>1, DropStep DEF Dropping
  <2> QED
    BY <1>1, <2>1 DEF Dropping, Item
<1>2. CASE \A p \in Workers : ~(Mover(p) /\ Item(p) = i)
  <2>1. ~Renames \/ job[Exec].at # i
    BY RenameFs DEF Renames
  <2>2. ~\E r \in Rollbacks : Shutil(r) /\ Item(r) = i
    <3>1. \A r \in Rollbacks : job[r].pc \in ShutilSteps => Item(r) # i
      BY UndoPlaces DEF Types, Shape, RollbackShape, UndoSteps
    <3> QED
      BY <3>1, ShutilFs
  <2>3. \A x \in {"origin", "target"} : Kept(i, x) => Kept(i, x)'
    BY <1>2, <2>1, <2>2, FilesStep, KeptUntouched
  <2>4. \A p \in Workers : Dropping(p, i)' => Dropping(p, i)
    <3> SUFFICES ASSUME NEW p \in Workers, Dropping(p, i)', Mover(p) PROVE FALSE
      BY <1>1
    <3> QED
      BY <1>2, MoverSteady DEF Dropping
  <2> QED
    BY <1>0, <2>3, <2>4
<1>3. ASSUME NEW p \in Workers, Mover(p), Item(p) = i
      PROVE  /\ Kept(i, "origin")' \/ Kept(i, "target")'
             /\ \A q \in Workers : Dropping(q, i)' =>
                  /\ cross' /\ Kept(i, "origin")' /\ Kept(i, "target")'
                  /\ \A u \in Workers : Dropping(u, i)' => u = q
  <2>1. /\ job[p].pc \in MoveSteps /\ MoverOutcome(p)
        /\ \A q \in Workers : q # p => job'[q] = job[q]
    BY <1>3, MoverFs
  <2>2. From(p) \in {"origin", "target"} /\ To(p) \in {"origin", "target"} /\ From(p) # To(p)
    BY <2>1, MoverPlaces
  <2>3. \A q \in Workers : q # p => (Dropping(q, i)' <=> Dropping(q, i))
    BY <2>1 DEF Dropping, Item
  <2>4. Dropping(p, i)' <=> job'[p].pc = "drop"
    BY <1>3, MoverSteady DEF Dropping
  <2>5. Dropping(p, i) <=> job[p].pc = "drop"
    BY <1>3 DEF Dropping
  <2>6. job'[p].pc = "drop" => cross
    <3>1. job'[p].pc = "drop" => job[p].pc = "fill"
      BY <2>1 DEF MoverOutcome
    <3>2. job[p].pc = "fill" => cross
      BY Basics DEF Types, Shape, ExecShape, RollbackShape
    <3> QED
      BY <3>1, <3>2
  <2> DEFINE f == From(p)
             t == To(p)
             K(x) == fs[i][x] \in {"own", "edited"}
             Kn(x) == fs'[i][x] \in {"own", "edited"}
  <2>7. /\ K("origin") \/ K("target")
        /\ \A q \in Workers : Dropping(q, i) => K(f) /\ K(t) /\ cross
    BY <1>0, <2>2 DEF Kept
  <2>8. \/ /\ Kn(f) \/ Kn(t)
           /\ \A q \in Workers : ~Dropping(q, i)'
        \/ /\ Kn(f) /\ Kn(t) /\ job'[p].pc = "drop"
           /\ \A q \in Workers : Dropping(q, i)' => q = p
        \/ /\ Kn(f) <=> K(f)
           /\ Kn(t) <=> K(t)
           /\ \A q \in Workers : Dropping(q, i)' => Dropping(q, i)
    <3>1. CASE /\ job[p].pc = "move" /\ ~cross /\ fs[i][f] # "none" /\ fs[i][t] = "none"
               /\ job'[p].pc = "moved" /\ fs'[i][f] = "none" /\ fs'[i][t] = fs[i][f]
      <4>1. K(f) /\ Kn(t)
        BY <2>2, <2>7, <3>1
      <4>2. \A q \in Workers : ~Dropping(q, i)
        BY <2>7, <3>1
      <4> QED
        BY <2>3, <2>4, <3>1, <4>1, <4>2
    <3>2. CASE /\ job[p].pc = "fill" /\ fs[i][f] # "none" /\ fs[i][t] = "none"
               /\ job'[p].pc = "drop" /\ fs'[i][f] = fs[i][f] /\ fs'[i][t] = fs[i][f]
      <4>1. K(f) /\ Kn(f) /\ Kn(t) /\ ~K(t)
        BY <2>2, <2>7, <3>2
      <4>2. \A q \in Workers : ~Dropping(q, i)
        BY <2>7, <4>1
      <4> QED
        BY <2>3, <3>2, <4>1, <4>2
    <3>3. CASE /\ job[p].pc = "drop" /\ fs[i][f] # "none"
               /\ \/ job'[p].pc = "moved" /\ fs'[i][f] = "none" /\ fs'[i][t] = fs[i][t]
                  \/ job'[p].pc = "erred" /\ fs'[i][f] = fs[i][f] /\ fs'[i][t] = "none"
      <4>1. Kn(f) \/ Kn(t)
        BY <2>5, <2>7, <3>3
      <4>2. \A q \in Workers : ~Dropping(q, i)'
        BY <1>0, <2>3, <2>4, <2>5, <3>3
      <4> QED
        BY <4>1, <4>2
    <3>4. CASE /\ job[p].pc \in CopySteps
               /\ job'[p].pc \in {"own", "fill", "erred"}
               /\ fs'[i][f] = fs[i][f] /\ fs'[i][t] = fs[i][t]
      BY <2>3, <2>4, <3>4
    <3> QED
      BY <1>3, <2>1, <3>1, <3>2, <3>3, <3>4 DEF MoverOutcome
  <2>9. (Kept(i, "origin")' <=> Kn("origin")) /\ (Kept(i, "target")' <=> Kn("target"))
    BY DEF Kept
  <2> HIDE DEF Kn, K
  <2>10. CASE /\ Kn(f) \/ Kn(t)
              /\ \A q \in Workers : ~Dropping(q, i)'
    BY <2>2, <2>9, <2>10
  <2>11. CASE /\ Kn(f) /\ Kn(t) /\ job'[p].pc = "drop"
              /\ \A q \in Workers : Dropping(q, i)' => q = p
    BY <1>0, <2>2, <2>6, <2>9, <2>11
  <2>12. CASE /\ Kn(f) <=> K(f)
              /\ Kn(t) <=> K(t)
              /\ \A q \in Workers : Dropping(q, i)' => Dropping(q, i)
    BY <1>0, <2>2, <2>7, <2>9, <2>12
  <2> QED
    BY <2>8, <2>10, <2>11, <2>12
<1> QED
  BY <1>2, <1>3

(* A file the application quarantines is whole at its origin or in the quarantine
   directory at every moment, whatever crashes, fails, is retried or overlaps:
   the part of NoFileLost that needs no hypothesis (quarantine.py:161-210). *)
THEOREM QuarantineLosesNothing ==
  Spec => [](\A i \in Items : Ops[i] = "quarantine" => Kept(i, "origin") \/ Kept(i, "target"))
<1>1. Init => Types /\ QuarantineKept
  BY InitTypes, InitQuarantine
<1>2. Types /\ QuarantineKept /\ [Next]_vars => Types' /\ QuarantineKept'
  BY StepTypes, StepQuarantine
<1>3. QuarantineKept => \A i \in Items : Ops[i] = "quarantine" => Kept(i, "origin") \/ Kept(i, "target")
  BY DEF QuarantineKept
<1> QED
  BY <1>1, <1>2, <1>3, PTL DEF Spec

---------------------------------------------------------------------------
\* The manifest of a quarantined file is there before the file is, and stays.

Traced ==
  /\ \A i \in Items : Ops[i] = "quarantine" /\ Kept(i, "target") => manifest[i].status # "none"
  /\ job[Exec].pc \in CopySteps \cup {"moved"} =>
       IF job[Exec].leg = "out" THEN manifest[job[Exec].at].status # "none"
       ELSE job[Exec].pc = "moved" => ~Kept(job[Exec].at, "target")

LEMMA ManifestStep ==
  ASSUME Types, [Next]_vars, NEW i \in Items
  PROVE  \/ manifest'[i].status = "none" <=> manifest[i].status = "none"
         \/ SaveManifest /\ job[Exec].at = i /\ manifest'[i].status = "pending"
         \/ QuarantineFailed /\ job[Exec].at = i
<1> USE Basics
<1>0. TypeOK /\ Item(Exec) = job[Exec].at /\ manifest \in [Items -> ManifestType]
  BY DEF Types, TypeOK, Item
<1>1. ASSUME manifest' = manifest \/ manifest'[i] = manifest[i]
      PROVE  manifest'[i].status = "none" <=> manifest[i].status = "none"
  BY <1>1
<1>2. ASSUME NEW m \in ManifestType
      PROVE  [m EXCEPT !.own = TRUE].status = m.status /\ [m EXCEPT !.rown = TRUE].status = m.status
  BY DEF ManifestType
<1>3. ASSUME NEW p \in Workers, Mover(p)
      PROVE  manifest'[i].status = "none" <=> manifest[i].status = "none"
  <2>1. manifest' = manifest \/ MoverOwn(p)
    BY <1>3 DEF Mover, MoverRename, MoverOpen, MoverFill, MoverDrop, MoverFails, Keeping, store
  <2>2. CASE MoverOwn(p)
    <3>1. Item(p) \in Items
      BY <1>3, MoverFs, MoverPlaces
    <3>2. \/ manifest' = manifest
          \/ manifest' = [manifest EXCEPT ![Item(p)] = [@ EXCEPT !.own = TRUE]]
          \/ manifest' = [manifest EXCEPT ![Item(p)] = [@ EXCEPT !.rown = TRUE]]
      BY <2>2 DEF MoverOwn
    <3> QED
      BY ZenonT(40), <1>0, <1>2, <3>1, <3>2
  <2> QED
    BY <1>1, <2>1, <2>2
<1>4. CASE UNCHANGED vars
  BY <1>1, <1>4 DEF vars, store
<1>5. CASE ExecutorStep
  <2>1. CASE SaveManifest
    <3>1. [NoManifest EXCEPT !.status = "pending"].status = "pending"
      BY DEF NoManifest
    <3>2. manifest' = [manifest EXCEPT ![job[Exec].at] = [NoManifest EXCEPT !.status = "pending"]]
      BY <1>0, <2>1 DEF SaveManifest
    <3>3. CASE job[Exec].at = i
      BY <1>0, <2>1, <3>1, <3>2, <3>3
    <3>4. CASE job[Exec].at # i
      BY <1>0, <1>1, <3>2, <3>4
    <3> QED
      BY <3>3, <3>4
  <2>2. CASE MarkAvailable
    <3>1. job[Exec].at \in Items /\ SetStatus(job[Exec].at, "available")
      BY <1>0, <2>2 DEF MarkAvailable, At, Types, Shape, ExecShape, BusySteps
    <3> QED
      BY <1>0, <1>1, <3>1, SetStatusTyped
  <2>3. CASE QuarantineFailed
    <3>1. manifest' = manifest \/ manifest' = [manifest EXCEPT ![job[Exec].at] = NoManifest]
      BY <1>0, <2>3 DEF QuarantineFailed, SetManifest
    <3> QED
      BY <1>0, <1>1, <2>3, <3>1
  <2>4. CASE ~SaveManifest /\ ~MarkAvailable /\ ~QuarantineFailed /\ ~Mover(Exec)
    <3>1. manifest' = manifest
      BY <1>5, <2>4 DEF ExecutorStep, StartRun, BeginItem, CheckItem, RenameItem, JournalStage, StageItem,
         SecondRename, RestoreSource, RenameStep, RecordItem, FailItem, StrandItem, EndItem, FinishRun,
         RenameFails, Keeping, store
    <3> QED
      BY <1>1, <3>1
  <2> QED
    BY <1>3, <2>1, <2>2, <2>3, <2>4
<1>6. ASSUME NEW r \in Rollbacks, RollbackStep(r)
      PROVE  manifest'[i].status = "none" <=> manifest[i].status = "none"
  <2>1. CASE JournalRestore(r)
    <3>1. Item(r) \in Items
      BY <2>1, UndoPlaces DEF JournalRestore, At, UndoSteps
    <3>2. [manifest[Item(r)] EXCEPT !.rpath = TRUE, !.rown = FALSE].status = manifest[Item(r)].status
      BY ZenonT(40), <1>0, <3>1, JournaledTyped
    <3>3. \/ manifest' = manifest
          \/ manifest' = [manifest EXCEPT ![Item(r)] =
                            [manifest[Item(r)] EXCEPT !.rpath = TRUE, !.rown = FALSE]]
      BY <2>1 DEF JournalRestore, SetManifest
    <3> QED
      BY <1>0, <3>1, <3>2, <3>3
  <2>2. CASE SyncManifest(r)
    <3>1. /\ SetStatus(Item(r), "restored") \/ SetStatus(Item(r), "restore_failed")
          /\ job[r].pc \in MoveSteps
      BY <2>2 DEF SyncManifest, At, MoveSteps
    <3>2. Item(r) \in Items
      BY <3>1, MoverPlaces
    <3> QED
      BY <1>0, <1>1, <3>1, <3>2, SetStatusTyped
  <2>3. CASE ~JournalRestore(r) /\ ~SyncManifest(r) /\ ~Mover(r)
    <3>1. manifest' = manifest
      BY ZenonT(40), <1>6, <2>3 DEF RollbackStep, StartRollback, BeginUndo, ShutilRename, ShutilOpen, ShutilCopy,
         ShutilDrop, ShutilFails, MarkItem, LogUndo, FinishRollback, FinishSource, Keeping, store
    <3> QED
      BY <1>1, <3>1
  <2> QED
    BY <1>3, <2>1, <2>2, <2>3
<1>7. CASE \E p \in Workers : WriteFails(p)
  BY <1>1, <1>7, FaultFacts
<1>8. CASE Crash \/ Restart \/ SecondInstance \/ Recovered
  BY <1>1, <1>8, CrashFacts, RestartFacts, RecoveredFacts
<1>9. CASE LookAtRun \/ \E q \in Rollbacks : LookAtRollback(q)
  BY <1>1, <1>9, LookFs
<1>10. CASE RecoverRun \/ \E q \in Rollbacks : RecoverRollback(q)
  BY <1>10, RecoverRunFacts, RecoverRollbackFacts
<1>11. CASE \E j \in Items, x \in Places : Stranger(j, x) \/ Edit(j, x)
  BY <1>1, <1>11, EnvironmentFs
<1> QED
  BY <1>4, <1>5, <1>6, <1>7, <1>8, <1>9, <1>10, <1>11, StepCases

\* Only the executor's move out brings a file into quarantine.
LEMMA TargetStep ==
  ASSUME Types, [Next]_vars, NEW i \in Items, Ops[i] = "quarantine", Kept(i, "target")'
  PROVE  \/ Kept(i, "target")
         \/ /\ Mover(Exec) /\ job[Exec].at = i /\ job[Exec].leg = "out"
            /\ job[Exec].pc \in CopySteps
<1>1. CASE \A p \in Workers : ~(Mover(p) /\ Item(p) = i)
  <2>1. ~Renames \/ job[Exec].at # i
    BY RenameFs DEF Renames
  <2>2. ~\E r \in Rollbacks : Shutil(r) /\ Item(r) = i
    <3>1. \A r \in Rollbacks : job[r].pc \in ShutilSteps => Item(r) # i
      BY UndoPlaces DEF Types, Shape, RollbackShape, UndoSteps
    <3> QED
      BY <3>1, ShutilFs
  <2>3. Untouched(i, "target")
    BY <1>1, <2>1, <2>2, FilesStep
  <2> QED
    BY <2>3, KeptUntouched
<1>2. ASSUME NEW p \in Workers, Mover(p), Item(p) = i
      PROVE  \/ Kept(i, "target")
             \/ /\ Mover(Exec) /\ job[Exec].at = i /\ job[Exec].leg = "out"
                /\ job[Exec].pc \in CopySteps
  <2>1. job[p].pc \in MoveSteps /\ MoverOutcome(p)
    BY <1>2, MoverFs
  <2>2. /\ From(p) \in {"origin", "target"} /\ To(p) \in {"origin", "target"} /\ From(p) # To(p)
        /\ p # Exec \/ job[p].leg = "back" => From(p) = "target" /\ To(p) = "origin"
    BY <2>1, MoverPlaces
  <2>3. job[p].leg \in {"out", "back"}
    BY DEF Types, TypeOK
  <2>4. CASE p = Exec /\ job[Exec].leg = "out"
    <3>1. job[Exec].pc \in CopySteps
      BY <2>1, <2>4 DEF MoverOutcome, CopySteps
    <3> QED
      BY <1>2, <2>4, <3>1 DEF Item
  <2>5. CASE ~(p = Exec /\ job[Exec].leg = "out")
    <3>1. From(p) = "target" /\ To(p) = "origin"
      BY <2>2, <2>3, <2>5
    <3>2. fs'[i]["target"] \in {"own", "edited"} => fs[i]["target"] \in {"own", "edited"}
      BY <1>2, <2>1, <3>1 DEF MoverOutcome
    <3> QED
      BY <3>2 DEF Kept
  <2> QED
    BY <2>4, <2>5
<1> QED
  BY <1>1, <1>2

LEMMA InitTraced == Init => Traced
<1> SUFFICES ASSUME Init PROVE Traced
  OBVIOUS
<1>1. \A i \in Items : ~Kept(i, "target")
  BY DEF Init, Places, Kept
<1>2. job[Exec].pc = "idle"
  BY Basics DEF Init, Idle
<1> QED
  BY <1>1, <1>2 DEF Traced, CopySteps

LEMMA StepTraced == Types /\ Traced /\ [Next]_vars => Traced'
<1> SUFFICES ASSUME Types, Traced, [Next]_vars PROVE Traced'
  OBVIOUS
<1> USE Basics
<1>0. /\ TypeOK /\ Item(Exec) = job[Exec].at /\ Exec \in Workers /\ Types'
      /\ job[Exec].leg \in {"out", "back"} /\ job'[Exec].leg \in {"out", "back"}
  BY StepTypes DEF Types, TypeOK, Item
<1>1. QuarantineFailed => /\ job[Exec].pc \in {"moved", "erred"} /\ fs' = fs /\ job'[Exec].pc \in {"stuck", "fail"}
                          /\ job[Exec].pc = "moved" => job[Exec].leg = "back"
                          /\ job[Exec].at \in Items
                          /\ \/ manifest' = manifest
                             \/ manifest' = [manifest EXCEPT ![job[Exec].at] = NoManifest]
                                /\ (job[Exec].pc = "erred" => ~Kept(job[Exec].at, "target"))
  <2> SUFFICES ASSUME QuarantineFailed
               PROVE  /\ job[Exec].pc \in {"moved", "erred"} /\ fs' = fs /\ job'[Exec].pc \in {"stuck", "fail"}
                      /\ job[Exec].pc = "moved" => job[Exec].leg = "back"
                      /\ job[Exec].at \in Items
                      /\ \/ manifest' = manifest
                         \/ manifest' = [manifest EXCEPT ![job[Exec].at] = NoManifest]
                            /\ (job[Exec].pc = "erred" => ~Kept(job[Exec].at, "target"))
    OBVIOUS
  <2>1. /\ job[Exec].pc \in {"moved", "erred"} /\ fs' = fs
        /\ job[Exec].pc = "moved" => job[Exec].leg = "back"
        /\ Goto(Exec, "stuck") \/ Goto(Exec, "fail")
    BY DEF QuarantineFailed, At, Keeping
  <2>2. job'[Exec].pc \in {"stuck", "fail"}
    BY <1>0, <2>1, GotoFacts DEF Steps
  <2>3. job[Exec].at \in Items
    BY <2>1 DEF Types, Shape, ExecShape, BusySteps
  <2>4. \/ manifest' = manifest
        \/ manifest' = [manifest EXCEPT ![job[Exec].at] = NoManifest]
           /\ (job[Exec].pc = "erred" => ~Exists(job[Exec].at, "target"))
    BY <1>0, <2>1 DEF QuarantineFailed, SetManifest, At
  <2> QED
    BY <2>1, <2>2, <2>3, <2>4 DEF Exists, Present, Kept
<1>2. ASSUME NEW i \in Items, Ops[i] = "quarantine", Kept(i, "target")'
      PROVE  manifest'[i].status # "none"
  <2>1. manifest[i].status # "none"
    BY <1>2, TargetStep DEF Traced
  <2>2. CASE QuarantineFailed /\ job[Exec].at = i
    <3>1. Kept(i, "target")
      BY <1>1, <1>2, <2>2 DEF Kept
    <3>2. manifest' = manifest
      BY <1>0, <1>1, <2>2, <3>1 DEF Traced
    <3> QED
      BY <2>1, <3>2
  <2> QED
    BY <2>1, <2>2, ManifestStep, <1>2
<1>3. ASSUME NEW i \in Items, Ops[i] = "quarantine", ~Kept(i, "target"), job[Exec].leg = "back"
      PROVE  fs'[i]["target"] \notin {"own", "edited"}
  BY <1>3, TargetStep DEF Kept
<1>4. ASSUME job'[Exec].pc \in CopySteps \cup {"moved"}
      PROVE  IF job'[Exec].leg = "out" THEN manifest'[job'[Exec].at].status # "none"
             ELSE job'[Exec].pc = "moved" => fs'[job'[Exec].at]["target"] \notin {"own", "edited"}
  <2>1. ~QuarantineFailed
    BY <1>1, <1>4 DEF CopySteps
  <2>2. CASE job'[Exec] = job[Exec]
    <3>1. job[Exec].at \in Items /\ Ops[job[Exec].at] = "quarantine"
      BY <1>4, <2>2 DEF Types, Shape, ExecShape, BusySteps, MoveSteps, CopySteps
    <3>2. CASE job[Exec].leg = "out"
      <4>1. manifest[job[Exec].at].status # "none"
        BY <1>4, <2>2, <3>2 DEF Traced
      <4>2. manifest'[job[Exec].at].status # "none"
        BY <2>1, <3>1, <4>1, ManifestStep
      <4> QED
        BY <2>2, <3>2, <4>2
    <3>3. CASE job[Exec].leg = "back" /\ job[Exec].pc = "moved"
      <4>1. ~Kept(job[Exec].at, "target")
        BY <3>3 DEF Traced
      <4>2. fs'[job[Exec].at]["target"] \notin {"own", "edited"}
        BY <3>1, <3>3, <4>1, <1>3
      <4> QED
        BY <2>2, <3>3, <4>2
    <3> QED
      BY <1>0, <2>2, <3>2, <3>3
  <2>3. CASE Mover(Exec)
    <3>1. /\ job[Exec].pc \in MoveSteps /\ MoverOutcome(Exec)
          /\ job'[Exec].at = job[Exec].at /\ job'[Exec].leg = job[Exec].leg
      BY <1>0, <2>3, MoverFs
    <3>2. job[Exec].pc \in CopySteps /\ job[Exec].at \in Items
      BY <3>1 DEF MoverOutcome, CopySteps, Types, Shape, ExecShape, BusySteps
    <3>3. CASE job[Exec].leg = "out"
      <4>1. manifest[job[Exec].at].status # "none"
        BY <3>2, <3>3 DEF Traced
      <4> QED
        BY <2>1, <3>1, <3>2, <3>3, <4>1, ManifestStep
    <3>4. CASE job[Exec].leg = "back"
      <4>1. From(Exec) = "target"
        BY <1>0, <3>1, <3>4, MoverPlaces
      <4>2. job'[Exec].pc = "moved" => fs'[job[Exec].at]["target"] = "none"
        BY <1>0, <3>1, <4>1 DEF MoverOutcome
      <4> QED
        BY <3>1, <3>4, <4>2
    <3> QED
      BY <1>0, <3>3, <3>4
  <2>4. CASE SaveManifest
    <3>1. /\ job'[Exec].at = job[Exec].at /\ job'[Exec].leg = "out" /\ job[Exec].at \in Items
          /\ manifest' = [manifest EXCEPT ![job[Exec].at] = [NoManifest EXCEPT !.status = "pending"]]
      BY <1>0, <2>4 DEF SaveManifest, TypeOK, At, Types, Shape, ExecShape, BusySteps
    <3>2. [NoManifest EXCEPT !.status = "pending"].status = "pending"
      BY DEF NoManifest
    <3> QED
      BY <1>0, <3>1, <3>2 DEF TypeOK
  <2>5. CASE WriteFails(Exec)
    BY <1>0, <1>4, <2>5, FaultFacts DEF FaultOutcome, CopySteps
  <2>6. \/ job'[Exec] = job[Exec] \/ Mover(Exec) \/ SaveManifest \/ WriteFails(Exec)
    <3>1. CASE ExecutorStep
      <4> USE DEF At
      <4>1. CASE StartRun \/ BeginItem \/ JournalStage \/ MarkAvailable \/ FinishRun \/ RenameFails
        BY ZenonT(40), <1>0, <1>4, <4>1, GotoFacts DEF StartRun, BeginItem, JournalStage, MarkAvailable,
           FinishRun, RenameFails, Steps, CopySteps
      <4>2. CASE CheckItem
        <5>1. Ops[job[Exec].at] \in {"rename", "case", "quarantine"}
          BY <4>2 DEF CheckItem, Types, Shape, ExecShape, BusySteps
        <5>2. \E s \in {"rename", "journal", "manifest", "fail"} : Goto(Exec, s)
          BY <1>0, <4>2, <5>1 DEF CheckItem
        <5> QED
          BY <1>0, <1>4, <5>2, GotoFacts DEF Steps, CopySteps
      <4>3. CASE Renames
        BY <1>4, <4>3, RenameFs DEF RenameOutcome, Renames, CopySteps
      <4>4. CASE RecordItem \/ FailItem \/ StrandItem
        <5>1. NextItem(Exec)
          BY <4>4 DEF RecordItem, FailItem, StrandItem, EndItem
        <5> QED
          BY <1>0, <1>4, <5>1, NextItemFacts DEF CopySteps
      <4> QED
        BY SMTT(20), <2>1, <3>1, <4>1, <4>2, <4>3, <4>4 DEF ExecutorStep, Renames
    <3>2. CASE UNCHANGED vars
      BY <3>2 DEF vars
    <3>3. CASE \E r \in Rollbacks : RollbackStep(r)
      BY <3>3, RollbackKeeps
    <3>4. CASE \E p \in Workers : WriteFails(p)
      BY <3>4, FaultFacts
    <3>5. ~Crash
      BY <1>4, CrashFacts DEF CopySteps
    <3> QED
      BY <3>1, <3>2, <3>3, <3>4, <3>5, StepCases, RestartFacts, RecoveredFacts, LookFs,
         RecoverRunFacts, RecoverRollbackFacts, EnvironmentFs
  <2> QED
    BY <2>2, <2>3, <2>4, <2>5, <2>6
<1> QED
  BY <1>2, <1>4 DEF Traced, Kept

(* A file in quarantine has its manifest at every moment, for any number of
   overlapping rollbacks, crashes, failing writes and second instances, so that a
   restart at any of them can tell whose it is (quarantine.py:229, 238-243, 253). *)
THEOREM QuarantineIsTraceable == Spec => []QuarantineTraceable
<1>1. Init => Types /\ Traced
  BY InitTypes, InitTraced
<1>2. Types /\ Traced /\ [Next]_vars => Types' /\ Traced'
  BY StepTypes, StepTraced
<1>3. Traced => QuarantineTraceable
  BY DEF Traced, QuarantineTraceable
<1> QED
  BY <1>1, <1>2, <1>3, PTL DEF Spec

---------------------------------------------------------------------------
\* A renamed file while rollbacks restore it with shutil.move, one at a time.

\* No two restores of one renamed item are under way or due.  shutil.move copies when
\* a rename fails, opens its target "wb" and removes the source: of two at work on one
\* file, the second can empty what the first has just put back.  This is the case for
\* one rollback at a time (RestoresStayApart) and for requests of different items.
RestoresApart ==
  \A q, r \in Rollbacks : \A j \in DOMAIN job[q].plan, k \in DOMAIN job[r].plan :
    LET i == job[r].plan[k].item IN
    Ops[i] # "quarantine" /\ OwedFor(q, j, i) /\ OwedFor(r, k, i) => q = r /\ j = k

\* How far the restore of entry k is.
Phase(r, k) == IF k = job[r].at THEN job[r].pc ELSE "item"

\* What is where (s) while a restore from f is at this phase.
Safe(s, f, phase) ==
  LET whole(p) == s[p] \in {"own", "edited"} IN
  /\ phase \in {"item", "shmove"} => whole(f) \/ (f = "stage" /\ s[f] = "none")
  /\ phase = "shcopy" => whole(f) /\ s["origin"] = "part"
  /\ phase = "shdrop" => whole(f) /\ whole("origin")
  /\ phase \in {"mark_done", "log_done"} => whole("origin")

RenamedKept ==
  \A i \in Items : Ops[i] # "quarantine" =>
    /\ Kept(i, "origin") \/ Kept(i, "target") \/ Kept(i, "stage")
    /\ \A r \in Rollbacks : \A k \in DOMAIN job[r].plan :
         OwedFor(r, k, i) => Safe(fs[i], job[r].plan[k].from, Phase(r, k))

LEMMA PhaseStep ==
  ASSUME Types, [Next]_vars, NEW r \in Rollbacks, NEW k, NEW i \in Items, Ops[i] # "quarantine",
         OwedFor(r, k, i), OwedFor(r, k, i)'
  PROVE  \/ Phase(r, k)' = Phase(r, k) /\ ~(Shutil(r) /\ k = job[r].at)
         \/ Phase(r, k)' \in FailSteps /\ ~(Shutil(r) /\ k = job[r].at)
         \/ Phase(r, k) = "item" /\ Phase(r, k)' = "shmove" /\ fs' = fs
         \/ Phase(r, k) = "mark_done" /\ Phase(r, k)' = "log_done" /\ fs' = fs
         \/ Shutil(r) /\ k = job[r].at /\ k = job'[r].at
<1> USE Basics
<1>0. /\ TypeOK /\ r \in Workers /\ r # Exec /\ RollbackShape(r) /\ job[r].at \in Nat
      /\ k \in DOMAIN job[r].plan /\ job[r].plan[k].item = i /\ job[r].at <= k
      /\ job[r].pc \notin {"idle", "done", "dead"} /\ job'[r].pc \notin {"idle", "done", "dead"}
      /\ job'[r].at <= k
  BY DEF Types, Shape, TypeOK, OwedFor, Owed
<1>1. CASE job'[r] = job[r]
  <2>1. ~Shutil(r)
    <3> SUFFICES ASSUME Shutil(r) PROVE FALSE
      OBVIOUS
    <3> QED
      BY <1>1, ShutilFs DEF ShutilOutcome, ShutilSteps
  <2> QED
    BY <1>1, <2>1 DEF Phase
<1>2. CASE RollbackStep(r)
  <2>1. ~StartRollback(r)
    BY <1>0, StartFacts
  <2>2. /\ job'[r].plan = job[r].plan
        /\ LogUndo(r) \/ job'[r].at = job[r].at
    BY <1>2, <2>1, RollbackPlans
  <2>3. CASE k # job[r].at
    <3>1. CASE LogUndo(r)
      <4>1. job'[r].pc = "item"
        BY <1>0, <3>1, NextItemFacts DEF LogUndo
      <4> QED
        BY <2>3, <4>1 DEF Phase
    <3>2. CASE job'[r].at = job[r].at
      BY <2>3, <3>2 DEF Phase
    <3> QED
      BY <2>2, <3>1, <3>2
  <2>4. CASE k = job[r].at
    <3> USE DEF At
    <3>1. CASE Shutil(r)
      BY <2>4, <3>1, ShutilFs
    <3>2. job[r].pc \notin {"rpath"} \cup MoveSteps
      BY <1>0, <2>4 DEF RollbackShape
    <3>3. CASE BeginUndo(r)
      <4>1. /\ job[r].pc = "item" /\ fs' = fs
            /\ Goto(r, "mark_failed") \/ Goto(r, "shmove")
        BY ZenonT(40), <1>0, <2>4, <3>3 DEF BeginUndo, Keeping
      <4> QED
        BY SMTT(20), <1>0, <2>4, <4>1, GotoFacts, ShutilFs DEF Phase, Steps, FailSteps, ShutilSteps
    <3>4. CASE MarkItem(r)
      <4>1. /\ fs' = fs
            /\ \/ job[r].pc = "mark_done" /\ Goto(r, "log_done")
               \/ job[r].pc = "mark_failed" /\ Goto(r, "log_failed")
        BY <3>4 DEF MarkItem, Keeping
      <4> QED
        BY <1>0, <2>4, <4>1, GotoFacts, ShutilFs DEF Phase, Steps, FailSteps, ShutilSteps
    <3>5. ~LogUndo(r)
      <4> SUFFICES ASSUME LogUndo(r) PROVE FALSE
        OBVIOUS
      <4>1. job'[r].at = job[r].at + 1
        BY <1>0, NextItemFacts DEF LogUndo
      <4> QED
        BY <1>0, <2>4, <4>1
    <3>6. ~FinishRollback(r) /\ ~FinishSource(r)
      BY <1>0, <2>4, GotoFacts DEF FinishRollback, FinishSource, Steps
    <3>7. ~JournalRestore(r) /\ ~SyncManifest(r) /\ ~Mover(r)
      BY <3>2, MoverFs DEF JournalRestore, SyncManifest, MoveSteps
    <3> QED
      BY <1>2, <2>1, <3>1, <3>3, <3>4, <3>5, <3>6, <3>7 DEF RollbackStep, Shutil
  <2> QED
    BY <2>3, <2>4
<1>3. CASE WriteFails(r)
  <2>1. job'[r].at = job[r].at /\ FaultOutcome(r)
    BY <1>0, <1>3, FaultFacts
  <2>2. CASE k = job[r].at
    <3>1. job[r].pc \notin {"rpath"} \cup MoveSteps
      BY <1>0, <2>2 DEF RollbackShape
    <3> QED
      BY <1>0, <2>1, <3>1 DEF FaultOutcome, MoveSteps
  <2>3. CASE k # job[r].at
    BY <2>1, <2>3 DEF Phase
  <2> QED
    BY <2>2, <2>3
<1>4. \/ job'[r] = job[r] \/ RollbackStep(r) \/ WriteFails(r)
  <2>1. CASE UNCHANGED vars
    BY <2>1 DEF vars
  <2>2. ~Crash
    BY <1>0, CrashFacts
  <2> QED
    BY <1>0, <2>1, <2>2, StepCases, ExecutorKeeps, RollbackKeeps, FaultFacts, RestartFacts, RecoveredFacts,
       LookFs, RecoverRunFacts, RecoverRollbackFacts, EnvironmentFs
<1> QED
  BY <1>1, <1>2, <1>3, <1>4

LEMMA SafeUntouched ==
  ASSUME NEW i, NEW f \in {"target", "stage"}, NEW phase, Safe(fs[i], f, phase),
         \A x \in {"origin", "target", "stage"} : Untouched(i, x)
  PROVE  Safe(fs'[i], f, phase)
BY DEF Untouched, Safe

\* A phase that failed, or that wrote nothing but rows, is as safe as the one before.
LEMMA SafePhases ==
  ASSUME NEW s, NEW f, NEW phase
  PROVE  /\ Safe(s, f, "item") => Safe(s, f, "shmove")
         /\ Safe(s, f, "mark_done") => Safe(s, f, "log_done")
         /\ phase \in FailSteps => Safe(s, f, phase)
BY DEF Safe, FailSteps

LEMMA InitRenamed == Init => RenamedKept
<1> SUFFICES ASSUME Init, NEW i \in Items
             PROVE  Kept(i, "origin") /\ \A r \in Rollbacks : DOMAIN job[r].plan = {}
  BY DEF RenamedKept
<1>1. fs[i]["origin"] = "own"
  BY DEF Init, Places
<1>2. \A r \in Rollbacks : job[r].plan = <<>>
  BY Basics DEF Init, Idle
<1> QED
  BY <1>1, <1>2 DEF Kept

LEMMA StepRenamed ==
  Types /\ BeforeOK /\ RenamedKept /\ RestoresApart /\ [Next]_vars => RenamedKept'
<1> SUFFICES ASSUME Types, BeforeOK, RenamedKept, RestoresApart, [Next]_vars,
                    NEW i \in Items, Ops[i] # "quarantine"
             PROVE  /\ \E x \in {"origin", "target", "stage"} : fs'[i][x] \in {"own", "edited"}
                    /\ \A r \in Rollbacks : \A k \in DOMAIN job'[r].plan :
                         OwedFor(r, k, i)' => Safe(fs'[i], job'[r].plan[k].from, Phase(r, k)')
  BY DEF RenamedKept, Kept
<1> USE Basics
<1>0. TypeOK /\ Types' /\ \A r \in Rollbacks : r \in Workers /\ r # Exec
  BY StepTypes DEF Types
<1>1. /\ \E x \in {"origin", "target", "stage"} : fs[i][x] \in {"own", "edited"}
      /\ \A r \in Rollbacks : \A k :
           OwedFor(r, k, i) => Safe(fs[i], job[r].plan[k].from, Phase(r, k))
  BY DEF RenamedKept, OwedFor, Owed, Kept
<1>2. \A r \in Rollbacks : \A k : OwedFor(r, k, i) => job[r].plan[k].from \in {"target", "stage"}
  BY DEF Types, Shape, RollbackShape, OwedFor, Owed
<1>3. ASSUME NEW r \in Rollbacks, job[r].pc \in ShutilSteps, Item(r) = i
      PROVE  OwedFor(r, job[r].at, i) /\ From(r) = job[r].plan[job[r].at].from
             /\ Phase(r, job[r].at) = job[r].pc
  <2>1. /\ job[r].at \in DOMAIN job[r].plan /\ job[r].at \in Nat /\ Item(r) = job[r].plan[job[r].at].item
        /\ From(r) = job[r].plan[job[r].at].from
    BY <1>3, UndoPlaces DEF UndoSteps
  <2>2. ~job[r].plan[job[r].at].blocked
    BY <1>3 DEF Types, Shape, RollbackShape, UndoSteps
  <2>3. job[r].pc \notin {"idle", "done", "dead"} /\ job[r].at <= job[r].at
    BY <1>3, <2>1 DEF ShutilSteps
  <2> QED
    BY <1>3, <2>1, <2>2, <2>3 DEF OwedFor, Owed, Phase
<1>4. CASE /\ \A x \in {"origin", "target", "stage"} : Untouched(i, x)
           /\ ~\E r \in Rollbacks : Shutil(r) /\ Item(r) = i
  <2>1. \E x \in {"origin", "target", "stage"} : fs'[i][x] \in {"own", "edited"}
    BY <1>1, <1>4 DEF Untouched
  <2>2. ASSUME NEW r \in Rollbacks, NEW k \in DOMAIN job'[r].plan, OwedFor(r, k, i)'
        PROVE  Safe(fs'[i], job'[r].plan[k].from, Phase(r, k)')
    <3>1. CASE OwedFor(r, k, i) /\ job'[r].plan = job[r].plan
      <4>1. PICK f \in {"target", "stage"} : f = job[r].plan[k].from /\ job'[r].plan[k].from = f
        BY <1>2, <3>1
      <4>2. Safe(fs[i], f, Phase(r, k))
        BY <1>1, <3>1, <4>1
      <4>3. ~(Shutil(r) /\ k = job[r].at)
        <5> SUFFICES ASSUME Shutil(r), k = job[r].at PROVE FALSE
          OBVIOUS
        <5>1. Item(r) = i
          BY <3>1, ShutilFs, UndoPlaces DEF UndoSteps, OwedFor
        <5> QED
          BY <1>4, <5>1
      <4>4. Safe(fs'[i], f, Phase(r, k))
        BY <1>4, <4>2, SafeUntouched
      <4>5. \/ Phase(r, k)' = Phase(r, k)
            \/ Phase(r, k)' \in FailSteps
            \/ Phase(r, k) = "item" /\ Phase(r, k)' = "shmove"
            \/ Phase(r, k) = "mark_done" /\ Phase(r, k)' = "log_done"
        BY <2>2, <3>1, <4>3, PhaseStep
      <4> QED
        BY <4>1, <4>4, <4>5, SafePhases
    <3>2. CASE StartRollback(r) /\ job'[r].plan[k] = Preview(i) /\ ~Preview(i).blocked
      <4>1. fs' = fs /\ job'[r].pc = "item"
        BY <3>2, StartFacts
      <4>2. fs[i][Preview(i).from] = "own"
        BY <3>2 DEF Preview, Unchanged
      <4>3. Phase(r, k)' = "item"
        BY <4>1 DEF Phase
      <4> QED
        BY <3>2, <4>1, <4>2, <4>3 DEF Safe
    <3> QED
      BY <2>2, <3>1, <3>2, OwedOnlyShrinks
  <2> QED
    BY <2>1, <2>2
<1>5. CASE Renames /\ job[Exec].at = i
  <2>1. /\ RenameOutcome /\ \A r \in Rollbacks : job'[r] = job[r]
    <3>1. ExecutorStep
      BY <1>5 DEF ExecutorStep, Renames
    <3> QED
      BY <1>5, <3>1, RenameFs, ExecutorKeeps DEF Renames
  <2>2. \A r \in Rollbacks : \A k : OwedFor(r, k, i)' <=> OwedFor(r, k, i)
    BY <2>1 DEF OwedFor, Owed
  <2>3. CASE job[Exec].pc \in {"rename", "stage"}
    <3>1. Before(i)
      BY <1>5, <2>3 DEF Before
    <3>2. Kept(i, "origin") /\ \A r \in Rollbacks : \A k : ~OwedFor(r, k, i)
      BY <3>1 DEF BeforeOK, OwedFor, Owed
    <3> QED
      BY <1>5, <2>1, <2>2, <2>3, <3>2 DEF RenameOutcome, Kept
  <2>4. CASE job[Exec].pc \in {"second", "home"}
    <3>1. /\ fs[i]["origin"] = "none" /\ fs[i]["target"] = "none"
          /\ fs'[i]["stage"] = "none"
          /\ \E t \in {"origin", "target"} : fs'[i][t] = fs[i]["stage"]
          /\ fs[i]["stage"] # "none"
      BY <1>5, <2>1, <2>4 DEF RenameOutcome
    <3>2. \E x \in {"origin", "target", "stage"} : fs'[i][x] \in {"own", "edited"}
      BY <1>1, <3>1
    <3>3. ASSUME NEW r \in Rollbacks, NEW k, OwedFor(r, k, i)
          PROVE  Safe(fs'[i], job'[r].plan[k].from, Phase(r, k)')
      <4>1. Safe(fs[i], job[r].plan[k].from, Phase(r, k)) /\ job[r].plan[k].from \in {"target", "stage"}
        BY <1>1, <1>2, <3>3
      <4>2. job'[r].plan[k].from = job[r].plan[k].from /\ Phase(r, k)' = Phase(r, k)
        BY <2>1 DEF Phase
      <4>3. Safe(fs'[i], job[r].plan[k].from, Phase(r, k))
        BY <3>1, <4>1 DEF Safe
      <4> QED
        BY <4>2, <4>3
    <3> QED
      BY <2>2, <3>2, <3>3
  <2> QED
    BY <2>1, <2>3, <2>4 DEF RenameOutcome
<1>6. ASSUME NEW r \in Rollbacks, Shutil(r), Item(r) = i
      PROVE  /\ \E x \in {"origin", "target", "stage"} : fs'[i][x] \in {"own", "edited"}
             /\ \A q \in Rollbacks : \A k \in DOMAIN job'[q].plan :
                  OwedFor(q, k, i)' => Safe(fs'[i], job'[q].plan[k].from, Phase(q, k)')
  <2>1. /\ job[r].pc \in ShutilSteps /\ ShutilOutcome(r)
        /\ job'[r].at = job[r].at /\ job'[r].plan = job[r].plan
        /\ \A q \in Workers : q # r => job'[q] = job[q]
        /\ \A x \in Places : x \notin {"origin", From(r)} => fs'[i][x] = fs[i][x]
    BY <1>6, ShutilFs
  <2>2. OwedFor(r, job[r].at, i) /\ From(r) = job[r].plan[job[r].at].from /\ Phase(r, job[r].at) = job[r].pc
    BY <1>3, <1>6, <2>1
  <2>3. Safe(fs[i], From(r), job[r].pc) /\ From(r) \in {"target", "stage"}
    BY <1>1, <1>2, <2>2
  <2>4. ASSUME NEW q \in Rollbacks, NEW k \in DOMAIN job'[q].plan, OwedFor(q, k, i)'
        PROVE  q = r /\ k = job[r].at
    <3>1. ~StartRollback(q)
      BY <1>0, <2>1, StartFacts DEF ShutilSteps
    <3>2. OwedFor(q, k, i)
      BY <2>4, <3>1, OwedOnlyShrinks
    <3> QED
      BY <2>2, <3>2 DEF RestoresApart, OwedFor, Owed
  <2>5. /\ \E x \in {"origin", "target", "stage"} : fs'[i][x] \in {"own", "edited"}
        /\ Safe(fs'[i], From(r), job'[r].pc)
    <3>1. CASE job[r].pc \in ShutilSteps /\ job'[r].pc = "mark_failed" /\ fs'[i] = fs[i]
      BY <1>1, <3>1 DEF Safe
    <3>2. CASE fs[i][From(r)] # "none" /\ job'[r].pc # "mark_failed"
      <4>1. fs[i][From(r)] \in {"own", "edited"}
        BY <2>1, <2>3, <3>2 DEF Safe, ShutilSteps
      <4> QED
        BY <1>6, <2>1, <2>3, <3>2, <4>1 DEF Safe, ShutilOutcome
    <3> QED
      BY <1>6, <2>1, <3>1, <3>2 DEF ShutilOutcome
  <2>6. Phase(r, job[r].at)' = job'[r].pc
    BY <2>1 DEF Phase
  <2> QED
    BY <2>1, <2>2, <2>4, <2>5, <2>6
<1>7. ~\E p \in Workers : Mover(p) /\ Item(p) = i
  BY MoverFs, MoverPlaces
<1>8. CASE \E r \in Rollbacks : Shutil(r) /\ Item(r) = i
  BY <1>6, <1>8
<1> QED
  BY <1>4, <1>5, <1>7, <1>8, FilesStep

(* The user's file of every item is whole in one of the three places the application
   puts it in, whatever fails, crashes, is retried or repaired by a second instance,
   as long as no two restores of one renamed file overlap (quarantine.py:197,
   executor.py:220-226, 340-354, recovery.py:213). *)
THEOREM NoFileIsLost == Spec /\ []RestoresApart => []NoFileLost
<1> DEFINE Inv == Types /\ BeforeOK /\ QuarantineKept /\ RenamedKept
<1>1. Init => Inv
  BY InitTypes, InitBefore, InitQuarantine, InitRenamed
<1>2. Inv /\ RestoresApart /\ [Next]_vars => Inv'
  BY StepTypes, StepBefore, StepQuarantine, StepRenamed
<1>3. Inv => NoFileLost
  BY DEF QuarantineKept, RenamedKept, NoFileLost
<1> QED
  BY <1>1, <1>2, <1>3, PTL DEF Spec

(* A file another program put at an item's target, or at the freed origin of a
   quarantined item, is not replaced by any mover, rename, rollback or restart, under
   the same condition (quarantine.py:161, 186, executor.py:222, recovery.py:213). *)
THEOREM StrangersStay == Spec /\ []RestoresApart => StrangersKept
<1> DEFINE Inv == Types /\ BeforeOK /\ QuarantineKept /\ RenamedKept
           Left == \A i \in Items, p \in {"origin", "target"} :
                     fs[i][p] = "other" /\ (p = "origin" => Ops[i] = "quarantine") => fs'[i][p] = "other"
<1>1. Init => Inv
  BY InitTypes, InitBefore, InitQuarantine, InitRenamed
<1>2. Inv /\ RestoresApart /\ [Next]_vars => Inv'
  BY StepTypes, StepBefore, StepQuarantine, StepRenamed
<1>3. Inv /\ [Next]_vars => [Left]_vars
  <2> SUFFICES ASSUME Inv, [Next]_vars, NEW i \in Items, NEW p \in {"origin", "target"},
                      fs[i][p] = "other", p = "origin" => Ops[i] = "quarantine"
               PROVE  fs'[i][p] = "other"
    OBVIOUS
  <2>1. CASE Untouched(i, p)
    BY <2>1 DEF Untouched
  <2>2. ASSUME NEW w \in Workers, Mover(w), Item(w) = i
        PROVE  fs'[i][p] = "other"
    <3>1. job[w].pc \in MoveSteps /\ MoverOutcome(w)
      BY <2>2, MoverFs
    <3>2. From(w) \in {"origin", "target"} /\ To(w) \in {"origin", "target"} /\ From(w) # To(w)
          /\ Ops[i] = "quarantine"
      BY <2>2, <3>1, MoverPlaces
    <3>3. /\ fs[i]["origin"] \in {"own", "edited"} \/ fs[i]["target"] \in {"own", "edited"}
          /\ job[w].pc = "drop" => fs[i]["origin"] \in {"own", "edited"} /\ fs[i]["target"] \in {"own", "edited"}
      BY <2>2, <3>2 DEF QuarantineKept, Kept, Dropping
    <3>4. CASE p = From(w)
      BY <2>2, <3>1, <3>2, <3>3, <3>4 DEF MoverOutcome
    <3>5. CASE p = To(w)
      BY <2>2, <3>1, <3>2, <3>3, <3>5 DEF MoverOutcome
    <3> QED
      BY <3>2, <3>4, <3>5
  <2>3. CASE Renames /\ job[Exec].at = i
    <3>1. RenameOutcome /\ p = "target" /\ "target" \in Places
      BY <2>3, RenameFs DEF Renames, Places
    <3>2. fs[i]["target"] # "none"
      BY <3>1
    <3> QED
      BY <2>3, <3>1, <3>2 DEF RenameOutcome
  <2>4. ASSUME NEW r \in Rollbacks, Shutil(r), Item(r) = i
        PROVE  fs'[i][p] = "other"
    <3>1. /\ job[r].pc \in ShutilSteps /\ ShutilOutcome(r)
          /\ \A x \in Places : x \notin {"origin", From(r)} => fs'[i][x] = fs[i][x]
      BY <2>4, ShutilFs
    <3>2. /\ job[r].at \in DOMAIN job[r].plan /\ job[r].at \in Nat /\ i = job[r].plan[job[r].at].item
          /\ From(r) = job[r].plan[job[r].at].from
      BY <2>4, <3>1, UndoPlaces DEF UndoSteps
    <3>3. ~job[r].plan[job[r].at].blocked /\ Ops[i] # "quarantine"
      BY <3>1, <3>2 DEF Types, Shape, RollbackShape, UndoSteps
    <3>4. OwedFor(r, job[r].at, i)
      <4>1. job[r].pc \notin {"idle", "done", "dead"} /\ job[r].at <= job[r].at
        BY <3>1, <3>2 DEF ShutilSteps
      <4> QED
        BY <3>2, <3>3, <4>1 DEF OwedFor, Owed
    <3>5. Safe(fs[i], From(r), job[r].pc)
      BY <3>2, <3>3, <3>4 DEF RenamedKept, Phase
    <3>6. p = "target" /\ "target" \in Places
      BY <3>3 DEF Places
    <3>7. CASE From(r) # p
      BY <3>1, <3>6, <3>7
    <3>8. CASE From(r) = p
      BY <2>4, <3>1, <3>5, <3>6, <3>8 DEF Safe, ShutilSteps, ShutilOutcome
    <3> QED
      BY <3>7, <3>8
  <2> QED
    BY <2>1, <2>2, <2>3, <2>4, FilesStep
<1>4. Spec /\ []RestoresApart => [][Left]_vars
  BY <1>1, <1>2, <1>3, PTL DEF Spec
<1> QED
  BY <1>4 DEF StrangersKept

\* One request at a time, and none that names an item twice.
OneAtATime ==
  /\ \A q, r \in Rollbacks : q = r
  /\ \A s \in Requests : \A j, k \in DOMAIN s : s[j] = s[k] => j = k

PlansDistinct ==
  \A r \in Rollbacks : \A j, k \in DOMAIN job[r].plan :
    job[r].plan[j].item = job[r].plan[k].item => j = k

LEMMA PlanStep ==
  ASSUME Types, [Next]_vars, NEW r \in Rollbacks
  PROVE  job'[r].plan = job[r].plan \/ job'[r].plan = <<>> \/ StartRollback(r)
<1>1. r \in Workers /\ r # Exec
  BY Basics
<1>2. CASE UNCHANGED vars
  BY <1>2 DEF vars
<1>3. CASE \E q \in Rollbacks : RollbackStep(q)
  BY <1>1, <1>3, RollbackPlans, RollbackKeeps
<1> QED
  BY <1>1, <1>2, <1>3, StepCases, ExecutorKeeps, FaultFacts, CrashFacts, RestartFacts, RecoveredFacts,
     LookFs, RecoverRunFacts, RecoverRollbackFacts, EnvironmentFs

LEMMA StepDistinct == OneAtATime /\ Types /\ PlansDistinct /\ [Next]_vars => PlansDistinct'
<1> SUFFICES ASSUME OneAtATime, Types, PlansDistinct, [Next]_vars, NEW r \in Rollbacks,
                    NEW j \in DOMAIN job'[r].plan, NEW k \in DOMAIN job'[r].plan,
                    job'[r].plan[j].item = job'[r].plan[k].item
             PROVE  j = k
  BY DEF PlansDistinct
<1>1. CASE job'[r].plan = job[r].plan
  BY <1>1 DEF PlansDistinct
<1>2. CASE job'[r].plan = <<>>
  BY <1>2
<1>3. CASE StartRollback(r)
  <2>1. PICK s \in Selections :
          /\ s \in Seq(Items) /\ DOMAIN job'[r].plan = DOMAIN s
          /\ \A n \in DOMAIN s : s[n] \in Items /\ job'[r].plan[n] = Preview(s[n])
    BY <1>3, StartFacts
  <2>2. s[j] = s[k]
    <3>1. \A i : Preview(i).item = i
      BY DEF Preview
    <3>2. job'[r].plan[j] = Preview(s[j]) /\ job'[r].plan[k] = Preview(s[k])
      BY <2>1
    <3> QED
      BY <3>1, <3>2
  <2>3. CASE s = DefaultSelection
    <3>1. {i \in Items : Rollbackable(i) /\ row[i].undo # "done"} \in SUBSET Items
      OBVIOUS
    <3>2. \A m, n \in DOMAIN s : s[m] = s[n] => m = n
      BY <2>3, <3>1, NewestTyped DEF DefaultSelection
    <3> QED
      BY <2>1, <2>2, <3>2
  <2>4. CASE s \in Requests
    BY <2>1, <2>2, <2>4 DEF OneAtATime
  <2> QED
    BY <2>1, <2>3, <2>4 DEF Selections
<1> QED
  BY <1>1, <1>2, <1>3, PlanStep

(* The condition holds when the user rolls back once at a time, naming no item twice,
   and when the run only quarantines (recovery.py:196-213). *)
THEOREM RestoresStayApart ==
  OneAtATime \/ (\A i \in Items : Ops[i] = "quarantine") => (Spec => []RestoresApart)
<1>1. ASSUME OneAtATime
      PROVE  Spec => []RestoresApart
  <2>1. Init => Types /\ PlansDistinct
    <3>1. Init => \A r \in Rollbacks : job[r].plan = <<>>
      BY Basics DEF Init, Idle
    <3> QED
      BY <3>1, InitTypes DEF PlansDistinct
  <2>2. Types /\ PlansDistinct /\ [Next]_vars => Types' /\ PlansDistinct'
    BY <1>1, StepTypes, StepDistinct
  <2>3. PlansDistinct => RestoresApart
    BY <1>1 DEF OneAtATime, PlansDistinct, RestoresApart, OwedFor
  <2> QED
    BY <2>1, <2>2, <2>3, PTL DEF Spec
<1>2. ASSUME \A i \in Items : Ops[i] = "quarantine"
      PROVE  Spec => []RestoresApart
  <2>1. Types => RestoresApart
    <3> SUFFICES ASSUME Types, NEW r \in Rollbacks, NEW k \in DOMAIN job[r].plan
                 PROVE  job[r].plan[k].item \in Items
      BY <1>2 DEF RestoresApart
    <3>1. job[r].plan \in Seq(Step)
      BY Basics DEF Types, TypeOK
    <3>2. job[r].plan[k] \in Step
      BY <3>1
    <3> QED
      BY <3>2 DEF Step
  <2> QED
    BY <2>1, InitTypes, StepTypes, PTL DEF Spec
<1> QED
  BY <1>1, <1>2

---------------------------------------------------------------------------
\* Who writes the row of an item.

SameMove(i) == row'[i].state = row[i].state /\ row'[i].temp = row[i].temp

LEMMA RowStep ==
  ASSUME Types, [Next]_vars, NEW i \in Items
  PROVE  \/ row'[i] = row[i]
         \/ /\ BeginItem /\ job[Exec].at = i
            /\ row'[i].state = "pending" /\ row'[i].temp = "none" /\ row'[i].undo = "none"
         \/ /\ JournalStage /\ job[Exec].at = i
            /\ row'[i].state = row[i].state /\ row'[i].temp = "stage" /\ row'[i].undo = row[i].undo
         \/ /\ RecordItem \/ FailItem \/ StrandItem
            /\ job[Exec].at = i /\ row'[i].undo = "none"
            /\ row'[i].state \in {"renamed", "quarantined", "failed"}
         \/ RecoverRun /\ row'[i].temp = row[i].temp /\ row'[i].undo = row[i].undo
         \/ \E r \in Rollbacks :
              /\ MarkItem(r) /\ Item(r) = i /\ SameMove(i)
              /\ \/ job[r].pc = "mark_done" /\ job'[r].pc = "log_done" /\ row'[i].undo = "done"
                 \/ job[r].pc = "mark_failed" /\ job'[r].pc = "log_failed" /\ row'[i].undo = "failed"
         \/ \E r \in Rollbacks :
              /\ RecoverRollback(r) /\ seen.item = i /\ SameMove(i)
              /\ row'[i].undo = IF seen.state = "rolled_back" THEN "done" ELSE "failed"
<1> USE Basics
<1>0. TypeOK /\ row \in [Items -> RowType] /\ Item(Exec) = job[Exec].at
  BY DEF Types, TypeOK, Item
<1>1. CASE UNCHANGED vars
  BY <1>1 DEF vars, store
<1>2. CASE ExecutorStep
  <2>1. CASE BeginItem
    <3>1. row' = [row EXCEPT ![job[Exec].at] = [NoRow EXCEPT !.state = "pending"]]
      BY <1>0, <2>1 DEF BeginItem
    <3> QED
      BY <1>0, <2>1, <3>1 DEF NoRow
  <2>2. CASE JournalStage
    <3>1. row' = [row EXCEPT ![job[Exec].at].temp = "stage"]
      BY <1>0, <2>2 DEF JournalStage
    <3>2. CASE job[Exec].at = i
      <4>1. row'[i] = [row[i] EXCEPT !.temp = "stage"]
        BY <1>0, <3>1, <3>2
      <4>2. row[i] \in RowType
        BY <1>0
      <4> QED
        BY <2>2, <3>2, <4>1, <4>2 DEF RowType
    <3>3. CASE job[Exec].at # i
      BY <1>0, <3>1, <3>3
    <3> QED
      BY <3>2, <3>3
  <2>3. CASE RecordItem \/ FailItem \/ StrandItem
    <3>1. \E state \in {"renamed", "quarantined", "failed"}, temp \in {"none", "stage", "target"} :
            EndItem(state, temp)
      BY <2>3 DEF RecordItem, FailItem, StrandItem
    <3>2. \E state \in {"renamed", "quarantined", "failed"}, temp \in {"none", "stage", "target"} :
            row' = [row EXCEPT ![job[Exec].at] = [state |-> state, temp |-> temp, undo |-> "none"]]
      BY <1>0, <3>1 DEF EndItem
    <3> QED
      BY <1>0, <2>3, <3>2
  <2>4. CASE ~BeginItem /\ ~JournalStage /\ ~(RecordItem \/ FailItem \/ StrandItem)
    BY <1>2, <2>4 DEF ExecutorStep, StartRun, CheckItem, RenameItem, StageItem, SecondRename, RestoreSource,
       RenameStep, SaveManifest, Mover, MoverRename, MoverOpen, MoverOwn, MoverFill, MoverDrop, MoverFails,
       MarkAvailable, QuarantineFailed, FinishRun, RenameFails, Keeping, store
  <2> QED
    BY <2>1, <2>2, <2>3, <2>4
<1>3. ASSUME NEW r \in Rollbacks, RollbackStep(r)
      PROVE  \/ row'[i] = row[i]
             \/ /\ MarkItem(r) /\ Item(r) = i /\ SameMove(i)
                /\ \/ job[r].pc = "mark_done" /\ job'[r].pc = "log_done" /\ row'[i].undo = "done"
                   \/ job[r].pc = "mark_failed" /\ job'[r].pc = "log_failed" /\ row'[i].undo = "failed"
  <2>1. CASE MarkItem(r)
    <3>1. PICK undo \in {"done", "failed"} :
            /\ row' = [row EXCEPT ![Item(r)].undo = undo]
            /\ \/ job[r].pc = "mark_done" /\ Goto(r, "log_done") /\ undo = "done"
               \/ job[r].pc = "mark_failed" /\ Goto(r, "log_failed") /\ undo = "failed"
      BY <2>1 DEF MarkItem, At
    <3>2. \/ job[r].pc = "mark_done" /\ job'[r].pc = "log_done" /\ undo = "done"
          \/ job[r].pc = "mark_failed" /\ job'[r].pc = "log_failed" /\ undo = "failed"
      BY <1>0, <3>1, GotoFacts DEF Steps
    <3>3. CASE Item(r) = i
      <4>1. row'[i] = [row[i] EXCEPT !.undo = undo]
        BY <1>0, <3>1, <3>3
      <4>2. row[i] \in RowType
        BY <1>0
      <4> QED
        BY <2>1, <3>2, <3>3, <4>1, <4>2 DEF RowType, SameMove
    <3>4. CASE Item(r) # i
      BY <1>0, <3>1, <3>4
    <3> QED
      BY <3>3, <3>4
  <2>2. CASE ~MarkItem(r)
    BY ZenonT(40), <1>3, <2>2 DEF RollbackStep, StartRollback, BeginUndo, JournalRestore, Mover, MoverRename, MoverOpen,
       MoverOwn, MoverFill, MoverDrop, MoverFails, ShutilRename, ShutilOpen, ShutilCopy, ShutilDrop,
       ShutilFails, SyncManifest, LogUndo, FinishRollback, FinishSource, Keeping, store
  <2> QED
    BY <2>1, <2>2
<1>4. CASE RecoverRun
  BY <1>4, RecoverRunFacts
<1>5. ASSUME NEW r \in Rollbacks, RecoverRollback(r)
      PROVE  \/ row'[i] = row[i]
             \/ /\ RecoverRollback(r) /\ seen.item = i /\ SameMove(i)
                /\ row'[i].undo = IF seen.state = "rolled_back" THEN "done" ELSE "failed"
  <2>1. /\ row'[i].temp = row[i].temp /\ row'[i].state = row[i].state
        /\ row'[i].undo = IF i = seen.item THEN IF seen.state = "rolled_back" THEN "done" ELSE "failed"
                          ELSE row[i].undo
        /\ row' \in [Items -> RowType]
    BY <1>5, RecoverRollbackFacts DEF StoreType
  <2>2. CASE seen.item = i
    BY <1>5, <2>1, <2>2 DEF SameMove
  <2>3. CASE seen.item # i
    <3>1. row[i] \in RowType /\ row'[i] \in RowType
      BY <1>0, <2>1
    <3> QED
      BY <2>1, <2>3, <3>1 DEF RowType
  <2> QED
    BY <2>2, <2>3
<1>6. CASE \E p \in Workers : WriteFails(p)
  BY <1>6, FaultFacts
<1> QED
  BY <1>1, <1>2, <1>3, <1>4, <1>5, <1>6, StepCases, CrashFacts, RestartFacts, RecoveredFacts, LookFs,
     EnvironmentFs

\* Who moves a worker on.
LEMMA WorkerStep ==
  ASSUME Types, [Next]_vars
  PROVE  /\ job'[Exec] = job[Exec] \/ ExecutorStep \/ WriteFails(Exec) \/ Crash
         /\ \A r \in Rollbacks : job'[r] = job[r] \/ RollbackStep(r) \/ WriteFails(r) \/ Crash
<1> USE Basics
<1>1. CASE UNCHANGED vars
  BY <1>1 DEF vars
<1> QED
  BY <1>1, StepCases, ExecutorKeeps, RollbackKeeps, FaultFacts, RestartFacts, RecoveredFacts, LookFs,
     RecoverRunFacts, RecoverRollbackFacts, EnvironmentFs

---------------------------------------------------------------------------
\* A file under the temporary name of a case-only rename can be found by its row.

\* The executor is at item i.
BusyAt(i) == job[Exec].pc \in BusySteps /\ job[Exec].at = i

\* The row of a file that has its temporary name says so, and the executor is either
\* past it or about to move it on; and a case-only rename finds the row it wrote.
StageOK ==
  \A i \in Items :
    /\ Present(i, "stage") =>
         /\ row[i].temp = "stage" /\ row[i].state \in {"pending", "failed"} /\ ~Before(i)
         /\ BusyAt(i) => job[Exec].pc \in {"second", "home", "stranded"}
    /\ Ops[i] = "case" /\ BusyAt(i) =>
         /\ row[i].state \in {"pending", "failed"}
         /\ job[Exec].pc \in {"stage", "second", "home", "stranded"} => row[i].temp = "stage"

LEMMA InitStage == Init => StageOK
<1> SUFFICES ASSUME Init, NEW i \in Items PROVE fs[i]["stage"] = "none" /\ job[Exec].pc = "idle"
  BY DEF StageOK, Present, BusyAt, BusySteps
<1>1. fs[i]["stage"] = "none"
  BY DEF Init, Places
<1> QED
  BY <1>1, Basics DEF Init, Idle

\* A file comes under the temporary name by the first rename only.
LEMMA StageStep ==
  ASSUME Types, [Next]_vars, NEW i \in Items, fs'[i]["stage"] # "none"
  PROVE  \/ fs[i]["stage"] # "none" /\ ~(job[Exec].at = i /\ (SecondRename \/ RestoreSource))
         \/ /\ fs[i]["stage"] = "none" /\ job[Exec].at = i /\ job'[Exec].at = i
            /\ job[Exec].pc = "stage" /\ job'[Exec].pc = "second" /\ ExecutorStep /\ Ops[i] = "case"
<1> USE Basics
<1>0. "stage" \in Places /\ "origin" \in Places
  BY DEF Places
<1>1. CASE Renames /\ job[Exec].at = i
  <2>1. /\ RenameOutcome /\ job'[Exec].at = i /\ ExecutorStep
        /\ Ops[i] = IF job[Exec].pc = "rename" THEN "rename" ELSE "case"
    BY <1>1, RenameFs DEF Renames, ExecutorStep
  <2>2. SecondRename \/ RestoreSource => job[Exec].pc \in {"second", "home"}
    BY DEF SecondRename, RestoreSource, RenameStep, At
  <2> QED
    BY <1>0, <1>1, <2>1, <2>2 DEF RenameOutcome
<1>2. CASE ~(Renames /\ job[Exec].at = i)
  <2>1. ~(job[Exec].at = i /\ (SecondRename \/ RestoreSource))
    BY <1>2 DEF Renames
  <2>2. ASSUME NEW r \in Rollbacks, Shutil(r), Item(r) = i
        PROVE  fs[i]["stage"] # "none"
    BY <1>0, <2>2, ShutilFs, UndoPlaces DEF ShutilOutcome
  <2>3. ASSUME NEW p \in Workers, Mover(p), Item(p) = i
        PROVE  fs[i]["stage"] # "none"
    BY <2>3, MoverFs
  <2>4. Untouched(i, "stage") => fs[i]["stage"] # "none"
    BY DEF Untouched
  <2> QED
    BY <1>2, <2>1, <2>2, <2>3, <2>4, FilesStep
<1> QED
  BY <1>1, <1>2

\* Without a failing write, the executor does with a case-only rename what it says.
LEMMA CaseStep ==
  ASSUME Types, ~WriteFails(Exec), [Next]_vars, NEW i \in Items, BusyAt(i)'
  PROVE  \/ job[Exec] = job'[Exec]
         \/ BeginItem /\ job[Exec].at = i /\ job'[Exec].pc = "check"
         \/ /\ BusyAt(i)
            /\ ~(BeginItem \/ RecordItem \/ FailItem \/ StrandItem)
            /\ job[Exec].pc = "second" => job'[Exec].pc = "home" \/ SecondRename
            /\ job[Exec].pc = "home" => job'[Exec].pc = "stranded" \/ RestoreSource
            /\ job[Exec].pc # "stranded"
            /\ job'[Exec].pc \in {"stage", "second", "home", "stranded"} =>
                 JournalStage \/ job[Exec].pc \in {"stage", "second", "home", "stranded"}
<1> USE Basics DEF At
<1>0. /\ TypeOK /\ job[Exec].at \in Nat /\ job'[Exec].pc \in BusySteps /\ job'[Exec].at = i
      /\ Item(Exec) = job[Exec].at
  BY DEF Types, TypeOK, BusyAt, Item
<1>1. ~Crash
  BY <1>0, CrashFacts DEF BusySteps
<1>2. CASE ExecutorStep
  <2>1. CASE StartRun \/ RecordItem \/ FailItem \/ StrandItem \/ FinishRun
    <3>1. Goto(Exec, "item") \/ NextItem(Exec) \/ Goto(Exec, "done")
      BY <2>1 DEF StartRun, RecordItem, FailItem, StrandItem, EndItem, FinishRun
    <3> QED
      BY <1>0, <3>1, GotoFacts, NextItemFacts DEF BusySteps, Steps
  <2>2. CASE BeginItem
    BY <1>0, <2>2, GotoFacts DEF BeginItem, Steps
  <2>3. CASE CheckItem
    <3>1. Ops[job[Exec].at] \in {"rename", "case", "quarantine"}
      BY <2>3 DEF CheckItem, Types, Shape, ExecShape, BusySteps
    <3>2. \E s \in {"rename", "journal", "manifest", "fail"} : Goto(Exec, s)
      BY <2>3, <3>1 DEF CheckItem, Item
    <3>3. job[Exec].pc = "check"
      BY <2>3 DEF CheckItem
    <3> QED
      BY <1>0, <3>2, <3>3, GotoFacts DEF BusyAt, BusySteps, Steps, BeginItem, RecordItem, FailItem, StrandItem
  <2>4. CASE JournalStage
    BY <1>0, <2>4, GotoFacts DEF JournalStage, BusyAt, BusySteps, Steps, BeginItem, RecordItem, FailItem,
       StrandItem
  <2>5. CASE Renames
    BY <1>0, <2>5, RenameFs DEF Renames, RenameOutcome, BusyAt, BusySteps, BeginItem, RecordItem, FailItem,
       StrandItem, RenameItem, StageItem, SecondRename, RestoreSource, RenameStep
  <2>6. CASE SaveManifest
    <3>1. job[Exec].pc = "manifest" /\ job'[Exec].pc = "move" /\ job'[Exec].at = job[Exec].at
      BY <1>0, <2>6 DEF SaveManifest, TypeOK
    <3> QED
      BY <1>0, <3>1 DEF BusyAt, BusySteps, BeginItem, RecordItem, FailItem, StrandItem
  <2>7. CASE Mover(Exec)
    BY <1>0, <2>7, MoverFs DEF MoverOutcome, BusyAt, BusySteps, BeginItem, RecordItem, FailItem, StrandItem,
       MoveSteps, CopySteps
  <2>8. CASE MarkAvailable \/ QuarantineFailed
    BY <1>0, <2>8, GotoFacts DEF MarkAvailable, QuarantineFailed, BusyAt, BusySteps, Steps, BeginItem,
       RecordItem, FailItem, StrandItem
  <2>9. CASE RenameFails
    BY <1>0, <2>9, GotoFacts DEF RenameFails, BusyAt, BusySteps, Steps, BeginItem, RecordItem, FailItem,
       StrandItem
  <2> QED
    BY <1>2, <2>1, <2>2, <2>3, <2>4, <2>5, <2>6, <2>7, <2>8, <2>9 DEF ExecutorStep, Renames
<1> QED
  BY <1>1, <1>2, WorkerStep

LEMMA StepStage == faults' = 0 /\ Types /\ StageOK /\ [Next]_vars => StageOK'
<1> SUFFICES ASSUME faults' = 0, Types, StageOK, [Next]_vars, NEW i \in Items
             PROVE  /\ fs'[i]["stage"] # "none" =>
                         /\ row'[i].temp = "stage" /\ row'[i].state \in {"pending", "failed"}
                         /\ ~Before(i)'
                         /\ BusyAt(i)' => job'[Exec].pc \in {"second", "home", "stranded"}
                    /\ Ops[i] = "case" /\ BusyAt(i)' =>
                         /\ row'[i].state \in {"pending", "failed"}
                         /\ job'[Exec].pc \in {"stage", "second", "home", "stranded"} =>
                              row'[i].temp = "stage"
  BY DEF StageOK, Present
<1> USE Basics
<1>0. /\ fs[i]["stage"] # "none" =>
           /\ row[i].temp = "stage" /\ row[i].state \in {"pending", "failed"} /\ ~Before(i)
           /\ BusyAt(i) => job[Exec].pc \in {"second", "home", "stranded"}
      /\ Ops[i] = "case" /\ BusyAt(i) =>
           /\ row[i].state \in {"pending", "failed"}
           /\ job[Exec].pc \in {"stage", "second", "home", "stranded"} => row[i].temp = "stage"
      /\ row[i].temp = "stage" => Ops[i] = "case"
  BY DEF StageOK, Present, Types, Shape, RowShape
<1>9. ~WriteFails(Exec)
  <2>1. faults \in Nat
    BY ConstantsAssumption DEF ConstantsAssumption, Types, TypeOK
  <2> QED
    BY <2>1 DEF WriteFails
\* The restart leaves a row pending or failed, or judges a quarantine.
<1>1. ASSUME RecoverRun, Ops[i] = "case", row[i].state \in {"pending", "failed"}
      PROVE  row'[i].state \in {"pending", "failed"}
  <2>1. seen.state # "pending" => Ops[seen.item] = "quarantine"
    BY <1>1, RecoverRunFacts DEF Types, Shape, SeenShape
  <2> QED
    BY <1>1, <2>1, RecoverRunFacts
<1>2. CASE Ops[i] = "case" /\ BusyAt(i)'
  <2>1. CASE BeginItem /\ job[Exec].at = i
    <3>1. Before(i) /\ job[Exec].pc = "item" /\ job'[Exec].pc = "check"
      BY <2>1, Basics, GotoFacts DEF Before, BeginItem, At, Types, Steps, Exec
    <3>2. fs'[i]["stage"] = "none"
      BY <1>0, <3>1, StageStep
    <3>3. row'[i].state = "pending"
      BY <2>1, <3>1 DEF BeginItem, Item, NoRow, Types, TypeOK
    <3> QED
      BY <3>1, <3>2, <3>3
  <2>2. CASE ~(BeginItem /\ job[Exec].at = i)
    <3>1. BusyAt(i)
      BY <1>9, <1>2, <2>2, CaseStep DEF BusyAt
    <3>2. ~((RecordItem \/ FailItem \/ StrandItem) /\ job[Exec].at = i)
      <4> SUFFICES ASSUME RecordItem \/ FailItem \/ StrandItem, job[Exec].at = i PROVE FALSE
        OBVIOUS
      <4>1. NextItem(Exec)
        BY DEF RecordItem, FailItem, StrandItem, EndItem
      <4>2. job'[Exec].pc = "item"
        BY <4>1, NextItemFacts DEF Types
      <4> QED
        BY <1>2, <4>2 DEF BusyAt, BusySteps
    <3>3. row'[i].state \in {"pending", "failed"}
      BY <1>0, <1>1, <1>2, <2>2, <3>1, <3>2, RowStep DEF SameMove
    <3>4. row'[i].temp = IF JournalStage THEN "stage" ELSE row[i].temp
      <4>1. JournalStage => row'[i].temp = "stage"
        BY <3>1 DEF JournalStage, BusyAt, Item, Types, TypeOK, RowType
      <4> QED
        BY <2>2, <3>2, <4>1, RowStep DEF SameMove
    <3>5. job'[Exec].pc \in {"stage", "second", "home", "stranded"} => row'[i].temp = "stage"
      BY <1>9, <1>0, <1>2, <2>2, <3>1, <3>4, CaseStep
    <3>6. fs'[i]["stage"] # "none" => job'[Exec].pc \in {"second", "home", "stranded"}
      <4>1. CASE fs[i]["stage"] # "none" /\ ~(SecondRename \/ RestoreSource)
        BY <1>9, <1>0, <1>2, <2>2, <3>1, <4>1, CaseStep
      <4> QED
        BY <3>1, <4>1, StageStep DEF BusyAt
    <3>7. job'[Exec].pc \in {"second", "home", "stranded"} => ~Before(i)'
      BY <1>2 DEF BusyAt, Before, Types, TypeOK
    <3> QED
      BY <3>3, <3>5, <3>6, <3>7
  <2> QED
    BY <1>2, <2>1, <2>2
<1>3. CASE ~BusyAt(i)' /\ fs'[i]["stage"] # "none"
  <2>1. fs[i]["stage"] # "none"
    BY <1>3, StageStep DEF BusyAt, BusySteps
  <2>2. ~Before(i)' /\ Ops[i] = "case"
    BY <1>0, <2>1, BeforeOnlyShrinks
  <2>3. row'[i].temp = "stage" /\ row'[i].state \in {"pending", "failed"}
    <3>1. ~(BeginItem /\ job[Exec].at = i) /\ ~(JournalStage /\ job[Exec].at = i)
      BY <1>0, <2>1 DEF BeginItem, JournalStage, At, Before
    <3>2. CASE (RecordItem \/ FailItem \/ StrandItem) /\ job[Exec].at = i
      <4>1. job[Exec].pc \in BusySteps
        BY <3>2 DEF RecordItem, FailItem, StrandItem, At, BusySteps
      <4>2. job[Exec].pc = "stranded"
        BY <1>0, <2>1, <3>2, <4>1 DEF BusyAt, RecordItem, FailItem, StrandItem, At
      <4>3. EndItem("failed", "stage")
        BY <3>2, <4>2 DEF RecordItem, FailItem, StrandItem, At
      <4>4. row' = [row EXCEPT ![i] = [state |-> "failed", temp |-> "stage", undo |-> "none"]]
        BY <3>2, <4>3 DEF EndItem, Item
      <4> QED
        BY <4>4 DEF Types, TypeOK
    <3> QED
      BY <1>0, <1>1, <2>1, <2>2, <3>1, <3>2, RowStep DEF SameMove
  <2> QED
    BY <1>3, <2>2, <2>3
<1>4. CASE Ops[i] # "case" /\ BusyAt(i)' /\ fs'[i]["stage"] # "none"
  BY <1>0, <1>4, StageStep
<1> QED
  BY <1>2, <1>3, <1>4

(* A file left under the temporary name of a case-only rename can be found through its
   row, after any crash and any error of the file system: the row is written before the
   rename and keeps the name until a later rename took the file away.  A write of the
   row that fails while the file is stranded makes the handler forget the name, so the
   theorem is about behaviours in which no write fails (executor.py:219, 234, 340-354). *)
THEOREM StageIsReachable == Spec /\ [](faults = 0) => []StageReachable
<1>1. Init => Types /\ StageOK
  BY InitTypes, InitStage
<1>2. Types /\ StageOK /\ (faults = 0)' /\ [Next]_vars => Types' /\ StageOK'
  BY StepTypes, StepStage
<1>3. StageOK => StageReachable
  BY DEF StageOK, StageReachable, Kept, Present
<1> QED
  BY <1>1, <1>2, <1>3, PTL DEF Spec

---------------------------------------------------------------------------
\* What the rows say while no second instance writes into them.

\* A restart works alone; the executor's item is pending, and was not rolled back; and
\* what a rollback has to undo is not pending.
Alone ==
  joins = 0 =>
    /\ app \in {"up", "down", "boot"} /\ (crashes = 0 => app = "up")
    /\ app # "boot" => seen = NotSeen
    /\ app # "up" => \A p \in Workers : job[p].pc \in {"idle", "done"}
    /\ \A i \in Items : BusyAt(i) => row[i].state = "pending" /\ row[i].undo # "done"
    /\ \A r \in Rollbacks : \A k, i : OwedFor(r, k, i) => row[i].state \notin {"none", "pending"}

LEMMA JoinsGrow == ASSUME Types, [Next]_vars, joins' = 0 PROVE joins = 0 /\ ~SecondInstance
<1>1. joins \in Nat
  BY ConstantsAssumption DEF ConstantsAssumption, Types, TypeOK
<1>2. CASE UNCHANGED vars
  BY <1>1, <1>2 DEF vars, budget, SecondInstance
<1>3. ~SecondInstance
  BY <1>1 DEF SecondInstance
<1> QED
  BY <1>1, <1>2, <1>3, StepCases, ExecutorKeeps, RollbackKeeps, FaultFacts, CrashFacts, RestartFacts,
     RecoveredFacts, LookFs, RecoverRunFacts, RecoverRollbackFacts, EnvironmentFs

\* The executor begins with an item once.
LEMMA BusyStep ==
  ASSUME Types, [Next]_vars, NEW i \in Items, BusyAt(i)'
  PROVE  /\ BusyAt(i) \/ (BeginItem /\ job[Exec].at = i)
         /\ ~((RecordItem \/ FailItem \/ StrandItem) /\ job[Exec].at = i)
<1> USE Basics
<1>1. ~((RecordItem \/ FailItem \/ StrandItem) /\ job[Exec].at = i)
  <2> SUFFICES ASSUME RecordItem \/ FailItem \/ StrandItem, job[Exec].at = i PROVE FALSE
    OBVIOUS
  <2>1. NextItem(Exec)
    BY DEF RecordItem, FailItem, StrandItem, EndItem
  <2>2. job'[Exec].pc = "item"
    BY <2>1, NextItemFacts DEF Types
  <2> QED
    BY <2>2 DEF BusyAt, BusySteps
<1>2. CASE WriteFails(Exec)
  <2>1. FaultOutcome(Exec) /\ job'[Exec].at = job[Exec].at
    BY <1>2, FaultFacts
  <2> QED
    BY <1>1, <2>1 DEF FaultOutcome, BusyAt, BusySteps
<1>3. CASE ~WriteFails(Exec)
  BY <1>1, <1>3, CaseStep DEF BusyAt
<1> QED
  BY <1>2, <1>3

\* A worker acts while the application serves.
LEMMA WorkersServe ==
  ASSUME Types, ExecutorStep \/ (\E r \in Rollbacks : RollbackStep(r)) \/ (\E p \in Workers : WriteFails(p)),
         app \in {"up", "down", "boot"}
  PROVE  app = "up"
BY ExecutorKeeps, RollbackKeeps, FaultFacts DEF Serving

LEMMA InitAlone == Init => Alone
<1> SUFFICES ASSUME Init
             PROVE  /\ app = "up" /\ seen = NotSeen
                    /\ \A i \in Items : ~BusyAt(i) /\ \A r \in Rollbacks : \A k : ~OwedFor(r, k, i)
                    /\ \A r \in Rollbacks : \A k, i : ~OwedFor(r, k, i)
  BY DEF Alone
<1>1. \A p \in Workers : job[p].pc = "idle"
  BY DEF Init, Idle
<1> QED
  BY <1>1, Basics DEF Init, BusyAt, BusySteps, OwedFor, Owed

LEMMA StepAlone == Types /\ BeforeOK /\ Alone /\ [Next]_vars => Alone'
<1> SUFFICES ASSUME Types, BeforeOK, Alone, [Next]_vars, joins' = 0
             PROVE  /\ app' \in {"up", "down", "boot"} /\ (crashes' = 0 => app' = "up")
                    /\ app' # "boot" => seen' = NotSeen
                    /\ app' # "up" => \A p \in Workers : job'[p].pc \in {"idle", "done"}
                    /\ \A i \in Items : BusyAt(i)' => row'[i].state = "pending" /\ row'[i].undo # "done"
                    /\ \A r \in Rollbacks : \A k, i : OwedFor(r, k, i)' => row'[i].state \notin {"none", "pending"}
  BY DEF Alone
<1> USE Basics
<1>0. joins = 0 /\ ~SecondInstance
  BY JoinsGrow
<1>1. /\ app \in {"up", "down", "boot"} /\ (crashes = 0 => app = "up")
      /\ app # "boot" => seen = NotSeen
      /\ app # "up" => \A p \in Workers : job[p].pc \in {"idle", "done"}
      /\ \A i \in Items : BusyAt(i) => row[i].state = "pending" /\ row[i].undo # "done"
      /\ \A r \in Rollbacks : \A k, i : OwedFor(r, k, i) => row[i].state \notin {"none", "pending"}
  BY <1>0 DEF Alone
<1>2. Repairing => app = "boot"
  BY <1>1 DEF Repairing
<1>3. /\ app' \in {"up", "down", "boot"} /\ (crashes' = 0 => app' = "up")
      /\ app' # "boot" => seen' = NotSeen
      /\ app' # "up" => \A p \in Workers : job'[p].pc \in {"idle", "done"}
  <2>1. CASE UNCHANGED vars
    BY <1>1, <2>1 DEF vars, budget
  <2>2. CASE ExecutorStep \/ (\E r \in Rollbacks : RollbackStep(r)) \/ (\E p \in Workers : WriteFails(p))
    <3>1. app = "up"
      BY <1>1, <2>2, WorkersServe
    <3>2. app' = app /\ seen' = seen
      BY <2>2, ExecutorKeeps, RollbackKeeps, FaultFacts
    <3> QED
      BY <1>1, <3>1, <3>2
  <2>3. CASE Crash
    BY <2>3, CrashFacts
  <2>4. CASE Restart
    BY <1>0, <1>1, <2>4, RestartFacts
  <2>5. CASE Recovered
    BY <2>5, RecoveredFacts, NotSeenTyped DEF Types, Shape, SeenShape
  <2>6. CASE LookAtRun \/ \E r \in Rollbacks : LookAtRollback(r)
    BY <1>1, <1>2, <2>6, LookFs, LookAtRunFacts, LookAtRollbackFacts
  <2>7. CASE RecoverRun \/ \E r \in Rollbacks : RecoverRollback(r)
    BY <1>1, <1>2, <2>7, RecoverRunFacts, RecoverRollbackFacts
  <2>8. CASE \E i \in Items, p \in Places : Stranger(i, p) \/ Edit(i, p)
    BY <1>1, <2>8, EnvironmentFs
  <2> QED
    BY <1>0, <2>1, <2>2, <2>3, <2>4, <2>5, <2>6, <2>7, <2>8, StepCases
\* The restart finds no worker at work.
<1>4. ASSUME NEW i \in Items, RecoverRun \/ \E r \in Rollbacks : RecoverRollback(r)
      PROVE  ~BusyAt(i) /\ job' = job
  <2>1. Repairing /\ job' = job
    BY <1>4, RecoverRunFacts, RecoverRollbackFacts
  <2> QED
    BY <1>1, <1>2, <2>1 DEF BusyAt, BusySteps
<1>5. ASSUME NEW i \in Items, BusyAt(i)'
      PROVE  row'[i].state = "pending" /\ row'[i].undo # "done"
  <2>1. BusyAt(i) \/ (BeginItem /\ job[Exec].at = i)
    BY <1>5, BusyStep
  <2>2. ~RecoverRun /\ ~\E r \in Rollbacks : RecoverRollback(r)
    <3>1. job' = job => ~BeginItem
      BY GotoFacts DEF BeginItem, At, Types, Steps
    <3> QED
      BY <1>4, <2>1, <3>1
  <2>3. CASE BeginItem /\ job[Exec].at = i
    <3>1. row'[i] = [NoRow EXCEPT !.state = "pending"]
      BY <2>3 DEF BeginItem, Item, Types, TypeOK
    <3> QED
      BY <3>1 DEF NoRow
  <2>4. CASE BusyAt(i) /\ ~(BeginItem /\ job[Exec].at = i)
    <3>1. row[i].state = "pending" /\ row[i].undo # "done"
      BY <1>1, <2>4
    <3>2. ASSUME NEW r \in Rollbacks, job[r].pc = "mark_done", Item(r) = i
          PROVE  FALSE
      <4>1. /\ job[r].at \in DOMAIN job[r].plan /\ job[r].at \in Nat /\ Item(r) = job[r].plan[job[r].at].item
            /\ ~job[r].plan[job[r].at].blocked
        BY <3>2, UndoPlaces DEF UndoSteps, Types, Shape, RollbackShape
      <4>2. job[r].at <= job[r].at
        BY <4>1
      <4>3. OwedFor(r, job[r].at, i)
        BY <3>2, <4>1, <4>2 DEF OwedFor, Owed
      <4> QED
        BY <1>1, <3>1, <4>3
    <3>3. ~((RecordItem \/ FailItem \/ StrandItem) /\ job[Exec].at = i)
      BY <1>5, BusyStep
    <3> QED
      BY <2>2, <2>4, <3>1, <3>2, <3>3, RowStep DEF SameMove
  <2> QED
    BY <2>1, <2>3, <2>4
<1>6. ASSUME NEW r \in Rollbacks, NEW k, NEW i, OwedFor(r, k, i)'
      PROVE  row'[i].state \notin {"none", "pending"}
  <2>1. i \in Items
    <3>1. job'[r].plan \in Seq(Step)
      BY StepTypes DEF Types, TypeOK
    <3>2. job'[r].plan[k] \in Step /\ job'[r].plan[k].item = i
      BY <1>6, <3>1 DEF OwedFor, Owed
    <3> QED
      BY <3>2 DEF Step
  <2>2. CASE StartRollback(r) /\ ~Preview(i).blocked
    <3>1. row' = row /\ Rollbackable(i)
      BY <2>2, StartFacts DEF Preview
    <3> QED
      BY <3>1 DEF Rollbackable, Succeeded
  <2>3. CASE OwedFor(r, k, i)
    <3>1. row[i].state \notin {"none", "pending"}
      BY <1>1, <2>3
    <3>2. ~(BeginItem /\ job[Exec].at = i)
      <4>1. BeginItem /\ job[Exec].at = i => Before(i)
        BY DEF BeginItem, At, Before
      <4> QED
        BY <2>1, <2>3, <4>1 DEF BeforeOK, OwedFor, Owed
    <3>3. RecoverRun => row'[i].state \in {row[i].state, "quarantined", "failed"}
      BY <2>1, RecoverRunFacts DEF Types, Shape, SeenShape
    <3> QED
      BY <2>1, <3>1, <3>2, <3>3, RowStep DEF SameMove
  <2> QED
    BY <1>6, <2>2, <2>3, OwedOnlyShrinks
<1> QED
  BY <1>3, <1>5, <1>6

---------------------------------------------------------------------------
\* What a rollback writes into its own history.

\* What one step of a rollback does to its position and to its entries.
LogOutcome(r) ==
  LET old == rb[r].rows
      new == rb'[r].rows IN
  \/ /\ job[r].pc \in UndoSteps \cup FailSteps /\ job'[r].pc \in UndoSteps \cup FailSteps
     /\ new = old /\ job'[r].at = job[r].at /\ job'[r].plan = job[r].plan
  \/ job[r].pc = "idle" /\ job'[r].pc = "item" /\ job'[r].at = 1 /\ new = old
  \/ /\ job[r].pc = "item" /\ job'[r].pc \in UndoSteps \cup FailSteps
     /\ job'[r].at = job[r].at /\ job'[r].plan = job[r].plan
     /\ Len(new) = Len(old) + 1 /\ (\A k \in 1..Len(old) : new[k] = old[k])
     /\ Len(old) + 1 = job[r].at =>
          new[job[r].at].item = job[r].plan[job[r].at].item /\ new[job[r].at].state = "pending"
     /\ new[Len(old) + 1].state = "pending"
  \/ /\ job[r].pc \in {"log_done", "log_failed"} /\ job'[r].pc = "item"
     /\ job'[r].at = job[r].at + 1 /\ job'[r].plan = job[r].plan
     /\ Len(new) = Len(old)
     /\ \A k \in 1..Len(old) :
          /\ new[k].item = old[k].item
          /\ new[k].state = IF k # job[r].at THEN old[k].state
                            ELSE IF job[r].pc = "log_done" THEN "rolled_back" ELSE "rollback_failed"
  \/ job[r].pc \in {"item", "source"} /\ job'[r].pc \in {"source", "done"} /\ new = old

LEMMA LogStep ==
  ASSUME Types, NEW r \in Rollbacks, RollbackStep(r)
  PROVE  LogOutcome(r)
<1> USE Basics DEF At
<1>0. /\ TypeOK /\ r \in Workers /\ r # Exec /\ rb \in [Rollbacks -> RollbackType]
      /\ rb[r].rows \in Seq(Entry) /\ job[r].at \in Nat
  BY DEF Types, TypeOK, RollbackType
<1>1. CASE StartRollback(r)
  BY <1>1, StartFacts DEF LogOutcome
<1>2. CASE BeginUndo(r)
  <2> DEFINE step == job[r].plan[job[r].at]
             e == [item |-> step.item, from |-> step.from, state |-> "pending"]
  <2>1. step \in Step
    <3>1. job[r].plan \in Seq(Step)
      BY <1>0 DEF TypeOK
    <3> QED
      BY <1>2, <3>1, UndoEntered
  <2>2. e \in Entry /\ e.item = step.item /\ e.state = "pending"
    BY <2>1 DEF Step, Entry, EntryStates
  <2>3. rb' = [rb EXCEPT ![r].rows = Append(rb[r].rows, e)]
    BY ZenonT(40), <1>2 DEF BeginUndo
  <2>4. job[r].pc = "item" /\ \E s \in {"mark_failed", "rpath", "shmove"} : Goto(r, s)
    BY ZenonT(40), <1>2 DEF BeginUndo
  <2> HIDE DEF e, step
  <2>5. Append(rb[r].rows, e) \in Seq(Entry)
    BY <1>0, <2>2
  <2>6. rb'[r].rows = Append(rb[r].rows, e)
    BY <1>0, <2>3, <2>5, RowsTyped
  <2>7. /\ Len(rb'[r].rows) = Len(rb[r].rows) + 1 /\ rb'[r].rows[Len(rb[r].rows) + 1] = e
        /\ \A k \in 1..Len(rb[r].rows) : rb'[r].rows[k] = rb[r].rows[k]
    BY <1>0, <2>2, <2>6
  <2>8. /\ job'[r].pc \in UndoSteps \cup FailSteps
        /\ job'[r].at = job[r].at /\ job'[r].plan = job[r].plan
    BY <1>0, <2>4, GotoFacts DEF Steps, UndoSteps, FailSteps, ShutilSteps
  <2> QED
    BY SMTT(20), <2>2, <2>4, <2>7, <2>8 DEF LogOutcome, step
<1>3. CASE LogUndo(r)
  <2> DEFINE s == IF job[r].pc = "log_done" THEN "rolled_back" ELSE "rollback_failed"
             rows == SetState(rb[r].rows, job[r].at, s)
  <2>1. job[r].pc \in {"log_done", "log_failed"} /\ rb' = [rb EXCEPT ![r].rows = rows] /\ NextItem(r)
    BY ZenonT(40), <1>3 DEF LogUndo, SetState
  <2>2. job'[r].pc = "item" /\ job'[r].at = job[r].at + 1 /\ job'[r].plan = job[r].plan
    BY <1>0, <2>1, NextItemFacts
  <2>3. s \in EntryStates
    BY DEF EntryStates
  <2>4. s = IF job[r].pc = "log_done" THEN "rolled_back" ELSE "rollback_failed"
    OBVIOUS
  <2> HIDE DEF s
  <2>5. /\ rows \in Seq(Entry) /\ DOMAIN rows = DOMAIN rb[r].rows /\ Len(rows) = Len(rb[r].rows)
        /\ \A j \in DOMAIN rb[r].rows : /\ rows[j].item = rb[r].rows[j].item
                                        /\ rows[j].state = IF j = job[r].at THEN s ELSE rb[r].rows[j].state
    BY <1>0, <2>3, StateSet
  <2> HIDE DEF rows
  <2>6. rb'[r].rows = rows
    BY <1>0, <2>1, <2>5, RowsTyped
  <2>7. DOMAIN rb[r].rows = 1..Len(rb[r].rows)
    BY <1>0
  <2> QED
    BY SMTT(20), <2>1, <2>2, <2>4, <2>5, <2>6, <2>7 DEF LogOutcome
<1>4. CASE FinishRollback(r) \/ FinishSource(r)
  <2>1. job[r].pc \in {"item", "source"} /\ (Goto(r, "source") \/ Goto(r, "done"))
    BY <1>4 DEF FinishRollback, FinishSource
  <2>2. rb'[r].rows = rb[r].rows
    BY <1>0, <1>4 DEF FinishRollback, FinishSource, Keeping, RollbackType
  <2> QED
    BY <1>0, <2>1, <2>2, GotoFacts DEF Steps, LogOutcome
<1>5. CASE Mover(r)
  <2>1. rb' = rb
    BY <1>5 DEF Mover, MoverRename, MoverOpen, MoverOwn, MoverFill, MoverDrop, MoverFails, Keeping, store
  <2>2. job[r].pc \in MoveSteps /\ job'[r].pc \in MoveSteps
        /\ job'[r].at = job[r].at /\ job'[r].plan = job[r].plan
    BY <1>5, MoverFs DEF MoverOutcome, MoveSteps, CopySteps
  <2> QED
    BY <2>1, <2>2 DEF LogOutcome, UndoSteps
<1>6. CASE Shutil(r)
  <2>1. rb' = rb
    BY <1>6 DEF Shutil, ShutilRename, ShutilOpen, ShutilCopy, ShutilDrop, ShutilFails, Keeping, store
  <2>2. job[r].pc \in ShutilSteps /\ job'[r].pc \in ShutilSteps \cup {"mark_done", "mark_failed"}
        /\ job'[r].at = job[r].at /\ job'[r].plan = job[r].plan
    BY <1>6, ShutilFs DEF ShutilOutcome, ShutilSteps
  <2> QED
    BY <2>1, <2>2 DEF LogOutcome, UndoSteps, FailSteps
<1>7. CASE JournalRestore(r) \/ SyncManifest(r) \/ MarkItem(r)
  <2>1. rb' = rb /\ job[r].pc \in UndoSteps \cup FailSteps
    BY <1>7 DEF JournalRestore, SyncManifest, MarkItem, Keeping, store, UndoSteps, FailSteps, MoveSteps
  <2>2. \E s \in {"erred", "move", "mark_done", "mark_failed", "log_done", "log_failed"} : Goto(r, s)
    BY <1>7 DEF JournalRestore, SyncManifest, MarkItem
  <2>3. /\ job'[r].pc \in UndoSteps \cup FailSteps
        /\ job'[r].at = job[r].at /\ job'[r].plan = job[r].plan
    BY <1>0, <2>2, GotoFacts DEF Steps, UndoSteps, FailSteps, MoveSteps, CopySteps
  <2> QED
    BY <2>1, <2>3 DEF LogOutcome
<1> QED
  BY <1>1, <1>2, <1>3, <1>4, <1>5, <1>6, <1>7 DEF RollbackStep, Shutil

\* Only a rollback itself, and a restart, write the entries of a rollback.
LEMMA EntriesStep ==
  ASSUME Types, [Next]_vars, NEW r \in Rollbacks
  PROVE  rb'[r].rows = rb[r].rows \/ RollbackStep(r) \/ RecoverRollback(r)
<1>1. CASE UNCHANGED vars
  BY <1>1 DEF vars, store
<1>2. ASSUME NEW q \in Rollbacks, RollbackStep(q)
      PROVE  rb'[r].rows = rb[r].rows \/ RollbackStep(r)
  BY <1>2, RollbackKeeps
<1>3. ASSUME NEW q \in Rollbacks, RecoverRollback(q)
      PROVE  rb'[r].rows = rb[r].rows \/ RecoverRollback(r)
  BY <1>3, RecoverRollbackFacts
<1> QED
  BY <1>1, <1>2, <1>3, StepCases, ExecutorKeeps, FaultFacts, CrashFacts, RestartFacts, RecoveredFacts,
     LookFs, RecoverRunFacts, EnvironmentFs

\* Nothing has crashed and no second instance has started.
Fresh == crashes = 0 /\ joins = 0

\* The entries of a rollback are as many as the items it came to, and the last one is
\* of the item it is at.
Logged ==
  Fresh => \A r \in Rollbacks :
    /\ job[r].pc = "idle" => Len(rb[r].rows) = 0
    /\ job[r].pc = "item" => Len(rb[r].rows) = job[r].at - 1
    /\ job[r].pc \in UndoSteps \cup FailSteps =>
         /\ Len(rb[r].rows) = job[r].at
         /\ rb[r].rows[job[r].at].item = Item(r) /\ rb[r].rows[job[r].at].state = "pending"

LEMMA FreshBefore ==
  ASSUME Types, Alone, [Next]_vars, Fresh'
  PROVE  Fresh /\ ~Crash /\ ~RecoverRun /\ \A r \in Rollbacks : ~RecoverRollback(r)
<1>1. joins = 0
  BY JoinsGrow DEF Fresh
<1>2. ~Crash
  BY CrashFacts DEF Fresh
<1>3. UNCHANGED vars => crashes' = crashes
  BY DEF vars, budget
<1>4. crashes = 0
  BY <1>2, <1>3, StepCases, ExecutorKeeps, RollbackKeeps, FaultFacts, RestartFacts, RecoveredFacts, LookFs,
     RecoverRunFacts, RecoverRollbackFacts, EnvironmentFs DEF Fresh
<1>5. app = "up"
  BY <1>1, <1>4 DEF Alone
<1>6. ~RecoverRun /\ \A r \in Rollbacks : ~RecoverRollback(r)
  BY <1>5, RecoverRunFacts, RecoverRollbackFacts DEF Repairing
<1> QED
  BY <1>1, <1>2, <1>4, <1>6 DEF Fresh

LEMMA InitLogged == Init => Logged
<1> SUFFICES ASSUME Init, NEW r \in Rollbacks PROVE job[r].pc = "idle" /\ rb[r].rows = <<>>
  BY DEF Logged, UndoSteps, FailSteps, MoveSteps, CopySteps, ShutilSteps
<1> QED
  BY Basics DEF Init, Idle

LEMMA StepLogged == Types /\ Alone /\ Logged /\ [Next]_vars => Logged'
<1> SUFFICES ASSUME Types, Alone, Logged, [Next]_vars, Fresh', NEW r \in Rollbacks
             PROVE  /\ job'[r].pc = "idle" => Len(rb'[r].rows) = 0
                    /\ job'[r].pc = "item" => Len(rb'[r].rows) = job'[r].at - 1
                    /\ job'[r].pc \in UndoSteps \cup FailSteps =>
                         /\ Len(rb'[r].rows) = job'[r].at
                         /\ rb'[r].rows[job'[r].at].item = Item(r)'
                         /\ rb'[r].rows[job'[r].at].state = "pending"
  BY DEF Logged
<1> USE Basics
<1>0. /\ Fresh /\ ~Crash /\ ~RecoverRollback(r) /\ r # Exec
      /\ job[r].at \in Nat /\ rb[r].rows \in Seq(Entry) /\ Len(rb[r].rows) \in Nat
  <2>1. rb[r].rows \in Seq(Entry)
    BY DEF Types, TypeOK
  <2> QED
    BY SMTT(20), <2>1, FreshBefore DEF Types, TypeOK
<1>1. /\ job[r].pc = "idle" => Len(rb[r].rows) = 0
      /\ job[r].pc = "item" => Len(rb[r].rows) = job[r].at - 1
      /\ job[r].pc \in UndoSteps \cup FailSteps =>
           /\ Len(rb[r].rows) = job[r].at
           /\ rb[r].rows[job[r].at].item = Item(r) /\ rb[r].rows[job[r].at].state = "pending"
  BY <1>0 DEF Logged
<1>2. Item(r) = job[r].plan[job[r].at].item /\ Item(r)' = job'[r].plan[job'[r].at].item
  BY <1>0 DEF Item
<1>3. CASE job'[r] = job[r] /\ rb'[r].rows = rb[r].rows
  BY <1>1, <1>2, <1>3
<1>4. CASE RollbackStep(r)
  <2>1. LogOutcome(r)
    BY <1>4, LogStep
  <2>2. {"idle", "item", "source", "done"} \cap (UndoSteps \cup FailSteps) = {}
        /\ {"log_done", "log_failed"} \subseteq UndoSteps \cup FailSteps
    BY DEF UndoSteps, FailSteps, MoveSteps, CopySteps, ShutilSteps
  <2>3. CASE /\ job[r].pc \in UndoSteps \cup FailSteps /\ job'[r].pc \in UndoSteps \cup FailSteps
             /\ rb'[r].rows = rb[r].rows /\ job'[r].at = job[r].at /\ job'[r].plan = job[r].plan
    BY <1>1, <1>2, <2>2, <2>3
  <2>4. CASE /\ job[r].pc = "idle" /\ job'[r].pc = "item" /\ job'[r].at = 1 /\ rb'[r].rows = rb[r].rows
    BY <1>1, <2>2, <2>4
  <2>5. CASE job[r].pc = "item" /\ job'[r].pc \in UndoSteps \cup FailSteps
    <3>1. job[r].at \in Nat /\ Len(rb[r].rows) = job[r].at - 1
      BY <1>0, <1>1, <2>5
    <3>2. job[r].pc \notin (UndoSteps \cup FailSteps) \cup {"log_done", "log_failed"}
      BY <2>2, <2>5
    <3>3. /\ job'[r].at = job[r].at /\ job'[r].plan = job[r].plan
          /\ Len(rb'[r].rows) = Len(rb[r].rows) + 1
          /\ Len(rb[r].rows) + 1 = job[r].at =>
               /\ rb'[r].rows[job[r].at].item = job[r].plan[job[r].at].item
               /\ rb'[r].rows[job[r].at].state = "pending"
      BY <2>1, <2>2, <2>5, <3>2 DEF LogOutcome
    <3>4. job'[r].pc \notin {"idle", "item"}
      BY <2>2, <2>5
    <3> QED
      BY <1>2, <3>1, <3>3, <3>4
  <2>6. CASE job[r].pc \in {"log_done", "log_failed"} /\ job'[r].pc = "item"
    <3>1. /\ job'[r].at = job[r].at + 1 /\ Len(rb'[r].rows) = Len(rb[r].rows)
      BY <2>1, <2>2, <2>6 DEF LogOutcome
    <3> QED
      BY <1>0, <1>1, <2>2, <2>6, <3>1
  <2>7. CASE job'[r].pc \in {"source", "done"}
    BY <2>2, <2>7
  <2> QED
    BY ZenonT(40), <2>1, <2>3, <2>4, <2>5, <2>6, <2>7 DEF LogOutcome
<1>5. CASE WriteFails(r)
  <2>1. /\ FaultOutcome(r) /\ job'[r].at = job[r].at /\ job'[r].plan = job[r].plan /\ rb' = rb
    BY <1>5, FaultFacts
  <2>2. job'[r].pc \notin {"idle", "item"}
        /\ (job'[r].pc \in UndoSteps \cup FailSteps => job[r].pc \in UndoSteps \cup FailSteps)
    BY <1>0, <2>1 DEF FaultOutcome, UndoSteps, FailSteps, MoveSteps, CopySteps, ShutilSteps
  <2> QED
    BY <1>1, <1>2, <2>1, <2>2
<1>6. CASE job'[r] = job[r] /\ ~RollbackStep(r)
  BY <1>0, <1>3, <1>6, EntriesStep
<1> QED
  BY <1>0, <1>4, <1>5, <1>6, WorkerStep

---------------------------------------------------------------------------
\* What is called rolled back is home.

\* What a rollback is at is owed.
LEMMA UndoOwed ==
  ASSUME Types, NEW r \in Rollbacks, job[r].pc \in UndoSteps
  PROVE  Item(r) \in Items /\ OwedFor(r, job[r].at, Item(r))
<1>1. /\ job[r].at \in DOMAIN job[r].plan /\ job[r].at \in Nat
      /\ Item(r) = job[r].plan[job[r].at].item /\ Item(r) \in Items
      /\ ~job[r].plan[job[r].at].blocked
  BY UndoPlaces DEF Types, Shape, RollbackShape
<1>2. job[r].pc \notin {"idle", "done", "dead"} /\ job[r].at <= job[r].at
  BY <1>1 DEF UndoSteps, MoveSteps, CopySteps, ShutilSteps
<1> QED
  BY <1>1, <1>2 DEF OwedFor, Owed

\* A rollback that has brought the file of item i home, and has still to write it down.
Claiming(r, i) == job[r].pc \in {"moved", "mark_done", "log_done"} /\ Item(r) = i

\* A rollback comes to claim an item by moving it.
LEMMA ClaimStep ==
  ASSUME Types, [Next]_vars, NEW r \in Rollbacks, NEW i \in Items, Claiming(r, i)'
  PROVE  /\ Item(r) = i /\ job'[r].at = job[r].at /\ job'[r].plan = job[r].plan
         /\ \/ Claiming(r, i)
            \/ Mover(r) /\ job'[r].pc = "moved"
            \/ Shutil(r) /\ job'[r].pc = "mark_done"
<1> USE Basics DEF At
<1>0. /\ TypeOK /\ r \in Workers /\ r # Exec
      /\ job'[r].pc \in {"moved", "mark_done", "log_done"} /\ Item(r)' = i
  BY DEF Types, Claiming
<1>1. ASSUME job'[r].at = job[r].at, job'[r].plan = job[r].plan
      PROVE  Item(r) = i
  BY <1>0, <1>1 DEF Item
<1>2. CASE job'[r] = job[r]
  BY <1>0, <1>1, <1>2 DEF Claiming
<1>3. CASE WriteFails(r)
  BY <1>0, <1>1, <1>3, FaultFacts DEF FaultOutcome, FailSteps, Claiming
<1>4. ~Crash
  BY <1>0, CrashFacts
<1>5. CASE RollbackStep(r)
  <2>1. CASE Mover(r)
    BY <1>0, <1>1, <2>1, MoverFs DEF MoverOutcome
  <2>2. CASE Shutil(r)
    BY <1>0, <1>1, <2>2, ShutilFs DEF ShutilOutcome
  <2>3. CASE SyncManifest(r) \/ MarkItem(r)
    <3>1. \/ job[r].pc = "moved" /\ Goto(r, "mark_done")
          \/ job[r].pc = "erred" /\ Goto(r, "mark_failed")
          \/ job[r].pc = "mark_done" /\ Goto(r, "log_done")
          \/ job[r].pc = "mark_failed" /\ Goto(r, "log_failed")
      BY <2>3 DEF SyncManifest, MarkItem
    <3> QED
      BY <1>0, <1>1, <3>1, GotoFacts DEF Claiming, Steps
  <2>4. CASE StartRollback(r) \/ LogUndo(r)
    BY <1>0, <2>4, StartFacts, NextItemFacts DEF LogUndo
  <2>5. CASE BeginUndo(r) \/ JournalRestore(r) \/ FinishRollback(r) \/ FinishSource(r)
    <3>1. \E s \in {"mark_failed", "rpath", "shmove", "erred", "move", "source", "done"} : Goto(r, s)
      BY ZenonT(40), <2>5 DEF BeginUndo, JournalRestore, FinishRollback, FinishSource
    <3> QED
      BY <1>0, <3>1, GotoFacts DEF Steps
  <2> QED
    BY <1>5, <2>1, <2>2, <2>3, <2>4, <2>5 DEF RollbackStep, Shutil
<1> QED
  BY <1>2, <1>3, <1>4, <1>5, WorkerStep

\* An entry is called rolled back by the rollback that claimed its item.
LEMMA CreditStep ==
  ASSUME Types, Alone, Logged, [Next]_vars, Fresh', NEW r \in Rollbacks, NEW k \in DOMAIN rb'[r].rows,
         rb'[r].rows[k].state = "rolled_back"
  PROVE  /\ k \in DOMAIN rb[r].rows /\ rb[r].rows[k].item = rb'[r].rows[k].item
         /\ \/ rb[r].rows[k].state = "rolled_back"
            \/ /\ job[r].pc = "log_done" /\ k = job[r].at /\ Item(r) = rb'[r].rows[k].item
               /\ RollbackStep(r)
<1> USE Basics
<1>0. /\ Fresh /\ ~RecoverRollback(r) /\ Types'
      /\ rb[r].rows \in Seq(Entry) /\ rb'[r].rows \in Seq(Entry)
  <2>1. Types'
    BY StepTypes
  <2>2. rb[r].rows \in Seq(Entry)
    BY DEF Types, TypeOK
  <2>3. rb'[r].rows \in Seq(Entry)
    BY <2>1 DEF Types, TypeOK
  <2> QED
    BY <2>1, <2>2, <2>3, FreshBefore
<1>1. /\ DOMAIN rb[r].rows = 1..Len(rb[r].rows) /\ Len(rb[r].rows) \in Nat
      /\ DOMAIN rb'[r].rows = 1..Len(rb'[r].rows) /\ Len(rb'[r].rows) \in Nat
  BY <1>0
<1>2. CASE rb'[r].rows = rb[r].rows
  BY <1>2
<1>3. CASE RollbackStep(r) /\ rb'[r].rows # rb[r].rows
  <2>1. LogOutcome(r)
    BY <1>3, LogStep
  <2>2. CASE Len(rb'[r].rows) = Len(rb[r].rows) + 1
    <3>1. /\ \A j \in 1..Len(rb[r].rows) : rb'[r].rows[j] = rb[r].rows[j]
          /\ rb'[r].rows[Len(rb[r].rows) + 1].state = "pending"
      BY <1>1, <1>3, <2>1, <2>2 DEF LogOutcome
    <3> QED
      BY SMTT(20), <1>1, <2>2, <3>1
  <2>3. CASE Len(rb'[r].rows) # Len(rb[r].rows) + 1
    <3>1. /\ job[r].pc \in {"log_done", "log_failed"} /\ Len(rb'[r].rows) = Len(rb[r].rows)
          /\ \A j \in 1..Len(rb[r].rows) :
               /\ rb'[r].rows[j].item = rb[r].rows[j].item
               /\ rb'[r].rows[j].state = IF j # job[r].at THEN rb[r].rows[j].state
                                         ELSE IF job[r].pc = "log_done" THEN "rolled_back" ELSE "rollback_failed"
      BY ZenonT(40), <1>1, <1>3, <2>1, <2>3 DEF LogOutcome
    <3>2. rb[r].rows[job[r].at].item = Item(r)
      BY <1>0, <3>1 DEF Logged, UndoSteps, FailSteps
    <3> QED
      BY <1>1, <1>3, <3>1, <3>2
  <2> QED
    BY <2>2, <2>3
<1> QED
  BY <1>0, <1>2, <1>3, EntriesStep

\* A rollback of this process has called item i rolled back.
Credited(i) ==
  Fresh /\ \E r \in Rollbacks : \E k \in DOMAIN rb[r].rows :
             rb[r].rows[k].item = i /\ rb[r].rows[k].state = "rolled_back"

Restored(i) == row[i].undo = "done" \/ Credited(i) \/ \E r \in Rollbacks : Claiming(r, i)

\* Of a renamed item that is home only the rows have still to be written.
OnlyMarked(i) ==
  Ops[i] # "quarantine" =>
    \A r \in Rollbacks : \A k : OwedFor(r, k, i) =>
      k = job[r].at /\ job[r].pc \in {"mark_done", "log_done"} \cup FailSteps

Settled(i) ==
  /\ Kept(i, "origin") /\ (\A p \in Workers : ~Dropping(p, i)) /\ OnlyMarked(i)
  /\ Credited(i) => ~Before(i) /\ row[i].state \notin {"none", "pending"}

SeenHome ==
  seen.by \in Rollbacks /\ seen.state = "rolled_back" => seen.item # 0 /\ Kept(seen.item, "origin")

Home == joins = 0 => SeenHome /\ \A i \in Items : Restored(i) => Settled(i)

LEMMA SettledNotBusy ==
  ASSUME Types, Alone, joins = 0, NEW i \in Items, Restored(i), Settled(i)
  PROVE  ~BusyAt(i)
<1>1. CASE row[i].undo = "done"
  BY <1>1 DEF Alone
<1>2. CASE Credited(i)
  BY <1>2 DEF Alone, Settled
<1>3. ASSUME NEW r \in Rollbacks, Claiming(r, i)
      PROVE  ~BusyAt(i)
  <2>1. OwedFor(r, job[r].at, i)
    BY <1>3, UndoOwed DEF Claiming, UndoSteps, MoveSteps
  <2> QED
    BY <2>1 DEF Alone
<1> QED
  BY <1>1, <1>2, <1>3 DEF Restored

\* Nothing takes a file away again that is home: a mover finds its target taken, and
\* a rename of it is not due.
HomeAgain(i) == Kept(i, "origin") /\ (\A p \in Workers : ~Dropping(p, i)) /\ OnlyMarked(i)

LEMMA HomeStays ==
  ASSUME Types, [Next]_vars, NEW i \in Items, ~BusyAt(i), HomeAgain(i)
  PROVE  /\ \A r \in Rollbacks : /\ ~(Mover(r) /\ Item(r) = i /\ job'[r].pc = "moved")
                                 /\ ~(Shutil(r) /\ Item(r) = i)
         /\ Kept(i, "origin")' /\ (\A p \in Workers : ~Dropping(p, i)') /\ OnlyMarked(i)'
<1> USE Basics
<1>0. /\ ~BusyAt(i) /\ fs[i]["origin"] \in {"own", "edited"}
      /\ \A p \in Workers : ~Dropping(p, i)
      /\ OnlyMarked(i) /\ Item(Exec) = job[Exec].at
  BY DEF HomeAgain, Kept, Item
<1>1. ASSUME NEW p \in Workers, Mover(p), Item(p) = i
      PROVE  fs'[i]["origin"] = fs[i]["origin"] /\ job'[p].pc \notin {"moved", "drop"}
  <2>1. job[p].pc \in MoveSteps /\ MoverOutcome(p)
    BY <1>1, MoverFs
  <2>2. p # Exec
    BY <1>0, <1>1, <2>1 DEF BusyAt, BusySteps, MoveSteps, CopySteps
  <2>3. From(p) = "target" /\ To(p) = "origin"
    BY <2>1, <2>2, MoverPlaces
  <2>4. job[p].pc # "drop"
    BY <1>0, <1>1 DEF Dropping
  <2> QED
    BY <1>0, <1>1, <2>1, <2>3, <2>4 DEF MoverOutcome
<1>2. ~(Renames /\ job[Exec].at = i)
  <2>1. Renames => job[Exec].pc \in BusySteps
    BY RenameFs DEF Renames, RenameOutcome, BusySteps
  <2> QED
    BY <1>0, <2>1 DEF BusyAt
<1>3. ASSUME NEW r \in Rollbacks, Shutil(r), Item(r) = i
      PROVE  FALSE
  <2>1. job[r].pc \in ShutilSteps
    BY <1>3, ShutilFs
  <2>2. OwedFor(r, job[r].at, i) /\ Ops[i] # "quarantine"
    <3>1. OwedFor(r, job[r].at, i)
      BY <1>3, <2>1, UndoOwed DEF UndoSteps
    <3>2. Ops[i] # "quarantine"
      BY <2>1, <3>1 DEF Types, Shape, RollbackShape, OwedFor
    <3> QED
      BY <3>1, <3>2
  <2> QED
    BY <1>0, <2>1, <2>2 DEF OnlyMarked, ShutilSteps, FailSteps
<1>4. Kept(i, "origin")'
  <2>1. CASE \E p \in Workers : Mover(p) /\ Item(p) = i
    BY <1>0, <1>1, <2>1 DEF Kept
  <2>2. CASE Untouched(i, "origin")
    BY <1>0, <2>2 DEF Untouched, Kept
  <2> QED
    BY <1>2, <1>3, <2>1, <2>2, FilesStep
<1>5. ASSUME NEW p \in Workers, Dropping(p, i)'
      PROVE  FALSE
  <2>1. job'[p].pc = "drop" /\ Item(p)' = i
    BY <1>5 DEF Dropping
  <2>2. CASE Mover(p)
    BY <1>1, <2>1, <2>2, MoverSteady
  <2>3. CASE job'[p] = job[p]
    BY <1>0, <2>1, <2>3 DEF Dropping, Item
  <2> QED
    BY <2>1, <2>2, <2>3, DropStep
<1>6. ASSUME Ops[i] # "quarantine", NEW r \in Rollbacks, NEW k, OwedFor(r, k, i)'
      PROVE  k = job'[r].at /\ job'[r].pc \in {"mark_done", "log_done"} \cup FailSteps
  <2>1. ~(StartRollback(r) /\ ~Preview(i).blocked)
    BY <1>0 DEF Preview, Exists, Present
  <2>2. OwedFor(r, k, i) /\ job'[r].plan = job[r].plan /\ k \in Nat /\ job[r].at <= job'[r].at
    BY <1>6, <2>1, OwedOnlyShrinks
  <2>3. k = job[r].at /\ job[r].pc \in {"mark_done", "log_done"} \cup FailSteps
    BY <1>0, <1>6, <2>2 DEF OnlyMarked
  <2>4. job'[r].at \in Nat /\ job'[r].at <= k
    <3>1. Types'
      BY StepTypes
    <3> QED
      BY <1>6, <3>1 DEF OwedFor, Owed, Types, TypeOK
  <2>5. job'[r].at = k
    BY <2>2, <2>3, <2>4
  <2>6. Phase(r, k) = job[r].pc /\ Phase(r, k)' = job'[r].pc
    BY <2>3, <2>5 DEF Phase
  <2>7. ~Shutil(r)
    BY <2>3, ShutilFs DEF ShutilSteps, FailSteps
  <2> QED
    BY <1>6, <2>2, <2>3, <2>5, <2>6, <2>7, PhaseStep DEF FailSteps
<1>7. OnlyMarked(i)'
  BY <1>6 DEF OnlyMarked
<1> QED
  BY <1>1, <1>3, <1>4, <1>5, <1>7

LEMMA SettledStays ==
  ASSUME Types, Alone, [Next]_vars, joins = 0, NEW i \in Items, Restored(i), Settled(i)
  PROVE  /\ \A r \in Rollbacks : /\ ~(Mover(r) /\ Item(r) = i /\ job'[r].pc = "moved")
                                 /\ ~(Shutil(r) /\ Item(r) = i)
         /\ Kept(i, "origin")' /\ (\A p \in Workers : ~Dropping(p, i)') /\ OnlyMarked(i)'
<1>1. ~BusyAt(i)
  BY SettledNotBusy
<1>2. HomeAgain(i)
  BY DEF Settled, HomeAgain
<1> QED
  BY <1>1, <1>2, HomeStays

\* A rollback that moves a file brings it home whole.
LEMMA MovedHome ==
  ASSUME Types, QuarantineKept, RenamedKept, RestoresApart, [Next]_vars,
         NEW r \in Rollbacks, NEW i \in Items, Item(r) = i,
         \/ Mover(r) /\ job'[r].pc = "moved"
         \/ Shutil(r) /\ job'[r].pc = "mark_done"
  PROVE  Kept(i, "origin")' /\ (\A p \in Workers : ~Dropping(p, i)') /\ OnlyMarked(i)'
<1> USE Basics
<1>1. CASE Mover(r) /\ job'[r].pc = "moved"
  <2>1. /\ job[r].pc \in MoveSteps /\ MoverOutcome(r)
        /\ \A q \in Workers : q # r => job'[q] = job[q]
    BY <1>1, MoverFs
  <2>2. From(r) = "target" /\ To(r) = "origin" /\ Ops[i] = "quarantine"
    BY <2>1, MoverPlaces
  <2>3. /\ Kept(i, "origin") \/ Kept(i, "target")
        /\ \A p \in Workers : Dropping(p, i) =>
             /\ Kept(i, "origin") /\ Kept(i, "target")
             /\ \A q \in Workers : Dropping(q, i) => q = p
    BY <2>2 DEF QuarantineKept
  <2>4. Kept(i, "origin")'
    BY <1>1, <2>1, <2>2, <2>3 DEF MoverOutcome, Kept, Dropping
  <2>5. ASSUME NEW p \in Workers, Dropping(p, i)'
        PROVE  FALSE
    <3>1. p # r /\ job'[p] = job[p]
      BY <1>1, <2>1, <2>5 DEF Dropping
    <3>2. Dropping(p, i)
      BY <2>5, <3>1 DEF Dropping, Item
    <3>3. job[r].pc # "drop"
      BY <2>3, <3>1, <3>2 DEF Dropping
    <3> QED
      BY <1>1, <2>1, <2>2, <2>3, <3>2, <3>3 DEF MoverOutcome, Kept
  <2>6. OnlyMarked(i)'
    BY <2>2 DEF OnlyMarked
  <2> QED
    BY <2>4, <2>5, <2>6
<1>2. CASE Shutil(r) /\ job'[r].pc = "mark_done"
  <2>1. /\ job[r].pc \in ShutilSteps /\ ShutilOutcome(r)
        /\ job'[r].at = job[r].at /\ job'[r].plan = job[r].plan
        /\ \A q \in Workers : q # r => job'[q] = job[q]
    BY <1>2, ShutilFs
  <2>2. OwedFor(r, job[r].at, i) /\ job[r].at \in DOMAIN job[r].plan /\ From(r) = job[r].plan[job[r].at].from
    BY <2>1, UndoOwed, UndoPlaces DEF UndoSteps
  <2>3. Ops[i] # "quarantine"
    BY <2>1, <2>2 DEF Types, Shape, RollbackShape, OwedFor
  <2>4. Safe(fs[i], From(r), job[r].pc)
    BY <2>2, <2>3 DEF RenamedKept, Phase
  <2>5. From(r) # "origin"
    BY <2>1, UndoPlaces DEF UndoSteps
  <2>6. Kept(i, "origin")'
    BY <1>2, <2>1, <2>4, <2>5 DEF Safe, ShutilOutcome, ShutilSteps, Kept
  <2>7. ASSUME NEW p \in Workers, Dropping(p, i)'
        PROVE  FALSE
    <3>1. Types'
      BY StepTypes
    <3>2. Ops[Item(p)'] = "quarantine"
      <4>1. job'[p].pc \in MoveSteps
        BY <2>7 DEF Dropping, MoveSteps, CopySteps
      <4>2. CASE p = Exec
        <5>1. ExecShape'
          BY <3>1 DEF Types, Shape
        <5> QED
          BY <4>1, <4>2, <5>1 DEF ExecShape, Item
      <4>3. CASE p # Exec
        <5>1. RollbackShape(p)'
          BY <3>1, <4>3, Basics DEF Types, Shape
        <5> QED
          BY <4>1, <4>3, <5>1 DEF RollbackShape, Item
      <4> QED
        BY <4>2, <4>3
    <3> QED
      BY <2>3, <2>7, <3>2 DEF Dropping
  <2>8. ASSUME NEW q \in Rollbacks, NEW k, OwedFor(q, k, i)'
        PROVE  k = job'[q].at /\ job'[q].pc = "mark_done"
    <3>1. ~StartRollback(q)
      <4>1. CASE q = r
        BY <2>1, <4>1, StartFacts DEF ShutilSteps
      <4>2. CASE q # r
        BY <2>1, <4>2, StartFacts
      <4> QED
        BY <4>1, <4>2
    <3>2. OwedFor(q, k, i)
      BY <2>8, <3>1, OwedOnlyShrinks
    <3>3. q = r /\ k = job[r].at
      BY <2>2, <2>3, <3>2 DEF RestoresApart, OwedFor, Owed
    <3> QED
      BY <1>2, <2>1, <3>3
  <2>9. OnlyMarked(i)'
    BY <2>8 DEF OnlyMarked
  <2> QED
    BY <2>6, <2>7, <2>9
<1> QED
  BY <1>1, <1>2

\* What a rollback called rolled back is behind the executor, and its row is written.
LEMMA CreditedPast ==
  ASSUME Types, BeforeOK, Alone, Logged, Home, [Next]_vars, NEW i \in Items, Credited(i)'
  PROVE  Restored(i) /\ ~Before(i)' /\ row'[i].state \notin {"none", "pending"}
<1> USE Basics
<1>0. Fresh' /\ Fresh /\ ~RecoverRun /\ joins = 0
  BY FreshBefore DEF Credited, Fresh
<1>1. PICK r \in Rollbacks : \E k \in DOMAIN rb'[r].rows :
        rb'[r].rows[k].item = i /\ rb'[r].rows[k].state = "rolled_back"
  BY DEF Credited
<1>2. PICK k \in DOMAIN rb'[r].rows : rb'[r].rows[k].item = i /\ rb'[r].rows[k].state = "rolled_back"
  BY <1>1
<1>3. \/ Credited(i)
      \/ job[r].pc = "log_done" /\ Item(r) = i
  BY <1>0, <1>2, CreditStep DEF Credited
<1>4. Restored(i) /\ ~Before(i) /\ row[i].state \notin {"none", "pending"}
  <2>1. CASE Credited(i)
    BY <1>0, <2>1 DEF Restored, Home, Settled
  <2>2. CASE job[r].pc = "log_done" /\ Item(r) = i
    <3>1. OwedFor(r, job[r].at, i)
      BY <2>2, UndoOwed DEF UndoSteps
    <3>2. ~Before(i) /\ row[i].state \notin {"none", "pending"}
      BY <1>0, <3>1 DEF BeforeOK, Alone, OwedFor, Owed
    <3> QED
      BY <2>2, <3>2 DEF Restored, Claiming
  <2> QED
    BY <1>3, <2>1, <2>2
<1>5. ~Before(i)'
  BY <1>4, BeforeOnlyShrinks
<1>6. ~(BeginItem /\ job[Exec].at = i)
  BY <1>4 DEF BeginItem, At, Before
<1> QED
  BY <1>0, <1>4, <1>5, <1>6, RowStep DEF SameMove

LEMMA InitHome == Init => Home
<1> SUFFICES ASSUME Init PROVE seen.by = "none" /\ \A i \in Items : ~Restored(i)
  BY Basics DEF Home, SeenHome
<1>1. \A r \in Rollbacks : job[r].pc = "idle" /\ rb[r].rows = <<>>
  BY Basics DEF Init, Idle
<1>2. (\A i \in Items : row[i].undo = "none") /\ seen.by = "none"
  BY DEF Init, NoRow, NotSeen
<1> QED
  BY <1>1, <1>2 DEF Restored, Credited, Claiming

LEMMA StepSeenHome ==
  Types /\ Alone /\ Home /\ [Next]_vars /\ joins' = 0 => SeenHome'
<1> SUFFICES ASSUME Types, Alone, Home, [Next]_vars, joins' = 0, seen'.by \in Rollbacks,
                    seen'.state = "rolled_back"
             PROVE  seen'.item # 0 /\ fs'[seen'.item]["origin"] \in {"own", "edited"}
  BY DEF SeenHome, Kept
<1> USE Basics
<1>0. joins = 0
  BY JoinsGrow
<1>1. ASSUME NEW r \in Rollbacks, LookAtRollback(r)
      PROVE  seen'.item # 0 /\ fs'[seen'.item]["origin"] \in {"own", "edited"}
  <2>1. /\ seen' \in Seen /\ seen'.item # 0 /\ fs[seen'.item]["origin"] = "own"
    BY <1>1, LookAtRollbackFacts
  <2>2. seen'.item \in Items
    BY <2>1 DEF Seen
  <2>3. fs'[seen'.item]["origin"] = fs[seen'.item]["origin"]
    BY <1>1, <2>2, LookFs
  <2> QED
    BY <2>1, <2>3
<1>2. CASE seen' = seen
  <2>1. seen.by \in Rollbacks /\ seen \in Seen /\ seen.item # 0 /\ fs[seen.item]["origin"] \in {"own", "edited"}
    BY <1>0, <1>2 DEF Home, SeenHome, Kept, Types, TypeOK
  <2>2. seen.item \in Items
    BY <2>1 DEF Seen
  <2>3. app = "boot" /\ \A p \in Workers : job[p].pc \in {"idle", "done"}
    BY <1>0, <2>1, NotSeenTyped DEF Alone
  <2>4. /\ ~\E p \in Workers : Mover(p)
        /\ ~Renames /\ ~\E r \in Rollbacks : Shutil(r)
    <3>1. Renames => job[Exec].pc \notin {"idle", "done"}
      BY RenameFs DEF Renames, RenameOutcome
    <3> QED
      BY <2>3, <3>1, MoverFs, ShutilFs DEF MoveSteps, CopySteps, ShutilSteps
  <2>5. Untouched(seen.item, "origin")
    BY <2>2, <2>4, FilesStep
  <2> QED
    BY <1>2, <2>1, <2>5 DEF Untouched
<1>3. \/ seen' = seen \/ seen'.by \in {"none", Exec}
      \/ \E r \in Rollbacks : LookAtRollback(r)
  <2>1. CASE UNCHANGED vars
    BY <2>1 DEF vars
  <2> QED
    BY <2>1, StepCases, ExecutorKeeps, RollbackKeeps, FaultFacts, CrashFacts, RestartFacts, RecoveredFacts,
       LookAtRunFacts, RecoverRunFacts, RecoverRollbackFacts, EnvironmentFs, NotSeenTyped
<1> QED
  BY <1>1, <1>2, <1>3

LEMMA StepHome ==
  Types /\ BeforeOK /\ QuarantineKept /\ RenamedKept /\ RestoresApart /\ Alone /\ Logged /\ Home /\ [Next]_vars
    => Home'
<1> SUFFICES ASSUME Types, BeforeOK, QuarantineKept, RenamedKept, RestoresApart, Alone, Logged, Home,
                    [Next]_vars, joins' = 0, NEW i \in Items, Restored(i)'
             PROVE  Settled(i)'
  BY StepSeenHome DEF Home
<1> USE Basics
<1>0. joins = 0 /\ SeenHome /\ (Restored(i) => Settled(i))
  BY JoinsGrow DEF Home
<1>1. Credited(i)' => Restored(i) /\ ~Before(i)' /\ row'[i].state \notin {"none", "pending"}
  BY CreditedPast
<1>2. CASE Restored(i)
  BY <1>0, <1>1, <1>2, SettledStays DEF Settled
<1>3. CASE ~Restored(i) /\ \E r \in Rollbacks : Claiming(r, i)'
  <2>1. PICK r \in Rollbacks : Claiming(r, i)'
    BY <1>3
  <2>2. /\ Item(r) = i
        /\ \/ Mover(r) /\ job'[r].pc = "moved"
           \/ Shutil(r) /\ job'[r].pc = "mark_done"
    BY <1>3, <2>1, ClaimStep DEF Restored
  <2>3. Kept(i, "origin")' /\ (\A p \in Workers : ~Dropping(p, i)') /\ OnlyMarked(i)'
    BY <2>2, MovedHome
  <2> QED
    BY <1>1, <1>3, <2>3 DEF Settled
<1>4. CASE ~Restored(i) /\ row'[i].undo = "done"
  <2>1. row[i].undo # "done" /\ \A r \in Rollbacks : ~(job[r].pc = "mark_done" /\ Item(r) = i)
    BY <1>4 DEF Restored, Claiming
  <2>2. PICK r \in Rollbacks : RecoverRollback(r) /\ seen.item = i /\ seen.state = "rolled_back"
    BY <1>4, <2>1, RowStep
  <2>3. Repairing /\ seen.by = r /\ fs' = fs /\ job' = job
    BY <2>2, RecoverRollbackFacts
  <2>4. app = "boot" /\ \A p \in Workers : job[p].pc \in {"idle", "done"}
    BY <1>0, <2>3 DEF Alone, Repairing
  <2>5. Kept(i, "origin")'
    BY <1>0, <2>2, <2>3 DEF SeenHome, Kept
  <2>6. (\A p \in Workers : ~Dropping(p, i)') /\ OnlyMarked(i)'
    BY <2>3, <2>4 DEF Dropping, OnlyMarked, OwedFor, Owed
  <2> QED
    BY <1>1, <1>4, <2>5, <2>6 DEF Settled
<1>5. Restored(i) \/ row'[i].undo = "done" \/ \E r \in Rollbacks : Claiming(r, i)'
  BY <1>1 DEF Restored
<1> QED
  BY <1>2, <1>3, <1>4, <1>5

---------------------------------------------------------------------------
\* One rollback restores an item.

\* Entry k of rollback r says that it restored item i, or will say so next.
Claim(r, k, i) ==
  /\ k \in DOMAIN rb[r].rows /\ rb[r].rows[k].item = i
  /\ rb[r].rows[k].state = "rolled_back" \/ (Claiming(r, i) /\ k = job[r].at)

Once ==
  Fresh => \A i \in Items : \A q, r \in Rollbacks : \A j, k :
             Claim(q, j, i) /\ Claim(r, k, i) => q = r /\ j = k

LEMMA InitOnce == Init => Once
<1> SUFFICES ASSUME Init, NEW r \in Rollbacks PROVE rb[r].rows = <<>>
  BY DEF Once, Claim
<1> QED
  BY Basics DEF Init

\* Every claim is an old one, but for that of the rollback that has just moved the file.
LEMMA ClaimsStep ==
  ASSUME Types, Alone, Logged, [Next]_vars, Fresh', NEW i \in Items, NEW r \in Rollbacks, NEW k,
         Claim(r, k, i)'
  PROVE  \/ Claim(r, k, i)
         \/ /\ Item(r) = i /\ k = job[r].at
            /\ \/ Mover(r) /\ job'[r].pc = "moved"
               \/ Shutil(r) /\ job'[r].pc = "mark_done"
<1> USE Basics
<1>0. k \in DOMAIN rb'[r].rows /\ rb'[r].rows[k].item = i
  BY DEF Claim
<1>1. CASE rb'[r].rows[k].state = "rolled_back"
  BY <1>0, <1>1, CreditStep DEF Claim, Claiming
<1>2. CASE Claiming(r, i)' /\ k = job'[r].at
  <2>1. /\ Item(r) = i /\ job'[r].at = job[r].at
        /\ \/ Claiming(r, i)
           \/ Mover(r) /\ job'[r].pc = "moved"
           \/ Shutil(r) /\ job'[r].pc = "mark_done"
    BY <1>2, ClaimStep
  <2>2. CASE Claiming(r, i)
    <3>1. /\ Len(rb[r].rows) = job[r].at /\ rb[r].rows[job[r].at].item = Item(r)
      BY <2>2, FreshBefore DEF Claiming, Logged, UndoSteps, MoveSteps
    <3>2. rb[r].rows \in Seq(Entry) /\ job[r].at \in Nat \ {0}
      BY <2>2, UndoPlaces DEF Claiming, UndoSteps, MoveSteps, Types, TypeOK
    <3>3. job[r].at \in DOMAIN rb[r].rows
      BY <3>1, <3>2
    <3> QED
      BY <1>2, <2>1, <2>2, <3>1, <3>3 DEF Claim
  <2> QED
    BY <1>2, <2>1, <2>2
<1> QED
  BY <1>1, <1>2 DEF Claim

LEMMA StepOnce ==
  Types /\ Alone /\ Logged /\ Home /\ Once /\ [Next]_vars => Once'
<1> SUFFICES ASSUME Types, Alone, Logged, Home, Once, [Next]_vars, Fresh', NEW i \in Items,
                    NEW q \in Rollbacks, NEW r \in Rollbacks, NEW j, NEW k,
                    Claim(q, j, i)', Claim(r, k, i)'
             PROVE  q = r /\ j = k
  BY DEF Once
<1>0. Fresh
  BY FreshBefore
<1>1. ASSUME NEW p \in Rollbacks, NEW n, Claim(p, n, i)
      PROVE  Restored(i)
  BY <1>0, <1>1 DEF Claim, Restored, Credited
<1>2. ASSUME Restored(i), NEW p \in Rollbacks
      PROVE  /\ ~(Mover(p) /\ Item(p) = i /\ job'[p].pc = "moved")
             /\ ~(Shutil(p) /\ Item(p) = i)
  <2>1. Settled(i) /\ joins = 0
    BY <1>0, <1>2 DEF Home, Fresh
  <2> QED
    BY <1>2, <2>1, SettledStays
<1>3. CASE Claim(q, j, i) /\ Claim(r, k, i)
  BY <1>0, <1>3 DEF Once
<1>4. CASE /\ Item(q) = i /\ j = job[q].at /\ Item(r) = i /\ k = job[r].at
           /\ \/ Mover(q) /\ job'[q].pc = "moved"
              \/ Shutil(q) /\ job'[q].pc = "mark_done"
           /\ \/ Mover(r) /\ job'[r].pc = "moved"
              \/ Shutil(r) /\ job'[r].pc = "mark_done"
  <2>1. job[r].pc # job'[r].pc
    BY <1>4, Basics, MoverFs, ShutilFs DEF MoverOutcome, ShutilOutcome, CopySteps, ShutilSteps
  <2>2. q # r => job'[r] = job[r]
    BY <1>4, Basics, MoverFs, ShutilFs
  <2> QED
    BY <1>4, <2>1, <2>2
<1> QED
  BY <1>1, <1>2, <1>3, <1>4, ClaimsStep

LEMMA AtMostOne ==
  ASSUME NEW S, \A x, y \in S : x = y
  PROVE  Cardinality(S) <= 1
<1>1. CASE S = {}
  BY <1>1, FS_EmptySet
<1>2. CASE S # {}
  <2>1. PICK x : x \in S
    BY <1>2
  <2>2. S = {x}
    BY <2>1
  <2> QED
    BY <2>2, FS_Singleton
<1> QED
  BY <1>1, <1>2

LEMMA OnceCounts == Once => RestoredOnce
<1> SUFFICES ASSUME Once, Fresh, NEW i \in Items
             PROVE  Cardinality({e \in UNION {{<<r, k>> : k \in DOMAIN rb[r].rows} : r \in Rollbacks} :
                                   rb[e[1]].rows[e[2]].item = i /\ rb[e[1]].rows[e[2]].state = "rolled_back"}) <= 1
  BY DEF RestoredOnce, Fresh
<1> DEFINE E == {e \in UNION {{<<r, k>> : k \in DOMAIN rb[r].rows} : r \in Rollbacks} :
                   rb[e[1]].rows[e[2]].item = i /\ rb[e[1]].rows[e[2]].state = "rolled_back"}
<1>1. ASSUME NEW c \in E, NEW d \in E
      PROVE  c = d
  <2>0. \A e \in E : \E r \in Rollbacks : \E k \in DOMAIN rb[r].rows : e = <<r, k>>
    <3> SUFFICES ASSUME NEW e \in E
                 PROVE  \E r \in Rollbacks : \E k \in DOMAIN rb[r].rows : e = <<r, k>>
      OBVIOUS
    <3>1. e \in UNION {{<<r, k>> : k \in DOMAIN rb[r].rows} : r \in Rollbacks}
      OBVIOUS
    <3>2. PICK R \in {{<<r, k>> : k \in DOMAIN rb[r].rows} : r \in Rollbacks} : e \in R
      BY <3>1
    <3>3. PICK r \in Rollbacks : R = {<<r, k>> : k \in DOMAIN rb[r].rows}
      BY <3>2
    <3> QED
      BY <3>2, <3>3
  <2>1. PICK q \in Rollbacks : \E j \in DOMAIN rb[q].rows : c = <<q, j>>
    BY <2>0
  <2>2. PICK j \in DOMAIN rb[q].rows : c = <<q, j>>
    BY <2>1
  <2>3. PICK r \in Rollbacks : \E k \in DOMAIN rb[r].rows : d = <<r, k>>
    BY <2>0
  <2>4. PICK k \in DOMAIN rb[r].rows : d = <<r, k>>
    BY <2>3
  <2>5. Claim(q, j, i) /\ Claim(r, k, i)
    BY <2>2, <2>4 DEF Claim
  <2>6. q = r /\ j = k
    BY <2>5 DEF Once
  <2> QED
    BY <2>2, <2>4, <2>6
<1> HIDE DEF E
<1>2. Cardinality(E) <= 1
  BY <1>1, AtMostOne
<1> QED
  BY <1>2 DEF E

(* What the rows say of rollbacks is true while one process works on the run: an item
   called rolled back has its file at its origin, also when the restart had to find that
   out, and however many requests ask for it, one of them brought it there.  A second
   instance writes into the rows what it has guessed of the first one, and of two restores
   of one renamed file that overlap the later one can empty it (recovery.py:196-213,
   quarantine.py:185, repository.py:732-778). *)
THEOREM RollbacksSayTheTruth == Spec /\ [](RestoresApart /\ joins = 0) => []RollbacksAreTrue
<1> DEFINE Inv == /\ Types /\ BeforeOK /\ QuarantineKept /\ RenamedKept
                  /\ Alone /\ Logged /\ Home /\ Once
<1>1. Init => Inv
  BY InitTypes, InitBefore, InitQuarantine, InitRenamed, InitAlone, InitLogged, InitHome, InitOnce
<1>2. Inv /\ RestoresApart /\ [Next]_vars => Inv'
  BY StepTypes, StepBefore, StepQuarantine, StepRenamed, StepAlone, StepLogged, StepHome, StepOnce
<1>3. Inv /\ joins = 0 => RollbacksAreTrue
  BY OnceCounts DEF Home, Restored, Settled, RollbacksAreTrue, RolledBackIsHome
<1> QED
  BY <1>1, <1>2, <1>3, PTL DEF Spec


(* So nothing of the user's is lost and nothing of others is replaced where one rollback
   is asked for at a time, and where the run only quarantines whatever overlaps: through
   any number of crashes, failing writes, changes by others and second instances
   (executor.py:117-403, quarantine.py:161-253, recovery.py:196-257). *)
THEOREM FilesAreSafe ==
  OneAtATime \/ (\A i \in Items : Ops[i] = "quarantine") => (Spec => []NoFileLost /\ StrangersKept)
<1>1. OneAtATime \/ (\A i \in Items : Ops[i] = "quarantine") => (Spec => []RestoresApart)
  BY RestoresStayApart
<1> QED
  BY <1>1, NoFileIsLost, StrangersStay

(* And there, without a second instance, every row that calls a rollback done is right
   (recovery.py:196-213, quarantine.py:185, repository.py:732-778). *)
THEOREM RowsAreHonest ==
  /\ OneAtATime \/ (\A i \in Items : Ops[i] = "quarantine")
  /\ MaxJoins = 0
  => (Spec => []RollbacksAreTrue)
<1> SUFFICES ASSUME OneAtATime \/ (\A i \in Items : Ops[i] = "quarantine"), MaxJoins = 0
             PROVE  Spec => []RollbacksAreTrue
  OBVIOUS
<1>1. Spec => []RestoresApart
  BY RestoresStayApart
<1>2. TypeOK => joins = 0
  BY DEF TypeOK
<1> QED
  BY <1>1, <1>2, TypeCorrect, RollbacksSayTheTruth, PTL

---------------------------------------------------------------------------
\* What a history at rest says.

\* A run whose rollback waits for its end: the phases of the run and of its rollbacks,
\* and what a restart has still to repair.
AtWork(p) == app = "down" \/ (app = "boot" /\ p \in due) \/ (app = "up" /\ job[p].pc \notin {"idle", "done"})
Begun(r) == job[r].pc # "idle" \/ rb[r].state # "none"

RunPhase ==
  /\ job[Exec].pc = "idle" <=> run.state = "none"
  /\ job[Exec].pc \notin {"idle", "done"} => run.state = "running"
  /\ run.state = "running" => AtWork(Exec)
  /\ run.state \in {"none", "running"} => ~run.avail /\ \A r \in Rollbacks : ~Begun(r)
  /\ Exec \in due => run.state = "running"

UndoPhase(r) ==
  /\ job[r].pc = "idle" => rb[r].state = "none" /\ rb[r].rows = <<>>
  /\ job[r].pc \in {"item"} \cup UndoSteps \cup FailSteps => rb[r].state = "rollback_running"
  /\ job[r].pc = "source" => rb[r].state # "rollback_running"
  /\ rb[r].state = "rollback_running" => AtWork(r)
  /\ r \in due => rb[r].state = "rollback_running"

Phases == joins = 0 => RunPhase /\ \A r \in Rollbacks : UndoPhase(r)

\* The item a run is at is the only one that is pending, until a restart ends it.
Judging(i) == seen.by = Exec => seen.item = i

ItemsEnd ==
  joins = 0 =>
    /\ \A i \in Items : row[i].state = "pending" =>
         /\ run.state = "running" /\ Judging(i)
         /\ app = "up" => BusyAt(i) \/ job[Exec].pc = "dead"
    /\ \A i, j \in Items : row[i].state = "pending" /\ row[j].state = "pending" => i = j
    /\ run.state \in {"none", "running"} => \A i \in Items : row[i].undo = "none"

\* The last entry of a rollback is the one it is at, and the only one that is pending.
Last(r) == rb[r].rows[Len(rb[r].rows)]
Undoing(r, i) == rb[r].rows # <<>> /\ Last(r).state = "pending" /\ Last(r).item = i

EntriesEnd(r) ==
  /\ \A k \in DOMAIN rb[r].rows : rb[r].rows[k].state = "pending" =>
       /\ k = Len(rb[r].rows) /\ rb[r].state = "rollback_running"
       /\ app = "up" => job[r].pc \in {"dead"} \cup UndoSteps \cup FailSteps
  /\ job[r].pc = "item" => Len(rb[r].rows) = job[r].at - 1
  /\ job[r].pc \in UndoSteps \cup FailSteps => Len(rb[r].rows) = job[r].at /\ Undoing(r, Item(r))
  /\ seen.by = r =>
       \/ seen.at = 0 /\ seen.item = 0 /\ (rb[r].rows # <<>> => Last(r).state # "pending")
       \/ /\ rb[r].rows # <<>> /\ seen.at = Len(rb[r].rows) /\ seen.item = Last(r).item
          /\ seen.state # "pending"

UndosEnd == joins = 0 => \A r \in Rollbacks : EntriesEnd(r)

\* Where the file of the item is that the executor is at,
Underway(i) ==
  LET pc == job[Exec].pc IN
  BusyAt(i) =>
    /\ pc \in {"second", "home"} => Kept(i, "stage")
    /\ pc = "record" => Kept(i, "target")
    /\ pc \in {"drop", "moved"} /\ job[Exec].leg = "out" => Kept(i, "target")
    /\ pc \in {"move", "own", "fill"} /\ job[Exec].leg = "out" => Kept(i, "origin")

\* and of an item it has succeeded with.
Moved(i) ==
  Succeeded(i) /\ row[i].undo = "none" => Kept(i, "target") \/ \E r \in Rollbacks : Undoing(r, i)

MovesKept ==
  joins = 0 =>
    /\ \A i \in Items : Underway(i) /\ Moved(i)
    /\ \A r \in Rollbacks : job[r].pc \in {"log_done", "log_failed"} => row[Item(r)].undo # "none"
    /\ seen.by = Exec /\ seen.state = "quarantined" => Kept(seen.item, "target")

\* The list of runs.
Open == \E i \in Items : Rollbackable(i) /\ row[i].undo # "done"
Listed ==
  /\ Fresh /\ run.avail =>
       run.state # "rolled_back" /\ (Open \/ \E r \in Rollbacks : job[r].pc \notin {"idle", "done"})
  /\ joins = 0 /\ ~run.avail /\ run.state \notin {"none", "running", "rolled_back"} =>
       \A i \in Items : ~Succeeded(i)

RunHome ==
  joins = 0 /\ run.state = "rolled_back" => \A i \in Items : Rollbackable(i) => HomeAgain(i)

\* A file in quarantine can be named: of its copy nothing is left once it is there,
\* and its row knows it, or a restart will see that it is there.
Away(i) == Kept(i, "target") /\ ~Present(i, "origin") /\ fs[i]["copy"] # "other"

Reversible(i) ==
  Ops[i] = "quarantine" =>
    /\ fs[i]["copy"] \in {"none", "part", "other"}
    /\ fs[i]["copy"] = "part" => cross /\ ~Kept(i, "target")
    /\ Before(i) => ~Kept(i, "target")
    /\ BusyAt(i) /\ job[Exec].pc = "fail" => ~Kept(i, "target")
    /\ \A r \in Rollbacks : \A k \in DOMAIN job[r].plan : OwedFor(r, k, i) => Rollbackable(i)
    /\ Away(i) => row[i].state = "pending" \/ Rollbackable(i)
    /\ Away(i) /\ seen.by = Exec /\ seen.item = i => seen.state = "quarantined"

Reversed == joins = 0 /\ faults = 0 => (job[Exec].leg = "out") /\ \A i \in Items : Reversible(i)

HInv == Phases /\ ItemsEnd /\ UndosEnd /\ MovesKept /\ Listed /\ RunHome /\ Reversed

\* What a step of the executor does to the run.
LEMMA ExecRun ==
  ASSUME Types, ExecutorStep
  PROVE  \/ /\ job[Exec].pc = "idle" /\ job'[Exec].pc = "item"
            /\ run'.state = "running" /\ ~run'.avail /\ row' = row
         \/ job[Exec].pc = "item" /\ job'[Exec].pc = "done" /\ FinishRun
         \/ /\ job[Exec].pc \notin {"idle", "done", "dead"} /\ job'[Exec].pc \notin {"idle", "done", "dead"}
            /\ run' = run /\ ~FinishRun
<1> USE Basics DEF At
<1>0. TypeOK
  BY DEF Types
<1>1. CASE StartRun
  BY <1>0, <1>1, GotoFacts DEF StartRun, Keeping, Steps
<1>2. CASE FinishRun
  BY <1>0, <1>2, GotoFacts DEF FinishRun, Steps
<1>3. CASE BeginItem \/ CheckItem \/ JournalStage \/ MarkAvailable \/ QuarantineFailed \/ RenameFails
  <2>1. run' = run
    BY <1>3 DEF BeginItem, CheckItem, JournalStage, MarkAvailable, QuarantineFailed, RenameFails, Keeping, store
  <2>2. \E s \in BusySteps : Goto(Exec, s)
    <3>1. CASE CheckItem
      <4>1. Ops[Item(Exec)] \in {"rename", "case", "quarantine"}
        BY <1>0, <3>1 DEF CheckItem, Item, Types, Shape, ExecShape, BusySteps
      <4> QED
        BY <3>1, <4>1 DEF CheckItem, BusySteps
    <3> QED
      BY <1>3, <3>1 DEF BeginItem, JournalStage, MarkAvailable, QuarantineFailed, RenameFails, BusySteps
  <2>3. job'[Exec].pc \in BusySteps
    BY <1>0, <2>2, GotoFacts DEF Steps, BusySteps
  <2>4. job[Exec].pc \notin {"idle", "done", "dead"} /\ ~FinishRun
    <3>1. job[Exec].pc \notin {"idle", "done", "dead"}
      BY <1>3 DEF BeginItem, CheckItem, JournalStage, MarkAvailable, QuarantineFailed, RenameFails
    <3>2. FinishRun => job'[Exec].pc = "done"
      BY <1>0, GotoFacts DEF FinishRun, Steps
    <3> QED
      BY <2>3, <3>1, <3>2 DEF BusySteps
  <2> QED
    BY <2>1, <2>3, <2>4 DEF BusySteps
<1>4. CASE SaveManifest
  <2>1. run' = run /\ job[Exec].pc = "manifest" /\ job'[Exec].pc = "move"
    BY <1>0, <1>4 DEF SaveManifest, Keeping, TypeOK
  <2> QED
    BY <2>1 DEF FinishRun
<1>5. CASE Renames
  <2>1. job[Exec].pc \in {"rename", "stage", "second", "home"} /\ job'[Exec].pc \in {"record", "second", "homed"}
    BY <1>5, RenameFs DEF Renames, RenameOutcome
  <2>2. run' = run
    BY <1>5 DEF Renames, RenameItem, StageItem, SecondRename, RestoreSource, RenameStep, Keeping, store
  <2> QED
    BY <2>1, <2>2 DEF FinishRun
<1>6. CASE Mover(Exec)
  <2>1. job[Exec].pc \in CopySteps /\ job'[Exec].pc \in MoveSteps
    BY <1>6, MoverFs DEF MoverOutcome, CopySteps, MoveSteps
  <2>2. run' = run
    BY <1>6 DEF Mover, MoverRename, MoverOpen, MoverOwn, MoverFill, MoverDrop, MoverFails, Keeping, store
  <2> QED
    BY <2>1, <2>2 DEF FinishRun, CopySteps, MoveSteps
<1>7. CASE RecordItem \/ FailItem \/ StrandItem
  <2>1. run' = run /\ NextItem(Exec) /\ job[Exec].pc \in BusySteps
    BY <1>7 DEF RecordItem, FailItem, StrandItem, EndItem, Keeping, BusySteps
  <2>2. job'[Exec].pc = "item"
    BY <1>0, <2>1, NextItemFacts
  <2> QED
    BY <2>1, <2>2 DEF FinishRun, BusySteps
<1> QED
  BY <1>1, <1>2, <1>3, <1>4, <1>5, <1>6, <1>7 DEF ExecutorStep, Renames

\* What a step of a rollback does to its own state and to the run.
LEMMA UndoRun ==
  ASSUME Types, NEW r \in Rollbacks, RollbackStep(r)
  PROVE  \/ /\ StartRollback(r) /\ job[r].pc = "idle" /\ job'[r].pc = "item" /\ run' = run /\ row' = row
            /\ run.state # "none" /\ (EarlyRollback \/ run.state # "running")
            /\ rb'[r].state = "rollback_running" /\ rb'[r].rows = rb[r].rows
         \/ /\ FinishRollback(r) /\ job[r].pc = "item" /\ job'[r].pc = "source" /\ run' = run /\ row' = row
            /\ rb'[r].state \in {"rolled_back", "rollback_partial"} /\ rb'[r].rows = rb[r].rows
         \/ FinishSource(r) /\ job[r].pc = "source" /\ job'[r].pc = "done" /\ rb' = rb /\ row' = row
         \/ /\ job[r].pc \in {"item"} \cup UndoSteps \cup FailSteps
            /\ job'[r].pc \in {"item"} \cup UndoSteps \cup FailSteps
            /\ run' = run /\ rb'[r].state = rb[r].state
<1> USE Basics DEF At
<1>0. TypeOK /\ r \in Workers /\ rb \in [Rollbacks -> RollbackType]
  BY DEF Types, TypeOK, RollbackType
<1>1. CASE StartRollback(r)
  <2>1. rb'[r].state = "rollback_running" /\ run.state # "none" /\ (EarlyRollback \/ run.state # "running")
    BY <1>0, <1>1 DEF StartRollback, RollbackType
  <2> QED
    BY <1>1, <2>1, StartFacts
<1>2. CASE FinishRollback(r)
  <2>1. Goto(r, "source") /\ job[r].pc = "item" /\ run' = run /\ row' = row
    BY <1>2 DEF FinishRollback, Keeping
  <2>2. rb'[r].state \in {"rolled_back", "rollback_partial"} /\ rb'[r].rows = rb[r].rows
    BY <1>0, <1>2 DEF FinishRollback, RollbackType
  <2> QED
    BY <1>0, <1>2, <2>1, <2>2, GotoFacts DEF Steps
<1>3. CASE FinishSource(r)
  BY <1>0, <1>3, GotoFacts DEF FinishSource, Keeping, Steps
<1>4. CASE BeginUndo(r) \/ LogUndo(r)
  <2>1. run' = run /\ \E rows : rb' = [rb EXCEPT ![r].rows = rows]
    <3>1. CASE LogUndo(r)
      <4>1. \E s : rb' = [rb EXCEPT ![r].rows = SetState(rb[r].rows, job[r].at, s)]
        BY ZenonT(40), <3>1 DEF LogUndo, SetState
      <4> QED
        BY ZenonT(40), <3>1, <4>1 DEF LogUndo, Keeping
    <3> QED
      BY <1>4, <3>1 DEF BeginUndo, Keeping
  <2>2. rb'[r].state = rb[r].state
    BY <1>0, <2>1 DEF RollbackType
  <2>3. job[r].pc \in {"item", "log_done", "log_failed"}
    BY ZenonT(40), <1>4 DEF BeginUndo, LogUndo
  <2>4. job'[r].pc \in {"item", "mark_failed", "rpath", "shmove"}
    BY ZenonT(40), <1>0, <1>4, GotoFacts, NextItemFacts DEF BeginUndo, LogUndo, Steps
  <2> QED
    BY <2>1, <2>2, <2>3, <2>4 DEF UndoSteps, FailSteps, ShutilSteps
<1>5. CASE Mover(r)
  <2>1. run' = run /\ rb' = rb
    BY <1>5 DEF Mover, MoverRename, MoverOpen, MoverOwn, MoverFill, MoverDrop, MoverFails, Keeping, store
  <2>2. job[r].pc \in MoveSteps /\ job'[r].pc \in MoveSteps
    BY <1>5, MoverFs DEF MoverOutcome, CopySteps, MoveSteps
  <2> QED
    BY <2>1, <2>2 DEF UndoSteps
<1>6. CASE Shutil(r)
  <2>1. run' = run /\ rb' = rb
    BY <1>6 DEF Shutil, ShutilRename, ShutilOpen, ShutilCopy, ShutilDrop, ShutilFails, Keeping, store
  <2>2. job[r].pc \in ShutilSteps /\ job'[r].pc \in ShutilSteps \cup {"mark_done", "mark_failed"}
    BY <1>6, ShutilFs DEF ShutilOutcome, ShutilSteps
  <2> QED
    BY <2>1, <2>2 DEF UndoSteps, FailSteps
<1>7. CASE JournalRestore(r) \/ SyncManifest(r) \/ MarkItem(r)
  <2>1. run' = run /\ rb' = rb /\ job[r].pc \in UndoSteps \cup FailSteps
    BY <1>7 DEF JournalRestore, SyncManifest, MarkItem, Keeping, UndoSteps, FailSteps, MoveSteps
  <2>2. \E s \in {"erred", "move", "mark_done", "mark_failed", "log_done", "log_failed"} : Goto(r, s)
    BY <1>7 DEF JournalRestore, SyncManifest, MarkItem
  <2>3. job'[r].pc \in UndoSteps \cup FailSteps
    BY <1>0, <2>2, GotoFacts DEF Steps, UndoSteps, FailSteps, MoveSteps, CopySteps
  <2> QED
    BY <2>1, <2>3
<1> QED
  BY <1>1, <1>2, <1>3, <1>4, <1>5, <1>6, <1>7 DEF RollbackStep, Shutil

LEMMA CrashIdle == ASSUME Types, Crash, NEW p \in Workers PROVE job'[p].pc = "idle" <=> job[p].pc = "idle"
<1>1. job'[p] = IF job[p].pc = "idle" THEN Idle ELSE [Idle EXCEPT !.pc = "done"]
  BY DEF Crash
<1> QED
  BY <1>1 DEF Idle

LEMMA InitPhases == Init => Phases
<1> SUFFICES ASSUME Init
             PROVE  RunPhase /\ \A r \in Rollbacks : UndoPhase(r)
  BY DEF Phases
<1>1. /\ \A p \in Workers : job[p].pc = "idle"
      /\ run.state = "none" /\ ~run.avail /\ due = {}
      /\ \A r \in Rollbacks : rb[r].state = "none" /\ rb[r].rows = <<>>
  BY Basics DEF Init, Idle
<1> QED
  BY <1>1, Basics DEF RunPhase, UndoPhase, Begun, UndoSteps, FailSteps, MoveSteps, CopySteps, ShutilSteps

\* Who is at work, and who is due, changes with the worker, the process and the restart.
LEMMA StepPhases ==
  ~EarlyRollback /\ Types /\ Alone /\ Phases /\ [Next]_vars => Phases'
<1> SUFFICES ASSUME ~EarlyRollback, Types, Alone, Phases, [Next]_vars, joins' = 0
             PROVE  RunPhase' /\ \A r \in Rollbacks : UndoPhase(r)'
  BY DEF Phases
<1> USE Basics
<1>0. /\ joins = 0 /\ ~SecondInstance /\ RunPhase /\ (\A r \in Rollbacks : UndoPhase(r))
      /\ app \in {"up", "down", "boot"} /\ (app # "up" => \A p \in Workers : job[p].pc \in {"idle", "done"})
      /\ (app = "up" => due = {}) /\ (Repairing => app = "boot")
  BY JoinsGrow DEF Phases, Alone, Types, Shape, SeenShape, Repairing
<1>1. CASE UNCHANGED <<run, rb, job, app, due>>
  BY <1>0, <1>1 DEF RunPhase, UndoPhase, AtWork, Begun
<1>2. CASE ExecutorStep
  <2>1. app = "up" /\ rb' = rb /\ app' = app /\ due' = due /\ \A r \in Rollbacks : job'[r] = job[r]
    BY <1>0, <1>2, WorkersServe, ExecutorKeeps
  <2>2. \A r \in Rollbacks : UndoPhase(r)'
    BY <1>0, <2>1 DEF UndoPhase, AtWork
  <2>3. FinishRun => run'.state \notin {"none", "running"}
    BY DEF FinishRun, FinalState
  <2>4. RunPhase'
    BY <1>0, <1>2, <2>1, <2>3, ExecRun DEF RunPhase, AtWork, Begun
  <2> QED
    BY <2>2, <2>4
<1>3. ASSUME NEW r \in Rollbacks, RollbackStep(r)
      PROVE  RunPhase' /\ \A q \in Rollbacks : UndoPhase(q)'
  <2>1. /\ app = "up" /\ app' = app /\ due' = due /\ \A p \in Workers : p # r => job'[p] = job[p]
        /\ \A q \in Rollbacks : q # r => rb'[q] = rb[q]
    BY <1>0, <1>3, WorkersServe, RollbackKeeps
  <2>2. {"idle", "source", "done", "dead", "none"} \cap ({"item"} \cup UndoSteps \cup FailSteps) = {}
    BY DEF UndoSteps, FailSteps, MoveSteps, CopySteps, ShutilSteps
  <2>3. \A q \in Rollbacks : UndoPhase(q)'
    <3>1. UndoPhase(r)'
      <4>1. UndoPhase(r) /\ r \notin due'
        BY <1>0, <2>1
      <4>2. CASE job'[r].pc \in {"source", "done"}
        <5>1. rb'[r].state # "rollback_running"
          BY <1>3, <2>2, <4>1, <4>2, UndoRun DEF UndoPhase
        <5> QED
          BY <2>2, <4>1, <4>2, <5>1 DEF UndoPhase
      <4>3. CASE job'[r].pc \notin {"source", "done"}
        <5>1. rb'[r].state = "rollback_running" /\ job'[r].pc \in {"item"} \cup UndoSteps \cup FailSteps
          BY <1>3, <4>1, <4>3, UndoRun DEF UndoPhase
        <5> QED
          BY <2>1, <2>2, <4>1, <5>1 DEF UndoPhase, AtWork
      <4> QED
        BY <4>2, <4>3
    <3>2. ASSUME NEW q \in Rollbacks, q # r
          PROVE  UndoPhase(q)'
      BY <1>0, <2>1, <3>2 DEF UndoPhase, AtWork
    <3> QED
      BY <3>1, <3>2
  <2>4. run.state \notin {"none", "running"}
    BY <1>0, <1>3, <2>2, UndoRun DEF RunPhase, Begun
  <2>5. run'.state \notin {"none", "running"}
    <3>1. FinishSource(r) => run'.state \in {run.state, "rolled_back"}
      BY DEF FinishSource
    <3> QED
      BY <1>3, <2>4, <3>1, UndoRun
  <2> QED
    BY <1>0, <2>1, <2>3, <2>4, <2>5 DEF RunPhase, AtWork
<1>4. ASSUME NEW p \in Workers, WriteFails(p)
      PROVE  RunPhase' /\ \A r \in Rollbacks : UndoPhase(r)'
  <2>1. /\ UNCHANGED <<run, rb, app, due>> /\ FaultOutcome(p) /\ \A q \in Workers : q # p => job'[q] = job[q]
    BY <1>4, FaultFacts
  <2>2. app = "up"
    BY <1>0, <1>4, WorkersServe
  <2>3. job[p].pc \notin {"idle", "done"} /\ job'[p].pc \notin {"idle", "done"}
    BY <2>1 DEF FaultOutcome, FailSteps
  <2>4. p # Exec => job[p].pc \in {"item", "source"} \cup UndoSteps \cup FailSteps
    BY <2>1 DEF FaultOutcome, UndoSteps, FailSteps, MoveSteps
  <2>5. p # Exec /\ job'[p].pc \in {"item"} \cup UndoSteps \cup FailSteps
          => job[p].pc \in {"item"} \cup UndoSteps \cup FailSteps
    BY <2>1 DEF FaultOutcome, UndoSteps, FailSteps, MoveSteps, CopySteps, ShutilSteps
  <2>6. RunPhase'
    BY <1>0, <2>1, <2>2, <2>3 DEF RunPhase, AtWork, Begun
  <2>7. ASSUME NEW r \in Rollbacks
        PROVE  UndoPhase(r)'
    <3>1. job[r].pc \notin {"idle", "done"} <=> job'[r].pc \notin {"idle", "done"}
      BY <2>1, <2>3
    <3>2. r = p => job'[r].pc # "source"
      BY <2>1 DEF FaultOutcome, FailSteps
    <3> QED
      BY <1>0, <2>1, <2>2, <2>3, <2>5, <3>1, <3>2 DEF UndoPhase, AtWork
  <2> QED
    BY <2>6, <2>7
<1>5. CASE Crash
  <2>1. /\ UNCHANGED <<run, rb>> /\ app' = "down" /\ due' = {} /\ \A p \in Workers : job'[p].pc \in {"idle", "done"}
    BY <1>5, CrashFacts
  <2>2. \A p \in Workers : job'[p].pc = "idle" <=> job[p].pc = "idle"
    BY <1>5, CrashIdle
  <2>3. {"idle", "done"} \cap ({"item"} \cup UndoSteps \cup FailSteps) = {}
    BY DEF UndoSteps, FailSteps, MoveSteps, CopySteps, ShutilSteps
  <2> QED
    BY <1>0, <2>1, <2>2, <2>3 DEF RunPhase, UndoPhase, AtWork, Begun
<1>6. CASE Restart
  <2>1. UNCHANGED <<run, rb, job>> /\ due' = Interrupted /\ app = "down" /\ app' = "boot"
    BY <1>0, <1>6, RestartFacts
  <2>2. /\ Exec \in due' <=> run.state = "running"
        /\ \A r \in Rollbacks : r \in due' <=> rb[r].state = "rollback_running"
    BY <2>1 DEF Interrupted
  <2> QED
    BY <1>0, <2>1, <2>2 DEF RunPhase, UndoPhase, AtWork, Begun
<1>7. CASE Recovered
  <2>1. UNCHANGED <<run, rb, job, due>> /\ due = {} /\ app' = "up" /\ app = "boot"
    BY <1>0, <1>7, RecoveredFacts
  <2> QED
    BY <1>0, <2>1 DEF RunPhase, UndoPhase, AtWork, Begun
<1>8. CASE RecoverRun
  <2>1. /\ UNCHANGED <<rb, job>> /\ app = "boot" /\ app' = "boot" /\ Exec \in due
        /\ due' = due \ {Exec} /\ run'.state = "interrupted"
    BY <1>0, <1>8, RecoverRunFacts
  <2> QED
    BY <1>0, <2>1 DEF RunPhase, UndoPhase, AtWork, Begun
<1>9. ASSUME NEW r \in Rollbacks, RecoverRollback(r)
      PROVE  RunPhase' /\ \A q \in Rollbacks : UndoPhase(q)'
  <2>1. /\ job' = job /\ app = "boot" /\ app' = "boot" /\ r \in due /\ due' = due \ {r}
        /\ \A q \in Rollbacks : q # r => rb'[q] = rb[q]
    BY <1>0, <1>9, RecoverRollbackFacts
  <2>2. rb'[r].state # "rollback_running"
    <3>1. \E e \in {"rolled_back", "interrupted"} : \E rows : rb' = [rb EXCEPT ![r] = [state |-> e, rows |-> rows]]
      BY <1>9 DEF RecoverRollback
    <3> QED
      BY <3>1 DEF Types, TypeOK
  <2>3. rb[r].state = "rollback_running" /\ job[r].pc = "done"
    BY <1>0, <2>1 DEF UndoPhase
  <2>4. run.state \notin {"none", "running"} /\ run'.state \notin {"none", "running"}
    <3>1. run.state \notin {"none", "running"}
      BY <1>0, <2>3 DEF RunPhase, Begun
    <3>2. run'.state \in {run.state, "rolled_back"}
      BY <1>9 DEF RecoverRollback, SourceRun, Types, TypeOK
    <3> QED
      BY <3>1, <3>2
  <2>5. UndoPhase(r)'
    BY <2>1, <2>2, <2>3 DEF UndoPhase, UndoSteps, FailSteps, MoveSteps, CopySteps, ShutilSteps
  <2>6. ASSUME NEW q \in Rollbacks, q # r
        PROVE  UndoPhase(q)'
    BY <1>0, <2>1, <2>6 DEF UndoPhase, AtWork
  <2> QED
    BY <1>0, <2>1, <2>4, <2>5, <2>6 DEF RunPhase, AtWork
<1> QED
  BY <1>0, <1>1, <1>2, <1>3, <1>4, <1>5, <1>6, <1>7, <1>8, <1>9, StepCases, LookFs, EnvironmentFs
     DEF vars, store

\* The run of a history at rest changes by a start, an end, a repair or a rollback.
LEMMA RunChange ==
  ASSUME ~EarlyRollback, Types, Alone, Phases, [Next]_vars, joins' = 0
  PROVE  \/ run' = run /\ ~FinishRun /\ ~RecoverRun
         \/ run.state = "none" /\ run'.state = "running" /\ ~run'.avail /\ row' = row /\ ExecutorStep
         \/ /\ FinishRun /\ run.state = "running" /\ job[Exec].pc = "item" /\ app = "up"
            /\ job'[Exec].pc = "done"
         \/ RecoverRun /\ run.state = "running"
         \/ /\ run.state \notin {"none", "running"}
            /\ \E r \in Rollbacks : (FinishSource(r) /\ job[r].pc = "source") \/ RecoverRollback(r)
<1> USE Basics
<1>0. /\ joins = 0 /\ RunPhase /\ (\A r \in Rollbacks : UndoPhase(r)) /\ app \in {"up", "down", "boot"}
      /\ app # "up" => \A p \in Workers : job[p].pc \in {"idle", "done"}
  BY JoinsGrow DEF Phases, Alone
<1>1. FinishRun => ExecutorStep /\ job[Exec].pc = "item"
  BY DEF FinishRun, ExecutorStep, At
<1>2. RecoverRun => run.state = "running"
  BY <1>0, RecoverRunFacts DEF RunPhase
<1>3. CASE ExecutorStep
  <2>1. app = "up"
    BY <1>0, <1>3, WorkersServe
  <2>2. ~RecoverRun
    BY <1>3, <2>1, RecoverRunFacts DEF Repairing
  <2> QED
    BY <1>0, <1>3, <2>1, <2>2, ExecRun DEF RunPhase
<1>4. ASSUME ~ExecutorStep, ~RecoverRun, run' = run
      PROVE  run' = run /\ ~FinishRun /\ ~RecoverRun
  BY <1>1, <1>4
<1>5. ASSUME NEW r \in Rollbacks, RollbackStep(r), ~ExecutorStep
      PROVE  \/ run' = run /\ ~RecoverRun
             \/ run.state \notin {"none", "running"} /\ FinishSource(r) /\ job[r].pc = "source"
  <2>1. ~RecoverRun
    <3>1. app = "up"
      BY <1>0, <1>5, WorkersServe
    <3> QED
      BY <3>1, RecoverRunFacts DEF Repairing
  <2> QED
    BY <1>0, <1>5, <2>1, UndoRun DEF RunPhase, Begun
<1>6. ASSUME NEW r \in Rollbacks, RecoverRollback(r)
      PROVE  run.state \notin {"none", "running"}
  <2>1. rb[r].state = "rollback_running"
    BY <1>0, <1>6, RecoverRollbackFacts DEF UndoPhase
  <2> QED
    BY <1>0, <2>1 DEF RunPhase, Begun
<1>7. CASE UNCHANGED vars
  <2>1. run' = run
    BY <1>7 DEF vars, store
  <2>2. ~RecoverRun
    <3>1. RecoverRun => run'.state = "interrupted" /\ run.state = "running"
      BY <1>2, RecoverRunFacts
    <3> QED
      BY <2>1, <3>1
  <2> QED
    BY <1>3, <1>4, <2>1, <2>2
<1>8. ASSUME run' = run PROVE ~RecoverRun
  BY <1>2, <1>8, RecoverRunFacts
<1> QED
  BY <1>1, <1>2, <1>3, <1>4, <1>5, <1>6, <1>7, <1>8, StepCases, FaultFacts, CrashFacts, RestartFacts,
     RecoveredFacts, LookFs, EnvironmentFs

\* An item becomes pending when the executor comes to it.
LEMMA PendingStep ==
  ASSUME Types, [Next]_vars, NEW i \in Items, row'[i].state = "pending"
  PROVE  \/ row[i].state = "pending" /\ ~RecoverRun /\ ~((RecordItem \/ FailItem \/ StrandItem) /\ job[Exec].at = i)
         \/ BeginItem /\ job[Exec].at = i
<1>1. ~RecoverRun
  <2> SUFFICES ASSUME RecoverRun PROVE FALSE
    OBVIOUS
  <2>1. row'[i].state = IF i = seen.item /\ seen.state # "pending" THEN seen.state
                        ELSE IF row[i].state = "pending" THEN "failed" ELSE row[i].state
    BY RecoverRunFacts
  <2> QED
    BY <2>1
<1>2. ~((RecordItem \/ FailItem \/ StrandItem) /\ job[Exec].at = i)
  <2> SUFFICES ASSUME RecordItem \/ FailItem \/ StrandItem, job[Exec].at = i PROVE FALSE
    OBVIOUS
  <2>1. \E state \in {"quarantined", "renamed", "failed"} : \E temp :
          row' = [row EXCEPT ![i] = [state |-> state, temp |-> temp, undo |-> "none"]]
    BY DEF RecordItem, FailItem, StrandItem, EndItem, Item
  <2> QED
    BY <2>1 DEF Types, TypeOK
<1> QED
  BY <1>1, <1>2, RowStep DEF SameMove

\* The executor leaves an item by writing its end, by a fault or by a crash.
LEMMA BusyLeaves ==
  ASSUME Types, [Next]_vars, NEW i \in Items, BusyAt(i)
  PROVE  \/ BusyAt(i)' \/ job'[Exec].pc = "dead" \/ Crash
         \/ (RecordItem \/ FailItem \/ StrandItem) /\ job[Exec].at = i
<1> USE Basics
<1>0. TypeOK
  BY DEF Types
<1>1. CASE job'[Exec] = job[Exec]
  BY <1>1 DEF BusyAt
<1>2. CASE WriteFails(Exec)
  <2>1. FaultOutcome(Exec) /\ job'[Exec].at = job[Exec].at
    BY <1>2, FaultFacts
  <2> QED
    BY <2>1 DEF FaultOutcome, BusyAt, BusySteps
<1>3. CASE ExecutorStep /\ ~(RecordItem \/ FailItem \/ StrandItem)
  <2>1. ~StartRun /\ ~BeginItem /\ ~FinishRun
    BY DEF BusyAt, BusySteps, StartRun, BeginItem, FinishRun, At
  <2>2. CASE CheckItem \/ JournalStage \/ MarkAvailable \/ QuarantineFailed \/ RenameFails
    <3>1. \E s \in BusySteps : Goto(Exec, s)
      <4>1. CASE CheckItem
        <5>1. Ops[Item(Exec)] \in {"rename", "case", "quarantine"}
          BY <1>0 DEF BusyAt, Item
        <5> QED
          BY <4>1, <5>1 DEF CheckItem, BusySteps
      <4> QED
        BY <2>2, <4>1 DEF JournalStage, MarkAvailable, QuarantineFailed, RenameFails, BusySteps
    <3> QED
      BY <1>0, <3>1, GotoFacts DEF Steps, BusySteps, BusyAt
  <2>3. CASE SaveManifest
    <3>1. job'[Exec].pc = "move" /\ job'[Exec].at = job[Exec].at
      BY <1>0, <2>3 DEF SaveManifest, TypeOK
    <3> QED
      BY <3>1 DEF BusyAt, BusySteps
  <2>4. CASE Renames
    <3>1. job'[Exec].pc \in {"record", "second", "homed"} /\ job'[Exec].at = job[Exec].at
      BY <2>4, RenameFs DEF Renames, RenameOutcome
    <3> QED
      BY <3>1 DEF BusyAt, BusySteps
  <2>5. CASE Mover(Exec)
    <3>1. job'[Exec].pc \in MoveSteps /\ job'[Exec].at = job[Exec].at
      BY <2>5, MoverFs DEF MoverOutcome, CopySteps, MoveSteps
    <3> QED
      BY <3>1 DEF BusyAt, BusySteps, CopySteps, MoveSteps
  <2> QED
    BY <1>3, <2>1, <2>2, <2>3, <2>4, <2>5 DEF ExecutorStep, Renames
<1>4. (RecordItem \/ FailItem \/ StrandItem) => job[Exec].at = i
  BY DEF BusyAt
<1> QED
  BY <1>1, <1>2, <1>3, <1>4, WorkerStep

LEMMA InitItems == Init => ItemsEnd
<1> SUFFICES ASSUME Init, NEW i \in Items PROVE row[i].state = "none" /\ row[i].undo = "none"
  BY DEF ItemsEnd
<1> QED
  BY DEF Init, NoRow

\* The restart looks at an item that is pending, if there is one.
LEMMA LookedAt == ASSUME Types, LookAtRun, NEW i \in Items, row[i].state = "pending" PROVE seen'.item \in InterruptedItem
<1>1. i \in InterruptedItem
  BY DEF InterruptedItem
<1>2. PICK j \in InterruptedItem, held \in BOOLEAN :
        seen' = [by |-> Exec, at |-> 0, item |-> j, state |-> RecoveredRow(j, held).state,
                 manifest |-> [manifest[j] EXCEPT !.status = RecoveredRow(j, held).status]]
  BY <1>1 DEF LookAtRun
<1> QED
  BY <1>2

\* What an item is that is pending after a step.
LEMMA PendingKept ==
  ASSUME ~EarlyRollback, Types, Alone, Phases, ItemsEnd, [Next]_vars, joins' = 0,
         NEW i \in Items, row'[i].state = "pending"
  PROVE  /\ run'.state = "running" /\ Judging(i)'
         /\ app' = "up" => BusyAt(i)' \/ job'[Exec].pc = "dead"
<1> USE Basics
<1>0. /\ joins = 0 /\ RunPhase /\ app \in {"up", "down", "boot"} /\ (app # "boot" => seen = NotSeen)
      /\ (Repairing => app = "boot") /\ NotSeen.by = "none" /\ NotSeen.item = 0
  BY JoinsGrow, NotSeenTyped DEF Phases, Alone, Repairing, NotSeen
<1>1. ASSUME app = "up" PROVE seen' = NotSeen
  <2>1. seen = NotSeen
    BY <1>0, <1>1
  <2>2. ~Repairing
    BY <1>0, <1>1
  <2> QED
    BY <2>1, <2>2, StepCases, ExecutorKeeps, RollbackKeeps, FaultFacts, CrashFacts, RestartFacts,
       RecoveredFacts, LookAtRunFacts, LookAtRollbackFacts, RecoverRunFacts, RecoverRollbackFacts, EnvironmentFs
       DEF vars
<1>2. CASE BeginItem /\ job[Exec].at = i
  <2>1. ExecutorStep /\ job[Exec].pc = "item" /\ run' = run
    BY <1>2 DEF ExecutorStep, BeginItem, At, Keeping
  <2>2. app = "up"
    BY <1>0, <2>1, WorkersServe
  <2>3. BusyAt(i)'
    <3>1. job'[Exec].pc = "check" /\ job'[Exec].at = i
      BY <1>2, GotoFacts DEF BeginItem, Types, Steps
    <3> QED
      BY <3>1 DEF BusyAt, BusySteps
  <2> QED
    BY <1>0, <1>1, <2>1, <2>2, <2>3 DEF RunPhase, Judging
<1>3. CASE /\ row[i].state = "pending" /\ ~RecoverRun
           /\ ~((RecordItem \/ FailItem \/ StrandItem) /\ job[Exec].at = i)
  <2>1. /\ run.state = "running" /\ Judging(i) /\ (app = "up" => BusyAt(i) \/ job[Exec].pc = "dead")
    BY <1>0, <1>3 DEF ItemsEnd
  <2>2. run' = run
    <3>1. ~(FinishRun /\ app = "up" /\ job[Exec].pc = "item")
      BY <2>1 DEF BusyAt, BusySteps
    <3> QED
      BY <1>3, <2>1, <3>1, RunChange
  <2>3. Judging(i)'
    <3>1. CASE seen' = seen
      BY <2>1, <3>1 DEF Judging
    <3>2. CASE seen' = NotSeen
      BY <1>0, <3>2 DEF Judging
    <3>3. CASE LookAtRun
      <4>1. seen'.item \in Items /\ row[seen'.item].state = "pending"
        BY <1>3, <3>3, LookedAt DEF InterruptedItem
      <4> QED
        BY <1>0, <1>3, <4>1 DEF ItemsEnd, Judging
    <3>4. CASE \E r \in Rollbacks : LookAtRollback(r)
      BY <3>4, LookAtRollbackFacts DEF Judging
    <3> QED
      BY <3>1, <3>2, <3>3, <3>4, StepCases, ExecutorKeeps, RollbackKeeps, FaultFacts, CrashFacts, RestartFacts,
         RecoveredFacts, RecoverRunFacts, RecoverRollbackFacts, EnvironmentFs DEF vars
  <2>4. ASSUME app' = "up" PROVE BusyAt(i)' \/ job'[Exec].pc = "dead"
    <3>1. ~Crash
      BY <2>4, CrashFacts
    <3>2. app = "up"
      <4>1. ~Recovered
        BY <1>0, <2>1, RecoveredFacts DEF RunPhase, AtWork
      <4> QED
        BY <1>0, <2>4, <4>1, StepCases, ExecutorKeeps, RollbackKeeps, FaultFacts, CrashFacts, RestartFacts,
           RecoverRunFacts, RecoverRollbackFacts, LookFs, EnvironmentFs DEF vars
    <3>3. CASE BusyAt(i)
      BY <1>3, <3>1, <3>3, BusyLeaves
    <3>4. CASE job[Exec].pc = "dead"
      <4>1. ~ExecutorStep /\ ~WriteFails(Exec)
        BY <3>4, ExecRun, FaultFacts DEF FaultOutcome
      <4> QED
        BY <3>1, <3>4, <4>1, WorkerStep
    <3> QED
      BY <2>1, <3>2, <3>3, <3>4
  <2> QED
    BY <2>1, <2>2, <2>3, <2>4
<1> QED
  BY <1>2, <1>3, PendingStep

LEMMA StepItems ==
  ~EarlyRollback /\ Types /\ Alone /\ Phases /\ ItemsEnd /\ [Next]_vars => ItemsEnd'
<1> SUFFICES ASSUME ~EarlyRollback, Types, Alone, Phases, ItemsEnd, [Next]_vars, joins' = 0
             PROVE  /\ \A i \in Items : row'[i].state = "pending" =>
                         /\ run'.state = "running" /\ Judging(i)'
                         /\ app' = "up" => BusyAt(i)' \/ job'[Exec].pc = "dead"
                    /\ \A i, j \in Items : row'[i].state = "pending" /\ row'[j].state = "pending" => i = j
                    /\ run'.state \in {"none", "running"} => \A i \in Items : row'[i].undo = "none"
  BY DEF ItemsEnd
<1> USE Basics
<1>0. joins = 0 /\ RunPhase /\ Phases' /\ (\A r \in Rollbacks : UndoPhase(r))
  BY JoinsGrow, StepPhases DEF Phases
<1>1. ASSUME NEW i \in Items, NEW j \in Items, row'[i].state = "pending", row'[j].state = "pending"
      PROVE  i = j
  <2>1. ASSUME NEW k \in Items, BeginItem, job[Exec].at = k, NEW l \in Items, row[l].state = "pending"
        PROVE  FALSE
    <3>1. job[Exec].pc = "item" /\ ExecutorStep
      BY <2>1 DEF BeginItem, At, ExecutorStep
    <3>2. app = "up"
      BY <1>0, <3>1, WorkersServe DEF Alone
    <3> QED
      BY <1>0, <2>1, <3>1, <3>2 DEF ItemsEnd, BusyAt, BusySteps
  <2> QED
    BY <1>0, <1>1, <2>1, PendingStep DEF ItemsEnd
<1>2. ASSUME run'.state \in {"none", "running"}, NEW i \in Items
      PROVE  row'[i].undo = "none"
  <2>1. run.state \in {"none", "running"} /\ ~RecoverRun
    <3>1. ~RecoverRun
      BY <1>2, RecoverRunFacts
    <3>2. ~FinishRun
      BY <1>2 DEF FinishRun, FinalState
    <3>3. ASSUME NEW r \in Rollbacks, FinishSource(r) \/ RecoverRollback(r)
          PROVE  run'.state \in {run.state, "rolled_back"}
      BY SMTT(20), <3>3 DEF FinishSource, RecoverRollback, SourceRun, Types, TypeOK
    <3> QED
      BY <1>2, <3>1, <3>2, <3>3, RunChange
  <2>2. row[i].undo = "none"
    BY <1>0, <2>1 DEF ItemsEnd
  <2>3. ASSUME NEW r \in Rollbacks PROVE ~MarkItem(r) /\ ~RecoverRollback(r)
    <3>1. ~Begun(r)
      BY <1>0, <2>1 DEF RunPhase
    <3>2. MarkItem(r) => job[r].pc # "idle"
      BY DEF MarkItem, At
    <3>3. RecoverRollback(r) => rb[r].state = "rollback_running"
      BY <1>0, RecoverRollbackFacts DEF UndoPhase
    <3> QED
      BY <3>1, <3>2, <3>3 DEF Begun
  <2> QED
    BY <2>1, <2>2, <2>3, RowStep
<1> QED
  BY <1>1, <1>2, PendingKept

---------------------------------------------------------------------------
\* The entries of a rollback end.

LEMMA RollbackRows ==
  ASSUME Types, NEW r \in Rollbacks
  PROVE  /\ r \in Workers /\ r # Exec /\ rb[r].rows \in Seq(Entry) /\ Len(rb[r].rows) \in Nat
         /\ DOMAIN rb[r].rows = 1..Len(rb[r].rows) /\ (rb[r].rows = <<>> <=> Len(rb[r].rows) = 0)
         /\ job[r].at \in Nat /\ Item(r) = job[r].plan[job[r].at].item
<1>1. r \in Workers /\ r # Exec
  BY Basics
<1>2. rb[r].rows \in Seq(Entry) /\ job[r].at \in Nat
  BY <1>1 DEF Types, TypeOK
<1> QED
  BY <1>1, <1>2, EmptySeq, ElementOfSeq DEF Item

LEMMA InitUndos == Init => UndosEnd
<1> SUFFICES ASSUME Init, NEW r \in Rollbacks PROVE EntriesEnd(r)
  BY DEF UndosEnd
<1>1. rb[r].rows = <<>> /\ job[r].pc = "idle" /\ seen.by = "none" /\ "none" # r
  BY Basics DEF Init, Idle, NotSeen
<1> QED
  BY <1>1 DEF EntriesEnd, UndoSteps, FailSteps, MoveSteps, CopySteps, ShutilSteps

LEMMA RbStep ==
  ASSUME Types, [Next]_vars, NEW r \in Rollbacks
  PROVE  rb'[r] = rb[r] \/ RollbackStep(r) \/ RecoverRollback(r)
BY StepCases, ExecutorKeeps, RollbackKeeps, FaultFacts, CrashFacts, RestartFacts, RecoveredFacts, LookFs,
   RecoverRunFacts, RecoverRollbackFacts, EnvironmentFs DEF vars, store

\* A restart judges the last entry of a rollback, if it is pending.
LEMMA LastJudged ==
  ASSUME Types, NEW r \in Rollbacks, LookAtRollback(r)
  PROVE  /\ rb' = rb
         /\ \/ seen'.at = 0 /\ seen'.item = 0 /\ (rb[r].rows # <<>> => Last(r).state # "pending")
            \/ /\ rb[r].rows # <<>> /\ seen'.at = Len(rb[r].rows) /\ seen'.item = Last(r).item
               /\ Last(r).state = "pending" /\ seen'.state # "pending"
<1> DEFINE n == Len(rb[r].rows)
<1>1. rb' = rb
  BY LookFs
<1>2. n \in Nat /\ (rb[r].rows = <<>> <=> n = 0)
  BY RollbackRows
<1>3. CASE n = 0 \/ rb[r].rows[n].state # "pending"
  <2>1. seen' = [NotSeen EXCEPT !.by = r]
    BY <1>3 DEF LookAtRollback
  <2>2. seen'.at = 0 /\ seen'.item = 0
    BY <2>1 DEF NotSeen
  <2> QED
    BY <1>1, <1>2, <1>3, <2>2 DEF Last
<1>4. CASE ~(n = 0 \/ rb[r].rows[n].state # "pending")
  <2>1. PICK held \in BOOLEAN :
          seen' = [by |-> r, at |-> n, item |-> rb[r].rows[n].item,
                   state |-> IF RecoveredUndo(rb[r].rows[n], held) = "restored" THEN "rolled_back" ELSE "rollback_failed",
                   manifest |-> [NoManifest EXCEPT !.status = RecoveredUndo(rb[r].rows[n], held)]]
    BY <1>4 DEF LookAtRollback
  <2>2. seen'.at = n /\ seen'.item = rb[r].rows[n].item /\ seen'.state \in {"rolled_back", "rollback_failed"}
    BY <2>1
  <2> QED
    BY <1>1, <1>2, <1>4, <2>2 DEF Last
<1> QED
  BY <1>3, <1>4

\* What a restart is at changes when it looks and when it writes, and with the process.
LEMMA SeenStep ==
  ASSUME Types, [Next]_vars
  PROVE  \/ seen' = seen \/ seen' = NotSeen \/ LookAtRun \/ \E r \in Rollbacks : LookAtRollback(r)
BY StepCases, ExecutorKeeps, RollbackKeeps, FaultFacts, CrashFacts, RestartFacts, RecoveredFacts,
   RecoverRunFacts, RecoverRollbackFacts, EnvironmentFs DEF vars

LEMMA AppStep ==
  ASSUME Types, Alone, [Next]_vars, joins' = 0
  PROVE  /\ joins = 0 /\ app' = "up" => app = "up" \/ (Recovered /\ app = "boot" /\ due = {})
         /\ app = "up" => seen = NotSeen /\ ~Repairing
<1>1. joins = 0
  BY JoinsGrow
<1>2. app \in {"up", "down", "boot"} /\ (app # "boot" => seen = NotSeen) /\ (Repairing => app = "boot")
  BY <1>1 DEF Alone, Repairing
<1> QED
  BY <1>1, <1>2, StepCases, ExecutorKeeps, RollbackKeeps, FaultFacts, CrashFacts, RestartFacts,
     RecoveredFacts, RecoverRunFacts, RecoverRollbackFacts, LookFs, EnvironmentFs DEF vars

LEMMA StepUndos ==
  ~EarlyRollback /\ Types /\ Alone /\ Phases /\ UndosEnd /\ [Next]_vars => UndosEnd'
<1> SUFFICES ASSUME ~EarlyRollback, Types, Alone, Phases, UndosEnd, [Next]_vars, joins' = 0, NEW r \in Rollbacks
             PROVE  EntriesEnd(r)'
  BY DEF UndosEnd
<1> DEFINE old == rb[r].rows
           new == rb'[r].rows
<1>0. /\ joins = 0 /\ UndoPhase(r) /\ UndoPhase(r)' /\ EntriesEnd(r) /\ r \in Workers /\ r # Exec
      /\ app \in {"up", "down", "boot"} /\ (app # "up" => \A p \in Workers : job[p].pc \in {"idle", "done"})
      /\ NotSeen.by # r /\ Types'
  <2>1. joins = 0 /\ r \in Workers /\ r # Exec
    BY JoinsGrow, Basics
  <2>2. Phases' /\ Types'
    BY StepPhases, StepTypes
  <2> QED
    BY <2>1, <2>2, NotSeenTyped, Basics DEF Phases, Alone, UndosEnd
<1>1. /\ old \in Seq(Entry) /\ Len(old) \in Nat /\ DOMAIN old = 1..Len(old) /\ (old = <<>> <=> Len(old) = 0)
      /\ job[r].at \in Nat /\ Item(r) = job[r].plan[job[r].at].item
  BY RollbackRows
<1>2. /\ new \in Seq(Entry) /\ Len(new) \in Nat /\ DOMAIN new = 1..Len(new) /\ (new = <<>> <=> Len(new) = 0)
      /\ job'[r].at \in Nat /\ Item(r)' = job'[r].plan[job'[r].at].item
  <2>1. rb' \in [Rollbacks -> RollbackType] /\ job'[r].at \in Nat
    BY <1>0 DEF Types, TypeOK, RollbackType
  <2>2. new \in Seq(Entry)
    BY <2>1 DEF RollbackType
  <2> QED
    BY <1>0, <2>1, <2>2, EmptySeq, ElementOfSeq DEF Item
<1>3. {"idle", "item", "source", "done", "dead"} \cap (UndoSteps \cup FailSteps) = {}
  BY DEF UndoSteps, FailSteps, MoveSteps, CopySteps, ShutilSteps
<1>4. CASE RollbackStep(r)
  <2>1. app = "up" /\ app' = app /\ seen' = NotSeen
    BY <1>0, <1>4, WorkersServe, AppStep, RollbackKeeps
  <2>2. ASSUME job[r].pc \notin UndoSteps \cup FailSteps \cup {"dead"}, NEW k \in DOMAIN old
        PROVE  old[k].state # "pending"
    BY <1>0, <2>1, <2>2 DEF EntriesEnd
  <2>3. CASE /\ job[r].pc \in UndoSteps \cup FailSteps /\ job'[r].pc \in UndoSteps \cup FailSteps
             /\ new = old /\ job'[r].at = job[r].at /\ job'[r].plan = job[r].plan
    <3>1. rb'[r].state = "rollback_running"
      BY <1>0, <2>3 DEF UndoPhase
    <3>2. Len(old) = job[r].at /\ Undoing(r, Item(r)) /\ \A k \in DOMAIN old : old[k].state = "pending" => k = Len(old)
      BY <1>0, <2>3 DEF EntriesEnd
    <3>3. Undoing(r, Item(r))'
      BY <1>1, <1>2, <2>3, <3>2 DEF Undoing, Last
    <3> QED
      BY <1>0, <1>3, <2>1, <2>3, <3>1, <3>2, <3>3 DEF EntriesEnd
  <2>4. CASE job[r].pc = "idle" /\ job'[r].pc = "item" /\ job'[r].at = 1 /\ new = old
    <3>1. old = <<>>
      BY <1>0, <2>4 DEF UndoPhase
    <3> QED
      BY <1>0, <1>1, <1>3, <2>1, <2>4, <3>1 DEF EntriesEnd
  <2>5. CASE /\ job[r].pc = "item" /\ job'[r].pc \in UndoSteps \cup FailSteps
             /\ job'[r].at = job[r].at /\ job'[r].plan = job[r].plan
             /\ Len(new) = Len(old) + 1 /\ (\A k \in 1..Len(old) : new[k] = old[k])
             /\ Len(old) + 1 = job[r].at =>
                  new[job[r].at].item = job[r].plan[job[r].at].item /\ new[job[r].at].state = "pending"
             /\ new[Len(old) + 1].state = "pending"
    <3>1. rb'[r].state = "rollback_running"
      BY <1>0, <2>5 DEF UndoPhase
    <3>2. Len(old) = job[r].at - 1
      BY <1>0, <2>5 DEF EntriesEnd
    <3>3. Len(new) = job'[r].at /\ Undoing(r, Item(r))'
      <4>1. Len(old) + 1 = job[r].at /\ Len(new) = job[r].at /\ Len(new) # 0
        BY <1>1, <2>5, <3>2
      <4>2. new[Len(new)].item = Item(r)' /\ new[Len(new)].state = "pending"
        BY <1>2, <2>5, <4>1
      <4> QED
        BY <1>2, <2>5, <4>1, <4>2 DEF Undoing, Last
    <3>4. \A k \in DOMAIN new : new[k].state = "pending" => k = Len(new)
      <4> SUFFICES ASSUME NEW k \in DOMAIN new, k # Len(new) PROVE new[k].state # "pending"
        OBVIOUS
      <4>1. k \in DOMAIN old /\ new[k] = old[k]
        BY <1>1, <1>2, <2>5
      <4> QED
        BY <1>3, <2>2, <2>5, <4>1
    <3> QED
      BY <1>0, <1>3, <2>1, <2>5, <3>1, <3>3, <3>4 DEF EntriesEnd
  <2>6. CASE /\ job[r].pc \in {"log_done", "log_failed"} /\ job'[r].pc = "item"
             /\ job'[r].at = job[r].at + 1 /\ job'[r].plan = job[r].plan
             /\ Len(new) = Len(old)
             /\ \A k \in 1..Len(old) :
                  /\ new[k].item = old[k].item
                  /\ new[k].state = IF k # job[r].at THEN old[k].state
                                    ELSE IF job[r].pc = "log_done" THEN "rolled_back" ELSE "rollback_failed"
    <3>1. Len(old) = job[r].at /\ \A k \in DOMAIN old : old[k].state = "pending" => k = Len(old)
      BY <1>0, <2>6 DEF EntriesEnd, UndoSteps, FailSteps
    <3>2. \A k \in DOMAIN new : new[k].state # "pending"
      BY <1>1, <1>2, <2>6, <3>1
    <3>3. Len(new) = job'[r].at - 1
      BY <1>1, <1>2, <2>6, <3>1
    <3> QED
      BY <1>0, <1>3, <2>1, <2>6, <3>2, <3>3 DEF EntriesEnd
  <2>7. CASE job[r].pc \in {"item", "source"} /\ job'[r].pc \in {"source", "done"} /\ new = old
    BY <1>0, <1>3, <2>1, <2>2, <2>7 DEF EntriesEnd
  <2> QED
    BY <1>4, <2>3, <2>4, <2>5, <2>6, <2>7, LogStep DEF LogOutcome
<1>5. CASE RecoverRollback(r)
  <2>1. /\ job' = job /\ job[r].pc \in {"idle", "done"} /\ seen' = NotSeen /\ seen.by = r /\ DOMAIN new = DOMAIN old
        /\ \A k \in DOMAIN old : new[k].state = IF k = seen.at THEN seen.state
                                                ELSE IF old[k].state = "pending" THEN "failed"
                                                ELSE old[k].state
    BY <1>0, <1>5, RecoverRollbackFacts DEF Repairing
  <2>2. ASSUME NEW k \in DOMAIN new PROVE new[k].state # "pending"
    <3>1. seen.at = 0 \/ seen.state # "pending"
      BY <1>0, <2>1 DEF EntriesEnd
    <3>2. k # 0
      BY <1>2
    <3> QED
      BY <2>1, <3>1, <3>2
  <2> QED
    BY <1>0, <1>3, <2>1, <2>2 DEF EntriesEnd
<1>6. CASE rb'[r] = rb[r] /\ Crash
  <2>1. app' = "down" /\ seen' = NotSeen /\ job'[r].pc \in {"idle", "done"}
    BY <1>0, <1>6, CrashFacts
  <2>2. \A k \in DOMAIN old : old[k].state = "pending" => k = Len(old) /\ rb[r].state = "rollback_running"
    BY <1>0 DEF EntriesEnd
  <2> QED
    BY <1>0, <1>3, <1>6, <2>1, <2>2 DEF EntriesEnd
<1>7. CASE rb'[r] = rb[r] /\ WriteFails(r)
  <2>1. /\ app = "up" /\ app' = app /\ seen' = NotSeen /\ FaultOutcome(r)
        /\ job'[r].at = job[r].at /\ job'[r].plan = job[r].plan
    BY <1>0, <1>7, WorkersServe, AppStep, FaultFacts
  <2>2. /\ job'[r].pc \in {"dead", "erred", "mark_done", "mark_failed"} /\ job[r].pc # "dead"
        /\ job'[r].pc # "dead" => job[r].pc \in UndoSteps \cup FailSteps
    BY <1>0, <2>1 DEF FaultOutcome, UndoSteps, FailSteps, MoveSteps
  <2>3. {"dead", "erred", "mark_done", "mark_failed"} \subseteq {"dead"} \cup UndoSteps \cup FailSteps
    BY DEF UndoSteps, FailSteps, MoveSteps
  <2>4. \A k \in DOMAIN old : old[k].state = "pending" => k = Len(old) /\ rb[r].state = "rollback_running"
    BY <1>0 DEF EntriesEnd
  <2>5. job'[r].pc # "dead" => Len(old) = job[r].at /\ Undoing(r, Item(r))
    BY <1>0, <2>2 DEF EntriesEnd
  <2>6. job'[r].pc # "dead" => Undoing(r, Item(r))'
    BY <1>1, <1>2, <1>7, <2>1, <2>5 DEF Undoing, Last
  <2> QED
    BY <1>0, <1>3, <1>7, <2>1, <2>2, <2>3, <2>4, <2>5, <2>6 DEF EntriesEnd
<1>8. CASE rb'[r] = rb[r] /\ job'[r] = job[r]
  <2>1. \A k \in DOMAIN old : old[k].state = "pending" =>
          /\ k = Len(old) /\ rb[r].state = "rollback_running"
          /\ app = "up" => job[r].pc \in {"dead"} \cup UndoSteps \cup FailSteps
    BY <1>0 DEF EntriesEnd
  <2>2. app' = "up" /\ rb[r].state = "rollback_running" => app = "up"
    BY <1>0, AppStep DEF UndoPhase, AtWork
  <2>3. /\ job[r].pc = "item" => Len(old) = job[r].at - 1
        /\ job[r].pc \in UndoSteps \cup FailSteps => Len(old) = job[r].at /\ Undoing(r, Item(r))
    BY <1>0 DEF EntriesEnd
  <2>4. Undoing(r, Item(r)) => Undoing(r, Item(r))'
    BY <1>1, <1>2, <1>8 DEF Undoing, Last
  <2>5. seen'.by = r =>
          \/ seen'.at = 0 /\ seen'.item = 0 /\ (new # <<>> => Last(r)'.state # "pending")
          \/ /\ new # <<>> /\ seen'.at = Len(new) /\ seen'.item = Last(r)'.item
             /\ seen'.state # "pending"
    <3> SUFFICES ASSUME seen'.by = r
                 PROVE  \/ seen'.at = 0 /\ seen'.item = 0 /\ (old # <<>> => Last(r).state # "pending")
                        \/ /\ old # <<>> /\ seen'.at = Len(old) /\ seen'.item = Last(r).item
                           /\ seen'.state # "pending"
      BY <1>8 DEF Last
    <3>1. CASE seen' = seen
      BY <1>0, <3>1 DEF EntriesEnd
    <3>2. CASE LookAtRollback(r)
      BY <3>2, LastJudged
    <3>3. seen' # NotSeen /\ ~LookAtRun /\ \A q \in Rollbacks : q # r => ~LookAtRollback(q)
      BY <1>0, LookAtRunFacts, LookAtRollbackFacts
    <3> QED
      BY <3>1, <3>2, <3>3, SeenStep
  <2> QED
    BY <1>8, <2>1, <2>2, <2>3, <2>4, <2>5 DEF EntriesEnd
<1> QED
  BY <1>4, <1>5, <1>6, <1>7, <1>8, RbStep, WorkerStep

---------------------------------------------------------------------------
\* What has been moved is at its target.

\* While the executor works it works alone.
LEMMA ExecAlone ==
  ASSUME Types, Phases, joins = 0, job[Exec].pc \notin {"idle", "done"}
  PROVE  /\ run.state = "running"
         /\ \A r \in Rollbacks : job[r].pc = "idle" /\ rb[r].state = "none" /\ ~Mover(r) /\ ~Shutil(r)
<1>1. run.state = "running" /\ \A r \in Rollbacks : job[r].pc = "idle" /\ rb[r].state = "none"
  BY DEF Phases, RunPhase, Begun
<1>2. ASSUME NEW r \in Rollbacks PROVE ~Mover(r) /\ ~Shutil(r)
  <2>1. "idle" \notin MoveSteps \cup ShutilSteps
    BY DEF MoveSteps, CopySteps, ShutilSteps
  <2> QED
    BY <1>1, <1>2, <2>1, MoverFs, ShutilFs, Basics
<1> QED
  BY <1>1, <1>2

LEMMA BusyFiles ==
  ASSUME Types, Phases, joins = 0, [Next]_vars, NEW i \in Items, BusyAt(i), ~Mover(Exec), ~Renames
  PROVE  \A x \in {"origin", "target", "stage"} : (Kept(i, x) => Kept(i, x)')
<1>1. job[Exec].pc \notin {"idle", "done"}
  BY DEF BusyAt, BusySteps
<1> QED
  BY <1>1, ExecAlone, FilesStep, KeptUntouched, Basics

LEMMA StepUnderway ==
  ASSUME Types, BeforeOK, QuarantineKept, Alone, Phases, joins = 0, [Next]_vars, NEW i \in Items, Underway(i)
  PROVE  Underway(i)'
<1> SUFFICES ASSUME BusyAt(i)' PROVE Underway(i)'
  BY DEF Underway
<1> USE Basics
<1>0. TypeOK /\ Item(Exec) = job[Exec].at
  BY DEF Types, Item
<1>1. CASE BeginItem /\ job[Exec].at = i
  <2>1. job'[Exec].pc = "check"
    BY <1>0, <1>1, GotoFacts DEF BeginItem, Steps
  <2> QED
    BY <2>1 DEF Underway
<1>2. CASE BusyAt(i)
  <2>0. job[Exec].at = i
    BY <1>2 DEF BusyAt
  <2>1. job[Exec].pc \in {"rename", "stage", "manifest"} => Kept(i, "origin")
    BY <2>0 DEF BeforeOK, Before
  <2>2. CASE Renames
    <3>1. RenameOutcome
      BY <2>2, RenameFs DEF Renames
    <3>2. CASE job'[Exec].pc \in {"record", "second"}
      <4>1. PICK f \in {"origin", "stage"}, t \in {"target", "stage"} :
              /\ fs'[i][t] = fs[i][f]
              /\ job'[Exec].pc = "record" => t = "target"
              /\ job'[Exec].pc = "second" => t = "stage"
              /\ f = "origin" => job[Exec].pc \in {"rename", "stage"}
              /\ f = "stage" => job[Exec].pc = "second"
        BY <2>0, <3>1, <3>2 DEF RenameOutcome
      <4>2. Kept(i, f)
        BY <1>2, <2>1, <4>1 DEF Underway
      <4>3. Kept(i, t)'
        BY <4>1, <4>2 DEF Kept
      <4> QED
        BY <3>2, <4>1, <4>3 DEF Underway
    <3>3. CASE job'[Exec].pc = "homed"
      BY <3>3 DEF Underway
    <3> QED
      BY <3>1, <3>2, <3>3 DEF RenameOutcome
  <2>3. CASE Mover(Exec)
    <3>1. /\ MoverOutcome(Exec) /\ job[Exec].pc \in MoveSteps /\ job'[Exec].leg = job[Exec].leg
          /\ Ops[i] = "quarantine"
      BY <1>0, <2>0, <2>3, MoverFs, MoverPlaces
    <3>2. CASE job[Exec].leg = "out"
      <4>1. From(Exec) = "origin" /\ To(Exec) = "target"
        BY <3>2 DEF From, To
      <4>2. job[Exec].pc \in CopySteps => Kept(i, "origin")
        <5>1. job[Exec].pc = "drop" => Kept(i, "origin")
          BY <1>0, <2>0, <3>1 DEF QuarantineKept, Dropping
        <5> QED
          BY <1>2, <3>2, <5>1 DEF Underway, CopySteps
      <4>3. /\ job'[Exec].pc \in {"moved", "drop"} => Kept(i, "target")'
            /\ job'[Exec].pc \in {"own", "fill"} => Kept(i, "origin")'
            /\ job'[Exec].pc \in {"moved", "drop", "own", "fill", "erred"}
        <5>1. job[Exec].pc = "drop" => Kept(i, "target")
          BY <1>2, <3>2 DEF Underway
        <5> QED
          BY <1>0, <2>0, <3>1, <4>1, <4>2, <5>1 DEF MoverOutcome, Kept, CopySteps
      <4> QED
        BY <4>3 DEF Underway
    <3>3. CASE job[Exec].leg # "out"
      <4>1. job'[Exec].pc \in {"own", "fill", "drop", "moved", "erred"}
        BY <3>1 DEF MoverOutcome
      <4> QED
        BY <3>1, <3>3, <4>1 DEF Underway
    <3> QED
      BY <3>2, <3>3
  <2>4. CASE ~Renames /\ ~Mover(Exec) /\ ExecutorStep
    <3>1. \A x \in {"origin", "target", "stage"} : (Kept(i, x) => Kept(i, x)')
      BY <1>2, <2>4, BusyFiles
    <3>2. CASE CheckItem \/ JournalStage \/ QuarantineFailed
      <4>1. \E s \in {"rename", "journal", "stage", "manifest", "fail", "stuck"} : Goto(Exec, s)
        <5>1. CASE CheckItem
          <6>1. Ops[Item(Exec)] \in {"rename", "case", "quarantine"}
            BY <1>0, <2>0
          <6> QED
            BY <5>1, <6>1 DEF CheckItem
        <5> QED
          BY <3>2, <5>1 DEF JournalStage, QuarantineFailed
      <4>2. job'[Exec].pc \in {"rename", "journal", "stage", "manifest", "fail", "stuck"}
        BY <1>0, <4>1, GotoFacts DEF Steps
      <4> QED
        BY <4>2 DEF Underway
    <3>3. CASE SaveManifest
      <4>1. job[Exec].pc = "manifest" /\ job'[Exec].pc = "move"
        BY <1>0, <3>3 DEF SaveManifest, TypeOK, At
      <4> QED
        BY <2>1, <3>1, <4>1 DEF Underway
    <3>4. CASE MarkAvailable
      <4>1. job[Exec].pc = "moved" /\ job[Exec].leg = "out" /\ job'[Exec].pc = "record"
        BY <1>0, <3>4, GotoFacts DEF MarkAvailable, At, Steps
      <4> QED
        BY <1>2, <3>1, <4>1 DEF Underway
    <3>5. CASE RenameFails
      <4>1. job'[Exec].pc \in {"fail", "home", "stranded"} /\ (job'[Exec].pc = "home" => job[Exec].pc = "second")
        BY <1>0, <3>5, GotoFacts DEF RenameFails, At, Steps
      <4> QED
        BY <1>2, <3>1, <4>1 DEF Underway
    <3>6. ~StartRun /\ ~BeginItem /\ ~FinishRun
      BY <1>2 DEF BusyAt, BusySteps, StartRun, BeginItem, FinishRun, At
    <3>7. ~RecordItem /\ ~FailItem /\ ~StrandItem
      BY <2>0, BusyStep
    <3> QED
      BY <2>4, <3>2, <3>3, <3>4, <3>5, <3>6, <3>7 DEF ExecutorStep, Renames
  <2>5. CASE WriteFails(Exec)
    <3>1. FaultOutcome(Exec)
      BY <2>5, FaultFacts
    <3>2. job'[Exec].pc \in {"fail", "dead"} \/ (job'[Exec].pc = "move" /\ job'[Exec].leg = "back")
      BY <3>1 DEF FaultOutcome
    <3> QED
      BY <3>2 DEF Underway
  <2>6. CASE ~ExecutorStep /\ job'[Exec] = job[Exec]
    <3>1. ~Renames /\ ~Mover(Exec)
      BY <2>6 DEF ExecutorStep, Renames
    <3>2. \A x \in {"origin", "target", "stage"} : (Kept(i, x) => Kept(i, x)')
      BY <1>2, <3>1, BusyFiles
    <3> QED
      BY <1>2, <2>6, <3>2 DEF Underway
  <2>7. ~Crash
    BY CrashFacts DEF BusyAt, BusySteps
  <2> QED
    BY <2>2, <2>3, <2>4, <2>5, <2>6, <2>7, WorkerStep
<1> QED
  BY <1>1, <1>2, BusyStep

\* What a restart takes for quarantined is there.
LEMMA JudgedKept ==
  ASSUME Types, QuarantineKept, LookAtRun, seen'.state = "quarantined"
  PROVE  seen'.item \in Items /\ Kept(seen.item, "target")'
<1>1. seen' # [NotSeen EXCEPT !.by = Exec]
  BY DEF NotSeen
<1>2. PICK i \in InterruptedItem, held \in BOOLEAN :
        seen' = [by |-> Exec, at |-> 0, item |-> i, state |-> RecoveredRow(i, held).state,
                 manifest |-> [manifest[i] EXCEPT !.status = RecoveredRow(i, held).status]]
  BY <1>1 DEF LookAtRun
<1>3. i \in Items /\ seen'.item = i /\ RecoveredRow(i, held).state = "quarantined"
  BY <1>2 DEF InterruptedItem
<1>4. Ops[i] = "quarantine" /\ Exists(i, "target") /\ ~Exists(i, "origin")
  BY <1>3 DEF RecoveredRow
<1>5. ~Kept(i, "origin")
  BY <1>4 DEF Exists, Present, Kept
<1>6. Kept(i, "target")
  BY <1>3, <1>4, <1>5 DEF QuarantineKept
<1>7. Kept(i, "target")'
  BY <1>3, <1>6, LookFs DEF Kept
<1> QED
  BY <1>3, <1>7 DEF Kept

LEMMA InitMoves == Init => MovesKept
<1> SUFFICES ASSUME Init PROVE MovesKept
  OBVIOUS
<1>1. /\ \A p \in Workers : job[p].pc = "idle"
      /\ \A i \in Items : row[i].state = "none"
      /\ seen.by = "none"
  BY DEF Init, Idle, NoRow, NotSeen
<1> QED
  BY <1>1, Basics DEF MovesKept, Underway, BusyAt, BusySteps, Moved, Succeeded

\* A rollback writes the source item, then its own entry.
LEMMA MarkLogs ==
  ASSUME Types, NEW r \in Rollbacks, RollbackStep(r), job'[r].pc \in {"log_done", "log_failed"}
  PROVE  MarkItem(r)
<1>0. TypeOK /\ r \in Workers
  BY Basics DEF Types
<1>1. ~StartRollback(r) /\ ~LogUndo(r)
  BY SMTT(20), <1>0, StartFacts, NextItemFacts DEF LogUndo
<1>2. ~BeginUndo(r) /\ ~JournalRestore(r) /\ ~SyncManifest(r) /\ ~FinishRollback(r) /\ ~FinishSource(r)
  BY ZenonT(40), <1>0, GotoFacts DEF BeginUndo, JournalRestore, SyncManifest, FinishRollback, FinishSource, Steps
<1>3. ~Mover(r)
  BY <1>0, MoverFs DEF MoverOutcome
<1>4. ~Shutil(r)
  BY <1>0, ShutilFs DEF ShutilOutcome
<1> QED
  BY <1>1, <1>2, <1>3, <1>4 DEF RollbackStep, Shutil

\* A rollback takes an item from its target while its entry says so.
LEMMA MovedStays ==
  ASSUME Types, Alone, Phases, UndosEnd, MovesKept, UndosEnd', [Next]_vars, joins' = 0, NEW i \in Items,
         Succeeded(i), row[i].undo = "none", row'[i].undo = "none"
  PROVE  Kept(i, "target")' \/ \E r \in Rollbacks : Undoing(r, i)'
<1> USE Basics
<1>0. joins = 0 /\ (Kept(i, "target") \/ \E r \in Rollbacks : Undoing(r, i))
  BY JoinsGrow DEF MovesKept, Moved
<1>1. CASE Kept(i, "target")
  <2>1. ~(Mover(Exec) /\ Item(Exec) = i) /\ ~(Renames /\ job[Exec].at = i)
    <3>1. ~BusyAt(i)
      BY <1>0 DEF Alone, Succeeded
    <3>2. Mover(Exec) /\ Item(Exec) = i => BusyAt(i)
      BY MoverFs DEF Item, BusyAt, BusySteps, MoveSteps, CopySteps
    <3>3. Renames /\ job[Exec].at = i => BusyAt(i)
      BY RenameFs DEF Renames, RenameOutcome, BusyAt, BusySteps
    <3> QED
      BY <3>1, <3>2, <3>3
  <2>2. ASSUME NEW r \in Rollbacks, Item(r) = i, Mover(r) \/ Shutil(r)
        PROVE  Undoing(r, i)'
    <3>1. Item(r)' = i /\ job'[r].pc \in UndoSteps \cup FailSteps
      <4>1. CASE Mover(r)
        BY ZenonT(40), <2>2, <4>1, MoverFs DEF MoverOutcome, UndoSteps, MoveSteps, CopySteps, Item
      <4>2. CASE Shutil(r)
        BY ZenonT(40), <2>2, <4>2, ShutilFs DEF ShutilOutcome, UndoSteps, FailSteps, ShutilSteps, Item
      <4> QED
        BY <2>2, <4>1, <4>2
    <3>2. EntriesEnd(r)'
      BY DEF UndosEnd
    <3>3. Undoing(r, Item(r))'
      BY <3>1, <3>2 DEF EntriesEnd
    <3> QED
      BY <3>1, <3>3 DEF Undoing
  <2>3. CASE Untouched(i, "target")
    BY <1>1, <2>3, KeptUntouched
  <2> QED
    BY <2>1, <2>2, <2>3, FilesStep
<1>2. CASE \E r \in Rollbacks : Undoing(r, i)
  <2>1. PICK r \in Rollbacks : Undoing(r, i)
    BY <1>2
  <2>2. EntriesEnd(r) /\ rb[r].rows # <<>> /\ Last(r).state = "pending" /\ Last(r).item = i
    BY <1>0, <2>1 DEF UndosEnd, Undoing
  <2>3. CASE rb'[r].rows = rb[r].rows
    BY <2>1, <2>3 DEF Undoing, Last
  <2>4. CASE RecoverRollback(r)
    <3>1. seen.item = i
      BY <2>2, <2>4, RecoverRollbackFacts DEF EntriesEnd
    <3>2. row'[i].undo # "none"
      BY <2>4, <3>1, RecoverRollbackFacts
    <3> QED
      BY <3>2
  <2>5. CASE RollbackStep(r) /\ rb'[r].rows # rb[r].rows
    <3>1. app = "up"
      BY <1>0, <2>5, WorkersServe DEF Alone
    <3>2. Len(rb[r].rows) \in DOMAIN rb[r].rows
      BY <2>2, RollbackRows
    <3>3. job[r].pc \in UndoSteps \cup FailSteps
      <4>1. job[r].pc \in {"dead"} \cup UndoSteps \cup FailSteps
        BY <2>2, <3>1, <3>2 DEF EntriesEnd, Last
      <4> QED
        BY <2>5, <4>1, RollbackKeeps DEF UndoSteps, FailSteps, MoveSteps, CopySteps, ShutilSteps
    <3>4. job[r].pc \in {"log_done", "log_failed"}
      BY <2>5, <3>3, LogStep DEF LogOutcome, UndoSteps, FailSteps, MoveSteps, CopySteps, ShutilSteps
    <3>5. Item(r) = i
      BY <2>2, <3>3 DEF EntriesEnd, Undoing
    <3> QED
      BY <1>0, <3>4, <3>5 DEF MovesKept
  <2> QED
    BY <2>3, <2>4, <2>5, EntriesStep
<1> QED
  BY <1>0, <1>1, <1>2

LEMMA StepMoves ==
  /\ ~EarlyRollback /\ Types /\ BeforeOK /\ QuarantineKept /\ Alone
  /\ Phases /\ UndosEnd /\ MovesKept /\ [Next]_vars
  => MovesKept'
<1> SUFFICES ASSUME ~EarlyRollback, Types, BeforeOK, QuarantineKept, Alone, Phases, UndosEnd, MovesKept,
                    [Next]_vars, joins' = 0
             PROVE  /\ \A i \in Items : Underway(i)' /\ Moved(i)'
                    /\ \A r \in Rollbacks : job'[r].pc \in {"log_done", "log_failed"} => row'[Item(r)'].undo # "none"
                    /\ seen'.by = Exec /\ seen'.state = "quarantined" => Kept(seen.item, "target")'
  BY DEF MovesKept
<1> USE Basics
<1>0. joins = 0 /\ UndosEnd' /\ Phases'
  BY JoinsGrow, StepUndos, StepPhases
<1>1. ASSUME NEW i \in Items PROVE Underway(i)'
  BY <1>0, StepUnderway DEF MovesKept
<1>2. ASSUME NEW i \in Items PROVE Moved(i)'
  <2> SUFFICES ASSUME Succeeded(i)', row'[i].undo = "none"
               PROVE  Kept(i, "target")' \/ \E r \in Rollbacks : Undoing(r, i)'
    BY DEF Moved
  <2>1. CASE Succeeded(i) /\ row[i].undo = "none"
    BY <1>0, <2>1, MovedStays
  <2>2. CASE row'[i].state = row[i].state /\ row'[i].undo = row[i].undo
    BY <2>1, <2>2 DEF Succeeded
  <2>3. CASE (RecordItem \/ FailItem \/ StrandItem) /\ job[Exec].at = i
    <3>1. RecordItem
      <4>1. ASSUME FailItem \/ StrandItem PROVE row'[i].state = "failed"
        BY <2>3, <4>1 DEF FailItem, StrandItem, EndItem, Item, Types, TypeOK
      <4> QED
        BY <2>3, <4>1 DEF Succeeded
    <3>2. job[Exec].pc = "record" /\ fs' = fs
      BY <3>1 DEF RecordItem, EndItem, Keeping, At
    <3>3. Underway(i) /\ BusyAt(i)
      BY <1>0, <2>3, <3>2 DEF MovesKept, BusyAt, BusySteps
    <3> QED
      BY <3>2, <3>3 DEF Underway, Kept
  <2>4. CASE RecoverRun
    <3>1. /\ fs' = fs /\ seen.by = Exec /\ row'[i].undo = row[i].undo
          /\ row'[i].state = IF i = seen.item /\ seen.state # "pending" THEN seen.state
                             ELSE IF row[i].state = "pending" THEN "failed" ELSE row[i].state
      BY <2>4, RecoverRunFacts
    <3>2. CASE i = seen.item /\ seen.state # "pending"
      <4>1. seen.state = "quarantined"
        BY <3>1, <3>2 DEF Types, Shape, SeenShape, Succeeded
      <4> QED
        BY <1>0, <3>1, <3>2, <4>1 DEF MovesKept, Kept
    <3>3. CASE ~(i = seen.item /\ seen.state # "pending")
      <4>1. row'[i].state = row[i].state
        BY <3>1, <3>3 DEF Succeeded
      <4> QED
        BY <2>2, <3>1, <4>1
    <3> QED
      BY <3>2, <3>3
  <2> QED
    BY <2>2, <2>3, <2>4, RowStep DEF Succeeded, SameMove
<1>3. ASSUME NEW r \in Rollbacks, job'[r].pc \in {"log_done", "log_failed"}
      PROVE  row'[Item(r)'].undo # "none"
  <2>1. CASE RollbackStep(r)
    <3>1. MarkItem(r)
      BY <1>3, <2>1, MarkLogs
    <3>2. Item(r)' = Item(r) /\ Item(r) \in Items /\ row' = [row EXCEPT ![Item(r)].undo = row'[Item(r)].undo]
          /\ row'[Item(r)].undo # "none"
      <4>1. job[r].pc \in UndoSteps \cup FailSteps
        BY <3>1 DEF MarkItem, At, UndoSteps, FailSteps
      <4>2. Item(r) \in Items
        BY <4>1, UndoPlaces
      <4>3. Item(r)' = Item(r)
        BY ZenonT(40), <2>1, <3>1, GotoFacts DEF MarkItem, Item, Types, Steps
      <4>4. \E u \in {"done", "failed"} : row' = [row EXCEPT ![Item(r)].undo = u]
        BY <3>1 DEF MarkItem
      <4> QED
        BY <4>2, <4>3, <4>4 DEF Types, TypeOK
    <3> QED
      BY <3>2
  <2>2. CASE job'[r] = job[r]
    <3>1. job[r].pc \in {"log_done", "log_failed"} /\ Item(r)' = Item(r)
      BY <1>3, <2>2 DEF Item
    <3>2. Item(r) \in Items /\ row[Item(r)].undo # "none"
      BY <1>0, <3>1, UndoPlaces DEF MovesKept, UndoSteps, FailSteps
    <3>3. job[Exec].pc \in {"idle", "done"}
      BY <1>0, <3>1, ExecAlone
    <3>4. ~BeginItem /\ ~RecordItem /\ ~FailItem /\ ~StrandItem
      BY <3>3 DEF BeginItem, RecordItem, FailItem, StrandItem, At
    <3> QED
      BY <3>1, <3>2, <3>4, RowStep
  <2>3. ~WriteFails(r)
    BY <1>3, FaultFacts DEF FaultOutcome
  <2>4. ~Crash
    BY <1>3, CrashFacts
  <2> QED
    BY <2>1, <2>2, <2>3, <2>4, WorkerStep
<1>4. ASSUME seen'.by = Exec, seen'.state = "quarantined"
      PROVE  Kept(seen.item, "target")'
  <2>1. CASE seen' = seen
    <3>1. Kept(seen.item, "target")
      BY <1>0, <1>4, <2>1 DEF MovesKept
    <3>2. seen.item \in Items
      BY <1>4, <2>1 DEF Types, TypeOK, Seen, Shape, SeenShape
    <3>3. app # "up"
      BY <1>0, <1>4, <2>1, AppStep, NotSeenTyped
    <3>4. ~ExecutorStep /\ \A r \in Rollbacks : ~RollbackStep(r)
      BY <1>0, <3>3, WorkersServe DEF Alone
    <3>5. Untouched(seen.item, "target")
      <4>1. \A p \in Workers : ~Mover(p)
        BY <3>4 DEF ExecutorStep, RollbackStep
      <4>2. ~Renames /\ \A r \in Rollbacks : ~Shutil(r)
        BY <3>4 DEF ExecutorStep, RollbackStep, Renames, Shutil
      <4> QED
        BY <3>2, <4>1, <4>2, FilesStep
    <3> QED
      BY <2>1, <3>1, <3>5, KeptUntouched
  <2>2. CASE LookAtRun
    BY <1>4, <2>2, JudgedKept
  <2>3. seen' # NotSeen /\ \A r \in Rollbacks : ~LookAtRollback(r)
    BY <1>4, NotSeenTyped, LookAtRollbackFacts
  <2> QED
    BY <2>1, <2>2, <2>3, SeenStep
<1> QED
  BY <1>1, <1>2, <1>3, <1>4

---------------------------------------------------------------------------
\* The list of runs says what there is to undo.

LEMMA ItemsNotEmpty == Items # {}
<1>1. Ops \in Seq({"rename", "case", "quarantine"}) /\ Ops # <<>>
  BY ConstantsAssumption DEF ConstantsAssumption
<1>2. Items = 1..Len(Ops) /\ Len(Ops) \in Nat /\ Len(Ops) # 0
  BY <1>1, EmptySeq DEF Items
<1>3. 1 \in Items
  BY <1>2
<1> QED
  BY <1>3

LEMMA FinalFacts ==
  /\ FinalState \in {"success", "failed", "partial_success"}
  /\ FinalState = "failed" <=> \A i \in Items : ~Succeeded(i)
<1>1. (\A i \in Items : Succeeded(i)) => ~\A i \in Items : ~Succeeded(i)
  BY ItemsNotEmpty
<1> QED
  BY <1>1 DEF FinalState

\* A run that is over, and the workers of it.
LEMMA RunOver ==
  ASSUME Types, Phases, joins = 0, run.state \notin {"none", "running"}, [Next]_vars
  PROVE  /\ job[Exec].pc = "done" /\ ~ExecutorStep /\ ~WriteFails(Exec) /\ ~RecoverRun
         /\ \A i \in Items : ~BusyAt(i)
<1>1. job[Exec].pc = "done" /\ Exec \notin due
  <2>1. job[Exec].pc \in {"idle", "done"} /\ job[Exec].pc # "idle" /\ Exec \notin due
    BY DEF Phases, RunPhase
  <2> QED
    BY <2>1
<1>2. ~ExecutorStep /\ ~WriteFails(Exec)
  BY <1>1, ExecutorKeeps, FaultFacts, Basics DEF BusySteps, FaultOutcome
<1>3. ~RecoverRun
  BY <1>1, RecoverRunFacts
<1> QED
  BY <1>1, <1>2, <1>3 DEF BusyAt, BusySteps

LEMMA InitListed == Init => Listed
<1> SUFFICES ASSUME Init PROVE ~run.avail /\ run.state = "none"
  BY DEF Listed
<1> QED
  BY DEF Init

\* What becomes of the rows of a run that is over.
LEMMA RowOver ==
  ASSUME Types, Phases, joins = 0, run.state \notin {"none", "running"}, [Next]_vars, NEW i \in Items
  PROVE  /\ SameMove(i)
         /\ \/ row'[i] = row[i]
            \/ \E r \in Rollbacks : MarkItem(r) /\ Item(r) = i /\ job'[r].pc \in {"log_done", "log_failed"}
            \/ \E r \in Rollbacks : RecoverRollback(r)
<1>1. ~ExecutorStep /\ ~RecoverRun
  BY RunOver
<1>2. ~(BeginItem \/ JournalStage \/ RecordItem \/ FailItem \/ StrandItem)
  BY <1>1 DEF ExecutorStep
<1> QED
  BY <1>1, <1>2, RowStep DEF SameMove

LEMMA StepListed ==
  ~EarlyRollback /\ Types /\ Alone /\ Phases /\ ItemsEnd /\ Listed /\ [Next]_vars => Listed'
<1> SUFFICES ASSUME ~EarlyRollback, Types, Alone, Phases, ItemsEnd, Listed, [Next]_vars, joins' = 0
             PROVE  /\ Fresh' /\ run'.avail =>
                         /\ run'.state # "rolled_back"
                         /\ Open' \/ \E r \in Rollbacks : job'[r].pc \notin {"idle", "done"}
                    /\ ~run'.avail /\ run'.state \notin {"none", "running", "rolled_back"} =>
                         \A i \in Items : ~Succeeded(i)'
  <2>1. joins' # 0 => ~Fresh'
    BY DEF Fresh
  <2> QED
    BY <2>1 DEF Listed
<1> USE Basics
<1>0. joins = 0
  BY JoinsGrow
<1>1. CASE run' = run /\ ~FinishRun /\ ~RecoverRun
  <2>1. ASSUME Fresh', run'.avail
        PROVE  /\ run'.state # "rolled_back"
               /\ Open' \/ \E r \in Rollbacks : job'[r].pc \notin {"idle", "done"}
    <3>1. /\ Fresh /\ ~Crash /\ (\A r \in Rollbacks : ~RecoverRollback(r))
      BY <2>1, FreshBefore
    <3>2. run.state # "rolled_back" /\ (Open \/ \E r \in Rollbacks : job[r].pc \notin {"idle", "done"})
      BY <1>1, <2>1, <3>1 DEF Listed
    <3>3. run.state \notin {"none", "running"}
      BY <1>0, <1>1, <2>1 DEF Phases, RunPhase
    <3>4. CASE Open
      <4>1. PICK i \in Items : Rollbackable(i) /\ row[i].undo # "done"
        BY <3>4 DEF Open
      <4>2. CASE row'[i] = row[i]
        BY <1>1, <3>2, <4>1, <4>2 DEF Open, Rollbackable, Succeeded
      <4>3. CASE \E r \in Rollbacks : job'[r].pc \in {"log_done", "log_failed"}
        BY <1>1, <3>2, <4>3
      <4> QED
        BY <1>0, <3>1, <3>3, <4>2, <4>3, RowOver
    <3>5. ASSUME NEW r \in Rollbacks, job[r].pc \notin {"idle", "done"}
          PROVE  Open' \/ job'[r].pc \notin {"idle", "done"}
      <4>1. CASE RollbackStep(r)
        <5>1. CASE FinishSource(r)
          <6>1. row' = row /\ \E i \in Items : Rollbackable(i) /\ row[i].undo # "done"
            BY <1>1, <2>1, <5>1 DEF FinishSource, Keeping
          <6> QED
            BY <6>1 DEF Open, Rollbackable, Succeeded
        <5>2. {"idle", "done"} \cap (UndoSteps \cup FailSteps) = {}
          BY DEF UndoSteps, FailSteps, MoveSteps, CopySteps, ShutilSteps
        <5> QED
          BY <4>1, <5>1, <5>2, UndoRun
      <4>2. WriteFails(r) => job'[r].pc \notin {"idle", "done"}
        BY FaultFacts DEF FaultOutcome
      <4> QED
        BY <3>1, <3>5, <4>1, <4>2, WorkerStep
    <3> QED
      BY <1>1, <3>2, <3>4, <3>5
  <2>2. ASSUME ~run'.avail, run'.state \notin {"none", "running", "rolled_back"}, NEW i \in Items
        PROVE  ~Succeeded(i)'
    <3>1. ~Succeeded(i) /\ run.state \notin {"none", "running"}
      BY <1>0, <1>1, <2>2 DEF Listed
    <3> QED
      BY <1>0, <3>1, RowOver DEF SameMove, Succeeded
  <2> QED
    BY <2>1, <2>2
<1>2. CASE run'.state = "running" /\ ~run'.avail
  BY <1>2
<1>3. CASE FinishRun /\ run.state = "running"
  <2>1. run' = [state |-> FinalState, avail |-> FinalState # "failed"] /\ row' = row
    BY <1>3 DEF FinishRun, Keeping
  <2>2. run'.state = FinalState /\ (run'.avail <=> FinalState # "failed")
    BY <2>1
  <2>3. \A i \in Items : row[i].undo = "none"
    BY <1>0, <1>3 DEF ItemsEnd
  <2>4. ASSUME NEW i \in Items, Succeeded(i) PROVE Open'
    BY <2>1, <2>3, <2>4 DEF Open, Rollbackable, Succeeded
  <2>5. \A i \in Items : Succeeded(i)' <=> Succeeded(i)
    BY <2>1 DEF Succeeded
  <2> QED
    BY <2>2, <2>4, <2>5, FinalFacts
<1>4. CASE RecoverRun
  <2>1. ~Fresh'
    BY <1>4, FreshBefore
  <2>2. run' = [state |-> "interrupted", avail |-> HasRollback(row')]
    BY <1>4 DEF RecoverRun
  <2> QED
    BY <2>1, <2>2 DEF HasRollback, Succeeded
<1>5. ASSUME NEW r \in Rollbacks, FinishSource(r), run' # run
      PROVE  run'.state = "rolled_back" /\ ~run'.avail
  BY <1>5 DEF FinishSource
<1>6. ASSUME NEW r \in Rollbacks, RecoverRollback(r)
      PROVE  /\ ~Fresh'
             /\ ~run'.avail /\ run'.state # "rolled_back" => run' = run /\ \A i \in Items : ~Succeeded(i)'
  <2>1. ~Fresh'
    BY <1>6, FreshBefore
  <2>2. run' = SourceRun(row')
    BY <1>6 DEF RecoverRollback
  <2>3. run \in [state : RunStates, avail : BOOLEAN]
    BY DEF Types, TypeOK
  <2>4. ASSUME ~run'.avail, run'.state # "rolled_back"
        PROVE  /\ run' = run
               /\ {i \in Items : \/ row'[i].state \in {"renamed", "quarantined"}
                                 \/ row'[i].state = "failed" /\ row'[i].temp # "none"} = {}
    BY <2>2, <2>3, <2>4 DEF SourceRun
  <2> QED
    BY <2>1, <2>4 DEF Succeeded
<1>7. run.state \notin {"none", "running"} => ~FinishRun /\ ~RecoverRun
  BY <1>0, RunOver DEF ExecutorStep
<1> QED
  BY <1>1, <1>2, <1>3, <1>4, <1>5, <1>6, <1>7, RunChange

---------------------------------------------------------------------------
\* The files of a run that is called rolled back are home.

LEMMA InitRunHome == Init => RunHome
BY DEF Init, RunHome

LEMMA StepRunHome ==
  ~EarlyRollback /\ Types /\ Alone /\ Phases /\ Home' /\ RunHome /\ [Next]_vars => RunHome'
<1> SUFFICES ASSUME ~EarlyRollback, Types, Alone, Phases, Home', RunHome, [Next]_vars, joins' = 0,
                    run'.state = "rolled_back", NEW i \in Items, Rollbackable(i)'
             PROVE  HomeAgain(i)'
  BY DEF RunHome
<1>0. joins = 0 /\ run \in [state : RunStates, avail : BOOLEAN]
  BY JoinsGrow DEF Types, TypeOK
<1>1. ASSUME row'[i].undo = "done" PROVE HomeAgain(i)'
  <2>1. Settled(i)'
    BY <1>1 DEF Home, Restored
  <2> QED
    BY <2>1 DEF Settled, HomeAgain
<1>2. CASE run.state = "rolled_back"
  <2>1. SameMove(i) /\ ~BusyAt(i)
    BY <1>0, <1>2, RunOver, RowOver
  <2>2. Rollbackable(i)
    BY <2>1 DEF SameMove, Rollbackable, Succeeded
  <2>3. HomeAgain(i)
    BY <1>0, <1>2, <2>2 DEF RunHome
  <2> QED
    BY <2>1, <2>3, HomeStays DEF HomeAgain
<1>3. ASSUME NEW r \in Rollbacks, FinishSource(r), run.state # "rolled_back"
      PROVE  row'[i].undo = "done"
  <2>1. row' = row /\ \A j \in Items : ~Rollbackable(j) \/ row[j].undo = "done"
    BY <1>3 DEF FinishSource, Keeping
  <2> QED
    BY <2>1 DEF Rollbackable, Succeeded
<1>4. ASSUME NEW r \in Rollbacks, RecoverRollback(r), run.state # "rolled_back"
      PROVE  row'[i].undo = "done"
  <2>1. run' = SourceRun(row')
    BY <1>4 DEF RecoverRollback
  <2>2. \A j \in {j \in Items : \/ row'[j].state \in {"renamed", "quarantined"}
                                \/ row'[j].state = "failed" /\ row'[j].temp # "none"} : row'[j].undo = "done"
    BY <1>0, <1>4, <2>1 DEF SourceRun
  <2> QED
    BY <2>2 DEF Rollbackable, Succeeded
<1>5. FinishRun => run'.state # "rolled_back"
  BY FinalFacts DEF FinishRun
<1>6. RecoverRun => run'.state # "rolled_back"
  BY RecoverRunFacts
<1> QED
  BY <1>0, <1>1, <1>2, <1>3, <1>4, <1>5, <1>6, RunChange

---------------------------------------------------------------------------
\* A file in quarantine can be named.

\* A rollback has a copy of its own, and the executor's is gone once it has its name.
LEMMA OthersCopy ==
  ASSUME Types, NEW r \in Rollbacks, Mover(r)
  PROVE  fs'[Item(r)]["copy"] = fs[Item(r)]["copy"]
<1>1. job[r].pc \in MoveSteps /\ r \in Workers
  BY MoverFs, Basics
<1>2. Item(r) \in Items /\ From(r) = "target" /\ To(r) = "origin" /\ Temp(r) = "rcopy" /\ TypeOK
  BY <1>1, MoverPlaces, UndoPlaces, Basics DEF Types, UndoSteps
<1>3. "copy" \in Places /\ {"target", "origin", "rcopy"} \subseteq Places
  BY DEF Places
<1>4. CASE MoverRename(r)
  BY <1>2, <1>3, <1>4, MoveFileTyped DEF MoverRename
<1>5. CASE MoverOpen(r)
  BY <1>2, <1>3, <1>5 DEF MoverOpen, TypeOK
<1>6. CASE MoverOwn(r)
  BY <1>6 DEF MoverOwn, Keeping
<1>7. CASE MoverFill(r)
  BY <1>2, <1>3, <1>7 DEF MoverFill, TypeOK
<1>8. CASE MoverDrop(r)
  BY <1>2, <1>3, <1>8 DEF MoverDrop, TypeOK
<1>9. CASE MoverFails(r)
  <2>1. PICK left \in SUBSET {"rcopy", "origin"} :
          fs' = [fs EXCEPT ![Item(r)] = [q \in Places |-> IF q \in left THEN "none" ELSE @[q]]]
    <3> DEFINE l == CASE At(r, "own") \/ At(r, "fill") -> {Temp(r)}
                      [] At(r, "drop") /\ Present(Item(r), From(r)) -> {To(r)}
                      [] OTHER -> {}
    <3>1. l \in SUBSET {"rcopy", "origin"}
      BY <1>2
    <3>2. fs' = [fs EXCEPT ![Item(r)] = [q \in Places |-> IF q \in l THEN "none" ELSE @[q]]]
      BY <1>9 DEF MoverFails
    <3> HIDE DEF l
    <3> QED
      BY <3>1, <3>2
  <2> QED
    BY <1>2, <1>3, <2>1 DEF TypeOK
<1> QED
  BY <1>4, <1>5, <1>6, <1>7, <1>8, <1>9 DEF Mover

LEMMA OutCopy ==
  ASSUME Types, Mover(Exec), job[Exec].leg = "out"
  PROVE  LET i == job[Exec].at IN
         /\ fs'[i]["copy"] \in {fs[i]["copy"], "part", "none"}
         /\ fs'[i]["copy"] = "part" =>
              \/ ~cross /\ fs[i]["copy"] = "part"
              \/ cross /\ fs'[i]["target"] = "none"
              \/ fs[i]["copy"] = "part" /\ fs'[i]["target"] \in {fs[i]["target"], "none"}
<1> DEFINE i == job[Exec].at
<1>1. job[Exec].pc \in MoveSteps /\ Exec \in Workers
  BY MoverFs, Basics
<1>2. /\ Item(Exec) = i /\ i \in Items /\ From(Exec) = "origin" /\ To(Exec) = "target" /\ Temp(Exec) = "copy"
      /\ TypeOK /\ Ops[i] = "quarantine"
  BY <1>1, MoverPlaces DEF Types, Item, From, To, Temp
<1> HIDE DEF i
<1>3. {"origin", "target", "copy"} \subseteq Places
  BY DEF Places
<1>4. CASE MoverRename(Exec)
  <2>1. ~cross /\ MoveFile(i, "origin", "target")
    BY <1>2, <1>4 DEF MoverRename
  <2>2. fs'[i]["copy"] = fs[i]["copy"]
    BY <1>2, <1>3, <2>1, MoveFileTyped
  <2> QED
    BY <2>1, <2>2 DEF i
<1>5. CASE MoverOpen(Exec)
  <2>1. cross /\ ~Exists(i, "target") /\ fs' = [fs EXCEPT ![i]["copy"] = "part"]
    BY <1>2, <1>5 DEF MoverOpen
  <2>2. fs'[i]["copy"] = "part" /\ fs'[i]["target"] = fs[i]["target"]
    BY <1>2, <1>3, <2>1 DEF TypeOK
  <2>3. fs[i]["target"] = "none"
    BY <2>1 DEF Exists, Present
  <2> QED
    BY <2>1, <2>2, <2>3 DEF i
<1>6. CASE MoverOwn(Exec)
  <2>1. fs' = fs
    BY <1>6 DEF MoverOwn, Keeping
  <2> QED
    BY <2>1
<1>7. CASE MoverFill(Exec)
  <2>1. fs' = [fs EXCEPT ![i]["copy"] = "none", ![i]["target"] = fs[i]["origin"]]
    BY <1>2, <1>7 DEF MoverFill
  <2>2. fs'[i]["copy"] = "none"
    BY <1>2, <1>3, <2>1 DEF TypeOK
  <2> QED
    BY <2>2 DEF i
<1>8. CASE MoverDrop(Exec)
  <2>1. fs' = [fs EXCEPT ![i]["origin"] = "none"]
    BY <1>2, <1>8 DEF MoverDrop
  <2>2. fs'[i]["copy"] = fs[i]["copy"] /\ fs'[i]["target"] = fs[i]["target"]
    BY <1>2, <1>3, <2>1 DEF TypeOK
  <2> QED
    BY <2>2 DEF i
<1>9. CASE MoverFails(Exec)
  <2>1. PICK left \in SUBSET {"copy", "target"} :
          fs' = [fs EXCEPT ![i] = [q \in Places |-> IF q \in left THEN "none" ELSE @[q]]]
    <3> DEFINE l == CASE At(Exec, "own") \/ At(Exec, "fill") -> {Temp(Exec)}
                      [] At(Exec, "drop") /\ Present(Item(Exec), From(Exec)) -> {To(Exec)}
                      [] OTHER -> {}
    <3>1. l \in SUBSET {"copy", "target"}
      BY <1>2
    <3>2. fs' = [fs EXCEPT ![i] = [q \in Places |-> IF q \in l THEN "none" ELSE @[q]]]
      BY <1>2, <1>9 DEF MoverFails
    <3> HIDE DEF l
    <3> QED
      BY <3>1, <3>2
  <2>2. fs'[i]["copy"] \in {fs[i]["copy"], "none"} /\ fs'[i]["target"] \in {fs[i]["target"], "none"}
    BY <1>2, <1>3, <2>1 DEF TypeOK
  <2> QED
    BY <2>2 DEF i
<1> QED
  BY <1>4, <1>5, <1>6, <1>7, <1>8, <1>9 DEF Mover

\* Beside the executor a stranger may take the name of the copy, and a restart removes it.
LEMMA CopyStep ==
  ASSUME Types, [Next]_vars, NEW i \in Items, Ops[i] = "quarantine"
  PROVE  \/ Mover(Exec) /\ job[Exec].at = i
         \/ fs'[i]["copy"] = fs[i]["copy"]
         \/ fs[i]["copy"] = "none" /\ fs'[i]["copy"] = "other"
         \/ fs[i]["copy"] = "own"
         \/ fs'[i]["copy"] = "none" /\ LookAtRun /\ row[i].state = "pending"
<1> USE Basics
<1>0. TypeOK /\ Item(Exec) = job[Exec].at /\ "copy" \in Places
  BY DEF Types, Item, Places
<1>1. CASE fs'[i] = fs[i]
  BY <1>1
<1>2. CASE ExecutorStep
  <2>1. CASE Mover(Exec)
    BY <1>0, <1>1, <2>1, MoverFs
  <2>2. CASE Renames
    BY <1>1, <2>2, RenameFs DEF Renames
  <2>3. CASE ~Mover(Exec) /\ ~Renames
    <3>1. fs' = fs
      BY <1>2, <2>3 DEF ExecutorStep, Renames, StartRun, BeginItem, CheckItem, JournalStage, SaveManifest,
         MarkAvailable, QuarantineFailed, RecordItem, FailItem, StrandItem, EndItem, FinishRun, RenameFails,
         Keeping, store
    <3> QED
      BY <3>1
  <2> QED
    BY <2>1, <2>2, <2>3
<1>3. ASSUME NEW r \in Rollbacks, RollbackStep(r)
      PROVE  fs'[i]["copy"] = fs[i]["copy"]
  <2>1. CASE Mover(r)
    BY <1>3, <2>1, MoverFs, OthersCopy
  <2>2. CASE Shutil(r)
    <3>1. job[r].pc \in ShutilSteps /\ \A j \in Items : j # Item(r) => fs'[j] = fs[j]
      BY <2>2, ShutilFs
    <3>2. \A x \in Places : x \notin {"origin", From(r)} => fs'[Item(r)][x] = fs[Item(r)][x]
      BY <2>2, ShutilFs
    <3>3. From(r) \in {"target", "stage"}
      BY <3>1, UndoPlaces DEF UndoSteps
    <3> QED
      BY <1>0, <3>1, <3>2, <3>3
  <2>3. CASE ~Mover(r) /\ ~Shutil(r)
    <3>1. fs' = fs
      BY ZenonT(40), <1>3, <2>3 DEF RollbackStep, Shutil, StartRollback, BeginUndo, JournalRestore, SyncManifest,
         MarkItem, LogUndo, FinishRollback, FinishSource, Keeping
    <3> QED
      BY <3>1
  <2> QED
    BY <2>1, <2>2, <2>3
<1>4. CASE LookAtRun
  <2>1. CASE fs' = fs
    BY <2>1
  <2>2. CASE \E j \in InterruptedItem, held \in BOOLEAN : Cleanup(j, "copy", manifest[j].own, held)
    <3>1. PICK j \in InterruptedItem, held \in BOOLEAN : Cleanup(j, "copy", manifest[j].own, held)
      BY <2>2
    <3>2. j \in Items /\ row[j].state = "pending"
      BY DEF InterruptedItem
    <3>3. fs' = [fs EXCEPT ![j]["copy"] = "none"] \/ fs' = fs
      BY <3>1 DEF Cleanup
    <3>4. i # j => fs'[i] = fs[i]
      BY <1>0, <3>2, <3>3 DEF TypeOK
    <3>5. i = j => fs'[i]["copy"] = "none" \/ fs' = fs
      BY <1>0, <3>2, <3>3 DEF TypeOK
    <3> QED
      BY <1>4, <3>2, <3>4, <3>5
  <2> QED
    BY <1>4, <2>1, <2>2 DEF LookAtRun
<1>5. ASSUME NEW r \in Rollbacks, LookAtRollback(r)
      PROVE  fs'[i]["copy"] = fs[i]["copy"]
  <2>1. PICK j : fs' = fs \/ fs' = [fs EXCEPT ![j]["rcopy"] = "none"]
    BY ZenonT(40), <1>5 DEF LookAtRollback, Cleanup
  <2>2. ASSUME fs' = [fs EXCEPT ![j]["rcopy"] = "none"]
        PROVE  fs'[i]["copy"] = fs[i]["copy"]
    <3>1. CASE i = j
      <4>1. fs'[i] = [fs[i] EXCEPT !["rcopy"] = "none"]
        BY <1>0, <2>2, <3>1 DEF TypeOK
      <4> QED
        BY <1>0, <4>1 DEF TypeOK
    <3>2. CASE i # j
      BY <1>0, <2>2, <3>2 DEF TypeOK
    <3> QED
      BY <3>1, <3>2
  <2> QED
    BY SMTT(20), <2>1, <2>2
<1>6. ASSUME NEW j \in Items, NEW y \in Places, Stranger(j, y) \/ Edit(j, y)
      PROVE  \/ fs'[i]["copy"] = fs[i]["copy"]
             \/ fs[i]["copy"] = "none" /\ fs'[i]["copy"] = "other"
             \/ fs[i]["copy"] = "own"
  <2>1. /\ \A k \in Items : k # j => fs'[k] = fs[k]
        /\ \A x \in Places : x # y => fs'[j][x] = fs[j][x]
        /\ \/ fs[j][y] = "none" /\ fs'[j][y] = "other"
           \/ fs[j][y] = "own"
    BY <1>6, EnvironmentFs
  <2> QED
    BY <1>0, <2>1
<1>7. UNCHANGED vars => fs' = fs
  BY DEF vars
<1> QED
  BY <1>2, <1>3, <1>4, <1>5, <1>6, <1>7, StepCases, FaultFacts, CrashFacts, RestartFacts, RecoveredFacts,
     RecoverRunFacts, RecoverRollbackFacts

\* Only a mover takes a file from its origin.
LEMMA OriginStep ==
  ASSUME Types, [Next]_vars, NEW i \in Items, Ops[i] = "quarantine", fs'[i]["origin"] = "none"
  PROVE  fs[i]["origin"] = "none" \/ \E p \in Workers : Mover(p) /\ Item(p) = i
<1>1. ~Renames \/ job[Exec].at # i
  BY RenameFs DEF Renames
<1>2. ~\E r \in Rollbacks : Shutil(r) /\ Item(r) = i
  <2>1. \A r \in Rollbacks : job[r].pc \in ShutilSteps => Item(r) # i
    BY UndoPlaces DEF Types, Shape, RollbackShape, UndoSteps
  <2> QED
    BY <2>1, ShutilFs
<1> QED
  BY <1>1, <1>2, FilesStep DEF Untouched

LEMMA NoFaultYet ==
  ASSUME Types, [Next]_vars, faults' = 0
  PROVE  faults = 0 /\ \A p \in Workers : ~WriteFails(p)
<1>1. faults \in Nat
  BY ConstantsAssumption DEF ConstantsAssumption, Types, TypeOK
<1>2. \A p \in Workers : ~WriteFails(p)
  BY <1>1 DEF WriteFails
<1>3. UNCHANGED vars => faults' = faults
  BY DEF vars, budget
<1> QED
  BY <1>2, <1>3, StepCases, ExecutorKeeps, RollbackKeeps, CrashFacts, RestartFacts, RecoveredFacts,
     LookFs, RecoverRunFacts, RecoverRollbackFacts, EnvironmentFs

\* Without a failing write nothing is moved back.
LEMMA LegStep ==
  ASSUME Types, [Next]_vars, faults' = 0, job[Exec].leg = "out"
  PROVE  job'[Exec].leg = "out"
<1> USE Basics
<1>0. TypeOK
  BY DEF Types
<1>1. CASE Crash
  BY <1>1 DEF Crash, Idle
<1>2. CASE ExecutorStep
  <2>1. CASE SaveManifest
    BY <1>0, <2>1 DEF SaveManifest, TypeOK
  <2>2. CASE Renames
    BY <2>2, RenameFs DEF Renames
  <2>3. CASE Mover(Exec)
    BY <2>3, MoverFs
  <2>4. CASE RecordItem \/ FailItem \/ StrandItem
    BY <1>0, <2>4, NextItemFacts DEF RecordItem, FailItem, StrandItem, EndItem
  <2>5. CASE StartRun \/ BeginItem \/ JournalStage \/ MarkAvailable \/ QuarantineFailed \/ FinishRun \/ RenameFails
    <3>1. \E s \in Steps : Goto(Exec, s)
      BY <2>5 DEF StartRun, BeginItem, JournalStage, MarkAvailable, QuarantineFailed, FinishRun, RenameFails, Steps
    <3> QED
      BY <1>0, <3>1, GotoFacts
  <2>6. CASE CheckItem
    <3>1. \E s : job' = [job EXCEPT ![Exec].pc = s]
      BY <2>6 DEF CheckItem, Goto
    <3> QED
      BY <1>0, <3>1 DEF TypeOK
  <2> QED
    BY <1>2, <2>1, <2>2, <2>3, <2>4, <2>5, <2>6 DEF ExecutorStep, Renames
<1> QED
  BY <1>1, <1>2, WorkerStep, NoFaultYet

\* The restart takes for quarantined what is away.
LEMMA JudgedAway ==
  ASSUME Types, Traced, LookAtRun, NEW i \in Items, Ops[i] = "quarantine",
         fs[i]["copy"] \in {"none", "part", "other"}, fs[i]["copy"] = "part" => ~Kept(i, "target"),
         Away(i)', seen'.item = i
  PROVE  seen'.state = "quarantined"
<1>1. i # 0 /\ NotSeen.item = 0
  BY Basics DEF NotSeen
<1>2. PICK j \in InterruptedItem, held \in BOOLEAN :
        /\ Cleanup(j, "copy", manifest[j].own, held)
        /\ seen' = [by |-> Exec, at |-> 0, item |-> j, state |-> RecoveredRow(j, held).state,
                    manifest |-> [manifest[j] EXCEPT !.status = RecoveredRow(j, held).status]]
  <2>1. seen' # [NotSeen EXCEPT !.by = Exec]
    BY <1>1 DEF NotSeen
  <2> QED
    BY <2>1 DEF LookAtRun
<1>3. i = j /\ seen'.state = RecoveredRow(i, held).state
  BY <1>2
<1>4. Kept(i, "target") /\ fs[i]["origin"] = "none"
  BY LookFs DEF Away, Kept, Present
<1>5. Exists(i, "target") /\ ~Exists(i, "origin") /\ manifest[i].status # "none"
  BY <1>4 DEF Exists, Present, Kept, Traced
<1>6. ~(held /\ manifest[i].own /\ Present(i, "copy"))
  <2>1. held => fs' = fs
    BY <1>2 DEF Cleanup
  <2>2. fs' = fs => fs[i]["copy"] # "other"
    BY DEF Away
  <2> QED
    BY <1>4, <2>1, <2>2 DEF Present
<1> QED
  BY <1>3, <1>5, <1>6 DEF RecoveredRow

\* The executor fails an item of quarantine where its file has not gone.
LEMMA FailStep ==
  ASSUME Types, BeforeOK, ExecutorStep, job[Exec].leg = "out", job'[Exec].pc = "fail",
         NEW i \in Items, job[Exec].at = i, Ops[i] = "quarantine"
  PROVE  fs' = fs /\ (Before(i) \/ ~Kept(i, "target"))
<1> USE Basics
<1>0. TypeOK /\ ExecShape /\ Item(Exec) = i
  BY DEF Types, Shape, Item
<1>1. ~Renames /\ ~Mover(Exec)
  BY RenameFs, MoverFs DEF Renames, RenameOutcome, MoverOutcome
<1>2. ~RecordItem /\ ~FailItem /\ ~StrandItem
  BY <1>0, NextItemFacts DEF RecordItem, FailItem, StrandItem, EndItem
<1>3. ~StartRun /\ ~BeginItem /\ ~JournalStage /\ ~MarkAvailable /\ ~FinishRun
  BY <1>0, GotoFacts DEF StartRun, BeginItem, JournalStage, MarkAvailable, FinishRun, Steps
<1>4. ~SaveManifest
  BY <1>0 DEF SaveManifest, TypeOK
<1>5. CASE CheckItem
  BY <1>5 DEF CheckItem, Before, At, Keeping
<1>6. CASE RenameFails
  <2>1. job[Exec].pc \in {"check", "rename", "stage", "second", "home"} /\ fs' = fs
    BY <1>6 DEF RenameFails, At, Keeping
  <2>2. job[Exec].pc = "check"
    BY <1>0, <2>1 DEF ExecShape, CaseSteps
  <2> QED
    BY <2>1, <2>2 DEF Before
<1>7. CASE QuarantineFailed
  <2>1. fs' = fs
    BY <1>7 DEF QuarantineFailed, Keeping
  <2>2. ~Exists(i, "target")
    <3>1. Exists(i, "target") => Goto(Exec, "stuck")
      BY <1>0, <1>7 DEF QuarantineFailed, At
    <3>2. ~Goto(Exec, "stuck")
      BY <1>0, GotoFacts DEF Steps
    <3> QED
      BY <3>1, <3>2
  <2> QED
    BY <2>1, <2>2 DEF Exists, Present, Kept
<1> QED
  BY <1>1, <1>2, <1>3, <1>4, <1>5, <1>6, <1>7 DEF ExecutorStep, Renames

LEMMA InitReversed == Init => Reversed
<1> SUFFICES ASSUME Init PROVE job[Exec].leg = "out" /\ \A i \in Items : Reversible(i)
  BY DEF Reversed
<1>1. \A p \in Workers : job[p].pc = "idle" /\ job[p].leg = "out"
  BY DEF Init, Idle
<1>2. \A i \in Items : fs[i]["copy"] = "none" /\ fs[i]["target"] = "none" /\ fs[i]["origin"] = "own"
  BY DEF Init, Places
<1> QED
  BY <1>1, <1>2, Basics DEF Reversible, Away, Kept, BusyAt, BusySteps, OwedFor, Owed, Present

\* What is away has a row that knows it: before the step, and after.
LEMMA AwayKnown ==
  ASSUME Types, Alone, Phases, joins = 0, [Next]_vars, job[Exec].leg = "out",
         NEW i \in Items, Ops[i] = "quarantine", Reversible(i), Away(i)'
  PROVE  row[i].state = "pending" \/ Rollbackable(i)
<1> USE Basics
<1>0. Item(Exec) = job[Exec].at
  BY DEF Item
<1>1. ASSUME Mover(Exec), job[Exec].at = i PROVE row[i].state = "pending"
  <2>1. BusyAt(i)
    BY <1>1, MoverFs DEF BusyAt, BusySteps, MoveSteps, CopySteps
  <2> QED
    BY <2>1 DEF Alone
<1>2. ASSUME NEW r \in Rollbacks, Mover(r), Item(r) = i PROVE Rollbackable(i)
  <2>1. OwedFor(r, job[r].at, i)
    BY <1>2, UndoOwed, MoverFs DEF UndoSteps
  <2>2. job[r].at \in DOMAIN job[r].plan
    BY <2>1 DEF OwedFor, Owed
  <2> QED
    BY <2>1, <2>2 DEF Reversible
<1>3. ASSUME ~Away(i), ~(Mover(Exec) /\ job[Exec].at = i)
      PROVE  \/ \E r \in Rollbacks : Mover(r) /\ Item(r) = i
             \/ row[i].state = "pending"
  <2>1. Kept(i, "target")
    BY <1>3, TargetStep DEF Away
  <2>2. fs'[i]["origin"] = "none" /\ fs'[i]["copy"] # "other"
    BY DEF Away, Present
  <2>3. CASE fs[i]["copy"] = "other"
    BY <1>3, <2>2, <2>3, CopyStep
  <2>4. CASE fs[i]["copy"] # "other"
    <3>1. fs[i]["origin"] # "none"
      BY <1>3, <2>1, <2>4 DEF Away, Present
    <3> QED
      BY <1>0, <1>3, <2>2, <3>1, OriginStep
  <2> QED
    BY <2>3, <2>4
<1>4. Away(i) => row[i].state = "pending" \/ Rollbackable(i)
  BY DEF Reversible
<1> QED
  BY <1>1, <1>2, <1>3, <1>4

LEMMA AwayStays ==
  ASSUME Types, Alone, ItemsEnd, joins = 0, [Next]_vars,
         NEW i \in Items, Ops[i] = "quarantine", Reversible(i), Away(i)',
         row[i].state = "pending" \/ Rollbackable(i)
  PROVE  row'[i].state = "pending" \/ Rollbackable(i)'
<1> USE Basics
<1>0. TypeOK /\ Item(Exec) = job[Exec].at /\ ExecShape
  BY DEF Types, Shape, Item
<1>1. CASE SameMove(i)
  BY <1>1 DEF SameMove, Rollbackable, Succeeded
<1>2. CASE (RecordItem \/ FailItem \/ StrandItem) /\ job[Exec].at = i
  <2>1. fs' = fs
    BY <1>2 DEF RecordItem, FailItem, StrandItem, EndItem, Keeping
  <2>2. CASE RecordItem
    <3>1. \E s \in {"renamed", "quarantined"} : \E t : row' = [row EXCEPT ![i] = [state |-> s, temp |-> t, undo |-> "none"]]
      BY <1>0, <1>2, <2>2 DEF RecordItem, EndItem
    <3>2. row'[i].state \in {"renamed", "quarantined"}
      BY <1>0, <3>1 DEF TypeOK
    <3> QED
      BY <3>2 DEF Rollbackable, Succeeded
  <2>3. CASE FailItem
    <3>1. job[Exec].pc \in {"fail", "homed"}
      BY <2>3 DEF FailItem, At
    <3>2. job[Exec].pc = "fail"
      BY <1>0, <1>2, <3>1 DEF ExecShape, CaseSteps
    <3>3. BusyAt(i)
      BY <1>2, <3>2 DEF BusyAt, BusySteps
    <3> QED
      BY <2>1, <3>2, <3>3 DEF Reversible, Away, Kept
  <2>4. CASE StrandItem
    <3>1. job[Exec].pc # "stranded"
      BY <1>0, <1>2 DEF ExecShape, CaseSteps
    <3>2. row' = [row EXCEPT ![i] = [state |-> "failed", temp |-> "target", undo |-> "none"]]
      BY <1>0, <1>2, <2>4, <3>1 DEF StrandItem, EndItem, At
    <3>3. row'[i].state = "failed" /\ row'[i].temp = "target"
      BY <1>0, <3>2 DEF TypeOK
    <3> QED
      BY <3>3 DEF Rollbackable
  <2> QED
    BY <1>2, <2>2, <2>3, <2>4
<1>3. CASE RecoverRun
  <2>1. /\ fs' = fs /\ seen.by = Exec /\ row'[i].temp = row[i].temp
        /\ row'[i].state = IF i = seen.item /\ seen.state # "pending" THEN seen.state
                           ELSE IF row[i].state = "pending" THEN "failed" ELSE row[i].state
    BY <1>3, RecoverRunFacts
  <2>2. i = seen.item => seen.state = "quarantined"
    BY <2>1 DEF Reversible, Away, Kept, Present
  <2>3. CASE i = seen.item
    BY <2>1, <2>2, <2>3 DEF Rollbackable, Succeeded
  <2>4. CASE i # seen.item
    <3>1. row[i].state # "pending"
      BY <2>1, <2>4 DEF ItemsEnd, Judging
    <3>2. row'[i].state = row[i].state
      BY <2>1, <2>4, <3>1
    <3> QED
      BY <2>1, <3>1, <3>2 DEF Rollbackable, Succeeded
  <2> QED
    BY <2>3, <2>4
<1>4. ~(JournalStage /\ job[Exec].at = i)
  BY <1>0 DEF JournalStage, At, ExecShape, CaseSteps
<1> QED
  BY <1>1, <1>2, <1>3, <1>4, RowStep DEF SameMove

LEMMA StepReversible ==
  ASSUME ~EarlyRollback, Types, BeforeOK, Traced, Alone, Phases, ItemsEnd, joins' = 0, faults' = 0, [Next]_vars,
         job[Exec].leg = "out", NEW i \in Items, Reversible(i), Ops[i] = "quarantine"
  PROVE  Reversible(i)'
<1> USE Basics
<1>0. /\ joins = 0 /\ fs[i]["copy"] \in {"none", "part", "other"}
      /\ fs[i]["copy"] = "part" => cross /\ ~Kept(i, "target")
      /\ cross' = cross /\ Item(Exec) = job[Exec].at /\ Phases' /\ Types'
  BY JoinsGrow, CrossFixed, StepPhases, StepTypes DEF Reversible, Item
<1>1. fs'[i]["copy"] \in {"none", "part", "other"}
  BY <1>0, CopyStep, OutCopy
<1>2. fs'[i]["copy"] = "part" => cross' /\ ~Kept(i, "target")'
  <2> SUFFICES ASSUME fs'[i]["copy"] = "part" PROVE cross' /\ ~Kept(i, "target")'
    OBVIOUS
  <2>1. CASE Mover(Exec) /\ job[Exec].at = i
    BY <1>0, <2>1, OutCopy DEF Kept
  <2>2. CASE ~(Mover(Exec) /\ job[Exec].at = i)
    <3>1. fs[i]["copy"] = "part"
      BY <1>0, <2>2, CopyStep
    <3> QED
      BY <1>0, <2>2, <3>1, TargetStep
  <2> QED
    BY <2>1, <2>2
<1>3. ASSUME Before(i)' PROVE ~Kept(i, "target")'
  <2>1. Before(i) /\ ~(Mover(Exec) /\ job[Exec].at = i)
    BY <1>0, <1>3, BeforeOnlyShrinks, MoverFs
  <2>2. ~Kept(i, "target")
    BY <2>1 DEF Reversible
  <2> QED
    BY <2>1, <2>2, TargetStep
<1>4. ASSUME BusyAt(i)', job'[Exec].pc = "fail" PROVE ~Kept(i, "target")'
  <2>1. job'[Exec].at = i
    BY <1>4 DEF BusyAt
  <2>2. CASE ExecutorStep
    <3>1. job[Exec].at = i
      <4>1. BusyAt(i) \/ (BeginItem /\ job[Exec].at = i)
        BY <1>4, BusyStep
      <4> QED
        BY <4>1 DEF BusyAt
    <3>2. fs' = fs /\ (Before(i) \/ ~Kept(i, "target"))
      BY <1>4, <2>2, <3>1, FailStep
    <3> QED
      BY <3>2 DEF Reversible, Kept
  <2>3. CASE job'[Exec] = job[Exec]
    <3>1. BusyAt(i) /\ job[Exec].pc = "fail"
      BY <1>4, <2>3 DEF BusyAt
    <3>2. ~Kept(i, "target")
      BY <3>1 DEF Reversible
    <3> QED
      BY <3>1, <3>2, TargetStep DEF CopySteps
  <2>4. ~Crash /\ ~WriteFails(Exec)
    BY <1>4, CrashFacts, NoFaultYet
  <2> QED
    BY <2>2, <2>3, <2>4, WorkerStep
<1>5. ASSUME NEW r \in Rollbacks, NEW k \in DOMAIN job'[r].plan, OwedFor(r, k, i)'
      PROVE  Rollbackable(i)'
  <2>1. CASE StartRollback(r) /\ ~Preview(i).blocked
    <3>1. Rollbackable(i) /\ row' = row
      BY <2>1 DEF StartRollback, Preview, Keeping
    <3> QED
      BY <3>1 DEF Rollbackable, Succeeded
  <2>2. CASE OwedFor(r, k, i)
    <3>1. k \in DOMAIN job[r].plan /\ job[r].pc # "idle"
      BY <2>2 DEF OwedFor, Owed
    <3>2. Rollbackable(i)
      BY <2>2, <3>1 DEF Reversible
    <3>3. run.state \notin {"none", "running"}
      BY <1>0, <3>1 DEF Phases, RunPhase, Begun
    <3>4. SameMove(i)
      BY <1>0, <3>3, RowOver
    <3> QED
      BY <3>2, <3>4 DEF SameMove, Rollbackable, Succeeded
  <2> QED
    BY <1>5, <2>1, <2>2, OwedOnlyShrinks
<1>6. ASSUME Away(i)' PROVE row'[i].state = "pending" \/ Rollbackable(i)'
  <2>1. row[i].state = "pending" \/ Rollbackable(i)
    BY <1>0, <1>6, AwayKnown
  <2> QED
    BY <1>0, <1>6, <2>1, AwayStays
<1>7. ASSUME Away(i)', seen'.by = Exec, seen'.item = i PROVE seen'.state = "quarantined"
  <2>1. CASE LookAtRun
    BY <1>0, <1>7, <2>1, JudgedAway
  <2>2. CASE seen' = seen
    <3>1. seen # NotSeen
      BY <1>7, <2>2, NotSeenTyped
    <3>2. app # "up" /\ ~LookAtRun
      BY <1>0, <3>1, AppStep, LookAtRunFacts
    <3>3. \A p \in Workers : ~Mover(p)
      <4>1. ~ExecutorStep /\ \A r \in Rollbacks : ~RollbackStep(r)
        BY <1>0, <3>2, WorkersServe DEF Alone
      <4> QED
        BY <4>1 DEF ExecutorStep, RollbackStep
    <3>4. Kept(i, "target")
      BY <1>7, <3>3, TargetStep DEF Away
    <3>5. fs[i]["origin"] = "none"
      BY <1>7, <3>3, OriginStep DEF Away, Present
    <3>6. fs[i]["copy"] # "other"
      BY <1>7, <3>2, <3>3, CopyStep DEF Away
    <3>7. Away(i)
      BY <3>4, <3>5, <3>6 DEF Away, Present
    <3> QED
      BY <1>7, <2>2, <3>7 DEF Reversible
  <2>3. seen' # NotSeen /\ \A r \in Rollbacks : ~LookAtRollback(r)
    BY <1>7, NotSeenTyped, LookAtRollbackFacts
  <2> QED
    BY <2>1, <2>2, <2>3, SeenStep
<1> QED
  BY <1>1, <1>2, <1>3, <1>4, <1>5, <1>6, <1>7 DEF Reversible

LEMMA StepReversed ==
  ~EarlyRollback /\ Types /\ BeforeOK /\ Traced /\ Alone /\ Phases /\ ItemsEnd /\ Reversed /\ [Next]_vars => Reversed'
<1> SUFFICES ASSUME ~EarlyRollback, Types, BeforeOK, Traced, Alone, Phases, ItemsEnd, Reversed, [Next]_vars,
                    joins' = 0, faults' = 0
             PROVE  job'[Exec].leg = "out" /\ \A i \in Items : Reversible(i)'
  BY DEF Reversed
<1>1. job[Exec].leg = "out" /\ \A i \in Items : Reversible(i)
  BY JoinsGrow, NoFaultYet DEF Reversed
<1>2. job'[Exec].leg = "out"
  BY <1>1, LegStep
<1>3. ASSUME NEW i \in Items PROVE Reversible(i)'
  <2>1. CASE Ops[i] = "quarantine"
    BY <1>1, <2>1, StepReversible
  <2>2. CASE Ops[i] # "quarantine"
    BY <2>2 DEF Reversible
  <2> QED
    BY <2>1, <2>2
<1> QED
  BY <1>2, <1>3

LEMMA InitHistory == Init => HInv
BY InitPhases, InitItems, InitUndos, InitMoves, InitListed, InitRunHome, InitReversed DEF HInv

LEMMA StepHistory ==
  /\ ~EarlyRollback /\ Types /\ BeforeOK /\ QuarantineKept /\ Traced /\ Alone /\ Home' /\ HInv /\ [Next]_vars
  => HInv'
BY StepPhases, StepItems, StepUndos, StepMoves, StepListed, StepRunHome, StepReversed DEF HInv

\* What the parts say of a history at rest.
LEMMA RestingPending ==
  ASSUME Types, Phases, ItemsEnd, UndosEnd, AtRest
  PROVE  NothingPending /\ \A i \in Items : row[i].state # "pending"
<1>1. joins = 0 /\ app = "up" /\ run.state \notin {"none", "running"} /\ \A p \in Workers : job[p].pc \in {"idle", "done"}
  BY DEF AtRest
<1>2. \A i \in Items : row[i].state # "pending"
  BY <1>1 DEF ItemsEnd
<1>3. ASSUME NEW r \in Rollbacks, NEW k \in DOMAIN rb[r].rows PROVE rb[r].rows[k].state # "pending"
  <2>1. EntriesEnd(r) /\ job[r].pc \in {"idle", "done"}
    BY <1>1, Basics DEF UndosEnd
  <2>2. {"idle", "done"} \cap ({"dead"} \cup UndoSteps \cup FailSteps) = {}
    BY DEF UndoSteps, FailSteps, MoveSteps, CopySteps, ShutilSteps
  <2> QED
    BY <1>1, <2>1, <2>2 DEF EntriesEnd
<1> QED
  BY <1>2, <1>3 DEF NothingPending

LEMMA RestingMoved ==
  ASSUME Types, Phases, ItemsEnd, UndosEnd, MovesKept, AtRest
  PROVE  SuccessIsMoved
<1> SUFFICES ASSUME NEW i \in Items, Succeeded(i), row[i].undo = "none" PROVE Kept(i, "target")
  BY DEF SuccessIsMoved
<1>1. Kept(i, "target") \/ \E r \in Rollbacks : Undoing(r, i)
  BY DEF MovesKept, Moved, AtRest
<1>2. ASSUME NEW r \in Rollbacks, Undoing(r, i) PROVE FALSE
  <2>1. Len(rb[r].rows) \in DOMAIN rb[r].rows
    BY <1>2, RollbackRows DEF Undoing
  <2>2. rb[r].rows[Len(rb[r].rows)].state # "pending"
    BY <2>1, RestingPending DEF NothingPending
  <2> QED
    BY <1>2, <2>2 DEF Undoing, Last
<1> QED
  BY <1>1, <1>2

LEMMA RestingListed ==
  ASSUME Types, Listed, AtRest
  PROVE  ListIsTrue
<1>1. joins = 0 /\ run.state \notin {"none", "running"} /\ \A r \in Rollbacks : job[r].pc \in {"idle", "done"}
  BY Basics DEF AtRest
<1>2. run.avail /\ crashes = 0 => RollbackAvailable
  BY <1>1 DEF Listed, Fresh, Open, RollbackAvailable
<1>3. RollbackAvailable /\ ~run.avail => \A i \in Items : ~Succeeded(i)
  BY <1>1 DEF Listed, RollbackAvailable
<1> QED
  BY <1>2, <1>3 DEF ListIsTrue

(* What the history says of a run at rest is true where a run is rolled back once it is
   over: through crashes at any step and restarts, failing writes and changes by others,
   no item or entry of it stays pending, its successes are moved, a run that is called
   rolled back has its files home, and the list says whether there is something to undo
   (executor.py:117-403, recovery.py:148-275, repository.py:659-893). *)
THEOREM HistoryTellsTheTruth ==
  ~EarlyRollback => (Spec /\ []RestoresApart => []HistoryIsTrue)
<1> SUFFICES ASSUME ~EarlyRollback PROVE Spec /\ []RestoresApart => []HistoryIsTrue
  OBVIOUS
<1> DEFINE Inv == /\ Types /\ BeforeOK /\ QuarantineKept /\ RenamedKept /\ Traced
                  /\ Alone /\ Logged /\ Home /\ HInv
<1>1. Init => Inv
  BY InitTypes, InitBefore, InitQuarantine, InitRenamed, InitTraced, InitAlone, InitLogged, InitHome, InitHistory
<1>2. Inv /\ RestoresApart /\ [Next]_vars => Inv'
  BY StepTypes, StepBefore, StepQuarantine, StepRenamed, StepTraced, StepAlone, StepLogged, StepHome, StepHistory
<1>3. Inv => HistoryIsTrue
  <2> SUFFICES ASSUME Inv PROVE HistoryIsTrue
    OBVIOUS
  <2>1. AtRest => NothingPending /\ SuccessIsMoved /\ ListIsTrue
    BY RestingPending, RestingMoved, RestingListed DEF HInv
  <2>2. NothingPending /\ SuccessIsMoved /\ ListIsTrue
    BY <2>1 DEF NothingPending, SuccessIsMoved, ListIsTrue
  <2>3. RolledBackRunIsHome
    BY DEF HInv, RunHome, HomeAgain, RolledBackRunIsHome, AtRest
  <2> QED
    BY <2>2, <2>3 DEF HistoryIsTrue
<1> QED
  BY <1>1, <1>2, <1>3, PTL DEF Spec

(* And where no write of the executor to the database fails, the rows know every file that
   is not under a name its user gave it: a file in quarantine whose origin is free has
   its manifest and an item a rollback will take (quarantine.py:197-268,
   repository.py:838-893). *)
THEOREM FilesAreReachable ==
  ~EarlyRollback => (Spec /\ [](RestoresApart /\ faults = 0) => []FilesReachable)
<1> SUFFICES ASSUME ~EarlyRollback PROVE Spec /\ [](RestoresApart /\ faults = 0) => []FilesReachable
  OBVIOUS
<1> DEFINE Inv == /\ Types /\ BeforeOK /\ QuarantineKept /\ RenamedKept /\ Traced
                  /\ Alone /\ Logged /\ Home /\ HInv
<1>1. Init => Inv
  BY InitTypes, InitBefore, InitQuarantine, InitRenamed, InitTraced, InitAlone, InitLogged, InitHome, InitHistory
<1>2. Inv /\ RestoresApart /\ [Next]_vars => Inv'
  BY StepTypes, StepBefore, StepQuarantine, StepRenamed, StepTraced, StepAlone, StepLogged, StepHome, StepHistory
<1>3. Inv /\ faults = 0 => QuarantineReversible
  <2> SUFFICES ASSUME Inv, faults = 0, AtRest, NEW i \in Items, Ops[i] = "quarantine", Kept(i, "target"),
                      ~Present(i, "origin"), fs[i]["copy"] # "other"
               PROVE  Rollbackable(i) /\ row[i].undo # "done" /\ manifest[i].status # "none"
    BY DEF QuarantineReversible
  <2>1. joins = 0
    BY DEF AtRest
  <2>2. row[i].state # "pending"
    BY RestingPending DEF HInv
  <2>3. Rollbackable(i)
    BY <2>1, <2>2 DEF HInv, Reversed, Reversible, Away
  <2>4. row[i].undo # "done"
    BY <2>1 DEF Home, Restored, Settled, Present, Kept
  <2> QED
    BY <2>3, <2>4 DEF Traced
<1>4. Spec /\ [](faults = 0) => []StageReachable
  BY StageIsReachable
<1>5. QuarantineReversible /\ StageReachable => FilesReachable
  BY DEF FilesReachable
<1> QED
  BY <1>1, <1>2, <1>3, <1>4, <1>5, PTL DEF Spec

(* So it is where one rollback is asked for at a time, and where the run only quarantines:
   the history at rest is true, and without a failing write nothing in quarantine and
   nothing half renamed is out of its reach (executor.py:117-403, recovery.py:148-275). *)
THEOREM HistoryIsHonest ==
  /\ OneAtATime \/ (\A i \in Items : Ops[i] = "quarantine")
  /\ ~EarlyRollback
  => /\ Spec => []HistoryIsTrue
     /\ MaxFaults = 0 => (Spec => []FilesReachable)
<1> SUFFICES ASSUME OneAtATime \/ (\A i \in Items : Ops[i] = "quarantine"), ~EarlyRollback
             PROVE  (Spec => []HistoryIsTrue) /\ (MaxFaults = 0 => (Spec => []FilesReachable))
  OBVIOUS
<1>1. Spec => []RestoresApart
  BY RestoresStayApart
<1>2. Spec /\ []RestoresApart => []HistoryIsTrue
  BY HistoryTellsTheTruth
<1>3. Spec => []HistoryIsTrue
  BY <1>1, <1>2, PTL
<1>4. ASSUME MaxFaults = 0 PROVE Spec => []FilesReachable
  <2>1. TypeOK => faults = 0
    BY <1>4 DEF TypeOK
  <2>2. Spec /\ [](RestoresApart /\ faults = 0) => []FilesReachable
    BY FilesAreReachable
  <2> QED
    BY <1>1, <2>1, <2>2, TypeCorrect, PTL
<1> QED
  BY <1>3, <1>4

==============================================================================
