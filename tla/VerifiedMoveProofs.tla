-------------------------- MODULE VerifiedMoveProofs --------------------------
(***************************************************************************)
(* Proofs about VerifiedMove, for every length of file, every content and  *)
(* both behaviours of rename.                                              *)
(***************************************************************************)
EXTENDS VerifiedMove, TLAPS, SequenceTheorems

\* The bounded contents, as sequences: what Append and Len are about.
LEMMA BytesAreSequences ==
  \A b : b \in Bytes <=> b \in Seq(Chunk) /\ Len(b) \in 0..MaxChunks
<1> USE ConstantsAssumption
<1> SUFFICES ASSUME NEW b
             PROVE  b \in Bytes <=> b \in Seq(Chunk) /\ Len(b) \in 0..MaxChunks
  OBVIOUS
<1>1. ASSUME b \in Bytes
      PROVE  b \in Seq(Chunk) /\ Len(b) \in 0..MaxChunks
  <2>1. PICK n \in 0..MaxChunks : b \in [1..n -> Chunk]
    BY <1>1 DEF Bytes
  <2>2. n \in Nat
    BY <2>1 DEF ConstantsAssumption
  <2> QED BY <2>1, <2>2
<1>2. ASSUME b \in Seq(Chunk), Len(b) \in 0..MaxChunks
      PROVE  b \in Bytes
  <2>1. b \in [1..Len(b) -> Chunk]
    BY <1>2
  <2> QED BY <1>2, <2>1 DEF Bytes
<1> QED BY <1>1, <1>2

\* Reading on: a sequence shorter than another one may take one more chunk.
LEMMA AppendStaysBounded ==
  ASSUME NEW b \in Bytes, NEW c \in Chunk, NEW whole \in Bytes,
         Len(b) < Len(whole)
  PROVE  /\ Append(b, c) \in Bytes
         /\ Len(Append(b, c)) = Len(b) + 1
         /\ whole[Len(b) + 1] \in Chunk
<1>1. /\ b \in Seq(Chunk) /\ Len(b) \in 0..MaxChunks
      /\ whole \in Seq(Chunk) /\ Len(whole) \in 0..MaxChunks
  BY BytesAreSequences
<1>2. MaxChunks \in Nat
  BY ConstantsAssumption DEF ConstantsAssumption
<1>3. Append(b, c) \in Seq(Chunk) /\ Len(Append(b, c)) = Len(b) + 1
  BY <1>1
<1>4. Len(Append(b, c)) \in 0..MaxChunks
  BY <1>1, <1>2, <1>3
<1>5. whole[Len(b) + 1] \in Chunk
  BY <1>1, <1>2
<1> QED BY <1>3, <1>4, <1>5, BytesAreSequences

LEMMA EmptyIsBytes == <<>> \in Bytes /\ Len(<<>>) = 0
<1>1. <<>> \in Seq(Chunk) /\ Len(<<>>) = 0
  OBVIOUS
<1>2. 0 \in 0..MaxChunks
  BY ConstantsAssumption
<1> QED BY <1>1, <1>2, BytesAreSequences

-----------------------------------------------------------------------------
(***************************************************************************)
(* The inductive invariant.  TypeOK and the properties to prove say        *)
(* nothing of what the mover has already checked at each program counter:  *)
(* that is what must be added for UnlinkSource to be harmless.             *)
(***************************************************************************)

\* Where the file open for copying stands: a temporary of this call's own.
CopyState ==
  /\ pc \in {"own", "copy", "check", "exists", "finalize"} =>
       tempCreated /\ temp # Absent
  /\ pc \in {"stat", "open", "own"} => read = <<>>
  /\ pc = "own" => temp.bytes = <<>>
  /\ pc = "copy" => Len(temp.bytes) = Len(read)
  /\ pc \in {"exists", "finalize"} => temp.bytes = read
  /\ tempCreated => temp = Absent \/ temp.by = "copy"
  /\ pc \in {"start", "rename", "stat", "open"} =>
       ~tempCreated /\ ~finalized /\ read = <<>>

\* Once the copy is finalized, the target is that copy until the call ends.
TargetState ==
  /\ pc \in {"verify", "unlink"} => finalized /\ target # Absent /\ target.bytes = read
  /\ pc \in {"verify", "unlink", "cleanup", "undo"} /\ finalized =>
       target # Absent /\ target.by = "copy"
  /\ pc \in {"own", "copy", "check", "exists", "finalize"} => ~finalized

\* The source, while there, is the user's latest version; only the user or
\* the last step of the call takes it away.
SourceState ==
  /\ source # Absent => source.bytes = latest
  /\ pc # "done" /\ source = Absent => latest = Absent
  /\ pc = "unlink" /\ ~LateWrites /\ source # Absent => source.bytes = read
  /\ pc = "done" =>
       /\ source = Absent /\ target # Absent /\ latest # Absent
       /\ ~LateWrites => target.bytes = latest

IInv == TypeOK /\ CopyState /\ TargetState /\ SourceState

LEMMA InitIInv == Init => IInv
<1> SUFFICES ASSUME Init PROVE IInv
  OBVIOUS
<1>1. <<>> \in Bytes
  BY EmptyIsBytes
<1>2. /\ 0 \in 0..MaxChunks
      /\ 0 \in 0..MaxWrites
  BY ConstantsAssumption
<1>3. /\ source \in File
      /\ source.bytes = latest
      /\ source # Absent
      /\ latest \in Bytes
  BY <1>2, ConstantsAssumption DEF Init, File
<1>4. /\ target \in File \cup {Absent}
      /\ temp \in File \cup {Absent}
  BY <1>1, <1>2 DEF Init, File, Foreign
<1>5. TypeOK
  BY <1>1, <1>2, <1>3, <1>4 DEF Init, TypeOK, Steps
<1>6. CopyState /\ TargetState /\ SourceState
  BY <1>3 DEF Init, CopyState, TargetState, SourceState
<1> QED BY <1>5, <1>6 DEF IInv

\* Steps of the mover that change neither a file nor a flag.
QuietStep ==
  \/ Start \/ RenameExdev \/ Refuse \/ OwnTemp \/ CopyEnd \/ TargetFree
  \/ VerifySource \/ Raise \/ Crash

LEMMA QuietStepIInv == IInv /\ QuietStep => IInv'
<1> SUFFICES ASSUME IInv, QuietStep PROVE IInv'
  OBVIOUS
<1>1. UNCHANGED <<source, target, temp, read, stat, tempCreated, finalized, writes, latest>>
  BY DEF QuietStep, Start, RenameExdev, Refuse, OwnTemp, CopyEnd, TargetFree,
         VerifySource, Raise, Crash, Unmoved
<1>2. TypeOK'
  BY <1>1 DEF IInv, TypeOK, QuietStep, Start, RenameExdev, Refuse, OwnTemp, CopyEnd,
     TargetFree, VerifySource, Raise, Crash, Goto, Steps, Ends
<1>3. CopyState'
  BY <1>1, EmptyIsBytes DEF IInv, CopyState, QuietStep, Start, RenameExdev, Refuse, OwnTemp,
     CopyEnd, TargetFree, VerifySource, Raise, Crash, Goto, Steps
<1>4. TargetState'
  BY <1>1 DEF IInv, CopyState, TargetState, QuietStep, Start, RenameExdev, Refuse, OwnTemp,
     CopyEnd, TargetFree, VerifySource, Raise, Crash, Goto, Steps
<1>5. SourceState'
  BY <1>1 DEF IInv, SourceState, QuietStep, Start, RenameExdev, Refuse, OwnTemp, CopyEnd,
     TargetFree, VerifySource, Raise, Crash, Goto, Steps
<1> QED BY <1>2, <1>3, <1>4, <1>5 DEF IInv
LEMMA RenameIInv == IInv /\ Rename => IInv'
<1> SUFFICES ASSUME IInv, Rename PROVE IInv'
  OBVIOUS
<1>2. TypeOK'
  BY DEF IInv, TypeOK, Rename, Goto, Unmoved, Steps, Ends
<1>3. CopyState'
  BY ConstantsAssumption DEF IInv, TypeOK, CopyState, Rename, Goto, Unmoved
<1>4. TargetState'
  BY ConstantsAssumption DEF IInv, TypeOK, CopyState, TargetState, Rename, Goto, Unmoved
<1>5. SourceState'
  BY ConstantsAssumption DEF IInv, TypeOK, CopyState, TargetState, SourceState, Rename, Goto, Unmoved, RenameAllowed, File
<1> QED BY <1>2, <1>3, <1>4, <1>5 DEF IInv

LEMMA StatSourceIInv == IInv /\ StatSource => IInv'
<1> SUFFICES ASSUME IInv, StatSource PROVE IInv'
  OBVIOUS
<1>1. stat' \in [size : 0..MaxChunks, mtime : 0..MaxWrites]
  BY BytesAreSequences DEF IInv, TypeOK, StatSource, File
<1>2. TypeOK'
  BY <1>1 DEF IInv, TypeOK, StatSource, Goto, Steps
<1>3. CopyState'
  BY ConstantsAssumption DEF IInv, TypeOK, CopyState, StatSource, Goto
<1>4. TargetState'
  BY ConstantsAssumption DEF IInv, TypeOK, CopyState, TargetState, StatSource, Goto
<1>5. SourceState'
  BY ConstantsAssumption DEF IInv, TypeOK, CopyState, TargetState, SourceState, StatSource, Goto
<1> QED BY <1>2, <1>3, <1>4, <1>5 DEF IInv

LEMMA OpenTempIInv == IInv /\ OpenTemp => IInv'
<1> SUFFICES ASSUME IInv, OpenTemp PROVE IInv'
  OBVIOUS
<1>1. temp' \in File /\ temp'.bytes = <<>> /\ temp'.by = "copy" /\ temp' # Absent
  BY EmptyIsBytes, ConstantsAssumption DEF OpenTemp, File
<1>2. TypeOK'
  BY <1>1 DEF IInv, TypeOK, OpenTemp, Goto, Steps
<1>3. CopyState'
  BY <1>1, ConstantsAssumption DEF IInv, TypeOK, CopyState, OpenTemp, Goto
<1>4. TargetState'
  BY <1>1, ConstantsAssumption DEF IInv, TypeOK, CopyState, TargetState, OpenTemp, Goto
<1>5. SourceState'
  BY <1>1, ConstantsAssumption DEF IInv, TypeOK, CopyState, TargetState, SourceState, OpenTemp, Goto
<1> QED BY <1>2, <1>3, <1>4, <1>5 DEF IInv

LEMMA CheckCopyIInv == IInv /\ CheckCopy => IInv'
<1> SUFFICES ASSUME IInv, CheckCopy PROVE IInv'
  OBVIOUS
<1>1. /\ temp' \in File /\ temp' # Absent
      /\ temp'.bytes = temp.bytes /\ temp'.by = temp.by
  BY ConstantsAssumption DEF IInv, TypeOK, CopyState, CheckCopy, File, Goto
<1>2. TypeOK'
  BY <1>1 DEF IInv, TypeOK, CheckCopy, Goto, Unmoved, Steps
<1>3. CopyState'
  BY <1>1, ConstantsAssumption DEF IInv, TypeOK, CopyState, CheckCopy, Goto, Unmoved
<1>4. TargetState'
  BY <1>1, ConstantsAssumption DEF IInv, TypeOK, CopyState, TargetState, CheckCopy, Goto, Unmoved
<1>5. SourceState'
  BY <1>1, ConstantsAssumption DEF IInv, TypeOK, CopyState, TargetState, SourceState, CheckCopy, Goto, Unmoved
<1> QED BY <1>2, <1>3, <1>4, <1>5 DEF IInv

LEMMA FinalizeIInv == IInv /\ Finalize => IInv'
<1> SUFFICES ASSUME IInv, Finalize PROVE IInv'
  OBVIOUS
<1>2. TypeOK'
  BY DEF IInv, TypeOK, Finalize, Goto, Steps
<1>3. CopyState'
  BY ConstantsAssumption DEF IInv, TypeOK, CopyState, Finalize, Goto
<1>4. TargetState'
  BY ConstantsAssumption DEF IInv, TypeOK, CopyState, TargetState, Finalize, Goto
<1>5. SourceState'
  BY ConstantsAssumption DEF IInv, TypeOK, CopyState, TargetState, SourceState, Finalize, Goto
<1> QED BY <1>2, <1>3, <1>4, <1>5 DEF IInv

LEMMA UnlinkSourceIInv == IInv /\ UnlinkSource => IInv'
<1> SUFFICES ASSUME IInv, UnlinkSource PROVE IInv'
  OBVIOUS
<1>2. TypeOK'
  BY DEF IInv, TypeOK, UnlinkSource, Goto, Unmoved, Steps, Ends
<1>3. CopyState'
  BY ConstantsAssumption DEF IInv, TypeOK, CopyState, UnlinkSource, Goto, Unmoved
<1>4. TargetState'
  BY ConstantsAssumption DEF IInv, TypeOK, CopyState, TargetState, UnlinkSource, Goto, Unmoved
<1>5. SourceState'
  BY ConstantsAssumption DEF IInv, TypeOK, CopyState, TargetState, SourceState, UnlinkSource, Goto, Unmoved, File
<1> QED BY <1>2, <1>3, <1>4, <1>5 DEF IInv

LEMMA CleanTempIInv == IInv /\ CleanTemp => IInv'
<1> SUFFICES ASSUME IInv, CleanTemp PROVE IInv'
  OBVIOUS
<1>2. TypeOK'
  BY DEF IInv, TypeOK, CleanTemp, Goto, Unmoved, Steps, Ends
<1>3. CopyState'
  BY ConstantsAssumption DEF IInv, TypeOK, CopyState, CleanTemp, Goto, Unmoved
<1>4. TargetState'
  BY ConstantsAssumption DEF IInv, TypeOK, CopyState, TargetState, CleanTemp, Goto, Unmoved
<1>5. SourceState'
  BY ConstantsAssumption DEF IInv, TypeOK, CopyState, TargetState, SourceState, CleanTemp, Goto, Unmoved
<1> QED BY <1>2, <1>3, <1>4, <1>5 DEF IInv

LEMMA UndoTargetIInv == IInv /\ UndoTarget => IInv'
<1> SUFFICES ASSUME IInv, UndoTarget PROVE IInv'
  OBVIOUS
<1>2. TypeOK'
  BY DEF IInv, TypeOK, UndoTarget, Goto, Unmoved, Steps, Ends
<1>3. CopyState'
  BY ConstantsAssumption DEF IInv, TypeOK, CopyState, UndoTarget, Goto, Unmoved
<1>4. TargetState'
  BY ConstantsAssumption DEF IInv, TypeOK, CopyState, TargetState, UndoTarget, Goto, Unmoved
<1>5. SourceState'
  BY ConstantsAssumption DEF IInv, TypeOK, CopyState, TargetState, SourceState, UndoTarget, Goto, Unmoved
<1> QED BY <1>2, <1>3, <1>4, <1>5 DEF IInv

LEMMA UserRemoveIInv == IInv /\ UserRemove => IInv'
<1> SUFFICES ASSUME IInv, UserRemove PROVE IInv'
  OBVIOUS
<1>2. TypeOK'
  BY DEF IInv, TypeOK, UserRemove, mover, Goto
<1>3. CopyState'
  BY ConstantsAssumption DEF IInv, TypeOK, CopyState, UserRemove, Goto, mover
<1>4. TargetState'
  BY ConstantsAssumption DEF IInv, TypeOK, CopyState, TargetState, UserRemove, Goto, mover
<1>5. SourceState'
  BY ConstantsAssumption DEF IInv, TypeOK, CopyState, TargetState, SourceState, UserRemove, Goto, mover, Running, Steps
<1> QED BY <1>2, <1>3, <1>4, <1>5 DEF IInv

LEMMA UserCreateIInv == IInv /\ UserCreate => IInv'
<1> SUFFICES ASSUME IInv, UserCreate PROVE IInv'
  OBVIOUS
<1>1. Foreign(<<>>) \in File
  BY EmptyIsBytes, ConstantsAssumption DEF Foreign, File
<1>2. TypeOK'
  BY <1>1 DEF IInv, TypeOK, UserCreate, mover, Goto
<1>3. CopyState'
  BY <1>1, ConstantsAssumption DEF IInv, TypeOK, CopyState, UserCreate, Goto, mover
<1>4. TargetState'
  BY <1>1, ConstantsAssumption DEF IInv, TypeOK, CopyState, TargetState, UserCreate, Goto, mover
<1>5. SourceState'
  BY <1>1, ConstantsAssumption DEF IInv, TypeOK, CopyState, TargetState, SourceState, UserCreate, Goto, mover
<1> QED BY <1>2, <1>3, <1>4, <1>5 DEF IInv

LEMMA UserWriteIInv == IInv /\ UserWrite => IInv'
<1> SUFFICES ASSUME IInv, UserWrite PROVE IInv'
  OBVIOUS
<1>1. /\ source' \in File /\ source' # Absent
      /\ latest' \in Bytes /\ source'.bytes = latest'
      /\ writes' \in 0..MaxWrites
  <2>1. PICK b \in Bytes, m \in {source.mtime, writes + 1} :
          source' = [source EXCEPT !.bytes = b, !.mtime = m] /\ latest' = b
    BY DEF UserWrite
  <2>2. /\ source \in File /\ source.mtime \in 0..MaxWrites
        /\ writes \in 0..MaxWrites /\ writes < MaxWrites /\ writes' = writes + 1
    BY DEF IInv, TypeOK, UserWrite, File
  <2>3. m \in 0..MaxWrites /\ writes' \in 0..MaxWrites
    BY <2>1, <2>2, ConstantsAssumption
  <2>4. source' \in File /\ source'.bytes = b
    BY <2>1, <2>2, <2>3 DEF File
  <2> QED BY <2>1, <2>3, <2>4, ConstantsAssumption
<1>2. TypeOK'
  BY <1>1 DEF IInv, TypeOK, UserWrite, mover, Goto
<1>3. CopyState'
  BY <1>1, ConstantsAssumption DEF IInv, TypeOK, CopyState, UserWrite, Goto, mover
<1>4. TargetState'
  BY <1>1, ConstantsAssumption DEF IInv, TypeOK, CopyState, TargetState, UserWrite, Goto, mover
<1>5. SourceState'
  BY <1>1, ConstantsAssumption DEF IInv, TypeOK, CopyState, TargetState, SourceState, UserWrite, Goto, mover, Running, Steps
<1> QED BY <1>2, <1>3, <1>4, <1>5 DEF IInv

LEMMA CopyChunkIInv == IInv /\ CopyChunk => IInv'
<1> SUFFICES ASSUME IInv, CopyChunk PROVE IInv'
  OBVIOUS
<1>1. /\ read' \in Bytes
      /\ temp' \in File /\ temp' # Absent /\ temp'.by = temp.by
      /\ Len(temp'.bytes) = Len(read')
  <2>1. /\ read \in Bytes /\ source \in File /\ source.bytes \in Bytes
        /\ temp \in File /\ temp.bytes \in Bytes /\ Len(temp.bytes) = Len(read)
        /\ Len(read) < Len(source.bytes)
    BY DEF IInv, TypeOK, CopyState, CopyChunk, File
  <2>2. PICK c \in Chunk :
          /\ read' = Append(read, source.bytes[Len(read) + 1])
          /\ temp' = [temp EXCEPT !.bytes = Append(@, c)]
    BY DEF CopyChunk
  <2>3. source.bytes[Len(read) + 1] \in Chunk
    BY <2>1, <2>2, AppendStaysBounded
  <2>4. read' \in Bytes /\ Len(read') = Len(read) + 1
    BY <2>1, <2>2, <2>3, AppendStaysBounded
  <2>5. Append(temp.bytes, c) \in Bytes /\ Len(Append(temp.bytes, c)) = Len(read) + 1
    BY <2>1, AppendStaysBounded
  <2>6. /\ temp' \in File /\ temp'.by = temp.by
        /\ temp'.bytes = Append(temp.bytes, c)
    BY <2>1, <2>2, <2>5 DEF File
  <2> QED BY <2>4, <2>5, <2>6, ConstantsAssumption
<1>2. TypeOK'
  BY <1>1 DEF IInv, TypeOK, CopyChunk, Goto, Steps
<1>3. CopyState'
  BY <1>1, ConstantsAssumption DEF IInv, TypeOK, CopyState, CopyChunk, Goto, Unmoved
<1>4. TargetState'
  BY <1>1, ConstantsAssumption DEF IInv, TypeOK, CopyState, TargetState, CopyChunk, Goto, Unmoved
<1>5. SourceState'
  BY <1>1, ConstantsAssumption DEF IInv, TypeOK, CopyState, TargetState, SourceState, CopyChunk, Goto, Unmoved
<1> QED BY <1>2, <1>3, <1>4, <1>5 DEF IInv

\* Every step of the call, of a crash and of the user preserves the invariant.
LEMMA StepIInv == IInv /\ [Next]_vars => IInv'
<1> SUFFICES ASSUME IInv, [Next]_vars PROVE IInv'
  OBVIOUS
<1>1. CASE QuietStep       BY <1>1, QuietStepIInv
<1>2. CASE Rename          BY <1>2, RenameIInv
<1>3. CASE StatSource      BY <1>3, StatSourceIInv
<1>4. CASE OpenTemp        BY <1>4, OpenTempIInv
<1>5. CASE CopyChunk       BY <1>5, CopyChunkIInv
<1>6. CASE CheckCopy       BY <1>6, CheckCopyIInv
<1>7. CASE Finalize        BY <1>7, FinalizeIInv
<1>8. CASE UnlinkSource    BY <1>8, UnlinkSourceIInv
<1>9. CASE CleanTemp       BY <1>9, CleanTempIInv
<1>10. CASE UndoTarget     BY <1>10, UndoTargetIInv
<1>11. CASE UserWrite      BY <1>11, UserWriteIInv
<1>12. CASE UserRemove     BY <1>12, UserRemoveIInv
<1>13. CASE UserCreate     BY <1>13, UserCreateIInv
<1>14. CASE UNCHANGED vars
  BY <1>14 DEF IInv, TypeOK, CopyState, TargetState, SourceState, vars, mover
<1> QED
  BY <1>1, <1>2, <1>3, <1>4, <1>5, <1>6, <1>7, <1>8, <1>9, <1>10, <1>11, <1>12,
     <1>13, <1>14 DEF Next, Move, User, QuietStep

\* The invariant holds in every reachable state of the mover.
THEOREM Invariance == Spec => []IInv
<1>1. Init => IInv
  BY InitIInv
<1>2. IInv /\ [Next]_vars => IInv'
  BY StepIInv
<1> QED BY <1>1, <1>2, PTL DEF Spec

\* Every variable of the mover keeps its type, for all files and all bounds.
THEOREM TypeCorrect == Spec => []TypeOK
<1>1. IInv => TypeOK
  BY DEF IInv
<1> QED BY <1>1, Invariance, PTL

\* A call that raised has not taken the source away: what quarantine_item
\* relies on when it drops the manifest of a move that failed.
THEOREM FailureSafe == Spec => []FailureKeepsSource
<1>1. IInv => FailureKeepsSource
  BY DEF IInv, SourceState, FailureKeepsSource
<1> QED BY <1>1, Invariance, PTL

\* Short of a write between the last hash and the unlink, the latest version
\* of the user's file is never lost, at any crash point.
THEOREM NothingLost == ~LateWrites => (Spec => []NoLoss)
<1> SUFFICES ASSUME ~LateWrites PROVE Spec => []NoLoss
  OBVIOUS
<1>1. IInv => NoLoss
  BY DEF IInv, SourceState, NoLoss
<1> QED BY <1>1, Invariance, PTL

\* What the files at the three names are, over and above IInv: a copy of this
\* call's own is one that a flag of the call still speaks of.
NotCopy(file) == file = Absent \/ file.by # "copy"

LeftState ==
  /\ NotCopy(source)
  /\ ~tempCreated => NotCopy(temp)
  /\ ~finalized => NotCopy(target)
  /\ pc \in {"verify", "unlink", "undo", "done", "failed"} => NotCopy(temp)
  /\ pc = "failed" /\ source # Absent => NotCopy(target)

LEMMA InitLeftState == Init => LeftState
BY DEF Init, Foreign, LeftState, NotCopy

LEMMA StepLeftState == IInv /\ LeftState /\ [Next]_vars => LeftState'
<1> SUFFICES ASSUME IInv, LeftState, [Next]_vars PROVE LeftState'
  OBVIOUS
<1>1. CASE QuietStep
  <2>1. UNCHANGED <<source, target, temp, tempCreated, finalized>>
    BY <1>1 DEF QuietStep, Start, RenameExdev, Refuse, OwnTemp, CopyEnd, TargetFree,
       VerifySource, Raise, Crash, Unmoved
  <2>2. pc' \in {"verify", "unlink", "undo", "done"} => pc = "verify"
    BY <1>1 DEF QuietStep, Start, RenameExdev, Refuse, OwnTemp, CopyEnd, TargetFree,
       VerifySource, Raise, Crash, Goto
  <2>3. pc' = "failed" => pc \in {"start", "rename", "stat"}
    BY <1>1 DEF QuietStep, Start, RenameExdev, Refuse, OwnTemp, CopyEnd, TargetFree,
       VerifySource, Raise, Crash, Goto
  <2> QED BY <2>1, <2>2, <2>3 DEF LeftState, NotCopy, IInv, CopyState
<1>2. CASE Rename
  BY <1>2 DEF Rename, RenameAllowed, Goto, Unmoved, LeftState, NotCopy, IInv, CopyState
<1>3. CASE StatSource
  BY <1>3 DEF StatSource, Goto, LeftState, NotCopy
<1>4. CASE OpenTemp
  BY <1>4 DEF OpenTemp, Goto, LeftState, NotCopy
<1>5. CASE CopyChunk
  BY <1>5 DEF CopyChunk, LeftState, NotCopy, IInv, CopyState
<1>6. CASE CheckCopy
  BY <1>6 DEF CheckCopy, Goto, Unmoved, LeftState, NotCopy, IInv, CopyState
<1>7. CASE Finalize
  BY <1>7 DEF Finalize, Goto, LeftState, NotCopy
<1>8. CASE UnlinkSource
  BY <1>8 DEF UnlinkSource, Goto, Unmoved, LeftState, NotCopy
<1>9. CASE CleanTemp
  BY <1>9 DEF CleanTemp, Goto, Unmoved, LeftState, NotCopy
<1>10. CASE UndoTarget
  BY <1>10 DEF UndoTarget, Goto, Unmoved, LeftState, NotCopy
<1>11. CASE UserWrite
  <2>1. source \in File /\ source # Absent
    BY <1>11 DEF UserWrite, IInv, TypeOK
  <2>2. source'.by = source.by
    BY <1>11, <2>1 DEF UserWrite, File
  <2> QED BY <1>11, <2>1, <2>2 DEF UserWrite, mover, LeftState, NotCopy
<1>12. CASE UserRemove
  BY <1>12 DEF UserRemove, mover, LeftState, NotCopy
<1>13. CASE UserCreate
  BY <1>13 DEF UserCreate, Foreign, mover, LeftState, NotCopy
<1>14. CASE UNCHANGED vars
  BY <1>14 DEF vars, mover, LeftState, NotCopy
<1> QED
  BY <1>1, <1>2, <1>3, <1>4, <1>5, <1>6, <1>7, <1>8, <1>9, <1>10, <1>11, <1>12,
     <1>13, <1>14 DEF Next, Move, User, QuietStep

\* A call that has returned, or raised without its cleanup raising too, leaves no
\* copy of its own beside the source (the except clause of quarantine.py:171-176).
THEOREM NothingStaysBehind == Spec => []NothingLeftBehind
<1>1. LeftState => NothingLeftBehind
  BY DEF LeftState, NotCopy, NothingLeftBehind
<1> QED
  BY <1>1, InitLeftState, StepLeftState, Invariance, PTL DEF Spec

\* On Windows no step of the mover replaces or deletes a file of another
\* program: at the target, or under the name of the copy's temporary.
THEOREM StrangersKept == Spec => ForeignFilesKept
<1> DEFINE Kept == /\ ~RenameReplaces /\ target # Absent /\ target.by = "other" => target' = target
                   /\ temp # Absent /\ temp.by = "other" => temp' = temp
<1>1. IInv /\ [Next]_vars => [Kept]_vars
  <2> SUFFICES ASSUME IInv, Next PROVE Kept
    BY DEF Kept
  <2>1. CASE QuietStep \/ StatSource \/ UnlinkSource \/ UserWrite \/ UserRemove \/ UserCreate
    BY <2>1 DEF QuietStep, Start, RenameExdev, Refuse, OwnTemp, CopyEnd, TargetFree, VerifySource,
       Raise, Crash, StatSource, UnlinkSource, UserWrite, UserRemove, UserCreate
  <2>2. CASE Rename      BY <2>2 DEF Rename, RenameAllowed
  <2>3. CASE OpenTemp    BY <2>3 DEF OpenTemp
  <2>4. CASE CopyChunk   BY <2>4 DEF CopyChunk, IInv, CopyState
  <2>5. CASE CheckCopy   BY <2>5 DEF CheckCopy, Goto, IInv, CopyState
  <2>6. CASE Finalize    BY <2>6 DEF Finalize, Goto, RenameAllowed, IInv, CopyState
  <2>7. CASE CleanTemp   BY <2>7 DEF CleanTemp, IInv, CopyState
  <2>8. CASE UndoTarget  BY <2>8 DEF UndoTarget, Goto, IInv, TargetState
  <2> QED
    BY <2>1, <2>2, <2>3, <2>4, <2>5, <2>6, <2>7, <2>8 DEF Next, Move, User, QuietStep
<1> QED BY <1>1, Invariance, PTL DEF Spec, ForeignFilesKept

-----------------------------------------------------------------------------
(***************************************************************************)
(* Implementation.  Rename and UnlinkSource are the two steps that change  *)
(* the place; refusals and crashes stop the call; every other step of the  *)
(* mover is a stutter of AtomicMove.                                       *)
(***************************************************************************)

LEMMA InitImplements == Init => Contract!Init
<1> SUFFICES ASSUME Init PROVE Contract!Init
  OBVIOUS
<1>1. source # Absent /\ latest # Absent /\ source.bytes \in Bytes
  BY InitIInv, ConstantsAssumption DEF IInv, TypeOK, Init, File
<1> QED BY <1>1 DEF Init, Contract!Init, Place, Verdict

\* A step that leaves the source, the target and the user's version alone.
LEMMA StillStep ==
  ASSUME IInv, UNCHANGED <<source, latest>>, source = Absent => target' = target,
         Verdict = "moving", Verdict' \in {"moving", "refused", "stopped"}
  PROVE  [Contract!Next]_Contract!vars
<1>1. UNCHANGED Place
  BY DEF Place
<1>2. UNCHANGED (IF latest = Absent THEN <<>>
                 ELSE IF source # Absent THEN source.bytes ELSE target.bytes)
  OBVIOUS
<1>3. CASE Verdict' = "moving"
  BY <1>1, <1>2, <1>3 DEF Contract!vars
<1>4. CASE Verdict' # "moving"
  BY <1>1, <1>2, <1>4 DEF Contract!Next, Contract!Stop
<1> QED BY <1>3, <1>4

LEMMA StepImplements ==
  ~LateWrites /\ IInv /\ IInv' /\ [Next]_vars => [Contract!Next]_Contract!vars
<1> SUFFICES ASSUME ~LateWrites, IInv, IInv', [Next]_vars
             PROVE  [Contract!Next]_Contract!vars
  OBVIOUS
<1>1. CASE QuietStep \/ StatSource \/ OpenTemp \/ CopyChunk \/ CheckCopy \/ CleanTemp
  <2>1. /\ UNCHANGED <<source, target, latest>>
        /\ pc \in Steps /\ pc' \in Steps \cup {"failed", "dirty", "crashed"}
    BY <1>1 DEF QuietStep, Start, RenameExdev, Refuse, OwnTemp, CopyEnd, TargetFree,
       VerifySource, Raise, Crash, StatSource, OpenTemp, CopyChunk, CheckCopy,
       CleanTemp, Goto, Unmoved, Steps
  <2>2. Verdict = "moving" /\ Verdict' \in {"moving", "refused", "stopped"}
    BY <2>1 DEF Verdict, Steps
  <2> QED BY <2>1, <2>2, StillStep
<1>2. CASE Finalize
  <2>1. source = Absent => latest = Absent
    BY <1>2 DEF IInv, SourceState, Finalize, Goto
  <2>2. Verdict = "moving" /\ Verdict' = "moving" /\ UNCHANGED <<source, latest>>
    BY <1>2 DEF Finalize, Goto, Verdict
  <2>3. UNCHANGED Place
    BY <2>2 DEF Place
  <2>4. UNCHANGED (IF latest = Absent THEN <<>>
                   ELSE IF source # Absent THEN source.bytes ELSE target.bytes)
    BY <2>1, <2>2
  <2> QED BY <2>2, <2>3, <2>4 DEF Contract!vars
<1>3. CASE UndoTarget
  <2>1. UNCHANGED <<source, latest>> /\ (source = Absent => target' = target)
    BY <1>3 DEF UndoTarget, Unmoved
  <2>2. Verdict = "moving" /\ Verdict' = "refused"
    BY <1>3 DEF UndoTarget, Goto, Verdict
  <2> QED BY <2>1, <2>2, StillStep
<1>4. CASE Rename \/ UnlinkSource
  <2>1. /\ source # Absent /\ source' = Absent /\ latest' = latest
        /\ source.bytes = latest /\ latest # Absent /\ target'.bytes = latest
    BY <1>4 DEF Rename, UnlinkSource, RenameAllowed, Goto, Unmoved, IInv, SourceState, TargetState
  <2>2. Verdict = "moving" /\ Verdict' = "moved"
    BY <1>4 DEF Rename, UnlinkSource, Goto, Verdict
  <2>3. Place = "source" /\ Place' = "target"
    BY <2>1 DEF Place
  <2> QED BY <2>1, <2>2, <2>3 DEF Contract!Next, Contract!Move
<1>5. CASE UserWrite
  <2>1. /\ source # Absent /\ source' # Absent /\ UNCHANGED pc
        /\ latest # Absent /\ latest' # Absent /\ source'.bytes \in Bytes
    BY <1>5, ConstantsAssumption DEF UserWrite, mover, IInv, TypeOK, SourceState, File
  <2>2. UNCHANGED Verdict
    BY <2>1 DEF Verdict
  <2>3. Place = "source" /\ Place' = "source"
    BY <2>1 DEF Place
  <2> QED BY <2>1, <2>2, <2>3 DEF Contract!Next, Contract!UserWrite
<1>6. CASE UserRemove
  <2>1. source # Absent /\ latest # Absent /\ latest' = Absent /\ UNCHANGED pc
    BY <1>6, ConstantsAssumption DEF UserRemove, mover, IInv, TypeOK, SourceState, File
  <2>2. UNCHANGED Verdict
    BY <2>1 DEF Verdict
  <2>3. Place = "source" /\ Place' = "nowhere"
    BY <2>1 DEF Place
  <2> QED BY <2>1, <2>2, <2>3, EmptyIsBytes DEF Contract!Next, Contract!UserRemove
<1>7. CASE UserCreate
  <2>1. UNCHANGED <<source, latest, pc>>
    BY <1>7 DEF UserCreate, mover
  <2>2. source = Absent => latest = Absent
    BY <1>7 DEF UserCreate, Running, Steps, IInv, SourceState
  <2>3. UNCHANGED <<Verdict, Place>>
    BY <2>1 DEF Verdict, Place
  <2>4. UNCHANGED (IF latest = Absent THEN <<>>
                   ELSE IF source # Absent THEN source.bytes ELSE target.bytes)
    BY <2>1, <2>2
  <2> QED BY <2>3, <2>4 DEF Contract!vars
<1>8. CASE UNCHANGED vars
  BY <1>8 DEF vars, mover, Contract!vars, Place, Verdict
<1> QED
  BY <1>1, <1>2, <1>3, <1>4, <1>5, <1>6, <1>7, <1>8 DEF Next, Move, User, QuietStep

\* Seen by its callers, the copy is one indivisible move of one file.
THEOREM Implementation == ~LateWrites => (Spec => ImplementsAtomicMove)
<1> SUFFICES ASSUME ~LateWrites PROVE Spec => ImplementsAtomicMove
  OBVIOUS
<1>1. Init => Contract!Init
  BY InitImplements
<1>2. IInv /\ IInv' /\ [Next]_vars => [Contract!Next]_Contract!vars
  BY StepImplements
<1> QED BY <1>1, <1>2, Invariance, PTL DEF Spec, ImplementsAtomicMove, Contract!Spec

=============================================================================
