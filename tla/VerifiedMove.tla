---------------------------- MODULE VerifiedMove ----------------------------
(***************************************************************************)
(* The file mover of src/avcleaner/quarantine.py: move_file_verified, with *)
(* _copy_then_delete_verified when the rename crosses a volume.  One call, *)
(* from one source to one target, step by step: every stat, read, write,   *)
(* rename and unlink of the code is a step of its own wherever another     *)
(* program may act in between.                                             *)
(*                                                                         *)
(* Around the call acts the user (a downloader, an editor): it writes or   *)
(* removes the source, and puts files of its own where the target or the   *)
(* copy's temporary file would go.  Any I/O step may raise, and the        *)
(* process may crash between two steps.                                    *)
(***************************************************************************)
EXTENDS Naturals, Sequences

CONSTANTS
  Chunk,           \* what one read of COPY_CHUNK_SIZE bytes may return
  MaxChunks,       \* bound: longest file, in chunks
  MaxWrites,       \* bound: writes of the user to the source
  Absent,          \* no file of that name
  RenameReplaces,  \* POSIX rename replaces its target; Windows refuses
  LateWrites       \* may the user write between the last hash and unlink?

Bytes == UNION {[1..n -> Chunk] : n \in 0..MaxChunks}
File == [bytes : Bytes, mtime : 0..MaxWrites, by : {"user", "copy", "other"}]

ASSUME ConstantsAssumption ==
  /\ MaxChunks \in Nat
  /\ MaxWrites \in Nat
  /\ Absent \notin File \cup Bytes
  /\ RenameReplaces \in BOOLEAN
  /\ LateWrites \in BOOLEAN

VARIABLES
  source,      \* the file being moved
  target,      \* the place it goes to
  temp,        \* copy_temp_path_for(target)
  pc,          \* the next step of the mover, or how the call ended
  read,        \* the bytes fed to source_digest so far
  stat,        \* source_stat: size and mtime of the source before the copy
  tempCreated, \* temp_created
  finalized,   \* finalized
  writes,      \* how often the user has written the source
  latest       \* (history) the user's latest version, or Absent once removed

mover == <<pc, read, stat, tempCreated, finalized>>
vars == <<source, target, temp, mover, writes, latest>>

Steps == {"start", "rename", "stat", "open", "own", "copy", "check", "exists",
          "finalize", "verify", "unlink", "cleanup", "undo"}
Ends == {"done", "failed", "dirty", "crashed"}

TypeOK ==
  /\ source \in File \cup {Absent}
  /\ target \in File \cup {Absent}
  /\ temp \in File \cup {Absent}
  /\ pc \in Steps \cup Ends
  /\ read \in Bytes
  /\ stat \in [size : 0..MaxChunks, mtime : 0..MaxWrites]
  /\ tempCreated \in BOOLEAN
  /\ finalized \in BOOLEAN
  /\ writes \in 0..MaxWrites
  /\ latest \in Bytes \cup {Absent}

Foreign(b) == [bytes |-> b, mtime |-> 0, by |-> "other"]

\* The call starts on any file; a stranger may already hold the other names.
Init ==
  /\ \E b \in Bytes :
       /\ source = [bytes |-> b, mtime |-> 0, by |-> "user"]
       /\ latest = b
  /\ target \in {Absent, Foreign(<<>>)}
  /\ temp \in {Absent, Foreign(<<>>)}
  /\ pc = "start"
  /\ read = <<>>
  /\ stat = [size |-> 0, mtime |-> 0]
  /\ tempCreated = FALSE
  /\ finalized = FALSE
  /\ writes = 0

Goto(from, to) == pc = from /\ pc' = to

Unmoved == UNCHANGED <<read, stat, tempCreated, finalized, writes, latest>>

\* source.stat() raises, or the target is taken: nothing has been touched.
Start ==
  /\ IF source = Absent \/ target # Absent
       THEN Goto("start", "failed") ELSE Goto("start", "rename")
  /\ UNCHANGED <<source, target, temp>> /\ Unmoved

RenameAllowed(from, to) == from # Absent /\ (to = Absent \/ RenameReplaces)

\* source.rename(target), inside one volume or across two: only EXDEV goes on
\* to the copy.
Rename ==
  /\ RenameAllowed(source, target)
  /\ Goto("rename", "done")
  /\ target' = source
  /\ source' = Absent
  /\ UNCHANGED temp /\ Unmoved

RenameExdev ==
  /\ Goto("rename", "stat")
  /\ UNCHANGED <<source, target, temp>> /\ Unmoved

\* Any other OSError, and a source.stat() that raises before the try block.
Refuse ==
  /\ \/ Goto("rename", "failed")
     \/ source = Absent /\ Goto("stat", "failed")
  /\ UNCHANGED <<source, target, temp>> /\ Unmoved

StatSource ==
  /\ source # Absent
  /\ Goto("stat", "open")
  /\ stat' = [size |-> Len(source.bytes), mtime |-> source.mtime]
  /\ UNCHANGED <<source, target, temp, read, tempCreated, finalized, writes, latest>>

\* source.open("rb"), temp.open("xb"): a temp of that name is never opened.
OpenTemp ==
  /\ source # Absent
  /\ temp = Absent
  /\ Goto("open", "own")
  /\ temp' = [bytes |-> <<>>, mtime |-> 0, by |-> "copy"]
  /\ tempCreated' = TRUE
  /\ UNCHANGED <<source, target, read, stat, finalized, writes, latest>>

\* temp_created_callback: the caller's journal learns who owns the temp.
OwnTemp ==
  /\ Goto("own", "copy")
  /\ UNCHANGED <<source, target, temp>> /\ Unmoved

\* Variant: a chunk is written again after a short write.
CopyChunk_Twice ==
  /\ pc = "copy"
  /\ source # Absent
  /\ Len(read) < Len(source.bytes)
  /\ \E c \in Chunk :
       /\ read' = Append(read, source.bytes[Len(read) + 1])
       /\ temp' = [temp EXCEPT !.bytes = @ \o <<c, c>>]
  /\ UNCHANGED <<source, target, pc, stat, tempCreated, finalized, writes, latest>>

\* One turn of the loop.  What reaches the disk may differ from what was read.
CopyChunk ==
  /\ pc = "copy"
  /\ source # Absent
  /\ Len(read) < Len(source.bytes)
  /\ \E c \in Chunk :
       /\ read' = Append(read, source.bytes[Len(read) + 1])
       /\ temp' = [temp EXCEPT !.bytes = Append(@, c)]
  /\ UNCHANGED <<source, target, pc, stat, tempCreated, finalized, writes, latest>>

CopyEnd ==
  /\ Goto("copy", "check")
  /\ source # Absent
  /\ Len(read) >= Len(source.bytes)
  /\ UNCHANGED <<source, target, temp>> /\ Unmoved

SourceAsStat ==
  /\ source # Absent
  /\ Len(source.bytes) = stat.size
  /\ source.mtime = stat.mtime

\* The source has not been touched, the copy is complete and reads back equal.
CheckCopy ==
  /\ Goto("check", "exists")
  /\ SourceAsStat
  /\ Len(read) = stat.size
  /\ temp.bytes = read
  /\ temp' = [temp EXCEPT !.mtime = stat.mtime]
  /\ UNCHANGED <<source, target>> /\ Unmoved

TargetFree ==
  /\ target = Absent
  /\ Goto("exists", "finalize")
  /\ UNCHANGED <<source, target, temp>> /\ Unmoved

Finalize ==
  /\ RenameAllowed(temp, target)
  /\ Goto("finalize", "verify")
  /\ target' = temp
  /\ temp' = Absent
  /\ finalized' = TRUE
  /\ UNCHANGED <<source, read, stat, tempCreated, writes, latest>>

\* Variant: the source is not looked at again before it is deleted.
VerifySource_Blind ==
  /\ Goto("verify", "unlink")
  /\ UNCHANGED <<source, target, temp>> /\ Unmoved

\* Variant: size and mtime are believed, the source is not hashed again.
VerifySource_StatOnly ==
  /\ Goto("verify", "unlink")
  /\ SourceAsStat
  /\ UNCHANGED <<source, target, temp>> /\ Unmoved

\* The source is stat'ed and hashed once more before it may be deleted.
VerifySource ==
  /\ Goto("verify", "unlink")
  /\ SourceAsStat
  /\ source.bytes = read
  /\ UNCHANGED <<source, target, temp>> /\ Unmoved

\* Variant: something after the unlink is inside the try block and raises.
UnlinkSource_ThenRaises ==
  /\ source # Absent
  /\ Goto("unlink", "cleanup")
  /\ source' = Absent
  /\ UNCHANGED <<target, temp>> /\ Unmoved

UnlinkSource ==
  /\ source # Absent
  /\ Goto("unlink", "done")
  /\ source' = Absent
  /\ UNCHANGED <<target, temp>> /\ Unmoved

\* Each step of the try block may raise: by its own check or by any I/O error.
Raise ==
  /\ \E s \in Steps \ {"start", "rename", "stat", "cleanup", "undo"} :
       Goto(s, "cleanup")
  /\ UNCHANGED <<source, target, temp>> /\ Unmoved

\* Variant: the temp is removed whoever created it.
CleanTemp_Any ==
  /\ Goto("cleanup", "undo")
  /\ temp' = Absent
  /\ UNCHANGED <<source, target>> /\ Unmoved

\* except: the temp goes if this call created it; the unlink may raise itself.
CleanTemp ==
  /\ \/ /\ Goto("cleanup", "undo")
        /\ temp' = IF tempCreated THEN Absent ELSE temp
     \/ tempCreated /\ Goto("cleanup", "dirty") /\ UNCHANGED temp
  /\ UNCHANGED <<source, target>> /\ Unmoved

\* Variant: the finalized copy is not taken back.
UndoTarget_Never ==
  /\ Goto("undo", "failed")
  /\ UNCHANGED <<source, target, temp>> /\ Unmoved

\* The target goes only while the source is still there.
UndoTarget ==
  /\ \/ /\ Goto("undo", "failed")
        /\ target' = IF finalized /\ source # Absent THEN Absent ELSE target
     \/ /\ finalized /\ source # Absent
        /\ Goto("undo", "dirty")
        /\ UNCHANGED target
  /\ UNCHANGED <<source, temp>> /\ Unmoved

Crash ==
  /\ pc \in Steps
  /\ pc' = "crashed"
  /\ UNCHANGED <<source, target, temp>> /\ Unmoved

Move ==
  \/ Start \/ Rename \/ RenameExdev \/ Refuse \/ StatSource \/ OpenTemp
  \/ OwnTemp \/ CopyChunk \/ CopyEnd \/ CheckCopy \/ TargetFree \/ Finalize
  \/ VerifySource \/ UnlinkSource \/ Raise \/ CleanTemp \/ UndoTarget

-----------------------------------------------------------------------------
\* The user and its other programs, while the call is under way.

Running == pc \in Steps

\* A write may leave the size and the mtime as they were.
UserWrite ==
  /\ Running
  /\ source # Absent
  /\ writes < MaxWrites
  /\ pc = "unlink" => LateWrites
  /\ \E b \in Bytes, m \in {source.mtime, writes + 1} :
       /\ source' = [source EXCEPT !.bytes = b, !.mtime = m]
       /\ latest' = b
  /\ writes' = writes + 1
  /\ UNCHANGED <<target, temp, mover>>

\* Not while the copy holds the source open: Windows refuses the removal.
UserRemove ==
  /\ Running
  /\ source # Absent
  /\ pc \notin {"own", "copy"}
  /\ source' = Absent
  /\ latest' = Absent
  /\ UNCHANGED <<target, temp, mover, writes>>

\* A file of that name appears: a download resumes, the user saves a file.
\* The temp's name has a suffix of the program's own: a stranger may hold it
\* before the copy creates it, not take it between two steps of the copy.
UserCreate ==
  /\ Running
  /\ \/ target = Absent /\ target' = Foreign(<<>>) /\ UNCHANGED temp
     \/ temp = Absent /\ ~tempCreated /\ temp' = Foreign(<<>>) /\ UNCHANGED target
  /\ UNCHANGED <<source, mover, writes, latest>>

User == UserWrite \/ UserRemove \/ UserCreate

Next == Move \/ Crash \/ User

Spec == Init /\ [][Next]_vars

-----------------------------------------------------------------------------
\* Whatever happens, crash included, the latest version the user wrote is
\* whole at the source or at the target (_copy_then_delete_verified's checks
\* before source.unlink, and the source.exists() test before target.unlink).
NoLoss ==
  latest # Absent =>
    \/ source # Absent /\ source.bytes = latest
    \/ target # Absent /\ target.bytes = latest

\* A call that raises has left the source in place, unless the user removed
\* it: quarantine_item drops its manifest on that ground.
FailureKeepsSource ==
  pc \in {"failed", "dirty"} /\ latest # Absent => source # Absent

\* A call leaves no copy of its own behind beside the source, unless its
\* cleanup raised: temp.unlink and target.unlink of the except clause.
NothingLeftBehind ==
  /\ pc \in {"done", "failed"} => temp = Absent \/ temp.by # "copy"
  /\ pc = "failed" /\ source # Absent => target = Absent \/ target.by # "copy"

\* Where rename refuses an existing target, no step of the mover replaces or
\* deletes a file it did not create, at the target or at the temp's name.
ForeignFilesKept ==
  [][/\ ~RenameReplaces /\ target # Absent /\ target.by = "other" => target' = target
     /\ temp # Absent /\ temp.by = "other" => temp' = temp]_vars

\* The call as its callers see it: one file, at one place.
Verdict ==
  CASE pc = "done" -> "moved"
    [] pc \in {"failed", "dirty"} -> "refused"
    [] pc = "crashed" -> "stopped"
    [] OTHER -> "moving"

\* The history variable keeps the last content once the user removed the file.
Place ==
  IF latest = Absent THEN "nowhere"
  ELSE IF source # Absent THEN "source" ELSE "target"

Contract == INSTANCE AtomicMove WITH
  Version <- Bytes,
  place <- Place,
  version <- IF latest = Absent THEN <<>>
             ELSE IF source # Absent THEN source.bytes ELSE target.bytes,
  verdict <- Verdict

\* The algorithm implements the contract: between Finalize and UnlinkSource
\* the copy at the target is not yet the user's file.
ImplementsAtomicMove == Contract!Spec
=============================================================================
