----------------------------- MODULE AtomicMove -----------------------------
(***************************************************************************)
(* What quarantine.py promises to the callers of move_file_verified: one   *)
(* user file is at exactly one of two places; the move changes the place   *)
(* in one indivisible step together with the verdict, or it is refused and *)
(* the file stays where it was.  The user may go on writing the file, or   *)
(* remove it, for as long as it is at its source.                          *)
(*                                                                         *)
(* VerifiedMove, the step-by-step algorithm, implements this module.       *)
(***************************************************************************)

CONSTANTS
  Version     \* the contents the user's file may have

VARIABLES
  place,      \* "source", "target" or "nowhere" (removed by the user)
  version,    \* the content at that place
  verdict     \* "moving", "moved", "refused", or "stopped" by a crash

vars == <<place, version, verdict>>

TypeOK ==
  /\ place \in {"source", "target", "nowhere"}
  /\ version \in Version
  /\ verdict \in {"moving", "moved", "refused", "stopped"}

Init ==
  /\ place = "source"
  /\ version \in Version
  /\ verdict = "moving"

Move ==
  /\ verdict = "moving"
  /\ place = "source"
  /\ place' = "target"
  /\ verdict' = "moved"
  /\ UNCHANGED version

\* A refusal, or a crash: the file is left alone.
Stop ==
  /\ verdict = "moving"
  /\ verdict' \in {"refused", "stopped"}
  /\ UNCHANGED <<place, version>>

UserWrite ==
  /\ place = "source"
  /\ version' \in Version
  /\ UNCHANGED <<place, verdict>>

UserRemove ==
  /\ place = "source"
  /\ place' = "nowhere"
  /\ version' \in Version
  /\ UNCHANGED verdict

Next == Move \/ Stop \/ UserWrite \/ UserRemove

Spec == Init /\ [][Next]_vars

=============================================================================
