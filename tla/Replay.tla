-------------------------------- MODULE Replay --------------------------------
(***************************************************************************)
(* What recording and playing back promises: the master appends the        *)
(* checkpoints it meets, the apprentice goes through them in the same      *)
(* order, one by one, and every one it accepts agrees with the recorded    *)
(* one.  The verdict "match" needs a recording that is complete up to its  *)
(* end of test, all of it accepted; "fail" may be the verdict at any time. *)
(***************************************************************************)
EXTENDS Naturals, Sequences

CONSTANTS
  Checkpoint,        \* what a process shows at a checkpoint
  Agree(_, _),       \* recorded and met agree
  IsEnd(_)           \* the checkpoint is the end of the test

VARIABLES recorded, accepted, verdict

vars == <<recorded, accepted, verdict>>

Init == recorded = <<>> /\ accepted = <<>> /\ verdict = "none"

Record(c) ==
  /\ recorded' = Append(recorded, c)
  /\ UNCHANGED <<accepted, verdict>>

Accept(c) ==
  /\ verdict = "none"
  /\ Len(accepted) < Len(recorded)
  /\ LET r == recorded[Len(accepted) + 1] IN
     /\ Agree(r, c)
     /\ verdict' = IF IsEnd(r) THEN "match" ELSE "none"
  /\ accepted' = Append(accepted, c)
  /\ UNCHANGED recorded

Fail ==
  /\ verdict = "none"
  /\ verdict' = "fail"
  /\ UNCHANGED <<recorded, accepted>>

Next == Fail \/ \E c \in Checkpoint : Record(c) \/ Accept(c)

Spec == Init /\ [][Next]_vars
=============================================================================
