---------------------------- MODULE AudioIntake -----------------------------
(***************************************************************************)
(* What a live request promises (app/server/README.md, the live            *)
(* transcription route) of a session fed by audio: it is given the         *)
(* client's audio in order, in whole frames and without a gap; the reply   *)
(* calls the body whole only when all of it was given, and anything else   *)
(* is called broken.  A session that takes no audio is given none, and its *)
(* verdict says nothing of the body.                                       *)
(***************************************************************************)
EXTENDS Integers, Sequences

CONSTANT FrameBytes

VARIABLES input, sent, given, verdict

vars == <<input, sent, given, verdict>>

WholeFrames(n) == (n \div FrameBytes) * FrameBytes

Init ==
  /\ input \in {"AudioChunks", "None"}
  /\ sent \in Seq(Nat)
  /\ given = <<>>
  /\ verdict = "none"

Give ==
  /\ input = "AudioChunks"
  /\ verdict = "none"
  /\ \E n \in Len(given)..Len(sent) :
       /\ n % FrameBytes = 0
       /\ given' = SubSeq(sent, 1, n)
  /\ UNCHANGED <<input, sent, verdict>>

Accept ==
  /\ verdict = "none"
  /\ input = "AudioChunks" => Len(given) = WholeFrames(Len(sent))
  /\ verdict' = "whole"
  /\ UNCHANGED <<input, sent, given>>

Reject ==
  /\ verdict = "none"
  /\ verdict' = "broken"
  /\ UNCHANGED <<input, sent, given>>

Next == Give \/ Accept \/ Reject

Spec == Init /\ [][Next]_vars
=============================================================================
