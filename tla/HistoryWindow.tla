--------------------------- MODULE HistoryWindow ---------------------------
(***************************************************************************)
(* What the user is told of the decoder's history (docs/models/            *)
(* vibevoice_asr.md, "Long streams and the history window"): by default a  *)
(* result is computed from every step so far; with a window, "the model    *)
(* then stores only the most recent steps": from the prompt, which is      *)
(* never removed, and from those.                                          *)
(***************************************************************************)
EXTENDS Integers

CONSTANTS Decoders, Prompts, LongestAppend

\* room: slots of the window, 0 when there is none.  length: -1 for a decoder
\* that is not in use.  basis: the steps the latest result was computed from.
VARIABLES room, prompt, length, basis

vars == <<room, prompt, length, basis>>

Kept(n) ==
  {p \in 0..(n - 1) : room = 0 \/ p < prompt \/ p >= n - (room - prompt)}

Init ==
  /\ room \in Nat
  /\ prompt \in Nat
  /\ length = [d \in Decoders |-> -1]
  /\ basis = [d \in Decoders |-> {}]

\* A request begins: some decoders start from its prompt.
Begin ==
  /\ \A d \in Decoders : length[d] = -1
  /\ prompt' \in Prompts \cup {0}
  /\ \E n \in Prompts, D \in SUBSET Decoders :
       length' = [d \in Decoders |-> IF d \in D THEN n ELSE -1]
  /\ UNCHANGED <<room, basis>>

Append(d) ==
  /\ length[d] >= 0
  /\ \E k \in 1..LongestAppend : length' = [length EXCEPT ![d] = @ + k]
  /\ basis' = [basis EXCEPT ![d] = Kept(length'[d])]
  /\ UNCHANGED <<room, prompt>>

\* A search goes two ways from one state.
Copy(d, e) ==
  /\ length[d] >= 0
  /\ length[e] = -1
  /\ length' = [length EXCEPT ![e] = length[d]]
  /\ UNCHANGED <<room, prompt, basis>>

Drop(D) ==
  /\ length' = [d \in Decoders |-> IF d \in D THEN -1 ELSE length[d]]
  /\ basis' = [d \in Decoders |-> IF d \in D THEN {} ELSE basis[d]]
  /\ UNCHANGED <<room, prompt>>

Next ==
  \/ Begin
  \/ \E d \in Decoders : Append(d)
  \/ \E d, e \in Decoders : Copy(d, e)
  \/ \E D \in SUBSET Decoders : Drop(D)

Spec == Init /\ [][Next]_vars
=============================================================================
