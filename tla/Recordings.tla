----------------------------- MODULE Recordings -----------------------------
(***************************************************************************)
(* What the DVR promises about the recordings on disk, crashes included: a *)
(* recording is begun once, is finished at most once, and one that was     *)
(* deleted never comes back.                                               *)
(***************************************************************************)
CONSTANT Ids
VARIABLE phase     \* recording -> "new", "live", "kept" or "gone"

Init == phase = [i \in Ids |-> "new"]

Move(i, from, to) == phase[i] = from /\ phase' = [phase EXCEPT ![i] = to]

Begin(i)  == Move(i, "new", "live")
Finish(i) == Move(i, "live", "kept")
Delete(i) == Move(i, "live", "gone") \/ Move(i, "kept", "gone")

\* A restart finishes what the previous process left unfinished.
Recover ==
  \E done \in SUBSET {i \in Ids : phase[i] = "live"} :
    phase' = [i \in Ids |-> IF i \in done THEN "kept" ELSE phase[i]]

Next == Recover \/ \E i \in Ids : Begin(i) \/ Finish(i) \/ Delete(i)

Spec == Init /\ [][Next]_phase

=============================================================================
