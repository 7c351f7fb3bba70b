------------------------------ MODULE MCWaits ------------------------------
(***************************************************************************)
(* Readers that wait for a piece to be fetched again, and jobs that wait   *)
(* for a transcode slot, do so independently: a run takes the steps of one *)
(* part and leaves the other in a first state.                             *)
(***************************************************************************)
EXTENDS MCMemStorage, SlotSem

VARIABLE part

waitVars == <<part, vars, slotVars>>

\* Of the part that takes no steps one first state is enough.
WaitInit ==
  /\ part \in {"pieces", "slots"}
  /\ Init /\ SlotInit
  /\ part # "slots" => limit = CHOOSE l \in Limits : TRUE

WaitNext ==
  \/ part = "pieces" /\ Next /\ UNCHANGED <<part, slotVars>>
  \/ part = "slots" /\ SlotNext /\ UNCHANGED <<part, vars>>

\* The fairness of each part, while it takes steps.
WaitFairness ==
  /\ \A w \in Writers : /\ WF_vars(part = "pieces" /\ \E p \in Pieces, c \in Chunks : StartWrite(w, p, c))
                        /\ WF_vars(part = "pieces" /\ (Write(w) \/ Alloc(w) \/ Reserve(w) \/ Install(w) \/ EvictReserved(w)))
  /\ \A p \in Pieces : /\ WF_vars(part = "pieces" /\ (EvictRekey(p) \/ EvictPop(p)))
                       /\ WF_vars(part = "pieces" /\ (HashStart(p) \/ HashRead(p)))
                       /\ WF_vars(part = "pieces" /\ (MarkComplete(p) \/ MarkNotComplete(p)))
  /\ WF_vars(part = "pieces" /\ EvictMarked)
  /\ \A r \in Readers : WF_vars(part = "pieces" /\ (Available(r) \/ ReadAt(r) \/ Stamp(r) \/ StoreStamp(r) \/ Refetch(r) \/ WaitRefetch(r)))
  /\ \A v \in Verifiers : WF_vars(part = "pieces" /\ (StartVerify(v) \/ VerifyDropped(v) \/ DeleteEntry(v) \/ CloseDone(v)))
  /\ \A j \in Jobs : SF_slotVars(part = "slots" /\ Wake(j)) /\ WF_slotVars(part = "slots" /\ JobRuns(j))

WaitSpec == WaitInit /\ [][WaitNext]_waitVars /\ WaitFairness

\* Who waits is served: a read of a piece that was evicted, through its next download; a
\* job, as long as the jobs before it end, and, when the limit is raised, without that.
WaitsEnd == ReadServed /\ Served /\ RaiseTakesEffect

=============================================================================
