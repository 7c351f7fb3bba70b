----------------------------- MODULE MCStreams -----------------------------
(***************************************************************************)
(* HLS sessions and FTP transfers serve different requests of the same     *)
(* process and share no state, so a behaviour of both is one of each: a    *)
(* run takes the steps of one part and leaves the other in its first       *)
(* state.                                                                  *)
(***************************************************************************)
EXTENDS HLSSessions, FTPPool

VARIABLE part

streamVars == <<part, hlsVars, ftpVars>>

\* Of the part that takes no steps one first state is enough.
StreamInit ==
  /\ HLSInit /\ FTPInit
  /\ \/ part = "hls" /\ want = [r \in Requests |-> r]
     \/ part = "ftp" /\ ~persist

StreamNext ==
  \/ part = "hls" /\ HLSNext /\ UNCHANGED <<part, ftpVars>>
  \/ part = "ftp" /\ FTPNext /\ UNCHANGED <<part, hlsVars>>

StreamFairness ==
  /\ \A c \in Clients : WF_hlsVars(part = "hls" /\ ClientStep(c))
  /\ \A p \in Procs : WF_hlsVars(part = "hls" /\ (PersistCheck(p) \/ PersistWrite(p) \/ Removes(p)))
  /\ WF_hlsVars(part = "hls" /\ (ReapVictims \/ FlushAccess))
  /\ \A r \in Requests : /\ WF_ftpVars(part = "ftp" /\ RequestRuns(r))
                         /\ WF_ftpVars(part = "ftp" /\ HookStep(r))

StreamSpec == StreamInit /\ [][StreamNext]_streamVars /\ StreamFairness

\* Whoever deletes a session or cancels a transfer is done with it at last: the id becomes
\* free, the request's goroutines end.
StreamsEnd == DrainEnds /\ CancelEnds

=============================================================================
