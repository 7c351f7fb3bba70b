---------------------------- MODULE MCRequests ----------------------------
(***************************************************************************)
(* What serves requests and shares no state: the proxy's segments, the     *)
(* segments of HLS sessions, probes, torrent streams, the limits of the    *)
(* engines and the definitions of the extractors. A behaviour of the       *)
(* process is one of each; a run takes the steps of one part and leaves    *)
(* the others in a first state.                                            *)
(***************************************************************************)
EXTENDS SegProxy, HLSSegments, ProbeGuard, StreamHandler, EngineLimits, ExtractorDefs, TLC

\* Two spellings of one URL.
MCNorm == "u1" :> "u" @@ "u2" :> "u"

VARIABLE part

requestVars == <<part, segVars, hlsFileVars, probeVars, streamVars, limitVars, defVars>>

\* Of the parts that take no steps one first state is enough.
RequestInit ==
  /\ part \in {"proxy", "hls", "probe", "stream", "limits", "defs"}
  /\ SegInit /\ HLSFilesInit /\ ProbeInit /\ StreamInit /\ LimitInit /\ DefInit
  /\ part # "stream" => length = 0

RequestNext ==
  \/ part = "proxy" /\ SegNext /\ UNCHANGED <<part, hlsFileVars, probeVars, streamVars, limitVars, defVars>>
  \/ part = "hls" /\ HLSFilesNext /\ UNCHANGED <<part, segVars, probeVars, streamVars, limitVars, defVars>>
  \/ part = "probe" /\ ProbeNext /\ UNCHANGED <<part, segVars, hlsFileVars, streamVars, limitVars, defVars>>
  \/ part = "stream" /\ StreamNext /\ UNCHANGED <<part, segVars, hlsFileVars, probeVars, limitVars, defVars>>
  \/ part = "limits" /\ LimitNext /\ UNCHANGED <<part, segVars, hlsFileVars, probeVars, streamVars, defVars>>
  \/ part = "defs" /\ DefNext /\ UNCHANGED <<part, segVars, hlsFileVars, probeVars, streamVars, limitVars>>

\* The fairness of each part, while it takes steps.
RequestFairness ==
  /\ WF_segVars(part = "proxy" /\ \E f \in Fetches : FetchStep(f))
  /\ WF_hlsFileVars(part = "hls" /\ \E a \in Asks : AskRuns(a))
  /\ WF_probeVars(part = "probe" /\ \E c \in Callers : Do(c))
  /\ WF_probeVars(part = "probe" /\ \E k \in Keys : CheckAgain(k) \/ AcquireSlot(k) \/ ProbeLanded(k) \/ \E ok \in BOOLEAN : Ran(k, ok))
  /\ \A r \in Streams : WF_streamVars(part = "stream" /\ (Handler(r) \/ Watch(r)))
  /\ WF_limitVars(part = "limits" /\ ApplyLimits) /\ WF_limitVars(part = "limits" /\ \E t \in Torrents : EnforceSoftLimit(t))
  /\ WF_defVars(part = "defs" /\ LoadRemoteCache) /\ WF_defVars(part = "defs" /\ Reloads)
  /\ WF_defVars(part = "defs" /\ Refreshes) /\ SF_defVars(part = "defs" /\ GetSig)

RequestSpec == RequestInit /\ [][RequestNext]_requestVars /\ RequestFairness

\* Every request comes to its end, whoever it waits for fails or goes away, and the limits
\* of the settings and the latest definitions are in force in the end.
RequestsSettle ==
  <>[](SegSettled /\ HLSFilesSettled /\ ProbesSettled /\ StreamsSettled /\ LimitsSettled /\ (part = "defs" => DefsSettled))

=============================================================================
