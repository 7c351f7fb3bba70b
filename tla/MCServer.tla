------------------------------ MODULE MCServer ------------------------------
(***************************************************************************)
(* The media relay, the scan of the disk, the rewriting of manifests, the  *)
(* proxy's tokens and the priorities of pieces share no state: a behaviour *)
(* of the process is one of each, and its safety is theirs. A run takes    *)
(* the steps of one part and leaves the others in a first state.           *)
(***************************************************************************)
EXTENDS Relay, DiskScan, ManifestRewrite, ProxyTokens, EnginePriority, TLC

\* Files of two pieces, each sharing one with its neighbour as files of a torrent do.
ThreeBegin == [f \in 0 .. 2 |-> f]
ThreeEnd   == [f \in 0 .. 2 |-> f + 2]

\* A page that leads to a playlist, a playlist and a manifest with their segments, and a
\* template of the manifest.
MCContent == "page" :> "page" @@ "list" :> "hls" @@ "mpd" :> "mpd" @@ "seg" :> "media" @@ "part" :> "media"
MCResolved == "page" :> [ep |-> "hls", d |-> "list"]
MCRefs == "list" :> {[ep |-> "segment", d |-> "seg"]} @@ "mpd" :> {[ep |-> "stream", d |-> "seg"]}
MCTemplates == "list" :> {} @@ "mpd" :> {"t"}
MCUnder == "t" :> {"part"}

VARIABLE part

serverVars == <<part, relayVars, scanVars, rewriteVars, tokenVars, prioVars>>

\* Of the parts that take no steps one first state is enough.
ServerInit ==
  /\ part \in {"relay", "scan", "rewrite", "token", "priority"}
  /\ RelayInit /\ ScanInit /\ RewriteInit /\ TokenInit /\ PriorityInit
  /\ part # "scan" => cacheSize = 0

ServerNext ==
  \/ part = "relay" /\ RelayNext /\ UNCHANGED <<part, scanVars, rewriteVars, tokenVars, prioVars>>
  \/ part = "scan" /\ ScanNext /\ UNCHANGED <<part, relayVars, rewriteVars, tokenVars, prioVars>>
  \/ part = "rewrite" /\ RewriteNext /\ UNCHANGED <<part, relayVars, scanVars, tokenVars, prioVars>>
  \/ part = "token" /\ TokenNext /\ UNCHANGED <<part, relayVars, scanVars, rewriteVars, prioVars>>
  \/ part = "priority" /\ PriorityNext /\ UNCHANGED <<part, relayVars, scanVars, rewriteVars, tokenVars>>

ServerSpec == ServerInit /\ [][ServerNext]_serverVars

=============================================================================
