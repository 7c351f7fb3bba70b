---------------------------- MODULE EngineLimits ----------------------------
(***************************************************************************)
(* The limits that follow the settings while torrents run                  *)
(* (internal/engine/engine.go: SetLimitFn, SetSoftLimitFn, the loop they   *)
(* start, the soft limit of a torrent, and the janitor's seed ratio).      *)
(*                                                                         *)
(* Speeds and byte counts matter only by the comparison they decide, so    *)
(* whether a torrent is fast and whether it has uploaded enough are free   *)
(* choices of each tick. Settings change a bounded number of times.        *)
(***************************************************************************)
EXTENDS Integers, FiniteSets

CONSTANTS
  Torrents,       \* engine instances; a removed one does not come back
  Rates,          \* values of a bandwidth setting, 0 is unlimited
  Conns,          \* peerBudget: established connections per torrent
  MinPeers,       \* btMinPeersForStable
  SeedRatioOn,    \* whether MaxSeedRatio > 0
  MaxSettings     \* bound: changes of the settings

ASSUME LimitsAssumption ==
  /\ Rates \subseteq Nat /\ 0 \in Rates /\ Conns \in Nat \ {0} /\ MinPeers \in Nat
  /\ SeedRatioOn \in BOOLEAN /\ MaxSettings \in Nat

VARIABLES
  state,          \* torrent -> "new", "live", "gone"
  setting,        \* the settings: the download rate and the soft limit
  changes,
  wired,          \* which of limitFn and softLimitFn are set
  limits,         \* the loop: "off", "on", or "done" after Close
  tick,           \* a run of applyLimits: its soft limit, the torrents still to go
  limiter,        \* the library's download limiter
  softPaused, maxConns,       \* engine.softPaused, the torrent's own limit
  uploadBlocked, mayUpload    \* engine.uploadBlocked, the torrent's own switch

torrentVars == <<softPaused, maxConns, uploadBlocked, mayUpload>>
limitVars == <<state, setting, changes, wired, limits, tick, limiter, torrentVars>>

NoTick == [soft |-> 0, left |-> {}]
Running == {t \in Torrents : state[t] = "live"}

LimitInit ==
  /\ state = [t \in Torrents |-> "new"]
  /\ setting = [rate |-> 0, soft |-> 0] /\ changes = 0 /\ wired = {} /\ limits = "off"
  /\ tick = NoTick /\ limiter = 0
  /\ softPaused = [t \in Torrents |-> FALSE] /\ maxConns = [t \in Torrents |-> Conns]
  /\ uploadBlocked = [t \in Torrents |-> FALSE] /\ mayUpload = [t \in Torrents |-> TRUE]

-----------------------------------------------------------------------------
AddTorrent(t) ==
  /\ state[t] = "new" /\ state' = [state EXCEPT ![t] = "live"]
  /\ UNCHANGED <<setting, changes, wired, limits, tick, limiter, torrentVars>>

DropTorrent(t) ==
  /\ t \in Running /\ state' = [state EXCEPT ![t] = "gone"]
  /\ UNCHANGED <<setting, changes, wired, limits, tick, limiter, torrentVars>>

ChangeSettings ==
  /\ changes < MaxSettings /\ changes' = changes + 1
  /\ setting' \in [rate : Rates, soft : Rates]
  /\ UNCHANGED <<state, wired, limits, tick, limiter, torrentVars>>

\* SetLimitFn and SetSoftLimitFn: whichever comes first starts the loop.
SetFn(f) ==
  /\ f \notin wired /\ wired' = wired \cup {f}
  /\ limits' = IF limits = "off" THEN "on" ELSE limits
  /\ UNCHANGED <<state, setting, changes, tick, limiter, torrentVars>>

\* applyRateLimit: zero or less is unlimited. The burst only has a floor.
RateLimit(n) == IF n <= 0 THEN 0 ELSE n

\* applyLimits: the rates at once, then the torrents of a snapshot, with the soft limit
\* that was read for all of them.
ApplyLimits ==
  /\ limits = "on" /\ tick = NoTick
  /\ limiter' = IF "rate" \in wired THEN RateLimit(setting.rate) ELSE limiter
  /\ tick' = IF "soft" \in wired /\ Running # {} THEN [soft |-> setting.soft, left |-> Running] ELSE tick
  /\ UNCHANGED <<state, setting, changes, wired, limits, torrentVars>>

\* softLimitDecision
SoftLimitDecision(fast, soft, peers) == soft > 0 /\ fast /\ peers >= MinPeers

\* Mutant: the end of a pause is only noted.
NoteOnly(t, want, peers) ==
  /\ maxConns' = [maxConns EXCEPT ![t] = IF want /\ ~softPaused[t] THEN peers ELSE @]
  /\ softPaused' = [softPaused EXCEPT ![t] = want]

\* The torrent's limit is touched on a change of the decision only: to the peers it has,
\* or back to the configured number.
Transition(t, want, peers) ==
  /\ maxConns' = [maxConns EXCEPT ![t] = IF want = softPaused[t] THEN @ ELSE IF want THEN peers ELSE Conns]
  /\ softPaused' = [softPaused EXCEPT ![t] = want]

\* enforceSoftLimit, of a torrent that may be gone by now.
EnforceSoftLimit(t) ==
  /\ t \in tick.left
  /\ tick' = IF tick.left = {t} THEN NoTick ELSE [tick EXCEPT !.left = @ \ {t}]
  /\ \E fast \in BOOLEAN, peers \in 0 .. Conns :
       Transition(t, SoftLimitDecision(fast, tick.soft, peers), peers)
  /\ UNCHANGED <<state, setting, changes, wired, limits, limiter, uploadBlocked, mayUpload>>

\* enforceSeedRatio and applySeedRatio: a torrent that has uploaded enough stops, one
\* below the cap, or without a cap, goes on.
ApplySeedRatio(t) ==
  /\ t \in Running /\ limits # "done"
  /\ \E over \in IF SeedRatioOn THEN BOOLEAN ELSE {FALSE} :
       /\ over # uploadBlocked[t]
       /\ uploadBlocked' = [uploadBlocked EXCEPT ![t] = over] /\ mayUpload' = [mayUpload EXCEPT ![t] = ~over]
  /\ UNCHANGED <<state, setting, changes, wired, limits, tick, limiter, softPaused, maxConns>>

CloseLimits ==
  /\ limits' = "done" /\ limits # "done"
  /\ UNCHANGED <<state, setting, changes, wired, tick, limiter, torrentVars>>
-----------------------------------------------------------------------------
LimitNext ==
  \/ ChangeSettings \/ ApplyLimits \/ CloseLimits \/ \E f \in {"rate", "soft"} : SetFn(f)
  \/ \E t \in Torrents : AddTorrent(t) \/ DropTorrent(t) \/ EnforceSoftLimit(t) \/ ApplySeedRatio(t)

\* The loop ticks every five seconds and works through its snapshot.
LimitFairness == WF_limitVars(ApplyLimits) /\ \A t \in Torrents : WF_limitVars(EnforceSoftLimit(t))

LimitSpec == LimitInit /\ [][LimitNext]_limitVars /\ LimitFairness

LimitTypeOK ==
  /\ state \in [Torrents -> {"new", "live", "gone"}] /\ setting \in [rate : Rates, soft : Rates]
  /\ tick.left \subseteq Torrents /\ limiter \in Rates /\ limits \in {"off", "on", "done"}
  /\ softPaused \in [Torrents -> BOOLEAN] /\ maxConns \in [Torrents -> 0 .. Conns]

\* Reached and kept once the settings stay as they are: the running loop has brought the
\* library in line with them, the limiter has the configured rate, and no torrent that is
\* not paused keeps a clamped number of connections; with the soft limit off none is paused,
\* whatever limit paused it before (applyLimits, enforceSoftLimit).
LimitsSettled ==
  /\ LimitTypeOK
  /\ limits = "on" =>
       /\ "rate" \in wired => limiter = RateLimit(setting.rate)
       /\ \A t \in Running : "soft" \in wired =>
            /\ setting.soft = 0 => ~softPaused[t]
            /\ ~softPaused[t] => maxConns[t] = Conns

=============================================================================
