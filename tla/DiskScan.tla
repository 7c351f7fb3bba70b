------------------------------ MODULE DiskScan ------------------------------
(***************************************************************************)
(* The janitor's size pass and the memo that lets it skip the walk         *)
(* (internal/engine/engine.go: evict, diskScan, evictTick, cacheQuiet).    *)
(*                                                                         *)
(* A torrent's counter of received bytes moves before the bytes are in its *)
(* directory. The one assumption the code states is kept: what was counted *)
(* when the janitor read a torrent's counter is written before it reads    *)
(* that counter for the next walk. Which engines an eviction picks is the  *)
(* subject of EngineManager.                                               *)
(***************************************************************************)
EXTENDS Integers, FiniteSets

CONSTANTS
  ScanEngines,     \* engine instances; a removed one does not come back
  MaxReceived,     \* bound: bytes an engine receives
  Budgets,         \* values of the cache size setting
  ScanMaxAge       \* diskScanMaxAge, in ticks

ASSUME ScanAssumption ==
  IsFiniteSet(ScanEngines) /\ MaxReceived \in Nat /\ Budgets \subseteq Int /\ Budgets # {} /\ ScanMaxAge \in Nat

VARIABLES
  loaded,       \* engine -> "new", "live", "gone"
  received,     \* engine -> the library's counter of data bytes
  late, early,  \* engine -> bytes on their way to the disk: from before the last sample, since it
  onDisk,       \* engine -> allocated bytes of its directory
  cacheSize,    \* the setting
  memo,         \* diskScan: dl, prev, total, age in ticks
  pass          \* the janitor: where it is, what it has measured

scanVars == <<loaded, received, late, early, onDisk, cacheSize, memo, pass>>

\* A map from engines to counters: -1 where it has no entry. A walk has at least one.
NoDl == [e \in ScanEngines |-> -1]
Sampled(dl) == {e \in ScanEngines : dl[e] # -1}
Loaded == {e \in ScanEngines : loaded[e] = "live"}
Resting == [at |-> "rest", left |-> {}, now |-> {}, dl |-> NoDl, total |-> 0, budget |-> 0]

ScanInit ==
  /\ loaded = [e \in ScanEngines |-> "new"]
  /\ received = [e \in ScanEngines |-> 0] /\ late = received /\ early = received /\ onDisk = received
  /\ cacheSize \in Budgets
  /\ memo = [dl |-> NoDl, prev |-> NoDl, total |-> 0, age |-> 0]
  /\ pass = Resting

-----------------------------------------------------------------------------
(* The torrents *)

\* EnsureEngine: a torrent of which nothing is on disk yet.
LoadEngine(e) ==
  /\ loaded[e] = "new" /\ loaded' = [loaded EXCEPT ![e] = "live"]
  /\ UNCHANGED <<received, late, early, onDisk, cacheSize, memo, pass>>

\* Remove, or one of the janitor's passes: the directory goes with the engine.
DropEngine(e) ==
  /\ e \in Loaded /\ loaded' = [loaded EXCEPT ![e] = "gone"]
  /\ received' = [received EXCEPT ![e] = 0] /\ late' = [late EXCEPT ![e] = 0]
  /\ early' = [early EXCEPT ![e] = 0] /\ onDisk' = [onDisk EXCEPT ![e] = 0]
  /\ UNCHANGED <<cacheSize, memo, pass>>

\* A chunk is counted, then written.
Receive(e) ==
  /\ e \in Loaded /\ received[e] < MaxReceived
  /\ received' = [received EXCEPT ![e] = @ + 1] /\ early' = [early EXCEPT ![e] = @ + 1]
  /\ UNCHANGED <<loaded, late, onDisk, cacheSize, memo, pass>>
Write(e) ==
  /\ onDisk' = [onDisk EXCEPT ![e] = @ + 1]
  /\ \/ late[e] > 0 /\ late' = [late EXCEPT ![e] = @ - 1] /\ UNCHANGED early
     \/ early[e] > 0 /\ early' = [early EXCEPT ![e] = @ - 1] /\ UNCHANGED late
  /\ UNCHANGED <<loaded, received, cacheSize, memo, pass>>

SetCacheSize ==
  /\ cacheSize' \in Budgets \ {cacheSize}
  /\ UNCHANGED <<loaded, received, late, early, onDisk, memo, pass>>

-----------------------------------------------------------------------------
(* The janitor *)

\* The memo, one tick older (past its limit every age is alike).
Aged == [memo EXCEPT !.age = IF memo.dl = NoDl \/ @ = ScanMaxAge THEN @ ELSE @ + 1]

\* cacheQuiet: within budget at the last walk, the same engines, and not a byte since.
CacheQuiet(budget) ==
  /\ memo.dl # NoDl /\ memo.total <= budget /\ Aged.age < ScanMaxAge
  /\ Loaded = Sampled(memo.dl)
  /\ \A e \in Loaded : received[e] = memo.dl[e]

\* evictTick skips the walk.
SkipWalk ==
  /\ pass.at = "rest" /\ cacheSize > 0 /\ CacheQuiet(cacheSize)
  /\ memo' = Aged /\ UNCHANGED <<loaded, received, late, early, onDisk, cacheSize, pass>>

\* evictTick calls evict, which measures nothing under a budget of zero or less, or
\* without engines.
BeginWalk ==
  /\ pass.at = "rest" /\ ~(cacheSize > 0 /\ CacheQuiet(cacheSize))
  /\ memo' = Aged
  /\ pass' = IF cacheSize <= 0 \/ Loaded = {} THEN pass
             ELSE [Resting EXCEPT !.at = "walk", !.left = Loaded, !.budget = cacheSize]
  /\ UNCHANGED <<loaded, received, late, early, onDisk, cacheSize>>

\* evict, one engine of its snapshot: the counter is read, then the directory walked. By
\* now the bytes of the previous sample are on disk.
Sample(e) ==
  /\ pass.at = "walk" /\ e \in pass.left /\ pass.now = {} /\ late[e] = 0
  /\ late' = [late EXCEPT ![e] = early[e]] /\ early' = [early EXCEPT ![e] = 0]
  /\ pass' = [pass EXCEPT !.left = @ \ {e}, !.now = {e}, !.dl[e] = received[e]]
  /\ UNCHANGED <<loaded, received, onDisk, cacheSize, memo>>
DirAllocated(e) ==
  /\ e \in pass.now /\ pass' = [pass EXCEPT !.now = {}, !.total = @ + onDisk[e]]
  /\ UNCHANGED <<loaded, received, late, early, onDisk, cacheSize, memo>>

\* Mutant: a walk within budget is memoised at once.
MemoAlways(prev, dl) == TRUE

\* Every counter is what it was before the previous walk.
Stable(prev, dl) == prev = dl

\* diskScan.observe, and the end of the pass.
Observe ==
  /\ pass.at = "walk" /\ pass.left = {} /\ pass.now = {}
  /\ memo' = IF pass.total <= pass.budget /\ Stable(memo.prev, pass.dl)
             THEN [dl |-> pass.dl, prev |-> pass.dl, total |-> pass.total, age |-> 0]
             ELSE [memo EXCEPT !.dl = NoDl, !.prev = pass.dl, !.total = 0, !.age = 0]
  /\ pass' = Resting
  /\ UNCHANGED <<loaded, received, late, early, onDisk, cacheSize>>

-----------------------------------------------------------------------------
ScanNext ==
  \/ SkipWalk \/ BeginWalk \/ Observe \/ SetCacheSize
  \/ \E e \in ScanEngines : LoadEngine(e) \/ DropEngine(e) \/ Receive(e) \/ Write(e) \/ Sample(e) \/ DirAllocated(e)

ScanSpec == ScanInit /\ [][ScanNext]_scanVars

ScanTypeOK ==
  /\ loaded \in [ScanEngines -> {"new", "live", "gone"}]
  /\ received \in [ScanEngines -> 0 .. MaxReceived] /\ late \in [ScanEngines -> 0 .. MaxReceived]
  /\ early \in [ScanEngines -> 0 .. MaxReceived] /\ onDisk \in [ScanEngines -> 0 .. MaxReceived]
  /\ cacheSize \in Budgets /\ memo.age \in 0 .. ScanMaxAge /\ pass.at \in {"rest", "walk"}

\* The sizes of S added up, byte by byte.
SumOver(size, S) == Cardinality(UNION {{x} \X (1 .. size[x]) : x \in S})

\* The bytes of the live engines' directories, and those that will be there.
DiskTotal == SumOver([e \in ScanEngines |-> onDisk[e] + late[e] + early[e]], Loaded)

\* A tick that skips the walk hides no cache over its budget: what the live engines have
\* on disk, and every byte they have received but not yet written, is what the memo says
\* and within the budget (cacheQuiet, diskScan.observe).
QuietIsTrue == [][ScanTypeOK' /\ (SkipWalk => DiskTotal = memo.total /\ DiskTotal <= cacheSize)]_scanVars

=============================================================================
