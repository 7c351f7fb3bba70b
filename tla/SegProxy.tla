------------------------------ MODULE SegProxy ------------------------------
(***************************************************************************)
(* The segment path of the stream proxy (internal/streamproxy): the LRU    *)
(* segment cache, the single-flight table of prefetches, the FIFO byte     *)
(* budget of bodies being buffered, and the three kinds of request that    *)
(* meet there: prefetches (cachedFetchMode without waiting), pass-through  *)
(* streams and decrypting streams (both serveStream).                      *)
(*                                                                         *)
(* A body is its length. The upstream server may answer anything: an       *)
(* error, a status other than 200, a length that is known, missing (-1)    *)
(* or above maxSegmentBytes, and a body that breaks off. The two lists,    *)
(* container/list in the code, are the places of their elements: 1, 2, ... *)
(* and 0 for what is not in the list.                                      *)
(***************************************************************************)
EXTENDS Integers, FiniteSets

CONSTANTS
  SegKeys,       \* cache keys: a URL with its forwarded headers
  NumFetches,    \* requests of a run, numbered as they arrive
  SegMax,        \* maxSegmentBytes
  SegLengths,    \* the lengths of bodies, up to SegMax
  Inflight,      \* byteBudget.max
  CacheBytes,    \* segCache.maxBytes
  CacheEntries,  \* segCache.maxEntries
  PrefetchSlots  \* cap(prefetchSem)

\* The budget of bodies in flight has room for any single segment.
ASSUME SegAssumption ==
  /\ SegKeys # {} /\ IsFiniteSet(SegKeys)
  /\ NumFetches \in Nat /\ SegMax \in Nat /\ Inflight \in Nat
  /\ CacheBytes \in Nat /\ CacheEntries \in Nat /\ PrefetchSlots \in Nat
  /\ 0 < SegMax /\ SegMax <= Inflight /\ 0 < CacheEntries /\ SegLengths \subseteq 0 .. SegMax

VARIABLES
  heat, entrySize, totalBytes, \* segCache: places in lru, the hottest last; sizes; the counter
  flights,                     \* Handler.flights: the prefetch that leads a key's fetch, or 0
  used, turn,                  \* byteBudget: bytes granted; places in waiters, the oldest first
  req                          \* requests: place, kind, key, length of the body, a 200 (later: no error)

cacheVars == <<heat, entrySize, totalBytes>>
budgetVars == <<used, turn>>
segVars == <<cacheVars, flights, budgetVars, req>>

Fetches == 1 .. NumFetches
Unknown == -1

\* A request that is not there: not yet, or no longer.
Absent(l) == [at |-> l, kind |-> "stream", key |-> CHOOSE k \in SegKeys : TRUE, len |-> 0, ok |-> FALSE]

SegInit ==
  /\ heat = [k \in SegKeys |-> 0] /\ entrySize = [k \in SegKeys |-> 0] /\ totalBytes = 0
  /\ flights = [k \in SegKeys |-> 0]
  /\ used = 0 /\ turn = [f \in Fetches |-> 0]
  /\ req = [f \in Fetches |-> Absent("idle")]

Moved(f, l) == IF l = "end" THEN Absent("end") ELSE [req[f] EXCEPT !.at = l]
Goto(f, l) == req' = [req EXCEPT ![f] = Moved(f, l)]
Active(f) == req[f].at \notin {"idle", "end"}

-----------------------------------------------------------------------------
(* Lists and sizes *)

\* The places of S alone, in the order they had.
Renumbered(place, S) == [x \in DOMAIN place |-> IF x \in S THEN Cardinality({y \in S : place[y] <= place[x]}) ELSE 0]

\* The same, and x behind them.
PutLast(place, S, x) == [Renumbered(place, S) EXCEPT ![x] = Cardinality(S) + 1]

\* The sizes of S added up, byte by byte.
Total(size, S) == Cardinality(UNION {{x} \X (1 .. size[x]) : x \in S})

-----------------------------------------------------------------------------
(* segCache *)

Cached == {k \in SegKeys : heat[k] > 0}

\* removeLocked, of every entry of the set ks: off the list, out of the count.
Drop(ks) ==
  /\ heat' = Renumbered(heat, Cached \ ks)
  /\ totalBytes' = totalBytes - Total(entrySize, ks)
  /\ entrySize' = [k \in SegKeys |-> IF k \in ks THEN 0 ELSE entrySize[k]]

\* getFull, of an entry that is there (hit) or is not, or no longer: a hit moves to
\* the front, an entry past its TTL goes. When that is, time decides; an expired
\* entry nobody has looked at is like any other.
Touch(k, hit) ==
  IF hit THEN k \in Cached /\ heat' = PutLast(heat, Cached \ {k}, k) /\ UNCHANGED <<entrySize, totalBytes>>
  ELSE Drop({k} \cap Cached)

\* What stays when k, of n bytes, is at the front: every other entry that fits with it and
\* those hotter than itself. The others go, the coldest first.
Kept(k, n) ==
  {j \in Cached \ {k} :
     LET hot == {i \in Cached \ {k} : heat[i] >= heat[j]}
     IN Cardinality(hot) < CacheEntries /\ n + Total(entrySize, hot) <= CacheBytes}

\* k is stored with n bytes and the cold end makes room; `off' leaves the count.
Store(k, n, off) ==
  LET gone == Cached \ (Kept(k, n) \cup {k}) IN
  /\ heat' = PutLast(heat, Kept(k, n), k)
  /\ entrySize' = [j \in SegKeys |-> IF j = k THEN n ELSE IF j \in gone THEN 0 ELSE entrySize[j]]
  /\ totalBytes' = totalBytes + n - Total(entrySize, gone \cup off)

\* Mutant: the size of the copy that is replaced stays in the count.
PutForgetsOldSize(k, n) == IF n > CacheBytes THEN Drop({k} \cap Cached) ELSE Store(k, n, {})

\* putFull: a body no cache can hold only takes the old copy with it.
Put(k, n) == IF n > CacheBytes THEN Drop({k} \cap Cached) ELSE Store(k, n, {k} \cap Cached)

\* The janitor: whatever has expired goes.
Sweep ==
  /\ \E ks \in SUBSET Cached \ {{}} : Drop(ks)
  /\ UNCHANGED <<flights, budgetVars, req>>

-----------------------------------------------------------------------------
(* byteBudget *)

\* segmentReservation: the length, or the worst case.
Reservation(len) == IF len = Unknown THEN SegMax ELSE len
Needs == [f \in Fetches |-> Reservation(req[f].len)]
Waiters == {f \in Fetches : turn[f] > 0}

\* notifyLocked, with u bytes granted and W waiting: every waiter that fits with those
\* ahead of it leaves the list.
Notify(W, u) ==
  LET fit == {f \in W : u + Total(Needs, {g \in W : turn[g] <= turn[f]}) <= Inflight} IN
  /\ turn' = Renumbered(turn, W \ fit)
  /\ used' = u + Total(Needs, fit)

ReleaseBytes(n) == IF n <= 0 THEN UNCHANGED budgetVars ELSE Notify(Waiters, used - n)

CanTake(n) == n <= Inflight /\ used + n <= Inflight /\ Waiters = {}

\* Mutant: whoever waits behind a request that gives up is not looked at.
LeaveQueueSilently(f) ==
  IF f \in Waiters THEN turn' = Renumbered(turn, Waiters \ {f}) /\ UNCHANGED used
  ELSE Notify(Waiters, used - Needs[f])

\* The waiting request's context is done: bytes granted just then go straight back,
\* and those behind it may fit now.
LeaveQueue(f) ==
  IF f \in Waiters THEN Notify(Waiters \ {f}, used)
  ELSE Notify(Waiters, used - Needs[f])

-----------------------------------------------------------------------------
(* Cache and flights *)

\* Requests come in the order of their numbers, for any key (the first one's is
\* named once and for all). A prefetch without a
\* free slot of prefetchSem is not started.
Start(f) ==
  /\ req[f].at = "idle" /\ \A g \in 1 .. f - 1 : req[g].at # "idle"
  /\ \E k \in SegKeys, c \in {"prefetch", "stream", "decrypt"} :
       /\ f = 1 => k = Absent("idle").key
       /\ c = "prefetch" => Cardinality({g \in Fetches : Active(g) /\ req[g].kind = "prefetch"}) < PrefetchSlots
       /\ req' = [req EXCEPT ![f] = [Absent(CASE c = "prefetch" -> "lookup" [] c = "stream" -> "flight" [] OTHER -> "fetch")
                                       EXCEPT !.key = k, !.kind = c]]
  /\ UNCHANGED <<cacheVars, flights, budgetVars>>

\* Where a hit leads: a prefetch is done, a leader, who looks a second time, has
\* followers to tell, and a stream writes, which holds nothing here.
OnHit(f) == IF req[f].at = "relookup" THEN [Moved(f, "finish") EXCEPT !.ok = TRUE] ELSE Moved(f, "end")

\* cacheLookup.
Lookup(f) ==
  LET r == req[f] IN
  /\ r.at \in {"lookup", "relookup"}
  /\ \E hit \in BOOLEAN :
       /\ Touch(r.key, hit)
       /\ req' = [req EXCEPT ![f] =
                    IF hit THEN OnHit(f)
                    ELSE Moved(f, IF r.at = "lookup" /\ r.kind = "prefetch" THEN "join" ELSE "fetch")]
  /\ UNCHANGED <<flights, budgetVars>>

\* flightJoin, by a prefetch.
Join(f) ==
  LET k == req[f].key IN
  /\ req[f].at = "join"
  /\ IF flights[k] = 0
     THEN flights' = [flights EXCEPT ![k] = f] /\ Goto(f, "relookup")
     ELSE Goto(f, "await") /\ UNCHANGED flights
  /\ UNCHANGED <<cacheVars, budgetVars>>

\* awaitFlight, by a stream: it leads nothing itself.
LookForFlight(f) ==
  /\ req[f].at = "flight"
  /\ Goto(f, IF flights[req[f].key] = 0 THEN "lookup" ELSE "await")
  /\ UNCHANGED <<cacheVars, flights, budgetVars>>

\* Where one who waited goes on: a stream looks again; a prefetch has the leader's
\* body, or fetches for itself if the leader failed.
Landed(f, won) == Moved(f, IF req[f].kind = "stream" THEN "lookup" ELSE IF won THEN "end" ELSE "fetch")

\* The context of one who waits for a flight is done.
StopAwaiting(f) ==
  /\ req[f].at = "await" /\ req' = [req EXCEPT ![f] = Landed(f, TRUE)]
  /\ UNCHANGED <<cacheVars, flights, budgetVars>>

Followers(f) == {g \in Fetches : req[g].at = "await" /\ req[g].key = req[f].key}

\* Mutant: only a leader that succeeded clears its flight.
FinishOnSuccess(f) ==
  /\ req[f].at = "finish"
  /\ IF req[f].ok
     THEN /\ flights' = [flights EXCEPT ![req[f].key] = 0]
          /\ req' = [g \in Fetches |-> IF g = f THEN Absent("end") ELSE IF g \in Followers(f) THEN Landed(g, TRUE) ELSE req[g]]
     ELSE Goto(f, "end") /\ UNCHANGED flights
  /\ UNCHANGED <<cacheVars, budgetVars>>

\* flightFinish: the flight goes and its followers wake up, to the leader's body or
\* to its error.
Finish(f) ==
  /\ req[f].at = "finish"
  /\ flights' = [flights EXCEPT ![req[f].key] = 0]
  /\ req' = [g \in Fetches |-> IF g = f THEN Absent("end")
                               ELSE IF g \in Followers(f) THEN Landed(g, req[f].ok) ELSE req[g]]
  /\ UNCHANGED <<cacheVars, budgetVars>>

-----------------------------------------------------------------------------
(* The fetch *)

\* A prefetch that is through, whether it kept a body or failed, tells its followers
\* if it is a leader.
After(f) == IF req[f].kind = "prefetch" /\ flights[req[f].key] = f THEN "finish" ELSE "end"

\* No response, or one that advertises more than maxSegmentBytes (which a stream
\* passes on without keeping it).
FetchFails(f) ==
  /\ req[f].at = "fetch" /\ Goto(f, After(f))
  /\ UNCHANGED <<cacheVars, flights, budgetVars>>

\* What becomes of a response of n bytes: a decrypting stream queues for its bytes
\* (acquire), a prefetch gives up without them, and a stream goes through uncached,
\* which holds nothing, without them or if the cache would not keep the body
\* (tryAcquire).
Reserved(f, n, keep) ==
  IF CanTake(n) /\ (req[f].kind = "stream" => keep) THEN "read"
  ELSE IF req[f].kind = "decrypt" THEN "queued" ELSE After(f)

\* The headers are in. The bytes are reserved before any is read.
Fetched(f) ==
  /\ req[f].at = "fetch"
  /\ \E len \in {Unknown} \cup SegLengths, is200 \in BOOLEAN :
       LET n == Reservation(len)
           l == Reserved(f, n, is200 /\ len # Unknown /\ len <= CacheBytes)
       IN /\ req' = [req EXCEPT ![f] = IF l \in {"read", "queued"}
                                       THEN [Moved(f, l) EXCEPT !.len = len, !.ok = (is200 /\ req[f].kind # "decrypt")]
                                       ELSE Moved(f, l)]
          /\ used' = IF l = "read" THEN used + n ELSE used
          /\ turn' = IF l = "queued" THEN PutLast(turn, Waiters, f) ELSE turn
  /\ UNCHANGED <<cacheVars, flights>>

\* w.ready is closed.
Granted(f) ==
  /\ req[f].at = "queued" /\ f \notin Waiters /\ Goto(f, "read")
  /\ UNCHANGED <<cacheVars, flights, budgetVars>>

\* inflightWaitTimeout, or the client has gone: 503.
GiveUpWaiting(f) ==
  /\ req[f].at = "queued" /\ LeaveQueue(f) /\ Goto(f, "end")
  /\ UNCHANGED <<cacheVars, flights>>

\* The lengths the body in hand can have.
Bodies(f) == IF req[f].len = Unknown THEN SegLengths ELSE {req[f].len}

\* readSegment breaks off, or an unannounced body is too large; the deferred release.
ReadFails(f) ==
  /\ req[f].at = "read" /\ ReleaseBytes(Needs[f])
  /\ req' = [req EXCEPT ![f] = [Moved(f, After(f)) EXCEPT !.ok = FALSE]]
  /\ UNCHANGED <<cacheVars, flights>>

\* The body is in memory, and in the cache if it came with a 200. Its reservation is
\* given back, by a stream before it writes.
ReadToCache(f) ==
  /\ req[f].at = "read" /\ req[f].kind # "decrypt"
  /\ \E n \in Bodies(f) : IF req[f].ok THEN Put(req[f].key, n) ELSE UNCHANGED cacheVars
  /\ ReleaseBytes(Needs[f])
  /\ req' = [req EXCEPT ![f] = IF After(f) = "end" THEN Absent("end") ELSE [Moved(f, "finish") EXCEPT !.ok = TRUE]]
  /\ UNCHANGED flights

\* A decrypting stream keeps, of a worst-case reservation, only what was read.
ReadToDecrypt(f) ==
  /\ req[f].at = "read" /\ req[f].kind = "decrypt"
  /\ \E n \in Bodies(f) :
       /\ ReleaseBytes(Needs[f] - n)
       /\ req' = [req EXCEPT ![f] = [Moved(f, "decrypt") EXCEPT !.len = n]]
  /\ UNCHANGED <<cacheVars, flights>>

\* Decrypted and written, or not, and only then released: a client that does not
\* read is dropped after writeIdleTimeout.
DecryptAndWrite(f) ==
  /\ req[f].at = "decrypt" /\ ReleaseBytes(Needs[f]) /\ Goto(f, "end")
  /\ UNCHANGED <<cacheVars, flights>>

-----------------------------------------------------------------------------
\* What a started request does without being told to.
FetchStep(f) ==
  \/ Lookup(f) \/ Join(f) \/ LookForFlight(f) \/ FetchFails(f) \/ Fetched(f) \/ Granted(f) \/ ReadFails(f)
  \/ ReadToCache(f) \/ ReadToDecrypt(f) \/ DecryptAndWrite(f) \/ Finish(f)

SegNext ==
  \/ Sweep
  \/ \E f \in Fetches : Start(f) \/ FetchStep(f) \/ StopAwaiting(f) \/ GiveUpWaiting(f)

\* A request that has begun goes on: upstream reads and client writes end, with an
\* error if need be (HTTP timeouts, writeSegment's deadline). That a waiting
\* request gives up is not assumed.
SegFairness == \A f \in Fetches : WF_segVars(FetchStep(f))

SegSpec == SegInit /\ [][SegNext]_segVars /\ SegFairness

-----------------------------------------------------------------------------
(* Properties *)

SegPlaces == {"idle", "lookup", "join", "relookup", "flight", "await", "fetch", "queued", "read", "decrypt",
              "finish", "end"}

FetchRecords == [at : SegPlaces, kind : {"prefetch", "stream", "decrypt"}, key : SegKeys,
                 len : {Unknown} \cup 0 .. SegMax, ok : BOOLEAN]

\* Every variable has its type.
SegTypeOK ==
  /\ heat \in [SegKeys -> Nat] /\ entrySize \in [SegKeys -> 0 .. SegMax] /\ totalBytes \in Nat
  /\ flights \in [SegKeys -> {0} \cup Fetches]
  /\ used \in Nat /\ turn \in [Fetches -> 0 .. NumFetches]
  /\ req \in [Fetches -> FetchRecords]

\* Whose bytes are counted: the requests that buffer a body, and those that have
\* been granted one and do not know yet.
Buffering == {f \in Fetches : req[f].at \in {"read", "decrypt"} \/ (req[f].at = "queued" /\ f \notin Waiters)}

\* No two elements of a list have one place.
InOrder == /\ \A j, k \in Cached : heat[j] = heat[k] => j = k
           /\ \A f, g \in Waiters : turn[f] = turn[g] => f = g

\* Bytes in flight are those of the requests that buffer a body, never above the
\* budget, and the oldest waiter is one that does not fit.
BudgetKept ==
  /\ used = Total(Needs, Buffering) /\ used <= Inflight
  /\ \A f \in Waiters : (\A g \in Waiters : turn[f] <= turn[g]) => used + Needs[f] > Inflight

\* The cache's counter is the sum of its entries, within both caps.
CacheKept ==
  /\ totalBytes = Total(entrySize, Cached) /\ totalBytes <= CacheBytes
  /\ Cardinality(Cached) <= CacheEntries

\* The two memory budgets are exact and kept.
SegMemory == SegTypeOK /\ InOrder /\ BudgetKept /\ CacheKept

\* Reached and kept in the end: every prefetch and every stream is over, those that waited
\* for another one's fetch or for room in the budget included, whether the one they
\* waited for succeeded, failed or gave up.
SegSettled == \A f \in Fetches : ~Active(f)

=============================================================================
