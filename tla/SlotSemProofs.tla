--------------------------- MODULE SlotSemProofs ---------------------------
(***************************************************************************)
(* Proofs about the transcode slots (SlotSem), for any number of jobs and  *)
(* any limits. The count of slots is exact, and slots go first come, first *)
(* served, because a job that waits is in the queue once or has been       *)
(* granted its slot, and never both.                                       *)
(***************************************************************************)
EXTENDS SlotSem, FiniteSetTheorems, TLAPS

\* The jobs that have a place in the queue.
InQueue == {waiters[k] : k \in 1 .. Len(waiters)}

\* The jobs inside acquire that have queued.
Queued == {j \in Jobs : job[j] \in {"wait", "tick", "cancel"}}

\* No job is in the queue twice.
QueueOnce == \A i, k \in 1 .. Len(waiters) : waiters[i] = waiters[k] => i = k

\* A job that has queued is still in the queue or was granted a slot, not both.
QueueKnown == InQueue \cup granted = Queued /\ InQueue \cap granted = {}

SlotInv == SlotTypeOK /\ SlotsExact /\ QueueOnce /\ QueueKnown

-----------------------------------------------------------------------------
(* What handing out slots does *)

\* grantLocked hands out at most what there are waiters for, and if it hands out
\* any the limit is kept.
LEMMA HandedBounds ==
  ASSUME NEW h \in Int, NEW q \in Nat, NEW l \in Nat
  PROVE  /\ Handed(h, q, l) \in 0 .. q
         /\ Handed(h, q, l) > 0 => h + Handed(h, q, l) <= l
BY DEF Handed

\* The first n of distinct waiters are n jobs; with the rest they are the queue.
LEMMA FirstRest ==
  ASSUME waiters \in Seq(Jobs), QueueOnce, NEW n \in 0 .. Len(waiters)
  PROVE  /\ IsFiniteSet(First(n)) /\ Cardinality(First(n)) = n
         /\ First(n) \subseteq InQueue /\ InQueue \subseteq Jobs
         /\ Rest(n) \in Seq(Jobs) /\ Len(Rest(n)) = Len(waiters) - n
         /\ \A k \in 1 .. Len(Rest(n)) : Rest(n)[k] = waiters[n + k]
<1>1. /\ First(n) \subseteq InQueue /\ InQueue \subseteq Jobs
      /\ Rest(n) \in Seq(Jobs) /\ Len(Rest(n)) = Len(waiters) - n
      /\ \A k \in 1 .. Len(Rest(n)) : Rest(n)[k] = waiters[n + k]
  BY DEF First, Rest, InQueue
<1>2. PICK f : f = [k \in 1 .. n |-> waiters[k]]  OBVIOUS
<1>3. f \in Bijection(1 .. n, First(n))
  <2>1. f \in [1 .. n -> First(n)]  BY <1>2 DEF First
  <2>2. \A i, k \in 1 .. n : f[i] = f[k] => i = k  BY <1>2 DEF QueueOnce
  <2>3. \A j \in First(n) : \E k \in 1 .. n : f[k] = j  BY <1>2 DEF First
  <2>4. QED  BY <2>1, <2>2, <2>3 DEF Bijection, Injection, IsInjective, Surjection
<1>4. ExistsBijection(1 .. n, First(n))  BY <1>3 DEF ExistsBijection
<1>5. IsFiniteSet(1 .. n) /\ Cardinality(1 .. n) = n  BY FS_Interval, SMT
<1>6. IsFiniteSet(First(n)) /\ Cardinality(First(n)) = n
  BY <1>4, <1>5, FS_Bijection
<1>7. QED  BY <1>1, <1>6

\* In TLA+ terms of sets: the rest of the queue is what was not handed out.
LEMMA RestIs ==
  ASSUME waiters \in Seq(Jobs), QueueOnce, NEW n \in 0 .. Len(waiters)
  PROVE  /\ {Rest(n)[k] : k \in 1 .. Len(Rest(n))} = InQueue \ First(n)
         /\ \A i, k \in 1 .. Len(Rest(n)) : Rest(n)[i] = Rest(n)[k] => i = k
<1>1. /\ Rest(n) \in Seq(Jobs) /\ Len(Rest(n)) = Len(waiters) - n
      /\ \A k \in 1 .. Len(Rest(n)) : Rest(n)[k] = waiters[n + k]
  BY FirstRest
<1>2. ASSUME NEW i \in 1 .. Len(Rest(n)), NEW k \in 1 .. Len(Rest(n)), Rest(n)[i] = Rest(n)[k]
      PROVE  i = k
  <2>1. n + i \in 1 .. Len(waiters) /\ n + k \in 1 .. Len(waiters)  BY <1>1
  <2>2. waiters[n + i] = waiters[n + k]  BY <1>1, <1>2
  <2>3. n + i = n + k  BY <2>1, <2>2 DEF QueueOnce
  <2>4. QED  BY <2>3, <1>1
<1>3. ASSUME NEW k \in 1 .. Len(Rest(n))
      PROVE  Rest(n)[k] \in InQueue \ First(n)
  <2>1. n + k \in 1 .. Len(waiters) /\ Rest(n)[k] = waiters[n + k]  BY <1>1
  <2>2. ASSUME NEW i \in 1 .. n, waiters[i] = waiters[n + k]  PROVE FALSE
    <3>1. i \in 1 .. Len(waiters)  BY <2>2
    <3>2. i = n + k  BY <3>1, <2>1, <2>2 DEF QueueOnce
    <3>3. QED  BY <3>2, <1>1
  <2>3. QED  BY <2>1, <2>2 DEF InQueue, First
<1>4. ASSUME NEW j \in InQueue, j \notin First(n)
      PROVE  \E k \in 1 .. Len(Rest(n)) : Rest(n)[k] = j
  <2>1. PICK k \in 1 .. Len(waiters) : waiters[k] = j  BY DEF InQueue
  <2>2. k > n  BY <2>1, <1>4 DEF First
  <2>3. k - n \in 1 .. Len(Rest(n)) /\ Rest(n)[k - n] = j  BY <1>1, <2>1, <2>2
  <2>4. QED  BY <2>3
<1>5. QED  BY <1>2, <1>3, <1>4

\* The waiters that are handed a slot had none: so many more slots are taken.
LEMMA HandsOut ==
  ASSUME SlotInv, NEW n \in 0 .. Len(waiters)
  PROVE  /\ IsFiniteSet(Owners) /\ held = Cardinality(Owners) /\ held \in Nat
         /\ Owners \cap First(n) = {}
         /\ IsFiniteSet(Owners \cup First(n)) /\ Cardinality(Owners \cup First(n)) = held + n
<1>1. /\ IsFiniteSet(First(n)) /\ Cardinality(First(n)) = n /\ First(n) \subseteq InQueue
  BY FirstRest DEF SlotInv, SlotTypeOK
<1>2. IsFiniteSet(Owners)
  <2>1. Owners \in SUBSET Jobs  BY DEF SlotInv, SlotTypeOK, Owners
  <2>2. QED  BY <2>1, FS_Subset, SlotAssumption
<1>3. held = Cardinality(Owners) /\ held \in Nat  BY DEF SlotInv, SlotsExact, SlotTypeOK
<1>4. Owners \cap First(n) = {}
  <2>1. InQueue \subseteq Queued /\ InQueue \cap granted = {}  BY DEF SlotInv, QueueKnown
  <2>2. QED  BY <1>1, <2>1 DEF Owners, Queued
<1>5. Cardinality(Owners \cap First(n)) = 0  BY <1>4, FS_EmptySet
<1>6. /\ IsFiniteSet(Owners \cup First(n))
      /\ Cardinality(Owners \cup First(n)) = Cardinality(Owners) + Cardinality(First(n)) - Cardinality(Owners \cap First(n))
  BY <1>1, <1>2, FS_Union
<1>7. Cardinality(Owners \cup First(n)) = held + n  BY <1>1, <1>3, <1>5, <1>6
<1>8. QED  BY <1>2, <1>3, <1>4, <1>6, <1>7

-----------------------------------------------------------------------------
(* The steps *)

\* First come, first served.
InTurn ==
  \A j \in Owners' \ Owners : \A k \in 1 .. Len(waiters) :
    (\A i \in 1 .. k : waiters[i] # j) => \A i \in 1 .. Len(waiters') : waiters'[i] # waiters[k]

\* Whoever hands slots out stays within the limit it read.
WithinLimit == held' > held => \E j \in Jobs : job'[j] # job[j] /\ held' <= seen[j]

\* A step that leaves the queue, the grants and the holders alone changes nothing that matters.
LEMMA SameSlots ==
  ASSUME SlotInv, SlotTypeOK', UNCHANGED semVars, Owners' = Owners, Queued' = Queued
  PROVE  SlotInv' /\ InTurn /\ WithinLimit
<1>1. held \in Nat  BY DEF SlotInv, SlotTypeOK
<1>2. SlotsExact'  BY DEF SlotInv, SlotsExact, semVars
<1>3. QueueOnce'  BY DEF SlotInv, QueueOnce, semVars
<1>4. QueueKnown'  BY DEF SlotInv, QueueKnown, InQueue, semVars
<1>5. WithinLimit  BY <1>1 DEF WithinLimit, semVars
<1>6. InTurn  BY DEF InTurn
<1>7. QED  BY <1>2, <1>3, <1>4, <1>5, <1>6 DEF SlotInv

\* What is left of the queue when its first n jobs get a slot.
LEMMA HandOver ==
  ASSUME SlotInv, NEW n \in 0 .. Len(waiters), waiters' = Rest(n),
         Owners' \subseteq Owners \cup First(n)
  PROVE  InQueue' = InQueue \ First(n) /\ QueueOnce' /\ waiters' \in Seq(Jobs) /\ InTurn
<1>0. waiters \in Seq(Jobs) /\ QueueOnce  BY DEF SlotInv, SlotTypeOK
<1>1. InQueue' = InQueue \ First(n) /\ QueueOnce'
  BY <1>0, RestIs DEF InQueue, QueueOnce
<1>2. waiters' \in Seq(Jobs)  BY <1>0, FirstRest
<1>3. ASSUME NEW j \in Owners' \ Owners, NEW k \in 1 .. Len(waiters), \A i \in 1 .. k : waiters[i] # j,
             NEW i \in 1 .. Len(waiters')
      PROVE  waiters'[i] # waiters[k]
  <2>1. PICK p \in 1 .. n : j = waiters[p]  BY <1>3 DEF First
  <2>2. k <= n  BY <2>1, <1>3
  <2>3. waiters[k] \in First(n)  BY <2>2 DEF First
  <2>4. waiters'[i] \in InQueue'  BY DEF InQueue
  <2>5. QED  BY <2>3, <2>4, <1>1
<1>4. InTurn  BY <1>3 DEF InTurn
<1>5. QED  BY <1>1, <1>2, <1>4

\* acquire, up to its lock.
LEMMA AcquireStep ==
  ASSUME SlotInv, NEW j \in Jobs, Acquire(j) \/ Tick(j) \/ Cancel(j) \/ ReleaseRead(j) \/ SetLimit
  PROVE  SlotInv' /\ InTurn /\ WithinLimit
<1>1. SlotTypeOK'
  BY DEF SlotInv, SlotTypeOK, Places, Acquire, Tick, Cancel, ReleaseRead, SetLimit, JobAt, ReadLimit, semVars
<1>2. UNCHANGED semVars
  BY DEF Acquire, Tick, Cancel, ReleaseRead, SetLimit
<1>3. Owners' = Owners /\ Queued' = Queued
  BY <1>2 DEF SlotInv, SlotTypeOK, Owners, Queued, Acquire, Tick, Cancel, ReleaseRead, SetLimit, JobAt, semVars
<1>4. QED  BY <1>1, <1>2, <1>3, SameSlots

\* A job that wakes up had its slot already.
LEMMA WakeStep ==
  ASSUME SlotInv, NEW j \in Jobs, Wake(j)
  PROVE  SlotInv' /\ InTurn /\ WithinLimit
<1>1. /\ job[j] = "wait" /\ j \in granted /\ job' = [job EXCEPT ![j] = "hold"]
      /\ granted' = granted \ {j} /\ UNCHANGED <<limit, held, waiters, seen>>
  BY DEF Wake, JobAt
<1>2. SlotTypeOK'  BY <1>1 DEF SlotInv, SlotTypeOK, Places
<1>3. Owners' = Owners /\ Queued' = Queued \ {j}
  BY <1>1 DEF SlotInv, SlotTypeOK, Owners, Queued
<1>4. SlotsExact'  BY <1>1, <1>3 DEF SlotInv, SlotsExact
<1>5. QueueOnce' /\ InQueue' = InQueue  BY <1>1 DEF SlotInv, QueueOnce, InQueue
<1>6. QueueKnown'  BY <1>1, <1>3, <1>5 DEF SlotInv, QueueKnown
<1>7. held' = held /\ held \in Nat  BY <1>1 DEF SlotInv, SlotTypeOK
<1>8. QED  BY <1>2, <1>3, <1>4, <1>5, <1>6, <1>7 DEF SlotInv, InTurn, WithinLimit

\* release, up to its second lock: the holder has a slot, so one is counted.
LEMMA ReleaseStep ==
  ASSUME SlotInv, NEW j \in Jobs, Release(j)
  PROVE  SlotInv' /\ InTurn /\ WithinLimit
<1>1. PICK l \in {"idle", "released"} :
        /\ job[j] = "hold" /\ job' = [job EXCEPT ![j] = l]
        /\ held' = IF held > 0 THEN held - 1 ELSE held
        /\ UNCHANGED <<limit, waiters, granted, seen>>
  BY DEF Release, JobAt
<1>2. IsFiniteSet(Owners) /\ held = Cardinality(Owners) /\ held \in Nat
  BY HandsOut, 0 \in 0 .. Len(waiters) DEF SlotInv, SlotTypeOK
<1>3. j \in Owners  BY <1>1 DEF Owners
<1>4. Owners' = Owners \ {j} /\ Queued' = Queued
  <2>1. j \notin granted  BY <1>1 DEF SlotInv, QueueKnown, Queued
  <2>2. QED  BY <1>1, <2>1 DEF SlotInv, SlotTypeOK, Owners, Queued
<1>5. Cardinality(Owners \ {j}) = Cardinality(Owners) - 1 /\ IsFiniteSet(Owners \ {j})
  BY <1>2, <1>3, FS_RemoveElement
<1>6. Cardinality(Owners \ {j}) \in Nat  BY <1>5, FS_CardinalityType
<1>7. held' = Cardinality(Owners') /\ held' \in Nat /\ held' <= held
  BY <1>1, <1>2, <1>4, <1>5, <1>6
<1>8. SlotTypeOK'  BY <1>1, <1>7 DEF SlotInv, SlotTypeOK, Places
<1>9. QueueOnce' /\ InQueue' = InQueue  BY <1>1 DEF SlotInv, QueueOnce, InQueue
<1>10. QueueKnown'  BY <1>1, <1>4, <1>9 DEF SlotInv, QueueKnown
<1>11. WithinLimit  BY <1>2, <1>7 DEF WithinLimit
<1>12. InTurn  BY <1>4 DEF InTurn
<1>13. QED  BY <1>7, <1>8, <1>9, <1>10, <1>11, <1>12 DEF SlotInv, SlotsExact

\* A tick, or the end of a release: the oldest waiters get what the limit allows.
LEMMA GrantStep ==
  ASSUME SlotInv, NEW j \in Jobs, TickGrant(j) \/ ReleaseGrant(j)
  PROVE  SlotInv' /\ InTurn /\ WithinLimit
<1>0. /\ held \in Nat /\ waiters \in Seq(Jobs) /\ QueueOnce /\ seen[j] \in Nat
  BY SlotAssumption DEF SlotInv, SlotTypeOK
<1>1. PICK n : n = Handed(held, Len(waiters), seen[j])  OBVIOUS
<1>2. n \in 0 .. Len(waiters) /\ (n > 0 => held + n <= seen[j])
  <2>1. held \in Int /\ Len(waiters) \in Nat  BY <1>0
  <2>2. QED  BY ONLY <1>0, <1>1, <2>1, HandedBounds
<1>3. PICK l \in {"wait", "idle"} :
        /\ IF l = "wait" THEN job[j] = "tick" ELSE job[j] = "grant"
        /\ job' = [job EXCEPT ![j] = l]
        /\ held' = held + n /\ granted' = granted \cup First(n) /\ waiters' = Rest(n)
        /\ UNCHANGED <<limit, seen>>
  BY <1>1 DEF TickGrant, ReleaseGrant, Grant, JobAt
<1>4. Owners' = Owners \cup First(n) /\ Queued' = Queued
  <2>1. job[j] # "hold" /\ l # "hold"  BY <1>3
  <2>2. {i \in Jobs : job'[i] = "hold"} = {i \in Jobs : job[i] = "hold"}
    BY <1>3, <2>1 DEF SlotInv, SlotTypeOK
  <2>3. Queued' = Queued  BY <1>3 DEF SlotInv, SlotTypeOK, Queued
  <2>4. QED  BY <1>3, <2>2, <2>3 DEF Owners
<1>5. /\ Cardinality(Owners \cup First(n)) = held + n  BY <1>2, HandsOut
<1>6. InQueue' = InQueue \ First(n) /\ QueueOnce' /\ waiters' \in Seq(Jobs) /\ InTurn
  BY <1>2, <1>3, <1>4, HandOver
<1>7. First(n) \subseteq InQueue /\ InQueue \subseteq Jobs  BY <1>0, <1>2, FirstRest
<1>8. SlotTypeOK'  BY <1>0, <1>2, <1>3, <1>6, <1>7 DEF SlotInv, SlotTypeOK, Places
<1>9. QueueKnown'  BY <1>3, <1>4, <1>6, <1>7 DEF SlotInv, QueueKnown
<1>10. SlotsExact'  BY <1>3, <1>4, <1>5 DEF SlotsExact
<1>11. WithinLimit
  <2>1. job'[j] # job[j]  BY <1>3 DEF SlotInv, SlotTypeOK
  <2>2. QED  BY <1>0, <1>2, <1>3, <2>1 DEF WithinLimit
<1>12. QED  BY <1>6, <1>8, <1>9, <1>10, <1>11 DEF SlotInv

\* acquire under its lock: the older waiters first, then the newcomer gets a slot or
\* queues up.
LEMMA TakeStep ==
  ASSUME SlotInv, NEW j \in Jobs, TakeOrQueue(j)
  PROVE  SlotInv' /\ InTurn /\ WithinLimit
<1>0. /\ held \in Nat /\ waiters \in Seq(Jobs) /\ QueueOnce /\ seen[j] \in Nat /\ job[j] = "enter"
      /\ j \notin InQueue /\ j \notin granted /\ j \notin Owners /\ j \notin Queued
  <2>1. job[j] = "enter" /\ j \notin Queued  BY DEF TakeOrQueue, Queued
  <2>2. j \notin InQueue /\ j \notin granted  BY <2>1 DEF SlotInv, QueueKnown
  <2>3. QED  BY <2>1, <2>2, SlotAssumption DEF SlotInv, SlotTypeOK, Owners
<1>1. PICK n : n = Handed(held, Len(waiters), seen[j])  OBVIOUS
<1>2. n \in 0 .. Len(waiters) /\ (n > 0 => held + n <= seen[j])
  <2>1. held \in Int /\ Len(waiters) \in Nat  BY <1>0
  <2>2. QED  BY ONLY <1>0, <1>1, <2>1, HandedBounds
<1>3. /\ First(n) \subseteq InQueue /\ InQueue \subseteq Jobs
      /\ Rest(n) \in Seq(Jobs)
  BY <1>0, <1>2, FirstRest
<1>4. /\ IsFiniteSet(Owners \cup First(n)) /\ Cardinality(Owners \cup First(n)) = held + n
  BY <1>2, HandsOut
<1>5. granted' = granted \cup First(n) /\ UNCHANGED <<limit, seen>>
  BY <1>1 DEF TakeOrQueue
<1>6. CASE held + n < seen[j] /\ Rest(n) = <<>>
  <2>1. job' = [job EXCEPT ![j] = "hold"] /\ held' = held + n + 1 /\ waiters' = Rest(n) /\ waiters' = <<>>
    BY <1>1, <1>6 DEF TakeOrQueue, JobAt
  <2>2. Owners' = (Owners \cup First(n)) \cup {j} /\ Queued' = Queued
    <3>1. {i \in Jobs : job'[i] = "hold"} = {i \in Jobs : job[i] = "hold"} \cup {j}
      BY <1>0, <2>1 DEF SlotInv, SlotTypeOK
    <3>2. Queued' = Queued  BY <1>0, <2>1 DEF SlotInv, SlotTypeOK, Queued
    <3>3. QED  BY <1>5, <3>1, <3>2 DEF Owners
  <2>3. Cardinality((Owners \cup First(n)) \cup {j}) = held + n + 1
    <3>1. j \notin Owners \cup First(n)  BY <1>0, <1>3
    <3>2. QED  BY <1>4, <3>1, FS_AddElement
  <2>4. SlotsExact'  BY <2>1, <2>2, <2>3 DEF SlotsExact
  <2>5. SlotTypeOK'  BY <1>0, <1>2, <1>3, <1>5, <2>1 DEF SlotInv, SlotTypeOK, Places
  <2>6. InQueue' = InQueue \ First(n) /\ QueueOnce'
    <3>1. waiters' = Rest(n)  BY <2>1
    <3>2. /\ {Rest(n)[k] : k \in 1 .. Len(Rest(n))} = InQueue \ First(n)
          /\ \A i, k \in 1 .. Len(Rest(n)) : Rest(n)[i] = Rest(n)[k] => i = k
      BY <1>0, <1>2, RestIs
    <3>3. QED  BY <3>1, <3>2 DEF InQueue, QueueOnce
  <2>7. QueueKnown'  BY <1>3, <1>5, <2>2, <2>6 DEF SlotInv, QueueKnown
  <2>8. WithinLimit
    <3>1. job'[j] # job[j]  BY <1>0, <2>1 DEF SlotInv, SlotTypeOK
    <3>2. held' <= seen[j]  BY <1>0, <1>2, <1>6, <2>1
    <3>3. QED  BY <3>1, <3>2 DEF WithinLimit
  <2>9. InTurn  BY <2>1 DEF InTurn
  <2>10. QED  BY <2>4, <2>5, <2>6, <2>7, <2>8, <2>9 DEF SlotInv
<1>7. CASE ~(held + n < seen[j] /\ Rest(n) = <<>>)
  <2>1. job' = [job EXCEPT ![j] = "wait"] /\ held' = held + n /\ waiters' = Append(Rest(n), j)
    BY <1>1, <1>7 DEF TakeOrQueue, JobAt
  <2>2. Owners' = Owners \cup First(n) /\ Queued' = Queued \cup {j}
    <3>1. {i \in Jobs : job'[i] = "hold"} = {i \in Jobs : job[i] = "hold"}
      BY <1>0, <2>1 DEF SlotInv, SlotTypeOK
    <3>2. Queued' = Queued \cup {j}  BY <1>0, <2>1 DEF SlotInv, SlotTypeOK, Queued
    <3>3. QED  BY <1>5, <3>1, <3>2 DEF Owners
  <2>3. SlotsExact'  BY <1>4, <2>1, <2>2 DEF SlotsExact
  <2>4. SlotTypeOK'  BY <1>0, <1>2, <1>3, <1>5, <2>1 DEF SlotInv, SlotTypeOK, Places
  <2>5. {Rest(n)[k] : k \in 1 .. Len(Rest(n))} = InQueue \ First(n)
        /\ \A i, k \in 1 .. Len(Rest(n)) : Rest(n)[i] = Rest(n)[k] => i = k
    BY <1>0, <1>2, RestIs
  <2>6. Len(waiters') = Len(Rest(n)) + 1 /\ waiters'[Len(Rest(n)) + 1] = j
        /\ \A k \in 1 .. Len(Rest(n)) : waiters'[k] = Rest(n)[k] /\ waiters'[k] # j
    BY <1>0, <1>3, <2>1, <2>5
  <2>7. InQueue' = (InQueue \ First(n)) \cup {j} /\ QueueOnce'
    <3>1. Len(Rest(n)) \in Nat  BY <1>3
    <3>2. QueueOnce'  BY <2>5, <2>6, <3>1 DEF QueueOnce
    <3>3. InQueue' = {Rest(n)[k] : k \in 1 .. Len(Rest(n))} \cup {j}
      BY <2>6, <3>1 DEF InQueue
    <3>4. QED  BY <3>2, <3>3, <2>5
  <2>8. QueueKnown'  BY <1>0, <1>3, <1>5, <2>2, <2>7 DEF SlotInv, QueueKnown
  <2>9. WithinLimit
    <3>1. job'[j] # job[j]  BY <1>0, <2>1 DEF SlotInv, SlotTypeOK
    <3>2. QED  BY <1>0, <1>2, <2>1, <3>1 DEF WithinLimit
  <2>10. ASSUME NEW o \in Owners' \ Owners, NEW k \in 1 .. Len(waiters), \A i \in 1 .. k : waiters[i] # o,
                NEW i \in 1 .. Len(waiters')
         PROVE  waiters'[i] # waiters[k]
    <3>0. o \in First(n)  BY <2>2
    <3>1. PICK p \in 1 .. n : o = waiters[p]  BY <3>0 DEF First
    <3>2. k <= n  BY <1>0, <1>2, <3>1, <2>10
    <3>3. waiters[k] \in First(n)  BY <3>2 DEF First
    <3>4. waiters'[i] \in InQueue'  BY DEF InQueue
    <3>5. QED  BY <3>3, <3>4, <1>0, <1>3, <2>7
  <2>11. QED  BY <2>3, <2>4, <2>7, <2>8, <2>9, <2>10 DEF SlotInv, InTurn
<1>8. QED  BY <1>6, <1>7

\* A cancelled job that was granted a slot meanwhile hands it on.
LEMMA GiveBackStep ==
  ASSUME SlotInv, NEW j \in Jobs, GiveUp(j), j \in granted
  PROVE  SlotInv' /\ InTurn /\ WithinLimit
<1>0. /\ held \in Nat /\ waiters \in Seq(Jobs) /\ QueueOnce /\ seen[j] \in Nat /\ job[j] = "cancel"
      /\ j \notin InQueue /\ j \in Owners
  BY SlotAssumption DEF SlotInv, SlotTypeOK, QueueKnown, Owners, GiveUp
<1>1. PICK n : n = Handed(held - 1, Len(waiters), seen[j])  OBVIOUS
<1>2. n \in 0 .. Len(waiters) /\ (n > 0 => held - 1 + n <= seen[j])
  <2>1. held - 1 \in Int /\ Len(waiters) \in Nat  BY <1>0
  <2>2. QED  BY ONLY <1>0, <1>1, <2>1, HandedBounds
<1>3. /\ job' = [job EXCEPT ![j] = "idle"] /\ held' = held - 1 + n
      /\ granted' = (granted \cup First(n)) \ {j} /\ waiters' = Rest(n) /\ UNCHANGED <<limit, seen>>
  BY <1>0, <1>1 DEF GiveUp, Grant, JobAt
<1>4. First(n) \subseteq InQueue /\ InQueue \subseteq Jobs  BY <1>0, <1>2, FirstRest
<1>5. Owners' = (Owners \cup First(n)) \ {j} /\ Queued' = Queued \ {j}
  <2>1. {i \in Jobs : job'[i] = "hold"} = {i \in Jobs : job[i] = "hold"} \ {j}
    BY <1>0, <1>3 DEF SlotInv, SlotTypeOK
  <2>2. Queued' = Queued \ {j}  BY <1>3 DEF SlotInv, SlotTypeOK, Queued
  <2>3. QED  BY <1>3, <2>1, <2>2 DEF Owners
<1>6. Cardinality((Owners \cup First(n)) \ {j}) = held + n - 1
      /\ Cardinality((Owners \cup First(n)) \ {j}) \in Nat
  <2>1. IsFiniteSet(Owners \cup First(n)) /\ Cardinality(Owners \cup First(n)) = held + n
    BY <1>2, HandsOut
  <2>2. j \in Owners \cup First(n)  BY <1>0
  <2>3. IsFiniteSet((Owners \cup First(n)) \ {j})
        /\ Cardinality((Owners \cup First(n)) \ {j}) = held + n - 1
    <3>1. PICK S : S = Owners \cup First(n)  OBVIOUS
    <3>2. IsFiniteSet(S) /\ Cardinality(S) = held + n /\ j \in S  BY <2>1, <2>2, <3>1
    <3>3. IsFiniteSet(S \ {j}) /\ Cardinality(S \ {j}) = Cardinality(S) - 1  BY ONLY <3>2, FS_RemoveElement
    <3>4. QED  BY <1>0, <1>2, <3>1, <3>2, <3>3
  <2>4. QED  BY <2>3, FS_CardinalityType
<1>7. held' = Cardinality(Owners') /\ held' \in Nat  BY <1>0, <1>2, <1>3, <1>5, <1>6
<1>8. InQueue' = InQueue \ First(n) /\ QueueOnce' /\ waiters' \in Seq(Jobs) /\ InTurn
  <2>1. Owners' \subseteq Owners \cup First(n)  BY <1>5
  <2>2. QED  BY <1>2, <1>3, <2>1, HandOver
<1>9. SlotTypeOK'  BY <1>3, <1>4, <1>7, <1>8 DEF SlotInv, SlotTypeOK, Places
<1>10. QueueKnown'  BY <1>0, <1>3, <1>4, <1>5, <1>8 DEF SlotInv, QueueKnown
<1>11. WithinLimit
  <2>1. job'[j] # job[j]  BY <1>0, <1>3 DEF SlotInv, SlotTypeOK
  <2>2. QED  BY <1>0, <1>2, <1>3, <2>1 DEF WithinLimit
<1>12. QED  BY <1>7, <1>8, <1>9, <1>10, <1>11 DEF SlotInv, SlotsExact

\* A cancelled job that is still in the queue leaves it.
LEMMA LeaveStep ==
  ASSUME SlotInv, NEW j \in Jobs, GiveUp(j), j \notin granted
  PROVE  SlotInv' /\ InTurn /\ WithinLimit
<1>0. /\ held \in Nat /\ waiters \in Seq(Jobs) /\ QueueOnce /\ job[j] = "cancel" /\ j \in InQueue
  BY DEF SlotInv, SlotTypeOK, QueueKnown, Queued, GiveUp
<1>1. PICK p : p = CHOOSE k \in 1 .. Len(waiters) : waiters[k] = j  OBVIOUS
<1>2. p \in 1 .. Len(waiters) /\ waiters[p] = j  BY <1>0, <1>1 DEF InQueue
<1>3. /\ job' = [job EXCEPT ![j] = "idle"] /\ UNCHANGED <<limit, seen, held, granted>>
      /\ waiters' = SubSeq(waiters, 1, p - 1) \o SubSeq(waiters, p + 1, Len(waiters))
  BY <1>1 DEF GiveUp, JobAt, Without
<1>4. /\ waiters' \in Seq(Jobs) /\ Len(waiters') = Len(waiters) - 1
      /\ \A k \in 1 .. Len(waiters) - 1 : waiters'[k] = waiters[IF k < p THEN k ELSE k + 1]
  <2>1. PICK A : A = SubSeq(waiters, 1, p - 1)  OBVIOUS
  <2>2. PICK B : B = SubSeq(waiters, p + 1, Len(waiters))  OBVIOUS
  <2>3. A \in Seq(Jobs) /\ Len(A) = p - 1 /\ \A k \in 1 .. p - 1 : A[k] = waiters[k]
    BY <1>0, <1>2, <2>1
  <2>4. B \in Seq(Jobs) /\ Len(B) = Len(waiters) - p /\ \A k \in 1 .. Len(waiters) - p : B[k] = waiters[p + k]
    BY <1>0, <1>2, <2>2
  <2>5. waiters' = A \o B  BY <1>3, <2>1, <2>2
  <2>6. waiters' \in Seq(Jobs) /\ Len(waiters') = Len(waiters) - 1
    <3>0. A \in Seq(Jobs) /\ B \in Seq(Jobs)  BY <2>3, <2>4
    <3>1. A \o B \in Seq(Jobs) /\ Len(A \o B) = Len(A) + Len(B)  BY ONLY <3>0
    <3>2. QED  BY <1>0, <1>2, <2>3, <2>4, <2>5, <3>1
  <2>7. ASSUME NEW k \in 1 .. Len(waiters) - 1  PROVE waiters'[k] = waiters[IF k < p THEN k ELSE k + 1]
    <3>1. CASE k < p
      <4>1. waiters'[k] = A[k]  BY <1>0, <1>2, <2>3, <2>4, <2>5, <3>1
      <4>2. QED  BY <1>0, <1>2, <2>3, <3>1, <4>1
    <3>2. CASE ~(k < p)
      <4>1. waiters'[k] = B[k - (p - 1)]  BY <1>0, <1>2, <2>3, <2>4, <2>5, <3>2
      <4>2. k - (p - 1) \in 1 .. Len(waiters) - p /\ p + (k - (p - 1)) = k + 1  BY <1>0, <1>2, <3>2
      <4>3. QED  BY <2>4, <3>2, <4>1, <4>2
    <3>3. QED  BY <3>1, <3>2
  <2>8. QED  BY <2>6, <2>7
<1>5. QueueOnce'
  <2>1. SUFFICES ASSUME NEW i \in 1 .. Len(waiters) - 1, NEW k \in 1 .. Len(waiters) - 1, waiters'[i] = waiters'[k]
                 PROVE  i = k
    BY <1>4 DEF QueueOnce
  <2>2. (IF i < p THEN i ELSE i + 1) = (IF k < p THEN k ELSE k + 1)
    BY <1>0, <1>2, <1>4, <2>1 DEF QueueOnce
  <2>3. QED  BY <1>2, <2>2
<1>6. InQueue' = InQueue \ {j}
  <2>1. ASSUME NEW k \in 1 .. Len(waiters) - 1  PROVE waiters'[k] \in InQueue \ {j}
    <3>1. PICK i \in 1 .. Len(waiters) : i # p /\ waiters'[k] = waiters[i]  BY <1>0, <1>2, <1>4
    <3>2. waiters[i] # j  BY <1>0, <1>2, <3>1 DEF QueueOnce
    <3>3. QED  BY <3>1, <3>2 DEF InQueue
  <2>2. ASSUME NEW x \in InQueue, x # j  PROVE \E k \in 1 .. Len(waiters) - 1 : waiters'[k] = x
    <3>1. PICK i \in 1 .. Len(waiters) : waiters[i] = x  BY DEF InQueue
    <3>2. i # p  BY <1>2, <2>2, <3>1
    <3>3. CASE i < p  BY <1>0, <1>2, <1>4, <3>1, <3>3
    <3>4. CASE i > p
      <4>1. i - 1 \in 1 .. Len(waiters) - 1 /\ ~(i - 1 < p) /\ (i - 1) + 1 = i  BY <1>0, <1>2, <3>4
      <4>2. QED  BY <1>4, <3>1, <4>1
    <3>5. QED  BY <1>2, <3>2, <3>3, <3>4
  <2>3. QED  BY <1>4, <2>1, <2>2 DEF InQueue
<1>7. Owners' = Owners /\ Queued' = Queued \ {j}
  BY <1>0, <1>3 DEF SlotInv, SlotTypeOK, Owners, Queued
<1>8. QueueKnown'  BY <1>0, <1>3, <1>6, <1>7 DEF SlotInv, QueueKnown
<1>9. SlotTypeOK'  BY <1>3, <1>4 DEF SlotInv, SlotTypeOK, Places
<1>10. SlotsExact'  BY <1>3, <1>7 DEF SlotInv, SlotsExact
<1>11. QED  BY <1>0, <1>3, <1>5, <1>7, <1>8, <1>9, <1>10 DEF SlotInv, InTurn, WithinLimit

-----------------------------------------------------------------------------
(* The theorems *)

\* Every step keeps the inductive invariant, goes in turn and stays within the limit.
LEMMA SlotStepKeeps ==
  ASSUME SlotInv, [SlotNext]_slotVars
  PROVE  SlotInv' /\ InTurn /\ WithinLimit
<1>1. CASE SetLimit
  <2>1. CASE Jobs # {}  BY <1>1, <2>1, AcquireStep
  <2>2. CASE Jobs = {}
    <3>1. SlotTypeOK' /\ UNCHANGED semVars
      BY <1>1 DEF SlotInv, SlotTypeOK, SetLimit, semVars
    <3>2. Owners' = Owners /\ Queued' = Queued  BY <1>1 DEF SetLimit, semVars, Owners, Queued
    <3>3. QED  BY <3>1, <3>2, SameSlots
  <2>3. QED  BY <2>1, <2>2
<1>2. ASSUME NEW j \in Jobs, SlotStep(j)  PROVE SlotInv' /\ InTurn /\ WithinLimit
  BY <1>2, AcquireStep, WakeStep, ReleaseStep, GrantStep, TakeStep, GiveBackStep, LeaveStep DEF SlotStep
<1>3. CASE UNCHANGED slotVars
  <2>1. SlotTypeOK' /\ UNCHANGED semVars  BY <1>3 DEF SlotInv, SlotTypeOK, slotVars, semVars
  <2>2. Owners' = Owners /\ Queued' = Queued  BY <1>3 DEF slotVars, Owners, Queued
  <2>3. QED  BY <2>1, <2>2, SameSlots
<1>4. QED  BY <1>1, <1>2, <1>3 DEF SlotNext

\* A semaphore nobody uses has no slots out.
LEMMA SlotStarts == SlotInit => SlotInv
<1>1. SUFFICES ASSUME SlotInit PROVE SlotInv  OBVIOUS
<1>0. limit \in Limits /\ held = 0 /\ waiters = <<>> /\ granted = {}
      /\ job = [j \in Jobs |-> "idle"] /\ seen = [j \in Jobs |-> limit]
  BY <1>1 DEF SlotInit
<1>a. waiters \in Seq(Jobs) /\ Len(waiters) = 0  BY <1>0
<1>2. SlotTypeOK  BY <1>0, <1>a DEF SlotTypeOK, Places
<1>3. Owners = {} /\ Queued = {} /\ InQueue = {}
  <2>1. InQueue = {}  BY <1>a DEF InQueue
  <2>2. QED  BY <1>0, <2>1 DEF Owners, Queued
<1>4. Cardinality(Owners) = 0  BY <1>3, FS_EmptySet
<1>5. QueueOnce  BY <1>a DEF QueueOnce
<1>6. QED  BY <1>0, <1>2, <1>3, <1>4, <1>5 DEF SlotInv, SlotsExact, QueueKnown

\* The inductive invariant of the slots.
THEOREM SlotsCounted == SlotSpec => []SlotInv
<1>1. SlotInit => SlotInv  BY SlotStarts
<1>2. SlotInv /\ [SlotNext]_slotVars => SlotInv'  BY SlotStepKeeps
<1>3. QED  BY <1>1, <1>2, PTL DEF SlotSpec

\* Slots stay counted exactly, and they go first come, first served, within the limit
\* that whoever hands them out has read, however acquire, cancellation, ticks and
\* release cross and however often the setting changes.
THEOREM SlotsInTurn == SlotSpec => Admission
<1>1. SlotInv /\ [SlotNext]_slotVars =>
        [/\ SlotTypeOK' /\ SlotsExact'
         /\ \A j \in Owners' \ Owners : \A k \in 1 .. Len(waiters) :
              (\A i \in 1 .. k : waiters[i] # j) => \A i \in 1 .. Len(waiters') : waiters'[i] # waiters[k]
         /\ held' > held => \E j \in Jobs : job'[j] # job[j] /\ held' <= seen[j]]_slotVars
  BY SlotStepKeeps DEF SlotInv, InTurn, WithinLimit
<1>2. QED  BY <1>1, SlotsCounted, PTL DEF SlotSpec, Admission

=============================================================================
