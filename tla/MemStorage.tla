---------------------------- MODULE MemStorage ----------------------------
(***************************************************************************)
(* The in-RAM piece store (internal/engine/memstorage.go) with the hook    *)
(* that re-downloads evicted pieces (refetchPiece, internal/engine/        *)
(* engine.go) and as much of the torrent client as drives them.            *)
(*                                                                         *)
(* A step is one critical section of memPiece.mu or memStorage.mu, one     *)
(* lock-free stamp operation, or one decision of the client. memStorage.mu *)
(* is held across an eviction pass while readers stamp pieces without it,  *)
(* so a pass is a sequence of steps and `pass' says who holds the lock.    *)
(*                                                                         *)
(* A buffer is the set of its chunks that were written since it came out   *)
(* of the pool: whatever else it holds is another piece's bytes. Delays    *)
(* and throttles are not state: a wait may end at any time.                *)
(***************************************************************************)
EXTENDS Integers, FiniteSets

CONSTANTS
  Torrents, Pieces, Chunks,
  TorrentOf,     \* piece -> its torrent
  PieceLen,           \* piece -> its length in bytes
  Capacity,      \* memStorage.capacity
  Writers,       \* the client's connections, writing chunks
  Readers,       \* goroutines reading pieces
  Verifiers,     \* bound: goroutines of refetchPiece alive at once
  Nil,
  MaxReads,      \* bound: reads issued
  MaxTick,       \* bound: no hashing starts once the recency clock got here
  MayClose,      \* whether torrents are dropped
  MayCancel      \* whether waiting readers go away

\* What an eviction pass is for.
PassType == [need : Nat, keep : Pieces \cup {Nil}, by : Writers \cup {Nil}]

ASSUME MemStorageAssumption ==
  /\ IsFiniteSet(Pieces) /\ Chunks # {} /\ Pieces # {}
  /\ TorrentOf \in [Pieces -> Torrents] /\ PieceLen \in [Pieces -> Nat \ {0}]
  /\ Capacity \in Nat /\ MaxReads \in Nat /\ MaxTick \in Nat /\ {MayClose, MayCancel} \subseteq BOOLEAN
  /\ Nil \notin Pieces \cup Chunks \cup Writers \cup Verifiers /\ Nil \notin PassType

VARIABLES
  resident,      \* pieces with a buffer (data # nil)
  fresh,         \* piece -> chunks of its buffer written since it was allocated
  complete,      \* pieces flagged complete
  lru,           \* pieces in the heap
  key, lastUsed, \* piece -> heap key, recency stamp
  tick, used,
  allocMu,       \* piece -> the writer that holds its allocMu
  pass,          \* the eviction pass under memStorage.mu: [need, keep, by], or Nil
  dirty,         \* client: piece -> chunks it has received
  have,          \* client: pieces it takes for complete
  closed,        \* client: dropped torrents
  hash,          \* client: piece -> state of its hashing
  hashed,        \* client: piece -> chunks hashed so far
  refetching,    \* manager: piece -> the verifier in the dedupe map, or Nil
  verifier,      \* verifier -> [st, piece]
  writer,        \* writer -> [pc, piece, chunk]
  reader,        \* reader -> [pc, piece, chunk, stamp, on, good]
  reads

store  == <<resident, fresh, complete, lru, key, lastUsed, tick, used, allocMu, pass>>
client == <<dirty, have, closed, hash, hashed>>
hook   == <<refetching, verifier>>
vars   == <<store, client, hook, writer, reader, reads>>

IdleWriter   == [pc |-> "idle", piece |-> Nil, chunk |-> Nil]
IdleReader   == [pc |-> "idle", piece |-> Nil, chunk |-> Nil, stamp |-> 0, on |-> Nil, good |-> TRUE]
IdleVerifier == [st |-> "idle", piece |-> Nil]

Init ==
  /\ resident = {} /\ complete = {} /\ lru = {} /\ tick = 0 /\ used = 0 /\ pass = Nil
  /\ fresh = [p \in Pieces |-> {}]
  /\ key = [p \in Pieces |-> 0] /\ lastUsed = [p \in Pieces |-> 0]
  /\ allocMu = [p \in Pieces |-> Nil]
  /\ dirty = [p \in Pieces |-> {}] /\ have = {} /\ closed = {}
  /\ hash = [p \in Pieces |-> "idle"] /\ hashed = [p \in Pieces |-> {}]
  /\ refetching = [p \in Pieces |-> Nil]
  /\ verifier = [v \in Verifiers |-> IdleVerifier]
  /\ writer = [w \in Writers |-> IdleWriter]
  /\ reader = [r \in Readers |-> IdleReader]
  /\ reads = 0

Open(p) == TorrentOf[p] \notin closed

-----------------------------------------------------------------------------
(* WriteAt *)

\* A wanted chunk arrives: a reader waits for its piece, which is not being hashed.
StartWrite(w, p, c) ==
  /\ writer[w].pc = "idle" /\ Open(p) /\ hash[p] = "idle" /\ c \notin dirty[p]
  /\ p \notin have /\ \E r \in Readers : reader[r].pc = "blocked" /\ reader[r].piece = p
  /\ \A x \in Writers : ~(writer[x].piece = p /\ writer[x].chunk = c)
  /\ writer' = [writer EXCEPT ![w] = [pc |-> "write", piece |-> p, chunk |-> c]]
  /\ UNCHANGED <<store, client, hook, reader, reads>>

\* The chunk is copied into the buffer and the client notes it.
CopyChunk(w) ==
  LET p == writer[w].piece IN
  /\ dirty' = [dirty EXCEPT ![p] = @ \cup {writer[w].chunk}]
  /\ writer' = [writer EXCEPT ![w] = IdleWriter]

GotoW(w, l) == writer' = [writer EXCEPT ![w].pc = l]

\* lockResident: the buffer is there, or it has to be allocated.
Write(w) ==
  LET p == writer[w].piece IN
  /\ writer[w].pc = "write"
  /\ IF p \in resident
     THEN CopyChunk(w) /\ fresh' = [fresh EXCEPT ![p] = @ \cup {writer[w].chunk}]
     ELSE GotoW(w, "alloc") /\ UNCHANGED <<dirty, fresh>>
  /\ UNCHANGED <<resident, complete, lru, key, lastUsed, tick, used, allocMu, pass,
                 have, closed, hash, hashed, hook, reader, reads>>

\* Mutant: allocMu is taken and the buffer not looked at again.
AllocUnchecked(w) ==
  LET p == writer[w].piece IN
  /\ writer[w].pc = "alloc" /\ allocMu[p] = Nil
  /\ GotoW(w, "reserve") /\ allocMu' = [allocMu EXCEPT ![p] = w]
  /\ UNCHANGED <<resident, fresh, complete, lru, key, lastUsed, tick, used, pass, client, hook, reader, reads>>

\* ... under allocMu, looking again: a racing writer may have installed one.
Alloc(w) ==
  LET p == writer[w].piece IN
  /\ writer[w].pc = "alloc" /\ allocMu[p] = Nil
  /\ IF p \in resident
     THEN /\ CopyChunk(w) /\ fresh' = [fresh EXCEPT ![p] = @ \cup {writer[w].chunk}]
          /\ UNCHANGED allocMu
     ELSE /\ GotoW(w, "reserve") /\ allocMu' = [allocMu EXCEPT ![p] = w]
          /\ UNCHANGED <<dirty, fresh>>
  /\ UNCHANGED <<resident, complete, lru, key, lastUsed, tick, used, pass,
                 have, closed, hash, hashed, hook, reader, reads>>

\* reserve takes memStorage.mu for its eviction pass.
Reserve(w) ==
  /\ writer[w].pc = "reserve" /\ pass = Nil
  /\ pass' = [need |-> PieceLen[writer[w].piece], keep |-> Nil, by |-> w]
  /\ GotoW(w, "pass")
  /\ UNCHANGED <<resident, fresh, complete, lru, key, lastUsed, tick, used, allocMu, client, hook, reader, reads>>

\* The buffer from the pool is installed; its other chunks hold old bytes.
Install(w) ==
  LET p == writer[w].piece IN
  /\ writer[w].pc = "install"
  /\ resident' = resident \cup {p}
  /\ fresh' = [fresh EXCEPT ![p] = {writer[w].chunk}]
  /\ allocMu' = [allocMu EXCEPT ![p] = Nil]
  /\ CopyChunk(w)
  /\ UNCHANGED <<complete, lru, key, lastUsed, tick, used, pass, have, closed, hash, hashed, hook, reader, reads>>

-----------------------------------------------------------------------------
(* Eviction: evictLocked, popOldestLocked, freeLocked *)

\* The heap without the piece whose completion started the pass.
Candidates == lru \ {pass.keep}
Over == used + pass.need > Capacity
Tops == {p \in Candidates : \A q \in Candidates : key[p] <= key[q]}

\* The oldest key is out of date: the piece was read since.
EvictRekey(p) ==
  /\ pass # Nil /\ Over /\ p \in Tops /\ lastUsed[p] > key[p]
  /\ key' = [key EXCEPT ![p] = lastUsed[p]]
  /\ UNCHANGED <<resident, fresh, complete, lru, lastUsed, tick, used, allocMu, pass, client, hook, writer, reader, reads>>

\* Mutant: the budget is not given back.
EvictPopLeaks(p) ==
  /\ pass # Nil /\ Over /\ p \in Tops /\ lastUsed[p] <= key[p]
  /\ lru' = lru \ {p} /\ resident' = resident \ {p} /\ complete' = complete \ {p}
  /\ used' = used
  /\ UNCHANGED <<fresh, key, lastUsed, tick, allocMu, pass, client, hook, writer, reader, reads>>

\* The oldest key is current: the piece is freed.
EvictPop(p) ==
  /\ pass # Nil /\ Over /\ p \in Tops /\ lastUsed[p] <= key[p]
  /\ lru' = lru \ {p} /\ resident' = resident \ {p} /\ complete' = complete \ {p}
  /\ used' = used - PieceLen[p]
  /\ UNCHANGED <<fresh, key, lastUsed, tick, allocMu, pass, client, hook, writer, reader, reads>>

\* It fits, or nothing is left to evict.
PassOver == ~Over \/ Candidates = {}

\* The end of reserve.
EvictReserved(w) ==
  /\ pass # Nil /\ PassOver /\ pass.by = w /\ writer[w].pc = "pass"
  /\ used' = used + pass.need
  /\ pass' = Nil /\ GotoW(w, "install")
  /\ UNCHANGED <<resident, fresh, complete, lru, key, lastUsed, tick, allocMu, client, hook, reader, reads>>

\* The end of MarkComplete, which keeps its own piece.
EvictMarked ==
  /\ pass # Nil /\ PassOver /\ pass.keep # Nil
  /\ pass' = Nil
  /\ UNCHANGED <<resident, fresh, complete, lru, key, lastUsed, tick, used, allocMu, client, hook, writer, reader, reads>>

-----------------------------------------------------------------------------
(* The client's hashing: WriteTo, then MarkComplete or MarkNotComplete *)

Verifying(p) == \E v \in Verifiers : verifier[v] = [st |-> "verify", piece |-> p]

\* All chunks of a piece arrived, or VerifyData asks for it.
HashStart(p) ==
  /\ hash[p] = "idle" /\ Open(p) /\ tick < MaxTick
  /\ \A w \in Writers : writer[w].piece # p
  /\ Verifying(p) \/ (dirty[p] = Chunks /\ p \notin have)
  /\ hash' = [hash EXCEPT ![p] = "read"]
  /\ UNCHANGED <<store, dirty, have, closed, hashed, hook, writer, reader, reads>>

\* WriteTo copies a chunk under the piece's read lock; the buffer may be gone.
HashRead(p) ==
  /\ hash[p] = "read"
  /\ IF p \notin resident
     THEN hash' = [hash EXCEPT ![p] = "fail"] /\ UNCHANGED hashed
     ELSE \E c \in Chunks \ hashed[p] :
            /\ hashed' = [hashed EXCEPT ![p] = @ \cup {c}]
            /\ hash' = [hash EXCEPT ![p] = IF c \notin fresh[p] THEN "fail"
                                           ELSE IF hashed[p] \cup {c} = Chunks THEN "pass" ELSE "read"]
  /\ UNCHANGED <<store, dirty, have, closed, hook, writer, reader, reads>>

\* The verifiers that asked for this hash are answered.
Answer(p) ==
  /\ verifier' = [v \in Verifiers |-> IF verifier[v] = [st |-> "verify", piece |-> p]
                                       THEN [verifier[v] EXCEPT !.st = "verified"] ELSE verifier[v]]
  /\ UNCHANGED refetching

HashEnd(p) ==
  /\ hash' = [hash EXCEPT ![p] = "idle"] /\ hashed' = [hashed EXCEPT ![p] = {}]
  /\ Answer(p)

\* Mutant: the budget is not trimmed once the piece is complete.
MarkCompleteNoTrim(p) ==
  /\ hash[p] = "pass" /\ pass = Nil
  /\ IF p \notin resident
     THEN UNCHANGED <<complete, lru, key, lastUsed, tick, have>>
     ELSE /\ complete' = complete \cup {p} /\ lru' = lru \cup {p}
          /\ tick' = tick + 1
          /\ key' = [key EXCEPT ![p] = tick + 1] /\ lastUsed' = [lastUsed EXCEPT ![p] = tick + 1]
          /\ have' = have \cup {p}
  /\ HashEnd(p)
  /\ UNCHANGED <<resident, fresh, used, allocMu, pass, dirty, closed, writer, reader, reads>>

\* Mutant: the buffer is not looked at.
MarkCompleteUnchecked(p) ==
  /\ hash[p] = "pass" /\ pass = Nil
  /\ complete' = complete \cup {p} /\ lru' = lru \cup {p}
  /\ tick' = tick + 1
  /\ key' = [key EXCEPT ![p] = tick + 1] /\ lastUsed' = [lastUsed EXCEPT ![p] = tick + 1]
  /\ pass' = [need |-> 0, keep |-> p, by |-> Nil]
  /\ have' = have \cup {p}
  /\ HashEnd(p)
  /\ UNCHANGED <<resident, fresh, used, allocMu, dirty, closed, writer, reader, reads>>

\* MarkComplete; it fails when the buffer is gone.
MarkComplete(p) ==
  /\ hash[p] = "pass" /\ pass = Nil
  /\ IF p \notin resident
     THEN UNCHANGED <<complete, lru, key, lastUsed, tick, pass, have>>
     ELSE /\ complete' = complete \cup {p} /\ lru' = lru \cup {p}
          /\ tick' = tick + 1
          /\ key' = [key EXCEPT ![p] = tick + 1] /\ lastUsed' = [lastUsed EXCEPT ![p] = tick + 1]
          /\ pass' = [need |-> 0, keep |-> p, by |-> Nil]
          /\ have' = have \cup {p}
  /\ HashEnd(p)
  /\ UNCHANGED <<resident, fresh, used, allocMu, dirty, closed, writer, reader, reads>>

\* MarkNotComplete after a failed hash; the client asks for every chunk again.
MarkNotComplete(p) ==
  /\ hash[p] = "fail" /\ pass = Nil
  /\ complete' = complete \ {p} /\ lru' = lru \ {p}
  /\ dirty' = [dirty EXCEPT ![p] = {}] /\ have' = have \ {p}
  /\ HashEnd(p)
  /\ UNCHANGED <<resident, fresh, key, lastUsed, tick, used, allocMu, pass, closed, writer, reader, reads>>

-----------------------------------------------------------------------------
(* ReadAt and the reader that retries it *)

SetR(r, rec) == reader' = [reader EXCEPT ![r] = rec]

\* A reader asks for a chunk and waits until the client takes its piece for complete.
StartRead(r, p, c) ==
  /\ reader[r].pc = "idle" /\ Open(p) /\ reads < MaxReads
  /\ SetR(r, [IdleReader EXCEPT !.pc = "blocked", !.piece = p, !.chunk = c])
  /\ reads' = reads + 1
  /\ UNCHANGED <<store, client, hook, writer>>

\* The client says the piece is there (or the torrent is gone): the read goes ahead without its lock.
Available(r) ==
  /\ reader[r].pc = "blocked"
  /\ \/ reader[r].piece \in have /\ SetR(r, [reader[r] EXCEPT !.pc = "try"])
     \/ ~Open(reader[r].piece) /\ SetR(r, IdleReader)
  /\ UNCHANGED <<store, client, hook, writer, reads>>

\* The reader's request is cancelled while it waits for the piece.
CancelRead(r) ==
  /\ MayCancel /\ reader[r].pc = "blocked"
  /\ SetR(r, IdleReader)
  /\ UNCHANGED <<store, client, hook, writer, reads>>

\* ReadAt: the resident bytes are copied, or the piece is evicted.
ReadAt(r) ==
  LET p == reader[r].piece IN
  /\ reader[r].pc = "try"
  /\ IF p \in resident
     THEN SetR(r, [reader[r] EXCEPT !.pc = "stamp", !.good = reader[r].chunk \in fresh[p]])
     ELSE SetR(r, [reader[r] EXCEPT !.pc = "refetch"])
  /\ UNCHANGED <<store, client, hook, writer, reads>>

\* stamp: nothing to do for the newest piece, else the next tick ...
Stamp(r) ==
  LET p == reader[r].piece IN
  /\ reader[r].pc = "stamp"
  /\ IF lastUsed[p] = tick
     THEN SetR(r, IdleReader) /\ UNCHANGED tick
     ELSE SetR(r, [reader[r] EXCEPT !.pc = "store", !.stamp = tick + 1]) /\ tick' = tick + 1
  /\ UNCHANGED <<resident, fresh, complete, lru, key, lastUsed, used, allocMu, pass, client, hook, writer, reads>>

\* ... stored in the piece.
StoreStamp(r) ==
  /\ reader[r].pc = "store"
  /\ lastUsed' = [lastUsed EXCEPT ![reader[r].piece] = reader[r].stamp]
  /\ SetR(r, IdleReader)
  /\ UNCHANGED <<resident, fresh, complete, lru, key, tick, used, allocMu, pass, client, hook, writer, reads>>

\* Mutant: every evicted read starts a verify of its own.
RefetchAlways(r) ==
  LET p == reader[r].piece IN
  /\ reader[r].pc = "refetch"
  /\ \/ /\ ~Open(p)
        /\ SetR(r, [reader[r] EXCEPT !.pc = "wait"]) /\ UNCHANGED hook
     \/ /\ Open(p)
        /\ \E v \in Verifiers :
             /\ verifier[v] = IdleVerifier
             /\ verifier' = [verifier EXCEPT ![v] = [st |-> "start", piece |-> p]]
             /\ refetching' = [refetching EXCEPT ![p] = v]
             /\ SetR(r, [reader[r] EXCEPT !.pc = "wait", !.on = v])
  /\ UNCHANGED <<store, client, writer, reads>>

\* refetchPiece: no engine, a verify to join, or a goroutine to start.
Refetch(r) ==
  LET p == reader[r].piece IN
  /\ reader[r].pc = "refetch"
  /\ \/ /\ ~Open(p)
        /\ SetR(r, [reader[r] EXCEPT !.pc = "wait"]) /\ UNCHANGED hook
     \/ /\ Open(p) /\ refetching[p] # Nil
        /\ SetR(r, [reader[r] EXCEPT !.pc = "wait", !.on = refetching[p]]) /\ UNCHANGED hook
     \/ /\ Open(p) /\ refetching[p] = Nil
        /\ \E v \in Verifiers :
             /\ verifier[v] = IdleVerifier
             /\ verifier' = [verifier EXCEPT ![v] = [st |-> "start", piece |-> p]]
             /\ refetching' = [refetching EXCEPT ![p] = v]
             /\ SetR(r, [reader[r] EXCEPT !.pc = "wait", !.on = v])
  /\ UNCHANGED <<store, client, writer, reads>>

\* waitRefetch ends with the channel or the backoff; the client retries the read.
WaitRefetch(r) ==
  /\ reader[r].pc = "wait"
  /\ SetR(r, [reader[r] EXCEPT !.pc = "blocked", !.on = Nil])
  /\ UNCHANGED <<store, client, hook, writer, reads>>

\* The goroutine of refetchPiece looks at the engine map and calls VerifyData.
StartVerify(v) ==
  /\ verifier[v].st = "start"
  /\ verifier' = [verifier EXCEPT ![v].st = IF Open(verifier[v].piece) THEN "verify" ELSE "verified"]
  /\ UNCHANGED <<store, client, refetching, writer, reader, reads>>

\* VerifyData returns at once when the torrent is dropped.
VerifyDropped(v) ==
  /\ verifier[v].st = "verify" /\ ~Open(verifier[v].piece) /\ hash[verifier[v].piece] = "idle"
  /\ verifier' = [verifier EXCEPT ![v].st = "verified"]
  /\ UNCHANGED <<store, client, refetching, writer, reader, reads>>

\* Mutant: the dedupe entry is never deleted.
DeleteEntryNever(v) ==
  /\ verifier[v].st = "verified"
  /\ verifier' = [verifier EXCEPT ![v].st = "deleted"]
  /\ UNCHANGED <<store, client, refetching, writer, reader, reads>>

\* Its deferred calls: the dedupe entry goes first, ...
DeleteEntry(v) ==
  /\ verifier[v].st = "verified"
  /\ refetching' = [refetching EXCEPT ![verifier[v].piece] = Nil]
  /\ verifier' = [verifier EXCEPT ![v].st = "deleted"]
  /\ UNCHANGED <<store, client, writer, reader, reads>>

\* ... then the waiting reads wake.
CloseDone(v) ==
  /\ verifier[v].st = "deleted"
  /\ verifier' = [verifier EXCEPT ![v] = IdleVerifier]
  /\ reader' = [r \in Readers |-> IF reader[r].on = v /\ reader[r].pc = "wait"
                                  THEN [reader[r] EXCEPT !.pc = "blocked", !.on = Nil] ELSE reader[r]]
  /\ UNCHANGED <<store, client, refetching, writer, reads>>

-----------------------------------------------------------------------------
\* The bytes of a set of pieces; used counts them.
Bytes(S) == UNION {{p} \X (1 .. PieceLen[p]) : p \in S}

\* Mutant: every piece of the torrent is given back, resident or not.
CloseTorrentAll(t) ==
  LET gone == {p \in Pieces : TorrentOf[p] = t} IN
  /\ MayClose /\ t \notin closed /\ pass = Nil
  /\ resident' = resident \ gone /\ complete' = complete \ gone /\ lru' = lru \ gone
  /\ used' = used - Cardinality(Bytes(gone))
  /\ closed' = closed \cup {t}
  /\ have' = have \ gone
  /\ UNCHANGED <<fresh, key, lastUsed, tick, allocMu, pass, dirty, hash, hashed, hook, writer, reader, reads>>

\* memTorrent.close: the client drops a torrent and with it every resident piece.
CloseTorrent(t) ==
  LET gone == {p \in Pieces : TorrentOf[p] = t} IN
  /\ MayClose /\ t \notin closed /\ pass = Nil
  /\ resident' = resident \ gone /\ complete' = complete \ gone /\ lru' = lru \ gone
  /\ used' = used - Cardinality(Bytes(gone \cap resident))
  /\ closed' = closed \cup {t}
  /\ have' = have \ gone
  /\ UNCHANGED <<fresh, key, lastUsed, tick, allocMu, pass, dirty, hash, hashed, hook, writer, reader, reads>>

Next ==
  \/ \E w \in Writers :
       \/ \E p \in Pieces, c \in Chunks : StartWrite(w, p, c)
       \/ Write(w) \/ Alloc(w) \/ Reserve(w) \/ Install(w) \/ EvictReserved(w)
  \/ \E p \in Pieces : \/ EvictRekey(p) \/ EvictPop(p) \/ HashStart(p) \/ HashRead(p)
                       \/ MarkComplete(p) \/ MarkNotComplete(p)
  \/ EvictMarked
  \/ \E r \in Readers :
       \/ \E p \in Pieces, c \in Chunks : StartRead(r, p, c)
       \/ CancelRead(r) \/ Available(r) \/ ReadAt(r) \/ Stamp(r) \/ StoreStamp(r) \/ Refetch(r) \/ WaitRefetch(r)
  \/ \E v \in Verifiers : StartVerify(v) \/ VerifyDropped(v) \/ DeleteEntry(v) \/ CloseDone(v)
  \/ \E t \in Torrents : CloseTorrent(t)

Spec == Init /\ [][Next]_vars

\* The goroutines keep running, timers expire, and peers deliver what is asked for.
Fairness ==
  /\ \A w \in Writers : /\ WF_vars(\E p \in Pieces, c \in Chunks : StartWrite(w, p, c))
                        /\ WF_vars(Write(w) \/ Alloc(w) \/ Reserve(w) \/ Install(w) \/ EvictReserved(w))
  /\ \A p \in Pieces : /\ WF_vars(EvictRekey(p) \/ EvictPop(p)) /\ WF_vars(HashStart(p) \/ HashRead(p))
                       /\ WF_vars(MarkComplete(p) \/ MarkNotComplete(p))
  /\ WF_vars(EvictMarked)
  /\ \A r \in Readers : WF_vars(Available(r) \/ ReadAt(r) \/ Stamp(r) \/ StoreStamp(r) \/ Refetch(r) \/ WaitRefetch(r))
  /\ \A v \in Verifiers : WF_vars(StartVerify(v) \/ VerifyDropped(v) \/ DeleteEntry(v) \/ CloseDone(v))

FairSpec == Spec /\ Fairness

-----------------------------------------------------------------------------
(* Properties *)

WriterPCs == {"idle", "write", "alloc", "reserve", "pass", "install"}
ReaderPCs == {"idle", "blocked", "try", "stamp", "store", "refetch", "wait"}
WriterType   == [pc : WriterPCs, piece : Pieces \cup {Nil}, chunk : Chunks \cup {Nil}]
ReaderType   == [pc : ReaderPCs, piece : Pieces \cup {Nil}, chunk : Chunks \cup {Nil},
                 stamp : Nat, on : Verifiers \cup {Nil}, good : BOOLEAN]
VerifierType == [st : {"idle", "start", "verify", "verified", "deleted"}, piece : Pieces \cup {Nil}]

\* Every variable has its type; in particular the budget never goes negative.
TypeOK ==
  /\ resident \subseteq Pieces /\ complete \subseteq Pieces /\ lru \subseteq Pieces
  /\ fresh \in [Pieces -> SUBSET Chunks] /\ dirty \in [Pieces -> SUBSET Chunks]
  /\ key \in [Pieces -> Nat] /\ lastUsed \in [Pieces -> Nat] /\ tick \in Nat /\ used \in Nat
  /\ allocMu \in [Pieces -> Writers \cup {Nil}]
  /\ pass = Nil \/ pass \in PassType
  /\ have \subseteq Pieces /\ closed \subseteq Torrents
  /\ hash \in [Pieces -> {"idle", "read", "pass", "fail"}] /\ hashed \in [Pieces -> SUBSET Chunks]
  /\ refetching \in [Pieces -> Verifiers \cup {Nil}]
  /\ verifier \in [Verifiers -> VerifierType] /\ writer \in [Writers -> WriterType]
  /\ reader \in [Readers -> ReaderType]
  /\ reads \in Nat

\* Bytes reserved for a piece whose buffer is not installed yet.
Reserved == {writer[w].piece : w \in {x \in Writers : writer[x].pc = "install"}}

\* The budget counts every resident or reserved piece exactly once, whatever
\* first writes, evictions, completions and torrent closes overlap.
UsedExact ==
  /\ Reserved \cap resident = {}
  /\ used = Cardinality(Bytes(resident \cup Reserved))

\* The heap holds exactly the complete pieces, and a complete piece holds all
\* of its own bytes: no chunk of it is left over from the pool.
CompleteIsWhole ==
  lru = complete /\ \A p \in complete : p \in resident /\ fresh[p] = Chunks

\* The store exceeds its budget only by pieces still being downloaded: at most
\* the piece that completed last is left to evict.
OverageInFlight ==
  pass = Nil /\ used > Capacity => \A p, q \in lru : p = q

\* "Each (infohash, piece) verify runs at most once concurrently" (refetchPiece).
OneVerify ==
  \A u, v \in Verifiers :
    verifier[u].st \in {"start", "verify", "verified"} /\ verifier[v].st \in {"start", "verify", "verified"}
      /\ verifier[u].piece = verifier[v].piece => u = v

\* The store's books are right between any two steps: what is used, what is over the
\* budget and what is being verified (reserve, evict, refetchPiece).
BooksExact == TypeOK /\ UsedExact /\ OverageInFlight /\ OneVerify

\* A read of a piece ends, however often the piece was evicted before it: the
\* refetch hook gets it downloaded again.
ReadServed == \A r \in Readers : []<>(reader[r].pc = "idle")

\* "we never serve wrong or stale bytes"
NoStaleBytes == \A r \in Readers : reader[r].good

=============================================================================
