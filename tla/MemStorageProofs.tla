------------------------- MODULE MemStorageProofs -------------------------
(***************************************************************************)
(* Proofs about the in-RAM piece store (MemStorage): the budget is exact   *)
(* and kept, a complete piece holds all of its bytes, and a piece is       *)
(* verified once at a time.                                                *)
(*                                                                         *)
(* None of these is inductive. The budget needs that a writer on its way   *)
(* to a new buffer holds allocMu of a piece without one, and what an       *)
(* eviction pass was started for. That a complete piece is whole needs     *)
(* that nobody writes to a piece while it is hashed, so that the chunks    *)
(* hashed so far are still the ones in the buffer. One verify at a time    *)
(* needs that each goroutine at work is the one in the dedupe map.         *)
(***************************************************************************)
EXTENDS MemStorage, FiniteSetTheorems, FunctionTheorems, TLAPS

\* A writer has a chunk to write; on its way to a new buffer it holds allocMu, and
\* nobody installs a buffer under it.
AllocOwn ==
  \A w \in Writers :
    /\ writer[w].pc # "idle" => writer[w].piece \in Pieces /\ writer[w].chunk \in Chunks
    /\ writer[w].pc \in {"reserve", "pass", "install"} =>
         allocMu[writer[w].piece] = w /\ writer[w].piece \notin resident

\* An eviction pass makes room for a writer that waits for it, or follows the
\* completion of a piece.
PassFor ==
  pass # Nil =>
    \/ /\ pass.keep = Nil /\ pass.by \in Writers /\ writer[pass.by].pc = "pass"
       /\ pass.need = PieceLen[writer[pass.by].piece]
    \/ pass.keep \in Pieces /\ pass.need = 0 /\ pass.by = Nil

\* Nobody writes to a piece that is being hashed.
HashAlone == \A p \in Pieces : hash[p] # "idle" => \A w \in Writers : writer[w].piece # p

\* What has been hashed so far is in the buffer.
HashSound ==
  \A p \in Pieces : /\ hash[p] = "idle" => hashed[p] = {}
                    /\ hash[p] = "read" => hashed[p] \subseteq fresh[p]
                    /\ hash[p] = "pass" => fresh[p] = Chunks

\* A goroutine of refetchPiece is in the dedupe map until it deletes its entry.
RefetchOwn ==
  \A v \in Verifiers : verifier[v].st \in {"start", "verify", "verified"} =>
    verifier[v].piece \in Pieces /\ refetching[verifier[v].piece] = v

\* A reader at work has a piece.
ReaderKnown == \A r \in Readers : reader[r].pc # "idle" => reader[r].piece \in Pieces

\* The inductive invariant.
MInv ==
  /\ TypeOK /\ AllocOwn /\ PassFor /\ HashAlone /\ HashSound /\ RefetchOwn /\ ReaderKnown
  /\ UsedExact /\ CompleteIsWhole /\ OverageInFlight

-----------------------------------------------------------------------------
(* Counting bytes *)

\* The bytes of one piece.
LEMMA BytesOne ==
  ASSUME NEW p \in Pieces
  PROVE  IsFiniteSet({p} \X (1 .. PieceLen[p])) /\ Cardinality({p} \X (1 .. PieceLen[p])) = PieceLen[p]
<1>1. PieceLen[p] \in Nat /\ PieceLen[p] > 0
  BY MemStorageAssumption
<1>2. IsFiniteSet({p}) /\ Cardinality({p}) = 1
  BY FS_Singleton
<1>3. IsFiniteSet(1 .. PieceLen[p]) /\ Cardinality(1 .. PieceLen[p]) = PieceLen[p]
  <2> PICK n \in Nat : n = PieceLen[p] /\ n > 0 BY <1>1
  <2>1. 1 \in Int /\ n \in Int OBVIOUS
  <2>2. IsFiniteSet(1 .. n) /\ Cardinality(1 .. n) = IF 1 > n THEN 0 ELSE n - 1 + 1
    BY ONLY <2>1, FS_Interval
  <2> QED BY <2>2
<1>4. /\ IsFiniteSet({p} \X (1 .. PieceLen[p]))
      /\ Cardinality({p} \X (1 .. PieceLen[p])) = 1 * PieceLen[p]
  BY <1>2, <1>3, FS_Product
<1> QED BY <1>1, <1>4

\* The bytes of a finite set of pieces are finite in number.
LEMMA BytesFinite == ASSUME NEW S, S \subseteq Pieces PROVE IsFiniteSet(Bytes(S))
<1> DEFINE f == [p \in S |-> {p} \X (1 .. PieceLen[p])]
           T == {{p} \X (1 .. PieceLen[p]) : p \in S}
<1>1. IsFiniteSet(S)
  BY MemStorageAssumption, FS_Subset
<1>2. f \in Surjection(S, T)
  BY DEF Surjection
<1>3. IsFiniteSet(T)
  BY ONLY <1>1, <1>2, FS_Surjection
<1>4. \A p \in S : IsFiniteSet({p} \X (1 .. PieceLen[p]))
  BY BytesOne
<1>5. \A U \in T : IsFiniteSet(U)
  BY <1>4
<1>6. IsFiniteSet(UNION T)
  BY ONLY <1>3, <1>5, FS_UNION
<1> QED BY <1>6 DEF Bytes

\* A piece more is its length more.
LEMMA BytesAdd ==
  ASSUME NEW S, S \subseteq Pieces, NEW p \in Pieces, p \notin S
  PROVE  Cardinality(Bytes(S \cup {p})) = Cardinality(Bytes(S)) + PieceLen[p]
<1> PICK A : A = Bytes(S) OBVIOUS
<1> PICK B : B = {p} \X (1 .. PieceLen[p]) OBVIOUS
<1>1. IsFiniteSet(A) BY BytesFinite
<1>2. IsFiniteSet(B) /\ Cardinality(B) = PieceLen[p] BY BytesOne
<1>3. A \cap B = {} BY DEF Bytes
<1>4. Bytes(S \cup {p}) = A \cup B BY DEF Bytes
<1>5. Cardinality(A \cup B) = Cardinality(A) + Cardinality(B) - Cardinality(A \cap B)
  BY ONLY <1>1, <1>2, FS_Union
<1>6. Cardinality(A) \in Nat /\ Cardinality(B) \in Nat
  BY ONLY <1>1, <1>2, FS_CardinalityType
<1>7. Cardinality(A \cap B) = 0 BY ONLY <1>3, FS_EmptySet
<1>8. Cardinality(A \cup B) = Cardinality(A) + Cardinality(B) BY ONLY <1>5, <1>6, <1>7
<1> QED BY <1>2, <1>4, <1>8

\* A part of the pieces less is its bytes less.
LEMMA BytesRemove ==
  ASSUME NEW S, S \subseteq Pieces, NEW R, R \subseteq S
  PROVE  /\ Cardinality(Bytes(S)) \in Nat /\ Cardinality(Bytes(R)) \in Nat
         /\ Cardinality(Bytes(S \ R)) \in Nat
         /\ Cardinality(Bytes(S \ R)) = Cardinality(Bytes(S)) - Cardinality(Bytes(R))
<1> PICK A : A = Bytes(S) OBVIOUS
<1> PICK B : B = Bytes(R) OBVIOUS
<1>1. IsFiniteSet(A) /\ IsFiniteSet(B) /\ IsFiniteSet(Bytes(S \ R)) BY BytesFinite
<1>2. A \cap B = B BY DEF Bytes
<1>3. Bytes(S \ R) = A \ B BY DEF Bytes
<1>4. Cardinality(A \ B) = Cardinality(A) - Cardinality(A \cap B)
  BY ONLY <1>1, FS_Difference
<1>5. Cardinality(A) \in Nat /\ Cardinality(B) \in Nat /\ Cardinality(Bytes(S \ R)) \in Nat
  BY ONLY <1>1, FS_CardinalityType
<1> QED BY <1>2, <1>3, <1>4, <1>5

-----------------------------------------------------------------------------
(* Steps *)

\* A writer goes to another step.
LEMMA WriterGoes ==
  ASSUME TypeOK, NEW w \in Writers, NEW l \in WriterPCs, GotoW(w, l)
  PROVE  /\ writer' \in [Writers -> WriterType]
         /\ writer'[w].pc = l /\ writer'[w].piece = writer[w].piece /\ writer'[w].chunk = writer[w].chunk
         /\ \A x \in Writers : x # w => writer'[x] = writer[x]
<1> DEFINE rec == [writer[w] EXCEPT !.pc = l]
<1>1. writer[w] \in WriterType BY DEF TypeOK
<1>2. rec \in WriterType /\ rec.pc = l /\ rec.piece = writer[w].piece /\ rec.chunk = writer[w].chunk
  BY <1>1 DEF WriterType
<1>3. writer' = [writer EXCEPT ![w] = rec] BY DEF GotoW
<1> HIDE DEF rec
<1> QED BY <1>2, <1>3 DEF TypeOK

\* A writer is done with its chunk.
LEMMA WriterDone ==
  ASSUME TypeOK, NEW w \in Writers, writer[w].piece \in Pieces, writer[w].chunk \in Chunks, CopyChunk(w)
  PROVE  /\ writer' \in [Writers -> WriterType] /\ dirty' \in [Pieces -> SUBSET Chunks]
         /\ writer'[w].pc = "idle" /\ writer'[w].piece = Nil
         /\ \A x \in Writers : x # w => writer'[x] = writer[x]
<1>1. IdleWriter \in WriterType /\ IdleWriter.pc = "idle" /\ IdleWriter.piece = Nil
  BY DEF IdleWriter, WriterType, WriterPCs
<1> QED BY <1>1 DEF TypeOK, CopyChunk

\* A goroutine of refetchPiece goes to another step.
LEMMA VerifierGoes ==
  ASSUME TypeOK, NEW v \in Verifiers, NEW l \in {"start", "verify", "verified", "deleted"},
         verifier' = [verifier EXCEPT ![v].st = l]
  PROVE  /\ verifier' \in [Verifiers -> VerifierType]
         /\ verifier'[v].st = l /\ verifier'[v].piece = verifier[v].piece
         /\ \A x \in Verifiers : x # v => verifier'[x] = verifier[x]
<1> DEFINE rec == [verifier[v] EXCEPT !.st = l]
<1>1. verifier[v] \in VerifierType BY DEF TypeOK
<1>2. rec \in VerifierType /\ rec.st = l /\ rec.piece = verifier[v].piece
  BY <1>1 DEF VerifierType
<1>3. verifier' = [verifier EXCEPT ![v] = rec] OBVIOUS
<1> HIDE DEF rec
<1> QED BY <1>2, <1>3 DEF TypeOK

\* A reader goes to another step.
LEMMA ReaderGoes ==
  ASSUME TypeOK, NEW r \in Readers, NEW rec \in ReaderType, SetR(r, rec)
  PROVE  /\ reader' \in [Readers -> ReaderType] /\ reader'[r] = rec
         /\ \A x \in Readers : x # r => reader'[x] = reader[x]
BY DEF TypeOK, SetR

\* Readers at rest have their type.
LEMMA ReaderRests == IdleReader \in ReaderType /\ IdleReader.pc = "idle"
BY DEF IdleReader, ReaderType, ReaderPCs

\* The first state has the invariant.
LEMMA MInvInit == Init => MInv
<1> SUFFICES ASSUME Init PROVE MInv
  OBVIOUS
<1> USE MemStorageAssumption
<1>1. TypeOK
  BY DEF Init, TypeOK, IdleWriter, IdleReader, IdleVerifier, WriterPCs, ReaderPCs,
         WriterType, ReaderType, VerifierType
<1>2. AllocOwn /\ PassFor /\ HashAlone /\ HashSound /\ RefetchOwn /\ ReaderKnown
  BY DEF Init, AllocOwn, PassFor, HashAlone, HashSound, RefetchOwn, ReaderKnown, IdleWriter, IdleReader,
         IdleVerifier
<1>3. UsedExact
  <2>1. Reserved = {} BY DEF Reserved, Init, IdleWriter
  <2>2. Bytes({}) = {} BY DEF Bytes
  <2> QED BY <2>1, <2>2, FS_EmptySet DEF UsedExact, Init
<1>4. CompleteIsWhole /\ OverageInFlight
  BY DEF Init, CompleteIsWhole, OverageInFlight
<1> QED BY <1>1, <1>2, <1>3, <1>4 DEF MInv


\* Step: a chunk arrives.
LEMMA StartWriteKeeps ==
  ASSUME MInv, NEW w \in Writers, NEW p \in Pieces, NEW c \in Chunks, StartWrite(w, p, c)  PROVE MInv'
<1> USE MemStorageAssumption
<1>1. HashSound' /\ RefetchOwn' /\ ReaderKnown' /\ CompleteIsWhole' /\ OverageInFlight'
  BY DEF MInv, HashSound, RefetchOwn, ReaderKnown, CompleteIsWhole, OverageInFlight, StartWrite, store,
         client, hook
<1>2. TypeOK'
  <2>1. [pc |-> "write", piece |-> p, chunk |-> c] \in WriterType
    BY DEF WriterType, WriterPCs
  <2> QED BY <2>1 DEF MInv, TypeOK, StartWrite, store, client, hook
<1>3. AllocOwn'
  BY DEF MInv, AllocOwn, TypeOK, StartWrite, Open, store, client, hook
<1>4. PassFor'
  BY DEF MInv, PassFor, TypeOK, AllocOwn, StartWrite, Open, store, client, hook
<1>5. HashAlone'
  BY DEF MInv, HashAlone, TypeOK, StartWrite, Open, store, client, hook
<1>6. UsedExact'
  <2>1. Reserved' = Reserved
    BY DEF MInv, TypeOK, Reserved, StartWrite
  <2> QED BY <2>1 DEF MInv, UsedExact, StartWrite, store
<1> QED BY <1>1, <1>2, <1>3, <1>4, <1>5, <1>6 DEF MInv

\* A chunk is copied into a buffer that is there.
LEMMA ChunkWritten ==
  ASSUME MInv, NEW w \in Writers, writer[w].pc \in {"write", "alloc"}, writer[w].piece \in resident, CopyChunk(w),
         fresh' = [fresh EXCEPT ![writer[w].piece] = @ \cup {writer[w].chunk}],
         UNCHANGED <<resident, complete, lru, key, lastUsed, tick, used, allocMu, pass,
                     have, closed, hash, hashed, hook, reader, reads>>
  PROVE  MInv'
<1> USE MemStorageAssumption
<1>1. writer[w].piece \in Pieces /\ writer[w].chunk \in Chunks
  BY DEF MInv, AllocOwn
<1>2. /\ writer' \in [Writers -> WriterType] /\ dirty' \in [Pieces -> SUBSET Chunks]
      /\ writer'[w].pc = "idle" /\ writer'[w].piece = Nil
      /\ \A x \in Writers : x # w => writer'[x] = writer[x]
  BY <1>1, WriterDone DEF MInv
<1>3. /\ fresh' \in [Pieces -> SUBSET Chunks]
      /\ \A p \in Pieces : fresh[p] \subseteq fresh'[p] /\ (p # writer[w].piece => fresh'[p] = fresh[p])
  BY <1>1 DEF MInv, TypeOK
<1>4. TypeOK'
  BY <1>2, <1>3 DEF MInv, TypeOK, hook
<1>5. AllocOwn' /\ HashAlone'
  BY <1>2 DEF MInv, AllocOwn, HashAlone
<1>6. PassFor'
  BY <1>2 DEF MInv, PassFor
<1>7. HashSound' /\ CompleteIsWhole'
  BY <1>3 DEF MInv, TypeOK, HashSound, CompleteIsWhole
<1>8. UsedExact'
  <2>1. Reserved' = Reserved BY <1>2 DEF Reserved
  <2> QED BY <2>1 DEF MInv, UsedExact
<1>9. RefetchOwn' /\ ReaderKnown' /\ OverageInFlight'
  BY DEF MInv, RefetchOwn, ReaderKnown, OverageInFlight, hook
<1> QED BY <1>4, <1>5, <1>6, <1>7, <1>8, <1>9 DEF MInv

\* Step: lockResident.
LEMMA WriteKeeps == ASSUME MInv, NEW w \in Writers, Write(w) PROVE MInv'
<1> USE MemStorageAssumption
<1>1. CASE writer[w].piece \in resident
  BY <1>1, ChunkWritten DEF Write
<1>2. CASE writer[w].piece \notin resident
  <2>1. GotoW(w, "alloc") /\ UNCHANGED <<dirty, fresh>> /\ writer[w].pc = "write" /\ "alloc" \in WriterPCs
    BY <1>2 DEF Write, WriterPCs
  <2>2. /\ writer' \in [Writers -> WriterType]
        /\ writer'[w].pc = "alloc" /\ writer'[w].piece = writer[w].piece /\ writer'[w].chunk = writer[w].chunk
        /\ \A x \in Writers : x # w => writer'[x] = writer[x]
    BY <2>1, WriterGoes DEF MInv
  <2>3. TypeOK'
    BY <2>1, <2>2 DEF MInv, TypeOK, Write, hook
  <2>4. AllocOwn' /\ HashAlone'
    BY <2>1, <2>2 DEF MInv, AllocOwn, HashAlone, Write
  <2>5. PassFor'
    BY <2>1, <2>2 DEF MInv, PassFor, Write
  <2>6. UsedExact'
    <3>1. Reserved' = Reserved BY <2>1, <2>2 DEF Reserved
    <3> QED BY <3>1 DEF MInv, UsedExact, Write
  <2>7. HashSound' /\ RefetchOwn' /\ ReaderKnown' /\ CompleteIsWhole' /\ OverageInFlight'
    BY <2>1 DEF MInv, HashSound, RefetchOwn, ReaderKnown, CompleteIsWhole, OverageInFlight, Write, hook
  <2> QED BY <2>3, <2>4, <2>5, <2>6, <2>7 DEF MInv
<1> QED BY <1>1, <1>2

\* Step: allocMu is taken.
LEMMA AllocKeeps == ASSUME MInv, NEW w \in Writers, Alloc(w) PROVE MInv'
<1> USE MemStorageAssumption
<1>1. CASE writer[w].piece \in resident
  BY <1>1, ChunkWritten DEF Alloc
<1>2. CASE writer[w].piece \notin resident
  <2> PICK p : p = writer[w].piece
    OBVIOUS
  <2>1. /\ GotoW(w, "reserve") /\ UNCHANGED <<dirty, fresh>> /\ writer[w].pc = "alloc" /\ "reserve" \in WriterPCs
        /\ p \in Pieces /\ p \notin resident /\ allocMu[p] = Nil /\ allocMu' = [allocMu EXCEPT ![p] = w]
    BY <1>2 DEF MInv, AllocOwn, Alloc, WriterPCs
  <2>2. /\ writer' \in [Writers -> WriterType]
        /\ writer'[w].pc = "reserve" /\ writer'[w].piece = writer[w].piece /\ writer'[w].chunk = writer[w].chunk
        /\ \A x \in Writers : x # w => writer'[x] = writer[x]
    BY <2>1, WriterGoes DEF MInv
  <2>3. TypeOK'
    BY <2>1, <2>2 DEF MInv, TypeOK, Alloc, hook
  <2>4. AllocOwn'
    BY <2>1, <2>2 DEF MInv, TypeOK, AllocOwn, Alloc
  <2>5. PassFor' /\ HashAlone'
    BY <2>1, <2>2 DEF MInv, PassFor, HashAlone, Alloc
  <2>6. UsedExact'
    <3>1. Reserved' = Reserved BY <2>1, <2>2 DEF Reserved
    <3> QED BY <3>1 DEF MInv, UsedExact, Alloc
  <2>7. HashSound' /\ RefetchOwn' /\ ReaderKnown' /\ CompleteIsWhole' /\ OverageInFlight'
    BY <2>1 DEF MInv, HashSound, RefetchOwn, ReaderKnown, CompleteIsWhole, OverageInFlight, Alloc, hook
  <2> QED BY <2>3, <2>4, <2>5, <2>6, <2>7 DEF MInv
<1> QED BY <1>1, <1>2

\* Step: reserve takes the lock.
LEMMA ReserveKeeps == ASSUME MInv, NEW w \in Writers, Reserve(w) PROVE MInv'
<1> USE MemStorageAssumption
<1>1. /\ GotoW(w, "pass") /\ "pass" \in WriterPCs /\ writer[w].pc = "reserve" /\ pass = Nil
      /\ writer[w].piece \in Pieces
  BY DEF MInv, AllocOwn, Reserve, WriterPCs
<1>2. /\ writer' \in [Writers -> WriterType]
      /\ writer'[w].pc = "pass" /\ writer'[w].piece = writer[w].piece /\ writer'[w].chunk = writer[w].chunk
      /\ \A x \in Writers : x # w => writer'[x] = writer[x]
  BY <1>1, WriterGoes DEF MInv
<1>3. /\ pass' \in PassType /\ pass' # Nil /\ pass'.keep = Nil /\ pass'.by = w
      /\ pass'.need = PieceLen[writer[w].piece]
  <2> PICK n : n = PieceLen[writer[w].piece]
    OBVIOUS
  <2>1. n \in Nat BY <1>1
  <2>2. pass' = [need |-> n, keep |-> Nil, by |-> w] BY DEF Reserve
  <2>3. pass' \in PassType BY <2>1, <2>2 DEF PassType
  <2> QED BY <2>2, <2>3
<1>4. TypeOK'
  BY <1>2, <1>3 DEF MInv, TypeOK, Reserve, client, hook
<1>5. AllocOwn' /\ HashAlone'
  BY <1>1, <1>2 DEF MInv, AllocOwn, HashAlone, Reserve, client
<1>6. PassFor' /\ OverageInFlight'
  BY <1>2, <1>3 DEF PassFor, OverageInFlight
<1>7. UsedExact'
  <2>1. Reserved' = Reserved BY <1>1, <1>2 DEF Reserved
  <2> QED BY <2>1 DEF MInv, UsedExact, Reserve
<1>8. HashSound' /\ RefetchOwn' /\ ReaderKnown' /\ CompleteIsWhole'
  BY DEF MInv, HashSound, RefetchOwn, ReaderKnown, CompleteIsWhole, Reserve, client, hook
<1> QED BY <1>4, <1>5, <1>6, <1>7, <1>8 DEF MInv

\* Step: the buffer is installed.
LEMMA InstallKeeps ==
  ASSUME MInv, NEW w \in Writers, Install(w)  PROVE MInv'
<1> USE MemStorageAssumption
<1>1. RefetchOwn' /\ ReaderKnown' /\ OverageInFlight'
  BY DEF MInv, RefetchOwn, ReaderKnown, OverageInFlight, Install, hook
<1>2. TypeOK'
  <2>1. writer[w].piece \in Pieces /\ writer[w].chunk \in Chunks
    BY DEF MInv, AllocOwn, Install
  <2>2. writer' \in [Writers -> WriterType] /\ dirty' \in [Pieces -> SUBSET Chunks]
    BY <2>1, WriterDone DEF MInv, Install
  <2> QED BY <2>1, <2>2 DEF MInv, TypeOK, Install, hook
<1>3. AllocOwn'
  BY DEF MInv, AllocOwn, TypeOK, Install, IdleWriter, CopyChunk, hook
<1>4. PassFor'
  BY DEF MInv, PassFor, TypeOK, AllocOwn, Install, IdleWriter, CopyChunk, hook
<1>5. HashAlone'
  BY DEF MInv, HashAlone, TypeOK, Install, IdleWriter, CopyChunk, hook
<1>6. HashSound'
  BY DEF MInv, HashSound, TypeOK, HashAlone, AllocOwn, Install, IdleWriter, CopyChunk, hook
<1>7. UsedExact'
  <2> PICK p : p = writer[w].piece
    OBVIOUS
  <2>1. p \in Reserved /\ p \notin resident
    BY DEF MInv, AllocOwn, Reserved, Install
  <2>2. \A x \in Writers : x # w /\ writer[x].pc = "install" => writer[x].piece # p
    BY DEF MInv, AllocOwn, Install
  <2>3. Reserved' = Reserved \ {p}
    BY <2>2 DEF MInv, TypeOK, Reserved, Install, CopyChunk, IdleWriter
  <2>4. resident' \cup Reserved' = resident \cup Reserved /\ Reserved' \cap resident' = {}
    BY <2>1, <2>3 DEF MInv, UsedExact, Install
  <2> QED BY <2>4 DEF MInv, UsedExact, Install
<1>8. CompleteIsWhole'
  BY DEF MInv, CompleteIsWhole, TypeOK, AllocOwn, HashSound, Install, IdleWriter, CopyChunk, hook
<1> QED BY <1>1, <1>2, <1>3, <1>4, <1>5, <1>6, <1>7, <1>8 DEF MInv

\* Step: an old key is brought up to date.
LEMMA EvictRekeyKeeps ==
  ASSUME MInv, NEW p \in Pieces, EvictRekey(p)  PROVE MInv'
<1> USE MemStorageAssumption
<1>1. /\ AllocOwn' /\ PassFor' /\ HashAlone' /\ HashSound' /\ RefetchOwn' /\ ReaderKnown' /\ UsedExact'
      /\ CompleteIsWhole' /\ OverageInFlight'
  BY DEF MInv, AllocOwn, PassFor, HashAlone, HashSound, RefetchOwn, ReaderKnown, UsedExact,
         CompleteIsWhole, OverageInFlight, Reserved, EvictRekey, client, hook
<1>2. TypeOK'
  BY DEF MInv, TypeOK, EvictRekey, Candidates, Over, Tops, client, hook
<1> QED BY <1>1, <1>2 DEF MInv

\* Step: a piece is freed.
LEMMA EvictPopKeeps ==
  ASSUME MInv, NEW p \in Pieces, EvictPop(p)  PROVE MInv'
<1> USE MemStorageAssumption
<1>1. PassFor' /\ HashAlone' /\ HashSound' /\ RefetchOwn' /\ ReaderKnown'
  BY DEF MInv, PassFor, HashAlone, HashSound, RefetchOwn, ReaderKnown, EvictPop, client, hook
<1>2. TypeOK'
  <2>1. used' \in Nat
    <3>1. p \in resident /\ resident \subseteq Pieces
      BY DEF MInv, TypeOK, CompleteIsWhole, EvictPop, Tops, Candidates
    <3>2. p \notin Reserved /\ Reserved \subseteq Pieces
      BY <3>1 DEF MInv, TypeOK, AllocOwn, UsedExact, Reserved
    <3> PICK S : S = (resident \cup Reserved) \ {p}
      OBVIOUS
    <3>3. S \subseteq Pieces /\ p \notin S /\ resident \cup Reserved = S \cup {p}
      BY <3>1, <3>2
    <3>4. Cardinality(Bytes(S \cup {p})) = Cardinality(Bytes(S)) + PieceLen[p]
      BY <3>3, BytesAdd
    <3>5. Cardinality(Bytes(S)) \in Nat /\ PieceLen[p] \in Nat
      BY <3>3, BytesFinite, FS_CardinalityType
    <3>6. used = Cardinality(Bytes(S \cup {p})) /\ used' = used - PieceLen[p]
      BY <3>3 DEF MInv, UsedExact, EvictPop
    <3> QED BY <3>4, <3>5, <3>6
  <2> QED BY <2>1 DEF MInv, TypeOK, EvictPop, client, hook
<1>3. AllocOwn'
  BY DEF MInv, AllocOwn, TypeOK, EvictPop, Candidates, Over, Tops, client, hook
<1>4. UsedExact'
  <2>1. p \in resident /\ resident \subseteq Pieces
    BY DEF MInv, TypeOK, CompleteIsWhole, EvictPop, Tops, Candidates
  <2>2. p \notin Reserved /\ Reserved \subseteq Pieces /\ Reserved' = Reserved
    BY <2>1 DEF MInv, TypeOK, AllocOwn, UsedExact, Reserved, EvictPop
  <2> PICK S : S = resident' \cup Reserved'
    OBVIOUS
  <2>3. S \subseteq Pieces /\ p \notin S /\ resident \cup Reserved = S \cup {p}
    BY <2>1, <2>2 DEF EvictPop
  <2>4. Cardinality(Bytes(S \cup {p})) = Cardinality(Bytes(S)) + PieceLen[p]
    BY <2>3, BytesAdd
  <2>5. Cardinality(Bytes(S)) \in Nat /\ PieceLen[p] \in Nat
    BY <2>3, BytesFinite, FS_CardinalityType
  <2>6. used' = Cardinality(Bytes(S))
    <3>1. used = Cardinality(Bytes(S \cup {p})) /\ used' = used - PieceLen[p]
      BY <2>3 DEF MInv, UsedExact, EvictPop
    <3> QED BY <2>4, <2>5, <3>1
  <2> QED BY <2>2, <2>6 DEF MInv, UsedExact, EvictPop
<1>5. CompleteIsWhole'
  BY DEF MInv, CompleteIsWhole, TypeOK, AllocOwn, HashSound, EvictPop, Candidates, Over, Tops, client, hook
<1>6. OverageInFlight'
  BY DEF MInv, OverageInFlight, TypeOK, PassFor, EvictPop, Candidates, Over, Tops, client, hook
<1> QED BY <1>1, <1>2, <1>3, <1>4, <1>5, <1>6 DEF MInv

\* Step: the end of reserve.
LEMMA EvictReservedKeeps ==
  ASSUME MInv, NEW w \in Writers, EvictReserved(w)  PROVE MInv'
<1> USE MemStorageAssumption
<1>1. HashSound' /\ RefetchOwn' /\ ReaderKnown' /\ CompleteIsWhole'
  BY DEF MInv, HashSound, RefetchOwn, ReaderKnown, CompleteIsWhole, EvictReserved, client, hook
<1>2. TypeOK'
  <2>1. writer' \in [Writers -> WriterType]
    BY WriterGoes DEF MInv, EvictReserved, WriterPCs
  <2>2. used' \in Nat
    BY DEF MInv, TypeOK, PassType, EvictReserved
  <2> QED BY <2>1, <2>2 DEF MInv, TypeOK, EvictReserved, client, hook
<1>3. AllocOwn'
  BY DEF MInv, AllocOwn, TypeOK, EvictReserved, GotoW, Candidates, Over, PassOver, client, hook
<1>4. PassFor'
  BY DEF MInv, PassFor, TypeOK, AllocOwn, EvictReserved, GotoW, Candidates, Over, PassOver, client, hook
<1>5. HashAlone'
  BY DEF MInv, HashAlone, TypeOK, EvictReserved, GotoW, Candidates, Over, PassOver, client, hook
<1>6. UsedExact'
  <2> PICK p : p = writer[w].piece
    OBVIOUS
  <2>1. p \in Pieces /\ p \notin resident /\ p \notin Reserved
    BY DEF MInv, TypeOK, AllocOwn, Reserved, EvictReserved
  <2>2. Reserved' = Reserved \cup {p}
    BY DEF MInv, TypeOK, Reserved, EvictReserved, GotoW
  <2>3. pass.need = PieceLen[p]
    BY DEF MInv, PassFor, EvictReserved
  <2>4. resident \cup Reserved \subseteq Pieces
    BY DEF MInv, TypeOK, AllocOwn, Reserved
  <2>5. Cardinality(Bytes((resident \cup Reserved) \cup {p}))
          = Cardinality(Bytes(resident \cup Reserved)) + PieceLen[p]
    BY <2>1, <2>4, BytesAdd
  <2>6. resident' = resident /\ (resident \cup Reserved) \cup {p} = resident' \cup Reserved'
    BY <2>2 DEF EvictReserved
  <2> QED BY <2>1, <2>2, <2>3, <2>5, <2>6 DEF MInv, UsedExact, EvictReserved
<1>7. OverageInFlight'
  BY DEF MInv, OverageInFlight, TypeOK, PassFor, EvictReserved, GotoW, Candidates, Over, PassOver, client,
         hook
<1> QED BY <1>1, <1>2, <1>3, <1>4, <1>5, <1>6, <1>7 DEF MInv

\* Step: the end of MarkComplete.
LEMMA EvictMarkedKeeps ==
  ASSUME MInv, EvictMarked  PROVE MInv'
<1> USE MemStorageAssumption
<1>1. /\ AllocOwn' /\ HashAlone' /\ HashSound' /\ RefetchOwn' /\ ReaderKnown' /\ UsedExact' 
      /\ CompleteIsWhole'
  BY DEF MInv, AllocOwn, HashAlone, HashSound, RefetchOwn, ReaderKnown, UsedExact, CompleteIsWhole,
         Reserved, EvictMarked, client, hook
<1>2. TypeOK'
  BY DEF MInv, TypeOK, EvictMarked, Candidates, Over, PassOver, client, hook
<1>3. PassFor'
  BY DEF MInv, PassFor, TypeOK, AllocOwn, EvictMarked, Candidates, Over, PassOver, client, hook
<1>4. OverageInFlight'
  BY DEF MInv, OverageInFlight, TypeOK, PassFor, EvictMarked, Candidates, Over, PassOver, client, hook
<1> QED BY <1>1, <1>2, <1>3, <1>4 DEF MInv

\* Step: the hashing of a piece starts.
LEMMA HashStartKeeps ==
  ASSUME MInv, NEW p \in Pieces, HashStart(p)  PROVE MInv'
<1> USE MemStorageAssumption
<1>1. /\ AllocOwn' /\ PassFor' /\ RefetchOwn' /\ ReaderKnown' /\ UsedExact' /\ CompleteIsWhole' 
      /\ OverageInFlight'
  BY DEF MInv, AllocOwn, PassFor, RefetchOwn, ReaderKnown, UsedExact, CompleteIsWhole, OverageInFlight,
         Reserved, HashStart, store, hook
<1>2. TypeOK'
  BY DEF MInv, TypeOK, HashStart, Open, store, hook
<1>3. HashAlone'
  BY DEF MInv, HashAlone, TypeOK, HashStart, Open, store, hook
<1>4. HashSound'
  BY DEF MInv, HashSound, TypeOK, HashAlone, AllocOwn, HashStart, Open, store, hook
<1> QED BY <1>1, <1>2, <1>3, <1>4 DEF MInv

\* Step: WriteTo.
LEMMA HashReadKeeps ==
  ASSUME MInv, NEW p \in Pieces, HashRead(p)  PROVE MInv'
<1> USE MemStorageAssumption
<1>1. /\ AllocOwn' /\ PassFor' /\ RefetchOwn' /\ ReaderKnown' /\ UsedExact' /\ CompleteIsWhole' 
      /\ OverageInFlight'
  BY DEF MInv, AllocOwn, PassFor, RefetchOwn, ReaderKnown, UsedExact, CompleteIsWhole, OverageInFlight,
         Reserved, HashRead, store, hook
<1>2. TypeOK'
  BY DEF MInv, TypeOK, HashRead, store, hook
<1>3. HashAlone'
  BY DEF MInv, HashAlone, TypeOK, HashRead, store, hook
<1>4. HashSound'
  <2>1. CASE p \notin resident
    BY <2>1 DEF MInv, TypeOK, HashSound, HashRead, store
  <2>2. CASE p \in resident
    <3> PICK c \in Chunks \ hashed[p] :
          /\ hashed' = [hashed EXCEPT ![p] = @ \cup {c}]
          /\ hash' = [hash EXCEPT ![p] = IF c \notin fresh[p] THEN "fail"
                                         ELSE IF hashed[p] \cup {c} = Chunks THEN "pass" ELSE "read"]
      BY <2>2 DEF HashRead
    <3>1. hashed[p] \subseteq fresh[p] /\ fresh[p] \subseteq Chunks /\ fresh' = fresh
      BY DEF MInv, TypeOK, HashSound, HashRead, store
    <3>2. hash'[p] = "pass" => fresh[p] = Chunks
      <4>1. hash'[p] = "pass" => c \in fresh[p] /\ hashed[p] \cup {c} = Chunks
        BY DEF MInv, TypeOK
      <4> QED BY <3>1, <4>1
    <3>3. hash'[p] = "read" => hashed'[p] \subseteq fresh[p]
      BY <3>1 DEF MInv, TypeOK
    <3>4. hash'[p] # "idle"
      BY DEF MInv, TypeOK
    <3>5. \A q \in Pieces : q # p => hash'[q] = hash[q] /\ hashed'[q] = hashed[q]
      BY DEF MInv, TypeOK
    <3> QED BY <3>1, <3>2, <3>3, <3>4, <3>5 DEF MInv, HashSound
  <2> QED BY <2>1, <2>2
<1> QED BY <1>1, <1>2, <1>3, <1>4 DEF MInv

\* The verifiers that asked for a hash are answered.
LEMMA Answered ==
  ASSUME MInv, NEW p \in Pieces, HashEnd(p)
  PROVE  /\ verifier' \in [Verifiers -> VerifierType] /\ RefetchOwn'
         /\ hash' \in [Pieces -> {"idle", "read", "pass", "fail"}] /\ hashed' \in [Pieces -> SUBSET Chunks]
         /\ hash'[p] = "idle" /\ hashed'[p] = {}
         /\ \A q \in Pieces : q # p => hash'[q] = hash[q] /\ hashed'[q] = hashed[q]
<1>1. ASSUME NEW v \in Verifiers
      PROVE  /\ verifier'[v] \in VerifierType
             /\ verifier'[v].piece = verifier[v].piece
             /\ \/ verifier'[v].st = verifier[v].st
                \/ verifier[v].st = "verify" /\ verifier'[v].st = "verified"
  <2>1. verifier[v] \in VerifierType
    BY DEF MInv, TypeOK
  <2>2. CASE verifier[v] = [st |-> "verify", piece |-> p]
    <3> DEFINE rec == [verifier[v] EXCEPT !.st = "verified"]
    <3>1. rec \in VerifierType /\ rec.piece = verifier[v].piece /\ rec.st = "verified"
      BY <2>1 DEF VerifierType
    <3>2. verifier'[v] = rec BY <2>2 DEF HashEnd, Answer
    <3> HIDE DEF rec
    <3> QED BY <2>2, <3>1, <3>2
  <2>3. CASE verifier[v] # [st |-> "verify", piece |-> p]
    <3>1. verifier'[v] = verifier[v] BY <2>3 DEF HashEnd, Answer
    <3> QED BY <2>1, <3>1
  <2> QED BY <2>2, <2>3
<1>2. verifier' \in [Verifiers -> VerifierType]
  BY <1>1 DEF HashEnd, Answer
<1>3. RefetchOwn'
  BY <1>1 DEF MInv, RefetchOwn, HashEnd, Answer
<1>4. /\ hash' \in [Pieces -> {"idle", "read", "pass", "fail"}] /\ hashed' \in [Pieces -> SUBSET Chunks]
      /\ hash'[p] = "idle" /\ hashed'[p] = {}
      /\ \A q \in Pieces : q # p => hash'[q] = hash[q] /\ hashed'[q] = hashed[q]
  BY DEF MInv, TypeOK, HashEnd
<1> QED BY <1>2, <1>3, <1>4

\* Step: MarkComplete.
LEMMA MarkCompleteKeeps == ASSUME MInv, NEW p \in Pieces, MarkComplete(p) PROVE MInv'
<1> USE MemStorageAssumption
<1>1. /\ verifier' \in [Verifiers -> VerifierType] /\ RefetchOwn'
      /\ hash' \in [Pieces -> {"idle", "read", "pass", "fail"}] /\ hashed' \in [Pieces -> SUBSET Chunks]
      /\ hash'[p] = "idle" /\ hashed'[p] = {}
      /\ \A q \in Pieces : q # p => hash'[q] = hash[q] /\ hashed'[q] = hashed[q]
  BY Answered DEF MarkComplete
<1>2. HashAlone' /\ HashSound'
  BY <1>1 DEF MInv, HashAlone, HashSound, MarkComplete
<1>3. AllocOwn' /\ ReaderKnown' /\ UsedExact'
  BY DEF MInv, AllocOwn, ReaderKnown, UsedExact, Reserved, MarkComplete
<1>4. refetching' = refetching
  BY DEF MarkComplete, HashEnd, Answer
<1>5. CASE p \notin resident
  <2>1. UNCHANGED <<complete, lru, key, lastUsed, tick, pass, have>>
    BY <1>5 DEF MarkComplete
  <2>2. TypeOK'
    BY <1>1, <1>4, <2>1 DEF MInv, TypeOK, MarkComplete
  <2>3. PassFor' /\ CompleteIsWhole' /\ OverageInFlight'
    BY <2>1 DEF MInv, PassFor, CompleteIsWhole, OverageInFlight, MarkComplete
  <2> QED BY <1>1, <1>2, <1>3, <2>2, <2>3 DEF MInv
<1>6. CASE p \in resident
  <2>1. /\ complete' = complete \cup {p} /\ lru' = lru \cup {p} /\ have' = have \cup {p} /\ tick' = tick + 1
        /\ key' = [key EXCEPT ![p] = tick + 1] /\ lastUsed' = [lastUsed EXCEPT ![p] = tick + 1]
        /\ pass' = [need |-> 0, keep |-> p, by |-> Nil]
    BY <1>6 DEF MarkComplete
  <2>2. pass' \in PassType /\ pass'.need = 0 /\ pass'.keep = p /\ pass'.by = Nil
    BY <2>1 DEF PassType
  <2>3. pass' # Nil
    BY <2>2
  <2>4. TypeOK'
    BY <1>1, <1>4, <2>1, <2>2 DEF MInv, TypeOK, MarkComplete
  <2>5. PassFor' /\ OverageInFlight'
    BY <2>2, <2>3 DEF PassFor, OverageInFlight
  <2>6. CompleteIsWhole'
    BY <1>6, <2>1 DEF MInv, HashSound, CompleteIsWhole, MarkComplete
  <2> QED BY <1>1, <1>2, <1>3, <2>4, <2>5, <2>6 DEF MInv
<1> QED BY <1>5, <1>6

\* Step: MarkNotComplete.
LEMMA MarkNotCompleteKeeps ==
  ASSUME MInv, NEW p \in Pieces, MarkNotComplete(p)  PROVE MInv'
<1> USE MemStorageAssumption
<1>1. AllocOwn' /\ PassFor' /\ ReaderKnown' /\ UsedExact'
  BY DEF MInv, AllocOwn, PassFor, ReaderKnown, UsedExact, Reserved, MarkNotComplete
<1>2. TypeOK'
  <2>1. /\ verifier' \in [Verifiers -> VerifierType] /\ refetching' = refetching
        /\ hash' \in [Pieces -> {"idle", "read", "pass", "fail"}] /\ hashed' \in [Pieces -> SUBSET Chunks]
    BY Answered DEF MarkNotComplete, HashEnd, Answer
  <2> QED BY <2>1 DEF MInv, TypeOK, MarkNotComplete
<1>3. HashAlone'
  BY DEF MInv, HashAlone, TypeOK, MarkNotComplete, Answer, HashEnd
<1>4. HashSound'
  BY DEF MInv, HashSound, TypeOK, HashAlone, AllocOwn, MarkNotComplete, Answer, HashEnd
<1>5. RefetchOwn'
  BY Answered DEF MarkNotComplete
<1>6. CompleteIsWhole'
  BY DEF MInv, CompleteIsWhole, TypeOK, AllocOwn, HashSound, MarkNotComplete, Answer, HashEnd
<1>7. OverageInFlight'
  BY DEF MInv, OverageInFlight, TypeOK, PassFor, MarkNotComplete, Answer, HashEnd
<1> QED BY <1>1, <1>2, <1>3, <1>4, <1>5, <1>6, <1>7 DEF MInv

\* A reader that goes on with its piece, or is at rest, is all that has changed.
LEMMA ReaderMoves ==
  ASSUME MInv, NEW r \in Readers, NEW rec \in ReaderType, SetR(r, rec), rec.pc # "idle" => rec.piece \in Pieces,
         UNCHANGED <<resident, fresh, complete, lru, key, used, allocMu, pass, client, writer>>,
         tick' \in Nat, reads' \in Nat, lastUsed' \in [Pieces -> Nat], UNCHANGED hook
  PROVE  MInv'
<1>1. /\ reader' \in [Readers -> ReaderType] /\ reader'[r] = rec
      /\ \A x \in Readers : x # r => reader'[x] = reader[x]
  BY ReaderGoes DEF MInv
<1>2. TypeOK'
  BY <1>1 DEF MInv, TypeOK, client, hook
<1>3. ReaderKnown'
  BY <1>1 DEF MInv, ReaderKnown
<1>4. /\ AllocOwn' /\ PassFor' /\ HashAlone' /\ HashSound' /\ RefetchOwn' /\ UsedExact' /\ CompleteIsWhole'
      /\ OverageInFlight'
  BY DEF MInv, AllocOwn, PassFor, HashAlone, HashSound, RefetchOwn, UsedExact, Reserved, CompleteIsWhole,
         OverageInFlight, client, hook
<1> QED BY <1>2, <1>3, <1>4 DEF MInv


\* Step: a read starts.
LEMMA StartReadKeeps ==
  ASSUME MInv, NEW r \in Readers, NEW p \in Pieces, NEW c \in Chunks, StartRead(r, p, c)  PROVE MInv'
<1> DEFINE rec == [IdleReader EXCEPT !.pc = "blocked", !.piece = p, !.chunk = c]
<1>1. rec \in ReaderType /\ rec.piece = p
  BY DEF IdleReader, ReaderType, ReaderPCs
<1>2. SetR(r, rec) BY DEF StartRead
<1> HIDE DEF rec
<1>3. tick' \in Nat /\ lastUsed' \in [Pieces -> Nat] /\ reads' \in Nat
  BY DEF MInv, TypeOK, StartRead, store
<1> QED BY <1>1, <1>2, <1>3, ReaderMoves DEF StartRead, store

\* Step: the client lets a read go ahead.
LEMMA AvailableKeeps == ASSUME MInv, NEW r \in Readers, Available(r)  PROVE MInv'
<1>1. /\ tick' \in Nat /\ lastUsed' \in [Pieces -> Nat] /\ reads' \in Nat
      /\ UNCHANGED <<resident, fresh, complete, lru, key, used, allocMu, pass, client, writer, hook>>
  BY DEF MInv, TypeOK, Available, store
<1>2. CASE SetR(r, IdleReader)
  BY <1>1, <1>2, ReaderRests, ReaderMoves
<1>3. CASE SetR(r, [reader[r] EXCEPT !.pc = "try"])
  <2> DEFINE rec == [reader[r] EXCEPT !.pc = "try"]
  <2>1. rec \in ReaderType /\ rec.piece \in Pieces
    BY DEF MInv, TypeOK, ReaderKnown, Available, ReaderType, ReaderPCs
  <2>2. SetR(r, rec) BY <1>3
  <2> HIDE DEF rec
  <2> QED BY <1>1, <2>1, <2>2, ReaderMoves
<1> QED BY <1>2, <1>3 DEF Available

\* Step: a read is cancelled.
LEMMA CancelReadKeeps == ASSUME MInv, NEW r \in Readers, CancelRead(r)  PROVE MInv'
<1>1. tick' \in Nat /\ lastUsed' \in [Pieces -> Nat] /\ reads' \in Nat
  BY DEF MInv, TypeOK, CancelRead, store
<1> QED BY <1>1, ReaderRests, ReaderMoves DEF CancelRead, store

\* Step: ReadAt.
LEMMA ReadAtKeeps == ASSUME MInv, NEW r \in Readers, ReadAt(r)  PROVE MInv'
<1>1. /\ tick' \in Nat /\ lastUsed' \in [Pieces -> Nat] /\ reads' \in Nat
      /\ UNCHANGED <<resident, fresh, complete, lru, key, used, allocMu, pass, client, writer, hook>>
  BY DEF MInv, TypeOK, ReadAt, store
<1>2. reader[r] \in ReaderType /\ reader[r].piece \in Pieces
  BY DEF MInv, TypeOK, ReaderKnown, ReadAt
<1>3. CASE reader[r].piece \in resident
  <2> PICK x, S : x = reader[r].chunk /\ S = fresh[reader[r].piece]
    OBVIOUS
  <2>0. (x \in S) \in BOOLEAN
    OBVIOUS
  <2> PICK g \in BOOLEAN : g = (x \in S)
    BY <2>0
  <2> DEFINE rec == [reader[r] EXCEPT !.pc = "stamp", !.good = g]
  <2>1. rec \in ReaderType /\ rec.piece = reader[r].piece
    BY <1>2 DEF ReaderType, ReaderPCs
  <2>2. SetR(r, rec) BY <1>3 DEF ReadAt
  <2> HIDE DEF rec
  <2> QED BY <1>1, <1>2, <2>1, <2>2, ReaderMoves
<1>4. CASE reader[r].piece \notin resident
  <2> DEFINE rec == [reader[r] EXCEPT !.pc = "refetch"]
  <2>1. rec \in ReaderType /\ rec.piece = reader[r].piece
    BY <1>2 DEF ReaderType, ReaderPCs
  <2>2. SetR(r, rec) BY <1>4 DEF ReadAt
  <2> HIDE DEF rec
  <2> QED BY <1>1, <1>2, <2>1, <2>2, ReaderMoves
<1> QED BY <1>3, <1>4

\* Step: stamp.
LEMMA StampKeeps == ASSUME MInv, NEW r \in Readers, Stamp(r)  PROVE MInv'
<1>1. /\ tick' \in Nat /\ lastUsed' \in [Pieces -> Nat] /\ reads' \in Nat
      /\ UNCHANGED <<resident, fresh, complete, lru, key, used, allocMu, pass, client, writer, hook>>
  BY DEF MInv, TypeOK, Stamp
<1>2. reader[r] \in ReaderType /\ reader[r].piece \in Pieces /\ tick + 1 \in Nat
  BY DEF MInv, TypeOK, ReaderKnown, Stamp
<1>3. CASE SetR(r, IdleReader)
  BY <1>1, <1>3, ReaderRests, ReaderMoves
<1>4. CASE SetR(r, [reader[r] EXCEPT !.pc = "store", !.stamp = tick + 1])
  <2> DEFINE rec == [reader[r] EXCEPT !.pc = "store", !.stamp = tick + 1]
  <2>1. rec \in ReaderType /\ rec.piece = reader[r].piece
    BY <1>2 DEF ReaderType, ReaderPCs
  <2>2. SetR(r, rec) BY <1>4
  <2> HIDE DEF rec
  <2> QED BY <1>1, <1>2, <2>1, <2>2, ReaderMoves
<1> QED BY <1>3, <1>4 DEF Stamp

\* Step: the stamp is stored.
LEMMA StoreStampKeeps == ASSUME MInv, NEW r \in Readers, StoreStamp(r)  PROVE MInv'
<1>1. tick' \in Nat /\ lastUsed' \in [Pieces -> Nat] /\ reads' \in Nat
  BY DEF MInv, TypeOK, StoreStamp, ReaderType
<1> QED BY <1>1, ReaderRests, ReaderMoves DEF StoreStamp

\* Step: refetchPiece.
LEMMA RefetchKeeps == ASSUME MInv, NEW r \in Readers, Refetch(r)  PROVE MInv'
<1> USE MemStorageAssumption
<1> PICK p : p = reader[r].piece
  OBVIOUS
<1>1. /\ tick' \in Nat /\ lastUsed' \in [Pieces -> Nat] /\ reads' \in Nat
      /\ UNCHANGED <<resident, fresh, complete, lru, key, used, allocMu, pass, client, writer>>
  BY DEF MInv, TypeOK, Refetch, store
<1>2. reader[r] \in ReaderType /\ p \in Pieces
  BY DEF MInv, TypeOK, ReaderKnown, Refetch
<1>3. CASE ~Open(p)
  <2> DEFINE rec == [reader[r] EXCEPT !.pc = "wait"]
  <2>1. rec \in ReaderType /\ rec.piece = p
    BY <1>2 DEF ReaderType, ReaderPCs
  <2>2. SetR(r, rec) /\ UNCHANGED hook BY <1>3 DEF Refetch
  <2> HIDE DEF rec
  <2> QED BY <1>1, <1>2, <2>1, <2>2, ReaderMoves
<1>4. CASE Open(p) /\ refetching[p] # Nil
  <2> DEFINE rec == [reader[r] EXCEPT !.pc = "wait", !.on = refetching[p]]
  <2>1. refetching[p] \in Verifiers \cup {Nil}
    BY <1>2 DEF MInv, TypeOK
  <2>2. rec \in ReaderType /\ rec.piece = p
    BY <1>2, <2>1 DEF ReaderType, ReaderPCs
  <2>3. SetR(r, rec) /\ UNCHANGED hook BY <1>4 DEF Refetch
  <2> HIDE DEF rec
  <2> QED BY <1>1, <1>2, <2>2, <2>3, ReaderMoves
<1>5. CASE Open(p) /\ refetching[p] = Nil
  <2> PICK v \in Verifiers : /\ verifier[v] = IdleVerifier
                             /\ verifier' = [verifier EXCEPT ![v] = [st |-> "start", piece |-> p]]
                             /\ refetching' = [refetching EXCEPT ![p] = v]
                             /\ SetR(r, [reader[r] EXCEPT !.pc = "wait", !.on = v])
    BY <1>5 DEF Refetch
  <2> DEFINE rec == [reader[r] EXCEPT !.pc = "wait", !.on = v]
             new == [st |-> "start", piece |-> p]
  <2>1. rec \in ReaderType /\ rec.piece = p /\ new \in VerifierType /\ new.st = "start" /\ new.piece = p
    BY <1>2 DEF ReaderType, ReaderPCs, VerifierType
  <2>2. SetR(r, rec) /\ verifier' = [verifier EXCEPT ![v] = new]
    OBVIOUS
  <2> HIDE DEF rec, new
  <2>3. /\ reader' \in [Readers -> ReaderType] /\ reader'[r] = rec
        /\ \A x \in Readers : x # r => reader'[x] = reader[x]
    BY <2>1, <2>2, ReaderGoes DEF MInv
  <2>4. TypeOK'
    <3>1. verifier' \in [Verifiers -> VerifierType] /\ refetching' \in [Pieces -> Verifiers \cup {Nil}]
      BY <1>2, <2>1, <2>2 DEF MInv, TypeOK
    <3> QED BY <1>1, <2>3, <3>1 DEF MInv, TypeOK, client
  <2>5. ReaderKnown'
    BY <1>2, <2>1, <2>3 DEF MInv, ReaderKnown
  <2>6. RefetchOwn'
    BY <1>2, <1>5, <2>1, <2>2 DEF MInv, TypeOK, RefetchOwn
  <2>7. /\ AllocOwn' /\ PassFor' /\ HashAlone' /\ HashSound' /\ UsedExact' /\ CompleteIsWhole'
        /\ OverageInFlight'
    BY <1>1 DEF MInv, AllocOwn, PassFor, HashAlone, HashSound, UsedExact, Reserved, CompleteIsWhole,
                OverageInFlight, client
  <2> QED BY <2>4, <2>5, <2>6, <2>7 DEF MInv
<1> QED BY <1>3, <1>4, <1>5

\* Step: waitRefetch ends.
LEMMA WaitRefetchKeeps == ASSUME MInv, NEW r \in Readers, WaitRefetch(r)  PROVE MInv'
<1>1. tick' \in Nat /\ lastUsed' \in [Pieces -> Nat] /\ reads' \in Nat
  BY DEF MInv, TypeOK, WaitRefetch, store
<1> DEFINE rec == [reader[r] EXCEPT !.pc = "blocked", !.on = Nil]
<1>2. rec \in ReaderType /\ rec.piece \in Pieces
  <2>1. reader[r] \in ReaderType /\ reader[r].piece \in Pieces
    BY DEF MInv, TypeOK, ReaderKnown, WaitRefetch
  <2> QED BY <2>1 DEF ReaderType, ReaderPCs
<1>3. SetR(r, rec) BY DEF WaitRefetch
<1> HIDE DEF rec
<1> QED BY <1>1, <1>2, <1>3, ReaderMoves DEF WaitRefetch, store

\* Step: the goroutine of refetchPiece starts.
LEMMA StartVerifyKeeps ==
  ASSUME MInv, NEW v \in Verifiers, StartVerify(v)  PROVE MInv'
<1> USE MemStorageAssumption
<1>v. /\ verifier' \in [Verifiers -> VerifierType] /\ verifier'[v].piece = verifier[v].piece
      /\ verifier[v].st = "start" /\ verifier'[v].st \in {"verify", "verified"}
      /\ \A x \in Verifiers : x # v => verifier'[x] = verifier[x]
  BY VerifierGoes DEF MInv, StartVerify
<1>1. /\ AllocOwn' /\ PassFor' /\ HashAlone' /\ HashSound' /\ ReaderKnown' /\ UsedExact' 
      /\ CompleteIsWhole' /\ OverageInFlight'
  BY DEF MInv, AllocOwn, PassFor, HashAlone, HashSound, ReaderKnown, UsedExact, CompleteIsWhole,
         OverageInFlight, Reserved, StartVerify, store, client
<1>2. TypeOK'
  BY <1>v DEF MInv, TypeOK, StartVerify, store, client
<1>3. RefetchOwn'
  BY <1>v DEF MInv, RefetchOwn, TypeOK, ReaderKnown, StartVerify, store, client
<1> QED BY <1>1, <1>2, <1>3 DEF MInv

\* Step: VerifyData of a dropped torrent.
LEMMA VerifyDroppedKeeps ==
  ASSUME MInv, NEW v \in Verifiers, VerifyDropped(v)  PROVE MInv'
<1> USE MemStorageAssumption
<1>v. /\ verifier' \in [Verifiers -> VerifierType] /\ verifier'[v].piece = verifier[v].piece
      /\ verifier[v].st = "verify" /\ verifier'[v].st = "verified"
      /\ \A x \in Verifiers : x # v => verifier'[x] = verifier[x]
  BY VerifierGoes DEF MInv, VerifyDropped
<1>1. /\ AllocOwn' /\ PassFor' /\ HashAlone' /\ HashSound' /\ ReaderKnown' /\ UsedExact' 
      /\ CompleteIsWhole' /\ OverageInFlight'
  BY DEF MInv, AllocOwn, PassFor, HashAlone, HashSound, ReaderKnown, UsedExact, CompleteIsWhole,
         OverageInFlight, Reserved, VerifyDropped, store, client
<1>2. TypeOK'
  BY <1>v DEF MInv, TypeOK, VerifyDropped, store, client
<1>3. RefetchOwn'
  BY <1>v DEF MInv, RefetchOwn, TypeOK, ReaderKnown, VerifyDropped, store, client
<1> QED BY <1>1, <1>2, <1>3 DEF MInv

\* Step: the dedupe entry goes.
LEMMA DeleteEntryKeeps ==
  ASSUME MInv, NEW v \in Verifiers, DeleteEntry(v)  PROVE MInv'
<1> USE MemStorageAssumption
<1>v. /\ verifier' \in [Verifiers -> VerifierType] /\ verifier'[v].piece = verifier[v].piece
      /\ verifier[v].st = "verified" /\ verifier'[v].st = "deleted"
      /\ \A x \in Verifiers : x # v => verifier'[x] = verifier[x]
  BY VerifierGoes DEF MInv, DeleteEntry
<1>1. /\ AllocOwn' /\ PassFor' /\ HashAlone' /\ HashSound' /\ ReaderKnown' /\ UsedExact' 
      /\ CompleteIsWhole' /\ OverageInFlight'
  BY DEF MInv, AllocOwn, PassFor, HashAlone, HashSound, ReaderKnown, UsedExact, CompleteIsWhole,
         OverageInFlight, Reserved, DeleteEntry, store, client
<1>2. TypeOK'
  BY <1>v DEF MInv, TypeOK, DeleteEntry, store, client
<1>3. RefetchOwn'
  BY <1>v DEF MInv, RefetchOwn, TypeOK, ReaderKnown, DeleteEntry, store, client
<1> QED BY <1>1, <1>2, <1>3 DEF MInv

\* Step: the waiting reads wake.
LEMMA CloseDoneKeeps == ASSUME MInv, NEW v \in Verifiers, CloseDone(v)  PROVE MInv'
<1> USE MemStorageAssumption
<1>3. UNCHANGED <<resident, fresh, complete, lru, used, allocMu, pass, hash, hashed, writer>>
  BY DEF CloseDone, store, client
<1>1. /\ AllocOwn' /\ PassFor' /\ HashAlone' /\ HashSound' /\ UsedExact' /\ CompleteIsWhole'
      /\ OverageInFlight'
  BY <1>3 DEF MInv, AllocOwn, PassFor, HashAlone, HashSound, UsedExact, Reserved, CompleteIsWhole,
              OverageInFlight
<1>2. IdleVerifier \in VerifierType /\ IdleVerifier.st = "idle"
  BY DEF IdleVerifier, VerifierType
<1>4. ASSUME NEW r \in Readers
      PROVE  /\ reader'[r] \in ReaderType /\ reader'[r].piece = reader[r].piece
             /\ reader'[r].pc # "idle" => reader[r].pc # "idle"
  <2>1. reader[r] \in ReaderType
    BY DEF MInv, TypeOK
  <2>2. CASE reader[r].on = v /\ reader[r].pc = "wait"
    <3> DEFINE rec == [reader[r] EXCEPT !.pc = "blocked", !.on = Nil]
    <3>1. rec \in ReaderType /\ rec.piece = reader[r].piece
      BY <2>1 DEF ReaderType, ReaderPCs
    <3>2. reader'[r] = rec BY <2>2 DEF CloseDone
    <3> HIDE DEF rec
    <3> QED BY <2>2, <3>1, <3>2
  <2>3. CASE ~(reader[r].on = v /\ reader[r].pc = "wait")
    <3>1. reader'[r] = reader[r] BY <2>3 DEF CloseDone
    <3> QED BY <2>1, <3>1
  <2> QED BY <2>2, <2>3
<1>5. reader' \in [Readers -> ReaderType]
  BY <1>4 DEF CloseDone
<1>6. TypeOK'
  BY <1>2, <1>5 DEF MInv, TypeOK, CloseDone, store, client
<1>7. ReaderKnown'
  BY <1>4 DEF MInv, ReaderKnown
<1>8. RefetchOwn'
  BY <1>2 DEF MInv, TypeOK, RefetchOwn, CloseDone
<1> QED BY <1>1, <1>6, <1>7, <1>8 DEF MInv

\* Step: memTorrent.close.
LEMMA CloseTorrentKeeps ==
  ASSUME MInv, NEW t \in Torrents, CloseTorrent(t)  PROVE MInv'
<1> USE MemStorageAssumption
<1>1. PassFor' /\ HashAlone' /\ HashSound' /\ RefetchOwn' /\ ReaderKnown'
  BY DEF MInv, PassFor, HashAlone, HashSound, RefetchOwn, ReaderKnown, CloseTorrent, hook
<1>2. TypeOK'
  <2> DEFINE gone == {p \in Pieces : TorrentOf[p] = t}
  <2>1. used' \in Nat
    <3>1. resident \subseteq Pieces /\ Reserved \subseteq Pieces
      BY DEF MInv, TypeOK, AllocOwn, Reserved
    <3> PICK S : S = resident \cup Reserved
      OBVIOUS
    <3> PICK R : R = gone \cap resident
      OBVIOUS
    <3>2. /\ Cardinality(Bytes(S \ R)) \in Nat
          /\ Cardinality(Bytes(S \ R)) = Cardinality(Bytes(S)) - Cardinality(Bytes(R))
      BY <3>1, BytesRemove
    <3> QED BY <3>2 DEF MInv, UsedExact, CloseTorrent
  <2> QED BY <2>1 DEF MInv, TypeOK, CloseTorrent, hook
<1>3. AllocOwn'
  BY DEF MInv, AllocOwn, TypeOK, CloseTorrent, hook
<1>4. UsedExact'
  <2> DEFINE gone == {p \in Pieces : TorrentOf[p] = t}
  <2>1. Reserved' = Reserved /\ resident' = resident \ gone
    BY DEF Reserved, CloseTorrent
  <2>2. resident \subseteq Pieces /\ Reserved \subseteq Pieces /\ Reserved \cap resident = {}
    BY DEF MInv, TypeOK, AllocOwn, UsedExact, Reserved
  <2> PICK S : S = resident \cup Reserved
    OBVIOUS
  <2> PICK R : R = gone \cap resident
    OBVIOUS
  <2>3. resident' \cup Reserved' = S \ R
    BY <2>1, <2>2
  <2>4. Cardinality(Bytes(S \ R)) = Cardinality(Bytes(S)) - Cardinality(Bytes(R))
    BY <2>2, BytesRemove
  <2> QED BY <2>1, <2>2, <2>3, <2>4 DEF MInv, UsedExact, CloseTorrent
<1>5. CompleteIsWhole'
  BY DEF MInv, CompleteIsWhole, TypeOK, AllocOwn, HashSound, CloseTorrent, hook
<1>6. OverageInFlight'
  <2> DEFINE gone == {p \in Pieces : TorrentOf[p] = t}
  <2>1. Cardinality(Bytes(gone \cap resident)) \in Nat
    BY BytesFinite, FS_CardinalityType
  <2> QED BY <2>1 DEF MInv, OverageInFlight, TypeOK, CloseTorrent
<1> QED BY <1>1, <1>2, <1>3, <1>4, <1>5, <1>6 DEF MInv

\* Every step keeps the invariant.
LEMMA MInvStep == MInv /\ [Next]_vars => MInv'
<1> SUFFICES ASSUME MInv, [Next]_vars PROVE MInv'
  OBVIOUS
<1>1. ASSUME NEW w \in Writers, NEW p \in Pieces, NEW c \in Chunks, StartWrite(w, p, c) PROVE MInv'
  BY <1>1, StartWriteKeeps
<1>2. ASSUME NEW w \in Writers, Write(w) \/ Alloc(w) \/ Reserve(w) \/ Install(w) \/ EvictReserved(w) PROVE MInv'
  BY <1>2, WriteKeeps, AllocKeeps, ReserveKeeps, InstallKeeps, EvictReservedKeeps
<1>3. ASSUME NEW p \in Pieces, EvictRekey(p) \/ EvictPop(p) \/ HashStart(p) \/ HashRead(p) PROVE MInv'
  BY <1>3, EvictRekeyKeeps, EvictPopKeeps, HashStartKeeps, HashReadKeeps
<1>4. ASSUME NEW p \in Pieces, MarkComplete(p) \/ MarkNotComplete(p) PROVE MInv'
  BY <1>4, MarkCompleteKeeps, MarkNotCompleteKeeps
<1>5. CASE EvictMarked
  BY <1>5, EvictMarkedKeeps
<1>6. ASSUME NEW r \in Readers, NEW p \in Pieces, NEW c \in Chunks, StartRead(r, p, c) PROVE MInv'
  BY <1>6, StartReadKeeps
<1>7. ASSUME NEW r \in Readers, \/ CancelRead(r) \/ Available(r) \/ ReadAt(r) \/ Stamp(r) \/ StoreStamp(r)
                                \/ Refetch(r) \/ WaitRefetch(r)
      PROVE  MInv'
  BY <1>7, CancelReadKeeps, AvailableKeeps, ReadAtKeeps, StampKeeps, StoreStampKeeps, RefetchKeeps,
       WaitRefetchKeeps
<1>8. ASSUME NEW v \in Verifiers, StartVerify(v) \/ VerifyDropped(v) \/ DeleteEntry(v) \/ CloseDone(v) PROVE MInv'
  BY <1>8, StartVerifyKeeps, VerifyDroppedKeeps, DeleteEntryKeeps, CloseDoneKeeps
<1>9. ASSUME NEW t \in Torrents, CloseTorrent(t) PROVE MInv'
  BY <1>9, CloseTorrentKeeps
<1>10. CASE UNCHANGED vars
  BY <1>10 DEF MInv, vars, store, client, hook, TypeOK, AllocOwn, PassFor, HashAlone, HashSound,
               RefetchOwn, ReaderKnown, UsedExact, Reserved, CompleteIsWhole, OverageInFlight
<1> QED BY <1>1, <1>2, <1>3, <1>4, <1>5, <1>6, <1>7, <1>8, <1>9, <1>10 DEF Next

\* The inductive invariant holds whatever the pieces, the budget and the number
\* of writers, readers and verifying goroutines.
THEOREM MemInvariant == Spec => []MInv
<1>1. Init => MInv BY MInvInit
<1>2. MInv /\ [Next]_vars => MInv' BY MInvStep
<1> QED BY <1>1, <1>2, PTL DEF Spec

\* The store's books are right between any two steps of any number of goroutines:
\* used is the sum of the resident and the reserved pieces and never negative, the
\* budget is exceeded only by downloads in flight, and no piece is verified twice
\* at a time (reserve, evictLocked, close, refetchPiece).
THEOREM MemBooksExact == Spec => []BooksExact
<1>1. MInv => OneVerify BY DEF MInv, RefetchOwn, OneVerify
<1>2. MInv => BooksExact BY <1>1 DEF MInv, BooksExact
<1> QED BY <1>2, MemInvariant, PTL

\* A piece that is flagged complete is resident and holds all of its own chunks,
\* though it may be evicted, rewritten and hashed at any time (MarkComplete,
\* evictLocked, WriteAt).
THEOREM MemCompleteIsWhole == Spec => []CompleteIsWhole
<1>1. MInv => CompleteIsWhole BY DEF MInv
<1> QED BY <1>1, MemInvariant, PTL

===========================================================================
