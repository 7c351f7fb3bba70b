---------------------------- MODULE StreamHandler ----------------------------
(***************************************************************************)
(* Streaming a file of a torrent over HTTP (internal/api/api.go:           *)
(* handleStream, parseRange, copyStream, handleCreate) through the reader  *)
(* that pins its engine (internal/engine/engine.go: pinnedReader).         *)
(*                                                                         *)
(* A request is its handler, the watcher it starts, and a client that may  *)
(* go away at any time. The swarm delivers the bytes of the file when it   *)
(* likes, or never. There is one torrent with one file; an instance of its *)
(* engine ends when the torrent is removed and the next request makes a    *)
(* new one. Which pieces are asked for is the subject of EnginePriority.   *)
(***************************************************************************)
EXTENDS Integers, FiniteSets

CONSTANTS
  NumStreams,     \* requests, numbered as they arrive
  FileLengths,    \* possible lengths of the file
  MaxRemovals     \* bound: how often the torrent is removed

ASSUME StreamAssumption == NumStreams \in Nat /\ FileLengths \subseteq Nat /\ FileLengths # {} /\ MaxRemovals \in Nat

VARIABLES
  length,     \* of the file
  removals,   \* removals so far; the live instance is removals + 1
  hasMeta,    \* whether the live instance knows the file
  have,       \* bytes the live instance has
  pins,       \* instance -> openReaders
  stream         \* requests

streamVars == <<length, removals, hasMeta, have, pins, stream>>
swarmVars == <<length, removals, hasMeta, have>>

Streams == 1 .. NumStreams
Instances == 1 .. MaxRemovals + 1
Live == removals + 1

\* Range headers: none, one that does not parse, the last n bytes, from s on, s to e.
Headers(len) ==
  {[form |-> "none", a |-> 0, b |-> 0], [form |-> "malformed", a |-> 0, b |-> 0]}
    \cup [form : {"suffix"}, a : -1 .. len + 1, b : {0}]
    \cup [form : {"from"}, a : 0 .. len + 1, b : {0}]
    \cup [form : {"span"}, a : 0 .. len + 1, b : -1 .. len + 1]
    \cup [form : {"badEnd"}, a : 0 .. len + 1, b : {0}]

Unread == [ok |-> FALSE, unsat |-> FALSE, start |-> 0, end |-> -1]
Fresh(l) == [at |-> l, kind |-> "get", client |-> "here", eng |-> 0,
             pos |-> 0, last |-> -1, reader |-> "none", ctx |-> "none", started |-> FALSE,
             watch |-> "off", cut |-> "no", status |-> 0]

StreamInit ==
  /\ length \in FileLengths /\ removals = 0 /\ hasMeta = FALSE /\ have = {}
  /\ pins = [i \in Instances |-> 0] /\ stream = [r \in Streams |-> Fresh("idle")]

At(r, l) == stream[r].at = l
Goes(r, l) == stream' = [stream EXCEPT ![r].at = l]

-----------------------------------------------------------------------------
(* The torrent and the client *)

LearnMetadata == ~hasMeta /\ hasMeta' = TRUE /\ UNCHANGED <<length, removals, have, pins, stream>>
Deliver ==
  /\ hasMeta /\ \E i \in 0 .. length - 1 : i \notin have /\ have' = have \cup {i}
  /\ UNCHANGED <<length, removals, hasMeta, pins, stream>>

\* handleRemove, handleRemoveAll or the janitor.
RemoveTorrent ==
  /\ removals < MaxRemovals /\ removals' = removals + 1 /\ hasMeta' = FALSE /\ have' = {}
  /\ UNCHANGED <<length, pins, stream>>

ClientLeaves(r) ==
  /\ stream[r].at \notin {"idle", "end"} /\ stream[r].client = "here"
  /\ stream' = [stream EXCEPT ![r].client = "gone"] /\ UNCHANGED <<swarmVars, pins>>

-----------------------------------------------------------------------------
(* Before the reader *)

\* handleStream, handleCreate or handleCreateBlob gets its engine, or fails.
Arrive(r) ==
  /\ At(r, "idle") /\ \A q \in 1 .. r - 1 : ~At(q, "idle")
  /\ \/ \E kind \in {"get", "head", "create"} :
          stream' = [stream EXCEPT ![r] = [Fresh("ready") EXCEPT !.kind = kind, !.eng = Live]]
     \/ stream' = [stream EXCEPT ![r] = Fresh("end")]
  /\ UNCHANGED <<swarmVars, pins>>

\* engine.Ready: the metadata, the end of the wait, or the end of the request. A create
\* answers with the engine's statistics.
Ready(r) ==
  /\ At(r, "ready") /\ hasMeta /\ stream[r].eng = Live
  /\ stream' = [stream EXCEPT ![r] = IF stream[r].kind = "create" THEN Fresh("end") ELSE [@ EXCEPT !.at = "open"]]
  /\ UNCHANGED <<swarmVars, pins>>
NotReady(r) == At(r, "ready") /\ stream' = [stream EXCEPT ![r] = Fresh("end")] /\ UNCHANGED <<swarmVars, pins>>

\* resolveIndex finds no file, or the client is sent to another address.
Elsewhere(r) == At(r, "open") /\ stream' = [stream EXCEPT ![r] = Fresh("end")] /\ UNCHANGED <<swarmVars, pins>>

\* engine.NewReader: the engine is pinned; the handler starts its watcher.
NewReader(r) ==
  /\ At(r, "open") /\ pins' = [pins EXCEPT ![stream[r].eng] = @ + 1]
  /\ stream' = [stream EXCEPT ![r] = [@ EXCEPT !.at = "head", !.reader = "open", !.watch = "on"]]
  /\ UNCHANGED swarmVars

-----------------------------------------------------------------------------
(* The range *)

Ok(s, e) == [ok |-> TRUE, unsat |-> FALSE, start |-> s, end |-> e]
Unsatisfiable == [Unread EXCEPT !.unsat = TRUE]
Smaller(x, y) == IF x < y THEN x ELSE y

\* Mutant: the first byte is compared with the length by one too many.
ParseRangeLate(h, len) ==
  CASE h.form = "suffix" -> IF h.a <= 0 \/ len = 0 THEN Unsatisfiable ELSE Ok(len - Smaller(h.a, len), len - 1)
    [] h.form = "from" -> IF h.a > len THEN Unsatisfiable ELSE Ok(h.a, len - 1)
    [] h.form = "span" -> IF h.a > len \/ h.b < h.a THEN Unsatisfiable ELSE Ok(h.a, Smaller(h.b, len - 1))
    [] OTHER -> Unread

\* parseRange: nothing, unsatisfiable, or a first and a last byte. The start is looked
\* at before the end is parsed.
ParseRange(h, len) ==
  CASE h.form = "suffix" -> IF h.a <= 0 \/ len = 0 THEN Unsatisfiable ELSE Ok(len - Smaller(h.a, len), len - 1)
    [] h.form = "from" -> IF h.a >= len THEN Unsatisfiable ELSE Ok(h.a, len - 1)
    [] h.form = "span" -> IF h.a >= len \/ h.b < h.a THEN Unsatisfiable ELSE Ok(h.a, Smaller(h.b, len - 1))
    [] h.form = "badEnd" -> IF h.a >= len THEN Unsatisfiable ELSE Unread
    [] OTHER -> Unread

\* The headers: 416, an answer to HEAD, or a copy of the range or of the whole file.
SendHeaders(r, h) ==
  LET range == ParseRange(h, length)
      q == [stream[r] EXCEPT !.status = IF range.ok THEN 206 ELSE IF range.unsat THEN 416 ELSE 200,
              !.kind = "get", !.at = IF range.unsat \/ stream[r].kind = "head" THEN "leave" ELSE "read",
              !.pos = IF range.ok THEN range.start ELSE 0, !.last = IF range.ok THEN range.end ELSE length - 1]
  IN
  /\ At(r, "head")
  /\ \/ stream' = [stream EXCEPT ![r] = q]
     \/ range.ok /\ stream[r].kind = "get" /\ stream' = [stream EXCEPT ![r] = [q EXCEPT !.at = "leave"]]   \* the seek failed
  /\ UNCHANGED <<swarmVars, pins>>

-----------------------------------------------------------------------------
(* The copy *)

Gone(r) == stream[r].eng # Live

\* pinnedReader.Read: until a first byte has come, under a deadline; afterwards under the
\* context that only Close ends. At its last byte the copy is over.
BeginRead(r) ==
  /\ At(r, "read")
  /\ stream' = [stream EXCEPT ![r] = IF stream[r].pos > stream[r].last THEN [@ EXCEPT !.at = "leave"]
                               ELSE [@ EXCEPT !.at = "wait", !.status = 0, !.ctx = IF stream[r].started THEN stream[r].ctx ELSE "deadline"]]
  /\ UNCHANGED <<swarmVars, pins>>

\* Mutant: the deadline's context stays on the reader and is cancelled on return.
PoisonedContext(ctx) == IF ctx = "deadline" THEN "cancelled" ELSE ctx

\* The long-lived context replaces the one of the deadline before that is cancelled.
Promoted(ctx) == "long"

\* A byte that is there is read whatever the context.
ReadByte(r) ==
  /\ At(r, "wait") /\ ~Gone(r) /\ stream[r].pos \in have /\ stream[r].reader = "open"
  /\ stream' = [stream EXCEPT ![r].at = "write", ![r].started = TRUE, ![r].ctx = Promoted(stream[r].ctx)]
  /\ UNCHANGED <<swarmVars, pins>>

\* A read that finds nothing ends with its context, with the reader or with the torrent.
ReaderFails(r) ==
  /\ At(r, "wait")
  /\ \/ stream[r].reader = "closed" /\ stream' = [stream EXCEPT ![r].at = "leave", ![r].cut = "closed"]
     \/ Gone(r) /\ stream' = [stream EXCEPT ![r].at = "leave", ![r].cut = "removed"]
     \/ ~Gone(r) /\ stream[r].pos \notin have /\ stream[r].ctx = "cancelled"
        /\ stream' = [stream EXCEPT ![r].at = "leave", ![r].cut = "context"]
  /\ UNCHANGED <<swarmVars, pins>>
\* The deadline of the first read passes.
StartupTimeout(r) ==
  /\ At(r, "wait") /\ stream[r].ctx = "deadline" /\ stream[r].pos \notin have
  /\ stream' = [stream EXCEPT ![r].at = "leave", ![r].cut = "deadline"] /\ UNCHANGED <<swarmVars, pins>>

\* deadlineWriter.Write: to a client that reads; one that is gone, or reads nothing for
\* the idle timeout, ends the copy.
WriteByte(r) ==
  /\ At(r, "write")
  /\ \/ stream[r].client = "here" /\ stream' = [stream EXCEPT ![r].at = "read", ![r].pos = @ + 1]
     \/ stream[r].client = "gone" /\ stream' = [stream EXCEPT ![r].at = "leave", ![r].cut = "client"]
  /\ UNCHANGED <<swarmVars, pins>>
WriteTimeout(r) ==
  /\ At(r, "write") /\ stream' = [stream EXCEPT ![r].at = "leave", ![r].cut = "idle"] /\ UNCHANGED <<swarmVars, pins>>

\* Mutant: without the once, both closers give the pin back.
UnpinTwice(r) == pins' = [pins EXCEPT ![stream[r].eng] = @ - 1]

\* pinnedReader.Close gives the pin back once.
Unpin(r) == pins' = [pins EXCEPT ![stream[r].eng] = IF stream[r].reader = "open" THEN @ - 1 ELSE @]

\* Mutant: the watcher only notes that the client has gone.
WatchOnly(r) ==
  /\ stream[r].watch = "on" /\ stream[r].client = "gone" /\ stream' = [stream EXCEPT ![r].watch = "off"]
  /\ UNCHANGED <<swarmVars, pins>>

\* The watcher closes the reader under a copy that may be blocked on it.
Watch(r) ==
  /\ stream[r].watch = "on" /\ stream[r].client = "gone" /\ Unpin(r)
  /\ stream' = [stream EXCEPT ![r].watch = "off", ![r].reader = "closed"]
  /\ UNCHANGED swarmVars

\* The handler returns: it retires the watcher, then closes the reader.
Retire(r) ==
  /\ At(r, "leave") /\ stream' = [stream EXCEPT ![r].at = "close", ![r].watch = "off"] /\ UNCHANGED <<swarmVars, pins>>
CloseReader(r) ==
  /\ At(r, "close") /\ Unpin(r)
  /\ stream' = [stream EXCEPT ![r] = Fresh("end")] /\ UNCHANGED swarmVars

-----------------------------------------------------------------------------
Handler(r) ==
  \/ Ready(r) \/ NotReady(r) \/ Elsewhere(r) \/ NewReader(r) \/ (\E h \in Headers(length) : SendHeaders(r, h)) \/ BeginRead(r) \/ ReadByte(r)
  \/ ReaderFails(r) \/ WriteByte(r) \/ Retire(r) \/ CloseReader(r)

StreamNext ==
  \/ LearnMetadata \/ Deliver \/ RemoveTorrent
  \/ \E r \in Streams : Arrive(r) \/ Handler(r) \/ ClientLeaves(r) \/ StartupTimeout(r) \/ WriteTimeout(r) \/ Watch(r)

\* Goroutines run, and the wait for metadata is bounded. Neither swarm nor client owes
\* anything, and no timeout of the copy is relied upon.
StreamFairness == \A r \in Streams : WF_streamVars(Handler(r)) /\ WF_streamVars(Watch(r))

StreamSpec == StreamInit /\ [][StreamNext]_streamVars /\ StreamFairness

StreamType ==
  [at : {"idle", "ready", "open", "head", "read", "wait", "write", "leave", "close", "end"}, kind : {"get", "head", "create"},
   client : {"here", "gone"}, eng : 0 .. MaxRemovals + 1, pos : Nat, last : -1 .. length - 1, reader : {"none", "open", "closed"},
   ctx : {"none", "deadline", "long", "cancelled"}, started : BOOLEAN, watch : {"on", "off"},
   cut : {"no", "closed", "removed", "context", "deadline", "client", "idle"}, status : {0, 200, 206, 416}]
StreamsTypeOK ==
  /\ length \in FileLengths /\ removals \in 0 .. MaxRemovals /\ hasMeta \in BOOLEAN /\ have \subseteq 0 .. length - 1
  /\ pins \in [Instances -> Int] /\ stream \in [Streams -> StreamType]

\* The engine counts one reader for each request that holds one: the handler and its
\* watcher may both close a reader, whose pin goes once (pinnedReader.Close, handleStream).
PinsExact == \A i \in Instances : pins[i] = Cardinality({r \in Streams : stream[r].eng = i /\ stream[r].reader = "open"})

\* The bytes of the file a Range header names.
Named(h) ==
  CASE h.form = "suffix" -> {i \in 0 .. length - 1 : i >= length - h.a}
    [] h.form = "span" -> {i \in 0 .. length - 1 : h.a <= i /\ i <= h.b}
    [] OTHER -> {i \in 0 .. length - 1 : i >= h.a}

\* A copy that has begun is cut short only by its client (gone, or idle too long) or by
\* the removal of the torrent: no deadline of the start and no closed context of it reaches
\* a later read, however long the swarm stalls (pinnedReader.Read).
NoFalseCut ==
  \A r \in Streams : stream[r].started /\ stream[r].at \in {"leave", "close"} /\ stream[r].pos <= stream[r].last =>
    stream[r].client = "gone" \/ Gone(r) \/ stream[r].cut = "idle"

\* A partial answer is of exactly the bytes its header names, and there is at least one;
\* an answer that no range can be satisfied is given only when the header names none
\* (parseRange, checked for every header over the files); and after every step the pins are
\* exact and no copy has been cut without cause.
ServesTheRange ==
  [][/\ StreamsTypeOK' /\ PinsExact' /\ NoFalseCut'
     /\ \A r \in Streams : At(r, "head") => \A h \in Headers(length) : SendHeaders(r, h) =>
          /\ stream'[r].status = 206 => stream'[r].pos .. stream'[r].last = Named(h) /\ Named(h) # {}
          /\ stream'[r].status = 416 => Named(h) = {}]_streamVars

\* Reached and kept in the end: a request whose client has gone is over and its reader
\* released, even when the copy was waiting for a swarm that never answers (handleStream's
\* watcher).
StreamsSettled == \A r \in Streams : stream[r].client = "gone" => At(r, "end")

=============================================================================
