------------------------------ MODULE MCLoads ------------------------------
(***************************************************************************)
(* Archives and Usenet posts: the sessions of both kinds, the responses    *)
(* from an archive's entry, and the assembly of a file from its articles.  *)
(* A session's life does not depend on what is read from it but for the    *)
(* reader's pin, which is part of its own module, so that a behaviour of   *)
(* the four is one of each. A run takes the steps of one part and leaves   *)
(* the others in a first state.                                            *)
(***************************************************************************)
EXTENDS ArchiveSessions, ArchiveEntry, NZBAssembly, NZBSessions

\* Two archives under one key, and one under another.
SomeTargets == {<<"k1", "p1">>, <<"k1", "p2">>, <<"k2", "p1">>}

\* A file of four bytes in three articles. What a poster may have written of them: the
\* truth; nothing; one article without its range, or with one longer than its data; and a
\* size that all of them exaggerate, beyond what the server accepts or not.
ArticleLens == <<2, 1, 1>>
InRange(b, e, size) == [size |-> size, part |-> TRUE, begin |-> b, end |-> e]
NoRange(size) == [size |-> size, part |-> FALSE, begin |-> 0, end |-> 0]
Truth == <<InRange(1, 2, 4), InRange(3, 3, 4), InRange(4, 4, 4)>>
TooLarge == [i \in 1 .. 3 |-> [Truth[i] EXCEPT !.size = 5]]
SomePosts ==
  {[cap |-> 4, head |-> h] : h \in {Truth, [i \in 1 .. 3 |-> NoRange(4)], [Truth EXCEPT ![2] = NoRange(4)],
                                     [Truth EXCEPT ![1] = InRange(1, 3, 4)], TooLarge}}
  \cup {[cap |-> 5, head |-> TooLarge]}

VARIABLE part

loadVars == <<part, arcVars, entryVars, asmVars, nzbVars>>

\* Of the parts that take no steps one first state is enough.
LoadInit ==
  /\ part \in {"archive", "entry", "assembly", "nzb"}
  /\ ArcInit /\ EntryInit /\ AsmInit /\ NzbInit
  /\ part # "entry" => entry = [kind |-> "tar", content |-> "good"]
  /\ part # "assembly" => post = [cap |-> 4, head |-> Truth]

LoadNext ==
  \/ part = "archive" /\ ArcNext /\ UNCHANGED <<part, entryVars, asmVars, nzbVars>>
  \/ part = "entry" /\ EntryNext /\ UNCHANGED <<part, arcVars, asmVars, nzbVars>>
  \/ part = "assembly" /\ AsmNext /\ UNCHANGED <<part, arcVars, entryVars, nzbVars>>
  \/ part = "nzb" /\ NzbNext /\ UNCHANGED <<part, arcVars, entryVars, asmVars>>

\* The fairness of each part, while it takes steps.
LoadFairness ==
  /\ WF_arcVars(part = "archive" /\ \E r \in ArcReqs : ArcStep(r) \/ ArcDestroy(r) \/ ArcSweep(r))
  /\ WF_entryVars(part = "entry" /\ ((\E r \in Readers : ReaderStep(r)) \/ (\E f \in Flights : FlightStep(f)) \/ Verified \/ RemoveFiles))
  /\ WF_asmVars(part = "assembly" /\ ((\E w \in AsmWorkers : WorkerRuns(w)) \/ (\E r \in AsmReaders : AwaitSize(r) \/ AwaitRun(r))))
  /\ WF_nzbVars(part = "nzb" /\ ((\E r \in NzbReqs : NzbRuns(r) \/ Discard(r)) \/ SweepStale))

LoadSpec == LoadInit /\ [][LoadNext]_loadVars /\ LoadFairness

\* Every create, response and assembly comes to its end, whatever fails, is replaced or is
\* restarted on the way, and what is then on disk belongs to a session or to a response.
LoadsSettle == <>[](ArcSettled /\ EntrySettled /\ (part = "assembly" => AsmSettled) /\ NzbSettled)

=============================================================================
