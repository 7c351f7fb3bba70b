-------------------------- MODULE ManifestRewrite --------------------------
(***************************************************************************)
(* The rewriting of manifests by the stream proxy: hlsRewrite goes through *)
(* a playlist line by line (internal/streamproxy/hls.go), dashRewrite      *)
(* through an MPD token by token (internal/streamproxy/dash.go).           *)
(*                                                                         *)
(* What a URI is called decides how it is routed: "own" has one of the     *)
(* segment extensions, "bare" has none of them, "m3u8" contains .m3u8 and  *)
(* "data" has a scheme the proxy cannot fetch. A URL of an MPD is the set  *)
(* of the tokens it was put together from, in their order, the MPD's own   *)
(* URL being {}; the lines to prefetch are a set in their order, too.      *)
(***************************************************************************)
EXTENDS Integers, Sequences, FiniteSets

CONSTANTS
  MaxLines,    \* bound: lines of a playlist
  MaxTokens,   \* bound: tokens of an MPD
  MaxDepth,    \* bound: elements open at a time
  Prebuffer    \* segments to prefetch

ASSUME RewriteAssumption == MaxLines \in Nat /\ MaxTokens \in Nat /\ MaxDepth \in Nat /\ Prebuffer \in Nat

VARIABLES
  playlist, hls, prebuffered,   \* the body, the loop of hlsRewrite, what hlsSegmentURLs returned
  mpd, dash                    \* the tokens read so far, the loop of dashRewrite

hlsVars == <<playlist, hls, prebuffered>>
dashVars == <<mpd, dash>>
rewriteVars == <<hlsVars, dashVars>>

Line(t, r) == [tag |-> t, ref |-> r]
Lines ==
  {Line("uri", r) : r \in {"own", "bare", "m3u8", "data"}}
    \cup {Line("map", "own"), Line("part", "bare"), Line("list", "bare"), Line("key", "bare"), Line("key", "data")}
    \cup {Line(t, "none") : t \in {"inf", "map", "note", "blank"}}

\* The frame of the document itself: its base is the MPD's URL. Ghost: the token a frame
\* was opened by.
Root == [at |-> 0, base |-> {}, set |-> FALSE, name |-> "doc"]

RewriteInit ==
  /\ playlist = <<>> /\ prebuffered = {} /\ hls = [at |-> "fetch", next |-> 1, variant |-> FALSE, out |-> <<>>]
  /\ mpd = <<>> /\ dash = [at |-> "read", frames |-> <<Root>>, inBaseURL |-> FALSE, out |-> <<>>]

-----------------------------------------------------------------------------
(* hlsRewrite *)

\* The upstream's answer.
FetchPlaylist ==
  /\ hls.at = "fetch" /\ Len(playlist) < MaxLines
  /\ \E l \in Lines : playlist' = Append(playlist, l)
  /\ UNCHANGED <<hls, prebuffered, dashVars>>

\* The first n of the lines S.
Foremost(S, n) == {i \in S : Cardinality({j \in S : j <= i}) <= n}
\* hlsSegmentURLs, as the numbers of the lines: no regard for what precedes a line.
SegmentLines(lines, max) ==
  Foremost({i \in 1 .. Len(lines) : lines[i].tag = "uri" /\ lines[i].ref \in {"own", "bare"}}, max)

Prefetch ==
  /\ hls.at = "fetch" /\ hls' = [hls EXCEPT !.at = "lines"]
  /\ prebuffered' = SegmentLines(playlist, Prebuffer)
  /\ UNCHANGED <<playlist, dashVars>>

\* segDefault: any #EXT-X-MAP in the playlist.
SegDefault == IF \E i \in 1 .. Len(playlist) : playlist[i].tag = "map" THEN "segment.mp4" ELSE "segment.ts"
\* hlsSegmentEndpoint
SegmentEndpoint(r, def) == IF r = "own" THEN "segment.own" ELSE def

\* Mutant: every tag ends the wait for the variant's URI.
EndpointForgets(l, variant) ==
  IF l.ref \in {"none", "data"} THEN "verbatim" ELSE
  CASE l.tag = "uri" -> IF l.ref = "m3u8" \/ (variant /\ playlist[hls.next - 1].tag = "inf") THEN "hls" ELSE SegmentEndpoint(l.ref, SegDefault)
    [] l.tag = "key" -> "stream"
    [] l.tag = "map" -> SegmentEndpoint(l.ref, "segment.mp4")
    [] l.tag = "part" -> SegmentEndpoint(l.ref, SegDefault)
    [] l.tag = "list" -> "hls"

\* Where a line's URI is routed; "verbatim" where the line is left as it is.
Endpoint(l, variant) ==
  IF l.ref \in {"none", "data"} THEN "verbatim" ELSE
  CASE l.tag = "uri" -> IF l.ref = "m3u8" \/ variant THEN "hls" ELSE SegmentEndpoint(l.ref, SegDefault)
    [] l.tag = "key" -> "stream"
    [] l.tag = "map" -> SegmentEndpoint(l.ref, "segment.mp4")
    [] l.tag = "part" -> SegmentEndpoint(l.ref, SegDefault)
    [] l.tag = "list" -> "hls"

RewriteLine ==
  /\ hls.at = "lines" /\ hls.next <= Len(playlist)
  /\ LET l == playlist[hls.next] IN
     hls' = [hls EXCEPT !.next = hls.next + 1, !.out = Append(hls.out, Endpoint(l, hls.variant)),
                        !.variant = (l.tag = "inf" \/ (hls.variant /\ l.tag # "uri"))]
  /\ UNCHANGED <<playlist, prebuffered, dashVars>>

PlaylistDone ==
  /\ hls.at = "lines" /\ hls.next > Len(playlist) /\ hls' = [hls EXCEPT !.at = "done"]
  /\ UNCHANGED <<playlist, prebuffered, dashVars>>

-----------------------------------------------------------------------------
(* dashRewrite *)

Top == Len(dash.frames)
\* resolveURL: an absolute reference stands alone.
ResolveURL(base, ref, at) == IF ref = "abs" THEN {at} ELSE base \cup {at}
Reading(t) == dash.at = "read" /\ Len(mpd) < MaxTokens /\ mpd' = Append(mpd, t) /\ UNCHANGED hlsVars
Position == Len(mpd) + 1

\* A start tag: its children inherit the base in effect; the URL attributes of
\* SegmentTemplate, SegmentURL and Initialization ("ref") are resolved against it.
\* The root is the MPD element, and by the schema a BaseURL has no elements in it.
StartElement(name, ref) ==
  /\ Reading([kind |-> "start", name |-> name, ref |-> ref])
  /\ Top <= MaxDepth /\ dash.frames[Top].name # "BaseURL" /\ (Top = 1 => name = "el")
  /\ LET base == dash.frames[Top].base IN
     dash' = [dash EXCEPT
                !.frames = Append(dash.frames, [at |-> Position, base |-> base, set |-> FALSE, name |-> name]),
                !.inBaseURL = dash.inBaseURL \/ name = "BaseURL",
                !.out = IF name # "ref" THEN dash.out
                        ELSE Append(dash.out, [at |-> Position, url |-> ResolveURL(base, ref, Position)])]

\* An end tag that does not match the open element: the document is passed on unchanged.
EndElement(matches) ==
  /\ Reading([kind |-> "end", name |-> IF matches THEN dash.frames[Top].name ELSE "other", ref |-> "none"])
  /\ IF Top = 1 \/ ~matches THEN dash' = [dash EXCEPT !.at = "unchanged"]
     ELSE dash' = [dash EXCEPT !.inBaseURL = FALSE, !.frames = SubSeq(dash.frames, 1, Top - 1)]

\* Mutant: the base that is set is that of the BaseURL element itself.
WithBaseInside(frames, url) == [frames EXCEPT ![Len(frames)].base = url, ![Len(frames)].set = TRUE]

\* The frame below the BaseURL's own is the element whose base it defines; only the first
\* one counts.
WithBase(frames, url) ==
  LET pi == Len(frames) - 1 IN
  IF frames[pi].set THEN frames ELSE [frames EXCEPT ![pi].base = url, ![pi].set = TRUE]

\* Text: the URL of a BaseURL, blanks around it, or anything else.
CharData(ref) ==
  /\ Reading([kind |-> "text", name |-> "none", ref |-> ref])
  /\ IF ~dash.inBaseURL \/ ref = "blank" THEN UNCHANGED dash
     ELSE LET url == ResolveURL(dash.frames[Top - 1].base, ref, Position) IN
          dash' = [dash EXCEPT !.frames = WithBase(dash.frames, url), !.inBaseURL = FALSE,
                               !.out = Append(dash.out, [at |-> Position, url |-> url])]

EndOfMPD ==
  /\ dash.at = "read" /\ dash' = [dash EXCEPT !.at = IF Top = 1 THEN "rewritten" ELSE "unchanged"]
  /\ UNCHANGED <<mpd, hlsVars>>

-----------------------------------------------------------------------------
HlsNext == FetchPlaylist \/ Prefetch \/ RewriteLine \/ PlaylistDone
DashNext ==
  \/ StartElement("el", "none") \/ StartElement("BaseURL", "none")
  \/ \E r \in {"rel", "abs"} : StartElement("ref", r)
  \/ \E m \in BOOLEAN : EndElement(m)
  \/ \E r \in {"rel", "abs", "blank"} : CharData(r)
  \/ EndOfMPD
\* A request is for one or the other.
RewriteNext ==
  \/ mpd = <<>> /\ dash.at = "read" /\ HlsNext
  \/ playlist = <<>> /\ hls.at = "fetch" /\ DashNext
RewriteSpec == RewriteInit /\ [][RewriteNext]_rewriteVars

Endpoints == {"verbatim", "hls", "stream", "segment.own", "segment.ts", "segment.mp4"}
MpdTokens == [kind : {"start", "end", "text"}, name : {"el", "BaseURL", "ref", "other", "doc", "none"}, ref : {"rel", "abs", "blank", "none"}]
Frames == [at : Nat, base : SUBSET (1 .. MaxTokens), set : BOOLEAN, name : {"doc", "el", "BaseURL", "ref"}]
RewriteTypeOK ==
  /\ playlist \in Seq(Lines) /\ prebuffered \subseteq 1 .. MaxLines
  /\ hls \in [at : {"fetch", "lines", "done"}, next : 1 .. MaxLines + 1, variant : BOOLEAN, out : Seq(Endpoints)]
  /\ mpd \in Seq(MpdTokens)
  /\ dash \in [at : {"read", "unchanged", "rewritten"}, inBaseURL : BOOLEAN, frames : Seq(Frames),
               out : Seq([at : 1 .. MaxTokens, url : SUBSET (1 .. MaxTokens)])]

-----------------------------------------------------------------------------
(* What the routing is to be, said of whole documents *)

\* The URI of a variant: the next URI after #EXT-X-STREAM-INF, whatever tags are between.
IsVariant(i) ==
  \E j \in 1 .. i - 1 : playlist[j].tag = "inf" /\ \A k \in j + 1 .. i - 1 : playlist[k].tag # "uri"
NamesPlaylist(i) == playlist[i].tag = "list" \/ (playlist[i].tag = "uri" /\ (playlist[i].ref = "m3u8" \/ IsVariant(i)))

\* Line i is routed right: to the playlist endpoint exactly when it names a playlist, a
\* segment without an extension of its own labelled with the container of the whole
\* playlist, and what cannot be proxied untouched.
Fits(endpoint, i) ==
  /\ endpoint = "hls" <=> (playlist[i].ref \notin {"none", "data"} /\ NamesPlaylist(i))
  /\ endpoint = "segment.ts" => \A j \in 1 .. Len(playlist) : playlist[j].tag # "map"
  /\ endpoint = "segment.mp4" => \E j \in 1 .. Len(playlist) : playlist[j].tag = "map"
  /\ endpoint = "verbatim" <=> playlist[i].ref \in {"none", "data"}

\* Every line gone through is (hlsRewrite's routing rules).
HlsRouted == \A i \in 1 .. Len(hls.out) : Fits(hls.out[i], i)

\* In a playlist without variants, what is prefetched is the first of the segments the
\* player is told to ask for (hlsSegmentURLs and hlsRewrite agree on every line).
PrefetchMatches ==
  hls.at = "done" /\ (\A i \in 1 .. Len(playlist) : playlist[i].tag # "inf") =>
    LET segments == {i \in 1 .. Len(playlist) :
                       playlist[i].tag = "uri" /\ hls.out[i] \in {"segment.own", "segment.ts", "segment.mp4"}}
    IN prebuffered = Foremost(segments, Prebuffer)

\* The number of elements open before token i.
Depth(i) == Cardinality({j \in 1 .. i - 1 : mpd[j].kind = "start"}) - Cardinality({j \in 1 .. i - 1 : mpd[j].kind = "end"})
\* Token k opens an element that is still open before token i.
Encloses(k, i) == mpd[k].kind = "start" /\ \A j \in k + 1 .. i : Depth(j) > Depth(k)
Enclosing(i) == {k \in 1 .. i - 1 : Encloses(k, i)}
\* The element a token is directly in; 0 is the document.
Innermost(S) == IF S = {} THEN 0 ELSE CHOOSE k \in S : \A j \in S : j <= k
Parent(i) == Innermost(Enclosing(i))

\* Text m is the URL of p, a BaseURL of element k: the first in it that is not blank.
URLOf(m, p, k) ==
  /\ mpd[m].kind = "text" /\ mpd[m].ref # "blank" /\ \A j \in p + 1 .. m - 1 : mpd[j].ref = "blank"
  /\ mpd[p].name = "BaseURL" /\ p = Parent(m) /\ k = Parent(p)
\* The URLs before token i that element k is given, and the one that counts.
BaseTexts(k, i) == {m \in 1 .. i - 1 : \E p \in 1 .. m - 1 : URLOf(m, p, k)}
FirstBase(k, i) == {m \in BaseTexts(k, i) : \A j \in BaseTexts(k, i) : m <= j}

\* The URL of token i by ISO/IEC 23009-1: its own reference, after the first BaseURL of
\* each of the elements around it, from the last absolute one on.
InEffect(i, around) ==
  LET path == {m \in 1 .. i : m = i \/ \E k \in around : m \in FirstBase(k, i)}
  IN {m \in path : \A j \in path : j > m => mpd[j].ref # "abs"}

\* A URL put out is resolved against the base in effect where it stands.
WellResolved(o) ==
  \/ mpd[o.at].name = "ref" /\ o.url = InEffect(o.at, Enclosing(o.at) \cup {0})
  \/ \E p \in 1 .. o.at - 1, k \in 0 .. o.at - 1 :
       /\ URLOf(o.at, p, k)
       /\ BaseTexts(k, o.at) = {} => o.url = InEffect(o.at, (Enclosing(o.at) \cup {0}) \ {p, k})

\* So is every URL of a segment, and the first BaseURL of every element, however the
\* elements are nested and whatever was closed before (dashRewrite's stack of bases).
DashResolved == \A o \in {dash.out[n] : n \in 1 .. Len(dash.out)} : WellResolved(o)

\* A rewritten manifest leads the player to what the original names, through the endpoint
\* that can serve it, for every arrangement of lines and elements (hlsRewrite,
\* hlsSegmentURLs, dashRewrite).
ManifestsRouted == RewriteTypeOK /\ HlsRouted /\ PrefetchMatches /\ DashResolved

=============================================================================
