---------------------------- MODULE ProxyTokens ----------------------------
(***************************************************************************)
(* Who may ask the stream proxy for what: the access list, the password    *)
(* and the signed URLs of /generate_url (internal/streamproxy/auth.go), and *)
(* the URLs it hands out itself: in rewritten manifests, in redirects to   *)
(* what an embed page resolves to, and to the recorder (streamproxy.go,    *)
(* hls.go, dash.go, embed.go, extractor.go, record.go).                    *)
(*                                                                         *)
(* A destination is a model value; a request gives it plain or in base64.  *)
(* What the upstream answers is constant: the kind of every destination,   *)
(* what a page resolves to and what a manifest refers to, with the         *)
(* endpoint ManifestRewrite routes it to. A template of an MPD stands for  *)
(* the destinations it may be expanded to. Sealing is perfect.             *)
(***************************************************************************)
EXTENDS Naturals

CONSTANTS
  HasPassword, HasSecret,   \* Config
  Clients, Recorder, Acl,   \* addresses, that of the recorder, and the access list (empty: none)
  Content,                  \* destination -> "page", "hls", "mpd" or "media"
  Resolved,                 \* page -> the endpoint and the destination it resolves to
  Refs,                     \* manifest -> endpoints and destinations it refers to
  Templates,                \* manifest -> its templates
  Under,                    \* template -> the destinations with the sealed prefix
  MaxSeconds, MaxProxyClock \* bounds: expiry_seconds and the clock

Dests == DOMAIN Content
Encoded == {"plain", "base64"} \X Dests
ProxyEndpoints == {"stream", "segment", "hls", "mpd"}
Targets == [ep : ProxyEndpoints, d : Dests]

ASSUME TokensAssumption ==
  /\ {HasPassword, HasSecret} \subseteq BOOLEAN /\ Recorder \in Clients /\ Acl \subseteq Clients
  /\ MaxSeconds \in Nat /\ MaxProxyClock \in Nat
  /\ Content \in [Dests -> {"page", "hls", "mpd", "media"}] /\ Under \in [DOMAIN Under -> SUBSET Dests]
  /\ \A d \in Dests :
       /\ Content[d] = "page" => Resolved[d] \in Targets
       /\ Content[d] \in {"hls", "mpd"} => Refs[d] \subseteq Targets
       /\ Content[d] = "mpd" => Templates[d] \subseteq DOMAIN Under

VARIABLES
  clock,
  grant,    \* the token of /generate_url
  issued,   \* the tokens minted for the sub-URLs of what it gave access to
  shown,    \* history: the destinations that is
  given     \* the URLs handed out last: to whom, and under which credential

tokenVars == <<clock, grant, issued, shown, given>>

\* token: its endpoint, how it is bound to a destination, to which, its expiry and its IP.
Token(ep, bind, d, exp, ip) == [ep |-> ep, bind |-> bind, d |-> d, exp |-> exp, ip |-> ip]
Anywhere == <<"plain", "none">>
NoToken == Token("none", "free", Anywhere, 0, "any")
URL(ep, d, tok, pw) == [ep |-> ep, d |-> d, tok |-> tok, pw |-> pw]

TokenInit ==
  /\ clock = 0 /\ grant = NoToken /\ issued = {} /\ shown = {}
  /\ given = [to |-> Recorder, by |-> NoToken, pw |-> "none", urls |-> {}]

TokenTick == clock < MaxProxyClock /\ clock' = clock + 1 /\ UNCHANGED <<grant, issued, shown, given>>

-----------------------------------------------------------------------------
(* authorize *)

\* verifyToken
Valid(t, c, now) == now <= t.exp /\ t.ip \in {"any", c}

\* The request is for the sealed endpoint and for the sealed destination, as it was written
\* or, for a template, by its decoded beginning.
Bound(t, u) ==
  /\ t.ep = u.ep
  /\ t.bind = "exact" => u.d = t.d
  /\ t.bind = "prefix" => u.d[2] \in Under[t.d[2]]

\* A token, where there is one, decides alone.
Authorize(u, c, now) ==
  /\ Acl = {} \/ c \in Acl
  /\ IF HasSecret /\ u.tok # NoToken THEN Valid(u.tok, c, now) /\ Bound(u.tok, u) ELSE ~HasPassword \/ u.pw = "right"

\* parseOptions: the credential the sub-URLs get. The token is verified a second time.
ParseOptions(u, c, now) ==
  IF u.pw = "none" /\ HasPassword /\ HasSecret /\ u.tok # NoToken /\ Valid(u.tok, c, now)
  THEN [pw |-> "none", exp |-> u.tok.exp, ip |-> u.tok.ip]
  ELSE [pw |-> u.pw, exp |-> 0, ip |-> "any"]

\* Mutant: the sub-token is not bound to the destination.
SubTokenUnbound(opts, ep, bind, d) ==
  IF opts.pw = "none" /\ opts.exp # 0 THEN Token(ep, "free", Anywhere, opts.exp, opts.ip) ELSE NoToken

\* subToken, and when newProxyURLBuilder calls for one.
SubToken(opts, ep, bind, d) ==
  IF opts.pw = "none" /\ opts.exp # 0 THEN Token(ep, bind, d, opts.exp, opts.ip) ELSE NoToken

\* Mutant: the URL is written as it is, the token seals its base64 form.
BuildPlain(opts, ep, d) == URL(ep, <<"plain", d>>, SubToken(opts, ep, "exact", <<"base64", d>>), opts.pw)

\* buildProxyURL
BuildProxyURL(opts, ep, d) == URL(ep, <<"base64", d>>, SubToken(opts, ep, "exact", <<"base64", d>>), opts.pw)

\* dashBuildTemplateURL, with what the player makes of it. A template that has a
\* placeholder in its host is bound to the endpoint only.
BuildTemplateURLs(opts, t) ==
  LET tok == SubToken(opts, "stream", IF Under[t] = Dests THEN "free" ELSE "prefix", <<"prefix", t>>)
  IN {URL("stream", <<"plain", d>>, tok, opts.pw) : d \in Under[t]}

-----------------------------------------------------------------------------
(* The handlers *)

\* HandleGenerateURL: authorised like any request, and it takes the secret. The destination
\* may be left open. One grant is followed.
Generate(c, pw, ep, d, secs, ip) ==
  /\ grant = NoToken /\ HasSecret /\ Authorize(URL("generate", Anywhere, NoToken, pw), c, clock)
  /\ IF d = Anywhere THEN grant' = Token(ep, "free", d, clock + secs, ip) /\ shown' = Dests
                   ELSE grant' = Token(ep, "exact", d, clock + secs, ip) /\ shown' = {d[2]}
  /\ UNCHANGED <<clock, issued, given>>

\* What a request of client c is answered with: these URLs. The time that passes between
\* the two looks at the token is the step of the clock.
HandOut(c, u, urls, now) ==
  LET tokens == {x.tok : x \in urls} \ {NoToken} IN
  /\ clock' = now /\ given' = [to |-> c, by |-> u.tok, pw |-> u.pw, urls |-> urls]
  /\ issued' = issued \cup tokens
  /\ shown' = IF tokens = {} THEN shown ELSE shown \cup {x.d[2] : x \in urls}
  /\ UNCHANGED grant

\* resolveEmbed, in every handler: a page resolves to a destination, which the handler
\* goes on with if it is its own and redirects to if it is another's. The handler of
\* /proxy/stream/segment.* is that of /proxy/stream.
Handler(u) == IF u.ep = "segment" THEN "stream" ELSE u.ep
Elsewhere(u) == Content[u.d[2]] = "page" /\ Resolved[u.d[2]].ep # Handler(u)
Final(u) == IF Content[u.d[2]] = "page" THEN Resolved[u.d[2]].d ELSE u.d[2]
ResolveEmbed(c, u, now) ==
  /\ Elsewhere(u)
  /\ HandOut(c, u, {BuildProxyURL(ParseOptions(u, c, now), Resolved[u.d[2]].ep, Resolved[u.d[2]].d)}, now)

\* hlsServe and dashServe; what is not a manifest of their kind has nothing to rewrite.
HlsServe(c, u, now) ==
  /\ u.ep = "hls" /\ ~Elsewhere(u) /\ Content[Final(u)] = "hls"
  /\ LET opts == ParseOptions(u, c, now)
     IN HandOut(c, u, {BuildProxyURL(opts, r.ep, r.d) : r \in Refs[Final(u)]}, now)
DashServe(c, u, now) ==
  /\ u.ep = "mpd" /\ ~Elsewhere(u) /\ Content[Final(u)] = "mpd"
  /\ LET opts == ParseOptions(u, c, now)
     IN HandOut(c, u, {BuildProxyURL(opts, r.ep, r.d) : r \in Refs[Final(u)]}
                       \cup UNION {BuildTemplateURLs(opts, t) : t \in Templates[Final(u)]}, now)

\* HandleExtractor with redirect_stream; no token is issued for its endpoint.
HandleExtractor(c, u) ==
  /\ Content[u.d[2]] = "page" /\ Authorize(u, c, clock)
  /\ HandOut(c, u, {BuildProxyURL(ParseOptions(u, c, clock), Resolved[u.d[2]].ep, Resolved[u.d[2]].d)}, clock)

\* recordEndpoint goes by the extension, or by the first bytes, which may not be had.
RecordEndpoints(d) == (IF Content[d] = "media" THEN {"stream"} ELSE {Content[d]}) \cup {"hls"}
\* ResolveRecordSource of a destination: the recorder gets the configured password.
Own(ep, d) == URL(ep, <<"base64", d>>, NoToken, IF HasPassword THEN "right" ELSE "none")
RecordSource(d) ==
  LET u == URL("record", <<"plain", d>>, NoToken, "none") IN
  \E ep \in IF Content[d] = "page" THEN {Resolved[d].ep} ELSE RecordEndpoints(d) :
    HandOut(Recorder, u, {Own(ep, Final(u))}, clock)
\* ResolveRecordSource of a URL of the proxy itself: as it is, with the password if it has
\* no credential.
RecordSelf(u) ==
  LET v == IF HasPassword /\ u.pw = "none" /\ u.tok = NoToken THEN [u EXCEPT !.pw = "right"] ELSE u
  IN HandOut(Recorder, v, {v}, clock)

-----------------------------------------------------------------------------
\* A request to one of the proxy's endpoints, authorised before anything else. Time may pass
\* between the two looks at its token.
Serve(c, u) ==
  /\ Authorize(u, c, clock)
  /\ \E now \in clock .. MaxProxyClock : ResolveEmbed(c, u, now) \/ HlsServe(c, u, now) \/ DashServe(c, u, now)

TokenNext ==
  \/ TokenTick
  \/ \E c \in Clients, pw \in {"none", "right"}, ep \in ProxyEndpoints, d \in Encoded \cup {Anywhere},
        secs \in 1 .. MaxSeconds, ip \in Clients \cup {"any"} : Generate(c, pw, ep, d, secs, ip)
  \* The URLs handed out, and any other with the tokens known.
  \/ \E c \in Clients, u \in given.urls : Serve(c, u)
  \/ \E c \in Clients, ep \in ProxyEndpoints, d \in Encoded, pw \in {"none", "right", "wrong"},
        tok \in issued \cup {grant, NoToken} : Serve(c, URL(ep, d, tok, pw))
  \/ \E c \in Clients, d \in Dests, pw \in {"none", "right"} : HandleExtractor(c, URL("extractor", <<"plain", d>>, NoToken, pw))
  \/ \E d \in Dests : RecordSource(d)
  \/ \E u \in given.urls : RecordSelf(u)

TokenSpec == TokenInit /\ [][TokenNext]_tokenVars

Passwords == {"none", "right", "wrong"}
Tokens ==
  [ep : ProxyEndpoints \cup {"none"}, bind : {"exact", "prefix", "free"},
   d : Encoded \cup {Anywhere} \cup ({"prefix"} \X DOMAIN Under), exp : 0 .. MaxProxyClock + MaxSeconds, ip : Clients \cup {"any"}]
URLs == [ep : ProxyEndpoints, d : Encoded, tok : Tokens, pw : Passwords]
TokenTypeOK ==
  /\ clock \in 0 .. MaxProxyClock /\ grant \in Tokens /\ issued \subseteq Tokens /\ shown \subseteq Dests
  /\ given \in [to : Clients, by : Tokens, pw : Passwords, urls : SUBSET URLs]

\* Whatever tokens were minted along the way, one gives access only until the expiry of the
\* grant it descends from, from the address that was bound, and to the destination granted
\* or one that the manifests and redirects below it lead to (authorize, subToken).
GrantBounds ==
  TokenTypeOK /\ \A t \in (issued \cup {grant}) \ {NoToken}, c \in Clients, ep \in ProxyEndpoints, d \in Encoded :
    Authorize(URL(ep, d, t, "none"), c, clock) =>
      clock <= grant.exp /\ grant.ip \in {"any", c} /\ d[2] \in shown

\* Every URL the proxy hands out is one it accepts from the client it was handed to, as long
\* as the token the client came with is valid (parseOptions, buildProxyURL,
\* dashBuildTemplateURL, ResolveRecordSource); except where a wrong password, which the
\* token overrode, is passed on.
UrlsWork ==
  \A u \in given.urls :
    /\ Acl = {} \/ given.to \in Acl
    /\ given.pw # "wrong"
    /\ given.by = NoToken \/ Valid(given.by, given.to, clock)
    => Authorize(u, given.to, clock)

=============================================================================
