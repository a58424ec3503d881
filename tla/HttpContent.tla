----------------------------- MODULE HttpContent -----------------------------
(***************************************************************************)
(* What an HTTP server of the node answers (sprintserver/                  *)
(* http_server_factory.go, utils.go).  The factory registers the API       *)
(* gateway, the answers to certificate challenges, the pages and the       *)
(* assets in one multiplexer; assets come in bundles, plain or compressed, *)
(* and the handlers choose between them by what the client accepts.        *)
(* Registering is a state machine (a pattern that is registered twice      *)
(* makes the multiplexer panic); the handlers keep no state and are        *)
(* operators of a request.                                                 *)
(***************************************************************************)
EXTENDS Naturals, Sequences

CONSTANTS MaxBundles,   \* bound: bundles of resources
          MaxPages,     \* bound: pages
          PagePatterns  \* patterns that pages may have

ASSUME ContentAssumption == MaxBundles \in Nat /\ MaxPages \in Nat

Index == "index.html"
Names == {Index, "app.js"}
API == "/api/"
ACME == "/.well-known/acme-challenge/"
AssetPatterns == {"/", "/index.html", "/app.js"}
Patterns == {API, ACME} \cup AssetPatterns \cup PagePatterns
Options == {"gateway", "pages", "assets"}

\* A glue.ResourceSource: assets, assets under a name that ends in "gzip", or
\* something else, and the files it has.
Bundles == [kind : {"plain", "gzip", "other"}, names : (SUBSET Names) \ {{}}]
SeqUpTo(S, n) == UNION {[1..m -> S] : m \in 0..n}

VARIABLES options,      \* the options of the server
          autocert,     \* there is an AutocertManager
          pages,        \* the patterns of the pages
          bundles,      \* the resources
          phase,        \* where Object is
          page,         \* the page it has come to
          left,         \* the patterns of groupAssets not yet registered
          visited,      \* visitedPatterns
          mux           \* mux[p]: the handler of a registered pattern

config == <<options, autocert, pages, bundles>>
vars == <<config, phase, page, left, visited, mux>>

NoHandler == [kind |-> "none"]
Handlers ==
    [kind : {"api", "acme"}] \cup [kind : {"page"}, page : 1..MaxPages]
        \cup [kind : {"asset"}, plainH : 0..MaxBundles, gzipH : 0..MaxBundles]

TypeOK ==
    /\ options \subseteq Options
    /\ autocert \in BOOLEAN
    /\ pages \in SeqUpTo(PagePatterns, MaxPages)
    /\ bundles \in SeqUpTo(Bundles, MaxBundles)
    /\ phase \in {"api", "acme", "pages", "assets", "up", "failed"}
    /\ page \in 1..(Len(pages) + 1)
    /\ left \subseteq AssetPatterns
    /\ visited \subseteq Patterns
    /\ mux \in [Patterns -> Handlers \cup {NoHandler}]

Init ==
    /\ options \in SUBSET Options
    /\ autocert \in BOOLEAN
    /\ pages \in SeqUpTo(PagePatterns, MaxPages)
    /\ bundles \in SeqUpTo(Bundles, MaxBundles)
    /\ phase = "api"
    /\ page = 1
    /\ left = {}
    /\ visited = {}
    /\ mux = [p \in Patterns |-> NoHandler]

-----------------------------------------------------------------------------
(* The assets, grouped by pattern.                                         *)

\* The files that stand behind a pattern: "/" is another name of the index.
FileOf(p) == IF p = "/app.js" THEN "app.js" ELSE Index

\* The bundle whose handler is set last, 0 for none.
LastBundle(p, kind) ==
    LET has == {i \in DOMAIN bundles : bundles[i].kind = kind /\ FileOf(p) \in bundles[i].names}
    IN  IF has = {} THEN 0 ELSE CHOOSE i \in has : \A j \in has : j <= i

servingAsset(p) == [kind |-> "asset", plainH |-> LastBundle(p, "plain"), gzipH |-> LastBundle(p, "gzip")]

groupAssets == {p \in AssetPatterns : servingAsset(p).plainH # 0 \/ servingAsset(p).gzipH # 0}

-----------------------------------------------------------------------------
(* implHttpServerFactory.Object                                            *)

\* http.ServeMux.Handle panics for a pattern it has, and the panic becomes the
\* error of Object.
Handle(p, h, next) ==
    /\ mux' = IF mux[p] = NoHandler THEN [mux EXCEPT ![p] = h] ELSE mux
    /\ phase' = IF mux[p] = NoHandler THEN next ELSE "failed"

RegisterGateway ==
    /\ phase = "api"
    /\ IF "gateway" \in options THEN Handle(API, [kind |-> "api"], "acme")
                                ELSE phase' = "acme" /\ UNCHANGED mux
    /\ UNCHANGED <<config, page, left, visited>>

RegisterAutocert ==
    /\ phase = "acme"
    /\ IF autocert THEN Handle(ACME, [kind |-> "acme"], "pages")
                   ELSE phase' = "pages" /\ UNCHANGED mux
    /\ UNCHANGED <<config, page, left, visited>>

\* Mutant of RegisterPage: visitedPatterns has every pattern registered so far,
\* so that a page gives way to the gateway or the challenges.
RegisterPageGivesWay ==
    /\ phase = "pages"
    /\ "pages" \in options
    /\ page <= Len(pages)
    /\ page' = page + 1
    /\ visited' = visited \cup {pages[page]}
    /\ IF mux[pages[page]] # NoHandler THEN UNCHANGED <<phase, mux>>
       ELSE Handle(pages[page], [kind |-> "page", page |-> page], "pages")
    /\ UNCHANGED <<config, left>>

\* A pattern that a page has already is skipped.
RegisterPage ==
    /\ phase = "pages"
    /\ "pages" \in options
    /\ page <= Len(pages)
    /\ page' = page + 1
    /\ visited' = visited \cup {pages[page]}
    /\ IF pages[page] \in visited THEN UNCHANGED <<phase, mux>>
       ELSE Handle(pages[page], [kind |-> "page", page |-> page], "pages")
    /\ UNCHANGED <<config, left>>

\* Mutant of PagesDone: the assets are registered by name, without the slash.
PagesDoneByName ==
    /\ phase = "pages"
    /\ "pages" \in options => page > Len(pages)
    /\ phase' = "assets"
    /\ left' = IF "assets" \in options THEN {FileOf(p) : p \in groupAssets} ELSE {}
    /\ UNCHANGED <<config, page, visited, mux>>

PagesDone ==
    /\ phase = "pages"
    /\ "pages" \in options => page > Len(pages)
    /\ phase' = "assets"
    /\ left' = IF "assets" \in options THEN groupAssets ELSE {}
    /\ UNCHANGED <<config, page, visited, mux>>

\* The assets, in any order.  One whose pattern a page has is only warned of
\* and registered all the same.
RegisterAsset(p) ==
    /\ phase = "assets"
    /\ p \in left
    /\ left' = left \ {p}
    /\ visited' = visited \cup {p}
    /\ Handle(p, servingAsset(p), "assets")
    /\ UNCHANGED <<config, page>>

Created ==
    /\ phase = "assets"
    /\ left = {}
    /\ phase' = "up"
    /\ UNCHANGED <<config, page, left, visited, mux>>

Next ==
    \/ RegisterGateway \/ RegisterAutocert \/ RegisterPage \/ PagesDone
    \/ \E p \in AssetPatterns : RegisterAsset(p)
    \/ Created

Spec == Init /\ [][Next]_vars

-----------------------------------------------------------------------------
(* Requests.                                                               *)

URLs == {"/", "/index.html", "/app.js", "/api/x", "/other"}
Requests == [url : URLs, gzip : BOOLEAN, range : BOOLEAN]

\* A reply: whose content, packed or not, and whether it is labelled as packed.
Reply(status, of, packed, label) == [status |-> status, of |-> of, packed |-> packed, label |-> label]
ErrorText == <<"error">>
File(i, name) == <<"file", i, name>>

\* The pattern of a request: its own, or the subtree it is in.
Match(url) ==
    IF url \in Patterns /\ mux[url] # NoHandler THEN url
    ELSE IF url = "/api/x" /\ mux[API] # NoHandler THEN API ELSE "/"

\* http.FileServer of a bundle.
FileServer(i, r) ==
    LET packed == bundles[i].kind = "gzip"
        name == IF r.url = "/" THEN Index ELSE "app.js"
    IN  IF r.url = "/index.html" THEN Reply(301, ErrorText, FALSE, FALSE)
        ELSE IF r.url \in {"/", "/app.js"} /\ name \in bundles[i].names
             THEN Reply(IF r.range THEN 206 ELSE 200, File(i, name), packed, FALSE)
             ELSE Reply(404, ErrorText, FALSE, FALSE)

\* gzipWriter: a reply with status 200 is labelled.  Mutant: any reply is.
gzipWriterAlways(reply) == [reply EXCEPT !.label = TRUE]
gzipWriter(reply) == [reply EXCEPT !.label = (reply.status = 200)]

\* servingAsset.ServeHTTP
ServeAsset(h, r) ==
    IF h.gzipH # 0 /\ r.gzip THEN gzipWriter(FileServer(h.gzipH, r))
    ELSE IF h.plainH # 0 THEN FileServer(h.plainH, r)
    ELSE Reply(404, ErrorText, FALSE, FALSE)

\* Pages that are templates, and the one at "/" that sends clients to https.
TemplatePage(i) == Reply(200, <<"page", i>>, FALSE, FALSE)
RedirectHttpsPage(i) == Reply(301, <<"page", i>>, FALSE, FALSE)
ServePage(i) == IF pages[i] = "/" THEN RedirectHttpsPage(i) ELSE TemplatePage(i)

Serve(r) ==
    LET h == mux[Match(r.url)]
    IN  CASE h.kind = "none" -> Reply(404, ErrorText, FALSE, FALSE)
          [] h.kind \in {"api", "acme"} -> Reply(200, <<h.kind>>, FALSE, FALSE)
          [] h.kind = "page" -> ServePage(h.page)
          [] h.kind = "asset" -> ServeAsset(h, r)

\* bufWriter.Unpack.  gzip.NewReader has taken the header off the buffer when
\* it finds that the body is not packed, so that what is left has lost its
\* beginning; so has a part of a packed file.
Unpack(reply) ==
    IF reply.packed /\ reply.status = 200 THEN [reply EXCEPT !.packed = FALSE]
    ELSE [reply EXCEPT !.of = <<"rest of">> \o @]

\* gzipHandler.ServeHTTP around the file server of a packed bundle.
ServeUnpacked(i, r) == IF r.gzip THEN gzipWriter(FileServer(i, r)) ELSE Unpack(FileServer(i, r))

\* FindGatewayHandler, which the control server calls for the server it finds.
FindGatewayHandler == LET h == mux[Match(API)] IN IF h.kind = "api" THEN h ELSE NoHandler

-----------------------------------------------------------------------------
\* The server, once created, gives every client that accepts the encoding of
\* some bundle the content of the file it asks for, at the file's own URL and
\* at "/" for the index; a packed body goes only to clients that accept it and
\* is labelled, an error text or a redirection never is.  Partial replies (206)
\* are left out: they are packed and not labelled.  GzipHandler around a packed
\* bundle serves every client.  groupAssets, servingAsset.ServeHTTP, gzipWriter,
\* gzipHandler.ServeHTTP.
AssetsServed ==
    phase = "up" /\ "assets" \in options =>
        \A r \in Requests :
            LET reply == Serve(r)
                offered == {i \in DOMAIN bundles :
                              /\ FileOf(r.url) \in bundles[i].names
                              /\ bundles[i].kind = "plain" \/ (bundles[i].kind = "gzip" /\ r.gzip)}
            IN  /\ r.url \in {"/", "/app.js"} /\ offered # {} =>
                      \E i \in offered : reply.of = File(i, FileOf(r.url))
                /\ reply.packed => r.gzip
                /\ reply.status # 206 => reply.packed = reply.label
                /\ \A i \in DOMAIN bundles :
                     LET unpacked == ServeUnpacked(i, r)
                     IN  bundles[i].kind = "gzip" /\ unpacked.status = 200 =>
                           /\ unpacked.of = File(i, FileOf(r.url))
                           /\ unpacked.packed = r.gzip /\ unpacked.label = r.gzip

\* No asset and no second page takes a page's URL or the API away: the first
\* page of a pattern answers there, and the control server finds the gateway to
\* register with.  Two that want the same pattern fail the creation of the
\* server instead.  implHttpServerFactory.Object, FindGatewayHandler.
RoutesKept ==
    phase = "up" =>
        /\ "gateway" \in options <=> FindGatewayHandler # NoHandler
        /\ "pages" \in options =>
             \A i \in DOMAIN pages :
                 (\A j \in 1..(i - 1) : pages[j] # pages[i]) => mux[pages[i]] = [kind |-> "page", page |-> i]
=============================================================================
