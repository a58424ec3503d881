-------------------------- MODULE HttpContentProofs --------------------------
(***************************************************************************)
(* Proofs about HttpContent, for any number of bundles and pages and any   *)
(* patterns of pages.  The multiplexer never replaces a handler, so what   *)
(* Object registers first stays, and a server that comes up has all of it. *)
(***************************************************************************)
EXTENDS HttpContent, TLAPS, WellFoundedInduction

\* The API, once registered, and only where it is an option.
Gateway ==
    /\ phase = "api" => \A p \in Patterns : mux[p] = NoHandler
    /\ "gateway" \in options /\ phase \notin {"api", "failed"} => mux[API] = [kind |-> "api"]
    /\ "gateway" \notin options => \A p \in Patterns : mux[p].kind # "api"

\* The page is the first of its pattern.
First(i) == \A j \in 1..(i - 1) : pages[j] # pages[i]

\* The pages that Object has come past.
PagesSoFar ==
    /\ phase \in {"api", "acme"} => page = 1 /\ visited = {}
    /\ phase = "pages" => visited = {pages[j] : j \in 1..(page - 1)}
    /\ phase \in {"assets", "up"} /\ "pages" \in options => page = Len(pages) + 1
    /\ phase # "failed" =>
         \A i \in 1..(page - 1) : First(i) => mux[pages[i]] = [kind |-> "page", page |-> i]

\* The assets it has registered.
AssetsSoFar ==
    /\ \A p \in Patterns : mux[p].kind = "asset" => mux[p] = servingAsset(p)
    /\ phase \in {"assets", "up"} /\ "assets" \in options =>
         \A p \in groupAssets \ left : mux[p] = servingAsset(p)
    /\ phase = "up" => left = {}

IInv == TypeOK /\ Gateway /\ PagesSoFar /\ AssetsSoFar

USE ContentAssumption

-----------------------------------------------------------------------------

\* A set of indices has a largest one.
LEMMA LargestIndex ==
    ASSUME NEW m \in Nat, NEW T, T \subseteq 1..m, T # {}
    PROVE  \E i \in T : \A j \in T : j <= i
<1> DEFINE D == {m - i : i \in T}
<1>1. D \subseteq Nat /\ D # {}
  <2>1. ASSUME NEW i \in T
        PROVE  m - i \in Nat
    BY <2>1
  <2>2. PICK i \in T : TRUE
    OBVIOUS
  <2>3. m - i \in D
    BY <2>2
  <2> QED
    BY <2>1, <2>3
<1>2. PICK x \in D : \A y \in D : ~ (<<y, x>> \in OpToRel(<, Nat))
  <2> HIDE DEF D
  <2> QED
    BY <1>1, NatLessThanWellFounded, WFMin
<1>3. PICK i \in T : x = m - i
  OBVIOUS
<1>4. ASSUME NEW j \in T
      PROVE  j <= i
  <2>1. m - j \in D /\ m - j \in Nat /\ x \in Nat
    BY <1>1
  <2>2. ~ (m - j < x)
    BY <1>2, <2>1 DEF OpToRel
  <2> QED
    BY <1>3, <2>2
<1> QED
  BY <1>4

\* The pages and bundles are sequences of bounded length.
LEMMA BoundedSequence ==
    ASSUME NEW S, NEW n \in Nat, NEW s \in SeqUpTo(S, n)
    PROVE  s \in Seq(S) /\ Len(s) \in 0..n /\ DOMAIN s = 1..Len(s)
<1>1. PICK m \in 0..n : s \in [1..m -> S]
  BY DEF SeqUpTo
<1>2. s \in Seq(S) /\ Len(s) = m
  BY <1>1
<1> QED
  BY <1>1, <1>2

\* The bundle that serves a pattern has its file, and there is one if any has.
LEMMA LastBundleHasFile ==
    ASSUME TypeOK, NEW p, NEW kind
    PROVE  /\ LastBundle(p, kind) \in 0..MaxBundles
           /\ LastBundle(p, kind) # 0 =>
                /\ LastBundle(p, kind) \in DOMAIN bundles
                /\ bundles[LastBundle(p, kind)].kind = kind
                /\ FileOf(p) \in bundles[LastBundle(p, kind)].names
           /\ \A i \in DOMAIN bundles :
                bundles[i].kind = kind /\ FileOf(p) \in bundles[i].names => LastBundle(p, kind) # 0
<1> DEFINE has == {i \in DOMAIN bundles : bundles[i].kind = kind /\ FileOf(p) \in bundles[i].names}
<1>1. Len(bundles) \in 0..MaxBundles /\ DOMAIN bundles = 1..Len(bundles)
  BY BoundedSequence DEF TypeOK
<1>2. LastBundle(p, kind) = IF has = {} THEN 0 ELSE CHOOSE i \in has : \A j \in has : j <= i
  BY DEF LastBundle
<1>3. CASE has = {}
  BY <1>2, <1>3
<1>4. CASE has # {}
  <2>1. \E i \in has : \A j \in has : j <= i
    <3>1. has \subseteq 1..Len(bundles) /\ Len(bundles) \in Nat
      BY <1>1
    <3> HIDE DEF has
    <3> QED
      BY <1>4, <3>1, LargestIndex
  <2>2. LastBundle(p, kind) \in has
    <3> HIDE DEF has
    <3> QED
      BY <1>2, <1>4, <2>1
  <2> QED
    BY <1>1, <2>2
<1> QED
  BY <1>3, <1>4

\* servingAsset makes a handler for an asset.
LEMMA AssetIsHandler ==
    ASSUME TypeOK, NEW p
    PROVE  servingAsset(p) \in Handlers /\ servingAsset(p).kind = "asset"
<1>1. LastBundle(p, "plain") \in 0..MaxBundles /\ LastBundle(p, "gzip") \in 0..MaxBundles
  BY LastBundleHasFile
<1> QED
  BY <1>1 DEF servingAsset, Handlers

\* The multiplexer keeps what it has; a pattern that is taken fails Object.
LEMMA HandleKeeps ==
    ASSUME TypeOK, NEW p \in Patterns, NEW h \in Handlers, NEW next, Handle(p, h, next)
    PROVE  /\ mux' \in [Patterns -> Handlers \cup {NoHandler}]
           /\ phase' \in {next, "failed"}
           /\ \A q \in Patterns : mux[q] # NoHandler => mux'[q] = mux[q]
           /\ \A q \in Patterns : mux'[q] = mux[q] \/ (q = p /\ mux'[q] = h)
           /\ phase' # "failed" => mux'[p] = h
<1> HIDE DEF NoHandler
<1> QED
  BY DEF Handle, TypeOK

LEMMA InitIInv == Init => IInv
<1> SUFFICES ASSUME Init
             PROVE  IInv
  OBVIOUS
<1>1. TypeOK
  <2>1. Len(pages) \in Nat
    BY BoundedSequence DEF Init
  <2>2. page \in 1..(Len(pages) + 1)
    BY <2>1 DEF Init
  <2>3. autocert \in BOOLEAN
    BY DEF Init
  <2> QED
    BY <2>2, <2>3 DEF Init, TypeOK
<1>2. Gateway
  BY DEF Init, Gateway, NoHandler
<1>3. PagesSoFar
  BY DEF Init, PagesSoFar
<1>4. AssetsSoFar
  BY DEF Init, AssetsSoFar, NoHandler
<1> QED
  BY <1>1, <1>2, <1>3, <1>4 DEF IInv

-----------------------------------------------------------------------------
\* The configuration does not change, nor what is computed from it.
LEMMA ConfigStays ==
    ASSUME UNCHANGED config
    PROVE  /\ UNCHANGED <<options, autocert, pages, bundles>>
           /\ \A p : servingAsset(p)' = servingAsset(p)
           /\ groupAssets' = groupAssets
  BY DEF config, servingAsset, LastBundle, groupAssets

\* Registering a handler other than a page's under a pattern of its own.
LEMMA HandleIInv ==
    ASSUME IInv, NEW p \in Patterns, NEW h \in Handlers, NEW next, Handle(p, h, next),
           UNCHANGED config,
           h.kind = "api" => "gateway" \in options,
           h.kind = "asset" => h = servingAsset(p)
    PROVE  /\ "gateway" \in options /\ phase # "api" /\ phase # "failed" => mux'[API] = [kind |-> "api"]
           /\ "gateway" \notin options => \A q \in Patterns : mux'[q].kind # "api"
           /\ \A q \in Patterns : mux'[q].kind = "asset" => mux'[q] = servingAsset(q)
           /\ phase # "failed" => \A i \in 1..(page - 1) :
                First(i) => mux'[pages[i]] = [kind |-> "page", page |-> i]
<1> USE DEF IInv
<1>1. /\ \A q \in Patterns : mux[q] # NoHandler => mux'[q] = mux[q]
      /\ \A q \in Patterns : mux'[q] = mux[q] \/ (q = p /\ mux'[q] = h)
  BY HandleKeeps
<1>2. API \in Patterns /\ [kind |-> "api"] # NoHandler
  BY DEF Patterns, NoHandler
<1>3. "gateway" \in options /\ phase # "api" /\ phase # "failed" => mux'[API] = [kind |-> "api"]
  BY <1>1, <1>2 DEF Gateway
<1>4. "gateway" \notin options => \A q \in Patterns : mux'[q].kind # "api"
  BY <1>1 DEF Gateway
<1>5. \A q \in Patterns : mux'[q].kind = "asset" => mux'[q] = servingAsset(q)
  BY <1>1 DEF AssetsSoFar
<1>6. ASSUME phase # "failed", NEW i \in 1..(page - 1), First(i)
      PROVE  mux'[pages[i]] = [kind |-> "page", page |-> i]
  <2>1. mux[pages[i]] = [kind |-> "page", page |-> i]
    BY <1>6 DEF PagesSoFar
  <2>2. pages[i] \in Patterns
    <3>1. pages \in Seq(PagePatterns) /\ i \in 1..Len(pages)
      BY <1>6, BoundedSequence DEF TypeOK
    <3> QED
      BY <3>1 DEF Patterns
  <2> QED
    BY <1>1, <2>1, <2>2 DEF NoHandler
<1> QED
  BY <1>3, <1>4, <1>5, <1>6

LEMMA NextIInv == IInv /\ [Next]_vars => IInv'
<1> SUFFICES ASSUME IInv, [Next]_vars
             PROVE  IInv'
  OBVIOUS
<1> USE DEF IInv
<1>0. UNCHANGED config
  BY DEF Next, RegisterGateway, RegisterAutocert, RegisterPage, PagesDone, RegisterAsset,
         Created, vars
<1>s. /\ UNCHANGED <<options, autocert, pages, bundles>>
      /\ \A p : servingAsset(p)' = servingAsset(p)
      /\ groupAssets' = groupAssets
      /\ \A i : First(i)' = First(i)
  <2>1. UNCHANGED pages
    BY <1>0, ConfigStays
  <2>2. \A i : First(i)' = First(i)
    BY <2>1 DEF First
  <2> QED
    BY <1>0, <2>2, ConfigStays
<1>1. CASE RegisterGateway
  <2>1. CASE "gateway" \in options
    <3>1. /\ phase = "api" /\ Handle(API, [kind |-> "api"], "acme")
          /\ UNCHANGED <<page, left, visited>>
      BY <1>1, <2>1 DEF RegisterGateway
    <3>2. API \in Patterns /\ [kind |-> "api"] \in Handlers
      BY DEF Patterns, Handlers
    <3>3. /\ mux' \in [Patterns -> Handlers \cup {NoHandler}]
          /\ phase' \in {"acme", "failed"}
          /\ phase' # "failed" => mux'[API] = [kind |-> "api"]
      BY <3>1, <3>2, HandleKeeps
    <3>4. \A q \in Patterns : mux'[q].kind = "asset" => mux'[q] = servingAsset(q)
      BY <1>0, <2>1, <3>1, <3>2, HandleIInv
    <3>5. TypeOK'
      BY <1>s, <3>1, <3>3 DEF TypeOK
    <3>6. Gateway'
      BY <1>s, <2>1, <3>3 DEF Gateway
    <3>7. PagesSoFar' /\ AssetsSoFar'
      BY <1>s, <3>1, <3>3, <3>4 DEF PagesSoFar, AssetsSoFar
    <3> QED
      BY <3>5, <3>6, <3>7
  <2>2. CASE "gateway" \notin options
    <3>1. phase = "api" /\ phase' = "acme" /\ UNCHANGED <<mux, page, left, visited>>
      BY <1>1, <2>2 DEF RegisterGateway
    <3> QED
      BY <1>s, <2>2, <3>1 DEF TypeOK, Gateway, PagesSoFar, AssetsSoFar
  <2> QED
    BY <2>1, <2>2
<1>2. CASE RegisterAutocert
  <2>1. CASE autocert
    <3>1. /\ phase = "acme" /\ Handle(ACME, [kind |-> "acme"], "pages")
          /\ UNCHANGED <<page, left, visited>>
      BY <1>2, <2>1 DEF RegisterAutocert
    <3>2. ACME \in Patterns /\ [kind |-> "acme"] \in Handlers
      BY DEF Patterns, Handlers
    <3>3. /\ mux' \in [Patterns -> Handlers \cup {NoHandler}]
          /\ phase' \in {"pages", "failed"}
      BY <3>1, <3>2, HandleKeeps
    <3>4. /\ "gateway" \in options => mux'[API] = [kind |-> "api"]
          /\ "gateway" \notin options => \A q \in Patterns : mux'[q].kind # "api"
          /\ \A q \in Patterns : mux'[q].kind = "asset" => mux'[q] = servingAsset(q)
      BY <1>0, <3>1, <3>2, HandleIInv
    <3>5. TypeOK'
      BY <1>s, <3>1, <3>3 DEF TypeOK
    <3>6. Gateway'
      BY <1>s, <3>3, <3>4 DEF Gateway
    <3>7. PagesSoFar' /\ AssetsSoFar'
      BY <1>s, <3>1, <3>3, <3>4 DEF PagesSoFar, AssetsSoFar
    <3> QED
      BY <3>5, <3>6, <3>7
  <2>2. CASE ~autocert
    <3>1. phase = "acme" /\ phase' = "pages" /\ UNCHANGED <<mux, page, left, visited>>
      BY <1>2, <2>2 DEF RegisterAutocert
    <3> QED
      BY <1>s, <3>1 DEF TypeOK, Gateway, PagesSoFar, AssetsSoFar
  <2> QED
    BY <2>1, <2>2
<1>3. CASE RegisterPage
  <2>1. /\ phase = "pages" /\ page \in 1..Len(pages) /\ page' = page + 1
        /\ visited' = visited \cup {pages[page]} /\ UNCHANGED left
        /\ pages \in Seq(PagePatterns) /\ Len(pages) \in 0..MaxPages
    BY <1>3, BoundedSequence DEF RegisterPage, TypeOK
  <2>2. pages[page] \in Patterns /\ page \in 1..MaxPages
    BY <2>1 DEF Patterns
  <2>3. visited' = {pages[j] : j \in 1..page}
    BY <2>1 DEF PagesSoFar
  <2>4. CASE pages[page] \in visited
    <3>1. UNCHANGED <<phase, mux>>
      BY <1>3, <2>4 DEF RegisterPage
    <3>2. ~First(page)
      BY <2>1, <2>4 DEF PagesSoFar, First
    <3>3. TypeOK'
      BY <1>s, <2>1, <2>2, <3>1 DEF TypeOK
    <3>4. PagesSoFar'
      BY <1>s, <2>1, <2>3, <3>1, <3>2 DEF PagesSoFar
    <3> QED
      BY <1>s, <2>1, <3>1, <3>3, <3>4 DEF Gateway, AssetsSoFar
  <2>5. CASE pages[page] \notin visited
    <3> DEFINE h == [kind |-> "page", page |-> page]
    <3>1. Handle(pages[page], h, "pages")
      BY <1>3, <2>5 DEF RegisterPage
    <3>2. h \in Handlers /\ h.kind = "page"
      BY <2>2 DEF Handlers
    <3> HIDE DEF h
    <3>3. /\ mux' \in [Patterns -> Handlers \cup {NoHandler}]
          /\ phase' \in {"pages", "failed"}
          /\ phase' # "failed" => mux'[pages[page]] = h
      BY <2>2, <3>1, <3>2, HandleKeeps
    <3>4. /\ "gateway" \in options => mux'[API] = [kind |-> "api"]
          /\ "gateway" \notin options => \A q \in Patterns : mux'[q].kind # "api"
          /\ \A q \in Patterns : mux'[q].kind = "asset" => mux'[q] = servingAsset(q)
          /\ \A i \in 1..(page - 1) : First(i) => mux'[pages[i]] = [kind |-> "page", page |-> i]
      BY <1>0, <2>1, <2>2, <3>1, <3>2, HandleIInv
    <3>5. TypeOK'
      BY <1>s, <2>1, <2>2, <3>3 DEF TypeOK
    <3>6. Gateway'
      BY <1>s, <3>3, <3>4 DEF Gateway
    <3>7. PagesSoFar'
      BY <1>s, <2>1, <2>3, <3>3, <3>4 DEF PagesSoFar, h
    <3>8. AssetsSoFar'
      BY <1>s, <3>3, <3>4 DEF AssetsSoFar
    <3> QED
      BY <3>5, <3>6, <3>7, <3>8
  <2> QED
    BY <2>4, <2>5
<1>4. CASE PagesDone
  <2>1. /\ phase = "pages" /\ phase' = "assets" /\ UNCHANGED <<page, visited, mux>>
        /\ "pages" \in options => page > Len(pages)
        /\ left' = IF "assets" \in options THEN groupAssets ELSE {}
    BY <1>4 DEF PagesDone
  <2>2. Len(pages) \in Nat
    BY BoundedSequence DEF TypeOK
  <2>3. TypeOK'
    BY <1>s, <2>1 DEF TypeOK, groupAssets
  <2> QED
    BY <1>s, <2>1, <2>2, <2>3 DEF Gateway, PagesSoFar, AssetsSoFar, TypeOK
<1>5. ASSUME NEW p \in AssetPatterns, RegisterAsset(p)
      PROVE  IInv'
  <2>1. /\ phase = "assets" /\ left' = left \ {p} /\ visited' = visited \cup {p}
        /\ Handle(p, servingAsset(p), "assets") /\ UNCHANGED page
    BY <1>5 DEF RegisterAsset
  <2>2. p \in Patterns /\ servingAsset(p) \in Handlers /\ servingAsset(p).kind = "asset"
    BY AssetIsHandler DEF Patterns
  <2>3. /\ mux' \in [Patterns -> Handlers \cup {NoHandler}]
        /\ phase' \in {"assets", "failed"}
        /\ phase' # "failed" => mux'[p] = servingAsset(p)
        /\ \A q \in Patterns : mux'[q] = mux[q] \/ (q = p /\ mux'[q] = servingAsset(p))
    BY <2>1, <2>2, HandleKeeps
  <2>4. /\ "gateway" \in options => mux'[API] = [kind |-> "api"]
        /\ "gateway" \notin options => \A q \in Patterns : mux'[q].kind # "api"
        /\ \A q \in Patterns : mux'[q].kind = "asset" => mux'[q] = servingAsset(q)
        /\ \A i \in 1..(page - 1) : First(i) => mux'[pages[i]] = [kind |-> "page", page |-> i]
    BY <1>0, <2>1, <2>2, HandleIInv
  <2>5. TypeOK'
    BY <1>s, <2>1, <2>2, <2>3 DEF TypeOK
  <2>6. Gateway' /\ PagesSoFar'
    BY <1>s, <2>1, <2>3, <2>4 DEF Gateway, PagesSoFar
  <2>7. AssetsSoFar'
    <3>1. groupAssets \subseteq Patterns
      BY DEF groupAssets, Patterns
    <3> QED
      BY <1>s, <2>1, <2>3, <2>4, <3>1 DEF AssetsSoFar
  <2> QED
    BY <2>5, <2>6, <2>7
<1>6. CASE Created
  BY <1>s, <1>6 DEF Created, TypeOK, Gateway, PagesSoFar, AssetsSoFar
<1>7. CASE UNCHANGED vars
  BY <1>s, <1>7 DEF vars, TypeOK, Gateway, PagesSoFar, AssetsSoFar
<1> QED
  BY <1>1, <1>2, <1>3, <1>4, <1>5, <1>6, <1>7 DEF Next

-----------------------------------------------------------------------------
(* What the handlers answer.                                               *)

IsReply(reply) ==
    /\ reply = Reply(reply.status, reply.of, reply.packed, reply.label)
    /\ reply.packed \in BOOLEAN /\ reply.label \in BOOLEAN

\* What a file server answers from bundle i: the file, packed if the bundle is,
\* or an answer without one; gzipWriter has the labels.
FromBundle(reply, i, r) ==
    /\ IsReply(reply)
    /\ reply.status \in {200, 206, 301, 404}
    /\ reply.packed <=> bundles[i].kind = "gzip" /\ reply.status \in {200, 206}
    /\ reply.status \in {200, 206} => reply.of = File(i, FileOf(r.url))
    /\ ~reply.label

\* What the file server of a bundle answers comes from it, and a file it has is found.
LEMMA FileServerReply ==
    ASSUME NEW i, NEW r \in Requests
    PROVE  /\ FromBundle(FileServer(i, r), i, r)
           /\ r.url \in {"/", "/app.js"} /\ FileOf(r.url) \in bundles[i].names =>
                FileServer(i, r).status \in {200, 206}
<1> DEFINE packed == bundles[i].kind = "gzip"
           found == r.url \in {"/", "/app.js"} /\ FileOf(r.url) \in bundles[i].names
<1>1. CASE r.url = "/index.html"
  <2>1. FileServer(i, r) = Reply(301, ErrorText, FALSE, FALSE)
    BY <1>1 DEF FileServer
  <2> QED
    BY <1>1, <2>1 DEF FromBundle, IsReply, Reply
<1>2. CASE found
  <2> DEFINE status == IF r.range THEN 206 ELSE 200
  <2>1. status \in {200, 206} /\ packed \in BOOLEAN
    OBVIOUS
  <2>2. FileServer(i, r) = Reply(status, File(i, FileOf(r.url)), packed, FALSE)
    BY <1>2 DEF FileServer, FileOf, Index
  <2> HIDE DEF status
  <2>3. ASSUME NEW b \in BOOLEAN, b <=> packed
        PROVE  /\ FromBundle(Reply(status, File(i, FileOf(r.url)), b, FALSE), i, r)
               /\ Reply(status, File(i, FileOf(r.url)), b, FALSE).status \in {200, 206}
    BY <2>1, <2>3 DEF FromBundle, IsReply, Reply
  <2>4. /\ FromBundle(Reply(status, File(i, FileOf(r.url)), packed, FALSE), i, r)
        /\ Reply(status, File(i, FileOf(r.url)), packed, FALSE).status \in {200, 206}
    BY <2>1, <2>3, Zenon
  <2> QED
    BY <2>2, <2>4, Zenon
<1>3. CASE r.url # "/index.html" /\ ~found
  <2>1. FileServer(i, r) = Reply(404, ErrorText, FALSE, FALSE)
    BY <1>3 DEF FileServer, FileOf, Index
  <2> QED
    BY <1>3, <2>1 DEF FromBundle, IsReply, Reply
<1> QED
  BY <1>1, <1>2, <1>3

\* gzipWriter labels what has status 200, and changes nothing else.
LEMMA GzipWriterReply ==
    ASSUME NEW x, IsReply(x)
    PROVE  /\ gzipWriter(x).status = x.status /\ gzipWriter(x).of = x.of
           /\ gzipWriter(x).packed = x.packed
           /\ gzipWriter(x).label \in BOOLEAN /\ (gzipWriter(x).label <=> x.status = 200)
  BY DEF Reply, IsReply, gzipWriter

\* Unpack keeps the status, and of a whole packed file the content.
LEMMA UnpackReply ==
    ASSUME NEW x, IsReply(x)
    PROVE  /\ Unpack(x).status = x.status
           /\ x.packed /\ x.status = 200 =>
                Unpack(x).of = x.of /\ Unpack(x).packed = FALSE /\ Unpack(x).label = x.label
  BY DEF Reply, IsReply, Unpack

-----------------------------------------------------------------------------
\* What is packed is for a client that accepts it and is labelled, a part aside.
Honest(reply, r) ==
    /\ reply.packed => r.gzip
    /\ reply.status # 206 => reply.packed = reply.label

\* What the handler of an asset answers is honest, whichever bundle it takes.
LEMMA AssetIsHonest ==
    ASSUME TypeOK, NEW r \in Requests, NEW p
    PROVE  Honest(ServeAsset(servingAsset(p), r), r)
<1> DEFINE g == LastBundle(p, "gzip")
           l == LastBundle(p, "plain")
<1>1. servingAsset(p).gzipH = g /\ servingAsset(p).plainH = l
  BY DEF servingAsset
<1>2. l # 0 => bundles[l].kind = "plain"
  BY LastBundleHasFile
<1> HIDE DEF g, l
<1>3. CASE g # 0 /\ r.gzip
  <2>1. ServeAsset(servingAsset(p), r) = gzipWriter(FileServer(g, r))
    BY <1>1, <1>3 DEF ServeAsset
  <2>2. FromBundle(FileServer(g, r), g, r)
    BY FileServerReply
  <2>3. bundles[g].kind = "gzip"
    BY <1>3, LastBundleHasFile DEF g
  <2> QED
    BY <1>3, <2>1, <2>2, <2>3, GzipWriterReply DEF Honest, FromBundle, IsReply
<1>4. CASE ~(g # 0 /\ r.gzip) /\ l # 0
  <2>1. ServeAsset(servingAsset(p), r) = FileServer(l, r)
    BY <1>1, <1>4 DEF ServeAsset
  <2>2. FromBundle(FileServer(l, r), l, r)
    BY FileServerReply
  <2> QED
    BY <1>2, <1>4, <2>1, <2>2 DEF Honest, FromBundle, IsReply
<1>5. CASE ~(g # 0 /\ r.gzip) /\ l = 0
  <2>1. ServeAsset(servingAsset(p), r) = Reply(404, ErrorText, FALSE, FALSE)
    BY <1>1, <1>5 DEF ServeAsset
  <2> QED
    BY <2>1 DEF Honest, Reply
<1> QED
  BY <1>3, <1>4, <1>5

\* The bundles that have what a client asks for, in a form it accepts.
Offered(r) ==
    {i \in DOMAIN bundles :
       /\ FileOf(r.url) \in bundles[i].names
       /\ bundles[i].kind = "plain" \/ (bundles[i].kind = "gzip" /\ r.gzip)}

\* An asset that some bundle offers is registered and served from one of those.
LEMMA AssetIsFound ==
    ASSUME TypeOK, NEW r \in Requests, r.url \in {"/", "/app.js"}, Offered(r) # {}
    PROVE  /\ r.url \in groupAssets
           /\ \E i \in Offered(r) :
                ServeAsset(servingAsset(r.url), r).of = File(i, FileOf(r.url))
<1> DEFINE g == LastBundle(r.url, "gzip")
           l == LastBundle(r.url, "plain")
<1>1. servingAsset(r.url).gzipH = g /\ servingAsset(r.url).plainH = l
  BY DEF servingAsset
<1>2. g # 0 => g \in DOMAIN bundles /\ bundles[g].kind = "gzip" /\ FileOf(r.url) \in bundles[g].names
  BY LastBundleHasFile
<1>3. l # 0 => l \in DOMAIN bundles /\ bundles[l].kind = "plain" /\ FileOf(r.url) \in bundles[l].names
  BY LastBundleHasFile
<1>4. (g # 0 /\ r.gzip) \/ l # 0
  <2>1. PICK i \in DOMAIN bundles : /\ FileOf(r.url) \in bundles[i].names
                                    /\ \/ bundles[i].kind = "plain"
                                       \/ bundles[i].kind = "gzip" /\ r.gzip
    BY DEF Offered
  <2> QED
    BY <2>1, LastBundleHasFile
<1> HIDE DEF g, l
<1>5. r.url \in groupAssets
  BY <1>1, <1>4 DEF groupAssets, AssetPatterns
<1>6. CASE g # 0 /\ r.gzip
  <2>1. ServeAsset(servingAsset(r.url), r) = gzipWriter(FileServer(g, r))
    BY <1>1, <1>6 DEF ServeAsset
  <2>2. FromBundle(FileServer(g, r), g, r) /\ FileServer(g, r).status \in {200, 206}
    BY <1>2, <1>6, FileServerReply
  <2>3. ServeAsset(servingAsset(r.url), r).of = File(g, FileOf(r.url))
    BY <2>1, <2>2, GzipWriterReply DEF FromBundle
  <2> QED
    BY <1>2, <1>5, <1>6, <2>3 DEF Offered
<1>7. CASE ~(g # 0 /\ r.gzip)
  <2>1. ServeAsset(servingAsset(r.url), r) = FileServer(l, r)
    BY <1>1, <1>4, <1>7 DEF ServeAsset
  <2>2. FromBundle(FileServer(l, r), l, r) /\ FileServer(l, r).status \in {200, 206}
    BY <1>3, <1>4, <1>7, FileServerReply
  <2> QED
    BY <1>3, <1>4, <1>5, <1>7, <2>1, <2>2 DEF Offered, FromBundle
<1> QED
  BY <1>6, <1>7

\* GzipHandler around a packed bundle.
LEMMA UnpackedReply ==
    ASSUME NEW r \in Requests, NEW i, bundles[i].kind = "gzip",
           ServeUnpacked(i, r).status = 200
    PROVE  /\ ServeUnpacked(i, r).of = File(i, FileOf(r.url))
           /\ ServeUnpacked(i, r).packed = r.gzip /\ ServeUnpacked(i, r).label = r.gzip
<1>1. r.gzip \in BOOLEAN
  BY DEF Requests
<1>2. PICK x : x = FileServer(i, r)
  OBVIOUS
<1>3. FromBundle(x, i, r)
  BY <1>2, FileServerReply
<1>4. IsReply(x) /\ (x.status = 200 => x.packed /\ ~x.label /\ x.of = File(i, FileOf(r.url)))
  BY <1>3 DEF FromBundle
<1>5. CASE r.gzip
  <2>1. ServeUnpacked(i, r) = gzipWriter(x)
    BY <1>2, <1>5 DEF ServeUnpacked
  <2>2. /\ gzipWriter(x).status = x.status /\ gzipWriter(x).of = x.of
        /\ gzipWriter(x).packed = x.packed
        /\ gzipWriter(x).label \in BOOLEAN /\ (gzipWriter(x).label <=> x.status = 200)
    BY <1>4, GzipWriterReply
  <2>3. x.status = 200 /\ x.packed /\ gzipWriter(x).label
    BY <1>4, <2>1, <2>2
  <2>4. x.packed = TRUE /\ gzipWriter(x).label = TRUE /\ r.gzip = TRUE
    BY <1>1, <1>4, <1>5, <2>2, <2>3, Zenon DEF IsReply
  <2>5. gzipWriter(x).of = File(i, FileOf(r.url))
    BY <1>4, <2>2, <2>3, Zenon
  <2>6. gzipWriter(x).packed = r.gzip /\ gzipWriter(x).label = r.gzip
    BY <2>2, <2>4, Zenon
  <2> QED
    BY <2>1, <2>5, <2>6, Zenon
<1>6. CASE ~r.gzip
  <2>1. ServeUnpacked(i, r) = Unpack(x)
    BY <1>2, <1>6 DEF ServeUnpacked
  <2>2. /\ Unpack(x).status = x.status
        /\ x.packed /\ x.status = 200 =>
             Unpack(x).of = x.of /\ Unpack(x).packed = FALSE /\ Unpack(x).label = x.label
    BY <1>4, UnpackReply
  <2>3. x.status = 200 /\ x.packed /\ ~x.label
    BY <1>4, <2>1, <2>2
  <2>4. x.label = FALSE /\ r.gzip = FALSE
    BY <1>1, <1>4, <1>6, <2>3, Zenon DEF IsReply
  <2>5. Unpack(x).of = x.of /\ Unpack(x).packed = FALSE /\ Unpack(x).label = x.label
    BY <2>2, <2>3, Zenon
  <2>6. Unpack(x).of = File(i, FileOf(r.url))
    BY <1>4, <2>3, <2>5, Zenon
  <2>7. Unpack(x).packed = r.gzip /\ Unpack(x).label = r.gzip
    BY <2>4, <2>5, Zenon
  <2> QED
    BY <2>1, <2>6, <2>7, Zenon
<1> QED
  BY <1>5, <1>6

-----------------------------------------------------------------------------
\* A request is for a pattern of the multiplexer, its own if that is taken.
LEMMA Matched ==
    ASSUME NEW url
    PROVE  /\ Match(url) \in Patterns
           /\ url \in Patterns /\ mux[url] # NoHandler => Match(url) = url
  BY DEF Match, Patterns, AssetPatterns

\* The invariant of Object, from which the others follow.
THEOREM Inductive == Spec => []IInv
  BY InitIInv, NextIInv, PTL DEF Spec

\* The type invariant: in particular every handler Object registers is one of
\* the gateway, the autocert manager, a page or the bundles of an asset.
THEOREM TypeCorrect == Spec => []TypeOK
<1>1. IInv => TypeOK
  BY DEF IInv
<1> QED
  BY <1>1, Inductive, PTL

\* A server that has been created has the gateway where FindGatewayHandler
\* looks for it, and the first page of every pattern, whatever else was to be
\* registered.
THEOREM KeepsRoutes == Spec => []RoutesKept
<1>1. ASSUME IInv, phase = "up"
      PROVE  "gateway" \in options <=> FindGatewayHandler # NoHandler
  <2>1. Match(API) \in Patterns /\ (mux[API] # NoHandler => Match(API) = API)
    BY Matched DEF Patterns
  <2>2. CASE "gateway" \in options
    <3>1. mux[Match(API)] = [kind |-> "api"]
      BY <1>1, <2>1, <2>2 DEF IInv, Gateway, NoHandler
    <3> QED
      BY <2>2, <3>1 DEF FindGatewayHandler, NoHandler
  <2>3. CASE "gateway" \notin options
    <3>1. mux[Match(API)].kind # "api"
      BY <1>1, <2>1, <2>3 DEF IInv, Gateway
    <3> QED
      BY <2>3, <3>1 DEF FindGatewayHandler
  <2> QED
    BY <2>2, <2>3
<1>2. ASSUME IInv, phase = "up", "pages" \in options, NEW i \in DOMAIN pages,
             \A j \in 1..(i - 1) : pages[j] # pages[i]
      PROVE  mux[pages[i]] = [kind |-> "page", page |-> i]
  <2>1. Len(pages) \in Nat /\ DOMAIN pages = 1..Len(pages)
    BY <1>2, BoundedSequence DEF IInv, TypeOK
  <2>2. i \in 1..(page - 1) /\ First(i)
    BY <1>2, <2>1 DEF IInv, PagesSoFar, First
  <2> QED
    BY <1>2, <2>2 DEF IInv, PagesSoFar
<1>3. IInv => RoutesKept
  BY <1>1, <1>2 DEF RoutesKept
<1> QED
  BY <1>3, Inductive, PTL

\* A server that has been created finds every asset that some bundle offers in
\* a form the client accepts, and its answers, as those of GzipHandler, say
\* truly whether they are packed.
THEOREM ServesAssets == Spec => []AssetsServed
<1>1. ASSUME IInv, NEW r \in Requests
      PROVE  Honest(Serve(r), r)
  <2> DEFINE h == mux[Match(r.url)]
  <2>1. Match(r.url) \in Patterns
    BY Matched
  <2>2. h \in Handlers \cup {NoHandler}
    BY <1>1, <2>1 DEF IInv, TypeOK
  <2>3. h.kind \in {"none", "api", "acme", "page", "asset"}
    BY <2>2 DEF Handlers, NoHandler
  <2>4. h.kind = "asset" => h = servingAsset(Match(r.url))
    BY <1>1, <2>1 DEF IInv, AssetsSoFar
  <2> HIDE DEF h
  <2>5. CASE h.kind = "asset"
    <3>1. Serve(r) = ServeAsset(h, r)
      BY <2>5 DEF Serve, h
    <3>2. TypeOK
      BY <1>1 DEF IInv
    <3> QED
      BY <2>4, <2>5, <3>1, <3>2, AssetIsHonest
  <2>6. CASE h.kind # "asset"
    <3>1. \E status, of : Serve(r) = Reply(status, of, FALSE, FALSE)
      <4>1. CASE h.kind = "none"
        BY <4>1 DEF Serve, h
      <4>2. CASE h.kind \in {"api", "acme"}
        <5>1. Serve(r) = Reply(200, <<h.kind>>, FALSE, FALSE)
          BY <4>2 DEF Serve, h
        <5> QED
          BY <5>1, Zenon
      <4>3. CASE h.kind = "page"
        <5>1. Serve(r) = ServePage(h.page)
          BY <4>3 DEF Serve, h
        <5> QED
          BY <5>1, Zenon DEF ServePage, RedirectHttpsPage, TemplatePage
      <4> QED
        BY <2>3, <2>6, <4>1, <4>2, <4>3
    <3>2. PICK status, of : Serve(r) = Reply(status, of, FALSE, FALSE)
      BY <3>1
    <3> QED
      BY <3>2 DEF Honest, Reply
  <2> QED
    BY <2>5, <2>6
<1>2. ASSUME IInv, phase = "up", "assets" \in options, NEW r \in Requests,
             r.url \in {"/", "/app.js"}, Offered(r) # {}
      PROVE  \E i \in Offered(r) : Serve(r).of = File(i, FileOf(r.url))
  <2>1. /\ r.url \in groupAssets
        /\ \E i \in Offered(r) :
             ServeAsset(servingAsset(r.url), r).of = File(i, FileOf(r.url))
    BY <1>2, AssetIsFound DEF IInv
  <2>2. mux[r.url] = servingAsset(r.url) /\ mux[r.url].kind = "asset"
    BY <1>2, <2>1, AssetIsHandler DEF IInv, AssetsSoFar
  <2>3. r.url \in Patterns /\ mux[r.url] # NoHandler
    BY <2>1, <2>2 DEF groupAssets, Patterns, NoHandler
  <2>4. Match(r.url) = r.url
    BY <2>3, Matched
  <2>5. Serve(r) = ServeAsset(servingAsset(r.url), r)
    BY <2>2, <2>4 DEF Serve
  <2> QED
    BY <2>1, <2>5
<1>3. IInv => AssetsServed
  <2> SUFFICES ASSUME IInv, phase = "up", "assets" \in options, NEW r \in Requests
               PROVE  /\ r.url \in {"/", "/app.js"} /\ Offered(r) # {} =>
                            \E i \in Offered(r) : Serve(r).of = File(i, FileOf(r.url))
                      /\ Serve(r).packed => r.gzip
                      /\ Serve(r).status # 206 => Serve(r).packed = Serve(r).label
                      /\ \A i \in DOMAIN bundles :
                           bundles[i].kind = "gzip" /\ ServeUnpacked(i, r).status = 200 =>
                             /\ ServeUnpacked(i, r).of = File(i, FileOf(r.url))
                             /\ ServeUnpacked(i, r).packed = r.gzip
                             /\ ServeUnpacked(i, r).label = r.gzip
    BY DEF AssetsServed, Offered
  <2> QED
    BY <1>1, <1>2, UnpackedReply DEF Honest
<1> QED
  BY <1>3, Inductive, PTL
=============================================================================
