----------------------------- MODULE SiteProofs -----------------------------
(***************************************************************************)
(* Proofs about Site and AssetCache, for any sections, slugs, addresses,   *)
(* releases, assets and browsers.  The router picks the pattern one means, *)
(* so no link of the site is dead; and when releases only go forward and   *)
(* contents settle, the year-long caches are safe.  The rollback run shows *)
(* that the assumption is needed.                                          *)
(***************************************************************************)
EXTENDS Site, TLAPS

(* No other part of a pattern is empty.                                    *)
LEMMA EmptyPart ==
  /\ Empty \notin {"dir", "news", "submit", "healthz", "static"}
  /\ Empty # "{slug}" /\ Empty # "..."
  BY Zenon DEF Empty

(* The pattern for everything else.                                        *)
CatchAll == Get(<<"...">>, "notFound")

(* A pattern of one part, without the quantifier of Matches.               *)
LEMMA MatchOne ==
  ASSUME NEW s, NEW path
  PROVE  Matches(<<s>>, path) <=>
           /\ IF s = "..." THEN Len(path) >= 1 ELSE Len(path) = 1
           /\ s \in {path[1], "..."} \/ (s = "{slug}" /\ path[1] # Empty)
<1> DEFINE pattern == <<s>>
<1>1. Len(pattern) = 1 /\ pattern[1] = s
  OBVIOUS
<1>2. 1 .. 1 = {1}
  OBVIOUS
<1> HIDE DEF pattern
<1>3. Matches(pattern, path) <=>
        /\ IF pattern[1] = "..." THEN Len(path) >= 1 ELSE Len(path) = 1
        /\ \A k \in {1} : \/ pattern[k] \in {path[k], "..."}
                          \/ pattern[k] = "{slug}" /\ path[k] # Empty
  BY <1>1, <1>2 DEF Matches
<1>4. Matches(pattern, path) <=>
        /\ IF s = "..." THEN Len(path) >= 1 ELSE Len(path) = 1
        /\ s \in {path[1], "..."} \/ (s = "{slug}" /\ path[1] # Empty)
  BY <1>1, <1>3
<1> QED BY <1>4 DEF pattern

(* And a pattern of two.                                                   *)
LEMMA MatchTwo ==
  ASSUME NEW s, NEW t, NEW path
  PROVE  Matches(<<s, t>>, path) <=>
           /\ IF t = "..." THEN Len(path) >= 2 ELSE Len(path) = 2
           /\ s \in {path[1], "..."} \/ (s = "{slug}" /\ path[1] # Empty)
           /\ t \in {path[2], "..."} \/ (t = "{slug}" /\ path[2] # Empty)
<1> DEFINE pattern == <<s, t>>
<1>1. Len(pattern) = 2 /\ pattern[1] = s /\ pattern[2] = t
  OBVIOUS
<1>2. 1 .. 2 = {1, 2}
  OBVIOUS
<1> HIDE DEF pattern
<1>3. Matches(pattern, path) <=>
        /\ IF pattern[2] = "..." THEN Len(path) >= 2 ELSE Len(path) = 2
        /\ \A k \in {1, 2} : \/ pattern[k] \in {path[k], "..."}
                             \/ pattern[k] = "{slug}" /\ path[k] # Empty
  BY <1>1, <1>2 DEF Matches
<1>4. Matches(pattern, path) <=>
        /\ IF t = "..." THEN Len(path) >= 2 ELSE Len(path) = 2
        /\ s \in {path[1], "..."} \/ (s = "{slug}" /\ path[1] # Empty)
        /\ t \in {path[2], "..."} \/ (t = "{slug}" /\ path[2] # Empty)
  BY <1>1, <1>3
<1> QED BY <1>4 DEF pattern

(* "..." alone takes any path.                                             *)
LEMMA CatchAllMatches ==
  ASSUME NEW path
  PROVE  Matches(<<"...">>, path) <=> Len(path) >= 1
  BY MatchOne

(* What a pattern of the router can be.                                    *)
LEMMA PatternKinds ==
  ASSUME NEW q \in Patterns, q.method = "GET"
  PROVE  \/ q = CatchAll
         \/ q = Get(<<"static", "...">>, "assets")
         \/ q = Get(<<"dir", Empty>>, "dirIndexRedirect")
         \/ q = Get(<<"dir", "{slug}">>, "resource")
         \/ q \in {Get(<<Empty>>, "home"), Get(<<"dir">>, "directory"), Get(<<"news">>, "news"),
                   Get(<<"submit">>, "submitGet"), Get(<<"healthz">>, "healthz")}
         \/ \E s \in Sections \ {"dir", "news"} : q = Get(<<s>>, "section")
<1>1. q # [method |-> "POST", path |-> <<"submit">>, handler |-> "submitPost"]
  OBVIOUS
<1> QED BY <1>1 DEF Patterns, SectionRoutes, CatchAll

(* The fields of a GET pattern.                                            *)
LEMMA GetFields ==
  ASSUME NEW path, NEW handler
  PROVE  LET p == Get(path, handler)
         IN  p.method = "GET" /\ p.path = path /\ p.handler = handler
  BY DEF Get

(* The handler of a pattern of one part.                                   *)
PartHandler(s) ==
  CASE s = Empty -> "home" [] s = "dir" -> "directory" [] s = "news" -> "news"
    [] s = "submit" -> "submitGet" [] s = "healthz" -> "healthz" [] OTHER -> "section"

(* A part that stands for itself.                                          *)
Plain(s) == s # "..." /\ s # "{slug}"

(* No two parts fit in one.                                                *)
LEMMA TwoParts ==
  ASSUME NEW s, NEW t, NEW path, Len(path) = 1
  PROVE  ~Matches(<<s, t>>, path)
<1>1. Matches(<<s, t>>, path) => IF t = "..." THEN Len(path) >= 2 ELSE Len(path) = 2
  BY MatchTwo, Zenon
<1> QED BY <1>1

(* A plain part fits itself only.                                          *)
LEMMA PlainMatches ==
  ASSUME NEW s, Plain(s), NEW path
  PROVE  Matches(<<s>>, path) <=> Len(path) = 1 /\ path[1] = s
  BY MatchOne DEF Plain

(* Every pattern is one of three with two parts, or has one plain part that*)
(* decides its handler, or takes the rest.                                 *)
LEMMA PatternForms ==
  ASSUME NEW q \in Patterns, q.method = "GET"
  PROVE  \/ q = CatchAll
         \/ q = Get(<<"static", "...">>, "assets")
         \/ q = Get(<<"dir", Empty>>, "dirIndexRedirect")
         \/ q = Get(<<"dir", "{slug}">>, "resource")
         \/ \E s : Plain(s) /\ q = Get(<<s>>, PartHandler(s))
<1>1. \A s \in {Empty, "dir", "news", "submit", "healthz"} : Plain(s)
  BY EmptyPart DEF Plain
<1>2. \A s \in Sections \ {"dir", "news"} : Plain(s) /\ PartHandler(s) = "section"
  BY SiteAssumption, EmptyPart DEF Plain, PartHandler
<1>3. /\ PartHandler(Empty) = "home" /\ PartHandler("dir") = "directory"
      /\ PartHandler("news") = "news" /\ PartHandler("submit") = "submitGet"
      /\ PartHandler("healthz") = "healthz"
  BY EmptyPart DEF PartHandler
<1>4. CASE q \in {Get(<<Empty>>, "home"), Get(<<"dir">>, "directory"), Get(<<"news">>, "news"),
                  Get(<<"submit">>, "submitGet"), Get(<<"healthz">>, "healthz")}
  BY <1>1, <1>3, <1>4
<1>5. CASE \E s \in Sections \ {"dir", "news"} : q = Get(<<s>>, "section")
  BY <1>2, <1>5
<1> HIDE DEF CatchAll
<1>6. \/ q = CatchAll
      \/ q = Get(<<"static", "...">>, "assets")
      \/ q = Get(<<"dir", Empty>>, "dirIndexRedirect")
      \/ q = Get(<<"dir", "{slug}">>, "resource")
      \/ q \in {Get(<<Empty>>, "home"), Get(<<"dir">>, "directory"), Get(<<"news">>, "news"),
                Get(<<"submit">>, "submitGet"), Get(<<"healthz">>, "healthz")}
      \/ \E s \in Sections \ {"dir", "news"} : q = Get(<<s>>, "section")
  BY PatternKinds, Zenon
<1> QED BY <1>4, <1>5, <1>6, Zenon

(* What a path is like that a pattern besides CatchAll fits.               *)
LEMMA Fits ==
  ASSUME NEW q \in Patterns, q.method = "GET", q # CatchAll, NEW path, Matches(q.path, path)
  PROVE  \/ q = Get(<<"static", "...">>, "assets") /\ Len(path) >= 2 /\ path[1] = "static"
         \/ q = Get(<<"dir", Empty>>, "dirIndexRedirect")
            /\ Len(path) = 2 /\ path[1] = "dir" /\ path[2] = Empty
         \/ q = Get(<<"dir", "{slug}">>, "resource")
            /\ Len(path) = 2 /\ path[1] = "dir" /\ path[2] # Empty
         \/ q = Get(<<path[1]>>, PartHandler(path[1])) /\ Len(path) = 1
<1>1. \A way, handler : q = Get(way, handler) => Matches(way, path)
  BY GetFields, Zenon
<1>2. CASE q = Get(<<"static", "...">>, "assets")
  <2>1. Matches(<<"static", "...">>, path)
    BY <1>1, <1>2, Zenon
  <2> QED BY <1>2, <2>1, MatchTwo
<1>3. CASE q = Get(<<"dir", Empty>>, "dirIndexRedirect")
  <2>1. Matches(<<"dir", Empty>>, path)
    BY <1>1, <1>3, Zenon
  <2>2. /\ IF Empty = "..." THEN Len(path) >= 2 ELSE Len(path) = 2
        /\ "dir" \in {path[1], "..."} \/ ("dir" = "{slug}" /\ path[1] # Empty)
        /\ Empty \in {path[2], "..."} \/ (Empty = "{slug}" /\ path[2] # Empty)
    BY <2>1, MatchTwo, Zenon
  <2>3. Len(path) = 2 /\ path[1] = "dir" /\ path[2] = Empty
    BY <2>2, EmptyPart
  <2> QED BY <1>3, <2>3, Zenon
<1>4. CASE q = Get(<<"dir", "{slug}">>, "resource")
  <2>1. Matches(<<"dir", "{slug}">>, path)
    BY <1>1, <1>4, Zenon
  <2>2. /\ IF "{slug}" = "..." THEN Len(path) >= 2 ELSE Len(path) = 2
        /\ "dir" \in {path[1], "..."} \/ ("dir" = "{slug}" /\ path[1] # Empty)
        /\ "{slug}" \in {path[2], "..."} \/ ("{slug}" = "{slug}" /\ path[2] # Empty)
    BY <2>1, MatchTwo, Zenon
  <2>3. Len(path) = 2 /\ path[1] = "dir" /\ path[2] # Empty
    BY <2>2, EmptyPart
  <2> QED BY <1>4, <2>3, Zenon
<1>5. ASSUME NEW s, Plain(s), q = Get(<<s>>, PartHandler(s))
      PROVE  q = Get(<<path[1]>>, PartHandler(path[1])) /\ Len(path) = 1
  <2>1. Matches(<<s>>, path)
    BY <1>1, <1>5, Zenon
  <2> QED BY <1>5, <2>1, PlainMatches
<1> QED BY <1>2, <1>3, <1>4, <1>5, PatternForms, Zenon

(* Lengths tell the patterns apart.                                        *)
LEMMA TwoIsNotOne ==
  \A n : (n >= 2 => n # 1) /\ (n = 2 => n # 1)
  OBVIOUS

(* At most one pattern besides CatchAll fits a path.                       *)
LEMMA OneFits ==
  ASSUME NEW path,
         NEW p \in Patterns, p.method = "GET", p # CatchAll, Matches(p.path, path),
         NEW q \in Patterns, q.method = "GET", q # CatchAll, Matches(q.path, path)
  PROVE  p = q
<1> DEFINE the == IF Len(path) = 1 THEN Get(<<path[1]>>, PartHandler(path[1]))
                  ELSE IF path[1] = "static" THEN Get(<<"static", "...">>, "assets")
                  ELSE IF path[2] = Empty THEN Get(<<"dir", Empty>>, "dirIndexRedirect")
                  ELSE Get(<<"dir", "{slug}">>, "resource")
<1>1. (Len(path) >= 2 => Len(path) # 1) /\ (Len(path) = 2 => Len(path) # 1) /\ "dir" # "static"
  BY TwoIsNotOne
<1>2. p = the
  BY <1>1, Fits, Zenon
<1>3. q = the
  BY <1>1, Fits, Zenon
<1> QED BY <1>2, <1>3, Zenon

(* Where a pattern fits, CatchAll does too.                                *)
LEMMA CatchAllIsWidest ==
  ASSUME NEW q \in Patterns, q.method = "GET", NEW path, Matches(q.path, path)
  PROVE  Matches(CatchAll.path, path)
<1>1. CatchAll.path = <<"...">>
  BY GetFields DEF CatchAll
<1>2. CASE q = CatchAll
  BY <1>2
<1>3. CASE q # CatchAll
  <2>1. Len(path) >= 2 \/ Len(path) = 2 \/ Len(path) = 1
    BY <1>3, Fits, Zenon
  <2>2. Len(path) >= 1
    BY <2>1
  <2> QED BY <1>1, <2>2, CatchAllMatches
<1> QED BY <1>2, <1>3

(* Where another pattern fits than CatchAll, the router picks that one.    *)
LEMMA RouteTo ==
  ASSUME NEW path, NEW p \in Patterns, p.method = "GET", p # CatchAll, Matches(p.path, path),
         NEW x \in Paths, Len(x) >= 1, ~Matches(p.path, x)
  PROVE  Route("GET", path) = p.handler
<1> DEFINE fits == {q \in Patterns : q.method = "GET" /\ Matches(q.path, path)}
           narrowest(q) == \A o \in fits, y \in Paths : Matches(q.path, y) => Matches(o.path, y)
<1>1. p \in fits /\ fits \subseteq {p, CatchAll}
  BY OneFits
<1>2. \A y : Matches(p.path, y) => Matches(CatchAll.path, y)
  BY CatchAllIsWidest
<1>3. narrowest(p)
  BY <1>1, <1>2
<1>4. Matches(CatchAll.path, x)
  BY CatchAllMatches, GetFields DEF CatchAll
<1>5. \A q \in fits : narrowest(q) => q = p
  BY <1>1, <1>4
<1>6. (CHOOSE q \in fits : narrowest(q)) = p
  BY <1>1, <1>3, <1>5
<1> QED BY <1>1, <1>6 DEF Route

(* The links of one part: the home page, the form, the sections.           *)
LEMMA RouteOne ==
  ASSUME NEW s \in Sections \cup {Empty, "submit"}
  PROVE  Route("GET", <<s>>) = PartHandler(s)
<1> DEFINE p == Get(<<s>>, PartHandler(s))
           x == <<"dir", Empty>>
<1>1. p \in Patterns
  BY SiteAssumption, EmptyPart DEF Patterns, SectionRoutes, PartHandler
<1>2. p.method = "GET" /\ p.path = <<s>> /\ p.handler = PartHandler(s)
  BY GetFields
<1>3. Plain(s)
  BY SiteAssumption, EmptyPart DEF Plain
<1>4. p # CatchAll
  <2>1. CatchAll.path = <<"...">> /\ CatchAll.path[1] = "..." /\ p.path[1] = s
    BY <1>2, GetFields DEF CatchAll
  <2> QED BY <1>3, <2>1 DEF Plain
<1>5. Matches(<<s>>, <<s>>)
  BY <1>3, PlainMatches
<1>6. x \in Paths /\ Len(x) >= 1
  BY DEF Paths
<1>7. ~Matches(<<s>>, x)
  BY <1>3, PlainMatches
<1> HIDE DEF p, x
<1>8. Route("GET", <<s>>) = p.handler
  BY <1>1, <1>2, <1>4, <1>5, <1>6, <1>7, RouteTo
<1> QED BY <1>2, <1>8

(* The links of two parts: the entries.                                    *)
LEMMA RouteEntry ==
  ASSUME NEW s \in Slugs
  PROVE  Route("GET", <<"dir", s>>) = "resource"
<1> DEFINE p == Get(<<"dir", "{slug}">>, "resource")
           path == <<"dir", s>>
           x == <<Empty>>
<1>1. p \in Patterns
  BY DEF Patterns
<1>2. p.method = "GET" /\ p.path = <<"dir", "{slug}">> /\ p.handler = "resource"
  BY GetFields
<1>3. p # CatchAll
  <2>1. CatchAll.handler = "notFound"
    BY GetFields DEF CatchAll
  <2> QED BY <1>2, <2>1
<1>4. Matches(<<"dir", "{slug}">>, path)
  <2>1. Len(path) = 2 /\ path[1] = "dir" /\ path[2] = s
    OBVIOUS
  <2>2. s # Empty
    BY SiteAssumption
  <2> QED BY <2>1, <2>2, MatchTwo
<1>5. x \in Paths /\ Len(x) = 1 /\ Len(x) >= 1
  BY DEF Paths
<1> HIDE DEF p, x, path
<1>6. ~Matches(<<"dir", "{slug}">>, x)
  BY <1>5, TwoParts
<1>7. Route("GET", path) = p.handler
  BY <1>1, <1>2, <1>3, <1>4, <1>5, <1>6, RouteTo
<1> QED BY <1>2, <1>7 DEF path

(* The form has one handler.                                               *)
LEMMA RoutePost ==
  Route("POST", <<"submit">>) = "submitPost"
<1> DEFINE p == [method |-> "POST", path |-> <<"submit">>, handler |-> "submitPost"]
           fits == {q \in Patterns : q.method = "POST" /\ Matches(q.path, <<"submit">>)}
           narrowest(q) == \A o \in fits, y \in Paths : Matches(q.path, y) => Matches(o.path, y)
<1>1. \A path, handler : Get(path, handler).method # "POST"
  BY DEF Get
<1>2. \A q \in Patterns : q.method = "POST" => q = p
  BY <1>1 DEF Patterns, SectionRoutes
<1>3. p \in Patterns /\ p.method = "POST" /\ p.path = <<"submit">> /\ p.handler = "submitPost"
  BY DEF Patterns
<1>4. Matches(<<"submit">>, <<"submit">>)
  BY PlainMatches DEF Plain
<1> HIDE DEF p
<1>5. fits = {p}
  BY <1>2, <1>3, <1>4
<1>6. (CHOOSE q \in fits : narrowest(q)) = p
  BY <1>5
<1> QED BY <1>3, <1>5, <1>6 DEF Route

(* A route leads to a handler of the router, or the method is not allowed. *)
LEMMA RouteKnown ==
  ASSUME NEW method \in {"GET", "POST"}, NEW path
  PROVE  \/ Route(method, path) = "methodNotAllowed"
         \/ \E p \in Patterns : Route(method, path) = p.handler
<1> DEFINE fits == {q \in Patterns : q.method = method /\ Matches(q.path, path)}
           narrowest(q) == \A o \in fits, y \in Paths : Matches(q.path, y) => Matches(o.path, y)
<1>1. CASE fits = {}
  BY <1>1 DEF Route
<1>2. CASE fits # {}
  <2>1. \E p \in fits : narrowest(p)
    <3>1. CASE method = "POST"
      <4>1. \A q \in fits : q = [method |-> "POST", path |-> <<"submit">>, handler |-> "submitPost"]
        <5>1. \A way, handler : Get(way, handler).method # "POST"
          BY DEF Get
        <5> QED BY <3>1, <5>1 DEF Patterns, SectionRoutes
      <4> QED BY <1>2, <4>1
    <3>2. CASE method = "GET"
      <4>1. PICK p \in fits : p = CatchAll => fits \subseteq {CatchAll}
        BY <1>2
      <4>2. fits \subseteq {p, CatchAll}
        BY <3>2, <4>1, OneFits
      <4>3. \A y : Matches(p.path, y) => Matches(CatchAll.path, y)
        BY <3>2, <4>1, CatchAllIsWidest
      <4> QED BY <4>1, <4>2, <4>3
    <3> QED BY <3>1, <3>2
  <2>2. (CHOOSE q \in fits : narrowest(q)) \in fits
    BY <2>1
  <2> QED BY <1>2, <2>2 DEF Route
<1> QED BY <1>1, <1>2

(* The handlers of the router.                                             *)
Handlers ==
  {"home", "directory", "dirIndexRedirect", "news", "section", "resource", "submitGet",
   "submitPost", "healthz", "assets", "notFound"}

(* Every pattern has one of these handlers.                                *)
LEMMA HandlersKnown ==
  ASSUME NEW p \in Patterns
  PROVE  p.handler \in Handlers
<1>1. \A path, handler : Get(path, handler).handler = handler
  BY DEF Get
<1>2. /\ \A path, handler : p = Get(path, handler) /\ handler \in Handlers => p.handler \in Handlers
      /\ p = [method |-> "POST", path |-> <<"submit">>, handler |-> "submitPost"]
            => p.handler \in Handlers
  BY <1>1 DEF Handlers
<1>3. {"home", "directory", "dirIndexRedirect", "news", "section", "resource", "submitGet",
       "healthz", "assets", "notFound"} \subseteq Handlers
  BY DEF Handlers
<1> HIDE DEF Handlers
<1> QED BY <1>2, <1>3 DEF Patterns, SectionRoutes

-----------------------------------------------------------------------------
(* What the handlers answer.                                               *)
SiteLinks == Chrome \cup {<<"dir">>} \cup {<<"dir", s>> : s \in Slugs}

(* A page that is parsed has its status and the links of newView.          *)
LEMMA RenderPage ==
  ASSUME NEW name \in Pages, NEW status, NEW links
  PROVE  /\ Render(name, status, links).name = name
         /\ Render(name, status, links).status = status
         /\ Render(name, status, links).links = Chrome \cup links
  BY DEF Render, Bare

(* An answer without a page has no links.                                  *)
LEMMA BareLinks ==
  ASSUME NEW status
  PROVE  Bare(status).links = {} /\ Bare(status).status = status /\ Bare(status).name = "none"
  BY DEF Bare

(* A resource page is that of its slug, or the styled 404.                 *)
LEMMA ResourcePage ==
  ASSUME NEW slug
  PROVE  /\ slug \notin dataset => Resource(slug) = NotFound
         /\ slug \in dataset => /\ Resource(slug).name = "resource"
                                /\ Resource(slug).status = 200
                                /\ Resource(slug).links = Chrome \cup {<<"dir">>}
                                /\ Resource(slug).shows = slug
  BY DEF Resource, Render, Bare, Pages

(* The outcomes of each handler.                                           *)
LEMMA ServeAll ==
  ASSUME NEW path
  PROVE  /\ Serve("home", path) = {Home}
         /\ Serve("directory", path) = {Directory}
         /\ Serve("dirIndexRedirect", path) = {Directory}
         /\ Serve("news", path) = {NewsFeed}
         /\ Serve("section", path) = {Section(path)}
         /\ Serve("resource", path) = {Resource(path[2])}
         /\ Serve("submitGet", path) = {SubmitPage(200)}
         /\ Serve("submitPost", path) = {SubmitPage(200), SubmitPage(400)}
         /\ Serve("healthz", path) = {Healthz}
         /\ Serve("assets", path) = StaticFile(path)
         /\ Serve("notFound", path) = {NotFound}
         /\ Serve("methodNotAllowed", path) = {Bare(405)}
  BY DEF Serve

(* No handler renders a link that is not one of the site's.                *)
LEMMA LinksOfSite ==
  ASSUME dataset \subseteq Slugs, NEW handler \in Handlers \cup {"methodNotAllowed"}, NEW path,
         NEW a \in Serve(handler, path)
  PROVE  a.links \subseteq SiteLinks
<1>1. \A name \in Pages : \A status, links :
         links \subseteq SiteLinks => Render(name, status, links).links \subseteq SiteLinks
  BY RenderPage DEF SiteLinks
<1>2. \A status : Bare(status).links \subseteq SiteLinks
  BY BareLinks
<1>3. /\ {} \subseteq SiteLinks /\ {<<"dir">>} \subseteq SiteLinks
      /\ {<<"submit">>} \subseteq SiteLinks
      /\ {<<"dir", s>> : s \in dataset} \cup {<<"dir">>} \subseteq SiteLinks
  BY DEF SiteLinks, Chrome
<1>4. {"home", "section", "directory", "not-found", "submit", "news"} \subseteq Pages
  BY DEF Pages
<1>5. /\ Home.links \subseteq SiteLinks /\ Directory.links \subseteq SiteLinks
      /\ NewsFeed.links \subseteq SiteLinks /\ NotFound.links \subseteq SiteLinks
      /\ \A status : SubmitPage(status).links \subseteq SiteLinks
  BY <1>1, <1>3, <1>4 DEF Home, Directory, NewsFeed, NotFound, SubmitPage
<1>6. Section(path).links \subseteq SiteLinks
  BY <1>1, <1>2, <1>3, <1>4 DEF Section
<1>7. \A slug : Resource(slug).links \subseteq SiteLinks
  BY <1>5, ResourcePage DEF SiteLinks
<1>8. \A x \in StaticFile(path) : x.links \subseteq SiteLinks
  BY <1>2 DEF StaticFile
<1>9. Healthz.links \subseteq SiteLinks
  BY <1>2 DEF Healthz
<1> QED BY <1>2, <1>5, <1>6, <1>7, <1>8, <1>9, ServeAll DEF Handlers

(* The pages of one part are pages of every release.                       *)
LEMMA PartPages ==
  ASSUME NEW s \in Sections \cup {Empty, "submit"}, NEW a \in Serve(PartHandler(s), <<s>>)
  PROVE  Chrome \subseteq a.links /\ a.status = 200 /\ a.name # "resource"
<1>1. {"home", "section", "directory", "submit", "news"} \subseteq Pages
  BY DEF Pages
<1>2. \A name \in {"home", "section", "directory", "submit", "news"} : \A links :
         LET page200 == Render(name, 200, links)
         IN  Chrome \subseteq page200.links /\ page200.status = 200 /\ page200.name # "resource"
  BY <1>1, RenderPage
<1>3. CASE PartHandler(s) = "section"
  <2>1. s \in Sections
    BY <1>3, EmptyPart DEF PartHandler
  <2>2. Section(<<s>>) = Render("section", 200, {})
    BY <2>1 DEF Section
  <2>3. a = Section(<<s>>)
    BY <1>3, ServeAll
  <2> QED BY <1>2, <2>2, <2>3
<1>4. CASE PartHandler(s) \in {"home", "directory", "news", "submitGet"}
  <2>1. a \in {Home, Directory, NewsFeed, SubmitPage(200)}
    BY <1>4, ServeAll
  <2> QED BY <1>2, <2>1 DEF Home, Directory, NewsFeed, SubmitPage
<1>5. PartHandler(s) \in {"section", "home", "directory", "news", "submitGet"}
  BY SiteAssumption, EmptyPart DEF PartHandler
<1> QED BY <1>3, <1>4, <1>5

(* Every link of the site leads where NoDeadLinks has it.                  *)
LEMMA LinkLeads ==
  ASSUME dataset \subseteq Slugs, NEW link \in SiteLinks, NEW a \in Serve(Route("GET", link), link)
  PROVE  /\ Chrome \subseteq a.links
         /\ IF \E s \in Slugs \ dataset : link = <<"dir", s>>
            THEN a.name = "not-found" ELSE a.status = 200
         /\ a.name = "resource" => link = <<"dir", a.shows>>
<1>1. CASE \E s \in Sections \cup {Empty, "submit"} : link = <<s>>
  <2>1. PICK s \in Sections \cup {Empty, "submit"} : link = <<s>>
    BY <1>1
  <2>2. a \in Serve(PartHandler(s), <<s>>)
    BY <2>1, RouteOne
  <2>3. \A t : <<s>> # <<"dir", t>>
    OBVIOUS
  <2> QED BY <2>1, <2>2, <2>3, PartPages
<1>2. CASE \E s \in Slugs : link = <<"dir", s>>
  <2>1. PICK s \in Slugs : link = <<"dir", s>>
    BY <1>2
  <2>2. a = Resource(s)
    <3>1. link[2] = s
      BY <2>1
    <3>2. Route("GET", link) = "resource"
      BY <2>1, RouteEntry
    <3> QED BY <3>1, <3>2, ServeAll
  <2>3. \A t : link = <<"dir", t>> <=> t = s
    BY <2>1
  <2>4. /\ NotFound.name = "not-found" /\ Chrome \subseteq NotFound.links
    <3>1. "not-found" \in Pages
      BY DEF Pages
    <3> QED BY <3>1, RenderPage DEF NotFound
  <2>5. CASE s \in dataset
    BY <2>2, <2>3, <2>5, ResourcePage
  <2>6. CASE s \notin dataset
    BY <2>2, <2>3, <2>4, <2>6, ResourcePage
  <2> QED BY <2>5, <2>6
<1>3. "dir" \in Sections
  BY SiteAssumption
<1> QED BY <1>1, <1>2, <1>3 DEF SiteLinks, Chrome

-----------------------------------------------------------------------------
(* Open pages link to places of the site only.                             *)
ViewInv ==
    /\ dataset \subseteq Slugs
    /\ DOMAIN view = Browsers
    /\ \A b \in Browsers : view[b].answer.links \subseteq SiteLinks

LEMMA ViewInit == SiteInit => ViewInv
  BY BareLinks DEF SiteInit, ViewInv

(* An answer of any handler keeps the links of open pages on the site.     *)
LEMMA AskInv ==
  ASSUME ViewInv, NEW b \in Browsers, NEW method \in {"GET", "POST"}, NEW path,
         Ask(b, method, path)
  PROVE  ViewInv'
<1>1. PICK next \in Answers(method, path) : view' = [view EXCEPT ![b] = next]
  BY DEF Ask
<1>2. next.answer \in Serve(Route(method, path), path)
  BY DEF Answers
<1>3. Route(method, path) \in Handlers \cup {"methodNotAllowed"}
  BY RouteKnown, HandlersKnown
<1>4. next.answer.links \subseteq SiteLinks
  BY <1>2, <1>3, LinksOfSite DEF ViewInv
<1> QED BY <1>1, <1>4 DEF Ask, ViewInv

LEMMA ViewStep == ViewInv /\ [SiteNext]_siteVars => ViewInv'
<1> SUFFICES ASSUME ViewInv, [SiteNext]_siteVars PROVE ViewInv'
  OBVIOUS
<1>1. ASSUME NEW b \in Browsers, Type(b) PROVE ViewInv'
  BY <1>1, AskInv DEF Type
<1>2. ASSUME NEW b \in Browsers, Follow(b) PROVE ViewInv'
  BY <1>2, AskInv DEF Follow
<1>3. ASSUME NEW b \in Browsers, SendForm(b) PROVE ViewInv'
  BY <1>3, AskInv DEF SendForm
<1>4. ASSUME NEW b \in Browsers, NEW a \in Assets, LoadAsset(b, a) PROVE ViewInv'
  BY <1>4 DEF LoadAsset, ViewInv
<1>5. ASSUME NEW r \in Releases, Release(r) PROVE ViewInv'
  BY <1>5 DEF Release, ViewInv
<1>6. ASSUME NEW k \in Caches, NEW x \in cache[k], Forget(k, x) PROVE ViewInv'
  BY <1>6 DEF Forget, ViewInv
<1>7. CASE UNCHANGED siteVars
  BY <1>7 DEF siteVars, ViewInv
<1> QED BY <1>1, <1>2, <1>3, <1>4, <1>5, <1>6, <1>7 DEF SiteNext

(* Every link and the form of every open page lead to a page of the site,  *)
(* whatever the sections, the slugs and the addresses that are typed.      *)
THEOREM NoDeadLinksCorrect == SiteSpec => []NoDeadLinks
<1>1. ViewInv => NoDeadLinks
  <2> SUFFICES ASSUME ViewInv, NEW b \in Browsers
               PROVE  /\ \A next \in Answers("POST", <<"submit">>) : Chrome \subseteq next.answer.links
                      /\ \A link \in view[b].answer.links :
                            \A next \in Answers("GET", link) :
                              /\ Chrome \subseteq next.answer.links
                              /\ IF \E s \in Slugs \ dataset : link = <<"dir", s>>
                                 THEN next.answer.name = "not-found"
                                 ELSE next.answer.status = 200
                              /\ next.answer.name = "resource" => link = <<"dir", next.answer.shows>>
    BY DEF NoDeadLinks
  <2>1. ASSUME NEW next \in Answers("POST", <<"submit">>) PROVE Chrome \subseteq next.answer.links
    <3>1. next.answer \in {SubmitPage(200), SubmitPage(400)}
      BY RoutePost, ServeAll DEF Answers
    <3>2. "submit" \in Pages
      BY DEF Pages
    <3> QED BY <3>1, <3>2, RenderPage DEF SubmitPage
  <2>2. ASSUME NEW link \in view[b].answer.links, NEW next \in Answers("GET", link)
        PROVE  /\ Chrome \subseteq next.answer.links
               /\ IF \E s \in Slugs \ dataset : link = <<"dir", s>>
                  THEN next.answer.name = "not-found"
                  ELSE next.answer.status = 200
               /\ next.answer.name = "resource" => link = <<"dir", next.answer.shows>>
    <3>1. next.answer \in Serve(Route("GET", link), link)
      BY DEF Answers
    <3>2. link \in SiteLinks /\ dataset \subseteq Slugs
      BY DEF ViewInv
    <3> QED BY <3>1, <3>2, LinkLeads
  <2> QED BY <2>1, <2>2
<1> QED BY <1>1, ViewInit, ViewStep, PTL DEF SiteSpec

-----------------------------------------------------------------------------
(* What a cache keeps was asked for by a page of some release and answered *)
(* by that release or a later one.                                         *)
Explained(x) ==
    \E r \in Releases : \E q \in r .. running : \E a \in Referenced(r) :
        x[1] = AssetURL(r, a) /\ x[2] = Bytes[q][a]

PagesKnown ==
    /\ running \in Releases
    /\ page \in [Browsers -> Releases \cup {None}]
    /\ \A b \in Browsers : page[b] <= running
    /\ current \subseteq Browsers /\ \A b \in current : page[b] = running

CachesExplained == \A k \in Caches : \A x \in cache[k] : Explained(x)

IInv ==
    /\ PagesKnown /\ CachesExplained /\ NeverOlder
    /\ DOMAIN loaded = Browsers /\ DOMAIN cache = Caches

(* Two releases with the same URL for an asset they have agree on the asset*)
(* and on its bytes, and so does every release between them.               *)
LEMMA SameUrl ==
  ASSUME BytesSettle, NEW q \in Releases, NEW r \in Releases,
         NEW a \in Referenced(q), NEW d \in Referenced(r),
         AssetURL(q, a) = AssetURL(r, d)
  PROVE  a = d /\ \A m \in q .. r : Bytes[m][a] = Bytes[r][a]
<1>1. a = d /\ a \in Assets /\ Bytes[q][a] # NoFile /\ Bytes[r][a] # NoFile
  BY DEF AssetURL, Referenced
<1>2. a \in Versioned => Bytes[q][a] = Bytes[r][a]
  BY <1>1 DEF AssetURL
<1>3. ASSUME NEW m \in q .. r PROVE Bytes[m][a] = Bytes[r][a]
  <2>1. m \in Releases /\ q <= m /\ m <= r
    BY <1>3, AssetAssumption DEF Releases
  <2>2. CASE m = q
    <3>1. CASE q = r
      BY <2>2, <3>1
    <3>2. CASE q < r
      BY <1>1, <1>2, <2>2, <3>2 DEF BytesSettle
    <3> QED BY <2>1, <2>2, <3>1, <3>2 DEF Releases
  <2>3. CASE q < m
    <3>1. q < r /\ q \in Releases /\ r \in Releases
      BY <2>1, <2>3 DEF Releases
    <3>2. CASE a \in Versioned
      BY <1>1, <1>2, <3>1, <3>2, <2>1 DEF BytesSettle
    <3>3. CASE a \notin Versioned
      BY <1>1, <2>1, <2>3, <3>1, <3>3 DEF BytesSettle
    <3> QED BY <3>2, <3>3
  <2> QED BY <2>1, <2>2, <2>3 DEF Releases
<1> QED BY <1>1, <1>3

(* What a cache keeps for the URL of a page's asset may be shown on it.    *)
LEMMA KeptIsNew ==
  ASSUME BytesSettle, running \in Releases,
         NEW r \in Releases, r <= running, NEW a \in Referenced(r),
         NEW x, Explained(x), x[1] = AssetURL(r, a)
  PROVE  \E q \in r .. running : x[2] = Bytes[q][a]
<1>0. PICK r0 \in Releases : \E q \in r0 .. running : \E d \in Referenced(r0) :
         x[1] = AssetURL(r0, d) /\ x[2] = Bytes[q][d]
  BY DEF Explained
<1>1. PICK q \in r0 .. running, d \in Referenced(r0) :
         x[1] = AssetURL(r0, d) /\ x[2] = Bytes[q][d]
  BY <1>0
<1>2. d = a /\ \A m \in r0 .. r : Bytes[m][a] = Bytes[r][a]
  <2>1. AssetURL(r0, d) = AssetURL(r, a)
    BY <1>1
  <2>2. d = a /\ \A m \in r0 .. r : Bytes[m][d] = Bytes[r][d]
    BY <2>1, SameUrl
  <2> QED BY <2>2
<1>3. q \in Int /\ r \in Int /\ running \in Int /\ r0 <= q /\ q <= running
  BY <1>1 DEF Releases
<1>4. CASE q < r
  BY <1>1, <1>2, <1>3, <1>4 DEF Releases
<1>5. CASE r <= q
  BY <1>1, <1>2, <1>3, <1>5
<1> QED BY <1>3, <1>4, <1>5

-----------------------------------------------------------------------------
LEMMA InitInv == Init => IInv
  BY AssetAssumption
     DEF Init, IInv, PagesKnown, CachesExplained, NeverOlder, Releases, None

LEMMA LoadInv ==
  ASSUME BytesSettle, IInv, NEW b \in Browsers, NEW a \in Assets, Load(b, a)
  PROVE  IInv'
<1> DEFINE url == AssetURL(page[b], a)
           Shown(bytes) == loaded' = [loaded EXCEPT ![b] = @ \cup {<<a, bytes>>}]
           Own == \E x \in Kept(b, url) : Shown(x[2]) /\ UNCHANGED cache
           Shared == \E x \in Kept(Proxy, url) :
                        /\ Shown(x[2])
                        /\ cache' = [cache EXCEPT ![b] = Keep(b, url, x[2])]
           Fetched == /\ Shown(Bytes[running][a])
                      /\ cache' = [k \in Caches |-> IF k \in {b, Proxy}
                              THEN Keep(k, url, Bytes[running][a]) ELSE cache[k]]
<1>1. /\ page[b] \in Releases /\ page[b] <= running /\ running \in Releases
      /\ a \in Referenced(page[b])
      /\ UNCHANGED <<running, page, current>>
      /\ Own \/ Shared \/ Fetched
  BY DEF Load, IInv, PagesKnown, None
<1>2. \E bytes :
         /\ Shown(bytes)
         /\ \E q \in page[b] .. running : bytes = Bytes[q][a]
         /\ DOMAIN cache' = Caches
         /\ \A k \in Caches : \A x \in cache'[k] : x \in cache[k] \/ x = <<url, bytes>>
  <2>1. CASE Own
    <3>1. PICK x \in Kept(b, url) : Shown(x[2]) /\ UNCHANGED cache
      BY <2>1
    <3>2. x \in cache[b] /\ x[1] = url
      BY <3>1 DEF Kept
    <3>3. \E q \in page[b] .. running : x[2] = Bytes[q][a]
      BY <1>1, <3>2, KeptIsNew DEF IInv, CachesExplained, Caches
    <3> QED BY <3>1, <3>3 DEF IInv
  <2>2. CASE Shared
    <3>1. PICK x \in Kept(Proxy, url) :
             Shown(x[2]) /\ cache' = [cache EXCEPT ![b] = Keep(b, url, x[2])]
      BY <2>2
    <3>2. x \in cache[Proxy] /\ x[1] = url
      BY <3>1 DEF Kept
    <3>3. \E q \in page[b] .. running : x[2] = Bytes[q][a]
      BY <1>1, <3>2, KeptIsNew DEF IInv, CachesExplained, Caches
    <3> QED BY <3>1, <3>3 DEF IInv, Keep, Caches
  <2>3. CASE Fetched
    <3>1. running \in page[b] .. running
      BY <1>1 DEF Releases
    <3> QED BY <2>3, <3>1 DEF Keep
  <2> QED BY <1>1, <2>1, <2>2, <2>3
<1>3. PICK bytes :
         /\ Shown(bytes)
         /\ \E q \in page[b] .. running : bytes = Bytes[q][a]
         /\ DOMAIN cache' = Caches
         /\ \A k \in Caches : \A x \in cache'[k] : x \in cache[k] \/ x = <<url, bytes>>
  BY <1>2
<1>4. PagesKnown'
  BY <1>1 DEF IInv, PagesKnown
<1>5. CachesExplained'
  <2>1. Explained(<<url, bytes>>)
    BY <1>1, <1>3 DEF Explained
  <2>2. \A k \in Caches : \A x \in cache'[k] : Explained(x)
    BY <1>3, <2>1 DEF IInv, CachesExplained
  <2> QED BY <1>1, <2>2 DEF CachesExplained, Explained
<1>6. NeverOlder'
  <2>1. \A d \in Browsers : \A x \in loaded'[d] :
           x \in loaded[d] \/ (d = b /\ x = <<a, bytes>>)
    BY <1>3 DEF IInv
  <2> QED BY <1>1, <1>3, <2>1 DEF IInv, NeverOlder
<1> QED BY <1>3, <1>4, <1>5, <1>6 DEF IInv

LEMMA StepInv ==
  ASSUME ~Rollbacks, BytesSettle
  PROVE  IInv /\ [Next]_vars => IInv'
<1> SUFFICES ASSUME IInv, [Next]_vars PROVE IInv'
  OBVIOUS
<1> USE DEF IInv
<1>1. ASSUME NEW r \in Releases, Deploy(r) PROVE IInv'
  <2>1. /\ running' = r /\ running < r /\ current' = {}
        /\ running \in Releases /\ r \in Releases
        /\ page' = page /\ loaded' = loaded /\ cache' = cache
    BY <1>1 DEF Deploy, PagesKnown
  <2>2. \A q \in Nat : \A m \in q .. running : m \in q .. running'
    BY <2>1 DEF Releases
  <2>3. PagesKnown'
    BY <2>1 DEF PagesKnown, Releases, None
  <2>4. CachesExplained'
    BY <2>1, <2>2 DEF CachesExplained, Explained, Releases
  <2>5. NeverOlder'
    BY <2>1, <2>2 DEF NeverOlder, PagesKnown, Releases, None
  <2> QED BY <2>1, <2>3, <2>4, <2>5
<1>2. ASSUME NEW b \in Browsers, OpenPage(b) PROVE IInv'
  <2>1. PagesKnown'
    BY <1>2 DEF OpenPage, PagesKnown, Releases, None
  <2>2. CachesExplained'
    BY <1>2 DEF OpenPage, CachesExplained, Explained
  <2>3. NeverOlder'
    BY <1>2 DEF OpenPage, NeverOlder, PagesKnown
  <2> QED BY <1>2, <2>1, <2>2, <2>3 DEF OpenPage
<1>3. ASSUME NEW b \in Browsers, NEW a \in Assets, Load(b, a) PROVE IInv'
  BY <1>3, LoadInv
<1>4. ASSUME NEW k \in Caches, NEW x \in cache[k], Evict(k, x) PROVE IInv'
  <2>1. \A l \in Caches : cache'[l] \subseteq cache[l]
    BY <1>4 DEF Evict
  <2>2. CachesExplained'
    BY <1>4, <2>1 DEF Evict, CachesExplained, Explained
  <2> QED BY <1>4, <2>2 DEF Evict, PagesKnown, NeverOlder
<1>5. CASE UNCHANGED vars
  BY <1>5 DEF vars, PagesKnown, CachesExplained, Explained, NeverOlder
<1> QED BY <1>1, <1>2, <1>3, <1>4, <1>5 DEF Next

(* A page of the running release has taken nothing from an older one.      *)
LEMMA OwnFromOlder == IInv => OwnBytes
<1> SUFFICES ASSUME IInv, NEW b \in current, NEW x \in loaded[b]
             PROVE  x[2] = Bytes[running][x[1]]
  BY DEF OwnBytes
<1>1. b \in Browsers /\ page[b] = running /\ running \in Releases
  BY DEF IInv, PagesKnown
<1>2. PICK q \in running .. running : x[2] = Bytes[q][x[1]]
  BY <1>1, AssetAssumption DEF IInv, NeverOlder, Releases, None
<1> QED BY <1>1, <1>2 DEF Releases

(* With releases that only go forward and contents that settle, no page    *)
(* ever gets an asset from a release older than its own.                   *)
THEOREM NeverOlderCorrect ==
  ASSUME ~Rollbacks, BytesSettle
  PROVE  Spec => []NeverOlder
<1>1. IInv /\ [Next]_vars => IInv'
  BY StepInv
<1>2. IInv => NeverOlder
  BY DEF IInv
<1> QED BY <1>1, <1>2, InitInv, PTL DEF Spec

(* And a page opened since the last deployment gets its own bytes.         *)
THEOREM OwnBytesCorrect ==
  ASSUME ~Rollbacks, BytesSettle
  PROVE  Spec => []OwnBytes
<1>1. IInv /\ [Next]_vars => IInv'
  BY StepInv
<1> QED BY <1>1, InitInv, OwnFromOlder, PTL DEF Spec

-----------------------------------------------------------------------------
(* The pages of the whole site keep the promise of their assets.           *)
LEMMA SiteAssets == SiteSpec => Spec
<1>1. SiteInit => Init
  BY DEF SiteInit
<1>2. [SiteNext]_siteVars => [Next]_vars
  <2> SUFFICES ASSUME [SiteNext]_siteVars PROVE [Next]_vars
    OBVIOUS
  <2>1. ASSUME NEW b \in Browsers, Type(b) \/ Follow(b) \/ SendForm(b) PROVE Next
    BY <2>1 DEF Type, Follow, SendForm, Ask, Next
  <2>2. ASSUME NEW b \in Browsers, NEW a \in Assets, LoadAsset(b, a) PROVE Next
    BY <2>2 DEF LoadAsset, Next
  <2>3. ASSUME NEW r \in Releases, Release(r) PROVE Next
    BY <2>3 DEF Release, Next
  <2>4. ASSUME NEW k \in Caches, NEW x \in cache[k], Forget(k, x) PROVE Next
    BY <2>4 DEF Forget, Next
  <2>5. CASE UNCHANGED siteVars
    BY <2>5 DEF siteVars
  <2> QED BY <2>1, <2>2, <2>3, <2>4, <2>5 DEF SiteNext
<1> QED BY <1>1, <1>2, PTL DEF SiteSpec, Spec

(* So a page of the site, too, never gets an asset from an older release.  *)
THEOREM SiteNeverOlder ==
  ASSUME ~Rollbacks, BytesSettle
  PROVE  SiteSpec => []NeverOlder
<1>1. Spec => []NeverOlder
  BY NeverOlderCorrect
<1> QED BY <1>1, SiteAssets, PTL
=============================================================================
