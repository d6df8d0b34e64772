-------------------------------- MODULE Site --------------------------------
(***************************************************************************)
(* The routes of the site and the links of its pages, seen by visitors who*)
(* follow links, fill in the form and type addresses, while releases with  *)
(* another dataset and other assets replace the running one                *)
(* (internal/web/router.go, handlers.go, templates.go, view.go and the     *)
(* links of the templates).  Every page also loads its assets, as          *)
(* AssetCache has it.                                                      *)
(*                                                                         *)
(* A path is the sequence of its parts: "/" is <<"">>, "/dir/" is          *)
(* <<"dir", "">>.  A query changes neither the handler nor the status of   *)
(* an answer, and is left out; so are links to other sites, HEAD, and the  *)
(* redirects by which the router cleans a path.                            *)
(***************************************************************************)
EXTENDS AssetCache, Integers, Sequences

CONSTANTS
    Nav, Utility,   \* the first parts of the paths of the two lists of sections
    Slugs,          \* slugs that an entry can have
    Typed           \* paths that visitors type

(* The part of a path behind its final slash.                             *)
Empty == ""

Sections == Nav \cup Utility

ASSUME SiteAssumption ==
    /\ {"dir", "news"} \subseteq Sections
    /\ Nav \cap Utility = {}
    /\ Sections \cap {Empty, "submit", "healthz", "static", "{slug}", "..."} = {}
    /\ Empty \notin Slugs

VARIABLES
    dataset,        \* the slugs of the release that runs
    view            \* what each visitor has: a path, and the answer to it

siteVars == <<vars, dataset, view>>

-----------------------------------------------------------------------------
(* The patterns of the router: {slug} stands for one part, ... for the rest*)
(* behind a final slash, and {$} is the empty last part.                   *)
Get(path, handler) == [method |-> "GET", path |-> path, handler |-> handler]

(* Mutant of SectionRoutes: only the navigation is registered.             *)
SectionRoutesOfNav == {Get(<<s>>, "section") : s \in Nav \ {"dir", "news"}}

(* The sections that are still skeletons.                                  *)
SectionRoutes == {Get(<<s>>, "section") : s \in Sections \ {"dir", "news"}}

Patterns ==
    {Get(<<Empty>>, "home"), Get(<<"dir">>, "directory"), Get(<<"news">>, "news"),
     Get(<<"dir", Empty>>, "dirIndexRedirect"), Get(<<"dir", "{slug}">>, "resource"),
     Get(<<"submit">>, "submitGet"),
     [method |-> "POST", path |-> <<"submit">>, handler |-> "submitPost"],
     Get(<<"healthz">>, "healthz"), Get(<<"static", "...">>, "assets"),
     Get(<<"...">>, "notFound")}
    \cup SectionRoutes

Paths ==
    Typed \cup {<<s>> : s \in Sections} \cup {<<"dir", s>> : s \in Slugs}
          \cup {<<Empty>>, <<"submit">>, <<"dir", Empty>>}

Matches(pattern, path) ==
    LET n == Len(pattern)
    IN  /\ IF pattern[n] = "..." THEN Len(path) >= n ELSE Len(path) = n
        /\ \A k \in 1..n : \/ pattern[k] \in {path[k], "..."}
                           \/ pattern[k] = "{slug}" /\ path[k] # Empty

(* The handler of net/http's ServeMux: that of the narrowest pattern.      *)
Route(method, path) ==
    LET fits == {p \in Patterns : p.method = method /\ Matches(p.path, path)}
        narrowest(p) == \A q \in fits, x \in Paths : Matches(p.path, x) => Matches(q.path, x)
    IN  IF fits = {} THEN "methodNotAllowed" ELSE (CHOOSE p \in fits : narrowest(p)).handler

-----------------------------------------------------------------------------
(* The pages that are parsed at the start.                                 *)
Pages == {"home", "section", "directory", "resource", "not-found", "submit", "news"}

(* An answer that no template makes: a text, an asset, an error.           *)
Bare(status) == [name |-> "none", status |-> status, links |-> {}, shows |-> Empty]

(* newView: the navigation and the footer, which all pages share.          *)
Chrome == {<<Empty>>, <<"submit">>} \cup {<<s>> : s \in Sections}

(* renderStatus of a page with links besides those of newView.             *)
Render(name, status, links) ==
    IF name \in Pages
    THEN [Bare(status) EXCEPT !.name = name, !.links = Chrome \cup links]
    ELSE Bare(500)

Home == Render("home", 200, {})

NewsFeed == Render("news", 200, {})

Healthz == Bare(200)

NotFound == Render("not-found", 404, {<<"dir">>})

(* The rows of the list; filters, pills and search lead to /dir again.     *)
Directory == Render("directory", 200, {<<"dir", s>> : s \in dataset} \cup {<<"dir">>})

Resource(slug) ==
    IF slug \notin dataset THEN NotFound
    ELSE [Render("resource", 200, {<<"dir">>}) EXCEPT !.shows = slug]

Section(path) ==
    IF path[1] \in Sections /\ Len(path) = 1 THEN Render("section", 200, {})
    ELSE Bare(404)

SubmitPage(status) == Render("submit", status, {<<"submit">>})

(* A file that is there, or not; never a directory.                        *)
StaticFile(path) == IF path[Len(path)] = Empty THEN {Bare(404)} ELSE {Bare(200), Bare(404)}

(* What a handler answers; several outcomes where the body or the file     *)
(* decide.  The browser follows the redirect of /dir/.                     *)
Serve(handler, path) ==
    CASE handler = "home" -> {Home}
      [] handler \in {"directory", "dirIndexRedirect"} -> {Directory}
      [] handler = "news" -> {NewsFeed}
      [] handler = "section" -> {Section(path)}
      [] handler = "resource" -> {Resource(path[2])}
      [] handler = "submitGet" -> {SubmitPage(200)}
      [] handler = "submitPost" -> {SubmitPage(200), SubmitPage(400)}
      [] handler = "healthz" -> {Healthz}
      [] handler = "assets" -> StaticFile(path)
      [] handler = "notFound" -> {NotFound}
      [] handler = "methodNotAllowed" -> {Bare(405)}

Answers(method, path) ==
    {[path |-> IF path = <<"dir", Empty>> /\ method = "GET" THEN <<"dir">> ELSE path,
      answer |-> a] : a \in Serve(Route(method, path), path)}

SiteInit ==
    /\ Init
    /\ dataset \in SUBSET Slugs
    /\ view = [b \in Browsers |-> [path |-> <<>>, answer |-> Bare(0)]]

-----------------------------------------------------------------------------
Ask(b, method, path) ==
    /\ OpenPage(b)
    /\ \E next \in Answers(method, path) : view' = [view EXCEPT ![b] = next]
    /\ UNCHANGED dataset

(* An address is typed, or another program asks.                           *)
Type(b) == \E method \in {"GET", "POST"}, path \in Typed : Ask(b, method, path)

Follow(b) == \E path \in view[b].answer.links : Ask(b, "GET", path)

(* The form of /submit posts to /submit.                                   *)
SendForm(b) == view[b].answer.name = "submit" /\ Ask(b, "POST", <<"submit">>)

(* A page of the site loads the stylesheet and what that asks for.         *)
LoadAsset(b, a) ==
    /\ view[b].answer.name # "none"
    /\ Load(b, a)
    /\ UNCHANGED <<dataset, view>>

(* A release with another dataset is started; open pages stay open.        *)
Release(r) == Deploy(r) /\ dataset' \in SUBSET Slugs /\ UNCHANGED view

Forget(k, x) == Evict(k, x) /\ UNCHANGED <<dataset, view>>

SiteNext ==
    \/ \E b \in Browsers : Type(b) \/ Follow(b) \/ SendForm(b)
    \/ \E b \in Browsers, a \in Assets : LoadAsset(b, a)
    \/ \E r \in Releases : Release(r)
    \/ \E k \in Caches : \E x \in cache[k] : Forget(k, x)

SiteSpec == SiteInit /\ [][SiteNext]_siteVars

-----------------------------------------------------------------------------
(* "The router and the templates can never drift out of sync": every link  *)
(* on an open page leads to a page of the site with its navigation, and so *)
(* does the form.  A link leads to the styled 404 for one reason only: its *)
(* entry was taken away by a later release.  A row leads to its own entry. *)
NoDeadLinks ==
    \A b \in Browsers :
        /\ view[b].answer.name = "submit" =>
             \A next \in Answers("POST", <<"submit">>) : Chrome \subseteq next.answer.links
        /\ \A link \in view[b].answer.links :
                \A next \in Answers("GET", link) :
                    /\ Chrome \subseteq next.answer.links
                    /\ IF \E s \in Slugs \ dataset : link = <<"dir", s>>
                       THEN next.answer.name = "not-found"
                       ELSE next.answer.status = 200
                    /\ next.answer.name = "resource" => link = <<"dir", next.answer.shows>>
=============================================================================
