# A TLA+ verification of monero.team

The repository is one Go binary that serves a resource directory, a news page and
a submission form, all rendered on the server, with no database and no client-side
scripts. This directory holds TLA+ models of its logic, TLC configurations that
check them on small instances, and proofs, checked by TLAPS, of the properties that
matter most. Every definition is translated from the source; `PROJECT.json` names
the lines of each.

## 1. The system

| Component | State | Operations | Talks to |
|---|---|---|---|
| News store (`internal/news/store.go`) | items and health per source, one `sync.RWMutex` | `Merge`, `SetError`, `All`/`Latest`, `Health` | written by the scheduler, read by every request for `/news` |
| Scheduler and fetcher (`internal/news/scheduler.go`, `fetch.go`) | position in a sweep, ticker, context | `Start`, `refreshAll`, `Fetch` | feed servers, the parser, the store; stopped by the context of `main` |
| Feed parser (`internal/news/parse.go`) | none | `parseFeed` and helpers | called in a sweep |
| News page (`internal/web/news_view.go`) | none | `newsFeed` | `Store.Latest(50)` |
| Directory rules and loader (`internal/directory/load.go`, `directory.go`) | the maps of one pass over the files | `Load`, `validate`, `checkCommon`, `ValidateSubmission` | run once at start-up; `ValidateSubmission` at every post |
| Directory store (`internal/directory/store.go`) | immutable indexes | `newStore`, accessors | read by the directory pages |
| Directory browsing (`internal/web/directory_filters.go`) | the query string | filters, search, links that remove one choice | the directory store |
| Submission form (`internal/web/submit.go`, `submit-form.html`) | the page at the visitor | `submitGet`, `submitPost` | `ValidateSubmission` |
| Server lifecycle (`cmd/server/main.go`) | listener, context, shutdown | `run` | everything above |
| Assets (`internal/web/assets_version.go`, `handlers.go`) | versions hashed at start | `assetURL`, `/static/` | browsers and shared caches |
| Rows and resource pages (`internal/web/directory_view.go`, `directory_resource.go`) | none | `buildDirectoryRows`, `buildResourceDetail` | the directory store, `html/template` |
| Router, handlers, templates, views (`router.go`, `handlers.go`, `templates.go`, `view.go`) | routes and templates, fixed at start-up | one handler per route | browsers; the sections of `content/strings` |
| Security headers, wording (`middleware.go`, `content/strings`) | none | constants | every answer |

What is hard in it:

* **Interleaving.** The collector's goroutine writes two maps while any number of
  request goroutines copy them; sorting and deduplication of the copy happen after
  the lock is released.
* **Time.** A sweep can take long, a ticker holds one tick, a signal can come at any
  point, and a server may never answer.
* **Partial failure.** One broken feed must not stop the others; one broken data file
  must not hide or be blamed for another.
* **Two lists of rules.** A submission is judged without a slug and a status and is
  loaded later with both, after a human has stored it.
* **A loop through the browser.** A rejected form travels to the page and back.
* **Releases.** Pages, caches and the store's content outlive or do not outlive the
  process that made them.

What makes each component correct:

* *News store*: critical sections exclude each other; a page comes from one moment;
  counts fit the lists; a list is a faithful digest of the feed; every call returns.
* *Scheduler*: servers are not polled faster than the floor; every source is polled
  again and again; the loop ends after the signal and then leaves the store alone.
* *Loader*: exactly the wrong files are blamed; a store is returned only for a dataset
  with none, and then complete and strictly ordered.
* *Submission*: what is accepted will load; what is rejected is kept as typed and can
  be put right at the inputs that carry a message.
* *Browsing*: a pill removes its own choice and nothing else; each of the two forms
  keeps what the other set; the counts are what a visitor finds; a shortened list says
  that it is one.
* *Parser*: a feed replaces the headlines as a whole or not at all; links, times and
  formats are read as the feed means them.
* *Scheduler, servers and process together*: the store is behind a source by a bounded
  time only, and a new process does not wait for its ticker.
* *Rows and pages*: the links of an entry agree wherever they are shown, and lead where
  the submitter meant them to.
* *Lifecycle*: nothing is served or fetched before start-up is sure to succeed; a clean
  exit means no answer was cut; a signal ends the process.
* *Assets*: a page gets the bytes of its own release, whatever caches keep.
* *Router*: no link is dead, unless its entry is gone; a row leads to its own entry.

## 2. The modules

| Module | Models | Kind |
|---|---|---|
| `NewsItems` | `dedupe`, `sortByPublishedDesc`, the digest of `Merge`, the page of `Latest` | operators |
| `NewsBoard` | what the store promises, without a lock | abstract specification |
| `NewsStore` | the store, access by access, under the lock | specification, refines `NewsBoard` |
| `NewsScheduler` | `Start`, `refreshAll`, `Fetch` with discrete time | specification |
| `DirectoryEnums` | the enumerations of `directory.go` | operators |
| `DirectoryRules` | `checkCommon`, `validate` | operators |
| `DirectoryLoad` | `Load`, `newStore`, `BySlug` | specification over `DirectoryRules` and `DirectoryPages` |
| `SearchText` | `parseSearch` on one text: trimming, cutting, splitting | operators |
| `DirectoryBrowse` | `buildDirectoryView` and the forms of the list | specification |
| `Submission` | `submitGet`, `submitPost`, the browser's form | specification over `DirectoryRules` and `DirectoryPages` |
| `NewsFreshness` | the loop with servers that publish and a process that restarts | composition over `NewsScheduler` |
| `NewsParse` | the limit on a body, `parseFeed` and its helpers, what a refresh stores | specification |
| `DirectoryPages` | `primaryURL`, rows, the page of an entry, links as `html/template` writes them | operators |
| `DirectoryGrowth` | an accepted entry in the dataset at the next start | operators over `Submission` |
| `ProcessLife` | what a process promises: comes up, may be told to stop, ends | abstract specification |
| `ServerRun` | `run` of `main.go` with its listener, server and visitors | specification, refines `ProcessLife` |
| `AssetCache` | `assetURL`, the handler of `/static/`, caches, releases | specification |
| `Site` | routes, handlers, the links of the pages | composition over `AssetCache` |
| `MC...` | small instances of the specifications | for TLC |
| `Sublists` | what a loop leaves of a list when it passes over some of the entries | operators |
| `NewsStoreProofs`, `NewsFreshnessProofs`, `NewsParseProofs`, `DirectoryLoadProofs`, `DirectoryBrowseProofs`, `SubmissionProofs`, `ServerRunProofs`, `SiteProofs` | theorems | for TLAPS |

A definition called *Mutant of X* is a plausible bug in X. It is not used by any
specification; replacing X by it makes the property named for it in `PROJECT.json`
fail, which shows that the property depends on that code.

### NewsStore

`bySource` and `health` are the two maps. A writer (`wpc`) calls `Merge` or `SetError`
(`CallMerge`, `CallSetError`), announces itself to the mutex (`Announce`), waits for
the readers inside (`Enter`), replaces the list (`StoreItems`), updates the record and
unlocks (`StoreHealth`). A reader (`rpc`) calls `Latest`, takes the read lock, copies
one source per step in any order (`Copy`), unlocks, and computes its page from its own
copy (`Return`), in an order of the sources that Go leaves to chance. A monitor does
the same for `Health`. The RWMutex is external and modelled from its contract: an
announced writer keeps new readers out, an unlocking writer lets the waiting readers in.

Items are records of natural numbers: 0 is the blank link, the blank title and the zero
time. `NormalTitle` stands for `normalizeTitle`. Clock readings in the health record
are reduced to whether they are set. `Latest` with a limit that is not positive is not
modelled: the only caller passes 50.

### NewsScheduler

`pc` and `i` give the place in `Start` and `refreshAll`. Time advances only while the
goroutine is blocked in a fetch or in the select; parsing and storing take none. The
ticker holds one tick and drops the rest. `Cancel` may come at any moment. `since` and
`lateWrites` only observe.

### DirectoryRules and DirectoryLoad

An entry is a record with the fields of `Resource`, without KYC, which no rule reads.
Texts are constants with what the code asks of them (length, trimmed form, whether
they are a URL, a slug, lower case). Errors are pairs of a field and a rule. `dataset`
gives for each file an entry or the reason why there is none; `SkipFile` and
`CheckFile` are the two paths through the loop body, `Return` is what follows it.

### DirectoryBrowse

The server keeps nothing here either: `query` is the address bar, a set of pairs of key
and value. `Visit` is a link from elsewhere, with values that this dataset does not
know; the other actions are the links and forms of the page that the query yields:
`RemovePill`, `Clear`, `SubmitSearch` (with the selection in hidden inputs) and
`ApplyFilters` (with the search in one). `Selection`, `Raw` and `Terms` are what the
server understands of a query, `Canonical` what it puts in links. Texts are sequences of
characters, and `SearchText` has what `parseSearch` makes of one: `Trim`, `Cap` and
`Fields` trim, cut and split it, with any limits. The text that is put in a link is the
cut one, and is cut and parsed again when the link is followed. All white space is one
blank, and the case of letters, which plays no part in this, is left out. The order of
boxes and pills is left out too.

A status that no entry has can be selected by a link and then has a pill, but no box:
applying the sidebar's form drops it. `FormsKeepTheRest` therefore speaks of boxes.

### Submission

The server keeps nothing, so the only variable is the page that the visitor has. A
first post may carry anything; a later one is what the page shows with one input
changed. `Shown` is what the browser has in the inputs: the template selects a category
only if it is a known one.

### NewsFreshness

Each source is *behind* when it has published something that the store does not show;
`late` counts for how long, since the source's last failure, for which only the source
is to blame. A server composes its answer (`Compose`) at some moment of the fetch; what
it publishes after that (`Publish`) is missing from the answer, although the answer
arrives later. `Restart` is a new process: an empty store, a sweep before the ticker.
It may happen at any moment, also in the middle of a fetch, and at most `MaxRestarts`
times, a bound of the model. The other actions are those
of `NewsScheduler` with their effect on what is shown.

### NewsParse

A document is what `encoding/xml` makes of a body: the root, whether it can be read to
the root's end, the entries. Texts are taken up to trimming, dates up to the layout
they fit, the clock they show and the offset they carry. `Refresh` is one source's turn
in `refreshAll`: the cut body (`Body`), `parseFeed`, and `Merge` or `SetError`. Its
`stored` is the list as parsed; `dedupe` and the caps are `NewsItems`. `doc` is kept
only to compare. An abbreviated zone such as `EST` is read by Go as UTC under that name.

### DirectoryPages and DirectoryGrowth

`DirectoryPages` is what the list and the entry's page show of an entry. `Href` is
`html/template`'s treatment of a link: a scheme that it does not know is replaced, and
a text without a scheme is a relative link. `PageAgrees` is checked for what `Load`
stores and, with more on where links lead, for what the form accepts.

`DirectoryGrowth` looks at an accepted submission and every dataset it may come to.
`Publish` is the moderator's part: the entry gets a status and replaces or adds the file
that the page named. `Datasets` are those made of entries written by hand that the
repository's tests let pass; a base name without a file is `NoFile`. `LoadErrors` is what the next start reports, without the loop;
that the loop of `DirectoryLoad` reports the same is the theorem `GrowthCorrect`.

### ServerRun

`pc` is the place in `run`, `server` what `srv` does in the goroutine of its own,
`listener` the socket, `conn` the visitors. A connection waits in the queue of the
listener from the moment the port is bound, also before `Serve` has been called; it is
accepted, and is answered, or runs into its deadline (`late`), or is cut by the exit.
`Signal` kills the process before `NotifyContext` and cancels the context after it.
`Shutdown` closes the listener that `Serve` has registered; if `Serve` has not begun, it
finds the server shut down and closes the listener itself (`ServeBegins`). Connections
carry one request; idle ones, which `Shutdown` closes at once, are left out.

### AssetCache

Releases are numbered in the order of building. A page belongs to the release that made
it; its stylesheet's URL has the hash of that release's bytes, which is taken to
identify them. `Load` is answered by the browser's cache, by a shared one, or by the
running release, which looks at the path only. Caches keep any answer (Go 1.22 leaves
the header on a 404) and may drop it at any time.

### Site

A path is the sequence of its parts. `Patterns` are the routes and `Route` the matching
of `ServeMux`, which takes the narrowest pattern. `Serve` has one branch per handler;
the answer of `/static/` may be a file or a plain 404. A page is its name, its links, its
status and the entry it shows. The visitor follows links (`Follow`), sends the form
(`SendForm`) and types addresses (`Type`); each of these opens a page of `AssetCache`,
which then loads its assets (`LoadAsset`). `Release` is a deployment with another
dataset and other assets while pages are open. Queries, other sites, HEAD and the
redirects by which the router cleans a path are left out.

## 3. What the runs check

| Run | Instance | Shows |
|---|---|---|
| `store_safety` | 2 sources, 2 writers, 1 reader, 2 feeds | exclusion; copies are not torn; counts fit the lists; digests and pages are sound; the store implements the board |
| `store_returns` | 1 source, 2 writers, 1 reader, 1 monitor | every call returns; a report of `Health` describes the store |
| `store_newest_copy` | 2 sources, 1 writer, 3 feeds | violated: `Merge` keeps the first copy, not the newest |
| `scheduler` | 2 sources, a configured interval below the floor, 1 restart | the gap between requests, the sweep's record, silence after the signal, how far the store is behind, the end of the loop, every source comes round |
| `news_parse` | 2 entries of 1 kind, or 1 of about 200 kinds | all or nothing, links, formats |
| `directory_load` | 3 files, 11 contents each | blame, completeness, order, rows and pages that agree |
| `directory_browse` | 3 entries, 11 choices, 7 texts | links and forms change what they say; counts; widening |
| `submission` | 2 to 16 values per input, 2 entries by hand | acceptance loads and links open; what can still break the next start; rejection is stable and actionable |
| `submission_slug` | as `submission` | violated: a name of symbols is accepted without a slug |
| `server` | 3 visitors, drain 2, deadline 3 | silent failed starts, clean exits, genuine errors; a signal ends the process, visitors are served |
| `site` | the 7 sections, 2 slugs, 9 typed paths, 3 releases, 1 browser | no dead link across releases, no asset of an older release |
| `assets_rollback` | 3 releases, 2 browsers, 1 shared cache, with rollbacks | violated: caches show the bytes of one release, newer or older, on pages of another |

**Bounds.** Two writers and one reader are enough to put any two critical sections and
any writer between two copies; two sources are enough for a torn copy and for ties
between sources. The lists keep two items and a page shows two: one feed has more items
than are kept, and the two feeds of `store_safety` together hold three headlines, so that
a page is full and leaves one out. The feeds contain a link twice, a headline twice, an
undated item and an item without a link. `store_returns` needs one source only: the
content of the lists plays no part in the lock. In `scheduler` the interval is 5 units, the floor, and the
timeout 2, so that two hanging servers nearly fill it (`SweepFits`), the loop waits one
unit and a tick can be waiting when a sweep ends; the bound of `FreshWithin` is reached,
a smaller one is violated. `since` is counted up to `LongAgo`, which no interval exceeds,
so that a lost floor would show in it, `late` up to one more than its bound and `lateWrites` up to 2, beyond which their properties do not
distinguish. One restart meets the loop in every state; the next process is in no other
state than the first. Production has one source, a timeout of ten seconds and an
interval of twenty minutes. Three files allow a duplicate of a rejected file and a file
after both. In `directory_browse` every subset of the choices is visited, with one
category that no entry has; of the texts one has more terms than are read, one is cut at
a blank, which stays at its end, and one in the middle of a term.
`submission` has for every input one good value and those that fail or change on the
way, and two entries of the dataset that an accepted one can clash with; the states are
the pages. `server` has a deadline longer than the drain, as in production, and enough
visitors for one that is answered, one that is cut and one in the queue. In `site` and
`assets_rollback` the second release has the stylesheet of the first, the third a new one and a font; `site` has the
sections of the source, and every dataset of two slugs in every release.

**Symmetry** of sources, writers, readers and visitors is used in safety runs only, where no
definition tells two of them apart.

**Fairness.** In `store_returns` every goroutine that can run does (weak fairness of
each client), and a writer is not passed over for ever by other writers (strong
fairness of `Announce`; Go's mutex hands itself to a waiter that starves). No caller is
obliged to call. In `scheduler` (`FreshFairness`) time passes and the goroutine takes
the steps that do not depend on a server; no server has to answer or to publish, no
signal has to come, no process has to end, and select may prefer the tick to the
cancelled context. In `server` the goroutines run, `Serve` accepts who waits, time
passes and deadlines fire; no handler has to answer, nobody has to connect or to send a
signal. `Load`, the submission form, the list and the site have no liveness: the loader
is a bounded loop, and nobody obliges a visitor.

**Deadlock** is checked in every run. A scheduler that has stopped, a `Load` that has
returned and a process that has exited stutter by an action of their own (`Done`).

## 4. What is proved

The theorems hold for every value of the constants that satisfies the named
assumptions (`LimitsAssumption`, `FeedsAssumption`, `ClientsAssumption`,
`SchedulerAssumption`, `RestartsAssumption`, `TextsAssumption`, `LinksAssumption`,
`FilesAssumption`, `AccessAssumption`, `OrderAssumption`, `SubmissionAssumption`,
`InputsAssumption`, `ResourcesAssumption`, `SearchAssumption`, `BrowseAssumption`, `SourcesAssumption`,
`DocumentsAssumption`, `BlankAssumption`, `ServerAssumption`, `AssetAssumption`,
`SiteAssumption`), which TLC also evaluates on the instances. Every invariant and every
safety property of a passing run is stated by a theorem.

* **NewsStoreProofs.** `TypeInv` adds to `TypeOK` what a running reader and writer
  hold. `LockCorrect` is inductive together with it: `holder` names the only writer
  past `Announce`, `Enter` waits until no reader is inside, and no reader gets in while
  `holder` is set. `SnapshotCorrect` needs the lock, and that what a reader outside has
  copied is of no account. `HealthCorrect` needs that only the writer inside is between
  the two updates (`HealthInv`). `ReportCorrect` is the action property that follows,
  since a monitor inside means that no writer is. `BoardImplemented` maps `StoreItems`
  to `Publish`, `RUnlock` to `Take`, `Return` to `Show`, `CallLatest` to `Request`, and
  every other step to a stutter; that `Take` takes the whole board is `SnapshotCorrect`.
  `DigestCorrect` and `PageCorrect` are about the data: the loop of `dedupe` keeps the first
  of any items with one link or headline (an induction over the place in the list, from
  the least number at which it would fail), a sort is a bijection of the places that
  brings the times in order, and a cut drops only what is behind, hence no newer than,
  what is kept. `HealthInv` says that between the two updates of a `Merge` its list is the
  digest of what it brought, and `PageInv` that an answer is a page of the reader's copy.
* **NewsFreshnessProofs.** The loop alone first. `QuietCorrect` says why one late write
  is possible and no second: after the cancellation the loop can be inside one fetch
  only. `SweepCorrect` keeps the count equal to the cardinality of the successful sources
  behind the loop.
  `FetchGapCorrect` assumes `SweepFits`, that a sweep fits in an interval: the invariant
  `GapInv` bounds the age of every source's last request by the ticker's phase and the
  time the sweep may still take. Without the assumption it is false: a sweep longer
  than an interval finds a tick waiting and the next sweep follows at once.
  With servers and restarts, `FreshCorrect` and `FirstSweepCorrect` assume `SweepFits` and
  rest on the types and on `GapInv` of the loop, which every step but a restart keeps
  (`LoopStep`). `LateInv` bounds `late` by the place of the loop: in the first sweep by
  the time it has taken (`LateInFirst`), in a later one by what the sweep before it had
  left to do for the source, an interval, and the age of the tick (`LateInSweep`), and
  between two by the first and the last (`LateBetween`). What an answer misses was
  published during its fetch, hence `late` restarts at `fetchFor`.
* **NewsParseProofs.** `RefreshCorrect` is about each step: the two kinds of document
  exclude each other, so that a whole feed yields one item for every entry and anything
  else an error. `LinkCorrect` keeps as invariant that after a success the store has the item
  of each entry of `doc` (`StoredInv`), and follows the two passes of `atomLinkHref` over
  the links (`HrefTaken`). `FormatsCorrect` compares the two conversions entry by entry
  (`SameItem`). `TypeCorrect` says that a stored headline has a time and nothing to trim.
* **ServerRunProofs.** `Stages` says what has happened at each place of `run`, and
  `DrainSpent` that the time of a drain has been spent on a connection accepted before
  it: without the latter an error could not be blamed on a connection with all of
  `DrainLimit`. `ExitInv` treats the ways to end together. `LifeImplemented` is the safety
  part of `ImplementsLife`.
* **SiteProofs.** First the assets alone: `NeverOlderCorrect` and `OwnBytesCorrect` assume
  that no release comes back (`~Rollbacks`) and that contents settle (`BytesSettle`: a
  stylesheet that changed does not change back, a font never changes). Every copy in a
  cache was asked for by a page of a release and answered by that one or a later one
  (`Explained`); two releases with the same URL have the same bytes, and so has every
  release between them (`SameUrl`). `assets_rollback` shows that the first assumption is
  needed. `SiteNeverOlder` carries the result over to the composition: every step of the
  site is one of the assets or leaves them alone.
  `NoDeadLinksCorrect` needs that `ServeMux` finds one narrowest pattern: besides the
  catch-all `GET /`, which every path fits, at most one route fits a path (`OneFits`), for
  any names of sections that are no other route (`SiteAssumption`). The invariant `ViewInv`
  says that the links of an open page are links of the site; that each leads where it
  should, under every later dataset, is `LinkLeads`.
* **DirectoryLoadProofs.** `LoadInv` says that the maps hold exactly the keys of the
  files behind the loop, those of rejected files included. From it follow `BlameCorrect`
  and `StoreCorrect`, for any number of files and any rules for a single entry, and
  `LoadTypeCorrect`. `HoldsAllCorrect` needs `OrderAssumption`, that name and slug order the
  entries strictly: the rank of an entry, the number of entries not behind it, is a
  bijection of the files and the positions, so that an order of the store exists and its
  places are the files. `PagesCorrect` is `GoodPagesAgree` for the stored entries: in an
  entry without errors the kinds of access are those with a link; the page's links have
  different labels, as many as the kinds, and the first of them is the one that
  `primaryURL` picks.
* **DirectoryBrowseProofs.** `SearchAgain` is about one text: trimmed and cut it begins with
  a letter, so trimming it again takes only blanks from its end (`CutTrimmed`), and the
  terms depend only on where the letters are (`FieldsAgree`). The core is `TermsAgain`:
  whatever the query was, the text that the server puts in a link is the only one there
  and is read as the same terms.
  `PillRemoval` and `FormsKeep` follow for every state, without an invariant;
  `TypeCorrect` says that no form sends two texts. `RemovalCorrect`, `CountsCorrect` and
  `PillsCorrect` are about what the row loop leaves of the store (`Sublists`): its
  positions are numbered without gaps in their order (`NthSound`), so that its rows are
  exactly the entries that match (`RowsSound`), as many as there are of them, and all of
  them if every entry matches. The rest is about which entries match: without the search
  or without the last choice of a facet no fewer do, a box alone is matched by the entries
  that have its value, and without a pill nothing restricts the list.
* **SubmissionProofs.** `checkCommon` reads neither slug nor status
  (`CheckCommonFrame`), so what the form accepted passes the loader under any status
  (`AcceptedCorrect`); a form that was read has nothing left to trim and differs from
  what the browser shows only in an unknown category, which is rejected either way
  (`RejectionCorrect`). `LinksCorrect` is `GoodPagesAgree` for the entries built from a
  form, with `LinksAssumption`: a trimmed text that the rules take for a web address is
  one for `html/template`. `TagsCorrect`: what `parseTags` keeps is in lower case, not
  empty, and of equal parts only the first (`ParsedTags`), and no rule but those on tags
  flags the tags (`TagsFlagged`). `ActionableCorrect` needs both directions of
  `mapFieldErrors`: an input that is not flagged breaks no rule (`UnflaggedFit`,
  `UnflaggedLinks`), and a form in which nothing breaks a rule, the boxes ticked being
  those with a link, is accepted (`FitsPasses`). `Correctable` then fills in the flagged
  inputs: if the boxes carry a message they follow the links, otherwise the flagged links
  follow the boxes (`Repair`). It assumes only that each input can be filled in well
  (`InputsAssumption`). `ClashesCorrect` joins the accepted entry to a dataset that
  loads: every file then still passes its rules, each slug is its file's name, hence none
  is taken twice, and of two files with one clearnet URL one is the new entry.
  `GrowthCorrect` is the bridge to the loop: `ReportInv` of `DirectoryLoadProofs` says
  rule by rule what has been reported for the files behind it, and a key shared by two
  names is one that the later of two files shares with the earlier. `NextStartCorrect`
  puts form, moderator and loader together.

**Only model-checked.** Liveness (`CallsReturn`, `CancelStops`, `EverySourcePolled`,
`VisitorsServed` and the fair part of `ImplementsLife`), which is outside this prover. The
properties of the three runs that expect a violation are false, as the runs show.

## 5. Where code and comments disagree

* `dedupe` says that its callers sort first so that the newest copy wins; `Merge`
  deduplicates first (`store_newest_copy`).
* `slugify` relies on the validation of the name to report a name without a slug; that
  validation accepts `!!!` (`submission_slug`).
* The handler of `/static/` calls stale versions harmless; a page that stays
  open while another release answers fills caches with the bytes of that release under
  its own version, and they are shown when its release is deployed again
  (`assets_rollback`). The trace that TLC prints depends on the order in which its workers
  explore, and goes one of two ways: a page with the first stylesheet (of release 1 or 2)
  asks while release 3 answers, and an older release is deployed again (newer bytes under
  the older version); or a page of release 3 asks after a rollback, while an older release
  answers, and release 3 is deployed again (older bytes under the newer version). Without rollbacks all is well (`OwnBytesCorrect`).

Three remarks that no run is spent on. `sortByPublishedDesc` promises a deterministic
order, but items of two sources that agree in time, title and link follow the random
order of the map, so that two requests may credit different sources. The Open link of a
row is called external; the rules accept an onion link without `http://`, and the link is
then relative to the site, hence `AcceptedLinksOpen` speaks of entries with a clearnet
link. The handler of `/static/` sets the cache header before it looks for the file, and
Go 1.22 leaves it on a 404; `NeverOlder` holds because a page asks only for files that
its release has.

## 6. Not modelled, and the plan

Not modelled: the seven constant security headers of `middleware.go`, texts and markup,
the formatting of dates in `buildNewsView`, labels, the choice of the address by `resolveAddr`, MIME types,
fonts and styles, the dataset itself, the Dockerfile and the Makefile. They have no
behaviour over time, or the unit tests read them directly. `ByCategory` and `ByStatus`
have no caller. Outside the models: what `encoding/xml` accepts, hash collisions, and
connections that carry several requests.

The scheduler and the store meet in `NewsFreshness` through what a `Merge` shows. Their
full composition under the lock would repeat `NewsStore`, whose writers already come
from anywhere at any time, and is not planned.

What is left for the proofs is between the models rather than in them: the same kind of
bridge as `GrowthCorrect` from the parser to the store (a parsed feed is a feed that
`NewsStore` merges), from the scheduler to the store (the list that `NewsFreshness` takes
as shown is the one that `Latest` reads), and from the store of `DirectoryLoad` to the rows
of `DirectoryBrowse`.
