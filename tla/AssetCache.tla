----------------------------- MODULE AssetCache -----------------------------
(***************************************************************************)
(* Static assets across releases: internal/web/assets_version.go and the   *)
(* handler assets of handlers.go.  The stylesheet is referenced with the   *)
(* hash of its bytes, fonts without; every answer under /static/ may be    *)
(* kept for a year by browsers and by a shared cache in between, and the   *)
(* query is ignored.  Releases follow each other while pages are open.     *)
(* Ten hexadecimal characters of sha256 are taken to tell contents apart,  *)
(* so a version is the content itself.                                     *)
(***************************************************************************)
EXTENDS Naturals

CONSTANTS
    LastRelease,    \* releases are 1 .. LastRelease, in the order of building
    Assets,
    Versioned,      \* those that templates reference through "asset"
    Contents,
    NoFile,         \* an asset that a release does not have
    Bytes,          \* what each release has embedded
    Rollbacks,      \* an older release may be deployed again
    Browsers,
    Proxy           \* the shared cache

Releases == 1 .. LastRelease
Caches == Browsers \cup {Proxy}

ASSUME AssetAssumption ==
    /\ LastRelease \in Nat \ {0}
    /\ Versioned \subseteq Assets
    /\ Bytes \in [Releases -> [Assets -> Contents \cup {NoFile}]]
    /\ NoFile \notin Contents
    /\ Rollbacks \in BOOLEAN
    /\ Proxy \notin Browsers

None == 0       \* no page is open
Unversioned == <<>>

Urls == Assets \X ({<<c>> : c \in Contents} \cup {Unversioned})

VARIABLES
    running,    \* the release that answers
    page,       \* per browser: the release whose page is open, or None
    current,    \* the browsers that opened it since the last deployment
    loaded,     \* per browser: the assets that page has got, with their bytes
    cache       \* per cache: the set of <<url, bytes>> it keeps

vars == <<running, page, current, loaded, cache>>

TypeOK ==
    /\ running \in Releases
    /\ page \in [Browsers -> Releases \cup {None}]
    /\ current \subseteq Browsers
    /\ loaded \in [Browsers -> SUBSET (Assets \X (Contents \cup {NoFile}))]
    /\ cache \in [Caches -> SUBSET (Urls \X (Contents \cup {NoFile}))]
    /\ \A k \in Caches : \A x, y \in cache[k] : x[1] = y[1] => x = y

Init ==
    /\ running = 1
    /\ page = [b \in Browsers |-> None] /\ current = {}
    /\ loaded = [b \in Browsers |-> {}]
    /\ cache = [k \in Caches |-> {}]

-----------------------------------------------------------------------------
(* Mutant of AssetURL: no version in the URL.                              *)
AssetURLPlain(r, a) == <<a, Unversioned>>

(* Mutant of AssetURL: the version does not depend on the bytes.           *)
AssetURLFirst(r, a) == <<a, IF a \in Versioned THEN <<Bytes[1][a]>> ELSE Unversioned>>

(* The URL of an asset in the pages of release r.                          *)
AssetURL(r, a) ==
    <<a, IF a \in Versioned /\ Bytes[r][a] # NoFile THEN <<Bytes[r][a]>> ELSE Unversioned>>

(* What the pages and the stylesheet of release r ask for.                 *)
Referenced(r) == {a \in Assets : Bytes[r][a] # NoFile}

Deploy(r) ==
    /\ r # running
    /\ Rollbacks \/ r > running
    /\ running' = r /\ current' = {}
    /\ UNCHANGED <<page, loaded, cache>>

(* Pages are not cached: a page is always one of the running release.      *)
OpenPage(b) ==
    /\ page' = [page EXCEPT ![b] = running] /\ current' = current \cup {b}
    /\ loaded' = [loaded EXCEPT ![b] = {}]
    /\ UNCHANGED <<running, cache>>

Kept(k, url) == {x \in cache[k] : x[1] = url}

(* The header lets a cache keep any answer, also "404 page not found".     *)
Keep(k, url, bytes) == cache[k] \cup {<<url, bytes>>}

(* The open page asks for an asset.  The answer comes from the browser's   *)
(* cache, from the shared one, or from the running release, which looks at *)
(* the path only; it is kept on the way back.                              *)
Load(b, a) ==
    LET url == AssetURL(page[b], a)
        show(bytes) == loaded' = [loaded EXCEPT ![b] = @ \cup {<<a, bytes>>}]
    IN
    /\ page[b] # None
    /\ a \in Referenced(page[b])
    /\ ~ \E x \in loaded[b] : x[1] = a
    /\ \/ \E x \in Kept(b, url) : show(x[2]) /\ UNCHANGED cache
       \/ /\ Kept(b, url) = {}
          /\ \E x \in Kept(Proxy, url) :
                /\ show(x[2])
                /\ cache' = [cache EXCEPT ![b] = Keep(b, url, x[2])]
       \/ /\ Kept(b, url) = {} /\ Kept(Proxy, url) = {}
          /\ show(Bytes[running][a])
          /\ cache' = [k \in Caches |-> IF k \in {b, Proxy}
                                         THEN Keep(k, url, Bytes[running][a]) ELSE cache[k]]
    /\ UNCHANGED <<running, page, current>>

(* A cache may drop what it keeps at any time.                             *)
Evict(k, x) ==
    /\ x \in cache[k]
    /\ cache' = [cache EXCEPT ![k] = @ \ {x}]
    /\ UNCHANGED <<running, page, current, loaded>>

Next ==
    \/ \E r \in Releases : Deploy(r)
    \/ \E b \in Browsers : OpenPage(b) \/ \E a \in Assets : Load(b, a)
    \/ \E k \in Caches : \E x \in cache[k] : Evict(k, x)

Spec == Init /\ [][Next]_vars

-----------------------------------------------------------------------------
(* What the comments take for granted: the bytes of a stylesheet do not    *)
(* come back once they have changed, and a font, once there, never changes.*)
BytesSettle ==
    \A q, r \in Releases : q < r => \A a \in Assets :
        IF a \in Versioned
          THEN /\ Bytes[q][a] = Bytes[r][a] =>
                    \A m \in q .. r : Bytes[m][a] = Bytes[r][a]
               /\ Bytes[q][a] # NoFile => Bytes[r][a] # NoFile
          ELSE Bytes[q][a] # NoFile => Bytes[r][a] = Bytes[q][a]

(* "A new build with new CSS yields a new URL, so stale caches are bypassed *)
(* automatically": a page gets the bytes of the release that made it, as   *)
(* long as no other is deployed, however old the caches are.               *)
OwnBytes ==
    \A b \in current : \A x \in loaded[b] : x[2] = Bytes[running][x[1]]

(* A page that is still open after later deployments gets its assets from  *)
(* its own release or a later one, never from an older one.                *)
NeverOlder ==
    \A b \in Browsers : page[b] # None =>
        \A x \in loaded[b] : \E q \in page[b] .. running : x[2] = Bytes[q][x[1]]
=============================================================================
