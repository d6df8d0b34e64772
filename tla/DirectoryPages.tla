--------------------------- MODULE DirectoryPages ---------------------------
(***************************************************************************)
(* How an entry of the directory is shown: its row in the list and its own *)
(* page (internal/web/directory_view.go, directory_resource.go and their   *)
(* templates), down to the links as html/template writes them.  Wording,   *)
(* labels and markup are left out.                                         *)
(***************************************************************************)
EXTENDS DirectoryRules

CONSTANTS
    Absolute,       \* texts that start with http:// or https:// and a host
    OtherScheme     \* texts with a colon behind anything else, such as a
                    \* blank before http

Blocked == "#ZgotmplZ"

ASSUME LinksAssumption ==
    /\ Absolute \cap OtherScheme = {} /\ Blocked \notin Absolute
    /\ \A t \in HTTPUrls : Trim[t] = t => t \in Absolute

(* What html/template makes of a text in an href: a link with a scheme that*)
(* it does not know is replaced.                                           *)
Href(url) == IF url \in OtherScheme THEN Blocked ELSE url

(* Mutant of PrimaryURL: the access decides, not the links.                *)
PrimaryURLOfAccess(r) ==
    CASE r.access[1] = "clearnet" -> r.links.clearnet
      [] r.access[1] = "tor" -> r.links.onion
      [] OTHER -> r.links.i2p

(* clearnet, else onion, else i2p; as stored, not trimmed.                 *)
PrimaryURL(r) ==
    IF NonEmpty(r.links.clearnet) THEN r.links.clearnet
    ELSE IF NonEmpty(r.links.onion) THEN r.links.onion
    ELSE IF NonEmpty(r.links.i2p) THEN r.links.i2p
    ELSE NoText

(* The row of an entry; its name leads to /dir/<slug>.                     *)
Row(r) ==
    [slug |-> r.slug, name |-> r.name, status |-> r.status, access |-> r.access,
     open |-> Href(PrimaryURL(r)), warned |-> r.status = "scam"]

(* The links of an entry's page, in the order Clearnet, Tor, I2P.          *)
ResourceLinks(r) ==
    LET shown(label, link) ==
            IF NonEmpty(link) THEN <<[label |-> label, url |-> Href(link)]>> ELSE <<>>
    IN  shown("clearnet", r.links.clearnet) \o shown("tor", r.links.onion)
            \o shown("i2p", r.links.i2p)

ResourceDetail(r) ==
    [name |-> r.name, status |-> r.status, access |-> r.access,
     links |-> ResourceLinks(r), warned |-> r.status = "scam"]

-----------------------------------------------------------------------------
(* The row and the page of an entry fit together: the row has an Open link,*)
(* which is the first of the page, and the page has one link for each kind *)
(* of access that the entry lists.                                         *)
PageAgrees(r) ==
    LET links == ResourceDetail(r).links
    IN  /\ links # <<>> /\ Row(r).open = links[1].url
        /\ {links[k].label : k \in DOMAIN links} = {r.access[k] : k \in DOMAIN r.access}
        /\ Len(links) = Len(r.access)
=============================================================================
