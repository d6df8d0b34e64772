------------------------------ MODULE NewsParse ------------------------------
(***************************************************************************)
(* From the body of an answer to the headlines that are kept: the limit on *)
(* the body in internal/news/fetch.go, and internal/news/parse.go.  Texts  *)
(* are taken as trimmed; NoText is the empty one and Blank one that is     *)
(* empty once trimmed.  A document is what encoding/xml makes of a body:   *)
(* its root element, whether it can be read to the end of that element,    *)
(* and the entries up to there.  It fails to be read when it is malformed, *)
(* in another character set, or cut by the limit.                          *)
(***************************************************************************)
EXTENDS Integers, SequencesExt

CONSTANTS
    Documents,      \* what a server may answer
    NoText, Blank

(* A date as it is written: the form of its text, the clock it shows, and  *)
(* how far that clock is ahead of UTC.  Only "numeric" forms carry the     *)
(* offset; of an abbreviation such as EST Go takes only the name.          *)
DateForms == {"empty", "numeric", "utc", "abbreviated", "other"}
NoTime == 0

Date == [form : DateForms, clock : Nat, ahead : Int]
Link == [text : STRING, href : STRING, rel : STRING]

(* The children of an item or entry; first and second are pubDate and      *)
(* dc:date, or published and updated.                                      *)
Entry == [title : Seq(STRING), links : Seq(Link), first : Date, second : Date]

Document == [root : STRING, whole : BOOLEAN, long : BOOLEAN, entries : Seq(Entry)]

ASSUME DocumentsAssumption == \A d \in Documents : d \in Document

ASSUME BlankAssumption == Blank # NoText

EmptyFeed == [root |-> "rss", whole |-> TRUE, long |-> FALSE, entries |-> <<>>]

VARIABLES
    doc,        \* the document read last; at first as if it had no entries
    stored,     \* the headlines of the source, as parsed
    failed      \* the last refresh ended in SetError

vars == <<doc, stored, failed>>

TypeOK ==
    /\ doc \in Documents \cup {EmptyFeed}
    /\ failed \in BOOLEAN
    /\ \A n \in DOMAIN stored :
          /\ stored[n].published \in Int
          /\ stored[n].link # Blank /\ stored[n].title # Blank

-----------------------------------------------------------------------------
Trim(t) == IF t = Blank THEN NoText ELSE t

(* A field that is a string gets the last element of its name; elements of *)
(* another namespace with that local name count as well.                   *)
Field(texts) == IF texts = <<>> THEN NoText ELSE Last(texts)

(* The first layout that fits; none fits an empty text or another form.    *)
ParseTime(d) ==
    CASE d.form = "numeric" -> d.clock - d.ahead
      [] d.form \in {"utc", "abbreviated"} -> d.clock
      [] OTHER -> NoTime

DateOf(e) == IF e.first.form = "empty" THEN e.second ELSE e.first

(* pubDate, or dc:date when it is empty.                                   *)
RssItem(e) ==
    [title |-> Trim(Field(e.title)),
     link |-> Trim(Field([n \in DOMAIN e.links |-> e.links[n].text])),
     published |-> ParseTime(DateOf(e))]

(* Mutant of AtomLinkHref: the first link that has an href.                *)
AtomLinkHrefAny(links) ==
    LET usable(l) == l.href # NoText
        first == SelectInSeq(links, usable)
    IN  IF first = 0 THEN NoText ELSE Trim(links[first].href)

(* Two loops; SelectInSeq is 0 when a loop ends without a return.          *)
AtomLinkHref(links) ==
    LET usable(l) == l.href # NoText
        canonical(l) == usable(l) /\ l.rel \in {"alternate", NoText}
        preferred == SelectInSeq(links, canonical)
        first == IF preferred # 0 THEN preferred ELSE SelectInSeq(links, usable)
    IN  IF first = 0 THEN NoText ELSE Trim(links[first].href)

(* Mutant of AtomItem: an entry is dated by its last change.               *)
AtomItemUpdated(e) ==
    [title |-> Trim(Field(e.title)), link |-> AtomLinkHref(e.links),
     published |-> ParseTime(IF e.second.form = "empty" THEN e.first ELSE e.second)]

(* published, or updated when it is empty.                                 *)
AtomItem(e) ==
    [title |-> Trim(Field(e.title)), link |-> AtomLinkHref(e.links),
     published |-> ParseTime(DateOf(e))]

(* Mutant of Unmarshals: the root element may have any name.               *)
UnmarshalsAnyRoot(d, root) == d.whole

(* xml.Unmarshal into a struct whose XMLName is root.                      *)
Unmarshals(d, root) == d.whole /\ d.root = root

(* The items under channel>item, or under entry: a document of the other   *)
(* kind has none.                                                          *)
Children(d, root) == IF d.root = root THEN d.entries ELSE <<>>

ParseFeed(d) ==
    LET items(root, convert(_)) ==
            [n \in DOMAIN Children(d, root) |-> convert(Children(d, root)[n])]
        parsed(list) == [ok |-> TRUE, items |-> list]
    IN
    IF Unmarshals(d, "rss") THEN parsed(items("rss", RssItem))
    ELSE IF Unmarshals(d, "feed") THEN parsed(items("feed", AtomItem))
    ELSE [ok |-> FALSE, items |-> <<>>]

-----------------------------------------------------------------------------
(* io.LimitReader: a longer body is cut without an error.  Cut inside the  *)
(* root element, it cannot be read to the end.                             *)
Body(d) == [d EXCEPT !.whole = d.whole /\ ~d.long]

Init == doc = EmptyFeed /\ stored = <<>> /\ failed = FALSE

(* One source's turn in refreshAll: Merge replaces the list, SetError      *)
(* leaves it.                                                              *)
Refresh(d) ==
    LET parsed == ParseFeed(Body(d)) IN
    /\ doc' = d
    /\ failed' = ~parsed.ok
    /\ stored' = IF parsed.ok THEN parsed.items ELSE stored

Next == \E d \in Documents : Refresh(d)

Spec == Init /\ [][Next]_vars

-----------------------------------------------------------------------------
(* A document that is cut, broken or of another kind changes no headline,  *)
(* and a whole feed of either kind replaces all of them, one headline per  *)
(* entry: an Atom feed is never taken for an RSS feed without items.       *)
AllOrNothing ==
    [][LET feed == doc'.whole /\ ~doc'.long /\ doc'.root \in {"rss", "feed"} IN
        /\ failed' = ~feed
        /\ IF feed THEN Len(stored') = Len(doc'.entries) ELSE stored' = stored]_vars

(* The comment of atomLinkHref, for each entry: rel="alternate" or none is *)
(* preferred, otherwise the first link with an href is taken.              *)
LinkIsCanonical ==
    ~failed /\ doc.root = "feed" => \A n \in DOMAIN stored :
        LET links == doc.entries[n].links
            usable == {k \in DOMAIN links : links[k].href # NoText}
            wanted == {k \in usable : links[k].rel \in {NoText, "alternate"}}
            taken(k, from) == k \in from /\ \A j \in from : k <= j
        IN  \/ usable = {} /\ stored[n].link = NoText
            \/ \E k \in usable :
                  /\ stored[n].link = Trim(links[k].href)
                  /\ taken(k, IF wanted # {} THEN wanted ELSE usable)

(* The same stories give the same headlines, whichever format a source     *)
(* happens to use.                                                         *)
AsAtom(d) ==
    [d EXCEPT !.root = "feed", !.entries = [n \in DOMAIN d.entries |->
        [d.entries[n] EXCEPT !.links =
            <<[text |-> NoText, rel |-> "alternate",
               href |-> Field([k \in DOMAIN @ |-> @[k].text])]>>]]]

FormatsAgree ==
    doc.root = "rss" => ParseFeed(Body(AsAtom(doc))) = ParseFeed(Body(doc))
=============================================================================
