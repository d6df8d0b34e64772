--------------------------- MODULE NewsParseProofs ---------------------------
(***************************************************************************)
(* Theorems about reading a feed, for any documents: which of them replace *)
(* the headlines, and that both formats make the same headlines of the     *)
(* same stories.                                                           *)
(***************************************************************************)
EXTENDS NewsParse, FiniteSetTheorems, TLAPS

(* A set of positions that is not empty has a first one.                   *)
LEMMA FirstPosition ==
  ASSUME NEW T \in SUBSET Nat, T # {}
  PROVE  /\ Min(T) \in T
         /\ \A m \in T : Min(T) <= m
<1> DEFINE R == {ss \in Nat \X Nat : ss[1] < ss[2]}
<1>1. IsWellFoundedOn(R, Nat)
  BY NatLessThanWellFounded DEF OpToRel
<1>2. \A x, y \in Nat : x < y => <<x, y>> \in R
  OBVIOUS
<1> HIDE DEF R
<1>3. PICK x \in T : \A y \in T : <<y, x>> \notin R
  BY <1>1, WFMin
<1>4. \A y \in T : y \in Nat /\ ~(y < x)
  BY <1>2, <1>3
<1>5. \A y \in T : x <= y
  BY <1>3, <1>4
<1> QED BY <1>3, <1>5 DEF Min

(* The positions of the links that can be taken, and those preferred.      *)
Usable(links) == {k \in 1 .. Len(links) : links[k].href # NoText}

Wanted(links) ==
    {k \in 1 .. Len(links) :
        links[k].href # NoText /\ links[k].rel \in {"alternate", NoText}}

(* atomLinkHref takes the first of them.                                   *)
LEMMA HrefTaken ==
  ASSUME NEW links \in Seq(Link)
  PROVE  AtomLinkHref(links) =
           IF Wanted(links) # {} THEN Trim(links[Min(Wanted(links))].href)
           ELSE IF Usable(links) # {} THEN Trim(links[Min(Usable(links))].href)
           ELSE NoText
<1> DEFINE w == Wanted(links)
           u == Usable(links)
           preferred == IF w # {} THEN Min(w) ELSE 0
           first == IF preferred # 0 THEN preferred ELSE IF u # {} THEN Min(u) ELSE 0
<1>1. AtomLinkHref(links) = IF first = 0 THEN NoText ELSE Trim(links[first].href)
  BY DEF AtomLinkHref, SelectInSeq, Wanted, Usable
<1>2. Len(links) \in Nat
  OBVIOUS
<1>3. w \subseteq 1 .. Len(links) /\ u \subseteq 1 .. Len(links)
  BY DEF Wanted, Usable
<1> HIDE DEF w, u
<1>4. w # {} => Min(w) # 0
  BY <1>2, <1>3, FirstPosition
<1>5. u # {} => Min(u) # 0
  BY <1>2, <1>3, FirstPosition
<1> QED BY <1>1, <1>4, <1>5 DEF w, u
-----------------------------------------------------------------------------
(* A document that can be read, and what is made of its entries.           *)
Readable(d) == d.whole /\ ~d.long /\ d.root \in {"rss", "feed"}

Item(root, e) == IF root = "rss" THEN RssItem(e) ELSE AtomItem(e)

(* A record with the fields of a document.                                 *)
Shaped(d) ==
    d = [root |-> d.root, whole |-> d.whole, long |-> d.long, entries |-> d.entries]

(* ParseFeed makes one item of each entry of a document it can read, and   *)
(* of another document an error.                                           *)
LEMMA ParsedFeed ==
  ASSUME NEW d, Shaped(d)
  PROVE  /\ Readable(d) =>
              ParseFeed(Body(d)) =
                [ok |-> TRUE, items |-> [n \in DOMAIN d.entries |-> Item(d.root, d.entries[n])]]
         /\ ~Readable(d) => ParseFeed(Body(d)) = [ok |-> FALSE, items |-> <<>>]
<1>1. /\ Body(d).root = d.root /\ Body(d).entries = d.entries
      /\ Body(d).whole = (d.whole /\ ~d.long)
  BY DEF Body, Shaped
<1>2. \A root : Unmarshals(Body(d), root) <=> d.whole /\ ~d.long /\ d.root = root
  BY <1>1 DEF Unmarshals
<1>3. Children(Body(d), d.root) = d.entries
  BY <1>1 DEF Children
<1>4. CASE ~Readable(d)
  <2>1. ~Unmarshals(Body(d), "rss") /\ ~Unmarshals(Body(d), "feed")
    BY <1>2, <1>4 DEF Readable
  <2> QED BY <1>4, <2>1 DEF ParseFeed
<1>5. CASE Readable(d) /\ d.root = "rss"
  <2>1. Unmarshals(Body(d), "rss") /\ Children(Body(d), "rss") = d.entries
    BY <1>2, <1>3, <1>5 DEF Readable
  <2>2. ParseFeed(Body(d)) = [ok |-> TRUE, items |-> [n \in DOMAIN d.entries |-> RssItem(d.entries[n])]]
    BY <2>1 DEF ParseFeed
  <2> QED BY <1>5, <2>2 DEF Item
<1>6. CASE Readable(d) /\ d.root = "feed"
  <2>1. /\ ~Unmarshals(Body(d), "rss") /\ Unmarshals(Body(d), "feed")
        /\ Children(Body(d), "feed") = d.entries
    BY <1>2, <1>3, <1>6 DEF Readable
  <2>2. ParseFeed(Body(d)) = [ok |-> TRUE, items |-> [n \in DOMAIN d.entries |-> AtomItem(d.entries[n])]]
    BY <2>1 DEF ParseFeed
  <2> QED BY <1>6, <2>2 DEF Item
<1> QED BY <1>4, <1>5, <1>6 DEF Readable

(* What a refresh leaves behind.                                           *)
LEMMA Refreshed ==
  ASSUME NEW d \in Documents, Refresh(d)
  PROVE  /\ doc' = d /\ d \in Document
         /\ failed' = ~Readable(d)
         /\ stored' = IF Readable(d)
                      THEN [n \in DOMAIN d.entries |-> Item(d.root, d.entries[n])]
                      ELSE stored
<1>1. d \in Document /\ Shaped(d)
  BY DocumentsAssumption DEF Document, Shaped
<1> QED BY <1>1, ParsedFeed DEF Refresh

(* A refresh replaces all headlines by those of a whole feed, of either    *)
(* kind, or changes none: parseFeed and refreshAll together.               *)
THEOREM RefreshCorrect == Spec => AllOrNothing
<1> DEFINE AllOrNone ==
        LET feed == doc'.whole /\ ~doc'.long /\ doc'.root \in {"rss", "feed"} IN
          /\ failed' = ~feed
          /\ IF feed THEN Len(stored') = Len(doc'.entries) ELSE stored' = stored
<1>1. ASSUME Next PROVE AllOrNone
  <2>1. PICK d \in Documents : Refresh(d)
    BY <1>1 DEF Next
  <2>2. /\ doc' = d /\ d \in Document
        /\ failed' = ~Readable(d)
        /\ Readable(d) => stored' = [n \in DOMAIN d.entries |-> Item(d.root, d.entries[n])]
        /\ ~Readable(d) => stored' = stored
    BY <2>1, Refreshed
  <2>3. d.entries \in Seq(Entry)
    BY <2>2 DEF Document
  <2>4. DOMAIN d.entries = 1 .. Len(d.entries) /\ Len(d.entries) \in Nat
    BY <2>3
  <2>5. Readable(d) => Len(stored') = Len(d.entries)
    BY <2>2, <2>4
  <2> QED BY <2>2, <2>5 DEF Readable
<1> QED BY <1>1, PTL DEF Spec, AllOrNothing

-----------------------------------------------------------------------------
(* After a refresh that did not fail, the headlines are those of the       *)
(* document read last.                                                     *)
StoredInv ==
    /\ Shaped(doc) /\ doc.entries \in Seq(Entry)
    /\ ~failed => /\ Readable(doc)
                  /\ stored = [n \in DOMAIN doc.entries |-> Item(doc.root, doc.entries[n])]

LEMMA StoredInvariant == Spec => []StoredInv
<1>1. Init => StoredInv
  <2> SUFFICES ASSUME Init PROVE StoredInv
    OBVIOUS
  <2>1. /\ doc.root = "rss" /\ doc.whole /\ ~doc.long /\ doc.entries = <<>>
        /\ stored = <<>>
    BY DEF Init, EmptyFeed
  <2>2. Shaped(doc) /\ doc.entries \in Seq(Entry)
    BY <2>1 DEF Init, EmptyFeed, Shaped
  <2>3. stored = [n \in DOMAIN doc.entries |-> Item(doc.root, doc.entries[n])]
    BY <2>1
  <2> QED BY <2>1, <2>2, <2>3 DEF Init, StoredInv, Readable
<1>2. StoredInv /\ [Next]_vars => StoredInv'
  <2>1. ASSUME StoredInv, NEW d \in Documents, Refresh(d) PROVE StoredInv'
    <3>1. Shaped(d) /\ d.entries \in Seq(Entry)
      BY <2>1, Refreshed DEF Document, Shaped
    <3> QED BY <2>1, <3>1, Refreshed DEF StoredInv, Shaped
  <2>2. StoredInv /\ UNCHANGED vars => StoredInv'
    BY DEF StoredInv, Shaped, vars
  <2> QED BY <2>1, <2>2 DEF Next
<1> QED BY <1>1, <1>2, PTL DEF Spec

(* Every Atom headline has the link that the comment of atomLinkHref       *)
(* promises for its entry.                                                 *)
THEOREM LinkCorrect == Spec => []LinkIsCanonical
<1>1. StoredInv => LinkIsCanonical
  <2> SUFFICES ASSUME StoredInv, ~failed, doc.root = "feed", NEW n \in DOMAIN stored
               PROVE  LET links == doc.entries[n].links
                          usable == {k \in DOMAIN links : links[k].href # NoText}
                          wanted == {k \in usable : links[k].rel \in {NoText, "alternate"}}
                          taken(k, from) == k \in from /\ \A j \in from : k <= j
                      IN  \/ usable = {} /\ stored[n].link = NoText
                          \/ \E k \in usable :
                                /\ stored[n].link = Trim(links[k].href)
                                /\ taken(k, IF wanted # {} THEN wanted ELSE usable)
    BY DEF LinkIsCanonical
  <2> DEFINE links == doc.entries[n].links
             usable == {k \in DOMAIN links : links[k].href # NoText}
             wanted == {k \in usable : links[k].rel \in {NoText, "alternate"}}
  <2>1. n \in DOMAIN doc.entries /\ stored[n] = AtomItem(doc.entries[n])
    BY DEF StoredInv, Item
  <2>2. links \in Seq(Link)
    <3>1. doc.entries \in Seq(Entry)
      BY DEF StoredInv
    <3>2. doc.entries[n] \in Entry
      BY <2>1, <3>1
    <3> QED BY <3>2 DEF Entry
  <2>3. stored[n].link = AtomLinkHref(links)
    BY <2>1 DEF AtomItem
  <2> HIDE DEF links
  <2>4. DOMAIN links = 1 .. Len(links) /\ Len(links) \in Nat
    BY <2>2
  <2>5. usable = Usable(links) /\ wanted = Wanted(links)
    BY <2>4 DEF Usable, Wanted
  <2>6. usable \subseteq Nat /\ wanted \subseteq usable
    BY <2>4
  <2> HIDE DEF usable, wanted
  <2>7. CASE wanted # {}
    <3>1. Min(wanted) \in wanted /\ \A j \in wanted : Min(wanted) <= j
      BY <2>6, <2>7, FirstPosition
    <3>2. stored[n].link = Trim(links[Min(wanted)].href)
      BY <2>2, <2>3, <2>5, <2>7, HrefTaken
    <3> QED BY <2>6, <2>7, <3>1, <3>2 DEF usable, wanted, links
  <2>8. CASE wanted = {} /\ usable # {}
    <3>1. Min(usable) \in usable /\ \A j \in usable : Min(usable) <= j
      BY <2>6, <2>8, FirstPosition
    <3>2. stored[n].link = Trim(links[Min(usable)].href)
      BY <2>2, <2>3, <2>5, <2>8, HrefTaken
    <3> QED BY <2>8, <3>1, <3>2 DEF usable, wanted, links
  <2>9. CASE usable = {}
    <3>1. stored[n].link = NoText
      BY <2>2, <2>3, <2>5, <2>6, <2>9, HrefTaken
    <3> QED BY <2>9, <3>1 DEF usable, links
  <2> QED BY <2>7, <2>8, <2>9
<1> QED BY <1>1, StoredInvariant, PTL

-----------------------------------------------------------------------------
(* A headline has a time, and no text that should have been trimmed.       *)
LEMMA ItemType ==
  ASSUME NEW root, NEW e \in Entry
  PROVE  /\ Item(root, e).published \in Int
         /\ Item(root, e).link # Blank /\ Item(root, e).title # Blank
<1>1. \A t : Trim(t) # Blank
  BY BlankAssumption DEF Trim
<1>2. DateOf(e) \in Date
  BY DEF DateOf, Entry
<1>3. ParseTime(DateOf(e)) \in Int
  BY <1>2 DEF ParseTime, Date, NoTime
<1>4. AtomLinkHref(e.links) # Blank
  <2>1. e.links \in Seq(Link)
    BY DEF Entry
  <2> QED BY <1>1, <2>1, HrefTaken, BlankAssumption
<1>5. RssItem(e).published \in Int /\ RssItem(e).link # Blank /\ RssItem(e).title # Blank
  BY <1>1, <1>3 DEF RssItem
<1>6. AtomItem(e).published \in Int /\ AtomItem(e).link # Blank /\ AtomItem(e).title # Blank
  BY <1>1, <1>3, <1>4 DEF AtomItem
<1> QED BY <1>5, <1>6 DEF Item

(* What is stored are trimmed headlines with times.                        *)
THEOREM TypeCorrect == Spec => []TypeOK
<1>1. Init => TypeOK
  <2> SUFFICES ASSUME Init PROVE TypeOK
    OBVIOUS
  <2>1. failed \in BOOLEAN
    BY DEF Init
  <2>2. doc \in Documents \cup {EmptyFeed} /\ DOMAIN stored = {}
    BY DEF Init
  <2> QED BY <2>1, <2>2 DEF TypeOK
<1>2. TypeOK /\ [Next]_vars => TypeOK'
  <2>1. ASSUME TypeOK, NEW d \in Documents, Refresh(d) PROVE TypeOK'
    <3>1. d \in Document /\ \A n \in DOMAIN d.entries : d.entries[n] \in Entry
      <4>1. d \in Document
        BY DocumentsAssumption
      <4>2. d.entries \in Seq(Entry)
        BY <4>1 DEF Document
      <4> QED BY <4>1, <4>2
    <3>2. doc' = d /\ failed' \in BOOLEAN
      BY <2>1, Refreshed
    <3>3. CASE Readable(d)
      <4>1. stored' = [n \in DOMAIN d.entries |-> Item(d.root, d.entries[n])]
        BY <2>1, <3>3, Refreshed
      <4>2. \A n \in DOMAIN d.entries :
               /\ Item(d.root, d.entries[n]).published \in Int
               /\ Item(d.root, d.entries[n]).link # Blank
               /\ Item(d.root, d.entries[n]).title # Blank
        BY <3>1, ItemType
      <4> QED BY <3>2, <4>1, <4>2 DEF TypeOK
    <3>4. CASE ~Readable(d)
      BY <2>1, <3>2, <3>4, Refreshed DEF TypeOK
    <3> QED BY <3>3, <3>4
  <2>2. TypeOK /\ UNCHANGED vars => TypeOK'
    BY DEF TypeOK, vars
  <2> QED BY <2>1, <2>2 DEF Next
<1> QED BY <1>1, <1>2, PTL DEF Spec

-----------------------------------------------------------------------------
(* An entry whose only link is its RSS link, as an alternate.              *)
Relinked(e) ==
    [e EXCEPT !.links = <<[text |-> NoText, rel |-> "alternate",
                           href |-> Field([k \in DOMAIN e.links |-> e.links[k].text])]>>]

(* It makes the same headline in both formats.                             *)
LEMMA SameItem ==
  ASSUME NEW e \in Entry
  PROVE  AtomItem(Relinked(e)) = RssItem(e)
<1> DEFINE href == Field([k \in DOMAIN e.links |-> e.links[k].text])
           links == <<[text |-> NoText, rel |-> "alternate", href |-> href]>>
<1>1. /\ Relinked(e).title = e.title /\ Relinked(e).links = links
      /\ Relinked(e).first = e.first /\ Relinked(e).second = e.second
  BY DEF Relinked, Entry
<1> HIDE DEF href
<1>2. links[1].href = href /\ links[1].rel = "alternate" /\ Len(links) = 1
  OBVIOUS
<1>3. AtomLinkHref(links) = Trim(href)
  <2>1. CASE href = NoText
    <3>1. {k \in 1 .. Len(links) : links[k].href # NoText} = {}
      BY <1>2, <2>1
    <3>2. {k \in 1 .. Len(links) : links[k].href # NoText /\ links[k].rel \in {"alternate", NoText}} = {}
      BY <1>2, <2>1
    <3>3. AtomLinkHref(links) = NoText
      BY <3>1, <3>2 DEF AtomLinkHref, SelectInSeq
    <3> QED BY <2>1, <3>3 DEF Trim
  <2>2. CASE href # NoText
    <3>1. {k \in 1 .. Len(links) : links[k].href # NoText /\ links[k].rel \in {"alternate", NoText}} = {1}
      BY <1>2, <2>2
    <3>2. Min({1}) = 1
      BY FirstPosition
    <3>3. AtomLinkHref(links) = Trim(links[1].href)
      BY <3>1, <3>2 DEF AtomLinkHref, SelectInSeq
    <3> QED BY <1>2, <3>3
  <2> QED BY <2>1, <2>2
<1>4. DateOf(Relinked(e)) = DateOf(e)
  BY <1>1 DEF DateOf
<1> QED BY <1>1, <1>3, <1>4 DEF AtomItem, RssItem, href

(* The same stories give the same headlines in both formats, whatever the  *)
(* document: parseFeed's two conversions agree.                            *)
THEOREM FormatsCorrect == Spec => []FormatsAgree
<1>1. StoredInv => FormatsAgree
  <2> SUFFICES ASSUME Shaped(doc), doc.entries \in Seq(Entry), doc.root = "rss"
               PROVE  ParseFeed(Body(AsAtom(doc))) = ParseFeed(Body(doc))
    BY DEF StoredInv, FormatsAgree
  <2> DEFINE atom == AsAtom(doc)
  <2>1. atom = [doc EXCEPT !.root = "feed",
                           !.entries = [n \in DOMAIN doc.entries |-> Relinked(doc.entries[n])]]
    BY DEF AsAtom, Relinked
  <2>2. doc.entries \in Seq(Entry) /\ \A n \in DOMAIN doc.entries : doc.entries[n] \in Entry
    OBVIOUS
  <2> DEFINE relinked == [n \in DOMAIN doc.entries |-> Relinked(doc.entries[n])]
  <2>3. /\ atom.root = "feed" /\ atom.whole = doc.whole /\ atom.long = doc.long
        /\ atom.entries = relinked /\ Shaped(atom)
    BY <2>1 DEF Shaped
  <2>4. Readable(atom) <=> Readable(doc)
    BY <2>3 DEF Readable
  <2>5. CASE ~Readable(doc)
    BY <2>3, <2>4, <2>5, ParsedFeed
  <2>6. CASE Readable(doc)
    <3>1. ParseFeed(Body(atom)) =
            [ok |-> TRUE, items |-> [n \in DOMAIN relinked |-> AtomItem(relinked[n])]]
      BY <2>3, <2>4, <2>6, ParsedFeed DEF Item
    <3>2. ParseFeed(Body(doc)) =
            [ok |-> TRUE, items |-> [n \in DOMAIN doc.entries |-> RssItem(doc.entries[n])]]
      BY <2>6, ParsedFeed DEF Item
    <3>3. \A n \in DOMAIN doc.entries : AtomItem(relinked[n]) = RssItem(doc.entries[n])
      BY <2>2, SameItem
    <3> QED BY <3>1, <3>2, <3>3
  <2> QED BY <2>5, <2>6
<1> QED BY <1>1, StoredInvariant, PTL
=============================================================================
