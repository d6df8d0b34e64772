------------------------ MODULE DirectoryLoadProofs ------------------------
(***************************************************************************)
(* Theorems about Load, for any number of files and any entries.  First    *)
(* what the rules on access and links mean for the row and the page of one *)
(* entry, which the form's theorems use as well; then the loop, for which  *)
(* the rules of a single entry (Validate) stay unexpanded: it is about     *)
(* applying them, and about what two entries share.                        *)
(***************************************************************************)
EXTENDS DirectoryLoad, FiniteSetTheorems, TLAPS

(* A sequence without repetitions is as long as the set of its members.    *)
LEMMA LengthOfDistinct ==
  ASSUME NEW S, NEW s \in Seq(S),
         \A j, k \in 1 .. Len(s) : s[j] = s[k] => j = k
  PROVE  Cardinality({s[k] : k \in 1 .. Len(s)}) = Len(s)
<1> DEFINE members == {s[k] : k \in 1 .. Len(s)}
           f == [k \in 1 .. Len(s) |-> s[k]]
<1>1. f \in Bijection(1 .. Len(s), members)
  BY DEF Bijection, Injection, IsInjective, Surjection
<1>2. ExistsBijection(1 .. Len(s), members)
  BY <1>1 DEF ExistsBijection
<1>3. Len(s) \in Nat
  OBVIOUS
<1> QED BY <1>2, <1>3, FS_CountingElements

(* What the rules on access and links say of an entry that keeps them.     *)
LEMMA AccessIsLinks ==
  ASSUME NEW r, NEW W, r.access \in Seq(W), CheckCommon(r) = {}
  PROVE  /\ NonEmpty(r.links.clearnet) \/ NonEmpty(r.links.onion) \/ NonEmpty(r.links.i2p)
         /\ NonEmpty(r.links.clearnet) <=> HasAccess(r.access, "clearnet")
         /\ NonEmpty(r.links.onion) <=> HasAccess(r.access, "tor")
         /\ NonEmpty(r.links.i2p) <=> HasAccess(r.access, "i2p")
         /\ \A k \in 1 .. Len(r.access) : r.access[k] \in AccessTypes
         /\ \A j, k \in 1 .. Len(r.access) : r.access[j] = r.access[k] => j = k
<1>1. /\ AccessRules(r.access) = {} /\ LinkRules(r.links) = {}
      /\ AccessMatchesLink(r.access, "clearnet", r.links.clearnet, "links.clearnet") = {}
      /\ AccessMatchesLink(r.access, "tor", r.links.onion, "links.onion") = {}
      /\ AccessMatchesLink(r.access, "i2p", r.links.i2p, "links.i2p") = {}
  BY DEF CheckCommon
<1>2. \A b, x, y : When(b, x, y) = {} => ~b
  BY DEF When
<1>3. NonEmpty(r.links.clearnet) \/ NonEmpty(r.links.onion) \/ NonEmpty(r.links.i2p)
  BY <1>1, <1>2 DEF LinkRules
<1>4. /\ NonEmpty(r.links.clearnet) <=> HasAccess(r.access, "clearnet")
      /\ NonEmpty(r.links.onion) <=> HasAccess(r.access, "tor")
      /\ NonEmpty(r.links.i2p) <=> HasAccess(r.access, "i2p")
  BY <1>1, <1>2 DEF AccessMatchesLink
<1>5. /\ \A k \in DOMAIN r.access : r.access[k] \in AccessTypes
      /\ ~Repeats(r.access)
  BY <1>1, <1>2 DEF AccessRules
<1>6. \A j, k \in 1 .. Len(r.access) : r.access[j] = r.access[k] => j = k
  BY <1>5 DEF Repeats
<1> QED BY <1>3, <1>4, <1>5, <1>6

HasLabel(s, a) == \E k \in 1 .. Len(s) : s[k].label = a

Distinct(s) == \A j, k \in 1 .. Len(s) : s[j].label = s[k].label => j = k

(* Two lists of links, one behind the other.                               *)
LEMMA LinksJoined ==
  ASSUME NEW L, NEW s \in Seq(L), NEW t \in Seq(L)
  PROVE  /\ s \o t \in Seq(L)
         /\ s = <<>> => s \o t = t
         /\ s # <<>> => s \o t # <<>> /\ (s \o t)[1] = s[1]
         /\ \A a : HasLabel(s \o t, a) <=> HasLabel(s, a) \/ HasLabel(t, a)
         /\ Distinct(s) /\ Distinct(t) /\ (\A a : ~(HasLabel(s, a) /\ HasLabel(t, a))) =>
               Distinct(s \o t)
<1> DEFINE st == s \o t
<1>1. /\ st \in Seq(L) /\ Len(st) = Len(s) + Len(t)
      /\ \A k \in 1 .. Len(st) : st[k] = IF k <= Len(s) THEN s[k] ELSE t[k - Len(s)]
      /\ Len(s) \in Nat /\ Len(t) \in Nat
  OBVIOUS
<1>2. s = <<>> => s \o t = t
  OBVIOUS
<1>3. s # <<>> => st # <<>> /\ st[1] = s[1]
  <2> SUFFICES ASSUME s # <<>> PROVE st # <<>> /\ st[1] = s[1]
    OBVIOUS
  <2>1. 1 <= Len(s) /\ 1 \in 1 .. Len(st)
    BY <1>1
  <2> QED BY <1>1, <2>1
<1> HIDE DEF st
<1>4. ASSUME NEW a PROVE HasLabel(st, a) <=> HasLabel(s, a) \/ HasLabel(t, a)
  <2>1. ASSUME NEW k \in 1 .. Len(st), st[k].label = a
        PROVE  HasLabel(s, a) \/ HasLabel(t, a)
    <3>1. CASE k <= Len(s)
      BY <1>1, <2>1, <3>1 DEF HasLabel
    <3>2. CASE ~(k <= Len(s))
      <4>1. k - Len(s) \in 1 .. Len(t)
        BY <1>1, <3>2
      <4> QED BY <1>1, <2>1, <3>2, <4>1 DEF HasLabel
    <3> QED BY <3>1, <3>2
  <2>2. ASSUME NEW k \in 1 .. Len(s), s[k].label = a PROVE HasLabel(st, a)
    <3>1. k \in 1 .. Len(st) /\ st[k] = s[k]
      BY <1>1
    <3> QED BY <2>2, <3>1 DEF HasLabel
  <2>3. ASSUME NEW k \in 1 .. Len(t), t[k].label = a PROVE HasLabel(st, a)
    <3>1. k + Len(s) \in 1 .. Len(st) /\ st[k + Len(s)] = t[k]
      <4>1. /\ k + Len(s) \in 1 .. Len(st) /\ ~(k + Len(s) <= Len(s))
            /\ (k + Len(s)) - Len(s) = k
        BY <1>1
      <4>2. st[k + Len(s)] = t[(k + Len(s)) - Len(s)]
        BY <1>1, <4>1
      <4> QED BY <4>1, <4>2
    <3> QED BY <2>3, <3>1 DEF HasLabel
  <2> QED BY <2>1, <2>2, <2>3 DEF HasLabel
<1>5. ASSUME Distinct(s), Distinct(t), \A a : ~(HasLabel(s, a) /\ HasLabel(t, a)),
             NEW j \in 1 .. Len(st), NEW k \in 1 .. Len(st), st[j].label = st[k].label
      PROVE  j = k
  <2>1. \A n \in 1 .. Len(st) :
           \/ n \in 1 .. Len(s) /\ st[n] = s[n] /\ HasLabel(s, st[n].label)
           \/ /\ n - Len(s) \in 1 .. Len(t) /\ st[n] = t[n - Len(s)]
              /\ HasLabel(t, st[n].label)
    <3> SUFFICES ASSUME NEW n \in 1 .. Len(st)
                 PROVE  \/ n \in 1 .. Len(s) /\ st[n] = s[n]
                        \/ n - Len(s) \in 1 .. Len(t) /\ st[n] = t[n - Len(s)]
      BY DEF HasLabel
    <3> QED BY <1>1
  <2>2. \/ j \in 1 .. Len(s) /\ k \in 1 .. Len(s) /\ s[j].label = s[k].label
        \/ /\ j - Len(s) \in 1 .. Len(t) /\ k - Len(s) \in 1 .. Len(t)
           /\ t[j - Len(s)].label = t[k - Len(s)].label
    BY <1>5, <2>1
  <2>3. j = k \/ j - Len(s) = k - Len(s)
    BY <1>5, <2>2 DEF Distinct
  <2> QED BY <1>1, <2>3
<1>6. Distinct(s) /\ Distinct(t) /\ (\A a : ~(HasLabel(s, a) /\ HasLabel(t, a))) => Distinct(st)
  BY <1>5 DEF Distinct
<1> QED BY <1>1, <1>2, <1>3, <1>4, <1>6 DEF st

(* What a page has for one kind of access.                                 *)
OneLink(label, link) ==
    IF NonEmpty(link) THEN <<[label |-> label, url |-> Href(link)]>> ELSE <<>>

LEMMA LinkOfKind ==
  ASSUME NEW label, NEW link, NEW L, [label |-> label, url |-> Href(link)] \in L
  PROVE  /\ OneLink(label, link) \in Seq(L)
         /\ OneLink(label, link) # <<>> <=> NonEmpty(link)
         /\ NonEmpty(link) => OneLink(label, link)[1].url = Href(link)
         /\ Distinct(OneLink(label, link))
         /\ \A a : HasLabel(OneLink(label, link), a) <=> a = label /\ NonEmpty(link)
<1>1. CASE NonEmpty(link)
  <2> DEFINE rec == [label |-> label, url |-> Href(link)]
  <2>1. OneLink(label, link) = <<rec>> /\ rec \in L
    BY <1>1 DEF OneLink
  <2>2. /\ <<rec>> \in Seq(L)
        /\ Len(<<rec>>) = 1 /\ <<rec>>[1] = rec /\ <<rec>> # <<>>
    BY <2>1
  <2> QED BY <1>1, <2>1, <2>2 DEF Distinct, HasLabel
<1>2. CASE ~NonEmpty(link)
  BY <1>2 DEF OneLink, Distinct, HasLabel
<1> QED BY <1>1, <1>2

(* The links of an entry's page, before the rules.                         *)
LEMMA LinksOfPage ==
  ASSUME NEW r
  PROVE  LET links == ResourceLinks(r)
             any == \/ NonEmpty(r.links.clearnet) \/ NonEmpty(r.links.onion)
                    \/ NonEmpty(r.links.i2p)
         IN  /\ \E L : links \in Seq(L)
             /\ any => links # <<>> /\ Href(PrimaryURL(r)) = links[1].url
             /\ Distinct(links)
             /\ \A a : HasLabel(links, a) <=>
                   \/ a = "clearnet" /\ NonEmpty(r.links.clearnet)
                   \/ a = "tor" /\ NonEmpty(r.links.onion)
                   \/ a = "i2p" /\ NonEmpty(r.links.i2p)
<1> DEFINE Link == {[label |-> "clearnet", url |-> Href(r.links.clearnet)],
                    [label |-> "tor", url |-> Href(r.links.onion)],
                    [label |-> "i2p", url |-> Href(r.links.i2p)]}
           c == OneLink("clearnet", r.links.clearnet)
           t == OneLink("tor", r.links.onion)
           i == OneLink("i2p", r.links.i2p)
<1>1. /\ [label |-> "clearnet", url |-> Href(r.links.clearnet)] \in Link
      /\ [label |-> "tor", url |-> Href(r.links.onion)] \in Link
      /\ [label |-> "i2p", url |-> Href(r.links.i2p)] \in Link
  OBVIOUS
<1> HIDE DEF Link
<1>2. /\ c \in Seq(Link) /\ (c # <<>> <=> NonEmpty(r.links.clearnet))
      /\ NonEmpty(r.links.clearnet) => c[1].url = Href(r.links.clearnet)
      /\ Distinct(c)
      /\ \A a : HasLabel(c, a) <=> a = "clearnet" /\ NonEmpty(r.links.clearnet)
  BY <1>1, LinkOfKind
<1>3. /\ t \in Seq(Link) /\ (t # <<>> <=> NonEmpty(r.links.onion))
      /\ NonEmpty(r.links.onion) => t[1].url = Href(r.links.onion)
      /\ Distinct(t)
      /\ \A a : HasLabel(t, a) <=> a = "tor" /\ NonEmpty(r.links.onion)
  BY <1>1, LinkOfKind
<1>4. /\ i \in Seq(Link) /\ (i # <<>> <=> NonEmpty(r.links.i2p))
      /\ NonEmpty(r.links.i2p) => i[1].url = Href(r.links.i2p)
      /\ Distinct(i)
      /\ \A a : HasLabel(i, a) <=> a = "i2p" /\ NonEmpty(r.links.i2p)
  BY <1>1, LinkOfKind
<1>5. ResourceLinks(r) = (c \o t) \o i
  BY DEF ResourceLinks, OneLink
<1> HIDE DEF c, t, i
<1> DEFINE ct == c \o t
           links == ct \o i
<1>6. /\ ct \in Seq(Link)
      /\ c = <<>> => ct = t
      /\ c # <<>> => ct # <<>> /\ ct[1] = c[1]
      /\ \A a : HasLabel(ct, a) <=> HasLabel(c, a) \/ HasLabel(t, a)
      /\ Distinct(ct)
  BY <1>2, <1>3, LinksJoined
<1> HIDE DEF ct
<1>7. \A a : ~(HasLabel(ct, a) /\ HasLabel(i, a))
  BY <1>2, <1>3, <1>4, <1>6
<1>8. /\ links \in Seq(Link)
      /\ ct = <<>> => links = i
      /\ ct # <<>> => links # <<>> /\ links[1] = ct[1]
      /\ \A a : HasLabel(links, a) <=> HasLabel(ct, a) \/ HasLabel(i, a)
      /\ Distinct(links)
  BY <1>4, <1>6, <1>7, LinksJoined
<1>9. ResourceLinks(r) = links
  BY <1>5 DEF ct
<1> HIDE DEF links
<1>10. CASE NonEmpty(r.links.clearnet)
  <2>1. links # <<>> /\ links[1].url = Href(r.links.clearnet)
    BY <1>2, <1>6, <1>8, <1>10
  <2>2. PrimaryURL(r) = r.links.clearnet
    BY <1>10 DEF PrimaryURL
  <2> QED BY <1>2, <1>3, <1>4, <1>6, <1>8, <1>9, <2>1, <2>2
<1>11. CASE ~NonEmpty(r.links.clearnet) /\ NonEmpty(r.links.onion)
  <2>1. links # <<>> /\ links[1].url = Href(r.links.onion)
    BY <1>2, <1>3, <1>6, <1>8, <1>11
  <2>2. PrimaryURL(r) = r.links.onion
    BY <1>11 DEF PrimaryURL
  <2> QED BY <1>2, <1>3, <1>4, <1>6, <1>8, <1>9, <2>1, <2>2
<1>12. CASE ~NonEmpty(r.links.clearnet) /\ ~NonEmpty(r.links.onion)
  <2>1. NonEmpty(r.links.i2p) => links # <<>> /\ links[1].url = Href(r.links.i2p)
    BY <1>2, <1>3, <1>4, <1>6, <1>8, <1>12
  <2>2. NonEmpty(r.links.i2p) => PrimaryURL(r) = r.links.i2p
    BY <1>12 DEF PrimaryURL
  <2> QED BY <1>2, <1>3, <1>4, <1>6, <1>8, <1>9, <1>12, <2>1, <2>2
<1> QED BY <1>10, <1>11, <1>12

(* The rules see to it that the row and the page of an entry agree.        *)
LEMMA GoodPagesAgree ==
  ASSUME NEW r, NEW W, r.access \in Seq(W), CheckCommon(r) = {}
  PROVE  PageAgrees(r)
<1> DEFINE links == ResourceLinks(r)
           labels == [k \in 1 .. Len(links) |-> links[k].label]
           access == {r.access[k] : k \in 1 .. Len(r.access)}
<1>1. /\ links # <<>> /\ Href(PrimaryURL(r)) = links[1].url /\ Distinct(links)
      /\ \A a : HasLabel(links, a) <=>
            \/ a = "clearnet" /\ NonEmpty(r.links.clearnet)
            \/ a = "tor" /\ NonEmpty(r.links.onion)
            \/ a = "i2p" /\ NonEmpty(r.links.i2p)
  BY LinksOfPage, AccessIsLinks
<1>2. PICK L : links \in Seq(L)
  BY LinksOfPage
<1> HIDE DEF links
<1>3. \A a : (\E k \in 1 .. Len(r.access) : r.access[k] = a) <=>
            \/ a = "clearnet" /\ NonEmpty(r.links.clearnet)
            \/ a = "tor" /\ NonEmpty(r.links.onion)
            \/ a = "i2p" /\ NonEmpty(r.links.i2p)
  BY AccessIsLinks DEF HasAccess, AccessTypes
<1>4. \A a : HasLabel(links, a) <=> a \in access
  BY <1>1, <1>3
<1>5. /\ DOMAIN links = 1 .. Len(links) /\ DOMAIN r.access = 1 .. Len(r.access)
      /\ Len(links) \in Nat
  BY <1>2
<1>6. {links[k].label : k \in 1 .. Len(links)} = access
  BY <1>4 DEF HasLabel
<1>7. Len(links) = Len(r.access)
  <2>1. Cardinality(access) = Len(r.access)
    BY AccessIsLinks, LengthOfDistinct
  <2>2. labels \in Seq(access) /\ Len(labels) = Len(links)
    <3>1. \A k \in 1 .. Len(links) : links[k].label \in access
      BY <1>6
    <3>2. labels \in [1 .. Len(links) -> access]
      BY <3>1
    <3> HIDE DEF labels, access
    <3> QED BY <1>5, <3>2
  <2>3. \A j, k \in 1 .. Len(labels) : labels[j] = labels[k] => j = k
    BY <1>1, <2>2 DEF Distinct
  <2>4. Cardinality({labels[k] : k \in 1 .. Len(labels)}) = Len(labels)
    BY <2>2, <2>3, LengthOfDistinct
  <2>5. {labels[k] : k \in 1 .. Len(labels)} = access
    BY <1>6, <2>2
  <2> QED BY <2>1, <2>2, <2>4, <2>5
<1> QED BY <1>1, <1>5, <1>6, <1>7 DEF PageAgrees, ResourceDetail, Row, links

-----------------------------------------------------------------------------
(* The loop over the files.                                                *)

(* The maps record exactly the keys of the entries behind the loop.        *)
ClaimInv ==
    /\ \A f \in 1 .. (p - 1) : Decoded(f) =>
          /\ dataset[f].slug # NoText => slugToFile[dataset[f].slug] # 0
          /\ NormalizedClearnet(dataset[f]) # NoText =>
                clearnetToFile[NormalizedClearnet(dataset[f])] # 0
    /\ \A t \in Texts \ {NoText} : slugToFile[t] # 0 =>
          \E f \in 1 .. (p - 1) : Decoded(f) /\ dataset[f].slug = t
    /\ \A t \in Texts \ {NoText} : clearnetToFile[t] # 0 =>
          \E f \in 1 .. (p - 1) : Decoded(f) /\ NormalizedClearnet(dataset[f]) = t

(* Errors and resources belong to files behind the loop, Load returns when *)
(* all are, and what it returned fits the errors.                          *)
ReturnInv ==
    /\ \A err \in errs : err.file \in 1 .. (p - 1)
    /\ resources \subseteq 1 .. (p - 1)
    /\ result # "none" => p = FileCount + 1
    /\ result = "store" => errs = {}
    /\ result = "error" => errs # {}

LoadInv == LoadTypeOK /\ ClaimInv /\ ReturnInv /\ BlamesExactlyTheBad

(* An entry's slug and URL are texts.                                      *)
LEMMA EntryKeys ==
  ASSUME LoadTypeOK, NEW f \in Files, Decoded(f)
  PROVE  dataset[f].slug \in Texts /\ NormalizedClearnet(dataset[f]) \in Texts
  BY FilesAssumption DEF LoadTypeOK, Decoded

(* A key that is registered after file n was registered before it or is    *)
(* the one of file n, and none is lost.                                    *)
LEMMA RegisterFile ==
  ASSUME NEW map \in [Texts -> 0 .. FileCount], NEW key \in Texts, NEW n \in Files
  PROVE  /\ Register(map, key, n) \in [Texts -> 0 .. FileCount]
         /\ key # NoText => Register(map, key, n)[key] # 0
         /\ \A t \in Texts : map[t] # 0 => Register(map, key, n)[t] # 0
         /\ \A t \in Texts : t # key => Register(map, key, n)[t] = map[t]
  BY FilesAssumption DEF Register, Files

(* What is wrong with the entry of a file, rule by rule, without the loop. *)
FileErrors(f) ==
    Validate(dataset[f], Base[f])
    \cup When(\E g \in 1 .. (f - 1) : /\ Decoded(g)
                                      /\ dataset[g].slug = dataset[f].slug
                                      /\ dataset[f].slug # NoText,
              "slug", "duplicate")
    \cup When(\E g \in 1 .. (f - 1) : /\ Decoded(g)
                                      /\ NormalizedClearnet(dataset[g]) = NormalizedClearnet(dataset[f])
                                      /\ NormalizedClearnet(dataset[f]) # NoText,
              "links.clearnet", "duplicate")

(* The maps tell the loop exactly that.                                    *)
LEMMA ErrorsOfFile ==
  ASSUME LoadInv, p \in Files, Decoded(p)
  PROVE  EntryErrors(dataset[p], p) = FileErrors(p)
<1> DEFINE e == dataset[p]
           url == NormalizedClearnet(e)
<1>1. e.slug \in Texts /\ url \in Texts
  BY EntryKeys DEF LoadInv
<1>2. Registered(slugToFile, e.slug) <=>
        \E g \in 1 .. (p - 1) : Decoded(g) /\ dataset[g].slug = e.slug /\ e.slug # NoText
  BY <1>1 DEF LoadInv, ClaimInv, Registered
<1>3. Registered(clearnetToFile, url) <=>
        \E g \in 1 .. (p - 1) : Decoded(g) /\ NormalizedClearnet(dataset[g]) = url /\ url # NoText
  BY <1>1 DEF LoadInv, ClaimInv, Registered
<1> QED BY <1>2, <1>3 DEF EntryErrors, FileErrors, When

(* An entry has an error exactly when it breaks a rule or shares a key     *)
(* with an earlier one.                                                    *)
LEMMA ErrorsOfBad ==
  ASSUME LoadInv, p \in Files, Decoded(p)
  PROVE  EntryErrors(dataset[p], p) # {} <=> Bad(p)
<1>1. EntryErrors(dataset[p], p) = FileErrors(p)
  BY ErrorsOfFile
<1>2. FileErrors(p) # {} <=> Bad(p)
  BY DEF FileErrors, When, Bad, SameKey
<1> QED BY <1>1, <1>2

(* What the loop finds out about the file whose turn it is, with nothing   *)
(* said before about that file, extends what it knew about those behind.   *)
LEMMA BlameOneMore ==
  ASSUME LoadInv, p \in Files, p' = p + 1, UNCHANGED dataset,
         NEW new, errs' = errs \cup new,
         \A err \in new : err.file = p,
         Bad(p) <=> new # {},
         resources' = IF Bad(p) THEN resources ELSE resources \cup {p}
  PROVE  /\ BlamesExactlyTheBad'
         /\ \A err \in errs' : err.file \in 1 .. (p' - 1)
         /\ resources' \subseteq 1 .. (p' - 1)
<1> USE FilesAssumption DEF LoadInv, ReturnInv, Files
<1>1. \A f \in Files : Bad(f)' <=> Bad(f)
  BY DEF Bad, Decoded, SameKey
<1>2. \A err \in errs' : err.file \in 1 .. (p' - 1)
  OBVIOUS
<1>3. resources' \subseteq 1 .. (p' - 1)
  OBVIOUS
<1>4. ASSUME NEW f \in 1 .. (p' - 1)
      PROVE  /\ Bad(f)' <=> \E err \in errs' : err.file = f
             /\ f \in resources' <=> ~Bad(f)'
  <2>1. f \in Files /\ (Bad(f)' <=> Bad(f))
    BY <1>1
  <2>2. CASE f = p
    BY <2>1, <2>2
  <2>3. CASE f # p
    <3>1. f \in 1 .. (p - 1)
      BY <2>3
    <3>2. /\ Bad(f) <=> \E err \in errs : err.file = f
          /\ f \in resources <=> ~Bad(f)
      BY <3>1 DEF BlamesExactlyTheBad
    <3>3. (\E err \in errs' : err.file = f) <=> (\E err \in errs : err.file = f)
      BY <2>3
    <3>4. f \in resources' <=> f \in resources
      BY <2>3
    <3> QED BY <2>1, <3>2, <3>3, <3>4
  <2> QED BY <2>2, <2>3
<1> QED BY <1>2, <1>3, <1>4 DEF BlamesExactlyTheBad

(* A file without an entry adds one error and claims nothing.              *)
LEMMA SkipStep == ASSUME LoadInv, SkipFile PROVE LoadInv'
<1> USE FilesAssumption
<1> DEFINE new == {[file |-> p, field |-> "file", rule |-> dataset[p]]}
<1>1. /\ p \in Files /\ p' = p + 1 /\ ~Decoded(p) /\ errs' = errs \cup new
      /\ UNCHANGED <<dataset, resources, slugToFile, clearnetToFile, result>>
  BY DEF SkipFile
<1>2. Bad(p)
  BY <1>1 DEF Bad
<1>3. /\ BlamesExactlyTheBad'
      /\ \A err \in errs' : err.file \in 1 .. (p' - 1)
      /\ resources' \subseteq 1 .. (p' - 1)
  <2>1. \A err \in new : err.file = p
    OBVIOUS
  <2>2. new # {}
    OBVIOUS
  <2>3. resources' = IF Bad(p) THEN resources ELSE resources \cup {p}
    BY <1>1, <1>2
  <2> HIDE DEF new
  <2> QED BY <1>1, <1>2, <2>1, <2>2, <2>3, BlameOneMore
<1>4. LoadTypeOK'
  BY <1>1, <1>3 DEF LoadInv, LoadTypeOK, Files
<1>5. ClaimInv'
  <2>1. \A f \in 1 .. (p' - 1) : Decoded(f)' => f \in 1 .. (p - 1) /\ Decoded(f)
    BY <1>1 DEF Files, Decoded
  <2>2. \A f \in 1 .. (p - 1) : f \in 1 .. (p' - 1) /\ (Decoded(f) <=> Decoded(f)')
    BY <1>1 DEF Files, Decoded
  <2> QED BY <1>1, <2>1, <2>2 DEF LoadInv, ClaimInv
<1>6. ReturnInv'
  <2>1. result = "none"
    BY <1>1 DEF LoadInv, ReturnInv, LoadTypeOK, Files
  <2> QED BY <1>1, <1>3, <2>1 DEF ReturnInv
<1> QED BY <1>3, <1>4, <1>5, <1>6 DEF LoadInv

(* A file with an entry adds its errors, or the entry to the resources,    *)
(* and claims its keys either way.                                         *)
LEMMA CheckStep == ASSUME LoadInv, CheckFile PROVE LoadInv'
<1> USE FilesAssumption
<1> DEFINE e == dataset[p]
           fieldErrs == EntryErrors(e, p)
           new == {[file |-> p, field |-> fe.field, rule |-> fe.rule] : fe \in fieldErrs}
           url == NormalizedClearnet(e)
<1>1. /\ p \in Files /\ p' = p + 1 /\ Decoded(p) /\ errs' = errs \cup new
      /\ resources' = IF fieldErrs = {} THEN resources \cup {p} ELSE resources
      /\ slugToFile' = Register(slugToFile, e.slug, p)
      /\ clearnetToFile' = Register(clearnetToFile, url, p)
      /\ UNCHANGED <<dataset, result>>
  BY DEF CheckFile
<1>2. e.slug \in Texts /\ url \in Texts
  BY <1>1, EntryKeys DEF LoadInv
<1>3. fieldErrs # {} <=> Bad(p)
  BY <1>1, ErrorsOfBad
<1>4. /\ BlamesExactlyTheBad'
      /\ \A err \in errs' : err.file \in 1 .. (p' - 1)
      /\ resources' \subseteq 1 .. (p' - 1)
  <2>1. \A err \in new : err.file = p
    OBVIOUS
  <2>2. new # {} <=> Bad(p)
    BY <1>3
  <2>3. resources' = IF Bad(p) THEN resources ELSE resources \cup {p}
    BY <1>1, <1>3
  <2> HIDE DEF new
  <2> QED BY <1>1, <2>1, <2>2, <2>3, BlameOneMore
<1>5. slugToFile \in [Texts -> 0 .. FileCount] /\ clearnetToFile \in [Texts -> 0 .. FileCount]
  BY DEF LoadInv, LoadTypeOK
<1>6. /\ slugToFile' \in [Texts -> 0 .. FileCount]
      /\ e.slug # NoText => slugToFile'[e.slug] # 0
      /\ \A t \in Texts : slugToFile[t] # 0 => slugToFile'[t] # 0
      /\ \A t \in Texts : t # e.slug => slugToFile'[t] = slugToFile[t]
  BY <1>1, <1>2, <1>5, RegisterFile
<1>7. /\ clearnetToFile' \in [Texts -> 0 .. FileCount]
      /\ url # NoText => clearnetToFile'[url] # 0
      /\ \A t \in Texts : clearnetToFile[t] # 0 => clearnetToFile'[t] # 0
      /\ \A t \in Texts : t # url => clearnetToFile'[t] = clearnetToFile[t]
  BY <1>1, <1>2, <1>5, RegisterFile
<1>8. LoadTypeOK'
  <2> HIDE DEF e, url, fieldErrs, new
  <2>1. /\ dataset' \in [Files -> Entries \cup NoEntry] /\ p \in Files
        /\ result' \in {"none", "error", "store"}
    BY <1>1 DEF LoadInv, LoadTypeOK
  <2>2. p' \in 1 .. (FileCount + 1) /\ \A k \in 1 .. (p' - 1) : k \in Files
    BY <1>1 DEF Files
  <2>3. (\A err \in errs' : err.file \in Files) /\ resources' \subseteq Files
    BY <1>4, <2>2
  <2> QED BY <1>6, <1>7, <2>1, <2>2, <2>3 DEF LoadTypeOK
<1>9. ClaimInv'
  <2>1. \A f : Decoded(f)' <=> Decoded(f)
    BY <1>1 DEF Decoded
  <2>2. \A f \in 1 .. (p' - 1) : f \in Files /\ (f = p \/ f \in 1 .. (p - 1))
    BY <1>1 DEF Files
  <2>3. p \in 1 .. (p' - 1) /\ \A f \in 1 .. (p - 1) : f \in 1 .. (p' - 1)
    BY <1>1 DEF Files
  <2>4. ASSUME NEW f \in 1 .. (p' - 1), Decoded(f)
        PROVE  /\ dataset[f].slug # NoText => slugToFile'[dataset[f].slug] # 0
               /\ NormalizedClearnet(dataset[f]) # NoText =>
                     clearnetToFile'[NormalizedClearnet(dataset[f])] # 0
    <3>1. dataset[f].slug \in Texts /\ NormalizedClearnet(dataset[f]) \in Texts
      BY <2>2, <2>4, EntryKeys DEF LoadInv
    <3>2. CASE f = p
      BY <1>6, <1>7, <3>2
    <3>3. CASE f \in 1 .. (p - 1)
      <4>1. /\ dataset[f].slug # NoText => slugToFile[dataset[f].slug] # 0
            /\ NormalizedClearnet(dataset[f]) # NoText =>
                  clearnetToFile[NormalizedClearnet(dataset[f])] # 0
        BY <2>4, <3>3 DEF LoadInv, ClaimInv
      <4> QED BY <1>6, <1>7, <3>1, <4>1
    <3> QED BY <2>2, <3>2, <3>3
  <2>5. ASSUME NEW t \in Texts \ {NoText}, slugToFile'[t] # 0
        PROVE  \E f \in 1 .. (p' - 1) : Decoded(f) /\ dataset[f].slug = t
    <3>1. CASE t = e.slug
      BY <1>1, <2>3, <3>1
    <3>2. CASE t # e.slug
      <4>1. \E f \in 1 .. (p - 1) : Decoded(f) /\ dataset[f].slug = t
        BY <1>6, <2>5, <3>2 DEF LoadInv, ClaimInv
      <4> QED BY <2>3, <4>1
    <3> QED BY <3>1, <3>2
  <2>6. ASSUME NEW t \in Texts \ {NoText}, clearnetToFile'[t] # 0
        PROVE  \E f \in 1 .. (p' - 1) : Decoded(f) /\ NormalizedClearnet(dataset[f]) = t
    <3>1. CASE t = url
      BY <1>1, <2>3, <3>1
    <3>2. CASE t # url
      <4>1. \E f \in 1 .. (p - 1) : Decoded(f) /\ NormalizedClearnet(dataset[f]) = t
        BY <1>7, <2>6, <3>2 DEF LoadInv, ClaimInv
      <4> QED BY <2>3, <4>1
    <3> QED BY <3>1, <3>2
  <2>7. dataset' = dataset
    BY <1>1
  <2> QED BY <2>1, <2>4, <2>5, <2>6, <2>7 DEF ClaimInv
<1>10. ReturnInv'
  <2>1. result = "none"
    BY <1>1 DEF LoadInv, ReturnInv, LoadTypeOK, Files
  <2> QED BY <1>1, <1>4, <2>1 DEF ReturnInv
<1> QED BY <1>4, <1>8, <1>9, <1>10 DEF LoadInv

(* A step that leaves the loop alone.                                      *)
LEMMA LoadFrame ==
  ASSUME LoadInv,
         UNCHANGED <<dataset, p, errs, resources, slugToFile, clearnetToFile>>,
         result' \in {"none", "error", "store"}, ReturnInv'
  PROVE  LoadInv'
<1>1. LoadTypeOK'
  BY DEF LoadInv, LoadTypeOK
<1>2. ClaimInv'
  BY DEF LoadInv, ClaimInv, Decoded
<1>3. \A f : Bad(f)' <=> Bad(f)
  BY DEF Bad, Decoded, SameKey
<1>4. BlamesExactlyTheBad'
  BY <1>3 DEF LoadInv, BlamesExactlyTheBad
<1> QED BY <1>1, <1>2, <1>4 DEF LoadInv

(* The invariant of the loop.                                              *)
LEMMA LoadInvariant == LoadSpec => []LoadInv
<1>1. LoadInit => LoadInv
  BY FilesAssumption
  DEF LoadInit, LoadInv, LoadTypeOK, ClaimInv, ReturnInv, BlamesExactlyTheBad, Files
<1>2. LoadInv /\ [LoadNext]_loadVars => LoadInv'
  <2> SUFFICES ASSUME LoadInv, [LoadNext]_loadVars PROVE LoadInv'
    OBVIOUS
  <2>1. CASE SkipFile
    BY <2>1, SkipStep
  <2>2. CASE CheckFile
    BY <2>2, CheckStep
  <2>3. CASE Return
    <3>1. ReturnInv' /\ result' \in {"none", "error", "store"}
      BY <2>3 DEF Return, LoadInv, ReturnInv
    <3> QED BY <2>3, <3>1, LoadFrame DEF Return
  <2>4. CASE Done \/ UNCHANGED loadVars
    <3>1. ReturnInv' /\ result' \in {"none", "error", "store"}
      BY <2>4 DEF Done, loadVars, LoadInv, LoadTypeOK, ReturnInv
    <3> QED BY <2>4, <3>1, LoadFrame DEF Done, loadVars
  <2> QED BY <2>1, <2>2, <2>3, <2>4 DEF LoadNext
<1> QED BY <1>1, <1>2, PTL DEF LoadSpec

At(f, fe) == [file |-> f, field |-> fe.field, rule |-> fe.rule]

(* All of that is reported for the files behind the loop, and no more.     *)
ReportInv ==
    /\ \A f \in 1 .. (p - 1) : Decoded(f) => \A fe \in FileErrors(f) : At(f, fe) \in errs
    /\ \A err \in errs :
          Decoded(err.file) => \E fe \in FileErrors(err.file) : err = At(err.file, fe)

(* A step of the loop past file p, with what it reports there.             *)
LEMMA ReportOneMore ==
  ASSUME LoadInv, ReportInv, p \in Files, p' = p + 1, UNCHANGED dataset,
         NEW new, errs' = errs \cup new, \A err \in new : err.file = p,
         Decoded(p) => new = {At(p, fe) : fe \in FileErrors(p)}
  PROVE  ReportInv'
<1> USE FilesAssumption DEF Files
<1>1. \A f : Decoded(f)' <=> Decoded(f)
  BY DEF Decoded
<1>2. \A f : FileErrors(f)' = FileErrors(f)
  BY <1>1 DEF FileErrors
<1>3. \A err \in errs : err.file \in 1 .. (p - 1)
  BY DEF LoadInv, ReturnInv
<1>4. ASSUME NEW f \in 1 .. (p' - 1), Decoded(f), NEW fe \in FileErrors(f)
      PROVE  At(f, fe) \in errs'
  <2>1. f = p \/ f \in 1 .. (p - 1)
    OBVIOUS
  <2> QED BY <1>4, <2>1 DEF ReportInv
<1>5. ASSUME NEW err \in errs', Decoded(err.file)
      PROVE  \E fe \in FileErrors(err.file) : err = At(err.file, fe)
  <2>1. CASE err \in errs
    BY <1>5, <2>1 DEF ReportInv
  <2>2. CASE err \in new
    BY <1>5, <2>2
  <2> QED BY <2>1, <2>2
<1>6. \A f, fe : At(f, fe)' = At(f, fe)
  BY DEF At
<1> QED BY <1>1, <1>2, <1>4, <1>5, <1>6 DEF ReportInv

LEMMA ReportInvariant == LoadSpec => []ReportInv
<1>1. LoadInit => ReportInv
  BY FilesAssumption DEF LoadInit, ReportInv
<1>2. LoadInv /\ ReportInv /\ [LoadNext]_loadVars => ReportInv'
  <2> SUFFICES ASSUME LoadInv, ReportInv, [LoadNext]_loadVars PROVE ReportInv'
    OBVIOUS
  <2>1. CASE SkipFile
    <3> DEFINE new == {[file |-> p, field |-> "file", rule |-> dataset[p]]}
    <3>1. /\ p \in Files /\ p' = p + 1 /\ ~Decoded(p) /\ errs' = errs \cup new
          /\ UNCHANGED dataset /\ \A err \in new : err.file = p
      BY <2>1 DEF SkipFile
    <3> HIDE DEF new
    <3> QED BY <3>1, ReportOneMore
  <2>2. CASE CheckFile
    <3> DEFINE new == {At(p, fe) : fe \in FileErrors(p)}
    <3>1. p \in Files /\ p' = p + 1 /\ Decoded(p) /\ UNCHANGED dataset
      BY <2>2 DEF CheckFile
    <3>2. EntryErrors(dataset[p], p) = FileErrors(p)
      BY <3>1, ErrorsOfFile
    <3>3. errs' = errs \cup new /\ \A err \in new : err.file = p
      BY <2>2, <3>2 DEF CheckFile, At
    <3> HIDE DEF new
    <3> QED BY <3>1, <3>3, ReportOneMore DEF new
  <2>3. CASE Return \/ Done \/ UNCHANGED loadVars
    <3>1. UNCHANGED <<dataset, p, errs>>
      BY <2>3 DEF Return, Done, loadVars
    <3>2. \A f : (Decoded(f)' <=> Decoded(f))
      BY <3>1 DEF Decoded
    <3>3. \A f : FileErrors(f)' = FileErrors(f)
      BY <3>1, <3>2 DEF FileErrors
    <3> QED BY <3>1, <3>2, <3>3 DEF ReportInv, At
  <2> QED BY <2>1, <2>2, <2>3 DEF LoadNext
<1> QED BY <1>1, <1>2, LoadInvariant, PTL DEF LoadSpec

(* Every problem is reported, at the file that has it (load.go, Load:      *)
(* "aggregating every problem").                                           *)
THEOREM BlameCorrect == LoadSpec => []BlamesExactlyTheBad
<1>1. LoadInv => BlamesExactlyTheBad
  BY DEF LoadInv
<1> QED BY <1>1, LoadInvariant, PTL

(* Load fails if and only if some file is bad (load.go, Load: "If any      *)
(* record is invalid, no Store is returned").                              *)
THEOREM StoreCorrect == LoadSpec => []StoreOnlyIfAllGood
<1>1. LoadInv => StoreOnlyIfAllGood
  <2> SUFFICES ASSUME LoadInv, result # "none"
               PROVE  result = "error" <=> \E f \in Files : Bad(f)
    BY DEF StoreOnlyIfAllGood
  <2>1. p = FileCount + 1 /\ result \in {"error", "store"}
    BY DEF LoadInv, ReturnInv, LoadTypeOK
  <2>2. \A f \in Files : Bad(f) <=> \E err \in errs : err.file = f
    BY <2>1, FilesAssumption DEF LoadInv, BlamesExactlyTheBad, Files
  <2>3. \A err \in errs : err.file \in Files
    BY DEF LoadInv, LoadTypeOK
  <2>4. (\E f \in Files : Bad(f)) <=> errs # {}
    BY <2>2, <2>3
  <2> QED BY <2>1, <2>4 DEF LoadInv, ReturnInv
<1> QED BY <1>1, LoadInvariant, PTL

(* Type correctness of the loop.                                           *)
THEOREM LoadTypeCorrect == LoadSpec => []LoadTypeOK
<1>1. LoadInv => LoadTypeOK
  BY DEF LoadInv
<1> QED BY <1>1, LoadInvariant, PTL

-----------------------------------------------------------------------------
(* What newStore makes of the files, if no two share a slug.               *)
Ahead(f) == {g \in Files : Before(dataset[g], dataset[f])}

Rank(f) == 1 + Cardinality(Ahead(f))

SlugsDiffer ==
    /\ \A f \in Files : dataset[f] \in Entries
    /\ \A f, g \in Files : f # g => dataset[f].slug # dataset[g].slug

LEMMA FilesFinite == IsFiniteSet(Files) /\ Cardinality(Files) = FileCount
  BY FilesAssumption, FS_Interval DEF Files

(* There are fewer files ahead of f than files, and Rank follows the order.*)
LEMMA RankGrows ==
  ASSUME SlugsDiffer
  PROVE  /\ \A f \in Files : Rank(f) \in 1 .. FileCount
         /\ \A f, g \in Files : Before(dataset[f], dataset[g]) => Rank(f) < Rank(g)
<1>1. ASSUME NEW f \in Files
      PROVE  /\ IsFiniteSet(Ahead(f)) /\ Cardinality(Ahead(f)) \in Nat
             /\ IsFiniteSet(Ahead(f) \cup {f})
             /\ Cardinality(Ahead(f) \cup {f}) = Rank(f)
             /\ Rank(f) \in 1 .. FileCount
  <2>1. f \notin Ahead(f) /\ Ahead(f) \in SUBSET Files
    BY OrderAssumption DEF Ahead, SlugsDiffer
  <2>2. IsFiniteSet(Ahead(f)) /\ Cardinality(Ahead(f)) \in Nat
    BY <2>1, FilesFinite, FS_Subset, FS_CardinalityType
  <2>3. /\ IsFiniteSet(Ahead(f) \cup {f})
        /\ Cardinality(Ahead(f) \cup {f}) = Cardinality(Ahead(f)) + 1
    BY <2>1, <2>2, FS_AddElement
  <2>4. Cardinality(Ahead(f) \cup {f}) <= FileCount
    <3>1. Ahead(f) \cup {f} \in SUBSET Files
      BY <2>1
    <3> QED BY <3>1, FilesFinite, FS_Subset
  <2> QED BY <2>2, <2>3, <2>4, FilesAssumption DEF Rank
<1>2. ASSUME NEW f \in Files, NEW g \in Files, Before(dataset[f], dataset[g])
      PROVE  Rank(f) < Rank(g)
  <2>1. Ahead(f) \cup {f} \in SUBSET Ahead(g)
    BY <1>2, OrderAssumption DEF Ahead, SlugsDiffer
  <2>2. Cardinality(Ahead(f) \cup {f}) <= Cardinality(Ahead(g))
    BY <1>1, <2>1, FS_Subset
  <2>3. Rank(f) <= Cardinality(Ahead(g))
    BY <1>1, <2>2
  <2>4. Cardinality(Ahead(g)) \in Nat /\ Rank(f) \in 1 .. FileCount
    BY <1>1
  <2>5. Rank(g) = 1 + Cardinality(Ahead(g))
    BY DEF Rank
  <2> QED BY <2>3, <2>4, <2>5, FilesAssumption
<1> QED BY <1>1, <1>2

(* Every place in the store is taken by exactly one file.                  *)
LEMMA RankBijective ==
  ASSUME SlugsDiffer
  PROVE  /\ \A f, g \in Files : Rank(f) = Rank(g) => f = g
         /\ \A k \in 1 .. FileCount : \E f \in Files : Rank(f) = k
<1> DEFINE rank == [f \in Files |-> Rank(f)]
<1>1. ASSUME NEW f \in Files, NEW g \in Files, Rank(f) = Rank(g) PROVE f = g
  <2> SUFFICES ASSUME f # g PROVE FALSE
    OBVIOUS
  <2>1. Before(dataset[f], dataset[g]) \/ Before(dataset[g], dataset[f])
    BY OrderAssumption DEF SlugsDiffer
  <2>2. Rank(f) < Rank(g) \/ Rank(g) < Rank(f)
    BY <2>1, RankGrows
  <2>3. Rank(f) \in Nat /\ Rank(g) \in Nat
    BY RankGrows, FilesAssumption
  <2> QED BY <1>1, <2>2, <2>3
<1>2. rank \in Injection(Files, 1 .. FileCount)
  BY <1>1, RankGrows DEF Injection, IsInjective
<1>3. IsFiniteSet(1 .. FileCount) /\ Cardinality(1 .. FileCount) = Cardinality(Files)
  BY FilesFinite DEF Files
<1>4. rank \in Surjection(Files, 1 .. FileCount)
  BY <1>2, <1>3, FS_Injection
<1>5. \A k \in 1 .. FileCount : \E f \in Files : rank[f] = k
  BY <1>4 DEF Surjection
<1> QED BY <1>1, <1>5

(* What the readers of the store rely on.                                  *)
ListsAll(s) ==
    /\ DOMAIN s = 1 .. FileCount /\ Len(s) = FileCount
    /\ {s[k] : k \in DOMAIN s} = {dataset[f] : f \in Files}
    /\ \A j, k \in 1 .. FileCount :
          /\ j # k => s[j].slug # s[k].slug
          /\ j < k => Before(s[j], s[k])

LEMMA SortedStoreListsAll ==
  ASSUME SlugsDiffer, NEW s, s = SortedStore(Files)
  PROVE  ListsAll(s)
<1> DEFINE at(k) == CHOOSE f \in Files : Rank(f) = k
<1>1. s = [k \in 1 .. FileCount |-> dataset[at(k)]]
  BY FilesFinite DEF SortedStore, Rank, Ahead
<1>2. \A k \in 1 .. FileCount : at(k) \in Files /\ Rank(at(k)) = k
  BY RankBijective
<1>3. \A f \in Files : Rank(f) \in 1 .. FileCount /\ at(Rank(f)) = f
  BY <1>2, RankBijective, RankGrows
<1> HIDE DEF at
<1>4. DOMAIN s = 1 .. FileCount /\ Len(s) = FileCount
  BY <1>1, FilesAssumption
<1>5. {s[k] : k \in DOMAIN s} = {dataset[f] : f \in Files}
  BY <1>1, <1>2, <1>3
<1>6. ASSUME NEW j \in 1 .. FileCount, NEW k \in 1 .. FileCount, j # k
      PROVE  s[j].slug # s[k].slug /\ (j < k => Before(s[j], s[k]))
  <2>1. at(j) \in Files /\ at(k) \in Files /\ Rank(at(j)) = j /\ Rank(at(k)) = k
    BY <1>2
  <2>2. dataset[at(j)].slug # dataset[at(k)].slug
    BY <1>6, <2>1 DEF SlugsDiffer
  <2>3. \/ Before(dataset[at(j)], dataset[at(k)])
        \/ Before(dataset[at(k)], dataset[at(j)])
    BY <2>1, <2>2, OrderAssumption DEF SlugsDiffer
  <2>4. Before(dataset[at(k)], dataset[at(j)]) => k < j
    BY <2>1, RankGrows
  <2>5. s[j] = dataset[at(j)] /\ s[k] = dataset[at(k)]
    BY <1>1
  <2> QED BY <2>2, <2>3, <2>4, <2>5, FilesAssumption
<1>7. \A j, k \in 1 .. FileCount : j < k => j # k
  BY FilesAssumption
<1> QED BY <1>4, <1>5, <1>6, <1>7 DEF ListsAll

(* A slug that one entry has leads to that entry.                          *)
LEMMA FoundBySlug ==
  ASSUME ListsAll(all), NEW k \in DOMAIN all
  PROVE  BySlug(all[k].slug) = all[k]
<1> DEFINE found == {j \in DOMAIN all : all[j].slug = all[k].slug}
<1>1. found = {k}
  BY DEF ListsAll
<1>2. k <= k
  BY FilesAssumption DEF ListsAll
<1>3. (CHOOSE n \in found : \A j \in found : j <= n) = k
  BY <1>1, <1>2
<1> QED BY <1>3 DEF BySlug

(* When nothing is wrong, all files are resources and no slug is shared.   *)
LEMMA GoodDataset ==
  ASSUME LoadInv, p = FileCount + 1, errs = {}
  PROVE  /\ resources = Files /\ SlugsDiffer
         /\ \A f \in Files : Validate(dataset[f], Base[f]) = {}
<1>1. \A f \in Files : ~Bad(f) /\ f \in resources
  BY FilesAssumption DEF LoadInv, BlamesExactlyTheBad, Files
<1>2. resources = Files
  BY <1>1 DEF LoadInv, LoadTypeOK
<1>3. \A f \in Files : Decoded(f) /\ Validate(dataset[f], Base[f]) = {}
  BY <1>1 DEF Bad
<1>4. \A f \in Files : dataset[f] \in Entries
  BY <1>3 DEF LoadInv, LoadTypeOK, Decoded
<1>5. \A f \in Files : dataset[f].slug # NoText
  BY <1>3 DEF Validate, When
<1>6. \A f, g \in Files : g < f => dataset[f].slug # dataset[g].slug
  BY <1>1, <1>3, <1>5, FilesAssumption DEF Bad, SameKey, Files
<1>7. \A f, g \in Files : f # g => dataset[f].slug # dataset[g].slug
  BY <1>6, FilesAssumption DEF Files
<1> QED BY <1>2, <1>3, <1>4, <1>7 DEF SlugsDiffer

(* Until Load has returned there is no store, and then it lists all.       *)
StoreInv == result = "store" => ListsAll(all)

LEMMA StoreInvariant == LoadSpec => [](LoadInv /\ StoreInv)
<1>1. LoadInit => StoreInv
  BY DEF LoadInit, StoreInv
<1>2. LoadInv /\ StoreInv /\ [LoadNext]_loadVars => StoreInv'
  <2> SUFFICES ASSUME LoadInv, StoreInv, [LoadNext]_loadVars PROVE StoreInv'
    OBVIOUS
  <2>1. CASE SkipFile \/ CheckFile
    <3>1. p \in 1 .. FileCount /\ result' = result
      BY <2>1 DEF SkipFile, CheckFile, Files
    <3>2. result # "store"
      BY <3>1, FilesAssumption DEF LoadInv, ReturnInv
    <3> QED BY <3>1, <3>2 DEF StoreInv
  <2>2. CASE Return
    <3> SUFFICES ASSUME result' = "store" PROVE ListsAll(all)'
      BY DEF StoreInv
    <3>1. errs = {} /\ p = FileCount + 1 /\ all' = SortedStore(resources) /\ dataset' = dataset
      BY <2>2 DEF Return
    <3>2. resources = Files /\ SlugsDiffer
      BY <3>1, GoodDataset
    <3>3. all' = SortedStore(Files)
      BY <3>1, <3>2
    <3>4. ListsAll(all')
      BY <3>2, <3>3, SortedStoreListsAll
    <3> QED BY <3>1, <3>4 DEF ListsAll
  <2>3. CASE Done \/ UNCHANGED loadVars
    BY <2>3 DEF Done, loadVars, StoreInv, ListsAll
  <2> QED BY <2>1, <2>2, <2>3 DEF LoadNext
<1> QED BY <1>1, <1>2, LoadInvariant, PTL DEF LoadSpec

(* The store holds every entry once, in a strict order, and finds each     *)
(* under its slug (store.go, newStore).                                    *)
THEOREM HoldsAllCorrect == LoadSpec => []StoreHoldsAll
<1>1. StoreInv => StoreHoldsAll
  BY FoundBySlug DEF StoreInv, StoreHoldsAll, ListsAll
<1> QED BY <1>1, StoreInvariant, PTL

(* What Load has stored is shown with the same links in the list and on    *)
(* its own page (directory_view.go, directory_resource.go).                *)
THEOREM PagesCorrect == LoadSpec => []StoredPagesAgree
<1>1. LoadInv /\ StoreInv => StoredPagesAgree
  <2> SUFFICES ASSUME LoadInv, StoreInv, result = "store", NEW k \in DOMAIN all
               PROVE  PageAgrees(all[k])
    BY DEF StoredPagesAgree
  <2>1. p = FileCount + 1 /\ errs = {}
    BY DEF LoadInv, ReturnInv
  <2>2. PICK f \in Files : all[k] = dataset[f]
    BY DEF StoreInv, ListsAll
  <2>3. dataset[f] \in Entries /\ Validate(dataset[f], Base[f]) = {}
    BY <2>1, GoodDataset DEF SlugsDiffer
  <2>4. all[k].access \in Seq(STRING) /\ CheckCommon(all[k]) = {}
    BY <2>2, <2>3, AccessAssumption DEF Validate
  <2> QED BY <2>4, GoodPagesAgree
<1> QED BY <1>1, StoreInvariant, PTL
=============================================================================
