-------------------------- MODULE SubmissionProofs --------------------------
(***************************************************************************)
(* Theorems about the /submit form, for any texts.  checkCommon reads an   *)
(* entry's fields but never its slug or its status, which is why the form  *)
(* and the loader can share it: what is accepted will load.  The messages  *)
(* of a rejection fit too: what is not flagged is fine, and the inputs that*)
(* are flagged can be filled in so that the form is accepted.              *)
(***************************************************************************)
EXTENDS DirectoryGrowth, DirectoryLoadProofs

(* A form that was read has nothing left to trim: reading it again gives   *)
(* the same form.                                                          *)
TextForms ==
    [name : Texts, category : Texts, country : Texts,
     access : SUBSET (AccessTypes \cup (UNION TypedAccess)), tags : Texts,
     clearnet : Texts, onion : Texts, i2p : Texts, description : Texts]

WasRead(form) == form \in TextForms /\ ReadSubmitForm(form) = form

(* An accepted entry was built from such a form, and so was the entry that *)
(* the errors of a rejection are about.                                    *)
AcceptedForm(res) ==
    \E form : /\ WasRead(form)
              /\ res = BuildResource(form)
              /\ ValidateSubmission(res) = {}

RejectedForm(pg) ==
    /\ WasRead(pg.form)
    /\ ValidateSubmission(BuildResource(pg.form)) # {}
    /\ pg.errors = MapFieldErrors(ValidateSubmission(BuildResource(pg.form)))

PageInv ==
    page # NoPage =>
        /\ \A res \in page.result : AcceptedForm(res)
        /\ (page.errors # {} /\ page # Unreadable) => RejectedForm(page)

(* checkCommon does not see the slug, the status, or which known category. *)
LEMMA CheckCommonFrame ==
  ASSUME NEW r, NEW q, r.name = q.name, r.description = q.description,
         r.category \in Categories <=> q.category \in Categories,
         r.country = q.country, r.access = q.access, r.tags = q.tags,
         r.links = q.links
  PROVE  CheckCommon(r) = CheckCommon(q)
<1>1. CategoryRules(r.category) = CategoryRules(q.category)
  BY DEF CategoryRules, When
<1>2. QED
  BY <1>1 DEF CheckCommon

LEMMA ReadForm ==
  ASSUME NEW request \in TextForms
  PROVE  WasRead(ReadSubmitForm(request))
  BY TextsAssumption, SubmissionAssumption
  DEF ReadSubmitForm, TextForms, WasRead

(* What the browser posts again unchanged is read as what it shows.        *)
LEMMA ReadAgain ==
  ASSUME NEW form, WasRead(form)
  PROVE  WasRead(Shown(form))
<1>1. Shown(form) \in TextForms
  BY TextsAssumption DEF WasRead, TextForms, Shown
<1>2. \A field \in {"name", "country", "access", "tags", "clearnet", "onion",
                    "i2p", "description"} : Shown(form)[field] = form[field]
  BY DEF WasRead, TextForms, Shown
<1>3. Trim[Shown(form).category] = Shown(form).category
  BY TextsAssumption DEF WasRead, TextForms, Shown, ReadSubmitForm
<1>4. QED
  BY <1>1, <1>2, <1>3 DEF WasRead, TextForms, Shown, ReadSubmitForm

(* The entry of an accepted form passes the loader's rules, whatever       *)
(* status a moderator gives it.                                            *)
LEMMA AcceptedLoads ==
  ASSUME NEW res, AcceptedForm(res), NEW status \in Statuses, res.slug # NoText
  PROVE  Validate([res EXCEPT !.status = status], res.slug) = {}
<1> DEFINE stored == [res EXCEPT !.status = status]
<1>1. PICK form : WasRead(form) /\ res = BuildResource(form)
  BY DEF AcceptedForm
<1>2. /\ stored.name = res.name /\ stored.description = res.description
      /\ stored.category = res.category /\ stored.country = res.country
      /\ stored.access = res.access /\ stored.tags = res.tags
      /\ stored.links = res.links /\ stored.slug = res.slug
      /\ stored.status = status
  BY <1>1 DEF BuildResource
<1>3. CheckCommon(stored) = {}
  BY <1>2, CheckCommonFrame DEF AcceptedForm, ValidateSubmission
<1>4. form.name \in Texts
  BY <1>1 DEF WasRead, TextForms
<1>5. res.slug \in Slugs
  BY <1>1, <1>4, SubmissionAssumption DEF BuildResource
<1>6. QED
  BY <1>2, <1>3, <1>5 DEF Validate, When

(* Every request, also one that is posted again, is answered by a page     *)
(* that fits its form.                                                     *)
LEMMA Answer ==
  ASSUME NEW request \in TextForms, page' = Respond(request)
  PROVE  PageInv'
<1> DEFINE form == ReadSubmitForm(request)
           res  == BuildResource(form)
<1>0. WasRead(form)
  BY ReadForm
<1>1. CASE ValidateSubmission(res) # {}
  <2>1. /\ page'.form = form
        /\ page'.errors = MapFieldErrors(ValidateSubmission(res))
        /\ page'.result = {}
    BY <1>1 DEF Respond
  <2>2. QED
    BY <1>0, <1>1, <2>1 DEF PageInv, RejectedForm
<1>2. CASE ValidateSubmission(res) = {}
  <2>1. page'.errors = {} /\ page'.result = {res}
    BY <1>2 DEF Respond
  <2>2. AcceptedForm(res)
    BY <1>0, <1>2 DEF AcceptedForm
  <2>3. QED
    BY <2>1, <2>2 DEF PageInv
<1>3. QED
  BY <1>1, <1>2

(* A form in which one input was changed is one of texts.                  *)
LEMMA EditsAreTexts ==
  ASSUME NEW form \in TextForms, NEW request \in Edits(form)
  PROVE  request \in TextForms
<1>1. /\ Names \subseteq Texts /\ TypedCategories \subseteq Texts
      /\ Countries \subseteq Texts /\ TagTexts \subseteq Texts
      /\ Clearnets \subseteq Texts /\ Onions \subseteq Texts
      /\ I2Ps \subseteq Texts /\ Descriptions \subseteq Texts
  BY SubmissionAssumption
<1>2. QED
  BY <1>1 DEF Edits, TextForms

LEMMA PageInvariant == Spec => []PageInv
<1>1. Init => PageInv
  BY DEF Init, PageInv
<1>2. PageInv /\ [Next]_page => PageInv'
  <2> SUFFICES ASSUME PageInv, [Next]_page PROVE PageInv'
    OBVIOUS
  <2>1. CASE SubmitGet
    BY <2>1 DEF SubmitGet, Fresh, PageInv
  <2>2. CASE SubmitPost
    <3>1. PICK request \in Requests : page' = Respond(request)
      BY <2>2 DEF SubmitPost
    <3>2. request \in TextForms
      BY SubmissionAssumption DEF TextForms, Requests
    <3>3. QED
      BY <3>1, <3>2, Answer
  <2>3. CASE SubmitPostUnreadable
    BY <2>3 DEF SubmitPostUnreadable, Unreadable, Fresh, PageInv
  <2>4. CASE SubmitPostAgain
    <3>1. PICK request \in Edits(Shown(page.form)) : page' = Respond(request)
      BY <2>4 DEF SubmitPostAgain
    <3>2. page.form \in TextForms
      <4>1. CASE page = Unreadable
        BY <4>1, TextsAssumption DEF Unreadable, Fresh, EmptyForm, TextForms
      <4>2. CASE page # Unreadable
        BY <2>4, <4>2 DEF PageInv, SubmitPostAgain, Rejected, RejectedForm, WasRead
      <4>3. QED
        BY <4>1, <4>2
    <3>3. Shown(page.form) \in TextForms
      BY <3>2, TextsAssumption DEF Shown, TextForms
    <3>4. request \in TextForms
      BY <3>1, <3>3, EditsAreTexts
    <3>5. QED
      BY <3>1, <3>4, Answer
  <2>5. CASE UNCHANGED page
    BY <2>5 DEF PageInv
  <2>6. QED
    BY <2>1, <2>2, <2>3, <2>4, <2>5 DEF Next
<1>3. QED
  BY <1>1, <1>2, PTL DEF Spec

(* An entry the form accepted passes the loader's rules under its slug,    *)
(* whatever status a moderator gives it.                                   *)
THEOREM AcceptedCorrect == Spec => []AcceptedWillLoad
<1>1. PageInv => AcceptedWillLoad
  BY AcceptedLoads DEF PageInv, AcceptedWillLoad, Accepted
<1>2. QED
  BY <1>1, PageInvariant, PTL

(* A rejected form posted again as it came back is rejected for the same   *)
(* reasons and shows the same page.                                        *)
THEOREM RejectionCorrect == Spec => []RejectionIsStable
<1>1. PageInv => RejectionIsStable
  <2> SUFFICES ASSUME PageInv, Rejected, page # Unreadable
               PROVE  /\ Respond(Shown(page.form)).errors = page.errors
                      /\ Shown(Respond(Shown(page.form)).form) = Shown(page.form)
    BY DEF RejectionIsStable
  <2> DEFINE form  == page.form
             shown == Shown(form)
  <2>1. RejectedForm(page)
    BY DEF PageInv, Rejected
  <2>2. ReadSubmitForm(shown) = shown
    BY <2>1, ReadAgain DEF RejectedForm, WasRead
  <2>3. /\ shown.name = form.name /\ shown.description = form.description
        /\ shown.country = form.country /\ shown.access = form.access
        /\ shown.tags = form.tags /\ shown.clearnet = form.clearnet
        /\ shown.onion = form.onion /\ shown.i2p = form.i2p
        /\ shown.category \in Categories <=> form.category \in Categories
    BY <2>1, TextsAssumption DEF RejectedForm, WasRead, TextForms, Shown
  <2>4. ValidateSubmission(BuildResource(shown)) = ValidateSubmission(BuildResource(form))
    <3> DEFINE r == BuildResource(shown)
               q == BuildResource(form)
    <3>1. /\ r.name = q.name /\ r.description = q.description
          /\ r.country = q.country /\ r.access = q.access /\ r.tags = q.tags
          /\ r.links = q.links
          /\ r.category \in Categories <=> q.category \in Categories
      BY <2>3 DEF BuildResource, AccessOf
    <3>2. QED
      BY <3>1, CheckCommonFrame DEF ValidateSubmission
  <2>5. Respond(shown).errors = page.errors /\ Respond(shown).form = shown
    BY <2>1, <2>2, <2>4 DEF RejectedForm, Respond
  <2>6. Shown(shown) = shown
    BY <2>1, TextsAssumption DEF RejectedForm, WasRead, TextForms, Shown
  <2>7. QED
    BY <2>5, <2>6
<1>2. QED
  BY <1>1, PageInvariant, PTL

-----------------------------------------------------------------------------
(* Type correctness of the page.                                           *)
THEOREM TypeCorrect == Spec => []TypeOK
<1>1. Init => TypeOK
  BY DEF Init, TypeOK
<1>2. ASSUME NEW request, page' = Respond(request) PROVE TypeOK'
  <2> DEFINE form == ReadSubmitForm(request)
             res  == BuildResource(form)
             wrong == ValidateSubmission(res)
  <2>1. form.access \subseteq AccessTypes
    BY DEF ReadSubmitForm
  <2>2. MapFieldErrors(wrong) \subseteq
          {"form", "name", "category", "country", "access", "tags",
           "links_clearnet", "links_onion", "links_i2p", "description"}
    <3> HIDE DEF wrong
    <3>1. \A field : FieldErrorKey(field) \in
            {"form", "name", "category", "country", "access", "tags",
             "links_clearnet", "links_onion", "links_i2p", "description"}
      BY DEF FieldErrorKey
    <3> QED BY <3>1 DEF MapFieldErrors
  <2> HIDE DEF form, res, wrong
  <2>3. CASE wrong # {}
    <3>1. page' = [status |-> 400, form |-> form, errors |-> MapFieldErrors(wrong),
                   result |-> {}]
      BY <1>2, <2>3 DEF Respond, form, res, wrong
    <3> QED BY <2>1, <2>2, <3>1 DEF TypeOK
  <2>4. CASE wrong = {}
    <3>1. page' = [status |-> 200, form |-> EmptyForm, errors |-> {}, result |-> {res}]
      BY <1>2, <2>4 DEF Respond, form, res, wrong
    <3> QED BY <3>1 DEF TypeOK, EmptyForm
  <2> QED BY <2>3, <2>4
<1>3. TypeOK /\ [Next]_page => TypeOK'
  <2> SUFFICES ASSUME TypeOK, [Next]_page PROVE TypeOK'
    OBVIOUS
  <2>1. CASE SubmitGet
    BY <2>1 DEF SubmitGet, Fresh, EmptyForm, TypeOK
  <2>2. CASE SubmitPost \/ SubmitPostAgain
    BY <1>2, <2>2 DEF SubmitPost, SubmitPostAgain
  <2>3. CASE SubmitPostUnreadable
    BY <2>3 DEF SubmitPostUnreadable, Unreadable, Fresh, EmptyForm, TypeOK
  <2>4. CASE UNCHANGED page
    BY <2>4 DEF TypeOK
  <2> QED BY <2>1, <2>2, <2>3, <2>4 DEF Next
<1> QED BY <1>1, <1>3, PTL DEF Spec

(* The boxes that are ticked are sent as a list.                           *)
Ticked(form, a) == IF a \in form.access THEN <<a>> ELSE <<>>

LEMMA TickedIsList ==
  ASSUME NEW form, NEW S, NEW a \in S
  PROVE  Ticked(form, a) \in Seq(S)
<1>1. <<a>> \in Seq(S) /\ <<>> \in Seq(S)
  OBVIOUS
<1> QED BY <1>1 DEF Ticked

Words == {"clearnet", "tor", "i2p"}

LEMMA AccessIsList ==
  ASSUME NEW form
  PROVE  AccessOf(form) \in Seq(Words)
<1>1. "clearnet" \in Words /\ "tor" \in Words /\ "i2p" \in Words
  BY DEF Words
<1>2. /\ Ticked(form, "clearnet") \in Seq(Words) /\ Ticked(form, "tor") \in Seq(Words)
      /\ Ticked(form, "i2p") \in Seq(Words)
  BY <1>1, TickedIsList
<1>3. AccessOf(form) = Ticked(form, "clearnet") \o Ticked(form, "tor") \o Ticked(form, "i2p")
  BY DEF AccessOf, Ticked
<1> QED BY <1>2, <1>3

(* What the form accepted is shown with the same links in the list and on  *)
(* its page, and its clearnet link opens.                                  *)
LEMMA AcceptedOpens ==
  ASSUME NEW res, AcceptedForm(res)
  PROVE  /\ PageAgrees(res)
         /\ NonEmpty(res.links.clearnet) => Row(res).open \in Absolute
<1>1. PICK form : WasRead(form) /\ res = BuildResource(form)
  BY DEF AcceptedForm
<1>2. CheckCommon(res) = {}
  BY DEF AcceptedForm, ValidateSubmission
<1>3. res.access \in Seq(Words)
  BY <1>1, AccessIsList DEF BuildResource
<1>4. ASSUME NonEmpty(res.links.clearnet) PROVE Row(res).open \in Absolute
  <2>1. res.links.clearnet = Optional(form.clearnet) /\ res.links.clearnet # Null
    BY <1>1, <1>4 DEF BuildResource, NonEmpty
  <2>2. res.links.clearnet = form.clearnet
    BY <2>1 DEF Optional
  <2>3. Trim[form.clearnet] = form.clearnet
    BY <1>1 DEF WasRead, ReadSubmitForm, TextForms
  <2>4. LinkRules(res.links) = {}
    BY <1>2 DEF CheckCommon
  <2>5. Trim[res.links.clearnet] \in HTTPUrls
    BY <1>4, <2>4 DEF LinkRules, When
  <2>6. res.links.clearnet \in Absolute
    BY <2>2, <2>3, <2>5, LinksAssumption
  <2>7. Row(res).open = Href(res.links.clearnet)
    BY <1>4 DEF Row, PrimaryURL
  <2> QED BY <2>6, <2>7, LinksAssumption DEF Href
<1> QED BY <1>2, <1>3, <1>4, GoodPagesAgree

(* The links of what the form accepts (directory_view.go, submit.go).      *)
THEOREM LinksCorrect == Spec => []AcceptedLinksOpen
<1>1. PageInv => AcceptedLinksOpen
  BY AcceptedOpens DEF PageInv, AcceptedLinksOpen, Accepted
<1> QED BY <1>1, PageInvariant, PTL

-----------------------------------------------------------------------------
(* No entry breaks a rule, and no two share a slug: the clearnet URLs are  *)
(* left, and if they differ as well, nothing is wrong.                     *)
LEMMA OnlyClearnets ==
  ASSUME NEW d, \A b \in FilesOf(d) : Validate(d[b], b) = {}, ~SlugTwice(d)
  PROVE  LoadErrors(d) = IF ClearnetTwice(d) THEN {Clash} ELSE {}
<1>1. UNION {Validate(d[b], b) : b \in FilesOf(d)} = {}
  OBVIOUS
<1> QED BY <1>1 DEF LoadErrors

LEMMA NothingWrong ==
  ASSUME NEW d, LoadErrors(d) = {}
  PROVE  (\A b \in FilesOf(d) : Validate(d[b], b) = {}) /\ ~ClearnetTwice(d)
<1>1. \A b \in FilesOf(d) : Validate(d[b], b) \subseteq LoadErrors(d)
  BY DEF LoadErrors
<1>2. ClearnetTwice(d) => Clash \in LoadErrors(d)
  BY DEF LoadErrors
<1> QED BY <1>1, <1>2

(* An accepted entry joins a dataset that loads.                           *)
LEMMA PublishedLoads ==
  ASSUME NEW res, AcceptedForm(res), NEW status \in Statuses, NEW before \in Datasets,
         res.slug # NoText
  PROVE  LoadErrors(Publish(before, res, status)) =
           IF \E b \in FilesOf(before) \ {res.slug} : SharesClearnet(res, before[b])
           THEN {Clash} ELSE {}
<1> DEFINE stored == [res EXCEPT !.status = status]
           next == Publish(before, res, status)
           others == FilesOf(before) \ {res.slug}
<1>1. PICK form : WasRead(form) /\ res = BuildResource(form)
  BY DEF AcceptedForm
<1>2. res.slug \in Bases
  <2>1. form.name \in Texts
    BY <1>1 DEF WasRead, TextForms
  <2> QED BY <1>1, <2>1, SubmissionAssumption DEF BuildResource, Bases
<1>3. stored.slug = res.slug /\ stored.links = res.links
  BY <1>1 DEF BuildResource
<1>4. /\ next[res.slug] = stored
      /\ \A b \in Bases \ {res.slug} : next[b] = before[b]
      /\ FilesOf(next) = others \cup {res.slug}
  <2>1. /\ next[res.slug] = stored
        /\ \A b \in Bases \ {res.slug} : next[b] = before[b]
    BY <1>2 DEF Publish, Datasets
  <2>2. stored # NoFile
    BY <1>3 DEF NoFile
  <2> QED BY <1>2, <2>1, <2>2 DEF FilesOf
<1>5. others \subseteq Bases \ {res.slug} /\ others \subseteq FilesOf(before)
  BY DEF FilesOf
<1> HIDE DEF stored, next, others
<1>6. /\ \A b \in FilesOf(before) : Validate(before[b], b) = {}
      /\ \A a, b \in FilesOf(before) : a # b => ~SharesClearnet(before[a], before[b])
  <2>1. LoadErrors(before) = {}
    BY DEF Datasets
  <2> QED BY <2>1, NothingWrong DEF ClearnetTwice
<1>7. \A b \in FilesOf(next) : Validate(next[b], b) = {}
  <2>1. Validate(stored, res.slug) = {}
    BY AcceptedLoads DEF stored
  <2> QED BY <1>4, <1>5, <1>6, <2>1
<1>8. ~SlugTwice(next)
  <2>1. \A b \in FilesOf(next) : next[b].slug = b
    BY <1>7 DEF Validate, When
  <2> QED BY <2>1 DEF SlugTwice
<1>9. \A r : SharesClearnet(stored, r) <=> SharesClearnet(res, r)
  BY <1>3 DEF SharesClearnet, NormalizedClearnet
<1>10. \A q, r : SharesClearnet(q, r) <=> SharesClearnet(r, q)
  BY DEF SharesClearnet
<1>11. ClearnetTwice(next) <=> \E b \in others : SharesClearnet(res, before[b])
  <2>1. ASSUME NEW a \in FilesOf(next), NEW b \in FilesOf(next), a # b,
               SharesClearnet(next[a], next[b])
        PROVE  \E c \in others : SharesClearnet(res, before[c])
    <3>1. CASE a = res.slug
      <4>1. b \in others /\ next[a] = stored /\ next[b] = before[b]
        BY <1>4, <1>5, <2>1, <3>1
      <4> QED BY <1>9, <2>1, <4>1
    <3>2. CASE b = res.slug
      <4>1. a \in others /\ next[b] = stored /\ next[a] = before[a]
        BY <1>4, <1>5, <2>1, <3>2
      <4> QED BY <1>9, <1>10, <2>1, <4>1
    <3>3. CASE a # res.slug /\ b # res.slug
      <4>1. /\ a \in FilesOf(before) /\ b \in FilesOf(before)
            /\ next[a] = before[a] /\ next[b] = before[b]
        BY <1>4, <1>5, <3>3
      <4> QED BY <1>6, <2>1, <4>1
    <3> QED BY <3>1, <3>2, <3>3
  <2>2. ASSUME NEW b \in others, SharesClearnet(res, before[b])
        PROVE  \E a, c \in FilesOf(next) : a # c /\ SharesClearnet(next[a], next[c])
    <3>1. /\ res.slug \in FilesOf(next) /\ b \in FilesOf(next) /\ res.slug # b
          /\ next[res.slug] = stored /\ next[b] = before[b]
      BY <1>4, <1>5
    <3> QED BY <1>9, <2>2, <3>1
  <2> QED BY <2>1, <2>2 DEF ClearnetTwice
<1>12. LoadErrors(next) = IF ClearnetTwice(next) THEN {Clash} ELSE {}
  BY <1>7, <1>8, OnlyClearnets
<1> QED BY <1>11, <1>12 DEF next, others

(* Whatever the form accepted and whatever else is in a dataset that loads,*)
(* only a clearnet URL that another entry has can stop the next start.     *)
THEOREM ClashesCorrect == Spec => []OnlyClashesRemain
<1>1. PageInv => OnlyClashesRemain
  BY PublishedLoads DEF PageInv, OnlyClashesRemain, Accepted
<1> QED BY <1>1, PageInvariant, PTL
-----------------------------------------------------------------------------
(* The loop's files under their names, as DirectoryGrowth has them, if each*)
(* holds an entry and has a name that an entry can have.                   *)
ByName ==
    [b \in Bases |->
        IF \E f \in Files : Base[f] = b
        THEN dataset[CHOOSE f \in Files : Base[f] = b] ELSE NoFile]

Nameable ==
    \A f \in Files : Decoded(f) /\ Base[f] \in Bases /\ dataset[f] # NoFile

(* When Load returns, what it has reported is what LoadErrors says of the  *)
(* dataset, apart from which file it is said of.                           *)
ReportsLoadErrors ==
    (result # "none" /\ Nameable) =>
        /\ {[field |-> err.field, rule |-> err.rule] : err \in errs} = LoadErrors(ByName)
        /\ result = "store" <=> LoadErrors(ByName) = {}

(* Files and names correspond.                                             *)
LEMMA NamesOfFiles ==
  ASSUME Nameable
  PROVE  /\ \A f \in Files : Base[f] \in FilesOf(ByName) /\ ByName[Base[f]] = dataset[f]
         /\ \A b \in FilesOf(ByName) : \E f \in Files : Base[f] = b
<1>1. ASSUME NEW f \in Files PROVE ByName[Base[f]] = dataset[f] /\ Base[f] \in Bases
  <2>1. (CHOOSE g \in Files : Base[g] = Base[f]) = f
    BY FilesAssumption
  <2> QED BY <2>1 DEF ByName, Nameable
<1>2. ASSUME NEW f \in Files PROVE Base[f] \in FilesOf(ByName)
  BY <1>1 DEF FilesOf, Nameable
<1>3. ASSUME NEW b \in FilesOf(ByName) PROVE \E f \in Files : Base[f] = b
  BY DEF FilesOf, ByName
<1> QED BY <1>1, <1>2, <1>3

(* A broken rule is said of a field, and nothing else.                     *)
LEMMA RuleIsPair ==
  ASSUME NEW r, NEW base, NEW fe \in Validate(r, base)
  PROVE  [field |-> fe.field, rule |-> fe.rule] = fe
<1>1. ASSUME NEW broken, NEW field, NEW rule, fe \in When(broken, field, rule)
      PROVE  [field |-> fe.field, rule |-> fe.rule] = fe
  BY <1>1 DEF When
<1>2. CASE fe \in CheckCommon(r)
  <2>1. CASE fe \in NameRules(r.name) \cup DescriptionRules(r.description)
                    \cup CategoryRules(r.category) \cup CountryRules(r.country)
    BY <1>1, <2>1 DEF NameRules, DescriptionRules, CategoryRules, CountryRules
  <2>2. CASE fe \in AccessRules(r.access) \cup LinkRules(r.links) \cup TagRules(r.tags)
    BY <1>1, <2>2 DEF AccessRules, LinkRules, TagRules
  <2>3. ASSUME NEW a, NEW link, NEW field, fe \in AccessMatchesLink(r.access, a, link, field)
        PROVE  [field |-> fe.field, rule |-> fe.rule] = fe
    BY <1>1, <2>3 DEF AccessMatchesLink
  <2> QED BY <1>2, <2>1, <2>2, <2>3 DEF CheckCommon
<1> QED BY <1>1, <1>2 DEF Validate

(* The keys that two files share, seen from the later one, are those that  *)
(* two names share.                                                        *)
LEMMA SharedKeys ==
  ASSUME Nameable
  PROVE  /\ SlugTwice(ByName) <=>
              \E f \in Files : \E g \in 1 .. (f - 1) :
                 dataset[g].slug = dataset[f].slug /\ dataset[f].slug # NoText
         /\ ClearnetTwice(ByName) <=>
              \E f \in Files : \E g \in 1 .. (f - 1) :
                 /\ NormalizedClearnet(dataset[g]) = NormalizedClearnet(dataset[f])
                 /\ NormalizedClearnet(dataset[f]) # NoText
<1> DEFINE d == ByName
<1>1. /\ \A f \in Files : Base[f] \in FilesOf(d) /\ d[Base[f]] = dataset[f]
      /\ \A b \in FilesOf(d) : \E f \in Files : Base[f] = b
  BY NamesOfFiles
<1> HIDE DEF d
<1>2. \A f \in Files : \A g \in 1 .. (f - 1) : g \in Files /\ Base[g] # Base[f]
  BY FilesAssumption DEF Files
<1>3. \A f, g \in Files : f # g => g \in 1 .. (f - 1) \/ f \in 1 .. (g - 1)
  BY FilesAssumption DEF Files
<1>4. ASSUME SlugTwice(d)
      PROVE  \E f \in Files : \E g \in 1 .. (f - 1) :
                dataset[g].slug = dataset[f].slug /\ dataset[f].slug # NoText
  <2>1. PICK a \in FilesOf(d), b \in FilesOf(d) :
           a # b /\ d[a].slug # NoText /\ d[a].slug = d[b].slug
    BY <1>4 DEF SlugTwice
  <2>2. PICK f \in Files : Base[f] = a
    BY <1>1
  <2>3. PICK g \in Files : Base[g] = b
    BY <1>1
  <2>4. f # g /\ dataset[f].slug # NoText /\ dataset[f].slug = dataset[g].slug
    BY <1>1, <2>1, <2>2, <2>3
  <2> QED BY <1>3, <2>4
<1>5. ASSUME NEW f \in Files, NEW g \in 1 .. (f - 1),
             dataset[g].slug = dataset[f].slug, dataset[f].slug # NoText
      PROVE  SlugTwice(d)
  <2>1. g \in Files /\ Base[g] # Base[f]
    BY <1>2
  <2> QED BY <1>1, <1>5, <2>1 DEF SlugTwice
<1>6. ASSUME ClearnetTwice(d)
      PROVE  \E f \in Files : \E g \in 1 .. (f - 1) :
                /\ NormalizedClearnet(dataset[g]) = NormalizedClearnet(dataset[f])
                /\ NormalizedClearnet(dataset[f]) # NoText
  <2>1. PICK a \in FilesOf(d), b \in FilesOf(d) : a # b /\ SharesClearnet(d[a], d[b])
    BY <1>6 DEF ClearnetTwice
  <2>2. PICK f \in Files : Base[f] = a
    BY <1>1
  <2>3. PICK g \in Files : Base[g] = b
    BY <1>1
  <2>4. f # g /\ SharesClearnet(dataset[f], dataset[g])
    BY <1>1, <2>1, <2>2, <2>3
  <2> QED BY <1>3, <2>4 DEF SharesClearnet
<1>7. ASSUME NEW f \in Files, NEW g \in 1 .. (f - 1),
             NormalizedClearnet(dataset[g]) = NormalizedClearnet(dataset[f]),
             NormalizedClearnet(dataset[f]) # NoText
      PROVE  ClearnetTwice(d)
  <2>1. g \in Files /\ Base[g] # Base[f]
    BY <1>2
  <2>2. SharesClearnet(dataset[f], dataset[g])
    BY <1>7 DEF SharesClearnet
  <2> QED BY <1>1, <2>1, <2>2 DEF ClearnetTwice
<1> QED BY <1>4, <1>5, <1>6, <1>7 DEF d

(* What is wrong with the files is what is wrong with the dataset.         *)
LEMMA ErrorsByName ==
  ASSUME Nameable
  PROVE  UNION {FileErrors(f) : f \in Files} = LoadErrors(ByName)
<1> DEFINE slug(f) == \E g \in 1 .. (f - 1) : /\ Decoded(g)
                                              /\ dataset[g].slug = dataset[f].slug
                                              /\ dataset[f].slug # NoText
           url(f) == \E g \in 1 .. (f - 1) :
                        /\ Decoded(g)
                        /\ NormalizedClearnet(dataset[g]) = NormalizedClearnet(dataset[f])
                        /\ NormalizedClearnet(dataset[f]) # NoText
<1>1. \A f \in Files : \A g \in 1 .. (f - 1) : Decoded(g)
  BY FilesAssumption DEF Files, Nameable
<1>2. (\E f \in Files : slug(f)) <=> SlugTwice(ByName)
  BY <1>1, SharedKeys
<1>3. (\E f \in Files : url(f)) <=> ClearnetTwice(ByName)
  BY <1>1, SharedKeys
<1>4. \A f \in Files : FileErrors(f) =
         Validate(dataset[f], Base[f]) \cup (IF slug(f) THEN {Taken} ELSE {})
         \cup (IF url(f) THEN {Clash} ELSE {})
  BY DEF FileErrors, When, Taken, Clash
<1> HIDE DEF slug, url
<1>5. UNION {Validate(ByName[b], b) : b \in FilesOf(ByName)} =
      UNION {Validate(dataset[f], Base[f]) : f \in Files}
  BY NamesOfFiles
<1>6. UNION {FileErrors(f) : f \in Files} =
        (UNION {Validate(dataset[f], Base[f]) : f \in Files})
        \cup (IF \E f \in Files : slug(f) THEN {Taken} ELSE {})
        \cup (IF \E f \in Files : url(f) THEN {Clash} ELSE {})
  BY <1>4
<1> QED BY <1>2, <1>3, <1>5, <1>6 DEF LoadErrors

(* The loop of Load finds what OnlyClashesRemain takes for its outcome.    *)
THEOREM GrowthCorrect == LoadSpec => []ReportsLoadErrors
<1>1. LoadInv /\ ReportInv => ReportsLoadErrors
  <2> SUFFICES ASSUME LoadInv, ReportInv, result # "none", Nameable
               PROVE  /\ {[field |-> err.field, rule |-> err.rule] : err \in errs} = LoadErrors(ByName)
                      /\ result = "store" <=> LoadErrors(ByName) = {}
    BY DEF ReportsLoadErrors
  <2> DEFINE reported == {[field |-> err.field, rule |-> err.rule] : err \in errs}
  <2>1. p = FileCount + 1 /\ 1 .. (p - 1) = Files
    BY FilesAssumption DEF LoadInv, ReturnInv, Files
  <2>2. ASSUME NEW f \in Files, NEW fe \in FileErrors(f)
        PROVE  [field |-> fe.field, rule |-> fe.rule] = fe
    <3>1. CASE fe \in Validate(dataset[f], Base[f])
      BY <3>1, RuleIsPair
    <3>2. CASE fe \notin Validate(dataset[f], Base[f])
      BY <2>2, <3>2 DEF FileErrors, When
    <3> QED BY <3>1, <3>2
  <2>3. ASSUME NEW err \in errs PROVE \E f \in Files : \E fe \in FileErrors(f) : err = At(f, fe)
    <3>1. err.file \in Files
      BY <2>1 DEF LoadInv, ReturnInv
    <3> QED BY <3>1 DEF ReportInv, Nameable
  <2>4. ASSUME NEW f \in Files, NEW fe \in FileErrors(f) PROVE At(f, fe) \in errs
    BY <2>1 DEF ReportInv, Nameable
  <2>5. \A f, fe : At(f, fe).field = fe.field /\ At(f, fe).rule = fe.rule
    BY DEF At
  <2>6. reported = UNION {FileErrors(f) : f \in Files}
    <3>1. ASSUME NEW x \in reported PROVE \E f \in Files : x \in FileErrors(f)
      <4>1. PICK err \in errs : x = [field |-> err.field, rule |-> err.rule]
        OBVIOUS
      <4>2. PICK f \in Files : \E fe \in FileErrors(f) : err = At(f, fe)
        BY <2>3
      <4> QED BY <2>2, <2>5, <4>1, <4>2
    <3>2. ASSUME NEW f \in Files, NEW x \in FileErrors(f) PROVE x \in reported
      <4>1. At(f, x) \in errs
        BY <2>4
      <4>2. x = [field |-> At(f, x).field, rule |-> At(f, x).rule]
        BY <2>2, <2>5
      <4> QED BY <4>1, <4>2
    <3> HIDE DEF reported
    <3> QED BY <3>1, <3>2
  <2>7. reported = LoadErrors(ByName)
    BY <2>6, ErrorsByName
  <2>8. result = "store" <=> errs = {}
    BY DEF LoadInv, ReturnInv, LoadTypeOK
  <2>9. errs = {} <=> reported = {}
    OBVIOUS
  <2> HIDE DEF reported
  <2>10. result = "store" <=> LoadErrors(ByName) = {}
    BY <2>7, <2>8, <2>9
  <2> QED BY <2>7, <2>10 DEF reported
<1> QED BY <1>1, LoadInvariant, ReportInvariant, PTL

(* The form, a moderator and the next start together: once Load has read   *)
(* the dataset into which an accepted entry was put, it has failed if and  *)
(* only if another entry has the accepted one's clearnet URL.              *)
NextStart ==
    \A res, status, before :
        /\ Accepted /\ res \in page.result /\ res.slug # NoText
        /\ status \in Statuses /\ before \in Datasets
        /\ result # "none" /\ Nameable /\ ByName = Publish(before, res, status)
        => (result = "store" <=>
              \A b \in FilesOf(before) \ {res.slug} : ~SharesClearnet(res, before[b]))

THEOREM NextStartCorrect == Spec /\ LoadSpec => []NextStart
<1>1. OnlyClashesRemain /\ ReportsLoadErrors => NextStart
  <2> SUFFICES ASSUME OnlyClashesRemain, ReportsLoadErrors, NEW res, NEW status, NEW before,
                      Accepted, res \in page.result, res.slug # NoText,
                      status \in Statuses, before \in Datasets, result # "none", Nameable,
                      ByName = Publish(before, res, status)
               PROVE  result = "store" <=>
                        \A b \in FilesOf(before) \ {res.slug} : ~SharesClearnet(res, before[b])
    BY DEF NextStart
  <2>1. LoadErrors(Publish(before, res, status)) =
          IF \E b \in FilesOf(before) \ {res.slug} : SharesClearnet(res, before[b])
          THEN {Clash} ELSE {}
    BY DEF OnlyClashesRemain
  <2>2. result = "store" <=> LoadErrors(Publish(before, res, status)) = {}
    BY DEF ReportsLoadErrors
  <2> QED BY <2>1, <2>2
<1> QED BY <1>1, ClashesCorrect, GrowthCorrect, PTL

-----------------------------------------------------------------------------
(* f numbers the positions that are kept, in their order.                  *)
Numbers(f, kept, n) ==
    /\ f \in [kept -> 1 .. n]
    /\ \A j, k \in kept : j < k => f[j] < f[k]
    /\ \A i \in 1 .. n : \E k \in kept : f[k] = i
    /\ \A k \in kept : Nth(kept, f[k]) = k

(* Every position that is kept is the i-th for one i.                      *)
LEMMA NthSound ==
  ASSUME NEW n \in Nat, NEW kept \in SUBSET (1 .. n)
  PROVE  /\ IsFiniteSet(kept) /\ Cardinality(kept) \in Nat
         /\ \E f : Numbers(f, kept, Cardinality(kept))
<1> DEFINE below(k) == {j \in kept : j < k}
           rank == [k \in kept |-> 1 + Cardinality(below(k))]
           size == Cardinality(kept)
<1>1. IsFiniteSet(kept) /\ size \in Nat
  <2>1. IsFiniteSet(1 .. n)
    BY FS_Interval
  <2> QED BY <2>1, FS_Subset, FS_CardinalityType
<1>2. ASSUME NEW k \in kept
      PROVE  /\ IsFiniteSet(below(k)) /\ Cardinality(below(k)) \in Nat
             /\ Cardinality(below(k) \cup {k}) = Cardinality(below(k)) + 1
  <2>1. below(k) \in SUBSET kept /\ k \notin below(k)
    OBVIOUS
  <2> HIDE DEF below
  <2>2. IsFiniteSet(below(k)) /\ Cardinality(below(k)) \in Nat
    BY <1>1, <2>1, FS_Subset, FS_CardinalityType
  <2> QED BY <2>1, <2>2, FS_AddElement
<1>3. ASSUME NEW j \in kept, NEW k \in kept, j < k PROVE rank[j] < rank[k]
  <2>1. below(j) \cup {j} \in SUBSET below(k)
    <3> SUFFICES ASSUME NEW m \in below(j) \cup {j} PROVE m \in kept /\ m < k
      OBVIOUS
    <3>1. m \in kept /\ (m = j \/ m < j) /\ m \in Nat /\ j \in Nat /\ k \in Nat
      OBVIOUS
    <3> QED BY <1>3, <3>1
  <2>2. IsFiniteSet(below(k)) /\ Cardinality(below(k)) \in Nat /\ Cardinality(below(j)) \in Nat
    BY <1>2
  <2>3. Cardinality(below(j) \cup {j}) = Cardinality(below(j)) + 1
    BY <1>2
  <2>4. rank[j] = 1 + Cardinality(below(j)) /\ rank[k] = 1 + Cardinality(below(k))
    OBVIOUS
  <2> HIDE DEF below, rank
  <2>5. Cardinality(below(j) \cup {j}) <= Cardinality(below(k))
    BY <2>1, <2>2, FS_Subset
  <2> QED BY <2>2, <2>3, <2>4, <2>5
<1>4. rank \in [kept -> 1 .. size]
  <2> SUFFICES ASSUME NEW k \in kept PROVE 1 + Cardinality(below(k)) \in 1 .. size
    OBVIOUS
  <2>1. below(k) \cup {k} \in SUBSET kept
    OBVIOUS
  <2>2. Cardinality(below(k)) \in Nat /\ Cardinality(below(k) \cup {k}) = Cardinality(below(k)) + 1
    BY <1>2
  <2> HIDE DEF below, size
  <2>3. Cardinality(below(k) \cup {k}) <= Cardinality(kept)
    BY <1>1, <2>1, FS_Subset
  <2> QED BY <1>1, <2>2, <2>3 DEF size
<1>5. ASSUME NEW j \in kept, NEW k \in kept, rank[j] = rank[k] PROVE j = k
  <2>1. j \in Nat /\ k \in Nat /\ rank[j] \in Nat /\ rank[k] \in Nat
    BY <1>1, <1>4
  <2> HIDE DEF rank
  <2> QED BY <1>3, <1>5, <2>1
<1> HIDE DEF below, rank
<1>6. rank \in Surjection(kept, 1 .. size)
  <2>1. rank \in Injection(kept, 1 .. size)
    BY <1>4, <1>5 DEF Injection, IsInjective
  <2>2. IsFiniteSet(1 .. size) /\ Cardinality(1 .. size) = size
    BY <1>1, FS_Interval
  <2> QED BY <2>1, <2>2, FS_Injection
<1>7. ASSUME NEW k \in kept PROVE Nth(kept, rank[k]) = k
  <2>1. \A j \in kept : Cardinality({m \in kept : m < j}) = rank[k] - 1 <=> rank[j] = rank[k]
    <3> SUFFICES ASSUME NEW j \in kept
                 PROVE  Cardinality({m \in kept : m < j}) = rank[k] - 1 <=> rank[j] = rank[k]
      OBVIOUS
    <3> DEFINE c == Cardinality({m \in kept : m < j})
    <3>1. c \in Nat /\ rank[j] = 1 + c
      BY <1>2 DEF rank, below
    <3>2. rank[k] \in Nat
      BY <1>1, <1>4
    <3> HIDE DEF c
    <3>3. c = rank[k] - 1 <=> rank[j] = rank[k]
      BY <3>1, <3>2
    <3> QED BY <3>3 DEF c
  <2> QED BY <1>5, <2>1 DEF Nth
<1>8. Numbers(rank, kept, size)
  BY <1>3, <1>4, <1>6, <1>7 DEF Numbers, Surjection
<1> QED BY <1>1, <1>8

(* What parseTags leaves is in the form checkCommon asks for.              *)
LEMMA ParsedTags ==
  ASSUME NEW text \in Texts
  PROVE  TagRules(ParseTags(text)) = {}
<1> DEFINE parts == Split[text]
           tags == [k \in DOMAIN parts |-> Lower[parts[k]]]
           new == {k \in DOMAIN tags :
                     tags[k] # NoText /\ \A j \in 1 .. (k - 1) : tags[j] # tags[k]}
           kept == Sublist(tags, new)
<1>1. Trim[text] = NoText => ParseTags(text) = <<>>
  BY DEF ParseTags
<1>2. Trim[text] # NoText => ParseTags(text) = kept
  BY DEF ParseTags
<1>3. /\ parts \in Seq(Texts) /\ Len(parts) \in Nat /\ DOMAIN parts = 1 .. Len(parts)
      /\ \A k \in DOMAIN parts : parts[k] \in Texts
  <2>1. {Trim[t] : t \in Texts} \subseteq Texts
    BY TextsAssumption
  <2>2. parts \in Seq({Trim[t] : t \in Texts})
    BY SubmissionAssumption
  <2> HIDE DEF parts
  <2> QED BY <2>1, <2>2
<1>4. \A k \in DOMAIN tags : tags[k] \in LowerCase
  BY <1>3, SubmissionAssumption
<1>5. new \in SUBSET (1 .. Len(parts)) /\ DOMAIN tags = 1 .. Len(parts)
  BY <1>3
<1>6. \A k \in new : tags[k] # NoText /\ k \in DOMAIN tags
  OBVIOUS
<1>7. \A j, k \in new : tags[j] = tags[k] => j = k
  <2>1. ASSUME NEW j \in new, NEW k \in new, j < k PROVE tags[j] # tags[k]
    <3>1. j \in 1 .. (k - 1)
      BY <1>5, <2>1
    <3> QED BY <3>1
  <2> HIDE DEF tags, new
  <2>2. \A k \in new : k \in Nat
    BY <1>5
  <2> QED BY <2>1, <2>2
<1> HIDE DEF parts, tags, new
<1>8. PICK f : Numbers(f, new, Cardinality(new))
  BY <1>3, <1>5, NthSound
<1>9. \A i \in 1 .. Cardinality(new) : Nth(new, i) \in new
  BY <1>8 DEF Numbers
<1>10. \A i, j \in 1 .. Cardinality(new) : Nth(new, i) = Nth(new, j) => i = j
  BY <1>8 DEF Numbers
<1>11. Cardinality(new) \in Nat
  BY <1>3, <1>5, NthSound
<1>12. DOMAIN kept = 1 .. Cardinality(new)
       /\ \A i \in 1 .. Cardinality(new) : kept[i] = tags[Nth(new, i)]
  BY DEF Sublist
<1> HIDE DEF kept
<1>13. \A i \in DOMAIN kept : kept[i] # NoText /\ kept[i] \in LowerCase
  BY <1>4, <1>6, <1>9, <1>12
<1>14. ~Repeats(kept)
  <2> SUFFICES ASSUME NEW i \in DOMAIN kept, NEW j \in DOMAIN kept, i < j, kept[i] = kept[j]
               PROVE  FALSE
    BY DEF Repeats
  <2>1. i = j
    BY <1>7, <1>9, <1>10, <1>12
  <2> QED BY <1>11, <1>12, <2>1
<1>15. TagRules(kept) = {}
  BY <1>13, <1>14 DEF TagRules, When
<1>16. TagRules(<<>>) = {}
  BY DEF TagRules, When, Repeats
<1> QED BY <1>1, <1>2, <1>15, <1>16

(* An error is about the field it names.                                   *)
LEMMA WhenField ==
  ASSUME NEW broken, NEW field, NEW rule, NEW e \in When(broken, field, rule)
  PROVE  e.field = field
  BY DEF When

(* Only the rules about tags flag the tags.                                *)
LEMMA TagsFlagged ==
  ASSUME NEW r, "tags" \in MapFieldErrors(ValidateSubmission(r))
  PROVE  TagRules(r.tags) # {}
<1>1. PICK fe \in CheckCommon(r) : FieldErrorKey(fe.field) = "tags"
  BY DEF MapFieldErrors, ValidateSubmission
<1>2. fe.field = "tags"
  BY <1>1 DEF FieldErrorKey
<1>3. /\ fe \notin NameRules(r.name)
      /\ fe \notin DescriptionRules(r.description)
      /\ fe \notin CategoryRules(r.category)
      /\ fe \notin CountryRules(r.country)
  BY <1>2, WhenField DEF NameRules, DescriptionRules, CategoryRules, CountryRules
<1>4. fe \notin AccessRules(r.access)
  BY <1>2, WhenField DEF AccessRules
<1>5. fe \notin LinkRules(r.links)
  BY <1>2, WhenField DEF LinkRules
<1>6. ASSUME NEW a, NEW link, NEW field, field # "tags"
      PROVE  fe \notin AccessMatchesLink(r.access, a, link, field)
  BY <1>2, <1>6, WhenField DEF AccessMatchesLink
<1> QED BY <1>1, <1>2, <1>3, <1>4, <1>5, <1>6 DEF CheckCommon

(* Whatever a visitor types into the tags, the form never complains about  *)
(* them: parseTags and checkCommon agree on what a list of tags is.        *)
THEOREM TagsCorrect == Spec => []TagsNeverRefused
<1>1. PageInv => TagsNeverRefused
  <2> SUFFICES ASSUME PageInv, Rejected, "tags" \in page.errors PROVE FALSE
    BY DEF TagsNeverRefused
  <2>1. CASE page = Unreadable
    BY <2>1 DEF Unreadable, Fresh
  <2>2. CASE page # Unreadable
    <3>1. RejectedForm(page)
      BY <2>2 DEF PageInv, Rejected
    <3>2. page.form.tags \in Texts
      BY <3>1 DEF RejectedForm, WasRead, TextForms
    <3>3. TagRules(BuildResource(page.form).tags) # {}
      BY <3>1, TagsFlagged DEF RejectedForm
    <3>4. BuildResource(page.form).tags = ParseTags(page.form.tags)
      BY DEF BuildResource
    <3> QED BY <3>2, <3>3, <3>4, ParsedTags
  <2> QED BY <2>1, <2>2
<1> QED BY <1>1, PageInvariant, PTL
-----------------------------------------------------------------------------
(* An input for a link is empty or holds what its kind asks for.           *)
LinkFits(link, names) == link = NoText \/ link \in names

(* What passes the rules, said of the form and not of the entry: the plain *)
(* inputs, the links, and a box ticked exactly where there is a link.      *)
PlainInputsFit(form) ==
    /\ NameRules(form.name) = {}
    /\ DescriptionRules(form.description) = {}
    /\ form.category \in Categories
    /\ form.country = NoText \/ Upper[form.country] \in CountryCodes

LinksFit(form) ==
    /\ LinkFits(form.clearnet, HTTPUrls)
    /\ LinkFits(form.onion, OnionNames)
    /\ LinkFits(form.i2p, I2PNames)

BoxesFit(form) ==
    /\ form.access # {}
    /\ "clearnet" \in form.access <=> form.clearnet # NoText
    /\ "tor" \in form.access <=> form.onion # NoText
    /\ "i2p" \in form.access <=> form.i2p # NoText

(* s has each element of A once and nothing else.                          *)
OnceEach(s, A) ==
    /\ s \in Seq(Words)
    /\ \A a \in Words : HasAccess(s, a) <=> a \in A
    /\ ~Repeats(s)

LEMMA TickedOnce ==
  ASSUME NEW form, NEW a \in Words
  PROVE  OnceEach(Ticked(form, a), form.access \cap {a})
<1>1. OnceEach(<<a>>, {a})
  BY DEF OnceEach, HasAccess, Repeats
<1>2. OnceEach(<<>>, {})
  BY DEF OnceEach, HasAccess, Repeats
<1>3. CASE a \in form.access
  <2>1. form.access \cap {a} = {a}
    BY <1>3
  <2> QED BY <1>1, <1>3, <2>1 DEF Ticked
<1>4. CASE a \notin form.access
  <2>1. form.access \cap {a} = {}
    BY <1>4
  <2> QED BY <1>2, <1>4, <2>1 DEF Ticked
<1> QED BY <1>3, <1>4

LEMMA ConcatOnce ==
  ASSUME NEW s, NEW t, NEW A, NEW B, OnceEach(s, A), OnceEach(t, B), A \cap B = {}
  PROVE  OnceEach(s \o t, A \cup B)
<1> DEFINE m == Len(s)
           n == Len(t)
           u == s \o t
<1>1. /\ s \in Seq(Words) /\ t \in Seq(Words) /\ u \in Seq(Words)
      /\ m \in Nat /\ n \in Nat
      /\ DOMAIN s = 1 .. m /\ DOMAIN t = 1 .. n /\ DOMAIN u = 1 .. (m + n)
      /\ \A k \in 1 .. m : u[k] = s[k] /\ s[k] \in Words
      /\ \A k \in 1 .. n : u[m + k] = t[k] /\ t[k] \in Words
  BY DEF OnceEach
<1> HIDE DEF m, n, u
<1>2. \A k \in 1 .. (m + n) : k \in 1 .. m \/ \E j \in 1 .. n : k = m + j
  <2> SUFFICES ASSUME NEW k \in 1 .. (m + n), k \notin 1 .. m PROVE k - m \in 1 .. n /\ k = m + (k - m)
    OBVIOUS
  <2> QED BY <1>1
<1>3. ASSUME NEW a \in Words PROVE HasAccess(u, a) <=> a \in A \cup B
  <2>1. ASSUME HasAccess(u, a) PROVE HasAccess(s, a) \/ HasAccess(t, a)
    <3>1. PICK k \in 1 .. (m + n) : u[k] = a
      BY <1>1, <2>1 DEF HasAccess
    <3>2. CASE k \in 1 .. m
      BY <1>1, <3>1, <3>2 DEF HasAccess
    <3>3. CASE k \notin 1 .. m
      <4>1. PICK j \in 1 .. n : k = m + j
        BY <1>2, <3>3
      <4>2. t[j] = a
        BY <1>1, <3>1, <4>1
      <4> QED BY <1>1, <4>2 DEF HasAccess
    <3> QED BY <3>2, <3>3
  <2>2. ASSUME HasAccess(s, a) PROVE HasAccess(u, a)
    <3>1. PICK k \in 1 .. m : s[k] = a
      BY <1>1, <2>2 DEF HasAccess
    <3>2. k \in 1 .. (m + n) /\ u[k] = a
      BY <1>1, <3>1
    <3> QED BY <1>1, <3>2 DEF HasAccess
  <2>3. ASSUME HasAccess(t, a) PROVE HasAccess(u, a)
    <3>1. PICK k \in 1 .. n : t[k] = a
      BY <1>1, <2>3 DEF HasAccess
    <3>2. m + k \in 1 .. (m + n) /\ u[m + k] = a
      BY <1>1, <3>1
    <3> QED BY <1>1, <3>2 DEF HasAccess
  <2> QED BY <2>1, <2>2, <2>3 DEF OnceEach
<1>4. /\ \A k \in 1 .. m : s[k] \in A
      /\ \A k \in 1 .. n : t[k] \in B
  BY <1>1 DEF OnceEach, HasAccess
<1>5. ASSUME NEW j \in 1 .. (m + n), NEW k \in 1 .. (m + n), j < k, u[j] = u[k]
      PROVE  FALSE
  <2>1. CASE k \in 1 .. m
    <3>1. j \in 1 .. m /\ s[j] = s[k]
      BY <1>1, <1>5, <2>1
    <3> QED BY <1>1, <1>5, <2>1, <3>1 DEF OnceEach, Repeats
  <2>2. CASE k \notin 1 .. m
    <3>1. PICK i \in 1 .. n : k = m + i
      BY <1>2, <2>2
    <3>2. CASE j \in 1 .. m
      BY <1>1, <1>4, <1>5, <3>1, <3>2
    <3>3. CASE j \notin 1 .. m
      <4>1. PICK h \in 1 .. n : j = m + h
        BY <1>2, <3>3
      <4>2. h \in Nat /\ i \in Nat /\ m + h < m + i
        BY <1>1, <1>5, <3>1, <4>1
      <4>3. h < i
        BY <1>1, <4>2
      <4>4. u[m + h] = t[h] /\ u[m + i] = t[i]
        BY <1>1
      <4>5. t[h] = t[i]
        BY <1>5, <3>1, <4>1, <4>4
      <4> QED BY <1>1, <4>3, <4>5 DEF OnceEach, Repeats
    <3> QED BY <3>2, <3>3
  <2> QED BY <2>1, <2>2
<1>6. ~Repeats(u)
  BY <1>1, <1>5 DEF Repeats
<1> QED BY <1>1, <1>3, <1>6 DEF OnceEach, u

(* The list of the ticked boxes has each of them once.                     *)
LEMMA AccessList ==
  ASSUME NEW form, form.access \subseteq AccessTypes
  PROVE  OnceEach(AccessOf(form), form.access)
<1> DEFINE of(a) == form.access \cap {a}
<1>1. "clearnet" \in Words /\ "tor" \in Words /\ "i2p" \in Words
  BY DEF Words
<1>2. /\ OnceEach(Ticked(form, "clearnet"), of("clearnet"))
      /\ OnceEach(Ticked(form, "tor"), of("tor"))
      /\ OnceEach(Ticked(form, "i2p"), of("i2p"))
  BY <1>1, TickedOnce
<1>3. /\ of("clearnet") \cap of("tor") = {}
      /\ (of("clearnet") \cup of("tor")) \cap of("i2p") = {}
      /\ of("clearnet") \cup of("tor") \cup of("i2p") = form.access
  BY DEF AccessTypes
<1> HIDE DEF of
<1>4. OnceEach(Ticked(form, "clearnet") \o Ticked(form, "tor"), of("clearnet") \cup of("tor"))
  BY <1>2, <1>3, ConcatOnce
<1>5. OnceEach((Ticked(form, "clearnet") \o Ticked(form, "tor")) \o Ticked(form, "i2p"),
               (of("clearnet") \cup of("tor")) \cup of("i2p"))
  BY <1>2, <1>3, <1>4, ConcatOnce
<1>6. AccessOf(form) = (Ticked(form, "clearnet") \o Ticked(form, "tor")) \o Ticked(form, "i2p")
  BY DEF AccessOf, Ticked
<1> QED BY <1>3, <1>5, <1>6

(* No box is ticked exactly if the list is empty.                          *)
LEMMA AccessEmpty ==
  ASSUME NEW form, form.access \subseteq AccessTypes
  PROVE  AccessOf(form) = <<>> <=> form.access = {}
<1>1. OnceEach(AccessOf(form), form.access)
  BY AccessList
<1>2. AccessTypes = Words
  BY DEF AccessTypes, Words
<1>3. AccessOf(form) # <<>> => 1 \in DOMAIN AccessOf(form) /\ AccessOf(form)[1] \in Words
  BY <1>1 DEF OnceEach
<1>4. DOMAIN <<>> = {}
  OBVIOUS
<1> QED BY <1>1, <1>2, <1>3, <1>4 DEF OnceEach, HasAccess

(* A link as the form builds it is there when its text is not empty.       *)
LEMMA OptionalLink ==
  ASSUME NEW text \in Texts, Trim[text] = text
  PROVE  /\ NonEmpty(Optional(text)) <=> text # NoText
         /\ text # NoText => Optional(text) = text
  BY TextsAssumption DEF NonEmpty, Optional

(* A form that fits is accepted.                                           *)
LEMMA FitsPasses ==
  ASSUME NEW form, WasRead(form), PlainInputsFit(form), LinksFit(form), BoxesFit(form)
  PROVE  ValidateSubmission(BuildResource(form)) = {}
<1> DEFINE res == BuildResource(form)
<1>1. /\ form.clearnet \in Texts /\ Trim[form.clearnet] = form.clearnet
      /\ form.onion \in Texts /\ Trim[form.onion] = form.onion
      /\ form.i2p \in Texts /\ Trim[form.i2p] = form.i2p
      /\ form.tags \in Texts /\ form.access \subseteq AccessTypes
  BY DEF WasRead, TextForms, ReadSubmitForm
<1>2. /\ res.name = form.name /\ res.description = form.description
      /\ res.category = form.category /\ res.access = AccessOf(form)
      /\ res.country = IF form.country = NoText THEN Null ELSE Upper[form.country]
      /\ res.tags = ParseTags(form.tags)
      /\ res.links.clearnet = Optional(form.clearnet)
      /\ res.links.onion = Optional(form.onion)
      /\ res.links.i2p = Optional(form.i2p)
  BY DEF BuildResource
<1> HIDE DEF res
<1>3. NameRules(res.name) = {} /\ DescriptionRules(res.description) = {}
      /\ CategoryRules(res.category) = {} /\ CountryRules(res.country) = {}
  BY <1>2 DEF PlainInputsFit, CategoryRules, CountryRules, When
<1>4. TagRules(res.tags) = {}
  BY <1>1, <1>2, ParsedTags
<1>5. /\ AccessRules(res.access) = {}
      /\ \A a \in AccessTypes : HasAccess(res.access, a) <=> a \in form.access
  <2>1. OnceEach(res.access, form.access) /\ res.access # <<>>
    BY <1>1, <1>2, AccessList, AccessEmpty DEF BoxesFit
  <2>2. AccessTypes = Words
    BY DEF AccessTypes, Words
  <2>3. \A k \in DOMAIN res.access : res.access[k] \in AccessTypes
    BY <2>1, <2>2 DEF OnceEach
  <2> QED BY <2>1, <2>2, <2>3 DEF AccessRules, When, OnceEach
<1>6. /\ NonEmpty(res.links.clearnet) <=> form.clearnet # NoText
      /\ NonEmpty(res.links.onion) <=> form.onion # NoText
      /\ NonEmpty(res.links.i2p) <=> form.i2p # NoText
      /\ form.clearnet # NoText => res.links.clearnet = form.clearnet
      /\ form.onion # NoText => res.links.onion = form.onion
      /\ form.i2p # NoText => res.links.i2p = form.i2p
  BY <1>1, <1>2, OptionalLink
<1>7. LinkRules(res.links) = {}
  <2>1. form.clearnet # NoText \/ form.onion # NoText \/ form.i2p # NoText
    BY <1>1 DEF BoxesFit, AccessTypes
  <2> QED BY <1>1, <1>6, <2>1 DEF LinkRules, LinksFit, LinkFits, When
<1>8. /\ HasAccess(res.access, "clearnet") <=> NonEmpty(res.links.clearnet)
      /\ HasAccess(res.access, "tor") <=> NonEmpty(res.links.onion)
      /\ HasAccess(res.access, "i2p") <=> NonEmpty(res.links.i2p)
  BY <1>5, <1>6 DEF BoxesFit, AccessTypes
<1>9. /\ AccessMatchesLink(res.access, "clearnet", res.links.clearnet, "links.clearnet") = {}
      /\ AccessMatchesLink(res.access, "tor", res.links.onion, "links.onion") = {}
      /\ AccessMatchesLink(res.access, "i2p", res.links.i2p, "links.i2p") = {}
  BY <1>8 DEF AccessMatchesLink, When
<1>10. CheckCommon(res) = {}
  BY <1>3, <1>4, <1>5, <1>7, <1>9 DEF CheckCommon
<1> QED BY <1>10 DEF ValidateSubmission, res

(* An input whose rules are broken carries a message.                      *)
LEMMA BrokenFlagged ==
  ASSUME NEW r, NEW broken, NEW field, NEW rule,
         When(broken, field, rule) \subseteq CheckCommon(r),
         FieldErrorKey(field) \notin MapFieldErrors(ValidateSubmission(r))
  PROVE  ~broken
<1> SUFFICES ASSUME broken PROVE FALSE
  OBVIOUS
<1>1. [field |-> field, rule |-> rule] \in CheckCommon(r)
  BY DEF When
<1>2. FieldErrorKey([field |-> field, rule |-> rule].field)
        \in MapFieldErrors(ValidateSubmission(r))
  BY <1>1 DEF MapFieldErrors, ValidateSubmission
<1> QED BY <1>2

(* What the page of a rejected form does not flag fits.                    *)
LEMMA UnflaggedFit ==
  ASSUME NEW pg, RejectedForm(pg)
  PROVE  /\ "name" \notin pg.errors => NameRules(pg.form.name) = {}
         /\ "description" \notin pg.errors => DescriptionRules(pg.form.description) = {}
         /\ "category" \notin pg.errors => pg.form.category \in Categories
         /\ "country" \notin pg.errors =>
               pg.form.country = NoText \/ Upper[pg.form.country] \in CountryCodes
<1> DEFINE form == pg.form
           res == BuildResource(form)
<1>1. /\ form.country \in Texts
      /\ pg.errors = MapFieldErrors(ValidateSubmission(res))
  BY DEF RejectedForm, WasRead, TextForms
<1>2. /\ res.name = form.name /\ res.description = form.description
      /\ res.category = form.category
      /\ res.country = IF form.country = NoText THEN Null ELSE Upper[form.country]
  BY DEF BuildResource
<1> HIDE DEF form, res
<1>3. /\ FieldErrorKey("name") = "name" /\ FieldErrorKey("description") = "description"
      /\ FieldErrorKey("category") = "category" /\ FieldErrorKey("country") = "country"
  BY DEF FieldErrorKey
<1>4. /\ NameRules(res.name) \subseteq CheckCommon(res)
      /\ DescriptionRules(res.description) \subseteq CheckCommon(res)
      /\ CategoryRules(res.category) \subseteq CheckCommon(res)
      /\ CountryRules(res.country) \subseteq CheckCommon(res)
  BY DEF CheckCommon
<1>5. ASSUME "name" \notin pg.errors PROVE NameRules(res.name) = {}
  <2>1. res.name # NoText
    <3>1. When(res.name = NoText, "name", "empty") \subseteq CheckCommon(res)
      BY <1>4 DEF NameRules
    <3> QED BY <1>1, <1>3, <1>5, <3>1, BrokenFlagged
  <2>2. ~(Runes[res.name] > MaxNameLen)
    <3>1. When(Runes[res.name] > MaxNameLen, "name", "too long") \subseteq CheckCommon(res)
      BY <1>4 DEF NameRules
    <3> QED BY <1>1, <1>3, <1>5, <3>1, BrokenFlagged
  <2> QED BY <2>1, <2>2 DEF NameRules, When
<1>6. ASSUME "description" \notin pg.errors PROVE DescriptionRules(res.description) = {}
  <2>1. res.description # NoText
    <3>1. When(res.description = NoText, "description", "empty") \subseteq CheckCommon(res)
      BY <1>4 DEF DescriptionRules
    <3> QED BY <1>1, <1>3, <1>6, <3>1, BrokenFlagged
  <2>2. ~(Runes[res.description] > MaxDescriptionLen)
    <3>1. When(Runes[res.description] > MaxDescriptionLen, "description", "too long")
            \subseteq CheckCommon(res)
      BY <1>4 DEF DescriptionRules
    <3> QED BY <1>1, <1>3, <1>6, <3>1, BrokenFlagged
  <2> QED BY <2>1, <2>2 DEF DescriptionRules, When
<1>7. ASSUME "category" \notin pg.errors PROVE res.category \in Categories
  BY <1>1, <1>3, <1>4, <1>7, BrokenFlagged DEF CategoryRules
<1>8. ASSUME "country" \notin pg.errors
      PROVE  form.country = NoText \/ Upper[form.country] \in CountryCodes
  <2>1. ~(res.country # Null /\ res.country \notin CountryCodes)
    BY <1>1, <1>3, <1>4, <1>8, BrokenFlagged DEF CountryRules
  <2>2. Upper[form.country] # Null
    BY <1>1, TextsAssumption, SubmissionAssumption
  <2> QED BY <1>2, <2>1, <2>2
<1> QED BY <1>2, <1>5, <1>6, <1>7, <1>8 DEF form

(* The same for the boxes and the links.                                   *)
LEMMA UnflaggedLinks ==
  ASSUME NEW pg, RejectedForm(pg)
  PROVE  /\ "access" \notin pg.errors =>
               /\ pg.form.access # {}
               /\ "clearnet" \in pg.form.access => pg.form.clearnet # NoText
               /\ "tor" \in pg.form.access => pg.form.onion # NoText
               /\ "i2p" \in pg.form.access => pg.form.i2p # NoText
         /\ "form" \notin pg.errors =>
               pg.form.clearnet # NoText \/ pg.form.onion # NoText \/ pg.form.i2p # NoText
         /\ "links_clearnet" \notin pg.errors /\ pg.form.clearnet # NoText =>
               pg.form.clearnet \in HTTPUrls /\ "clearnet" \in pg.form.access
         /\ "links_onion" \notin pg.errors /\ pg.form.onion # NoText =>
               pg.form.onion \in OnionNames /\ "tor" \in pg.form.access
         /\ "links_i2p" \notin pg.errors /\ pg.form.i2p # NoText =>
               pg.form.i2p \in I2PNames /\ "i2p" \in pg.form.access
<1> DEFINE form == pg.form
           res == BuildResource(form)
<1>1. /\ pg.errors = MapFieldErrors(ValidateSubmission(res))
      /\ form.clearnet \in Texts /\ Trim[form.clearnet] = form.clearnet
      /\ form.onion \in Texts /\ Trim[form.onion] = form.onion
      /\ form.i2p \in Texts /\ Trim[form.i2p] = form.i2p
      /\ form.access \subseteq AccessTypes
  BY DEF RejectedForm, WasRead, TextForms, ReadSubmitForm
<1>2. /\ res.access = AccessOf(form)
      /\ res.links.clearnet = Optional(form.clearnet)
      /\ res.links.onion = Optional(form.onion)
      /\ res.links.i2p = Optional(form.i2p)
  BY DEF BuildResource
<1> HIDE DEF form, res
<1>3. /\ NonEmpty(res.links.clearnet) <=> form.clearnet # NoText
      /\ NonEmpty(res.links.onion) <=> form.onion # NoText
      /\ NonEmpty(res.links.i2p) <=> form.i2p # NoText
      /\ form.clearnet # NoText => Trim[res.links.clearnet] = form.clearnet
      /\ form.onion # NoText => Trim[res.links.onion] = form.onion
      /\ form.i2p # NoText => Trim[res.links.i2p] = form.i2p
  BY <1>1, <1>2, OptionalLink
<1>4. /\ \A a \in AccessTypes : HasAccess(res.access, a) <=> a \in form.access
      /\ res.access = <<>> <=> form.access = {}
  <2>1. AccessTypes = Words
    BY DEF AccessTypes, Words
  <2> QED BY <1>1, <1>2, <2>1, AccessList, AccessEmpty DEF OnceEach
<1>5. /\ FieldErrorKey("access") = "access" /\ FieldErrorKey("links") = "form"
      /\ FieldErrorKey("links.clearnet") = "links_clearnet"
      /\ FieldErrorKey("links.onion") = "links_onion"
      /\ FieldErrorKey("links.i2p") = "links_i2p"
  BY DEF FieldErrorKey
<1>6. /\ AccessRules(res.access) \subseteq CheckCommon(res)
      /\ LinkRules(res.links) \subseteq CheckCommon(res)
      /\ AccessMatchesLink(res.access, "clearnet", res.links.clearnet, "links.clearnet")
            \subseteq CheckCommon(res)
      /\ AccessMatchesLink(res.access, "tor", res.links.onion, "links.onion")
            \subseteq CheckCommon(res)
      /\ AccessMatchesLink(res.access, "i2p", res.links.i2p, "links.i2p")
            \subseteq CheckCommon(res)
  BY DEF CheckCommon
<1>7. ASSUME NEW a, NEW link, NEW field,
             AccessMatchesLink(res.access, a, link, field) \subseteq CheckCommon(res)
      PROVE  /\ "access" \notin pg.errors /\ HasAccess(res.access, a) => NonEmpty(link)
             /\ FieldErrorKey(field) \notin pg.errors /\ NonEmpty(link) => HasAccess(res.access, a)
  <2>1. /\ When(HasAccess(res.access, a) /\ ~NonEmpty(link), "access", "no link for " \o a)
              \subseteq CheckCommon(res)
        /\ When(NonEmpty(link) /\ ~HasAccess(res.access, a), field, "no access")
              \subseteq CheckCommon(res)
    BY <1>7 DEF AccessMatchesLink
  <2>2. "access" \notin pg.errors => ~(HasAccess(res.access, a) /\ ~NonEmpty(link))
    BY <1>1, <1>5, <2>1, BrokenFlagged
  <2>3. FieldErrorKey(field) \notin pg.errors => ~(NonEmpty(link) /\ ~HasAccess(res.access, a))
    BY <1>1, <2>1, BrokenFlagged
  <2> QED BY <2>2, <2>3
<1>8. "access" \notin pg.errors => res.access # <<>>
  <2>1. When(res.access = <<>>, "access", "empty") \subseteq CheckCommon(res)
    BY <1>6 DEF AccessRules
  <2> QED BY <1>1, <1>5, <2>1, BrokenFlagged
<1>9. /\ When(~NonEmpty(res.links.clearnet) /\ ~NonEmpty(res.links.onion)
                /\ ~NonEmpty(res.links.i2p), "links", "none") \subseteq CheckCommon(res)
      /\ When(NonEmpty(res.links.clearnet) /\ Trim[res.links.clearnet] \notin HTTPUrls,
              "links.clearnet", "no URL") \subseteq CheckCommon(res)
      /\ When(NonEmpty(res.links.onion) /\ Trim[res.links.onion] \notin OnionNames,
              "links.onion", "suffix") \subseteq CheckCommon(res)
      /\ When(NonEmpty(res.links.i2p) /\ Trim[res.links.i2p] \notin I2PNames,
              "links.i2p", "suffix") \subseteq CheckCommon(res)
  BY <1>6 DEF LinkRules
<1>10. "form" \notin pg.errors =>
          ~(~NonEmpty(res.links.clearnet) /\ ~NonEmpty(res.links.onion) /\ ~NonEmpty(res.links.i2p))
  BY <1>1, <1>5, <1>9, BrokenFlagged
<1>11. /\ "links_clearnet" \notin pg.errors =>
             ~(NonEmpty(res.links.clearnet) /\ Trim[res.links.clearnet] \notin HTTPUrls)
       /\ "links_onion" \notin pg.errors =>
             ~(NonEmpty(res.links.onion) /\ Trim[res.links.onion] \notin OnionNames)
       /\ "links_i2p" \notin pg.errors =>
             ~(NonEmpty(res.links.i2p) /\ Trim[res.links.i2p] \notin I2PNames)
  BY <1>1, <1>5, <1>9, BrokenFlagged
<1>12. /\ "access" \notin pg.errors =>
             /\ HasAccess(res.access, "clearnet") => NonEmpty(res.links.clearnet)
             /\ HasAccess(res.access, "tor") => NonEmpty(res.links.onion)
             /\ HasAccess(res.access, "i2p") => NonEmpty(res.links.i2p)
       /\ "links_clearnet" \notin pg.errors /\ NonEmpty(res.links.clearnet) =>
             HasAccess(res.access, "clearnet")
       /\ "links_onion" \notin pg.errors /\ NonEmpty(res.links.onion) =>
             HasAccess(res.access, "tor")
       /\ "links_i2p" \notin pg.errors /\ NonEmpty(res.links.i2p) =>
             HasAccess(res.access, "i2p")
  BY <1>5, <1>6, <1>7
<1>13. /\ HasAccess(res.access, "clearnet") <=> "clearnet" \in form.access
       /\ HasAccess(res.access, "tor") <=> "tor" \in form.access
       /\ HasAccess(res.access, "i2p") <=> "i2p" \in form.access
  BY <1>4 DEF AccessTypes
<1>14. "access" \notin pg.errors =>
          /\ form.access # {}
          /\ "clearnet" \in form.access => form.clearnet # NoText
          /\ "tor" \in form.access => form.onion # NoText
          /\ "i2p" \in form.access => form.i2p # NoText
  BY <1>3, <1>4, <1>8, <1>12, <1>13
<1>15. "form" \notin pg.errors =>
          form.clearnet # NoText \/ form.onion # NoText \/ form.i2p # NoText
  BY <1>3, <1>10
<1>16. /\ "links_clearnet" \notin pg.errors /\ form.clearnet # NoText =>
             form.clearnet \in HTTPUrls /\ "clearnet" \in form.access
       /\ "links_onion" \notin pg.errors /\ form.onion # NoText =>
             form.onion \in OnionNames /\ "tor" \in form.access
       /\ "links_i2p" \notin pg.errors /\ form.i2p # NoText =>
             form.i2p \in I2PNames /\ "i2p" \in form.access
  BY <1>3, <1>11, <1>12, <1>13
<1> QED BY <1>14, <1>15, <1>16 DEF form

(* What to put into the input of a link: a good one if the input is flagged*)
(* and its box is ticked or can be, nothing if it is flagged and the box   *)
(* must stay empty.                                                        *)
Repair(flagged, free, ticked, good, kept) ==
    IF flagged THEN IF free \/ ticked THEN good ELSE NoText ELSE kept

(* What to put into the inputs of a rejected form, each with a good value  *)
(* or the one it has.                                                      *)
LEMMA Correctable ==
  ASSUME NEW pg, RejectedForm(pg)
  PROVE  LET form == pg.form
             flagged(key) == key \in pg.errors
             linkFlagged(key) == flagged(key) \/ flagged("form")
             choice(changed, values, kept) == IF changed THEN values ELSE {kept}
         IN  \E request \in
                [name : choice(flagged("name"), Names, form.name),
                 category : choice(flagged("category"), TypedCategories, form.category),
                 country : choice(flagged("country"), Countries, form.country),
                 access : choice(flagged("access"), TypedAccess, form.access),
                 tags : choice(flagged("tags"), TagTexts, form.tags),
                 clearnet : choice(linkFlagged("links_clearnet"), Clearnets, form.clearnet),
                 onion : choice(linkFlagged("links_onion"), Onions, form.onion),
                 i2p : choice(linkFlagged("links_i2p"), I2Ps, form.i2p),
                 description : choice(flagged("description"), Descriptions,
                                      form.description)] :
                Respond(request).result # {}
<1> DEFINE form == pg.form
           flagged(key) == key \in pg.errors
           linkFlagged(key) == flagged(key) \/ flagged("form")
           choice(changed, values, kept) == IF changed THEN values ELSE {kept}
           free == flagged("access")
<1>1. PICK goodName \in Names : NameRules(Trim[goodName]) = {}
  BY InputsAssumption
<1>2. PICK goodDescription \in Descriptions : DescriptionRules(Trim[goodDescription]) = {}
  BY InputsAssumption
<1>3. PICK goodCategory \in TypedCategories : Trim[goodCategory] \in Categories
  BY InputsAssumption
<1>4. PICK goodClearnet \in Clearnets : Trim[goodClearnet] \in HTTPUrls \ {NoText}
  BY InputsAssumption
<1>5. PICK goodOnion \in Onions : Trim[goodOnion] \in OnionNames \ {NoText}
  BY InputsAssumption
<1>6. PICK goodI2P \in I2Ps : Trim[goodI2P] \in I2PNames \ {NoText}
  BY InputsAssumption
<1> DEFINE name == IF flagged("name") THEN goodName ELSE form.name
           description == IF flagged("description") THEN goodDescription ELSE form.description
           category == IF flagged("category") THEN goodCategory ELSE form.category
           country == IF flagged("country") THEN NoText ELSE form.country
           clearnet == Repair(linkFlagged("links_clearnet"), free,
                              "clearnet" \in form.access, goodClearnet, form.clearnet)
           onion == Repair(linkFlagged("links_onion"), free,
                           "tor" \in form.access, goodOnion, form.onion)
           i2p == Repair(linkFlagged("links_i2p"), free,
                         "i2p" \in form.access, goodI2P, form.i2p)
           wanted == {a \in AccessTypes : \/ a = "clearnet" /\ Trim[clearnet] # NoText
                                          \/ a = "tor" /\ Trim[onion] # NoText
                                          \/ a = "i2p" /\ Trim[i2p] # NoText}
           access == IF free THEN wanted ELSE form.access
           request == [name |-> name, category |-> category, country |-> country,
                       access |-> access, tags |-> form.tags, clearnet |-> clearnet,
                       onion |-> onion, i2p |-> i2p, description |-> description]
           read == ReadSubmitForm(request)
<1>7. /\ form \in TextForms /\ form.access \subseteq AccessTypes
      /\ Trim[form.name] = form.name /\ Trim[form.description] = form.description
      /\ Trim[form.category] = form.category /\ Trim[form.country] = form.country
      /\ Trim[form.tags] = form.tags /\ Trim[form.clearnet] = form.clearnet
      /\ Trim[form.onion] = form.onion /\ Trim[form.i2p] = form.i2p
  BY DEF RejectedForm, WasRead, ReadSubmitForm
<1> HIDE DEF form, flagged
<1>8. /\ ~flagged("name") => NameRules(form.name) = {}
      /\ ~flagged("description") => DescriptionRules(form.description) = {}
      /\ ~flagged("category") => form.category \in Categories
      /\ ~flagged("country") => form.country = NoText \/ Upper[form.country] \in CountryCodes
  BY UnflaggedFit DEF form, flagged
<1>9. /\ ~flagged("access") =>
            /\ form.access # {}
            /\ "clearnet" \in form.access => form.clearnet # NoText
            /\ "tor" \in form.access => form.onion # NoText
            /\ "i2p" \in form.access => form.i2p # NoText
      /\ ~flagged("form") =>
            form.clearnet # NoText \/ form.onion # NoText \/ form.i2p # NoText
      /\ ~flagged("links_clearnet") /\ form.clearnet # NoText =>
            form.clearnet \in HTTPUrls /\ "clearnet" \in form.access
      /\ ~flagged("links_onion") /\ form.onion # NoText =>
            form.onion \in OnionNames /\ "tor" \in form.access
      /\ ~flagged("links_i2p") /\ form.i2p # NoText =>
            form.i2p \in I2PNames /\ "i2p" \in form.access
  BY UnflaggedLinks DEF form, flagged
<1>10. \A key : flagged(key) \in BOOLEAN
  BY DEF flagged
<1>11. /\ LinkFits(Trim[clearnet], HTTPUrls)
       /\ ~free => ("clearnet" \in form.access <=> Trim[clearnet] # NoText)
       /\ free /\ (linkFlagged("links_clearnet") \/ form.clearnet # NoText) => Trim[clearnet] # NoText
  <2>1. /\ linkFlagged("links_clearnet") \in BOOLEAN /\ free \in BOOLEAN
        /\ ("clearnet" \in form.access) \in BOOLEAN
        /\ ~linkFlagged("links_clearnet") /\ form.clearnet # NoText =>
              form.clearnet \in HTTPUrls /\ "clearnet" \in form.access
        /\ ~free /\ "clearnet" \in form.access => form.clearnet # NoText
    BY <1>9, <1>10
  <2> HIDE DEF linkFlagged, free
  <2> QED BY <1>4, <1>7, <2>1, TextsAssumption DEF Repair, LinkFits
<1>12. /\ LinkFits(Trim[onion], OnionNames)
       /\ ~free => ("tor" \in form.access <=> Trim[onion] # NoText)
       /\ free /\ (linkFlagged("links_onion") \/ form.onion # NoText) => Trim[onion] # NoText
  <2>1. /\ linkFlagged("links_onion") \in BOOLEAN /\ free \in BOOLEAN
        /\ ("tor" \in form.access) \in BOOLEAN
        /\ ~linkFlagged("links_onion") /\ form.onion # NoText =>
              form.onion \in OnionNames /\ "tor" \in form.access
        /\ ~free /\ "tor" \in form.access => form.onion # NoText
    BY <1>9, <1>10
  <2> HIDE DEF linkFlagged, free
  <2> QED BY <1>5, <1>7, <2>1, TextsAssumption DEF Repair, LinkFits
<1>13. /\ LinkFits(Trim[i2p], I2PNames)
       /\ ~free => ("i2p" \in form.access <=> Trim[i2p] # NoText)
       /\ free /\ (linkFlagged("links_i2p") \/ form.i2p # NoText) => Trim[i2p] # NoText
  <2>1. /\ linkFlagged("links_i2p") \in BOOLEAN /\ free \in BOOLEAN
        /\ ("i2p" \in form.access) \in BOOLEAN
        /\ ~linkFlagged("links_i2p") /\ form.i2p # NoText =>
              form.i2p \in I2PNames /\ "i2p" \in form.access
        /\ ~free /\ "i2p" \in form.access => form.i2p # NoText
    BY <1>9, <1>10
  <2> HIDE DEF linkFlagged, free
  <2> QED BY <1>6, <1>7, <2>1, TextsAssumption DEF Repair, LinkFits
<1>14. /\ clearnet \in choice(linkFlagged("links_clearnet"), Clearnets, form.clearnet)
       /\ onion \in choice(linkFlagged("links_onion"), Onions, form.onion)
       /\ i2p \in choice(linkFlagged("links_i2p"), I2Ps, form.i2p)
  BY InputsAssumption DEF Repair
<1> HIDE DEF clearnet, onion, i2p
<1>15. /\ "clearnet" \in wanted <=> Trim[clearnet] # NoText
       /\ "tor" \in wanted <=> Trim[onion] # NoText
       /\ "i2p" \in wanted <=> Trim[i2p] # NoText
       /\ wanted \subseteq AccessTypes
  BY DEF AccessTypes
<1>16. free => wanted # {}
  BY <1>9, <1>11, <1>12, <1>13, <1>15
<1> HIDE DEF wanted
<1>17. access # {} /\ access \subseteq AccessTypes
       /\ access \in choice(free, TypedAccess, form.access)
  BY <1>7, <1>9, <1>15, <1>16, InputsAssumption
<1>18. /\ "clearnet" \in access <=> Trim[clearnet] # NoText
       /\ "tor" \in access <=> Trim[onion] # NoText
       /\ "i2p" \in access <=> Trim[i2p] # NoText
  BY <1>11, <1>12, <1>13, <1>15
<1>19. ~flagged("tags")
  <2>1. TagRules(BuildResource(form).tags) = {}
    BY <1>7, ParsedTags DEF BuildResource, TextForms
  <2> QED BY <2>1, TagsFlagged DEF RejectedForm, form, flagged
<1>20. /\ name \in choice(flagged("name"), Names, form.name)
       /\ description \in choice(flagged("description"), Descriptions, form.description)
       /\ category \in choice(flagged("category"), TypedCategories, form.category)
       /\ country \in choice(flagged("country"), Countries, form.country)
       /\ form.tags \in choice(flagged("tags"), TagTexts, form.tags)
  BY <1>19, InputsAssumption
<1>21. /\ NameRules(Trim[name]) = {} /\ DescriptionRules(Trim[description]) = {}
       /\ Trim[category] \in Categories
       /\ Trim[country] = NoText \/ Upper[Trim[country]] \in CountryCodes
  BY <1>1, <1>2, <1>3, <1>7, <1>8, TextsAssumption
<1>22. /\ name \in Texts /\ description \in Texts /\ category \in Texts /\ country \in Texts
       /\ clearnet \in Texts /\ onion \in Texts /\ i2p \in Texts /\ form.tags \in Texts
  BY <1>7, <1>14, TextsAssumption, SubmissionAssumption DEF TextForms
<1> HIDE DEF name, description, category, country, access
<1>23. request \in TextForms
  BY <1>17, <1>22 DEF TextForms
<1>24. /\ read.name = Trim[name] /\ read.description = Trim[description]
       /\ read.category = Trim[category] /\ read.country = Trim[country]
       /\ read.clearnet = Trim[clearnet] /\ read.onion = Trim[onion]
       /\ read.i2p = Trim[i2p] /\ read.access = access
  BY <1>17 DEF ReadSubmitForm
<1>25. WasRead(read)
  BY <1>23, ReadForm
<1>26. request \in
          [name : choice(flagged("name"), Names, form.name),
           category : choice(flagged("category"), TypedCategories, form.category),
           country : choice(flagged("country"), Countries, form.country),
           access : choice(flagged("access"), TypedAccess, form.access),
           tags : choice(flagged("tags"), TagTexts, form.tags),
           clearnet : choice(linkFlagged("links_clearnet"), Clearnets, form.clearnet),
           onion : choice(linkFlagged("links_onion"), Onions, form.onion),
           i2p : choice(linkFlagged("links_i2p"), I2Ps, form.i2p),
           description : choice(flagged("description"), Descriptions, form.description)]
  <2> HIDE DEF choice, linkFlagged
  <2> QED BY <1>14, <1>17, <1>20
<1> HIDE DEF read
<1>27. PlainInputsFit(read) /\ LinksFit(read) /\ BoxesFit(read)
  BY <1>11, <1>12, <1>13, <1>17, <1>18, <1>21, <1>24 DEF PlainInputsFit, LinksFit, BoxesFit
<1>28. ValidateSubmission(BuildResource(read)) = {}
  BY <1>25, <1>27, FitsPasses
<1>29. Respond(request).result # {}
  BY <1>28 DEF Respond, read
<1> QED BY <1>26, <1>29 DEF form, flagged

(* Every rejected form can be put right at the inputs that carry a message:*)
(* mapFieldErrors attributes no error to an input that is fine.            *)
THEOREM ActionableCorrect == Spec => []ErrorsActionable
<1>1. PageInv => ErrorsActionable
  <2> SUFFICES ASSUME PageInv, Rejected, page # Unreadable PROVE ErrorsActionable
    BY DEF ErrorsActionable
  <2>1. RejectedForm(page)
    BY DEF PageInv, Rejected
  <2> QED BY <2>1, Correctable DEF ErrorsActionable, Flagged, LinkFlagged
<1> QED BY <1>1, PageInvariant, PTL
=============================================================================
