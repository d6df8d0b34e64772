----------------------------- MODULE Submission -----------------------------
(***************************************************************************)
(* The /submit form: submitGet and submitPost of internal/web/submit.go,   *)
(* seen by one visitor who corrects the form until it is accepted.  The    *)
(* server keeps nothing between two requests: the only state is the page   *)
(* the visitor has, and a page that reports errors is also the form that   *)
(* is posted next, with some inputs changed.                               *)
(*                                                                         *)
(* KYC is left out (any value is accepted), and so is the branch for an    *)
(* entry that cannot be marshalled: strings, lists and pointers always can.*)
(***************************************************************************)
EXTENDS DirectoryPages, Sublists

CONSTANTS
    Upper, Lower,   \* strings.ToUpper, strings.ToLower
    Slugify,        \* slugify: a slug, or no text if nothing can be kept
    Split,          \* strings.Split(_, ","), each part trimmed
    Names, TypedCategories, Countries, TagTexts,
    Clearnets, Onions, I2Ps, Descriptions,
                    \* what a visitor types into each input
    TypedAccess,    \* the sets of access values that are sent
    NoPage          \* before the first request

(* A request's fields, as they were sent.                                  *)
Requests ==
    [name : Names, category : TypedCategories, country : Countries,
     access : TypedAccess, tags : TagTexts, clearnet : Clearnets,
     onion : Onions, i2p : I2Ps, description : Descriptions]

ASSUME SubmissionAssumption ==
    /\ \A typed \in {Names, TypedCategories, Countries, TagTexts, Clearnets,
                     Onions, I2Ps, Descriptions} : typed \subseteq Texts
    /\ \A t \in Texts : Trim[Trim[t]] = Trim[t]
    /\ Upper \in [Texts -> Texts]
    /\ Lower \in [Texts -> LowerCase \cap Texts]
    /\ \A t \in Texts : Lower[t] = NoText <=> t = NoText
    /\ Slugify \in [Texts -> (Slugs \cap Texts) \cup {NoText}]
    /\ Split \in [Texts -> Seq({Trim[t] : t \in Texts})]

(* A visitor can fill in each input well, and can leave those empty that   *)
(* may be.                                                                 *)
ASSUME InputsAssumption ==
    /\ \E t \in Names : NameRules(Trim[t]) = {}
    /\ \E t \in Descriptions : DescriptionRules(Trim[t]) = {}
    /\ \E t \in TypedCategories : Trim[t] \in Categories
    /\ \E t \in Clearnets : Trim[t] \in HTTPUrls \ {NoText}
    /\ \E t \in Onions : Trim[t] \in OnionNames \ {NoText}
    /\ \E t \in I2Ps : Trim[t] \in I2PNames \ {NoText}
    /\ NoText \in Countries \cap Clearnets \cap Onions \cap I2Ps
    /\ (SUBSET AccessTypes) \ {{}} \subseteq TypedAccess

VARIABLE page

-----------------------------------------------------------------------------
(* Mutant of ReadSubmitForm: the texts are kept as they were typed.        *)
ReadSubmitFormAsTyped(request) ==
    [request EXCEPT !.access = @ \cap AccessTypes]

(* readSubmitForm: every text trimmed, unknown kinds of access dropped.    *)
ReadSubmitForm(request) ==
    [name |-> Trim[request.name],
     category |-> Trim[request.category],
     country |-> Trim[request.country],
     access |-> request.access \cap AccessTypes,
     tags |-> Trim[request.tags],
     clearnet |-> Trim[request.clearnet],
     onion |-> Trim[request.onion],
     i2p |-> Trim[request.i2p],
     description |-> Trim[request.description]]

(* Mutant of ParseTags: a tag is compared with the earlier ones as typed.  *)
ParseTagsAsTyped(text) ==
    LET parts == Split[text]
        tags == [k \in DOMAIN parts |-> Lower[parts[k]]]
        new == {k \in DOMAIN parts :
                  parts[k] # NoText /\ \A j \in 1 .. (k - 1) : parts[j] # parts[k]}
    IN  IF Trim[text] = NoText THEN <<>> ELSE Sublist(tags, new)

(* parseTags: the parts in lower case, the empty and the repeated dropped. *)
ParseTags(text) ==
    LET parts == Split[text]
        tags == [k \in DOMAIN parts |-> Lower[parts[k]]]
        new == {k \in DOMAIN tags :
                  tags[k] # NoText /\ \A j \in 1 .. (k - 1) : tags[j] # tags[k]}
    IN  IF Trim[text] = NoText THEN <<>> ELSE Sublist(tags, new)

Optional(text) == IF text = NoText THEN Null ELSE text

(* The access of the form in the order of directory.AccessTypes.           *)
AccessOf(form) ==
    LET ticked(a) == IF a \in form.access THEN <<a>> ELSE <<>>
    IN  ticked("clearnet") \o ticked("tor") \o ticked("i2p")

BuildResource(form) ==
    [slug |-> Slugify[form.name],
     name |-> form.name,
     category |-> form.category,
     status |-> "pending",
     country |-> IF form.country = NoText THEN Null ELSE Upper[form.country],
     access |-> AccessOf(form),
     tags |-> ParseTags(form.tags),
     links |-> [clearnet |-> Optional(form.clearnet),
                onion |-> Optional(form.onion),
                i2p |-> Optional(form.i2p)],
     description |-> form.description]

(* Mutant of FieldErrorKey: the country has no key of its own.             *)
FieldErrorKeyNoCountry(field) ==
    CASE field \in {"name", "slug"} -> "name"
      [] field = "links.clearnet" -> "links_clearnet"
      [] field = "links.onion" -> "links_onion"
      [] field = "links.i2p" -> "links_i2p"
      [] field \in {"description", "category", "access", "tags"} -> field
      [] OTHER -> "form"

(* fieldErrorKey, and "form" for a field it does not name.                 *)
FieldErrorKey(field) ==
    CASE field \in {"name", "slug"} -> "name"
      [] field = "links.clearnet" -> "links_clearnet"
      [] field = "links.onion" -> "links_onion"
      [] field = "links.i2p" -> "links_i2p"
      [] field \in {"description", "category", "country", "access", "tags"} -> field
      [] OTHER -> "form"

(* mapFieldErrors: the inputs that get a message; which one is left out.   *)
MapFieldErrors(errs) == {FieldErrorKey(fe.field) : fe \in errs}

-----------------------------------------------------------------------------
EmptyForm ==
    [name |-> NoText, category |-> NoText, country |-> NoText, access |-> {},
     tags |-> NoText, clearnet |-> NoText, onion |-> NoText, i2p |-> NoText,
     description |-> NoText]

Fresh == [status |-> 200, form |-> EmptyForm, errors |-> {}, result |-> {}]

Unreadable == [Fresh EXCEPT !.status = 400, !.errors = {"form"}]

(* Mutant of Respond: the rejected form comes back without its boxes.      *)
RespondBoxesLost(request) ==
    LET form == ReadSubmitForm(request)
        res  == BuildResource(form)
        errs == ValidateSubmission(res)
    IN  IF errs # {}
        THEN [status |-> 400, form |-> [form EXCEPT !.access = {}],
              errors |-> MapFieldErrors(errs), result |-> {}]
        ELSE [status |-> 200, form |-> EmptyForm, errors |-> {}, result |-> {res}]

(* submitPost after ParseForm: the page for a request.                     *)
Respond(request) ==
    LET form == ReadSubmitForm(request)
        res  == BuildResource(form)
        errs == ValidateSubmission(res)
    IN  IF errs # {}
        THEN [status |-> 400, form |-> form,
              errors |-> MapFieldErrors(errs), result |-> {}]
        ELSE [status |-> 200, form |-> EmptyForm, errors |-> {}, result |-> {res}]

(* What the browser has in the inputs of a page: the template selects no   *)
(* category but a known one.                                               *)
Shown(form) ==
    [form EXCEPT !.category = IF @ \in Categories THEN @ ELSE NoText]

(* Requests that differ from what a page shows in one input.               *)
Edits(form) ==
    {[form EXCEPT !.name = v] : v \in Names}
    \cup {[form EXCEPT !.category = v] : v \in TypedCategories}
    \cup {[form EXCEPT !.country = v] : v \in Countries}
    \cup {[form EXCEPT !.access = v] : v \in TypedAccess}
    \cup {[form EXCEPT !.tags = v] : v \in TagTexts}
    \cup {[form EXCEPT !.clearnet = v] : v \in Clearnets}
    \cup {[form EXCEPT !.onion = v] : v \in Onions}
    \cup {[form EXCEPT !.i2p = v] : v \in I2Ps}
    \cup {[form EXCEPT !.description = v] : v \in Descriptions}

Accepted == page # NoPage /\ page.result # {}

Rejected == page # NoPage /\ page.errors # {}

Init == page = NoPage

SubmitGet == page' = Fresh

(* The first post, with all the inputs filled in.                          *)
SubmitPost ==
    /\ page = Fresh
    /\ \E request \in Requests : page' = Respond(request)

(* The body cannot be parsed: the form comes back empty.                   *)
SubmitPostUnreadable ==
    /\ page # NoPage
    /\ page.result = {}
    /\ page' = Unreadable

(* A rejected form is posted again after one input was changed.            *)
SubmitPostAgain ==
    /\ Rejected
    /\ \E request \in Edits(Shown(page.form)) : page' = Respond(request)

Next == SubmitGet \/ SubmitPost \/ SubmitPostUnreadable \/ SubmitPostAgain

Spec == Init /\ [][Next]_page

-----------------------------------------------------------------------------
TypeOK ==
    page # NoPage =>
        /\ page.status \in {200, 400}
        /\ page.form.access \subseteq AccessTypes
        /\ page.errors \subseteq
             {"form", "name", "category", "country", "access", "tags",
              "links_clearnet", "links_onion", "links_i2p", "description"}
        /\ (page.result # {}) => (page.errors = {} /\ page.status = 200)

(* "The same rules as the dataset loader": an entry the form accepts and   *)
(* that got a slug passes validate once a moderator has given it a status  *)
(* and stored it under the name shown, data/directory/<slug>.json.         *)
AcceptedWillLoad ==
    Accepted =>
        \A res \in page.result, status \in Statuses :
            res.slug # NoText =>
                Validate([res EXCEPT !.status = status], res.slug) = {}

(* An accepted entry with a clearnet URL can be opened from the list: the  *)
(* link that the rules accept trimmed is also trimmed when html/template   *)
(* looks at it, and the list and the entry's page offer the same links.    *)
AcceptedLinksOpen ==
    Accepted =>
        \A res \in page.result :
            /\ PageAgrees(res)
            /\ NonEmpty(res.links.clearnet) => Row(res).open \in Absolute

(* No tags a visitor can type are refused: what parseTags leaves is in the *)
(* form checkCommon asks for.                                              *)
TagsNeverRefused == Rejected => "tags" \notin page.errors

(* "The user's values preserved": posting a rejected page again as it came *)
(* back is rejected for the same reasons and shows the same page; nothing  *)
(* that was entered is lost or changed on the way through the form.        *)
RejectionIsStable ==
    (Rejected /\ page # Unreadable) =>
        LET again == Respond(Shown(page.form))
        IN  /\ again.errors = page.errors
            /\ Shown(again.form) = Shown(page.form)

(* The inputs a page tells the visitor to look at; "form" stands for the   *)
(* links, of which none was given.                                         *)
Flagged(key) == key \in page.errors

LinkFlagged(key) == Flagged(key) \/ Flagged("form")

(* A rejected form can always be put right by changing only the inputs     *)
(* that carry a message: no error is attributed to an input that is fine   *)
(* while the one that is wrong looks accepted.                             *)
ErrorsActionable ==
    (Rejected /\ page # Unreadable) =>
        LET shown == page.form
            choice(flagged, values, kept) == IF flagged THEN values ELSE {kept}
        IN  \E request \in
                [name : choice(Flagged("name"), Names, shown.name),
                 category : choice(Flagged("category"), TypedCategories, shown.category),
                 country : choice(Flagged("country"), Countries, shown.country),
                 access : choice(Flagged("access"), TypedAccess, shown.access),
                 tags : choice(Flagged("tags"), TagTexts, shown.tags),
                 clearnet : choice(LinkFlagged("links_clearnet"), Clearnets, shown.clearnet),
                 onion : choice(LinkFlagged("links_onion"), Onions, shown.onion),
                 i2p : choice(LinkFlagged("links_i2p"), I2Ps, shown.i2p),
                 description : choice(Flagged("description"), Descriptions,
                                      shown.description)] :
                Respond(request).result # {}

(* The comment of slugify: when it returns no slug, "the name's own        *)
(* validation then reports the real problem", so that an accepted entry    *)
(* has one.                                                                *)
AcceptedHasSlug == Accepted => \A res \in page.result : res.slug # NoText
=============================================================================
