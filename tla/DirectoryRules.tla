---------------------------- MODULE DirectoryRules ----------------------------
(***************************************************************************)
(* The rules for one entry of the resource directory: checkCommon,         *)
(* validate and the small predicates they use (internal/directory/load.go).*)
(* A rule that is broken is a FieldError; its wording is left out, and the *)
(* errors of an entry form a set.                                          *)
(*                                                                         *)
(* Texts are values of the constant Texts; what the code asks of them      *)
(* (length, trimmed form, lower case, the shape of a URL or a slug) is     *)
(* given by constants too, so that the rules hold for any texts.           *)
(***************************************************************************)
EXTENDS DirectoryEnums, Naturals, Sequences

CONSTANTS
    Texts,              \* every text an entry can hold
    NoText,             \* the empty text
    Null,               \* JSON null, a nil pointer
    Runes,              \* utf8.RuneCountInString
    Trim,               \* strings.TrimSpace
    Slugs,              \* texts that slugRe matches
    LowerCase,          \* texts equal to their lower case
    HTTPUrls,           \* trimmed texts that validHTTPURL accepts
    OnionNames,         \* trimmed texts that end with .onion
    I2PNames,           \* trimmed texts that end with .i2p
    CountryCodes,       \* texts that countryRe matches
    MaxNameLen, MaxDescriptionLen

ASSUME TextsAssumption ==
    /\ NoText \in Texts
    /\ Trim \in [Texts -> Texts]
    /\ Trim[NoText] = NoText
    /\ NoText \notin Slugs \cup Categories
    /\ NoText \in LowerCase
    /\ Null \notin Texts

NonEmpty(link) == link # Null /\ Trim[link] # NoText

NormalizedClearnet(r) ==
    IF NonEmpty(r.links.clearnet) THEN Trim[r.links.clearnet] ELSE NoText

HasAccess(access, a) == \E k \in DOMAIN access : access[k] = a

Repeats(s) == \E j, k \in DOMAIN s : j < k /\ s[j] = s[k]

When(broken, field, rule) ==
    IF broken THEN {[field |-> field, rule |-> rule]} ELSE {}

NameRules(name) ==
    When(name = NoText, "name", "empty")
    \cup When(Runes[name] > MaxNameLen, "name", "too long")

DescriptionRules(description) ==
    When(description = NoText, "description", "empty")
    \cup When(Runes[description] > MaxDescriptionLen, "description", "too long")

CategoryRules(category) == When(category \notin Categories, "category", "unknown")

AccessRules(access) ==
    When(access = <<>>, "access", "empty")
    \cup When(\E k \in DOMAIN access : access[k] \notin AccessTypes, "access", "unknown")
    \cup When(Repeats(access), "access", "repeated")

CountryRules(country) ==
    When(country # Null /\ country \notin CountryCodes, "country", "no code")

LinkRules(links) ==
    When(~NonEmpty(links.clearnet) /\ ~NonEmpty(links.onion) /\ ~NonEmpty(links.i2p),
         "links", "none")
    \cup When(NonEmpty(links.clearnet) /\ Trim[links.clearnet] \notin HTTPUrls,
              "links.clearnet", "no URL")
    \cup When(NonEmpty(links.onion) /\ Trim[links.onion] \notin OnionNames,
              "links.onion", "suffix")
    \cup When(NonEmpty(links.i2p) /\ Trim[links.i2p] \notin I2PNames,
              "links.i2p", "suffix")

(* Each kind of access goes with its link, and each link with its access.  *)
AccessMatchesLink(access, a, link, field) ==
    When(HasAccess(access, a) /\ ~NonEmpty(link), "access", "no link for " \o a)
    \cup When(NonEmpty(link) /\ ~HasAccess(access, a), field, "no access")

TagRules(tags) ==
    When(\E k \in DOMAIN tags : tags[k] = NoText, "tags", "empty")
    \cup When(\E k \in DOMAIN tags : tags[k] \notin LowerCase, "tags", "case")
    \cup When(Repeats(tags), "tags", "repeated")

CheckCommon(r) ==
    NameRules(r.name)
    \cup DescriptionRules(r.description)
    \cup CategoryRules(r.category)
    \cup AccessRules(r.access)
    \cup CountryRules(r.country)
    \cup LinkRules(r.links)
    \cup AccessMatchesLink(r.access, "clearnet", r.links.clearnet, "links.clearnet")
    \cup AccessMatchesLink(r.access, "tor", r.links.onion, "links.onion")
    \cup AccessMatchesLink(r.access, "i2p", r.links.i2p, "links.i2p")
    \cup TagRules(r.tags)

(* Mutant of ValidateSubmission: the form keeps a list of rules of its own, *)
(* and one was forgotten.                                                  *)
ValidateSubmissionDrifted(r) ==
    {fe \in CheckCommon(r) : fe.field # "links.onion"}

(* The rules of a submission are those of the dataset without the slug and *)
(* the status.                                                             *)
ValidateSubmission(r) == CheckCommon(r)

Validate(r, fileBase) ==
    CheckCommon(r)
    \cup When(r.slug = NoText, "slug", "empty")
    \cup When(r.slug # NoText /\ r.slug \notin Slugs, "slug", "pattern")
    \cup When(r.slug # NoText /\ r.slug # fileBase, "slug", "not the file name")
    \cup When(r.status \notin Statuses, "status", "unknown")
=============================================================================
