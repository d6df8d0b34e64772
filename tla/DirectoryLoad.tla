---------------------------- MODULE DirectoryLoad ----------------------------
(***************************************************************************)
(* Load of internal/directory/load.go: the loop over the data files that   *)
(* either builds the directory's store or reports every problem found.     *)
(* File number f is the f-th in the order of the names; Base[f] is its     *)
(* name without .json.                                                     *)
(***************************************************************************)
EXTENDS DirectoryPages, FiniteSets

CONSTANTS
    FileCount,      \* number of files that match directory/*.json
    Base,           \* their base names, all different
    Entries,        \* the entries a file can decode to
    NoEntry,        \* why a file gives none: it cannot be read, it is no JSON
                    \* object of known fields, or data follows the object
    Before(_, _)    \* the order of two entries in the store: (name, slug)

Files == 1 .. FileCount

ASSUME FilesAssumption ==
    /\ FileCount \in Nat
    /\ Base \in [Files -> Texts]
    /\ \A f, g \in Files : f # g => Base[f] # Base[g]
    /\ NoEntry \cap Entries = {}
    /\ \A e \in Entries : e.slug \in Texts /\ NormalizedClearnet(e) \in Texts

(* JSON decodes access into a list.                                        *)
ASSUME AccessAssumption == \A e \in Entries : e.access \in Seq(STRING)

(* A strict order by name, then slug: it tells entries with different slugs*)
(* apart.                                                                  *)
ASSUME OrderAssumption ==
    /\ \A d \in Entries : ~Before(d, d)
    /\ \A c, d, e \in Entries : Before(c, d) /\ Before(d, e) => Before(c, e)
    /\ \A d, e \in Entries : d.slug # e.slug => Before(d, e) \/ Before(e, d)

VARIABLES
    dataset,        \* what is in each file: an entry, or why there is none
    p,              \* the file whose turn it is
    errs,           \* the errors so far, each with its file
    resources,      \* the files whose entry had no error
    slugToFile,     \* the first file seen with a slug, 0 if there is none
    clearnetToFile, \* the first file seen with a clearnet URL
    result,         \* what Load returned: "none" yet, "error" or "store"
    all             \* the store's entries, in its order

loadVars == <<dataset, p, errs, resources, slugToFile, clearnetToFile, result, all>>

Decoded(f) == dataset[f] \notin NoEntry

LoadInit ==
    /\ dataset \in [Files -> Entries \cup NoEntry]
    /\ p = 1
    /\ errs = {}
    /\ resources = {}
    /\ slugToFile = [t \in Texts |-> 0]
    /\ clearnetToFile = [t \in Texts |-> 0]
    /\ result = "none"
    /\ all = <<>>

-----------------------------------------------------------------------------
(* reading file, invalid JSON, trailing data: one error, and on.           *)
SkipFile ==
    /\ p \in Files
    /\ ~Decoded(p)
    /\ errs' = errs \cup {[file |-> p, field |-> "file", rule |-> dataset[p]]}
    /\ p' = p + 1
    /\ UNCHANGED <<dataset, resources, slugToFile, clearnetToFile, result, all>>

Registered(map, key) == key # NoText /\ map[key] # 0

Register(map, key, f) ==
    IF key # NoText /\ map[key] = 0 THEN [map EXCEPT ![key] = f] ELSE map

(* Mutant of EntryErrors: the clearnet URLs are not compared.              *)
EntryErrorsSlugOnly(e, f) ==
    Validate(e, Base[f])
    \cup When(Registered(slugToFile, e.slug), "slug", "duplicate")

(* The errors of one entry: its own, and what it shares with files before. *)
EntryErrors(e, f) ==
    Validate(e, Base[f])
    \cup When(Registered(slugToFile, e.slug), "slug", "duplicate")
    \cup When(Registered(clearnetToFile, NormalizedClearnet(e)), "links.clearnet", "duplicate")

(* Mutant of CheckFile: only an entry without errors claims its keys.      *)
CheckFileClaimIfGood ==
    /\ p \in Files
    /\ Decoded(p)
    /\ LET e == dataset[p]
           fieldErrs == EntryErrors(e, p)
       IN  /\ errs' = errs \cup {[file |-> p, field |-> fe.field, rule |-> fe.rule] :
                                    fe \in fieldErrs}
           /\ resources' = IF fieldErrs = {} THEN resources \cup {p} ELSE resources
           /\ slugToFile' =
                IF fieldErrs = {} THEN Register(slugToFile, e.slug, p) ELSE slugToFile
           /\ clearnetToFile' =
                IF fieldErrs = {} THEN Register(clearnetToFile, NormalizedClearnet(e), p)
                ELSE clearnetToFile
    /\ p' = p + 1
    /\ UNCHANGED <<dataset, result, all>>

(* An entry claims its slug and its URL even when it is itself rejected.   *)
CheckFile ==
    /\ p \in Files
    /\ Decoded(p)
    /\ LET e == dataset[p]
           fieldErrs == EntryErrors(e, p)
       IN  /\ errs' = errs \cup {[file |-> p, field |-> fe.field, rule |-> fe.rule] :
                                    fe \in fieldErrs}
           /\ resources' = IF fieldErrs = {} THEN resources \cup {p} ELSE resources
           /\ slugToFile' = Register(slugToFile, e.slug, p)
           /\ clearnetToFile' = Register(clearnetToFile, NormalizedClearnet(e), p)
    /\ p' = p + 1
    /\ UNCHANGED <<dataset, result, all>>

(* Mutant of SortedStore: the entries in the order of their files.         *)
SortedStoreByFile(files) ==
    LET rank(f) == 1 + Cardinality({g \in files : g < f})
    IN  [k \in 1 .. Cardinality(files) |->
            dataset[CHOOSE f \in files : rank(f) = k]]

(* newStore: the entries sorted by (name, slug), a strict order because no *)
(* two have one slug.                                                      *)
SortedStore(files) ==
    LET rank(f) == 1 + Cardinality({g \in files : Before(dataset[g], dataset[f])})
    IN  [k \in 1 .. Cardinality(files) |->
            dataset[CHOOSE f \in files : rank(f) = k]]

(* BySlug: the map holds the last entry that newStore put under a slug.    *)
BySlug(slug) ==
    LET found == {k \in DOMAIN all : all[k].slug = slug}
    IN  all[CHOOSE k \in found : \A j \in found : j <= k]

Return ==
    /\ p = FileCount + 1
    /\ result = "none"
    /\ IF errs = {}
       THEN result' = "store" /\ all' = SortedStore(resources)
       ELSE result' = "error" /\ UNCHANGED all
    /\ UNCHANGED <<dataset, p, errs, resources, slugToFile, clearnetToFile>>

(* Load has returned.                                                      *)
Done == result # "none" /\ UNCHANGED loadVars

LoadNext == SkipFile \/ CheckFile \/ Return \/ Done

LoadSpec == LoadInit /\ [][LoadNext]_loadVars

-----------------------------------------------------------------------------
(* What is wrong with a file, said without the loop: it holds no entry, or *)
(* one that breaks a rule, or shares a slug or a clearnet URL with a file  *)
(* before it.                                                              *)
SameKey(f, g) ==
    \/ dataset[f].slug = dataset[g].slug /\ dataset[f].slug # NoText
    \/ /\ NormalizedClearnet(dataset[f]) = NormalizedClearnet(dataset[g])
       /\ NormalizedClearnet(dataset[f]) # NoText

Bad(f) ==
    \/ ~Decoded(f)
    \/ Validate(dataset[f], Base[f]) # {}
    \/ \E g \in 1 .. (f - 1) : Decoded(g) /\ SameKey(f, g)

LoadTypeOK ==
    /\ dataset \in [Files -> Entries \cup NoEntry]
    /\ p \in 1 .. (FileCount + 1)
    /\ \A err \in errs : err.file \in Files
    /\ resources \subseteq Files
    /\ slugToFile \in [Texts -> 0 .. FileCount]
    /\ clearnetToFile \in [Texts -> 0 .. FileCount]
    /\ result \in {"none", "error", "store"}

(* "Aggregating every problem": the files named in the errors are exactly  *)
(* the bad ones among those seen, none hidden by an error before it and    *)
(* none blamed for another's; the others are what will be stored.          *)
BlamesExactlyTheBad ==
    \A f \in 1 .. (p - 1) :
        /\ Bad(f) <=> \E err \in errs : err.file = f
        /\ f \in resources <=> ~Bad(f)

(* "If any record is invalid, no Store is returned", and only then.        *)
StoreOnlyIfAllGood ==
    result # "none" => (result = "error" <=> \E f \in Files : Bad(f))

(* The store holds every file's entry once, in the strict order of (name,  *)
(* slug) that all its readers rely on, and finds each under its slug.      *)
StoreHoldsAll ==
    result = "store" =>
        /\ Len(all) = FileCount
        /\ {all[k] : k \in DOMAIN all} = {dataset[f] : f \in Files}
        /\ \A j, k \in DOMAIN all : j < k => Before(all[j], all[k])
        /\ \A k \in DOMAIN all : BySlug(all[k].slug) = all[k]

(* Whatever loads is shown consistently, the rules of validate alone see to*)
(* it: the list and the entry's page offer the same links.                 *)
StoredPagesAgree == result = "store" => \A k \in DOMAIN all : PageAgrees(all[k])
=============================================================================
