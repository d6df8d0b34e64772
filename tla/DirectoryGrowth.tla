--------------------------- MODULE DirectoryGrowth ---------------------------
(***************************************************************************)
(* The directory grows by an entry from the form: a moderator gives the    *)
(* accepted entry a status and stores it where the page said, and at the   *)
(* next start the loader reads it with the others.  The form and the loader*)
(* know nothing of each other.                                             *)
(***************************************************************************)
EXTENDS Submission

CONSTANT HandWritten    \* entries that maintainers write

(* No entry is without a slug.                                             *)
NoFile == [slug |-> NoText]

Bases == Slugs \cap Texts

FilesOf(dataset) == {b \in Bases : dataset[b] # NoFile}

Taken == [field |-> "slug", rule |-> "duplicate"]

Clash == [field |-> "links.clearnet", rule |-> "duplicate"]

SharesClearnet(r, other) ==
    /\ NormalizedClearnet(r) # NoText
    /\ NormalizedClearnet(r) = NormalizedClearnet(other)

SlugTwice(dataset) ==
    \E a, b \in FilesOf(dataset) :
        a # b /\ dataset[a].slug # NoText /\ dataset[a].slug = dataset[b].slug

ClearnetTwice(dataset) ==
    \E a, b \in FilesOf(dataset) : a # b /\ SharesClearnet(dataset[a], dataset[b])

(* What Load reports for a dataset, said without its loop.                 *)
LoadErrors(dataset) ==
    (UNION {Validate(dataset[b], b) : b \in FilesOf(dataset)})
    \cup (IF SlugTwice(dataset) THEN {Taken} ELSE {})
    \cup (IF ClearnetTwice(dataset) THEN {Clash} ELSE {})

(* The datasets that the tests of the repository let pass.                 *)
Datasets ==
    {d \in [Bases -> HandWritten \cup {NoFile}] : LoadErrors(d) = {}}

(* data/directory/<slug>.json, in place of a file that may be there.       *)
Publish(dataset, res, status) ==
    [dataset EXCEPT ![res.slug] = [res EXCEPT !.status = status]]

(* The form does not look at the dataset.  Whatever it has accepted, the   *)
(* next start fails for one reason only, another entry with its clearnet   *)
(* URL.  A slug is never taken twice, the later file replaces the earlier. *)
OnlyClashesRemain ==
    Accepted =>
        \A res \in page.result, status \in Statuses, dataset \in Datasets :
            res.slug # NoText =>
                LoadErrors(Publish(dataset, res, status)) =
                    IF \E b \in FilesOf(dataset) \ {res.slug} : SharesClearnet(res, dataset[b])
                    THEN {Clash} ELSE {}
=============================================================================
