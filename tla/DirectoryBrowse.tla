--------------------------- MODULE DirectoryBrowse ---------------------------
(***************************************************************************)
(* The directory list at /dir with its filters, its search and the links   *)
(* that remove one choice: internal/web/directory_filters.go and the forms *)
(* of filter-sidebar.html and dir-search.html.                             *)
(*                                                                         *)
(* The server keeps nothing: the query in the address bar is the state,    *)
(* and the links and forms of the page it yields are the actions.  A query *)
(* (url.Values) is the set of its pairs <<key, value>>.                    *)
(***************************************************************************)
EXTENDS DirectoryEnums, SearchText

CONSTANTS
    Resources,      \* the store's entries, in its order
    Texts,          \* what can stand in q
    Strays,         \* pairs <<facet, value>> whose value is not known
    Contains(_, _)  \* whether an entry's name, description, tags or category
                    \* contain a term

Facets == {"category", "status", "kyc", "access"}

(* Store.Categories: those that some entry has.                            *)
PresentCategories == {Resources[k].category : k \in DOMAIN Resources}

(* The values that are known for a facet.                                  *)
Known(facet) ==
    CASE facet = "category" -> PresentCategories
      [] facet = "status" -> Statuses
      [] facet = "kyc" -> {"no", "yes"}
      [] facet = "access" -> AccessTypes

Choices == UNION {{facet} \X Known(facet) : facet \in Facets}

Pairs ==
    Choices \cup Strays \cup ({"q"} \X Texts)

ASSUME ResourcesAssumption ==
    Resources \in Seq({Resources[k] : k \in DOMAIN Resources})

ASSUME BrowseAssumption ==
    /\ NoText \in Texts
    /\ \A t \in Texts : t \in Seq({t[i] : i \in DOMAIN t})
    /\ \A t \in Texts : Cap(Trim(t)) \in Texts
    /\ Strays \cap Choices = {}
    /\ \A stray \in Strays : stray[1] \in Facets

VARIABLE query

-----------------------------------------------------------------------------
(* parseSelection: unknown values are dropped.                             *)
Selection(qry) == qry \cap Choices

Chosen(qry, facet) == {v \in Known(facet) : <<facet, v>> \in Selection(qry)}

(* parseSearch: q trimmed and cut, and its first terms.                    *)
ParseSearch == [t \in Texts |-> SearchSpec(t)]

Typed(qry) ==
    IF \E t \in Texts : <<"q", t>> \in qry
    THEN CHOOSE t \in Texts : <<"q", t>> \in qry
    ELSE NoText

Raw(qry) == ParseSearch[Typed(qry)].raw

Terms(qry) == ParseSearch[Typed(qry)].terms

Searching(qry) == Terms(qry) # <<>>

(* The values of an entry that a facet looks at.                           *)
ValuesOf(r, facet) ==
    CASE facet = "category" -> {r.category}
      [] facet = "status" -> {r.status}
      [] facet = "kyc" -> {IF r.kyc THEN "yes" ELSE "no"}
      [] facet = "access" -> {r.access[k] : k \in DOMAIN r.access}

(* Mutant of MatchesFacets: a facet without a choice matches nothing.      *)
MatchesFacetsNoneEmpty(r, qry) ==
    \A facet \in Facets : ValuesOf(r, facet) \cap Chosen(qry, facet) # {}

(* selection.match: any choice within a facet, all facets together.        *)
MatchesFacets(r, qry) ==
    \A facet \in Facets :
        \/ Chosen(qry, facet) = {}
        \/ ValuesOf(r, facet) \cap Chosen(qry, facet) # {}

(* searchSpec.match: every term.                                           *)
MatchesSearch(r, qry) ==
    \A n \in DOMAIN Terms(qry) : Contains(r, Terms(qry)[n])

(* buildDirectoryView: the entries that match both, in the store's order. *)
Matching(qry) ==
    {k \in DOMAIN Resources :
        MatchesFacets(Resources[k], qry) /\ MatchesSearch(Resources[k], qry)}

Rows(qry) == Sublist(Resources, Matching(qry))

(* The boxes of the sidebar: a status only if some entry has it.           *)
Boxes ==
    {box \in Choices :
        box[1] = "status" =>
            \E k \in DOMAIN Resources : Resources[k].status = box[2]}

Checked(qry) == Boxes \cap Selection(qry)

(* Mutant of Count: the number among the rows that are shown.              *)
CountShown(qry, box) ==
    Cardinality({k \in DOMAIN Rows(qry) : box[2] \in ValuesOf(Rows(qry)[k], box[1])})

(* The number beside a box, over the whole dataset.                        *)
Count(qry, box) ==
    Cardinality({k \in DOMAIN Resources : box[2] \in ValuesOf(Resources[k], box[1])})

(* selection.values: a query made anew from what was understood.           *)
Values(qry) == Selection(qry)

(* stateValues: the query in its canonical form.                           *)
Canonical(qry) ==
    Values(qry) \cup (IF Searching(qry) THEN {<<"q", Raw(qry)>>} ELSE {})

(* Mutant of Pills: only choices that have a box in the sidebar.           *)
PillsOfBoxes(qry) ==
    Checked(qry) \cup (IF Searching(qry) THEN {<<"q", Raw(qry)>>} ELSE {})

(* The pills above the list: one for each pair of the canonical query.     *)
Pills(qry) == Canonical(qry)

(* Mutant of RemoveURL: the key goes with all its values.                  *)
RemoveURLKey(current, pill) == {pair \in current : pair[1] # pill[1]}

(* removeURL: the pair is removed, the others stay.                        *)
RemoveURL(current, pill) == {pair \in current : pair # pill}

(* Mutant of FacetHiddenInputs: the search form knows three facets only.   *)
FacetHiddenInputsNoKYC(qry) == {pair \in Values(qry) : pair[1] # "kyc"}

(* The hidden inputs of the search form: every facet value, without q.     *)
FacetHiddenInputs(qry) == Values(qry)

Filtered(qry) == Selection(qry) # {} \/ Searching(qry)

-----------------------------------------------------------------------------
Init == query = {}

(* A link from elsewhere: any values, also those of another dataset.       *)
Visit ==
    /\ query = {}
    /\ \E choices \in SUBSET (Choices \cup Strays), text \in Texts :
          query' = choices \cup {<<"q", text>>}

RemovePill(pill) ==
    /\ pill \in Pills(query)
    /\ query' = RemoveURL(Canonical(query), pill)

(* "Clear all" and "Reset filters".                                        *)
Clear == query' = {}

(* The search form; what is selected rides along in hidden inputs.         *)
SubmitSearch(text) ==
    query' = {<<"q", text>>} \cup FacetHiddenInputs(query)

(* The sidebar's form after one box was clicked; q is a hidden input.      *)
Toggled(boxes, box) == IF box \in boxes THEN boxes \ {box} ELSE boxes \cup {box}

ApplyFilters(box) ==
    query' = {<<"q", Raw(query)>>} \cup Toggled(Checked(query), box)

Next ==
    \/ Visit
    \/ \E pill \in Pairs : RemovePill(pill)
    \/ Clear
    \/ \E text \in Texts : SubmitSearch(text)
    \/ \E box \in Boxes : ApplyFilters(box)

Spec == Init /\ [][Next]_query

-----------------------------------------------------------------------------
(* A query has known keys and at most one text, so that q.Get and the      *)
(* forms, each of which sends q once, speak of the same search.            *)
TypeOK ==
    /\ query \subseteq Pairs
    /\ \A t, u \in Texts : {<<"q", t>>, <<"q", u>>} \subseteq query => t = u

(* A pill's link takes away its own choice and nothing else: the others,   *)
(* and the terms of the search, though its text was cut and is parsed      *)
(* again, stay as they were.                                               *)
PillRemovesOne ==
    [][\A pill \in Pairs : RemovePill(pill) =>
          /\ Selection(query') = Selection(query) \ {pill}
          /\ Terms(query') = IF pill[1] = "q" THEN <<>> ELSE Terms(query)]_query

(* "Searching preserves filters", and filtering preserves the search; of   *)
(* the boxes only the one that was clicked changes.                        *)
FormsKeepTheRest ==
    [][/\ \A text \in Texts : SubmitSearch(text) =>
             Selection(query') = Selection(query)
       /\ \A box \in Boxes : ApplyFilters(box) =>
             /\ Terms(query') = Terms(query)
             /\ Checked(query') = Toggled(Checked(query), box)]_query

(* The pill is the search, or the only choice of its facet.                *)
LastOfFacet(qry, pill) ==
    \/ pill[1] = "q"
    \/ Cardinality(Chosen(qry, pill[1])) = 1

RowsSubset(narrow, wide) ==
    \A k \in DOMAIN Rows(narrow) :
        \E n \in DOMAIN Rows(wide) : Rows(wide)[n] = Rows(narrow)[k]

(* "Try removing a filter or two to broaden the results": taking away the  *)
(* search, or the last choice of a facet, loses no row.                    *)
RemovingWidens ==
    [][\A pill \in Pairs :
          (RemovePill(pill) /\ LastOfFacet(query, pill)) => RowsSubset(query, query')]_query

(* The number beside a box is what a visitor finds who checks it alone,    *)
(* whatever is selected now.                                               *)
CountsHonest == \A box \in Boxes : Count(query, box) = Len(Rows({box}))

(* A list that lacks an entry has a pill to remove, and the page says that *)
(* it is filtered; without pills everything is shown.                      *)
ShorterListHasPills ==
    /\ Filtered(query) <=> Pills(query) # {}
    /\ Pills(query) = {} => Rows(query) = Resources
=============================================================================
