--------------------------- MODULE MCDirectoryLoad ---------------------------
(***************************************************************************)
(* DirectoryLoad for TLC: three files and entries that differ in the ways  *)
(* the loop can tell apart.                                                *)
(***************************************************************************)
EXTENDS DirectoryLoad, TLC

MCTexts == {"", "a", "b", "c", "X", "http://1", " http://1", "http://2", "u.onion", "Long"}

MCTrim == [t \in MCTexts |-> IF t = " http://1" THEN "http://1" ELSE t]

MCRunes == [t \in MCTexts |-> IF t = "" THEN 0 ELSE IF t = "Long" THEN 9 ELSE 1]

MCBase == <<"a", "b", "c">>

Entry(slug, name, clearnet, status) ==
    [slug |-> slug, name |-> name, category |-> "tool", status |-> status,
     country |-> Null,
     access |-> IF clearnet = Null THEN <<"tor">> ELSE <<"clearnet">>,
     tags |-> <<"a">>,
     links |-> [clearnet |-> clearnet,
                onion |-> IF clearnet = Null THEN "u.onion" ELSE Null,
                i2p |-> Null],
     description |-> "a"]

MCEntries ==
    {Entry("a", "b", "http://1", "verified"),
     Entry("b", "a", "http://2", "admitted"),
     Entry("b", "b", " http://1", "verified"),
     Entry("c", "b", Null, "scam"),
     Entry("c", "Long", Null, "scam"),
     Entry("c", "a", "http://2", "pending"),
     Entry("", "a", Null, "verified"),
     [Entry("b", "c", "http://2", "verified") EXCEPT !.access = <<"tor", "clearnet">>,
                                                      !.links.onion = "u.onion"]}

Less(s, t) ==
    LET order == <<"", "X", "a", "b", "c", "Long">>
        at(x) == CHOOSE k \in DOMAIN order : order[k] = x
    IN  at(s) < at(t)

MCBefore(d, e) == Less(d.name, e.name) \/ (d.name = e.name /\ Less(d.slug, e.slug))
=============================================================================
