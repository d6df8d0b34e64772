----------------------------- MODULE MCNewsParse -----------------------------
(***************************************************************************)
(* NewsParse for TLC: entries with every pair of links and every pair of   *)
(* dates, in documents that are whole, broken or too long.                 *)
(***************************************************************************)
EXTENDS NewsParse

MCLink(text, href, rel) == [text |-> text, href |-> href, rel |-> rel]
MCLinks ==
    {MCLink(t, "", "") : t \in {"", " ", "x"}}
        \cup {MCLink("", h, r) : h \in {" ", "x", "y"}, r \in {"", "alternate", "self"}}

MCDate(form, clock, ahead) == [form |-> form, clock |-> clock, ahead |-> ahead]
MCDates ==
    {MCDate("empty", 0, 0), MCDate("other", 3, 0), MCDate("utc", 3, 0),
     MCDate("numeric", 4, 2), MCDate("numeric", 1, -1), MCDate("abbreviated", 4, 2)}

Sequences(S, n) == UNION {[1 .. k -> S] : k \in 0 .. n}

MCEntry(titles, links, first, second) ==
    [title |-> titles, links |-> links, first |-> first, second |-> second]

Undated == MCDate("empty", 0, 0)
MCEntries ==
    {MCEntry(<<"t">>, l, Undated, Undated) : l \in Sequences(MCLinks, 2)}
        \cup {MCEntry(<<"t">>, <<>>, a, b) : a, b \in MCDates}
        \cup {MCEntry(t, <<>>, Undated, Undated) : t \in Sequences({"", " ", "t"}, 2)}

MCDocument(root, whole, long, entries) ==
    [root |-> root, whole |-> whole, long |-> long, entries |-> entries]

Ordinary == MCEntry(<<"t">>, <<MCLink("x", "y", "self")>>, MCDate("utc", 3, 0), Undated)

MCDocuments ==
    {MCDocument(r, TRUE, FALSE, <<e>>) : r \in {"rss", "feed"}, e \in MCEntries}
        \cup {MCDocument(r, w, l, Sub) :
                r \in {"rss", "feed", "html"}, w, l \in BOOLEAN,
                Sub \in Sequences({Ordinary}, 2)}
=============================================================================
