------------------------------- MODULE MCSite -------------------------------
(***************************************************************************)
(* Site for TLC: the sections of the source, the releases of MCAssetCache, *)
(* and addresses that no page links to.  No page refers to /static/app.css *)
(* without a version, so what a cache keeps of it does not matter.         *)
(***************************************************************************)
EXTENDS Site, MCAssetCache

MCTyped ==
    {<<"healthz">>, <<"static", "app.css">>, <<"static", "">>, <<"dir", "">>, <<"dir", "a", "">>,
     <<"dir", "x">>, <<"news", "x">>, <<"dir">>, <<"robots.txt">>}
=============================================================================
