---------------------------- MODULE MCAssetCache ----------------------------
(***************************************************************************)
(* AssetCache for TLC: three releases.  The second has the stylesheet of   *)
(* the first, the third a new one with a font of its own.                  *)
(***************************************************************************)
EXTENDS AssetCache, TLC

CONSTANTS appCss, monoFont, css1, css3, mono

MCAssets == {appCss, monoFont}
MCContents == {css1, css3, mono}

Build(css, font) == appCss :> css @@ monoFont :> font

MCBytes == << Build(css1, NoFile), Build(css1, NoFile), Build(css3, mono) >>

(* Only needed where no release comes back.                                *)
ASSUME SettleAssumption == Rollbacks \/ BytesSettle

Visitors == Permutations(Browsers)
=============================================================================
