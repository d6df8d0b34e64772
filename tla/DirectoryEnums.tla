---------------------------- MODULE DirectoryEnums ----------------------------
(***************************************************************************)
(* The values that an entry's category, status and access may have         *)
(* (internal/directory/directory.go).                                      *)
(***************************************************************************)
Categories == {"wallet", "exchange", "merchant", "mining", "vpn", "service",
               "tool", "educational", "node"}

Statuses == {"verified", "admitted", "questionable", "scam"}

AccessTypes == {"clearnet", "tor", "i2p"}
=============================================================================
