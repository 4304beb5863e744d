---------------------------- MODULE MCMapInstall ----------------------------
(* Two maps that pack the same asset.                                      *)
EXTENDS MapInstall, TLC

CONSTANTS m1, m2, a1, A

MCPacks == (m1 :> {a1}) @@ (m2 :> {a1})
MCEarlier == (m1 :> A) @@ (m2 :> None)
=============================================================================
