---------------------------- MODULE MCCallStack ----------------------------
(***************************************************************************)
(* CallStack for TLC: a main that calls f, f that calls g, and g that      *)
(* calls itself, with words of two bytes.                                  *)
(***************************************************************************)
EXTENDS CallStack, TLC

CONSTANTS main, f, g, mainF, fG, gG

MCFuncs == {main, f, g}
MCOrder == <<main, f, g>>
MCSites == {mainF, fG, gG}
MCOwner == (mainF :> main) @@ (fG :> f) @@ (gG :> g)
MCCallee == (mainF :> f) @@ (fG :> g) @@ (gG :> g)
MCArgSize == (main :> 0) @@ (f :> 2) @@ (g :> 1)
MCVarSizes == (main :> {1}) @@ (f :> {}) @@ (g :> {})

\* The runs of this module are about programs the guarantees hold for.
ASSUME WellTranslated
=============================================================================
