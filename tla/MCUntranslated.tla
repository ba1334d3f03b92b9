--------------------------- MODULE MCUntranslated ---------------------------
(***************************************************************************)
(* A program the guarantees of CallStack leave out: its first function     *)
(* takes arguments.                                                        *)
(***************************************************************************)
EXTENDS CallStack, TLC

CONSTANTS main, f, mainF

MCFuncs == {main, f}
MCOrder == <<f, main>>
MCSites == {mainF}
MCOwner == mainF :> main
MCCallee == mainF :> f
MCArgSize == (main :> 0) @@ (f :> 2)
MCVars == [x \in MCFuncs |-> {}]
=============================================================================
