---------------------------- MODULE MCScopeStore ----------------------------
(***************************************************************************)
(* ScopeStore for TLC: two contexts, one released container, eight         *)
(* addresses, and an allocator that gives memory out again at once.        *)
(***************************************************************************)
EXTENDS ScopeStore, TLC

CONSTANTS s1, s2, k1

MCAddresses == 0..7

\* A clone's elements come to lie some addresses further.
MCMoves == { [a \in MCAddresses |-> (a + d) % 8] : d \in {3} }

\* The allocator takes the first address that is free: memory is used again as
\* soon as it can be.
MCAllocate(free) == { a \in free : \A b \in free : a <= b }

MCSlots == {s1, s2}
MCKeys == {k1}
MCNames == {"T"}

\* The context of one slot holds a type, and what is made of it; the other one
\* is there to be parsed with in between.
MCMaxElements == s1 :> 3 @@ s2 :> 1
MCMaxLayers == s1 :> 2 @@ s2 :> 1
=============================================================================
