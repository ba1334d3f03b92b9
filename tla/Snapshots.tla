----------------------------- MODULE Snapshots -----------------------------
(***************************************************************************)
(* What the compiler's contexts promise about the programs they hold: names*)
(* are added to a program and keep their meaning, a released program is the*)
(* one that was parsed and never changes again, whatever is parsed, released*)
(* or thrown away after it, and the context starts anew.                   *)
(*                                                                         *)
(* A program is a set of elements and, for each layer, the element every   *)
(* name of the layer means.                                                *)
(***************************************************************************)
CONSTANTS Slots,   \* places of contexts
          Keys,    \* names for released programs
          Blank,   \* the program of a context that holds none
          Absent   \* no context, or no program

VARIABLES current,  \* the program of each context
          taken     \* the programs that were released

Init ==
    /\ current = [s \in Slots |-> Absent]
    /\ taken = [k \in Keys |-> Absent]

Create(s) ==
    /\ current[s] = Absent
    /\ current' = [current EXCEPT ![s] = Blank]
    /\ UNCHANGED taken

End(s) ==
    /\ current[s] # Absent
    /\ current' = [current EXCEPT ![s] = Absent]
    /\ UNCHANGED taken

\* More elements, more layers, more names: nothing that is there changes.
Extends(new, old) ==
    /\ old.elements \subseteq new.elements
    /\ DOMAIN old.layers \subseteq DOMAIN new.layers
    /\ \A l \in DOMAIN old.layers : \A n \in DOMAIN old.layers[l] :
          n \in DOMAIN new.layers[l] /\ new.layers[l][n] = old.layers[l][n]

Grow(s) ==
    /\ current[s] # Absent /\ current'[s] # Absent
    /\ Extends(current'[s], current[s])
    /\ \A t \in Slots \ {s} : current'[t] = current[t]
    /\ UNCHANGED taken

Release(s, k) ==
    /\ current[s] # Absent /\ taken[k] = Absent
    /\ taken' = [taken EXCEPT ![k] = current[s]]
    /\ current' = [current EXCEPT ![s] = Blank]

Drop(k) ==
    /\ taken[k] # Absent
    /\ taken' = [taken EXCEPT ![k] = Absent]
    /\ UNCHANGED current

Next ==
    \/ \E s \in Slots : Create(s) \/ End(s) \/ Grow(s) \/ \E k \in Keys : Release(s, k)
    \/ \E k \in Keys : Drop(k)

Spec == Init /\ [][Next]_<<current, taken>>
=============================================================================
