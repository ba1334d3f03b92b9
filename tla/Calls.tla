------------------------------- MODULE Calls -------------------------------
(***************************************************************************)
(* What fcall and ret promise a program, stated without saying where the   *)
(* links are kept: calls nest, a return resumes right after the call it    *)
(* answers, the bytes of the arguments leave the stack with it, and a      *)
(* callee never takes a byte of its caller.                                *)
(*                                                                         *)
(* frames holds one record per call in progress, the innermost last:       *)
(*   ret   the place after the call                                        *)
(*   low   the stack top the caller gets back (its own, less the arguments)*)
(*   base  the stack top at which the callee starts                        *)
(***************************************************************************)
EXTENDS Integers, Sequences

CONSTANTS Places,     \* code locations the machine can be at
          Funcs,      \* functions, each one also the place of its entry
          ArgBytes,   \* [Funcs -> Nat]: bytes of the declared arguments
          LinkBytes   \* bytes a call keeps on the stack for itself

VARIABLES running, ip, sp, frames

vars == <<running, ip, sp, frames>>

InCall == frames # <<>>
Innermost == frames[Len(frames)]
Floor == IF InCall THEN Innermost.base ELSE 0

Init ==
    /\ running = FALSE
    /\ ip \in Places
    /\ sp = 0
    /\ frames = <<>>

Start ==
    /\ ~running
    /\ running' = TRUE
    /\ ip' \in Places
    /\ sp' = 0
    /\ frames' = <<>>

\* The body of a function uses the stack above its own base.
Work ==
    /\ running
    /\ ip' \in Places
    /\ sp' \in Int
    /\ sp' >= Floor
    /\ UNCHANGED <<running, frames>>

Call(f, r) ==
    /\ running
    /\ sp - ArgBytes[f] >= Floor
    /\ frames' = Append(frames, [ret  |-> r,
                                 low  |-> sp - ArgBytes[f],
                                 base |-> sp + LinkBytes])
    /\ sp' = sp + LinkBytes
    /\ ip' = f
    /\ UNCHANGED running

Return ==
    /\ running
    /\ InCall
    /\ ip' = Innermost.ret
    /\ sp' = Innermost.low
    /\ frames' = SubSeq(frames, 1, Len(frames) - 1)
    /\ UNCHANGED running

Stop ==
    /\ running
    /\ running' = FALSE
    /\ UNCHANGED <<ip, sp, frames>>

Next ==
    \/ Start
    \/ Work
    \/ \E f \in Funcs, r \in Places : Call(f, r)
    \/ Return
    \/ Stop

Spec == Init /\ [][Next]_vars
=============================================================================
