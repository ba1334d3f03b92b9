--------------------------- MODULE MCFrameMemory ---------------------------
(***************************************************************************)
(* FrameMemory for TLC, with words of two bytes: two frames that grow, one *)
(* to a size that is no power of two of the other, and one of fixed size.  *)
(***************************************************************************)
EXTENDS FrameMemory

MCLimits == {[min |-> 5, max |-> 17], [min |-> 8, max |-> 12], [min |-> 9, max |-> 9]}

\* Every program of this module fits with a word to spare.
ASSUME Headroom
=============================================================================
