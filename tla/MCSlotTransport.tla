-------------------------- MODULE MCSlotTransport --------------------------
(* Model checking SlotTransport.  Readers are interchangeable. *)
EXTENDS SlotTransport, TLC

Symmetry == Permutations(Readers)
=============================================================================
