------------------------------ MODULE MCPresets ------------------------------
(***************************************************************************)
(* TLC instance of Presets.  The activations are interchangeable, and what *)
(* is checked speaks of single steps, so permuting them is sound.          *)
(***************************************************************************)
EXTENDS Presets, TLC

Symmetric == Permutations(Caller)

=============================================================================
