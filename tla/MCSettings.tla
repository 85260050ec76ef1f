----------------------------- MODULE MCSettings -----------------------------
(***************************************************************************)
(* TLC instance of Settings: two colours, two languages.                   *)
(***************************************************************************)
EXTENDS Settings, TLC

=============================================================================
