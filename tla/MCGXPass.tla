------------------------------ MODULE MCGXPass ------------------------------
(***************************************************************************)
(* TLC instance of GXPass: literals of one and of several digits, with     *)
(* sums and differences that carry and borrow through all of them.         *)
(***************************************************************************)
EXTENDS GXPass

Literals == {-12, 0, 1, 7, 99}

=============================================================================
