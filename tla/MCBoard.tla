-------------------------------- MODULE MCBoard --------------------------------
(* Instance of Board for TLC: a partition of four packets, pages of two.      *)
EXTENDS Board
=============================================================================
