---------------------------- MODULE MCCardemSystem ----------------------------
EXTENDS CardemSystem

SomeKinds == {"out", "gp"}
=============================================================================
