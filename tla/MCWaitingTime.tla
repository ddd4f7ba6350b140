----------------------------- MODULE MCWaitingTime -----------------------------
EXTENDS WaitingTime

MCTimes == {4, 5, 9, 14}
MCLengths == {1, 2}
=============================================================================
