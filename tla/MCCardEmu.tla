------------------------------ MODULE MCCardEmu ------------------------------
EXTENDS CardEmu

\* what simtrace2-cardem-pcsc sends: procedure byte and data, SW, a bare
\* procedure byte asking for the body
DataMsg == [left |-> 2, pbTx |-> TRUE, pbRx |-> FALSE, final |-> FALSE]
SwMsg == [left |-> 2, pbTx |-> TRUE, pbRx |-> FALSE, final |-> TRUE]
BodyMsg == [left |-> 1, pbTx |-> FALSE, pbRx |-> TRUE, final |-> FALSE]
HostMsgs == {DataMsg, SwMsg, BodyMsg}

NoMsgs == {}

\* one-byte answers: part of the data, the last byte of the SW
MoreMsg == [left |-> 1, pbTx |-> TRUE, pbRx |-> FALSE, final |-> FALSE]
EndMsg == [left |-> 1, pbTx |-> TRUE, pbRx |-> FALSE, final |-> TRUE]
ShortMsgs == {MoreMsg, EndMsg}

MCP3s == {0, 2}
OneP3 == {1}
NoP3s == {}
NoPtsOptions == {{}}
OnePtsOption == {{2}}
OneAtr == {<<59, 0>>}
ShortAtr == {<<59>>}
=============================================================================
