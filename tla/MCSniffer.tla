------------------------------ MODULE MCSniffer ------------------------------
EXTENDS Sniffer

\* 3B 00; 3B 91 (TA1 TD1) 11 60 (TB2 TC2) 00 0A, one historical byte
ShortAtr == [kind |-> "ATR", bytes |-> <<59, 0>>, report |-> <<59, 0>>, flags |-> {}]
LongAtr ==
  LET b == <<59, 145, 17, 96, 0, 12, 7>>
  IN  [kind |-> "ATR", bytes |-> b, report |-> b, flags |-> {}]
\* T = 1, with a check byte; TCK is right, and wrong
T1Atr == LET b == <<59, 128, 1, 129>>
         IN  [kind |-> "ATR", bytes |-> b, report |-> b, flags |-> {}]
BadAtr == LET b == <<59, 128, 1, 0>>
          IN  [kind |-> "ATR", bytes |-> b, report |-> b, flags |-> {"CHECKSUM"}]

Pps(kind, b, f) == [kind |-> kind, bytes |-> b, report |-> b, flags |-> f]
\* a new rate, two optional fields, and a wrong check byte
PpsRequests == { Pps("PPS_REQ", b, {}) : b \in {<<255, 16, 148, 123>>, <<255, 96, 1, 2, 156>>} }
               \cup { Pps("PPS_REQ", <<255, 0, 0>>, {"CHECKSUM"}) }
\* no rate, a new one, and the present one
PpsResponses == { Pps("PPS_RSP", b, {}) : b \in {<<255, 0, 255>>, <<255, 16, 148, 123>>,
                                                <<255, 16, 17, 254>>} }

\* procedure bytes: NULL, one byte, all the rest
DataTpdu == [kind |-> "TPDU", flags |-> {},
             bytes |-> <<160, 164, 0, 0, 2, 96, 91, 63, 164, 0, 144, 0>>,
             report |-> <<160, 164, 0, 0, 2, 63, 0, 144, 0>>]
BareTpdu == [kind |-> "TPDU", flags |-> {},
             bytes |-> <<0, 112, 0, 0, 1, 106, 129>>,
             report |-> <<0, 112, 0, 0, 1, 106, 129>>]

MCTalks == {ShortAtr, LongAtr, T1Atr, BadAtr, DataTpdu, BareTpdu} \cup PpsRequests \cup PpsResponses
=============================================================================
