-------------------------------- MODULE MCUdp --------------------------------
(***************************************************************************)
(* TLC instances of Udp: the three kinds of endpoint the firmware uses,     *)
(* with transfers of up to three packets.                                   *)
(***************************************************************************)
EXTENDS Udp

MCKinds == {<<"in", 1>>, <<"in", 2>>, <<"out", 2>>}
MCLengths == {1, 2, 4, 5}
=============================================================================
