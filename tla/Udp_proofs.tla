------------------------------- MODULE Udp_proofs -------------------------------
(***************************************************************************)
(* The transfers of Udp, for packets of any size, transfers of any lengths *)
(* and any number of packets and events.                                   *)
(*                                                                         *)
(* First: every transfer the driver accepts is accounted for (Accounted).  *)
(* This is nearly inductive.  Missing is only what the main loop may rely  *)
(* on between two steps of UDP_Write or UDP_Read: that the endpoint is     *)
(* still as it left it, unless an interrupt came in between (Undisturbed). *)
(*                                                                         *)
(* Then their contents: the host receives each transfer whole and in order *)
(* (WholeToHost), the firmware what the host sends (InOrder), and no       *)
(* packet is too long (TypeOK).  Both invariants say where each unit is.   *)
(* Stream, to the host: with t units acknowledged, one packet is out or    *)
(* was just read, the FIFO of an endpoint with two banks has the next, and *)
(* the descriptor the rest.  Inward, from the host: the packets in the     *)
(* FIFO are in its banks in turn, the first in the one the driver expects, *)
(* and what was delivered, what the transfer has and what is in the FIFO   *)
(* are the units sent.                                                     *)
(***************************************************************************)
EXTENDS Udp, SequenceTheorems, TLAPS

\* The records have the fields the actions update.
Shape ==
  /\ ep = [state |-> ep.state, bank |-> ep.bank, x |-> ep.x]
  /\ ep.state \in State
  /\ count = [ended |-> count.ended, lost |-> count.lost]
  /\ count.ended \in Nat /\ count.lost \in Nat
  /\ xfer = [n |-> xfer.n, len |-> xfer.len]
  /\ xfer.n \in Nat
  /\ kind \in Kinds /\ off \in BOOLEAN

\* The endpoint is as the main loop left it in UDP_Write and UDP_Read.
Undisturbed ==
  ~off /\ pc = "setup" => ep.state = (IF Dir = "in" THEN "IDLE" ELSE "RECEIVING")

\* Accounted, the transfers in progress being those of an active endpoint.
Balance(e, n, c) == n = c.ended + c.lost + (IF Active(e) THEN 1 ELSE 0)
Balanced == ~off => Balance(ep, xfer.n, count)

\* The inductive invariant.
IInv == Shape /\ Undisturbed /\ Balanced

-----------------------------------------------------------------------------
\* The two directions.
LEMMA DirType == Shape => Dir \in {"in", "out"}
  BY UdpAssumption DEF Shape, Dir

LEMMA Implies == IInv => Accounted
<1> SUFFICES ASSUME IInv, ~off PROVE Accounted
  BY DEF Accounted
<1>1. pc = "setup" /\ Dir = "out" => Active(ep)
  BY DEF IInv, Undisturbed, Active
<1> QED BY <1>1 DEF IInv, Balanced, Balance, Accounted

LEMMA InitInv == Init => IInv
<1> SUFFICES ASSUME Init PROVE IInv
  OBVIOUS
<1>1. off \in BOOLEAN
  BY Zenon DEF Init
<1>2. Shape
  BY <1>1 DEF Init, Shape, State
<1> QED BY <1>2 DEF Init, IInv, Undisturbed, Balanced, Balance, Active

\* The steps that leave the transfers alone.
LEMMA Elsewhere ==
  ASSUME IInv, UNCHANGED <<kind, xfer, count, off>>,
         ep' = [ep EXCEPT !.x = ep'.x] \/ ep' = ep,
         pc' = pc \/ pc' # "setup"
  PROVE  IInv'
<1>1. ep' = [state |-> ep'.state, bank |-> ep'.bank, x |-> ep'.x] /\ ep'.state = ep.state
  BY DEF IInv, Shape
<1>2. Shape'
  BY <1>1 DEF IInv, Shape
<1>3. Undisturbed'
  BY <1>1 DEF IInv, Undisturbed, Dir
<1>4. Balanced'
  BY <1>1 DEF IInv, Balanced, Balance, Active
<1> QED BY <1>2, <1>3, <1>4 DEF IInv

\* The steps of the interrupt: with the main loop elsewhere, it is enough that they
\* leave the balance right.
LEMMA Interrupt ==
  ASSUME IInv, kind' = kind, off' \in BOOLEAN, pc' = pc,
         ep' = [state |-> ep'.state, bank |-> ep'.bank, x |-> ep'.x], ep'.state \in State,
         count' = [ended |-> count'.ended, lost |-> count'.lost],
         count'.ended \in Nat, count'.lost \in Nat,
         xfer' = [n |-> xfer'.n, len |-> xfer'.len], xfer'.n \in Nat,
         ~off' => ~off /\ pc = "idle",
         Balance(ep, xfer.n, count) => Balance(ep', xfer'.n, count')
  PROVE  IInv'
  BY DEF IInv, Shape, Undisturbed, Balanced, Balance, Active

\* The interrupt found the main loop elsewhere, or driver and controller are off.
LEMMA OffIfFacts ==
  ASSUME NEW c \in BOOLEAN, off \in BOOLEAN, OffIf(c)
  PROVE  off' \in BOOLEAN /\ (~off' => ~off /\ pc = "idle")
<1>1. off' = (off \/ pc # "idle" \/ c)
  BY DEF OffIf
<1> QED BY <1>1, Zenon

-----------------------------------------------------------------------------
(* The steps                                                                *)

LEMMA HostInv == IInv /\ Host => IInv'
<1> SUFFICES ASSUME IInv, Host PROVE IInv'
  OBVIOUS
<1>1. UNCHANGED <<kind, xfer, count, off, ep, pc>>
  BY DEF Host, HostReads, HostSends, HostStalled, history
<1> QED BY <1>1, Elsewhere

LEMMA MainLoopInv == IInv /\ MainLoop => IInv'
<1> SUFFICES ASSUME IInv, MainLoop PROVE IInv'
  OBVIOUS
<1>1. CASE Write
  <2>1. UNCHANGED <<kind, xfer, count, off, ep>> /\ ep.state = "IDLE" /\ Dir = "in" /\ pc' = "setup"
    BY <1>1 DEF Write, history
  <2> QED BY <2>1 DEF IInv, Shape, Undisturbed, Balanced, Balance, Active, Dir
<1>2. CASE WriteSetup
  <2>1. PICK len, x :
          /\ len \in Lengths
          /\ xfer' = [n |-> xfer.n + 1, len |-> len]
          /\ ep' = [ep EXCEPT !.state = "SENDING", !.x = x]
          /\ pc = "setup" /\ Dir = "in" /\ pc' = "load"
          /\ UNCHANGED <<kind, count, off>>
    BY <1>2 DEF WriteSetup
  <2>2. ep' = [state |-> "SENDING", bank |-> ep.bank, x |-> x]
    BY <2>1 DEF IInv, Shape
  <2>a. xfer'.n \in Nat /\ xfer' = [n |-> xfer'.n, len |-> xfer'.len]
    BY <2>1 DEF IInv, Shape
  <2>b. ep'.state \in State /\ ep' = [state |-> ep'.state, bank |-> ep'.bank, x |-> ep'.x]
    BY <2>2 DEF State
  <2>3. Shape'
    BY <2>1, <2>a, <2>b DEF IInv, Shape
  <2>4. ~off => ep.state = "IDLE"
    BY <2>1 DEF IInv, Undisturbed
  <2> QED BY <2>1, <2>2, <2>3, <2>4 DEF IInv, Shape, Undisturbed, Balanced, Balance, Active
<1>3. CASE WriteLoad \/ WriteSecond
  <2>1. UNCHANGED <<kind, xfer, count, off>> /\ pc' # "setup"
    BY <1>3 DEF WriteLoad, WriteSecond, history
  <2>2. PICK x : ep' = [ep EXCEPT !.x = x]
    BY <1>3 DEF WriteLoad, WriteSecond
  <2>3. ep' = [ep EXCEPT !.x = ep'.x]
    BY <2>2 DEF IInv, Shape
  <2> QED BY <2>1, <2>3, Elsewhere
<1>4. CASE WriteStart \/ Enable
  <2>1. UNCHANGED <<kind, xfer, count, off, ep>> /\ pc' # "setup"
    BY <1>4 DEF WriteStart, Enable, history
  <2> QED BY <2>1, Elsewhere
<1>5. CASE Read
  <2>1. /\ ep' = [ep EXCEPT !.state = "RECEIVING"] /\ ep.state = "IDLE"
        /\ xfer' = [n |-> xfer.n + 1, len |-> Tailroom] /\ pc' = "setup" /\ Dir = "out"
        /\ UNCHANGED <<kind, count, off>>
    BY <1>5 DEF Read
  <2>2. ep' = [state |-> "RECEIVING", bank |-> ep.bank, x |-> ep.x]
    BY <2>1 DEF IInv, Shape
  <2>a. xfer'.n \in Nat /\ xfer' = [n |-> xfer'.n, len |-> xfer'.len]
    BY <2>1 DEF IInv, Shape
  <2>b. ep'.state \in State /\ ep' = [state |-> ep'.state, bank |-> ep'.bank, x |-> ep'.x]
    BY <2>2 DEF State
  <2>3. Shape'
    BY <2>1, <2>a, <2>b DEF IInv, Shape
  <2> QED BY <2>1, <2>2, <2>3 DEF IInv, Shape, Undisturbed, Balanced, Balance, Active, Dir
<1>6. CASE ReadSetup
  <2>1. UNCHANGED <<kind, xfer, count, off>> /\ pc' # "setup"
    BY <1>6 DEF ReadSetup, history
  <2>2. ep' = [ep EXCEPT !.x = NewXfer(<<>>, Tailroom)]
    BY <1>6 DEF ReadSetup
  <2>3. ep' = [ep EXCEPT !.x = ep'.x]
    BY <2>2 DEF IInv, Shape
  <2> QED BY <2>1, <2>3, Elsewhere
<1> QED BY <1>1, <1>2, <1>3, <1>4, <1>5, <1>6 DEF MainLoop

\* A transfer that was sent.
LEMMA TransferSentInv == IInv /\ TransferSent => IInv'
<1> SUFFICES ASSUME IInv, TransferSent PROVE IInv'
  OBVIOUS
<1>0. PICK zlp \in BOOLEAN :
        /\ \E x : ep' = [ep EXCEPT !.state = IF zlp THEN @ ELSE "IDLE", !.x = x]
        /\ xfer' = IF zlp THEN [n |-> xfer.n + 1, len |-> 0] ELSE xfer
        /\ count' = [count EXCEPT !.ended = @ + 1]
        /\ ep.state = "SENDING" /\ kind' = kind /\ pc' = pc /\ OffIf(FALSE)
  BY DEF TransferSent, WantsZlp
<1>1. PICK x :
        /\ ep' = [ep EXCEPT !.state = IF zlp THEN @ ELSE "IDLE", !.x = x]
        /\ xfer' = IF zlp THEN [n |-> xfer.n + 1, len |-> 0] ELSE xfer
        /\ count' = [count EXCEPT !.ended = @ + 1]
        /\ ep.state = "SENDING" /\ kind' = kind /\ pc' = pc /\ OffIf(FALSE)
  BY <1>0
<1>2. ep' = [state |-> IF zlp THEN "SENDING" ELSE "IDLE", bank |-> ep.bank, x |-> x]
  BY <1>1 DEF IInv, Shape
<1>3. count' = [ended |-> count.ended + 1, lost |-> count.lost]
  BY <1>1 DEF IInv, Shape
<1>4. off' \in BOOLEAN /\ (~off' => ~off /\ pc = "idle")
  BY <1>1, OffIfFacts DEF IInv, Shape
<1>5. CASE zlp
  <2>1. ep' = [state |-> "SENDING", bank |-> ep.bank, x |-> x]
    BY <1>2, <1>5
  <2>3. ep' = [state |-> ep'.state, bank |-> ep'.bank, x |-> ep'.x] /\ ep'.state \in State
    BY <2>1 DEF State
  <2>4. Balance(ep, xfer.n, count) => Balance(ep', xfer'.n, count')
    BY <1>1, <1>3, <2>1, <1>5 DEF IInv, Shape, Balance, Active
  <2>5. count' = [ended |-> count'.ended, lost |-> count'.lost]
        /\ count'.ended \in Nat /\ count'.lost \in Nat
    BY <1>3 DEF IInv, Shape
  <2>6. xfer' = [n |-> xfer'.n, len |-> xfer'.len] /\ xfer'.n \in Nat
    BY <1>1, <1>5 DEF IInv, Shape
  <2> QED BY <1>1, <1>4, <2>3, <2>4, <2>5, <2>6, Interrupt
<1>6. CASE ~zlp
  <2>1. ep' = [state |-> "IDLE", bank |-> ep.bank, x |-> x]
    BY <1>2, <1>6
  <2>3. ep' = [state |-> ep'.state, bank |-> ep'.bank, x |-> ep'.x] /\ ep'.state \in State
    BY <2>1 DEF State
  <2>4. Balance(ep, xfer.n, count) => Balance(ep', xfer'.n, count')
    BY <1>1, <1>3, <2>1, <1>6 DEF IInv, Shape, Balance, Active
  <2>5. count' = [ended |-> count'.ended, lost |-> count'.lost]
        /\ count'.ended \in Nat /\ count'.lost \in Nat
    BY <1>3 DEF IInv, Shape
  <2>6. xfer' = [n |-> xfer'.n, len |-> xfer'.len] /\ xfer'.n \in Nat
    BY <1>1, <1>6 DEF IInv, Shape
  <2> QED BY <1>1, <1>4, <2>3, <2>4, <2>5, <2>6, Interrupt
<1> QED BY <1>5, <1>6

\* A packet from the host.
LEMMA PacketReadInv == IInv /\ PacketRead => IInv'
<1> SUFFICES ASSUME IInv, PacketRead PROVE IInv'
  OBVIOUS
<1>0. PICK ends \in BOOLEAN :
        /\ \E b, x : ep' = [state |-> IF ends THEN "IDLE" ELSE ep.state, bank |-> b, x |-> x]
        /\ count' = [count EXCEPT !.ended = IF ends THEN @ + 1 ELSE @]
        /\ ep.state = "RECEIVING" /\ kind' = kind /\ pc' = pc /\ xfer' = xfer /\ OffIf(FALSE)
  BY DEF PacketRead
<1>1. PICK b, x :
        /\ ep' = [state |-> IF ends THEN "IDLE" ELSE ep.state, bank |-> b, x |-> x]
        /\ count' = [count EXCEPT !.ended = IF ends THEN @ + 1 ELSE @]
        /\ ep.state = "RECEIVING" /\ kind' = kind /\ pc' = pc /\ xfer' = xfer /\ OffIf(FALSE)
  BY <1>0
<1>3. count' = [ended |-> IF ends THEN count.ended + 1 ELSE count.ended, lost |-> count.lost]
  BY <1>1 DEF IInv, Shape
<1>4. off' \in BOOLEAN /\ (~off' => ~off /\ pc = "idle")
  BY <1>1, OffIfFacts DEF IInv, Shape
<1>5. CASE ends
  <2>1. ep' = [state |-> "IDLE", bank |-> b, x |-> x]
    BY <1>1, <1>5
  <2>2. count' = [ended |-> count.ended + 1, lost |-> count.lost]
    BY <1>3, <1>5
  <2>3. ep' = [state |-> ep'.state, bank |-> ep'.bank, x |-> ep'.x] /\ ep'.state \in State
    BY <2>1 DEF IInv, Shape, State
  <2>4. Balance(ep, xfer.n, count) => Balance(ep', xfer'.n, count')
    BY <1>1, <2>1, <2>2 DEF IInv, Shape, Balance, Active
  <2>5. count' = [ended |-> count'.ended, lost |-> count'.lost]
        /\ count'.ended \in Nat /\ count'.lost \in Nat
    BY <2>2 DEF IInv, Shape
  <2>6. xfer' = [n |-> xfer'.n, len |-> xfer'.len] /\ xfer'.n \in Nat
    BY <1>1 DEF IInv, Shape
  <2> QED BY <1>1, <1>4, <2>3, <2>4, <2>5, <2>6, Interrupt
<1>6. CASE ~ends
  <2>1. ep' = [state |-> ep.state, bank |-> b, x |-> x]
    BY <1>1, <1>6
  <2>2. count' = [ended |-> count.ended, lost |-> count.lost]
    BY <1>3, <1>6
  <2>3. ep' = [state |-> ep'.state, bank |-> ep'.bank, x |-> ep'.x] /\ ep'.state \in State
    BY <2>1 DEF IInv, Shape, State
  <2>4. Balance(ep, xfer.n, count) => Balance(ep', xfer'.n, count')
    BY <1>1, <2>1, <2>2 DEF IInv, Shape, Balance, Active
  <2>5. count' = [ended |-> count'.ended, lost |-> count'.lost]
        /\ count'.ended \in Nat /\ count'.lost \in Nat
    BY <2>2 DEF IInv, Shape
  <2>6. xfer' = [n |-> xfer'.n, len |-> xfer'.len] /\ xfer'.n \in Nat
    BY <1>1 DEF IInv, Shape
  <2> QED BY <1>1, <1>4, <2>3, <2>4, <2>5, <2>6, Interrupt
<1> QED BY <1>5, <1>6

LEMMA EndpointHandlerInv == IInv /\ EndpointHandler => IInv'
<1> SUFFICES ASSUME IInv, EndpointHandler PROVE IInv'
  OBVIOUS
<1>1. CASE PacketSent \/ StrayComp \/ Discard \/ Nak
  <2>1. /\ UNCHANGED <<kind, pc, xfer, count>> /\ OffIf(FALSE)
        /\ \E b, x : ep' = [ep EXCEPT !.x = x] \/ ep' = [ep EXCEPT !.bank = b] \/ ep' = ep
    BY <1>1 DEF PacketSent, StrayComp, Discard, Nak, Lose
  <2>2. ep' = [state |-> ep.state, bank |-> ep'.bank, x |-> ep'.x]
    BY <2>1 DEF IInv, Shape
  <2>3. off' \in BOOLEAN /\ (~off' => ~off /\ pc = "idle")
    BY <2>1, OffIfFacts DEF IInv, Shape
  <2> QED BY <2>1, <2>2, <2>3, Interrupt DEF IInv, Shape, Balance, Active
<1>2. CASE StallSent
  <2>1. UNCHANGED <<kind, xfer, count, off, ep, pc>>
    BY <1>2 DEF StallSent, history
  <2> QED BY <2>1, Elsewhere
<1> QED BY <1>1, <1>2, TransferSentInv, PacketReadInv DEF EndpointHandler

\* The call-back of a transfer that is aborted: the endpoint it leaves behind, and
\* the transfers ended and begun by it.
LEMMA EndedFacts ==
  ASSUME Shape, NEW status
  PROVE  LET r == Ended(status) IN
         /\ r.ep = [state |-> r.ep.state, bank |-> ep.bank, x |-> r.ep.x]
         /\ r.ep.state \in State
         /\ r.xfer = [n |-> r.xfer.n, len |-> r.xfer.len] /\ r.xfer.n \in Nat
         /\ r.ended \in {0, 1}
         /\ ~Active(ep) => r.ep = ep /\ r.xfer.n = xfer.n /\ r.ended = 0
         /\ Active(ep) => /\ r.ended = 1
                          /\ r.xfer.n = xfer.n + (IF Active(r.ep) THEN 1 ELSE 0)
<1> DEFINE r == Ended(status)
<1>1. CASE ~Active(ep)
  <2>1. r.ep = ep /\ r.xfer = xfer /\ r.ended = 0
    BY <1>1 DEF Ended
  <2> QED BY <2>1, <1>1 DEF Shape
<1>2. CASE Active(ep) /\ WantsZlp(ep.x)
  <2>1. /\ r.ep = [ep EXCEPT !.state = "SENDING", !.x = NewXfer(<<>>, 0)]
        /\ r.xfer = [n |-> xfer.n + 1, len |-> 0] /\ r.ended = 1
    BY <1>2 DEF Ended
  <2>2. r.ep = [state |-> "SENDING", bank |-> ep.bank, x |-> NewXfer(<<>>, 0)]
    BY <2>1 DEF Shape
  <2> HIDE DEF r
  <2>3. r.ep.state = "SENDING" /\ r.ep = [state |-> r.ep.state, bank |-> ep.bank, x |-> r.ep.x]
    BY <2>2
  <2>4. r.ep.state \in State
    BY <2>3 DEF State
  <2>5. r.xfer = [n |-> r.xfer.n, len |-> r.xfer.len] /\ r.xfer.n \in Nat
        /\ r.xfer.n = xfer.n + (IF Active(r.ep) THEN 1 ELSE 0)
    BY <2>1, <2>3 DEF Shape, Active
  <2> QED BY <2>1, <2>3, <2>4, <2>5, <1>2 DEF r
<1>3. CASE Active(ep) /\ ~WantsZlp(ep.x)
  <2>1. r.ep = [ep EXCEPT !.state = "IDLE", !.x = NoXfer] /\ r.xfer = xfer /\ r.ended = 1
    BY <1>3 DEF Ended
  <2>2. r.ep = [state |-> "IDLE", bank |-> ep.bank, x |-> NoXfer]
    BY <2>1 DEF Shape
  <2> HIDE DEF r
  <2>3. r.ep.state = "IDLE" /\ r.ep = [state |-> r.ep.state, bank |-> ep.bank, x |-> r.ep.x]
    BY <2>2
  <2>4. r.ep.state \in State
    BY <2>3 DEF State
  <2>5. r.xfer = [n |-> r.xfer.n, len |-> r.xfer.len] /\ r.xfer.n \in Nat
        /\ r.xfer.n = xfer.n + (IF Active(r.ep) THEN 1 ELSE 0)
    BY <2>1, <2>3 DEF Shape, Active
  <2> QED BY <2>1, <2>3, <2>4, <2>5, <1>3 DEF r
<1> QED BY <1>1, <1>2, <1>3

\* A halt or a configuration: whatever the call-back left active is lost.
LEMMA AbortInv ==
  ASSUME IInv, NEW status, NEW st \in State \ {"SENDING", "RECEIVING"},
         ep' = [Ended(status).ep EXCEPT !.state = st],
         xfer' = Ended(status).xfer,
         count' = [ended |-> count.ended + Ended(status).ended,
                   lost |-> count.lost + (IF Active(Ended(status).ep) THEN 1 ELSE 0)],
         NEW c \in BOOLEAN, OffIf(c), kind' = kind, pc' = pc
  PROVE  IInv'
<1> DEFINE r == Ended(status)
<1>0. Shape
  BY DEF IInv
<1>1. /\ r.ep = [state |-> r.ep.state, bank |-> ep.bank, x |-> r.ep.x]
      /\ r.ep.state \in State
      /\ r.xfer = [n |-> r.xfer.n, len |-> r.xfer.len] /\ r.xfer.n \in Nat
      /\ r.ended \in {0, 1}
      /\ ~Active(ep) => r.ep = ep /\ r.xfer.n = xfer.n /\ r.ended = 0
      /\ Active(ep) => /\ r.ended = 1
                       /\ r.xfer.n = xfer.n + (IF Active(r.ep) THEN 1 ELSE 0)
  BY <1>0, EndedFacts
<1> HIDE DEF r
<1>2. ep' = [r.ep EXCEPT !.state = st] /\ xfer' = r.xfer
      /\ count' = [ended |-> count.ended + r.ended,
                   lost |-> count.lost + (IF Active(r.ep) THEN 1 ELSE 0)]
  BY DEF r
<1>3. ep' = [state |-> st, bank |-> ep.bank, x |-> r.ep.x]
  BY <1>1, <1>2
<1>4. off' \in BOOLEAN /\ (~off' => ~off /\ pc = "idle")
  BY <1>0, OffIfFacts DEF Shape
<1>5. count'.ended \in Nat /\ count'.lost \in Nat
  BY <1>0, <1>1, <1>2 DEF Shape
<1>6. Balance(ep, xfer.n, count) => Balance(ep', xfer'.n, count')
  BY <1>0, <1>1, <1>2, <1>3 DEF Shape, Balance, Active
<1> QED BY <1>1, <1>2, <1>3, <1>4, <1>5, <1>6, Interrupt

LEMMA ControlInv == IInv /\ Control => IInv'
<1> SUFFICES ASSUME IInv, Control PROVE IInv'
  OBVIOUS
<1>1. CASE Halt
  <2>1. /\ ep' = [Ended("ABORTED").ep EXCEPT !.state = "HALTED"]
        /\ Record([Ended("ABORTED") EXCEPT !.ie = TRUE], TRUE)
        /\ OffIf(FALSE) /\ kind' = kind /\ pc' = pc
    BY <1>1 DEF Halt
  <2>2. /\ [Ended("ABORTED") EXCEPT !.ie = TRUE].ep = Ended("ABORTED").ep
        /\ [Ended("ABORTED") EXCEPT !.ie = TRUE].xfer = Ended("ABORTED").xfer
        /\ [Ended("ABORTED") EXCEPT !.ie = TRUE].ended = Ended("ABORTED").ended
    BY DEF Ended
  <2>3. /\ xfer' = Ended("ABORTED").xfer
        /\ count' = [ended |-> count.ended + Ended("ABORTED").ended,
                     lost |-> count.lost + (IF Active(Ended("ABORTED").ep) THEN 1 ELSE 0)]
    BY <2>1, <2>2 DEF Record
  <2> QED BY <2>1, <2>3, AbortInv DEF State
<1>2. CASE ConfigureEP
  <2>1. /\ ep' = [Ended("RESET").ep EXCEPT !.state = "IDLE"]
        /\ Record(Ended("RESET"), TRUE)
        /\ OffIf(ep.bank # 0 \/ hw'.ready) /\ kind' = kind /\ pc' = pc
    BY <1>2 DEF ConfigureEP
  <2>2. /\ xfer' = Ended("RESET").xfer
        /\ count' = [ended |-> count.ended + Ended("RESET").ended,
                     lost |-> count.lost + (IF Active(Ended("RESET").ep) THEN 1 ELSE 0)]
    BY <2>1 DEF Record
  <2>3. PICK c \in BOOLEAN : OffIf(c)
    BY <2>1, Zenon DEF OffIf
  <2> QED BY <2>1, <2>2, <2>3, AbortInv DEF State
<1>3. CASE Unhalt
  <2>1. /\ ep' = [ep EXCEPT !.state = "IDLE"] /\ ep.state = "HALTED"
        /\ UNCHANGED <<kind, pc, xfer, count>>
    BY <1>3 DEF Unhalt
  <2>2. ep' = [state |-> "IDLE", bank |-> ep.bank, x |-> ep.x]
    BY <2>1 DEF IInv, Shape
  <2>3. PICK c \in BOOLEAN : OffIf(c)
    BY <1>3, Zenon DEF Unhalt, OffIf
  <2>4. off' \in BOOLEAN /\ (~off' => ~off /\ pc = "idle")
    BY <2>3, OffIfFacts DEF IInv, Shape
  <2> QED BY <2>1, <2>2, <2>4, Interrupt DEF IInv, Shape, State, Balance, Active
<1>4. CASE ResetEPs
  <2>1. /\ ep' = [ep EXCEPT !.state = "DISABLED", !.bank = 0]
        /\ count' = [count EXCEPT !.lost = @ + (IF Active(ep) THEN 1 ELSE 0)]
        /\ UNCHANGED <<kind, pc, xfer>>
    BY <1>4 DEF ResetEPs
  <2>2. ep' = [state |-> "DISABLED", bank |-> 0, x |-> ep.x]
    BY <2>1 DEF IInv, Shape
  <2>3. count' = [ended |-> count.ended, lost |-> count.lost + (IF Active(ep) THEN 1 ELSE 0)]
    BY <2>1 DEF IInv, Shape
  <2>4. PICK c \in BOOLEAN : OffIf(c)
    BY <1>4, Zenon DEF ResetEPs, OffIf
  <2>5. off' \in BOOLEAN /\ (~off' => ~off /\ pc = "idle")
    BY <2>4, OffIfFacts DEF IInv, Shape
  <2>6. Balance(ep, xfer.n, count) => Balance(ep', xfer'.n, count')
    BY <2>1, <2>2, <2>3 DEF IInv, Shape, Balance, Active
  <2>7. ep' = [state |-> ep'.state, bank |-> ep'.bank, x |-> ep'.x] /\ ep'.state \in State
    BY <2>2 DEF State
  <2>8. count' = [ended |-> count'.ended, lost |-> count'.lost]
        /\ count'.ended \in Nat /\ count'.lost \in Nat
    BY <2>3 DEF IInv, Shape
  <2>9. xfer' = [n |-> xfer'.n, len |-> xfer'.len] /\ xfer'.n \in Nat
    BY <2>1 DEF IInv, Shape
  <2> QED BY <2>1, <2>5, <2>6, <2>7, <2>8, <2>9, Interrupt
<1> QED BY <1>1, <1>2, <1>3, <1>4 DEF Control

LEMMA NextInv == IInv /\ [Next]_vars => IInv'
<1> SUFFICES ASSUME IInv, [Next]_vars PROVE IInv'
  OBVIOUS
<1>1. CASE UNCHANGED vars
  BY <1>1, Elsewhere DEF vars
<1> QED BY <1>1, HostInv, MainLoopInv, EndpointHandlerInv, ControlInv DEF Next

\* IInv is an invariant of the specification.
THEOREM Invariant == Spec => []IInv
<1> QED BY InitInv, NextInv, PTL DEF Spec

\* No transfer disappears but those the code forgets in a bus reset or with the
\* empty packet of an aborted one, as long as driver and controller agree.
THEOREM TransfersAccounted == Spec => []Accounted
<1> QED BY Implies, Invariant, PTL

-----------------------------------------------------------------------------
(* The contents of the transfers.                                           *)


\* The units of the n-th transfer after the a-th up to the b-th.
Units(n, a, b) == [k \in 1 .. b - a |-> <<n, a + k>>]

\* The end of the packet that begins after unit a of a transfer of len units.
Until(len, a) == IF len - a < Size THEN len ELSE a + Size

\* What the FIFO and the descriptor have ahead of the packet after unit t.
Ahead(k, len, t) == IF k = 1 THEN Until(len, t) ELSE Until(len, Until(len, t))

\* The units up to the c-th were loaded into the FIFO.
Loaded(x, n, len, c) ==
  /\ x.data = Units(n, c, len)
  /\ x.remaining = len - c /\ x.buffered = c - x.transferred

\* The packet after unit t is ready, or read by the host and not yet noticed.
Out(h, g, n, len, t) ==
  \/ /\ h.ready /\ ~h.comp /\ h.packet = Units(n, t, Until(len, t)) /\ g = Units(n, 0, t)
  \/ /\ ~h.ready /\ h.comp /\ h.packet = <<>> /\ g = Units(n, 0, Until(len, t))

NoneOut(h, g) == ~h.ready /\ ~h.comp /\ h.packet = <<>> /\ g = <<>>

\* A transfer while UDP_Write sets it up, and once it runs.
Sending(k, p, i, x, h, g, n, len) ==
  /\ x.transferred \in 0 .. len
  /\ p \in {"load", "start", "second"} => x.transferred = 0
  /\ p = "load" => NoneOut(h, g) /\ h.build = <<>> /\ Loaded(x, n, len, 0)
  /\ p = "start" =>
       NoneOut(h, g) /\ h.build = Units(n, 0, Until(len, 0)) /\ Loaded(x, n, len, Until(len, 0))
  /\ p = "second" =>
       k # 1 /\ Out(h, g, n, len, 0) /\ h.build = <<>> /\ Loaded(x, n, len, Until(len, 0))
  /\ p \in {"enable", "idle"} =>
       /\ Out(h, g, n, len, x.transferred)
       /\ h.build = Units(n, Until(len, x.transferred), Ahead(k, len, x.transferred))
       /\ Loaded(x, n, len, Ahead(k, len, x.transferred))
  /\ p = "idle" => i
  /\ p \in {"load", "start", "second", "enable", "idle"}

\* An endpoint without a transfer: nothing of an old one is left that the next could
\* meet.
Resting(p, i, s, h) ==
  /\ p \in {"idle", "setup"}
  /\ s \in {"IDLE", "DISABLED"} => ~h.ready /\ h.packet = <<>> /\ h.build = <<>>
  /\ s = "HALTED" => h.stall
  /\ h.comp => i /\ s # "DISABLED"

\* What the last call-back said.
Reported(l, g, n, len) ==
  /\ l.n <= n
  /\ l.status = "SUCCESS" /\ l.n = n =>
       Len(g) = len /\ l.transferred = len /\ l.remaining = 0

\* The records have the fields the actions update.
XFields(x) == x = [data |-> x.data, remaining |-> x.remaining, buffered |-> x.buffered,
                   transferred |-> x.transferred]
HFields(h) ==
  /\ h = [build |-> h.build, ready |-> h.ready, packet |-> h.packet, comp |-> h.comp,
          rx |-> h.rx, fill |-> h.fill, stall |-> h.stall, sent |-> h.sent]
  /\ h.ready \in BOOLEAN /\ h.comp \in BOOLEAN /\ h.stall \in BOOLEAN

Flow(k, p, i, e, h, g, n, len, l) ==
  /\ XFields(e.x) /\ HFields(h) /\ len \in Nat /\ l.n \in Nat
  /\ h.rx = <<>> /\ e.state # "RECEIVING"
  /\ \E a \in Nat : g = Units(n, 0, a)
  /\ Reported(l, g, n, len)
  /\ IF e.state = "SENDING" THEN l.n < n /\ Sending(k, p, i, e.x, h, g, n, len)
     ELSE Resting(p, i, e.state, h)

\* The inductive invariant, with IInv.
Now == Flow(Banks, pc, ie, ep, hw, got, xfer.n, xfer.len, last)
Stream == Dir = "in" /\ ~off => Now

-----------------------------------------------------------------------------
(* Units and packets                                                        *)

LEMMA UnitsAre ==
  ASSUME NEW n \in Nat, NEW a \in Nat, NEW b \in Nat, a <= b
  PROVE  /\ Units(n, a, b) \in Seq(Nat \X Nat) /\ Len(Units(n, a, b)) = b - a
         /\ \A k \in 1 .. b - a : Units(n, a, b)[k] = <<n, a + k>>
<1>1. b - a \in Nat /\ \A k \in 1 .. b - a : <<n, a + k>> \in Nat \X Nat
  OBVIOUS
<1> QED BY <1>1 DEF Units

LEMMA NoUnits ==
  ASSUME NEW n \in Nat, NEW a \in Nat
  PROVE  Units(n, a, a) = <<>>
<1>1. Units(n, a, a) \in Seq(Nat \X Nat) /\ Len(Units(n, a, a)) = 0
  BY UnitsAre
<1> QED BY <1>1

\* Two runs of units that meet are one.
LEMMA UnitsJoin ==
  ASSUME NEW n \in Nat, NEW a \in Nat, NEW b \in Nat, NEW c \in Nat, a <= b, b <= c
  PROVE  Units(n, a, b) \o Units(n, b, c) = Units(n, a, c)
<1> DEFINE u == Units(n, a, b)
           v == Units(n, b, c)
           w == Units(n, a, c)
<1>a. u \in Seq(Nat \X Nat) /\ Len(u) = b - a /\ \A k \in 1 .. b - a : u[k] = <<n, a + k>>
  BY UnitsAre
<1>b. v \in Seq(Nat \X Nat) /\ Len(v) = c - b /\ \A k \in 1 .. c - b : v[k] = <<n, b + k>>
  BY UnitsAre
<1>c. w \in Seq(Nat \X Nat) /\ Len(w) = c - a /\ \A k \in 1 .. c - a : w[k] = <<n, a + k>>
  <2>1. a <= c
    OBVIOUS
  <2> QED BY <2>1, UnitsAre
<1>d. /\ u \in Seq(Nat \X Nat) /\ v \in Seq(Nat \X Nat) /\ w \in Seq(Nat \X Nat)
      /\ Len(u) = b - a /\ Len(v) = c - b /\ Len(w) = c - a
      /\ b - a \in Nat /\ c - b \in Nat /\ c - a \in Nat /\ (b - a) + (c - b) = c - a
  BY <1>a, <1>b, <1>c
<1> HIDE DEF u, v, w
<1>2. u \o v \in Seq(Nat \X Nat) /\ Len(u \o v) = c - a
  BY <1>d
<1>3. \A k \in 1 .. c - a : (u \o v)[k] = IF k <= b - a THEN u[k] ELSE v[k - (b - a)]
  <2>1. \A k \in 1 .. Len(u) + Len(v) :
          (u \o v)[k] = IF k <= Len(u) THEN u[k] ELSE v[k - Len(u)]
    BY <1>d, ConcatProperties
  <2> QED BY <1>d, <2>1
<1>4. ASSUME NEW k \in 1 .. c - a PROVE (u \o v)[k] = w[k]
  <2>1. CASE k <= b - a
    <3>1. k \in 1 .. b - a
      BY <2>1
    <3> QED BY <1>a, <1>c, <1>3, <2>1, <3>1
  <2>2. CASE ~(k <= b - a)
    <3>1. k - (b - a) \in 1 .. c - b /\ b + (k - (b - a)) = a + k
      BY <2>2
    <3>2. (u \o v)[k] = v[k - (b - a)]
      BY <1>3, <2>2
    <3>3. v[k - (b - a)] = <<n, b + (k - (b - a))>>
      BY <1>b, <3>1
    <3> QED BY <1>c, <3>1, <3>2, <3>3
  <2> QED BY <2>1, <2>2
<1>5. u \o v = w
  BY <1>d, <1>2, <1>4, SeqEqual
<1> QED BY <1>5 DEF u, v, w

\* The first d units of a run, and the rest.
SplitsAt(n, a, c, d, b) ==
  /\ SubSeq(Units(n, a, c), 1, d) = Units(n, a, b)
  /\ SubSeq(Units(n, a, c), d + 1, Len(Units(n, a, c))) = Units(n, b, c)

LEMMA UnitsSplit ==
  ASSUME NEW n \in Nat, NEW a \in Nat, NEW b \in Nat, NEW c \in Nat, a <= b, b <= c
  PROVE  SplitsAt(n, a, c, b - a, b)
<1> DEFINE u == Units(n, a, b)
           v == Units(n, b, c)
           w == Units(n, a, c)
           s == SubSeq(w, 1, b - a)
           t == SubSeq(w, (b - a) + 1, c - a)
<1>a. u \in Seq(Nat \X Nat) /\ Len(u) = b - a /\ \A k \in 1 .. b - a : u[k] = <<n, a + k>>
  BY UnitsAre
<1>b. v \in Seq(Nat \X Nat) /\ Len(v) = c - b /\ \A k \in 1 .. c - b : v[k] = <<n, b + k>>
  BY UnitsAre
<1>c. w \in Seq(Nat \X Nat) /\ Len(w) = c - a /\ \A k \in 1 .. c - a : w[k] = <<n, a + k>>
  <2>1. a <= c
    OBVIOUS
  <2> QED BY <2>1, UnitsAre
<1>d. /\ u \in Seq(Nat \X Nat) /\ v \in Seq(Nat \X Nat) /\ w \in Seq(Nat \X Nat)
      /\ Len(u) = b - a /\ Len(v) = c - b /\ Len(w) = c - a
      /\ b - a \in Nat /\ c - b \in Nat /\ c - a \in Nat /\ (b - a) + (c - b) = c - a
  BY <1>a, <1>b, <1>c
<1> HIDE DEF u, v, w
<1>2. s \in Seq(Nat \X Nat) /\ Len(s) = b - a /\ \A k \in 1 .. b - a : s[k] = w[k]
  <2>1. \A k \in 1 .. b - a : w[k] \in Nat \X Nat
    BY <1>d
  <2>2. /\ s \in Seq(Nat \X Nat) /\ Len(s) = IF 1 <= b - a THEN (b - a) - 1 + 1 ELSE 0
        /\ \A k \in 1 .. (b - a) - 1 + 1 : s[k] = w[1 + k - 1]
    BY <1>d, <2>1, SubSeqProperties
  <2> HIDE DEF s
  <2>3. \A k \in 1 .. b - a : 1 + k - 1 = k
    OBVIOUS
  <2> QED BY <1>d, <2>2, <2>3
<1>3. t \in Seq(Nat \X Nat) /\ Len(t) = c - b /\ \A k \in 1 .. c - b : t[k] = w[(b - a) + k]
  <2>1. \A k \in (b - a) + 1 .. c - a : w[k] \in Nat \X Nat
    BY <1>d
  <2>2. /\ t \in Seq(Nat \X Nat)
        /\ Len(t) = IF (b - a) + 1 <= c - a THEN (c - a) - ((b - a) + 1) + 1 ELSE 0
        /\ \A k \in 1 .. (c - a) - ((b - a) + 1) + 1 : t[k] = w[((b - a) + 1) + k - 1]
    BY <1>d, <2>1, SubSeqProperties
  <2> HIDE DEF t
  <2>3. (c - a) - ((b - a) + 1) + 1 = c - b
    OBVIOUS
  <2>4. \A k \in 1 .. c - b : ((b - a) + 1) + k - 1 = (b - a) + k
    OBVIOUS
  <2> QED BY <1>d, <2>2, <2>3, <2>4
<1> HIDE DEF s, t
<1>4. s = u
  <2>1. \A k \in 1 .. b - a : s[k] = u[k]
    <3> TAKE k \in 1 .. b - a
    <3>1. k \in 1 .. c - a
      OBVIOUS
    <3> QED BY <1>a, <1>c, <1>2, <3>1
  <2> QED BY <1>d, <1>2, <2>1, SeqEqual
<1>5. t = v
  <2>1. \A k \in 1 .. c - b : t[k] = v[k]
    <3> TAKE k \in 1 .. c - b
    <3>1. (b - a) + k \in 1 .. c - a /\ a + ((b - a) + k) = b + k
      OBVIOUS
    <3>2. t[k] = w[(b - a) + k]
      BY <1>3
    <3>3. w[(b - a) + k] = <<n, a + ((b - a) + k)>>
      BY <1>c, <3>1
    <3> QED BY <1>b, <3>1, <3>2, <3>3
  <2> QED BY <1>d, <1>3, <2>1, SeqEqual
<1>6. /\ SubSeq(w, 1, b - a) = u
      /\ SubSeq(w, (b - a) + 1, Len(w)) = v
  BY <1>d, <1>4, <1>5 DEF s, t
<1> QED BY <1>6 DEF SplitsAt, u, v, w

\* Packets end within the transfer and are of at most Size units.
LEMMA UntilIs ==
  ASSUME NEW len \in Nat, NEW a \in 0 .. len
  PROVE  /\ Until(len, a) \in Nat /\ a <= Until(len, a) /\ Until(len, a) <= len
         /\ Until(len, a) - a = (IF len - a < Size THEN len - a ELSE Size)
         /\ Until(len, len) = len
BY UdpAssumption DEF Until

LEMMA AheadIs ==
  ASSUME NEW k, NEW len \in Nat, NEW a \in 0 .. len
  PROVE  /\ Ahead(k, len, a) \in Nat /\ Until(len, a) <= Ahead(k, len, a) /\ Ahead(k, len, a) <= len
         /\ Until(len, a) \in 0 .. len
<1>1. Until(len, a) \in 0 .. len
  BY UntilIs
<1>2. Until(len, Until(len, a)) \in Nat /\ Until(len, a) <= Until(len, Until(len, a))
      /\ Until(len, Until(len, a)) <= len
  BY <1>1, UntilIs
<1> QED BY <1>1, <1>2 DEF Ahead

\* UDP_WritePayload moves the next packet from the descriptor to the FIFO, which has
\* the units after a.
Loads(x, h, n, len, c, a) ==
  /\ XFields(x) /\ HFields(h) /\ x.transferred \in Nat /\ Loaded(x, n, len, c)
  /\ h.build = Units(n, a, c)
  => /\ XFields(Load(x, h).x) /\ Load(x, h).x.transferred = x.transferred
     /\ Loaded(Load(x, h).x, n, len, Until(len, c))
     /\ HFields(Load(x, h).hw)
     /\ Load(x, h).hw = [h EXCEPT !.build = Units(n, a, Until(len, c))]

LEMMA LoadIs ==
  ASSUME NEW x, NEW h, NEW n \in Nat, NEW len \in Nat, NEW c \in 0 .. len, NEW a \in 0 .. c
  PROVE  Loads(x, h, n, len, c, a)
<1>0. PICK u \in Nat : u = Until(len, c)
  BY UntilIs
<1>1. u \in Nat /\ c <= u /\ u <= len /\ u - c = IF len - c < Size THEN len - c ELSE Size
  BY <1>0, UntilIs
<1>a. SplitsAt(n, c, len, u - c, u)
  <2>1. c \in Nat /\ len \in Nat /\ u \in Nat /\ c <= u /\ u <= len
    BY <1>1
  <2> QED BY <2>1, UnitsSplit
<1>b. Units(n, a, c) \o Units(n, c, u) = Units(n, a, u)
  <2>1. a \in Nat /\ c \in Nat /\ u \in Nat /\ a <= c /\ c <= u
    BY <1>1
  <2> QED BY <2>1, UnitsJoin
<1> SUFFICES ASSUME XFields(x), HFields(h), x.transferred \in Nat, Loaded(x, n, len, c),
                    h.build = Units(n, a, c)
             PROVE  /\ XFields(Load(x, h).x) /\ Load(x, h).x.transferred = x.transferred
                    /\ Loaded(Load(x, h).x, n, len, u)
                    /\ HFields(Load(x, h).hw)
                    /\ Load(x, h).hw = [h EXCEPT !.build = Units(n, a, u)]
  BY <1>0 DEF Loads
<1> DEFINE size == IF x.remaining < Size THEN x.remaining ELSE Size
           f == [x EXCEPT !.data = IF size > 0 THEN SubSeq(@, size + 1, Len(@)) ELSE @,
                          !.buffered = @ + size, !.remaining = @ - size]
           e == [h EXCEPT !.build = @ \o SubSeq(x.data, 1, size)]
<1>2. Load(x, h).x = f /\ Load(x, h).hw = e
  BY DEF Load
<1> HIDE DEF f, e
<1>3. x.remaining = len - c /\ x.data = Units(n, c, len) /\ x.buffered = c - x.transferred
  BY DEF Loaded
<1>4. size = u - c
  BY <1>1, <1>3
<1> HIDE DEF size
<1>5. /\ SubSeq(x.data, 1, size) = Units(n, c, u)
      /\ SubSeq(x.data, size + 1, Len(x.data)) = Units(n, u, len)
  <2>1. SplitsAt(n, c, len, size, u)
    BY <1>4, <1>a
  <2> QED BY <1>3, <2>1 DEF SplitsAt
<1>6. size = 0 => u = c
  BY <1>1, <1>4
<1>7. (IF size > 0 THEN SubSeq(x.data, size + 1, Len(x.data)) ELSE x.data) = Units(n, u, len)
  BY <1>1, <1>3, <1>4, <1>5, <1>6
<1>8. f = [data |-> Units(n, u, len), remaining |-> x.remaining - size,
           buffered |-> x.buffered + size, transferred |-> x.transferred]
  <2> DEFINE d == IF size > 0 THEN SubSeq(x.data, size + 1, Len(x.data)) ELSE x.data
  <2>1. f = [x EXCEPT !.data = d, !.buffered = x.buffered + size, !.remaining = x.remaining - size]
    BY DEF f
  <2>2. d = Units(n, u, len)
    BY <1>7
  <2> HIDE DEF d
  <2> QED BY <2>1, <2>2 DEF XFields
<1>9. h.build \o SubSeq(x.data, 1, size) = Units(n, a, u)
  BY <1>5, <1>b
<1>10. e = [h EXCEPT !.build = Units(n, a, u)]
  BY <1>9 DEF e
<1>11. XFields(f) /\ f.transferred = x.transferred
  BY <1>8 DEF XFields
<1>12. Loaded(f, n, len, u)
  BY <1>1, <1>3, <1>4, <1>8 DEF Loaded
<1>13. HFields(e)
  BY <1>10 DEF HFields
<1> QED BY <1>2, <1>10, <1>11, <1>12, <1>13

\* Setting TXPKTRDY makes a packet of the FIFO.
LEMMA StartIs ==
  ASSUME NEW h, HFields(h)
  PROVE  /\ HFields(Start(h))
         /\ Start(h) = [build |-> <<>>, ready |-> TRUE, packet |-> h.build, comp |-> h.comp,
                        rx |-> h.rx, fill |-> h.fill, stall |-> h.stall, sent |-> h.sent]
<1>1. Start(h) = [h EXCEPT !.ready = TRUE, !.packet = h.build, !.build = <<>>]
  BY DEF Start
<1>2. Start(h) = [build |-> <<>>, ready |-> TRUE, packet |-> h.build, comp |-> h.comp,
                  rx |-> h.rx, fill |-> h.fill, stall |-> h.stall, sent |-> h.sent]
  BY <1>1 DEF HFields
<1>3. HFields(Start(h))
  BY <1>2 DEF HFields
<1> QED BY <1>2, <1>3

\* The flag TXCOMP is cleared.
Cleared(h) == [build |-> h.build, ready |-> h.ready, packet |-> h.packet, comp |-> FALSE,
               rx |-> h.rx, fill |-> h.fill, stall |-> h.stall, sent |-> h.sent]

LEMMA ClearedIs ==
  ASSUME NEW h, HFields(h)
  PROVE  [h EXCEPT !.comp = FALSE] = Cleared(h) /\ HFields(Cleared(h))
<1>1. PICK f : f = [h EXCEPT !.comp = FALSE]
  OBVIOUS
<1>2. f = Cleared(h)
  BY <1>1 DEF HFields, Cleared
<1>3. HFields(Cleared(h))
  BY DEF HFields, Cleared
<1> QED BY <1>1, <1>2, <1>3

-----------------------------------------------------------------------------
(* The steps of the host and of the main loop                               *)

\* What a step leaves of the registers when no packet moves.
LEMMA SameHw ==
  ASSUME NEW k, NEW p, NEW i, NEW e, NEW h, NEW g, NEW n, NEW len, NEW l, NEW f,
         Flow(k, p, i, e, h, g, n, len, l), HFields(f),
         f.build = h.build, f.ready = h.ready, f.packet = h.packet, f.comp = h.comp,
         f.rx = h.rx, e.state = "HALTED" => f.stall
  PROVE  Flow(k, p, i, e, f, g, n, len, l)
<1>1. CASE e.state = "SENDING"
  <2>1. Sending(k, p, i, e.x, h, g, n, len)
    BY <1>1 DEF Flow
  <2>2. Sending(k, p, i, e.x, f, g, n, len)
    BY <2>1 DEF Sending, NoneOut, Out
  <2> QED BY <1>1, <2>2 DEF Flow
<1>2. CASE e.state # "SENDING"
  <2>1. Resting(p, i, e.state, h)
    BY <1>2 DEF Flow
  <2>2. Resting(p, i, e.state, f)
    BY <2>1 DEF Resting
  <2> QED BY <1>2, <2>2 DEF Flow
<1> QED BY <1>1, <1>2

LEMMA ReadHw ==
  ASSUME NEW h, HFields(h), NEW f,
         f = [h EXCEPT !.ready = FALSE, !.packet = <<>>, !.comp = TRUE]
  PROVE  f = [build |-> h.build, ready |-> FALSE, packet |-> <<>>, comp |-> TRUE,
              rx |-> h.rx, fill |-> h.fill, stall |-> h.stall, sent |-> h.sent]
BY DEF HFields

\* The host reads the packet that is out.
LEMMA ReadKeeps ==
  ASSUME NEW k, NEW p, NEW i, NEW e, NEW h, NEW g, NEW n \in Nat, NEW len, NEW l,
         Flow(k, p, i, e, h, g, n, len, l), e.state \in State,
         e.state # "DISABLED", ~h.stall, h.ready
  PROVE  Flow(k, p, i, e, [h EXCEPT !.ready = FALSE, !.packet = <<>>, !.comp = TRUE],
              g \o h.packet, n, len, l)
<1> DEFINE f == [h EXCEPT !.ready = FALSE, !.packet = <<>>, !.comp = TRUE]
<1>1. /\ HFields(f) /\ f.ready = FALSE /\ f.packet = <<>> /\ f.comp = TRUE
      /\ f.build = h.build /\ f.rx = h.rx
  <2>1. HFields(h)
    BY DEF Flow
  <2>2. f = [build |-> h.build, ready |-> FALSE, packet |-> <<>>, comp |-> TRUE,
             rx |-> h.rx, fill |-> h.fill, stall |-> h.stall, sent |-> h.sent]
    BY <2>1, ReadHw
  <2> HIDE DEF f
  <2> QED BY <2>1, <2>2 DEF HFields
<1>2. e.state = "SENDING"
  BY DEF Flow, Resting, State
<1>3. PICK t : t = e.x.transferred
  OBVIOUS
<1>4. /\ Sending(k, p, i, e.x, h, g, n, len) /\ t \in 0 .. len /\ len \in Nat
      /\ l.n < n /\ l.n \in Nat
  BY <1>2, <1>3 DEF Flow, Sending
<1>5. PICK u : u = Until(len, t)
  OBVIOUS
<1>6. u \in Nat /\ t \in Nat /\ 0 <= t /\ t <= u
  BY <1>4, <1>5, UntilIs
<1>7. /\ p \in {"second", "enable", "idle"} /\ (p = "second" => t = 0)
      /\ Out(h, g, n, len, t)
  BY <1>3, <1>4 DEF Sending, NoneOut
<1>8. h.packet = Units(n, t, u) /\ g = Units(n, 0, t)
  BY <1>5, <1>7 DEF Out
<1>9. g \o h.packet = Units(n, 0, u)
  <2>1. Units(n, 0, t) \o Units(n, t, u) = Units(n, 0, u)
    BY <1>6, UnitsJoin
  <2> QED BY <1>8, <2>1
<1> HIDE DEF f
<1>10. Out(f, g \o h.packet, n, len, t)
  BY <1>1, <1>5, <1>9 DEF Out
<1>11. Sending(k, p, i, e.x, f, g \o h.packet, n, len)
  BY <1>1, <1>3, <1>4, <1>7, <1>10 DEF Sending
<1>12. Reported(l, g \o h.packet, n, len)
  BY <1>4 DEF Reported
<1>13. \E a \in Nat : g \o h.packet = Units(n, 0, a)
  BY <1>6, <1>9
<1>14. Flow(k, p, i, e, f, g \o h.packet, n, len, l)
  BY <1>1, <1>2, <1>4, <1>11, <1>12, <1>13 DEF Flow
<1> QED BY <1>14 DEF f

LEMMA HostStream ==
  ASSUME Now, IInv, Dir = "in", ~off, Host
  PROVE  Now'
<1>1. CASE HostReads
  <2>1. /\ UNCHANGED <<ep, ie, pc, xfer, last, kind>> /\ ep.state # "DISABLED" /\ ~hw.stall /\ hw.ready
        /\ hw' = [hw EXCEPT !.ready = FALSE, !.packet = <<>>, !.comp = TRUE]
        /\ got' = got \o hw.packet
    BY <1>1 DEF HostReads
  <2>2. Flow(Banks, pc, ie, ep, [hw EXCEPT !.ready = FALSE, !.packet = <<>>, !.comp = TRUE],
             got \o hw.packet, xfer.n, xfer.len, last)
    BY <2>1, ReadKeeps DEF Now, IInv, Shape
  <2> QED BY <2>1, <2>2 DEF Now, Banks
<1>2. CASE HostSends
  BY <1>2 DEF HostSends
<1>3. CASE HostStalled
  <2>1. UNCHANGED <<ep, ie, pc, xfer, last, kind, got>> /\ hw' = [hw EXCEPT !.sent = TRUE]
    BY <1>3 DEF HostStalled, history
  <2>2. PICK f : f = [hw EXCEPT !.sent = TRUE]
    OBVIOUS
  <2>3. /\ HFields(f) /\ f.build = hw.build /\ f.ready = hw.ready /\ f.packet = hw.packet
        /\ f.comp = hw.comp /\ f.rx = hw.rx /\ f.stall = hw.stall
    BY <2>2 DEF Now, Flow, HFields
  <2>4. ep.state = "HALTED" => f.stall
    BY <2>3 DEF Now, Flow, Resting
  <2>5. Flow(Banks, pc, ie, ep, f, got, xfer.n, xfer.len, last)
    BY <2>3, <2>4, SameHw DEF Now
  <2> QED BY <2>1, <2>2, <2>5 DEF Now, Banks
<1> QED BY <1>1, <1>2, <1>3 DEF Host

\* The wait for TXPKTRDY and the first packet.
LEMMA LoadKeeps ==
  ASSUME NEW k, NEW i, NEW e, NEW h, NEW g, NEW n \in Nat, NEW len, NEW l, NEW d,
         Flow(k, "load", i, e, h, g, n, len, l),
         d.state = e.state, d.x = Load(e.x, h).x
  PROVE  Flow(k, "start", i, d, Load(e.x, h).hw, g, n, len, l)
<1>1. e.state = "SENDING" /\ Sending(k, "load", i, e.x, h, g, n, len)
  BY DEF Flow, Resting
<1>2. /\ XFields(e.x) /\ HFields(h) /\ len \in Nat /\ l.n \in Nat /\ h.rx = <<>> /\ l.n < n
      /\ \E a \in Nat : g = Units(n, 0, a)
  BY <1>1 DEF Flow
<1>3. NoneOut(h, g) /\ h.build = <<>> /\ Loaded(e.x, n, len, 0) /\ e.x.transferred = 0
  BY <1>1 DEF Sending
<1>4. h.build = Units(n, 0, 0)
  BY <1>3, NoUnits
<1>5. PICK x, f : x = Load(e.x, h).x /\ f = Load(e.x, h).hw
  OBVIOUS
<1>6. PICK u \in Nat : u = Until(len, 0)
  BY <1>2, UntilIs
<1>7. /\ XFields(x) /\ x.transferred = 0 /\ Loaded(x, n, len, u)
      /\ HFields(f) /\ f = [h EXCEPT !.build = Units(n, 0, u)]
  <2>1. 0 \in 0 .. len /\ 0 \in 0 .. 0 /\ e.x.transferred \in Nat
    BY <1>2, <1>3
  <2>2. Loads(e.x, h, n, len, 0, 0)
    BY <1>2, <2>1, LoadIs
  <2> QED BY <1>2, <1>3, <1>4, <1>5, <1>6, <2>1, <2>2 DEF Loads
<1>8. /\ f.ready = h.ready /\ f.comp = h.comp /\ f.packet = h.packet /\ f.rx = h.rx
      /\ f.build = Units(n, 0, u)
  BY <1>2, <1>7 DEF HFields
<1>9. NoneOut(f, g)
  BY <1>3, <1>8 DEF NoneOut
<1>10. Sending(k, "start", i, x, f, g, n, len)
  BY <1>2, <1>6, <1>7, <1>8, <1>9 DEF Sending
<1>11. Reported(l, g, n, len)
  BY <1>2 DEF Reported
<1> QED BY <1>1, <1>2, <1>5, <1>7, <1>8, <1>10, <1>11 DEF Flow

\* The first packet is announced; UDP_Write goes on with the second if the FIFO has room
\* for it and the descriptor has one.
LEMMA StartKeeps ==
  ASSUME NEW k \in {1, 2}, NEW p, NEW i, NEW e, NEW h, NEW g, NEW n \in Nat, NEW len, NEW l,
         Flow(k, "start", i, e, h, g, n, len, l),
         p = IF k > 1 /\ e.x.remaining > 0 THEN "second" ELSE "enable"
  PROVE  Flow(k, p, i, e, Start(h), g, n, len, l)
<1>1. e.state = "SENDING" /\ Sending(k, "start", i, e.x, h, g, n, len)
  BY DEF Flow, Resting
<1>2. /\ XFields(e.x) /\ HFields(h) /\ len \in Nat /\ l.n \in Nat /\ h.rx = <<>> /\ l.n < n
      /\ \E a \in Nat : g = Units(n, 0, a)
  BY <1>1 DEF Flow
<1>3. PICK u : u = Until(len, 0)
  OBVIOUS
<1>4. u \in Nat /\ u <= len /\ u \in 0 .. len
  BY <1>2, <1>3, UntilIs
<1>5. /\ NoneOut(h, g) /\ h.build = Units(n, 0, u) /\ Loaded(e.x, n, len, u)
      /\ e.x.transferred = 0
  BY <1>1, <1>3 DEF Sending
<1>6. PICK f : f = Start(h)
  OBVIOUS
<1>7. /\ HFields(f) /\ f.build = <<>> /\ f.ready = TRUE /\ f.packet = Units(n, 0, u)
      /\ f.comp = h.comp /\ f.rx = h.rx
  BY <1>2, <1>5, <1>6, StartIs
<1>8. g = Units(n, 0, 0)
  BY <1>5, NoUnits DEF NoneOut
<1>9. Out(f, g, n, len, 0)
  BY <1>3, <1>5, <1>7, <1>8 DEF Out, NoneOut
<1>10. Reported(l, g, n, len)
  BY <1>2 DEF Reported
<1>11. Sending(k, p, i, e.x, f, g, n, len)
  <2>1. CASE k > 1 /\ e.x.remaining > 0
    <3>1. p = "second" /\ k # 1
      BY <2>1
    <3> QED BY <1>2, <1>3, <1>5, <1>7, <1>9, <3>1 DEF Sending
  <2>2. CASE ~(k > 1 /\ e.x.remaining > 0)
    <3>1. p = "enable"
      BY <2>2
    <3>2. e.x.remaining = len - u
      BY <1>5 DEF Loaded
    <3>3. k = 1 \/ u = len
      BY <1>2, <1>4, <2>2, <3>2
    <3>4. Until(len, len) = len
      BY <1>2, UntilIs
    <3>5. Ahead(k, len, 0) = u
      BY <1>3, <3>3, <3>4 DEF Ahead
    <3>6. f.build = Units(n, u, u)
      BY <1>4, <1>7, NoUnits
    <3> QED BY <1>2, <1>3, <1>5, <1>9, <3>1, <3>5, <3>6 DEF Sending
  <2> QED BY <2>1, <2>2
<1> QED BY <1>1, <1>2, <1>6, <1>7, <1>10, <1>11 DEF Flow

\* The second packet is loaded behind the first.
LEMMA SecondKeeps ==
  ASSUME NEW k, NEW i, NEW e, NEW h, NEW g, NEW n \in Nat, NEW len, NEW l, NEW d,
         Flow(k, "second", i, e, h, g, n, len, l),
         d.state = e.state, d.x = Load(e.x, h).x
  PROVE  Flow(k, "enable", i, d, Load(e.x, h).hw, g, n, len, l)
<1>1. e.state = "SENDING" /\ Sending(k, "second", i, e.x, h, g, n, len)
  BY DEF Flow, Resting
<1>2. /\ XFields(e.x) /\ HFields(h) /\ len \in Nat /\ l.n \in Nat /\ h.rx = <<>> /\ l.n < n
      /\ \E a \in Nat : g = Units(n, 0, a)
  BY <1>1 DEF Flow
<1>3. PICK u : u = Until(len, 0)
  OBVIOUS
<1>4. u \in Nat /\ u <= len /\ u \in 0 .. len /\ u \in 0 .. u
  BY <1>2, <1>3, UntilIs
<1>5. /\ k # 1 /\ Out(h, g, n, len, 0) /\ h.build = <<>> /\ Loaded(e.x, n, len, u)
      /\ e.x.transferred = 0
  BY <1>1, <1>3 DEF Sending
<1>6. h.build = Units(n, u, u)
  BY <1>4, <1>5, NoUnits
<1>7. PICK x, f : x = Load(e.x, h).x /\ f = Load(e.x, h).hw
  OBVIOUS
<1>8. PICK v : v = Until(len, u)
  OBVIOUS
<1>9. /\ XFields(x) /\ x.transferred = 0 /\ Loaded(x, n, len, v)
      /\ HFields(f) /\ f = [h EXCEPT !.build = Units(n, u, v)]
  <2>1. Loads(e.x, h, n, len, u, u)
    BY <1>2, <1>4, LoadIs
  <2> QED BY <1>2, <1>5, <1>6, <1>7, <1>8, <2>1 DEF Loads
<1>10. /\ f.ready = h.ready /\ f.comp = h.comp /\ f.packet = h.packet /\ f.rx = h.rx
       /\ f.build = Units(n, u, v)
  BY <1>2, <1>9 DEF HFields
<1>11. Out(f, g, n, len, 0)
  BY <1>5, <1>10 DEF Out
<1>12. Ahead(k, len, 0) = v
  BY <1>3, <1>5, <1>8 DEF Ahead
<1>13. Sending(k, "enable", i, x, f, g, n, len)
  BY <1>2, <1>3, <1>9, <1>10, <1>11, <1>12 DEF Sending
<1>14. Reported(l, g, n, len)
  BY <1>2 DEF Reported
<1> QED BY <1>1, <1>2, <1>7, <1>9, <1>10, <1>13, <1>14 DEF Flow

\* A transfer begins at an endpoint at rest whose last packet, if any, is dealt with.
LEMMA SetupKeeps ==
  ASSUME NEW k, NEW i, NEW e, NEW h, NEW g, NEW n \in Nat, NEW len, NEW l,
         Flow(k, "setup", i, e, h, g, n, len, l), e.state = "IDLE", ~(i /\ h.comp),
         NEW m \in Nat, NEW d, d.state = "SENDING", d.x = NewXfer([j \in 1 .. m |-> <<n + 1, j>>], m)
  PROVE  Flow(k, "load", i, d, h, <<>>, n + 1, m, l)
<1>1. /\ XFields(e.x) /\ HFields(h) /\ l.n \in Nat /\ h.rx = <<>> /\ l.n <= n
      /\ Resting("setup", i, "IDLE", h)
  BY DEF Flow, Reported
<1>2. ~h.ready /\ ~h.comp /\ h.packet = <<>> /\ h.build = <<>>
  BY <1>1 DEF Resting
<1>3. Units(n + 1, 0, m) = [j \in 1 .. m |-> <<n + 1, j>>]
  <2>1. m - 0 = m /\ \A j \in 1 .. m : 0 + j = j
    OBVIOUS
  <2> QED BY <2>1 DEF Units
<1>4. PICK x : x = d.x
  OBVIOUS
<1>5. x = [data |-> Units(n + 1, 0, m), remaining |-> m, buffered |-> 0, transferred |-> 0]
  BY <1>3, <1>4 DEF NewXfer
<1>6. XFields(x) /\ x.transferred = 0 /\ Loaded(x, n + 1, m, 0)
  BY <1>5 DEF XFields, Loaded
<1>7. NoneOut(h, <<>>)
  BY <1>2 DEF NoneOut
<1>8. Sending(k, "load", i, x, h, <<>>, n + 1, m)
  BY <1>2, <1>6, <1>7 DEF Sending
<1>9. l.n < n + 1 /\ Reported(l, <<>>, n + 1, m)
  BY <1>1 DEF Reported
<1>10. \E a \in Nat : <<>> = Units(n + 1, 0, a)
  <2>1. <<>> = Units(n + 1, 0, 0)
    BY NoUnits
  <2> QED BY <2>1
<1> QED BY <1>1, <1>4, <1>6, <1>8, <1>9, <1>10 DEF Flow

LEMMA BanksType == Shape => Banks \in {1, 2}
  BY UdpAssumption DEF Shape, Banks

LEMMA MainLoopStream ==
  ASSUME Now, IInv, Dir = "in", ~off, MainLoop
  PROVE  Now'
<1>1. CASE Write
  <2>1. /\ pc = "idle" /\ ep.state = "IDLE" /\ pc' = "setup"
        /\ UNCHANGED <<kind, ep, ie, hw, xfer, last, got>>
    BY <1>1 DEF Write, history
  <2>2. Resting(pc, ie, ep.state, hw)
    BY <2>1 DEF Now, Flow
  <2>3. Resting("setup", ie, ep.state, hw)
    BY <2>2 DEF Resting
  <2>4. Flow(Banks, "setup", ie, ep, hw, got, xfer.n, xfer.len, last)
    BY <2>1, <2>3 DEF Now, Flow
  <2> QED BY <2>1, <2>4 DEF Now, Banks
<1>2. CASE WriteSetup
  <2>1. pc = "setup" /\ pc' = "load" /\ got' = <<>> /\ UNCHANGED <<kind, ie, hw, last>>
    BY <1>2 DEF WriteSetup
  <2>2. PICK m \in Lengths :
          /\ xfer' = [n |-> xfer.n + 1, len |-> m]
          /\ ep' = [ep EXCEPT !.state = "SENDING",
                              !.x = NewXfer([k \in 1 .. m |-> <<xfer.n + 1, k>>], m)]
    BY <1>2 DEF WriteSetup
  <2>3. PICK x : x = NewXfer([k \in 1 .. m |-> <<xfer.n + 1, k>>], m)
    OBVIOUS
  <2>4. ep' = [state |-> "SENDING", bank |-> ep.bank, x |-> x]
    BY <2>2, <2>3 DEF IInv, Shape
  <2>5. ep'.state = "SENDING" /\ ep'.x = NewXfer([k \in 1 .. m |-> <<xfer.n + 1, k>>], m)
    BY <2>3, <2>4
  <2>6. ep.state = "IDLE"
    BY <2>1 DEF IInv, Undisturbed
  <2>7. ~(ie /\ hw.comp)
    BY DEF MainLoop, Preempted
  <2>8. m \in Nat
    BY UdpAssumption
  <2>9. Flow(Banks, "setup", ie, ep, hw, got, xfer.n, xfer.len, last)
    BY <2>1 DEF Now
  <2>10. xfer.n \in Nat
    BY DEF IInv, Shape
  <2>11. Flow(Banks, "load", ie, ep', hw, <<>>, xfer.n + 1, m, last)
    BY <2>5, <2>6, <2>7, <2>8, <2>9, <2>10, SetupKeeps
  <2>12. xfer'.n = xfer.n + 1 /\ xfer'.len = m
    BY <2>2
  <2> QED BY <2>1, <2>11, <2>12 DEF Now, Banks
<1>3. CASE WriteLoad
  <2>1. /\ pc = "load" /\ pc' = "start" /\ UNCHANGED <<kind, ie, xfer, last, got>>
        /\ ep' = [ep EXCEPT !.x = Load(ep.x, hw).x] /\ hw' = Load(ep.x, hw).hw
    BY <1>3 DEF WriteLoad, history
  <2>2. ep'.state = ep.state /\ ep'.x = Load(ep.x, hw).x
    BY <2>1 DEF IInv, Shape
  <2>3. Flow(Banks, "load", ie, ep, hw, got, xfer.n, xfer.len, last) /\ xfer.n \in Nat
    BY <2>1 DEF Now, IInv, Shape
  <2>4. Flow(Banks, "start", ie, ep', Load(ep.x, hw).hw, got, xfer.n, xfer.len, last)
    BY <2>2, <2>3, LoadKeeps
  <2> QED BY <2>1, <2>4 DEF Now, Banks
<1>4. CASE WriteStart
  <2>1. /\ pc = "start" /\ UNCHANGED <<kind, ep, ie, xfer, last, got>> /\ hw' = Start(hw)
        /\ pc' = IF Banks > 1 /\ ep.x.remaining > 0 THEN "second" ELSE "enable"
    BY <1>4 DEF WriteStart, history
  <2>2. Flow(Banks, "start", ie, ep, hw, got, xfer.n, xfer.len, last) /\ xfer.n \in Nat
    BY <2>1 DEF Now, IInv, Shape
  <2>3. Banks \in {1, 2}
    BY BanksType DEF IInv
  <2>4. Flow(Banks, pc', ie, ep, Start(hw), got, xfer.n, xfer.len, last)
    BY <2>1, <2>2, <2>3, StartKeeps
  <2> QED BY <2>1, <2>4 DEF Now, Banks
<1>5. CASE WriteSecond
  <2>1. /\ pc = "second" /\ pc' = "enable" /\ UNCHANGED <<kind, ie, xfer, last, got>>
        /\ ep' = [ep EXCEPT !.x = Load(ep.x, hw).x] /\ hw' = Load(ep.x, hw).hw
    BY <1>5 DEF WriteSecond, history
  <2>2. ep'.state = ep.state /\ ep'.x = Load(ep.x, hw).x
    BY <2>1 DEF IInv, Shape
  <2>3. Flow(Banks, "second", ie, ep, hw, got, xfer.n, xfer.len, last) /\ xfer.n \in Nat
    BY <2>1 DEF Now, IInv, Shape
  <2>4. Flow(Banks, "enable", ie, ep', Load(ep.x, hw).hw, got, xfer.n, xfer.len, last)
    BY <2>2, <2>3, SecondKeeps
  <2> QED BY <2>1, <2>4 DEF Now, Banks
<1>6. CASE Enable
  <2>1. /\ pc = "enable" /\ pc' = "idle" /\ ie' = TRUE
        /\ UNCHANGED <<kind, ep, hw, xfer, last, got>>
    BY <1>6 DEF Enable, history
  <2>2. ep.state = "SENDING"
    BY <2>1 DEF Now, Flow, Resting
  <2>3. Sending(Banks, "enable", ie, ep.x, hw, got, xfer.n, xfer.len)
    BY <2>1, <2>2 DEF Now, Flow
  <2>4. Sending(Banks, "idle", TRUE, ep.x, hw, got, xfer.n, xfer.len)
    BY <2>3 DEF Sending
  <2>5. Flow(Banks, "idle", TRUE, ep, hw, got, xfer.n, xfer.len, last)
    BY <2>2, <2>4 DEF Now, Flow
  <2> QED BY <2>1, <2>5 DEF Now, Banks
<1>7. CASE Read \/ ReadSetup
  BY <1>7 DEF Read, ReadSetup
<1> QED BY <1>1, <1>2, <1>3, <1>4, <1>5, <1>6, <1>7 DEF MainLoop

-----------------------------------------------------------------------------
(* The steps of the interrupt                                               *)

\* What is known when TXCOMP is handled: one packet was read, and the driver knows the
\* rest by its counters.
LEMMA CompFacts ==
  ASSUME NEW k, NEW i, NEW e, NEW h, NEW g, NEW n \in Nat, NEW len, NEW l,
         Flow(k, "idle", i, e, h, g, n, len, l), e.state = "SENDING", h.comp,
         NEW t, t = e.x.transferred, NEW u, u = Until(len, t), NEW v, v = Ahead(k, len, t)
  PROVE  /\ XFields(e.x) /\ HFields(h) /\ h.rx = <<>> /\ len \in Nat /\ l.n \in Nat /\ l.n < n /\ i
         /\ t \in 0 .. len /\ u \in t .. len /\ v \in u .. len
         /\ u - t = (IF len - t < Size THEN len - t ELSE Size)
         /\ ~h.ready /\ h.packet = <<>> /\ g = Units(n, 0, u) /\ h.build = Units(n, u, v)
         /\ Loaded(e.x, n, len, v)
<1>1. /\ XFields(e.x) /\ HFields(h) /\ h.rx = <<>> /\ len \in Nat /\ l.n \in Nat /\ l.n < n
      /\ Sending(k, "idle", i, e.x, h, g, n, len)
  BY DEF Flow
<1>2. i /\ t \in 0 .. len
  BY <1>1 DEF Sending
<1>3. /\ Out(h, g, n, len, t) /\ h.build = Units(n, u, v) /\ Loaded(e.x, n, len, v)
  BY <1>1 DEF Sending
<1>4. ~h.ready /\ h.packet = <<>> /\ g = Units(n, 0, u)
  BY <1>3 DEF Out
<1>5. u \in t .. len /\ u - t = (IF len - t < Size THEN len - t ELSE Size)
  <2>1. \A a \in 0 .. len :
          /\ Until(len, a) \in a .. len
          /\ Until(len, a) - a = (IF len - a < Size THEN len - a ELSE Size)
    <3> TAKE a \in 0 .. len
    <3>1. /\ Until(len, a) \in Nat /\ a <= Until(len, a) /\ Until(len, a) <= len
          /\ Until(len, a) - a = (IF len - a < Size THEN len - a ELSE Size)
      BY <1>1, UntilIs
    <3> QED BY <1>1, <3>1
  <2> QED BY <1>2, <2>1
<1>6. v \in u .. len
  BY <1>1, <1>2, <1>5, AheadIs
<1> QED BY <1>1, <1>2, <1>3, <1>4, <1>5, <1>6

\* The host has all of a transfer that UDP_IsTransferFinished says is finished.
LEMMA FinishedFacts ==
  ASSUME NEW k, NEW i, NEW e, NEW h, NEW g, NEW n \in Nat, NEW len, NEW l,
         Flow(k, "idle", i, e, h, g, n, len, l), e.state = "SENDING", h.comp, Finished(e.x)
  PROVE  /\ e.x.transferred + e.x.buffered = len /\ e.x.remaining = 0
         /\ g = Units(n, 0, len) /\ Len(g) = len /\ h.build = <<>>
<1>1. PICK t, u, v : t = e.x.transferred /\ u = Until(len, t) /\ v = Ahead(k, len, t)
  OBVIOUS
<1>2. /\ len \in Nat /\ t \in 0 .. len /\ u \in t .. len /\ v \in u .. len
      /\ u - t = (IF len - t < Size THEN len - t ELSE Size)
      /\ g = Units(n, 0, u) /\ h.build = Units(n, u, v) /\ Loaded(e.x, n, len, v)
  BY <1>1, CompFacts
<1>3. e.x.remaining = len - v /\ e.x.buffered = v - t
  BY <1>1, <1>2 DEF Loaded
<1>4. e.x.remaining = 0 /\ e.x.buffered <= Size
  BY DEF Finished
<1>5. v = len /\ u = len
  BY <1>2, <1>3, <1>4, UdpAssumption
<1>6. Len(Units(n, 0, len)) = len
  <2>1. 0 \in Nat /\ 0 <= len /\ len - 0 = len
    BY <1>2
  <2>2. Len(Units(n, 0, len)) = len - 0
    BY <1>2, <2>1, UnitsAre
  <2> QED BY <2>1, <2>2
<1>7. h.build = <<>>
  BY <1>2, <1>5, NoUnits
<1>8. e.x.transferred + e.x.buffered = len
  BY <1>1, <1>2, <1>3, <1>5
<1> QED BY <1>2, <1>4, <1>5, <1>6, <1>7, <1>8

\* usb_write_cb starts an empty packet.
LEMMA ZlpKeeps ==
  ASSUME NEW k, NEW h, NEW n \in Nat, NEW l, l.n = n, NEW d, NEW f,
         HFields(h), h.rx = <<>>, h.build = <<>>,
         d.state = "SENDING", d.x = NewXfer(<<>>, 0),
         f = [Start(h) EXCEPT !.comp = FALSE]
  PROVE  Flow(k, "idle", TRUE, d, f, <<>>, n + 1, 0, l)
<1>1. Start(h) = [build |-> <<>>, ready |-> TRUE, packet |-> h.build, comp |-> h.comp,
                  rx |-> h.rx, fill |-> h.fill, stall |-> h.stall, sent |-> h.sent]
  BY StartIs
<1>2. f = Cleared(Start(h)) /\ HFields(f)
  <2>1. HFields(Start(h))
    BY StartIs
  <2> QED BY <2>1, ClearedIs
<1>3. /\ f.build = <<>> /\ f.ready = TRUE /\ f.packet = <<>> /\ f.comp = FALSE /\ f.rx = <<>>
  BY <1>1, <1>2 DEF Cleared
<1>4. PICK x : x = d.x
  OBVIOUS
<1>5. x = [data |-> <<>>, remaining |-> 0, buffered |-> 0, transferred |-> 0]
  BY <1>4 DEF NewXfer
<1>6. Units(n + 1, 0, 0) = <<>>
  <2>1. n + 1 \in Nat /\ 0 \in Nat
    OBVIOUS
  <2> QED BY <2>1, NoUnits
<1>7. Until(0, 0) = 0 /\ Ahead(k, 0, 0) = 0
  <2>1. Until(0, 0) = 0
    BY UntilIs
  <2> QED BY <2>1 DEF Ahead
<1>8. XFields(x) /\ x.transferred = 0 /\ Loaded(x, n + 1, 0, 0)
  BY <1>5, <1>6 DEF XFields, Loaded
<1>9. Out(f, <<>>, n + 1, 0, 0)
  BY <1>3, <1>6, <1>7 DEF Out
<1>10. Sending(k, "idle", TRUE, x, f, <<>>, n + 1, 0)
  BY <1>3, <1>6, <1>7, <1>8, <1>9 DEF Sending
<1>11. Reported(l, <<>>, n + 1, 0) /\ l.n < n + 1
  BY DEF Reported
<1>12. \E a \in Nat : <<>> = Units(n + 1, 0, a)
  BY <1>6
<1> QED BY <1>2, <1>3, <1>4, <1>8, <1>10, <1>11, <1>12 DEF Flow

\* The counters when a packet was sent.
Sent(x) == [x EXCEPT !.transferred = @ + Size, !.buffered = @ - Size]

LEMMA SentIs ==
  ASSUME NEW x, XFields(x)
  PROVE  Sent(x) = [data |-> x.data, remaining |-> x.remaining, buffered |-> x.buffered - Size,
                    transferred |-> x.transferred + Size]
<1>1. PICK z : z = Sent(x)
  OBVIOUS
<1>2. z = [data |-> x.data, remaining |-> x.remaining, buffered |-> x.buffered - Size,
           transferred |-> x.transferred + Size]
  BY <1>1 DEF Sent, XFields
<1> QED BY <1>1, <1>2

\* The controller between two packets: with the next one to announce, or announced.
LEMMA PacketOneBank ==
  ASSUME NEW i, NEW e, NEW h, NEW g, NEW n \in Nat, NEW len, NEW l,
         Flow(1, "idle", i, e, h, g, n, len, l), e.state = "SENDING", h.comp, ~Finished(e.x),
         NEW d, d.state = "SENDING", d.x = Load(Sent(e.x), h).x
  PROVE  /\ Flow(1, "idle", i, d, Cleared(Start(Load(Sent(e.x), h).hw)), g, n, len, l)
         /\ HFields(Load(Sent(e.x), h).hw)
<1>1. PICK t, u, v : t = e.x.transferred /\ u = Until(len, t) /\ v = Ahead(1, len, t)
  OBVIOUS
<1>2. /\ XFields(e.x) /\ HFields(h) /\ h.rx = <<>> /\ len \in Nat /\ l.n \in Nat /\ l.n < n /\ i
      /\ t \in 0 .. len /\ u \in t .. len
      /\ u - t = (IF len - t < Size THEN len - t ELSE Size)
      /\ g = Units(n, 0, u) /\ h.build = Units(n, u, v) /\ Loaded(e.x, n, len, v)
  BY <1>1, CompFacts
<1>3. v = u
  BY <1>1 DEF Ahead
<1>4. e.x.remaining = len - u /\ e.x.buffered = u - t /\ e.x.data = Units(n, u, len)
  BY <1>1, <1>2, <1>3 DEF Loaded
<1>5. u = t + Size
  BY <1>2, <1>4, UdpAssumption DEF Finished
<1>0. PICK x : x = Sent(e.x)
  OBVIOUS
<1>6. x = [data |-> Units(n, u, len), remaining |-> len - u, buffered |-> 0, transferred |-> u]
  <2>1. x = [data |-> e.x.data, remaining |-> e.x.remaining, buffered |-> e.x.buffered - Size,
             transferred |-> t + Size]
    BY <1>0, <1>1, <1>2, SentIs
  <2>2. e.x.buffered - Size = 0
    BY <1>2, <1>4, <1>5, UdpAssumption
  <2> QED BY <1>4, <1>5, <2>1, <2>2
<1>7. XFields(x) /\ x.transferred = u /\ x.transferred \in Nat /\ Loaded(x, n, len, u)
  <2>1. u \in Nat /\ u - u = 0
    BY <1>2
  <2> QED BY <1>6, <2>1 DEF XFields, Loaded
<1>8. PICK y, b : y = Load(x, h).x /\ b = Load(x, h).hw
  OBVIOUS
<1>9. PICK w : w = Until(len, u)
  OBVIOUS
<1>10. u \in Nat /\ u \in 0 .. len /\ u \in 0 .. u /\ w \in Nat
  BY <1>2, <1>9, UntilIs
<1>11. /\ XFields(y) /\ y.transferred = u /\ Loaded(y, n, len, w)
       /\ HFields(b) /\ b = [h EXCEPT !.build = Units(n, u, w)]
  <2>1. Loads(x, h, n, len, u, u)
    BY <1>2, <1>10, LoadIs
  <2> QED BY <1>2, <1>3, <1>7, <1>8, <1>9, <2>1 DEF Loads
<1>12. b.build = Units(n, u, w) /\ b.rx = <<>>
  BY <1>2, <1>11 DEF HFields
<1>a. PICK f : f = Cleared(Start(b))
  OBVIOUS
<1>13. /\ f.build = <<>> /\ f.ready = TRUE /\ f.packet = Units(n, u, w) /\ f.comp = FALSE
       /\ f.rx = <<>>
  <2>1. Start(b) = [build |-> <<>>, ready |-> TRUE, packet |-> b.build, comp |-> b.comp,
                    rx |-> b.rx, fill |-> b.fill, stall |-> b.stall, sent |-> b.sent]
    BY <1>11, StartIs
  <2> QED BY <1>12, <1>a, <2>1 DEF Cleared
<1>14. HFields(f)
  BY <1>11, <1>a, StartIs, ClearedIs
<1>15. Out(f, g, n, len, u)
  BY <1>2, <1>9, <1>13 DEF Out
<1>16. Ahead(1, len, u) = w /\ Units(n, w, w) = <<>>
  BY <1>9, <1>10, NoUnits DEF Ahead
<1>17. Sending(1, "idle", i, y, f, g, n, len)
  BY <1>2, <1>9, <1>10, <1>11, <1>13, <1>15, <1>16 DEF Sending
<1>18. Reported(l, g, n, len)
  BY <1>2 DEF Reported
<1>19. Flow(1, "idle", i, d, f, g, n, len, l)
  BY <1>0, <1>2, <1>8, <1>10, <1>11, <1>13, <1>14, <1>17, <1>18 DEF Flow
<1> QED BY <1>0, <1>8, <1>11, <1>19, <1>a

LEMMA PacketTwoBanks ==
  ASSUME NEW i, NEW e, NEW h, NEW g, NEW n \in Nat, NEW len, NEW l,
         Flow(2, "idle", i, e, h, g, n, len, l), e.state = "SENDING", h.comp, ~Finished(e.x),
         NEW d, d.state = "SENDING", d.x = Load(Sent(e.x), Start(h)).x
  PROVE  /\ Flow(2, "idle", i, d, Cleared(Load(Sent(e.x), Start(h)).hw), g, n, len, l)
         /\ HFields(Load(Sent(e.x), Start(h)).hw)
<1>1. PICK t, u, v : t = e.x.transferred /\ u = Until(len, t) /\ v = Ahead(2, len, t)
  OBVIOUS
<1>2. /\ XFields(e.x) /\ HFields(h) /\ h.rx = <<>> /\ len \in Nat /\ l.n \in Nat /\ l.n < n /\ i
      /\ t \in 0 .. len /\ u \in t .. len /\ v \in u .. len
      /\ u - t = (IF len - t < Size THEN len - t ELSE Size)
      /\ g = Units(n, 0, u) /\ h.build = Units(n, u, v) /\ Loaded(e.x, n, len, v)
  BY <1>1, CompFacts
<1>3. v = Until(len, u)
  BY <1>1 DEF Ahead
<1>4. e.x.remaining = len - v /\ e.x.buffered = v - t /\ e.x.data = Units(n, v, len)
  BY <1>1, <1>2 DEF Loaded
<1>5. u = t + Size
  <2>1. CASE len - t < Size
    <3>1. u = len /\ v = len
      BY <1>2, <2>1
    <3>2. e.x.remaining = 0 /\ e.x.buffered <= Size
      BY <1>2, <1>4, <2>1, <3>1, UdpAssumption
    <3> QED BY <3>2 DEF Finished
  <2>2. CASE ~(len - t < Size)
    BY <1>2, <2>2, UdpAssumption
  <2> QED BY <2>1, <2>2
<1>0. PICK x : x = Sent(e.x)
  OBVIOUS
<1>6. x = [data |-> Units(n, v, len), remaining |-> len - v, buffered |-> v - u, transferred |-> u]
  <2>1. x = [data |-> e.x.data, remaining |-> e.x.remaining, buffered |-> e.x.buffered - Size,
             transferred |-> t + Size]
    BY <1>0, <1>1, <1>2, SentIs
  <2>2. e.x.buffered - Size = v - u
    BY <1>2, <1>4, <1>5, UdpAssumption
  <2> QED BY <1>4, <1>5, <2>1, <2>2
<1>7. XFields(x) /\ x.transferred = u /\ x.transferred \in Nat /\ Loaded(x, n, len, v)
  <2>1. u \in Nat
    BY <1>2
  <2> QED BY <1>6, <2>1 DEF XFields, Loaded
<1>8. PICK c : c = Start(h)
  OBVIOUS
<1>9. /\ HFields(c)
      /\ c = [build |-> <<>>, ready |-> TRUE, packet |-> Units(n, u, v), comp |-> h.comp,
              rx |-> <<>>, fill |-> h.fill, stall |-> h.stall, sent |-> h.sent]
  BY <1>2, <1>8, StartIs
<1>10. PICK y, b : y = Load(x, c).x /\ b = Load(x, c).hw
  OBVIOUS
<1>11. PICK w : w = Until(len, v)
  OBVIOUS
<1>12. /\ u \in Nat /\ v \in Nat /\ u \in 0 .. len /\ v \in 0 .. len /\ v \in 0 .. v
       /\ c.build = Units(n, v, v)
  BY <1>2, <1>9, NoUnits
<1>13. /\ XFields(y) /\ y.transferred = u /\ Loaded(y, n, len, w)
       /\ HFields(b) /\ b = [c EXCEPT !.build = Units(n, v, w)]
  <2>1. Loads(x, c, n, len, v, v)
    BY <1>2, <1>12, LoadIs
  <2> QED BY <1>7, <1>9, <1>10, <1>11, <1>12, <2>1 DEF Loads
<1>a. PICK f : f = Cleared(b)
  OBVIOUS
<1>14. /\ f.build = Units(n, v, w) /\ f.ready = TRUE /\ f.packet = Units(n, u, v) /\ f.comp = FALSE
       /\ f.rx = <<>>
  <2>1. b = [build |-> Units(n, v, w), ready |-> TRUE, packet |-> Units(n, u, v), comp |-> h.comp,
             rx |-> <<>>, fill |-> h.fill, stall |-> h.stall, sent |-> h.sent]
    BY <1>9, <1>13
  <2> QED BY <1>a, <2>1 DEF Cleared
<1>15. HFields(f)
  BY <1>13, <1>a, ClearedIs
<1>16. Out(f, g, n, len, u)
  BY <1>2, <1>3, <1>14 DEF Out
<1>17. Ahead(2, len, u) = w
  BY <1>3, <1>11 DEF Ahead
<1>18. Sending(2, "idle", i, y, f, g, n, len)
  BY <1>2, <1>3, <1>12, <1>13, <1>14, <1>16, <1>17 DEF Sending
<1>19. Reported(l, g, n, len)
  BY <1>2 DEF Reported
<1>20. Flow(2, "idle", i, d, f, g, n, len, l)
  BY <1>0, <1>2, <1>8, <1>10, <1>12, <1>13, <1>14, <1>15, <1>18, <1>19 DEF Flow
<1> QED BY <1>0, <1>8, <1>10, <1>13, <1>20, <1>a

LEMMA TransferSentStream ==
  ASSUME Now, IInv, Dir = "in", ~off, pc = "idle", TransferSent
  PROVE  Now'
<1>1. hw.comp /\ ep.state = "SENDING" /\ Finished(ep.x) /\ UNCHANGED <<kind, pc>>
  BY DEF TransferSent
<1>2. PICK done : done = [ep EXCEPT !.x.transferred = @ + ep.x.buffered, !.x.buffered = 0]
  OBVIOUS
<1>3. PICK zlp \in BOOLEAN :
        /\ ep' = [ep EXCEPT !.state = IF zlp THEN @ ELSE "IDLE",
                            !.x = IF zlp THEN NewXfer(<<>>, 0) ELSE NoXfer]
        /\ hw' = [(IF zlp THEN Start(hw) ELSE hw) EXCEPT !.comp = FALSE]
        /\ ie' = zlp
        /\ xfer' = IF zlp THEN [n |-> xfer.n + 1, len |-> 0] ELSE xfer
        /\ got' = IF zlp THEN <<>> ELSE got
        /\ last' = [n |-> xfer.n, status |-> "SUCCESS", transferred |-> done.x.transferred,
                    remaining |-> done.x.remaining]
  BY <1>2 DEF TransferSent, WantsZlp
<1>4. xfer.n \in Nat /\ Flow(Banks, "idle", ie, ep, hw, got, xfer.n, xfer.len, last)
  BY DEF Now, IInv, Shape
<1>5. /\ XFields(ep.x) /\ HFields(hw) /\ hw.rx = <<>> /\ xfer.len \in Nat
      /\ ~hw.ready /\ hw.packet = <<>>
  BY <1>1, <1>4, CompFacts
<1>6. /\ ep.x.transferred + ep.x.buffered = xfer.len /\ ep.x.remaining = 0
      /\ got = Units(xfer.n, 0, xfer.len) /\ Len(got) = xfer.len /\ hw.build = <<>>
  BY <1>1, <1>4, FinishedFacts
<1>7. done.x.transferred = xfer.len /\ done.x.remaining = 0
  <2>1. done.x = [[ep.x EXCEPT !.transferred = @ + ep.x.buffered] EXCEPT !.buffered = 0]
    BY <1>2 DEF IInv, Shape
  <2>2. PICK y : y = [ep.x EXCEPT !.transferred = @ + ep.x.buffered]
    OBVIOUS
  <2>3. y = [data |-> ep.x.data, remaining |-> ep.x.remaining, buffered |-> ep.x.buffered,
             transferred |-> ep.x.transferred + ep.x.buffered]
    BY <1>5, <2>2 DEF XFields
  <2>4. done.x = [y EXCEPT !.buffered = 0]
    BY <2>1, <2>2
  <2> QED BY <1>6, <2>3, <2>4
<1>8. PICK l : l = [n |-> xfer.n, status |-> "SUCCESS", transferred |-> xfer.len, remaining |-> 0]
  OBVIOUS
<1>9. last' = l /\ l.n = xfer.n
  BY <1>3, <1>7, <1>8
<1>10. CASE zlp
  <2>1. ep' = [state |-> "SENDING", bank |-> ep.bank, x |-> NewXfer(<<>>, 0)]
    BY <1>1, <1>3, <1>10 DEF IInv, Shape
  <2>2. ep'.state = "SENDING" /\ ep'.x = NewXfer(<<>>, 0)
    BY <2>1
  <2>3. hw' = [Start(hw) EXCEPT !.comp = FALSE] /\ got' = <<>> /\ ie' = TRUE
    BY <1>3, <1>10
  <2>4. Flow(Banks, "idle", TRUE, ep', hw', <<>>, xfer.n + 1, 0, l)
    BY <1>4, <1>5, <1>6, <1>9, <2>2, <2>3, ZlpKeeps
  <2>5. xfer'.n = xfer.n + 1 /\ xfer'.len = 0
    BY <1>3, <1>10
  <2> QED BY <1>1, <1>9, <2>3, <2>4, <2>5 DEF Now, Banks
<1>11. CASE ~zlp
  <2>1. ep' = [state |-> "IDLE", bank |-> ep.bank, x |-> NoXfer]
    BY <1>3, <1>11 DEF IInv, Shape
  <2>2. PICK e : e = [state |-> "IDLE", bank |-> ep.bank, x |-> NoXfer]
    OBVIOUS
  <2>3. hw' = [hw EXCEPT !.comp = FALSE] /\ got' = got /\ ie' = FALSE /\ xfer' = xfer
    BY <1>3, <1>11
  <2>4. hw' = Cleared(hw) /\ HFields(Cleared(hw))
    BY <1>5, <2>3, ClearedIs
  <2>5. Resting("idle", FALSE, "IDLE", Cleared(hw))
    BY <1>5, <1>6 DEF Resting, Cleared
  <2>6. Reported(l, got, xfer.n, xfer.len)
    BY <1>4, <1>6, <1>8 DEF Reported
  <2>7. XFields(e.x) /\ e.state = "IDLE"
    BY <2>2 DEF XFields, NoXfer
  <2>8. Cleared(hw).rx = <<>>
    BY <1>5 DEF Cleared
  <2>9. \E a \in Nat : got = Units(xfer.n, 0, a)
    BY <1>5, <1>6
  <2>10. Flow(Banks, "idle", FALSE, e, Cleared(hw), got, xfer.n, xfer.len, l)
    BY <1>4, <1>5, <1>9, <2>4, <2>5, <2>6, <2>7, <2>8, <2>9 DEF Flow
  <2> QED BY <1>1, <1>9, <2>1, <2>2, <2>3, <2>4, <2>10 DEF Now, Banks
<1> QED BY <1>10, <1>11

LEMMA PacketSentStream ==
  ASSUME Now, IInv, Dir = "in", ~off, pc = "idle", PacketSent
  PROVE  Now'
<1>1. /\ hw.comp /\ ep.state = "SENDING" /\ ~Finished(ep.x)
      /\ UNCHANGED <<kind, ie, pc, xfer, last, got>>
  BY DEF PacketSent
<1>2. PICK next :
        /\ next = Load(Sent(ep.x), IF Banks = 1 THEN hw ELSE Start(hw))
        /\ ep' = [ep EXCEPT !.x = next.x]
        /\ hw' = [(IF Banks = 1 THEN Start(next.hw) ELSE next.hw) EXCEPT !.comp = FALSE]
  BY DEF PacketSent, Sent
<1>3. xfer.n \in Nat /\ Flow(Banks, "idle", ie, ep, hw, got, xfer.n, xfer.len, last)
  BY DEF Now, IInv, Shape
<1>4. ep'.state = "SENDING" /\ ep'.x = next.x
  BY <1>1, <1>2 DEF IInv, Shape
<1>5. Banks \in {1, 2}
  BY BanksType DEF IInv
<1>6. CASE Banks = 1
  <2>1. next = Load(Sent(ep.x), hw) /\ hw' = [Start(next.hw) EXCEPT !.comp = FALSE]
    BY <1>2, <1>6
  <2>2. /\ Flow(1, "idle", ie, ep', Cleared(Start(next.hw)), got, xfer.n, xfer.len, last)
        /\ HFields(next.hw)
    BY <1>1, <1>3, <1>4, <1>6, <2>1, PacketOneBank
  <2>3. hw' = Cleared(Start(next.hw))
    BY <2>1, <2>2, StartIs, ClearedIs
  <2> QED BY <1>1, <1>6, <2>2, <2>3 DEF Now, Banks
<1>7. CASE Banks = 2
  <2>1. next = Load(Sent(ep.x), Start(hw)) /\ hw' = [next.hw EXCEPT !.comp = FALSE]
    BY <1>2, <1>7
  <2>2. /\ Flow(2, "idle", ie, ep', Cleared(next.hw), got, xfer.n, xfer.len, last)
        /\ HFields(next.hw)
    BY <1>1, <1>3, <1>4, <1>7, <2>1, PacketTwoBanks
  <2>3. hw' = Cleared(next.hw)
    BY <2>1, <2>2, ClearedIs
  <2> QED BY <1>1, <1>7, <2>2, <2>3 DEF Now, Banks
<1> QED BY <1>5, <1>6, <1>7

\* The stall, and the reset of the FIFO.
LEMMA StallIs ==
  ASSUME NEW h, HFields(h), NEW s \in BOOLEAN, NEW f, f = [h EXCEPT !.stall = s]
  PROVE  /\ HFields(f) /\ f.build = h.build /\ f.ready = h.ready /\ f.packet = h.packet
         /\ f.comp = h.comp /\ f.rx = h.rx /\ f.stall = s
<1>1. f = [build |-> h.build, ready |-> h.ready, packet |-> h.packet, comp |-> h.comp,
           rx |-> h.rx, fill |-> h.fill, stall |-> s, sent |-> h.sent]
  BY DEF HFields
<1> QED BY <1>1 DEF HFields

LEMMA FifoResetIs ==
  ASSUME NEW h, HFields(h), NEW f \in FifoReset(h)
  PROVE  /\ HFields(f) /\ f.build = <<>> /\ f.packet = <<>> /\ f.rx = <<>>
         /\ f.comp = h.comp /\ f.stall = h.stall /\ (f.ready => h.ready)
<1>1. PICK r \in BOOLEAN :
        /\ f = [h EXCEPT !.build = <<>>, !.packet = <<>>, !.ready = r, !.rx = <<>>, !.fill = 0]
        /\ r => h.ready
  BY DEF FifoReset
<1>2. f = [build |-> <<>>, ready |-> r, packet |-> <<>>, comp |-> h.comp,
           rx |-> <<>>, fill |-> 0, stall |-> h.stall, sent |-> h.sent]
  BY <1>1 DEF HFields
<1> QED BY <1>1, <1>2 DEF HFields

\* An endpoint that has no transfer any more.
LEMMA AtRest ==
  ASSUME NEW k, NEW p, NEW i, NEW d, NEW f, NEW g, NEW n, NEW len, NEW l,
         XFields(d.x), HFields(f), len \in Nat, l.n \in Nat, f.rx = <<>>,
         d.state \notin {"SENDING", "RECEIVING"},
         \E a \in Nat : g = Units(n, 0, a), Reported(l, g, n, len), Resting(p, i, d.state, f)
  PROVE  Flow(k, p, i, d, f, g, n, len, l)
BY DEF Flow

LEMMA EndpointHandlerStream ==
  ASSUME Now, IInv, Dir = "in", ~off, ~off', EndpointHandler
  PROVE  Now'
<1>1. OffIf(FALSE) => pc = "idle"
  BY OffIfFacts DEF IInv, Shape
<1>2. CASE TransferSent
  <2>1. OffIf(FALSE)
    BY <1>2 DEF TransferSent
  <2> QED BY <1>1, <1>2, <2>1, TransferSentStream
<1>3. CASE PacketSent
  <2>1. OffIf(FALSE)
    BY <1>3 DEF PacketSent
  <2> QED BY <1>1, <1>3, <2>1, PacketSentStream
<1>4. CASE StrayComp
  <2>1. /\ ep.state # "SENDING" /\ hw' = [hw EXCEPT !.comp = FALSE]
        /\ UNCHANGED <<kind, ep, ie, pc, xfer, last, got>>
    BY <1>4 DEF StrayComp
  <2>2. HFields(hw) /\ Resting(pc, ie, ep.state, hw)
    BY <2>1 DEF Now, Flow
  <2>3. hw' = Cleared(hw) /\ HFields(Cleared(hw))
    BY <2>1, <2>2, ClearedIs
  <2>4. Resting(pc, ie, ep.state, Cleared(hw)) /\ Cleared(hw).rx = hw.rx
    BY <2>2 DEF Resting, Cleared
  <2>5. Flow(Banks, pc, ie, ep, Cleared(hw), got, xfer.n, xfer.len, last)
    BY <2>1, <2>3, <2>4 DEF Now, Flow
  <2> QED BY <2>1, <2>3, <2>5 DEF Now, Banks
<1>5. CASE PacketRead \/ Discard \/ Nak
  <2>1. hw.rx # <<>>
    BY <1>5 DEF PacketRead, Discard, Nak
  <2> QED BY <2>1 DEF Now, Flow
<1>6. CASE StallSent
  <2>1. /\ hw' = [hw EXCEPT !.sent = FALSE, !.stall = @ /\ ep.state = "HALTED"]
        /\ UNCHANGED <<kind, ep, ie, pc, xfer, last, got>>
    BY <1>6 DEF StallSent, history
  <2>2. HFields(hw)
    BY DEF Now, Flow
  <2>3. PICK s \in BOOLEAN : s = (hw.stall /\ ep.state = "HALTED")
    OBVIOUS
  <2>4. PICK f : f = [hw EXCEPT !.sent = FALSE, !.stall = s]
    OBVIOUS
  <2>5. hw' = f
    BY <2>1, <2>3, <2>4
  <2>6. /\ HFields(f) /\ f.build = hw.build /\ f.ready = hw.ready /\ f.packet = hw.packet
        /\ f.comp = hw.comp /\ f.rx = hw.rx /\ f.stall = s
    <3>1. f = [build |-> hw.build, ready |-> hw.ready, packet |-> hw.packet, comp |-> hw.comp,
               rx |-> hw.rx, fill |-> hw.fill, stall |-> s, sent |-> FALSE]
      BY <2>2, <2>4 DEF HFields
    <3> QED BY <2>2, <3>1 DEF HFields
  <2>7. ep.state = "HALTED" => f.stall
    BY <2>3, <2>6 DEF Now, Flow, Resting
  <2>8. Flow(Banks, pc, ie, ep, f, got, xfer.n, xfer.len, last)
    BY <2>6, <2>7, SameHw DEF Now
  <2> QED BY <2>1, <2>5, <2>8 DEF Now, Banks
<1> QED BY <1>2, <1>3, <1>4, <1>5, <1>6 DEF EndpointHandler

\* What UDP_EndOfTransfer and the call-back leave of an aborted transfer.
LEMMA EndedStream ==
  ASSUME Now, IInv, pc = "idle", NEW status \in {"ABORTED", "RESET"}
  PROVE  LET r == Ended(status) IN
         /\ XFields(r.ep.x) /\ HFields(r.hw) /\ r.xfer.len \in Nat /\ r.last.n \in Nat
         /\ r.hw.rx = <<>> /\ \E a \in Nat : r.got = Units(r.xfer.n, 0, a)
         /\ Reported(r.last, r.got, r.xfer.n, r.xfer.len)
         /\ r.hw.comp => r.ie
<1> DEFINE r == Ended(status)
<1>1. /\ XFields(ep.x) /\ HFields(hw) /\ xfer.len \in Nat /\ last.n \in Nat /\ hw.rx = <<>>
      /\ \E a \in Nat : got = Units(xfer.n, 0, a)
      /\ Reported(last, got, xfer.n, xfer.len)
      /\ xfer.n \in Nat /\ (hw.comp => ie) /\ ep.state # "RECEIVING"
  BY DEF Now, Flow, Sending, Resting, IInv, Shape
<1>2. CASE ~Active(ep)
  <2>1. r.ep = ep /\ r.hw = hw /\ r.ie = ie /\ r.got = got /\ r.xfer = xfer /\ r.last = last
    BY <1>2 DEF Ended
  <2> HIDE DEF r
  <2> QED BY <1>1, <2>1 DEF r
<1>3. CASE Active(ep) /\ WantsZlp(ep.x)
  <2>1. /\ r.ep = [ep EXCEPT !.state = "SENDING", !.x = NewXfer(<<>>, 0)]
        /\ r.hw = Start([hw EXCEPT !.comp = @ \/ hw.ready]) /\ r.ie = (ie \/ TRUE) /\ r.got = <<>>
        /\ r.xfer = [n |-> xfer.n + 1, len |-> 0]
        /\ r.last = [n |-> xfer.n, status |-> status, transferred |-> ep.x.transferred,
                     remaining |-> ep.x.remaining + ep.x.buffered]
    BY <1>3 DEF Ended
  <2> HIDE DEF r
  <2>2. r.ep.x = NewXfer(<<>>, 0)
    BY <2>1 DEF IInv, Shape
  <2>3. XFields(r.ep.x)
    BY <2>2 DEF XFields, NewXfer
  <2>4. PICK c \in BOOLEAN : c = (hw.comp \/ hw.ready)
    OBVIOUS
  <2>5. PICK h : h = [hw EXCEPT !.comp = c]
    OBVIOUS
  <2>6. h = [build |-> hw.build, ready |-> hw.ready, packet |-> hw.packet, comp |-> c,
             rx |-> hw.rx, fill |-> hw.fill, stall |-> hw.stall, sent |-> hw.sent]
    BY <1>1, <2>5 DEF HFields
  <2>7. HFields(h) /\ h.rx = <<>>
    BY <1>1, <2>6 DEF HFields
  <2>8. r.hw = Start(h)
    BY <2>1, <2>4, <2>5
  <2>9. HFields(r.hw) /\ r.hw.rx = <<>>
    BY <2>7, <2>8, StartIs
  <2>10. r.got = Units(r.xfer.n, 0, 0) /\ 0 \in Nat
    <3>1. r.xfer.n = xfer.n + 1 /\ xfer.n + 1 \in Nat /\ 0 \in Nat
      BY <1>1, <2>1
    <3>2. Units(xfer.n + 1, 0, 0) = <<>>
      BY <3>1, NoUnits
    <3> QED BY <2>1, <3>1, <3>2
  <2>11. Reported(r.last, r.got, r.xfer.n, r.xfer.len)
    BY <1>1, <2>1 DEF Reported
  <2>12. r.xfer.len \in Nat /\ r.last.n \in Nat /\ r.ie
    <3>1. r.xfer.len = 0 /\ r.last.n = xfer.n
      BY <2>1
    <3>2. r.ie
      BY <2>1, Zenon
    <3> QED BY <1>1, <3>1, <3>2
  <2> QED BY <2>3, <2>9, <2>10, <2>11, <2>12 DEF r
<1>4. CASE Active(ep) /\ ~WantsZlp(ep.x)
  <2>1. /\ r.ep = [ep EXCEPT !.state = "IDLE", !.x = NoXfer]
        /\ r.hw = hw /\ r.ie = (ie \/ FALSE) /\ r.got = got /\ r.xfer = xfer
        /\ r.last = [n |-> xfer.n, status |-> status, transferred |-> ep.x.transferred,
                     remaining |-> ep.x.remaining + ep.x.buffered]
    BY <1>4 DEF Ended
  <2> HIDE DEF r
  <2>2. r.ep.x = NoXfer
    BY <2>1 DEF IInv, Shape
  <2>3. XFields(r.ep.x)
    BY <2>2 DEF XFields, NoXfer
  <2>4. Reported(r.last, r.got, r.xfer.n, r.xfer.len)
    BY <1>1, <2>1 DEF Reported
  <2>5. r.last.n \in Nat
    BY <1>1, <2>1
  <2> QED BY <1>1, <2>1, <2>3, <2>4, <2>5 DEF r
<1> QED BY <1>2, <1>3, <1>4

LEMMA ControlStream ==
  ASSUME Now, IInv, Dir = "in", ~off, ~off', Control
  PROVE  Now'
<1>0. /\ HFields(hw) /\ hw.rx = <<>> /\ xfer.n \in Nat /\ xfer.len \in Nat /\ last.n \in Nat
      /\ XFields(ep.x)
      /\ \E a \in Nat : got = Units(xfer.n, 0, a)
      /\ Reported(last, got, xfer.n, xfer.len)
  BY DEF Now, Flow, IInv, Shape
<1>1. CASE Halt
  <2>1. /\ ep' = [Ended("ABORTED").ep EXCEPT !.state = "HALTED"]
        /\ hw' = [Ended("ABORTED").hw EXCEPT !.stall = TRUE]
        /\ Record([Ended("ABORTED") EXCEPT !.ie = TRUE], TRUE)
        /\ OffIf(FALSE) /\ kind' = kind /\ pc' = pc
    BY <1>1 DEF Halt
  <2>2. pc = "idle"
    BY <2>1, OffIfFacts DEF IInv, Shape
  <2>3. PICK r : r = Ended("ABORTED")
    OBVIOUS
  <2>4. /\ XFields(r.ep.x) /\ HFields(r.hw) /\ r.xfer.len \in Nat /\ r.last.n \in Nat
        /\ r.hw.rx = <<>> /\ \E a \in Nat : r.got = Units(r.xfer.n, 0, a)
        /\ Reported(r.last, r.got, r.xfer.n, r.xfer.len)
    BY <2>2, <2>3, EndedStream
  <2>5. r.ep = [state |-> r.ep.state, bank |-> ep.bank, x |-> r.ep.x]
    BY <2>3, EndedFacts DEF IInv
  <2>6. got' = r.got /\ xfer' = r.xfer /\ last' = r.last /\ ie' = TRUE
    BY <2>1, <2>3 DEF Record, Ended
  <2>7. PICK e, f : e = [r.ep EXCEPT !.state = "HALTED"] /\ f = [r.hw EXCEPT !.stall = TRUE]
    OBVIOUS
  <2>8. e.x = r.ep.x /\ e.state = "HALTED"
    BY <2>5, <2>7
  <2>9. HFields(f) /\ f.rx = r.hw.rx /\ f.stall = TRUE
    BY <2>4, <2>7, StallIs
  <2>10. Resting("idle", TRUE, "HALTED", f)
    BY <2>9 DEF Resting
  <2>11. Flow(Banks, "idle", TRUE, e, f, r.got, r.xfer.n, r.xfer.len, r.last)
    BY <2>4, <2>8, <2>9, <2>10, AtRest
  <2> QED BY <2>1, <2>2, <2>3, <2>6, <2>7, <2>11 DEF Now, Banks
<1>2. CASE Unhalt
  <2>1. /\ ep.state = "HALTED" /\ ep' = [ep EXCEPT !.state = "IDLE"]
        /\ hw' \in FifoReset([hw EXCEPT !.stall = FALSE])
        /\ OffIf(ep.bank # 0 \/ hw'.ready)
        /\ UNCHANGED <<kind, ie, pc, xfer, last, got>>
    BY <1>2 DEF Unhalt
  <2>2. PICK f : f = hw'
    OBVIOUS
  <2>3. ~f.ready
    BY <2>1, <2>2, Zenon DEF OffIf
  <2>4. PICK h : h = [hw EXCEPT !.stall = FALSE]
    OBVIOUS
  <2>5. HFields(h) /\ h.comp = hw.comp
    BY <1>0, <2>4, StallIs
  <2>6. f \in FifoReset(h)
    BY <2>1, <2>2, <2>4
  <2>7. HFields(f) /\ f.build = <<>> /\ f.packet = <<>> /\ f.rx = <<>> /\ f.comp = hw.comp
    BY <2>5, <2>6, FifoResetIs
  <2>8. Resting(pc, ie, "HALTED", hw)
    BY <2>1 DEF Now, Flow
  <2>9. Resting(pc, ie, "IDLE", f)
    BY <2>3, <2>7, <2>8 DEF Resting
  <2>10. PICK e : e = [ep EXCEPT !.state = "IDLE"]
    OBVIOUS
  <2>11. e.x = ep.x /\ e.state = "IDLE"
    BY <2>10 DEF IInv, Shape
  <2>12. Flow(Banks, pc, ie, e, f, got, xfer.n, xfer.len, last)
    BY <1>0, <2>7, <2>9, <2>11, AtRest
  <2> QED BY <2>1, <2>2, <2>10, <2>12 DEF Now, Banks
<1>3. CASE ConfigureEP
  <2>1. /\ ep' = [Ended("RESET").ep EXCEPT !.state = "IDLE"]
        /\ hw' \in FifoReset(Ended("RESET").hw)
        /\ Record(Ended("RESET"), TRUE)
        /\ OffIf(ep.bank # 0 \/ hw'.ready) /\ kind' = kind /\ pc' = pc
    BY <1>3 DEF ConfigureEP
  <2>2. PICK f : f = hw'
    OBVIOUS
  <2>3. ~f.ready /\ pc = "idle"
    BY <2>1, <2>2, Zenon DEF OffIf
  <2>4. PICK r : r = Ended("RESET")
    OBVIOUS
  <2>5. /\ XFields(r.ep.x) /\ HFields(r.hw) /\ r.xfer.len \in Nat /\ r.last.n \in Nat
        /\ r.hw.rx = <<>> /\ \E a \in Nat : r.got = Units(r.xfer.n, 0, a)
        /\ Reported(r.last, r.got, r.xfer.n, r.xfer.len)
        /\ r.hw.comp => r.ie
    BY <2>3, <2>4, EndedStream
  <2>6. r.ep = [state |-> r.ep.state, bank |-> ep.bank, x |-> r.ep.x]
    BY <2>4, EndedFacts DEF IInv
  <2>7. got' = r.got /\ xfer' = r.xfer /\ last' = r.last /\ ie' = r.ie
    BY <2>1, <2>4 DEF Record
  <2>8. f \in FifoReset(r.hw)
    BY <2>1, <2>2, <2>4
  <2>9. HFields(f) /\ f.build = <<>> /\ f.packet = <<>> /\ f.rx = <<>> /\ f.comp = r.hw.comp
    BY <2>5, <2>8, FifoResetIs
  <2>10. Resting("idle", r.ie, "IDLE", f)
    BY <2>3, <2>5, <2>9 DEF Resting
  <2>11. PICK e : e = [r.ep EXCEPT !.state = "IDLE"]
    OBVIOUS
  <2>12. e.x = r.ep.x /\ e.state = "IDLE"
    BY <2>6, <2>11
  <2>13. Flow(Banks, "idle", r.ie, e, f, r.got, r.xfer.n, r.xfer.len, r.last)
    BY <2>5, <2>9, <2>10, <2>12, AtRest
  <2> QED BY <2>1, <2>2, <2>3, <2>4, <2>7, <2>11, <2>13 DEF Now, Banks
<1>4. CASE ResetEPs
  <2>1. /\ ep' = [ep EXCEPT !.state = "DISABLED", !.bank = 0] /\ ie' = FALSE
        /\ hw' \in FifoReset([hw EXCEPT !.ready = FALSE]) /\ OffIf(hw.comp)
        /\ UNCHANGED <<kind, pc, xfer, last, got>>
    BY <1>4 DEF ResetEPs
  <2>2. PICK f : f = hw'
    OBVIOUS
  <2>3. ~hw.comp /\ pc = "idle"
    BY <2>1, Zenon DEF OffIf
  <2>4. PICK h : h = [hw EXCEPT !.ready = FALSE]
    OBVIOUS
  <2>5. h = [build |-> hw.build, ready |-> FALSE, packet |-> hw.packet, comp |-> hw.comp,
             rx |-> hw.rx, fill |-> hw.fill, stall |-> hw.stall, sent |-> hw.sent]
    BY <1>0, <2>4 DEF HFields
  <2>6. HFields(h) /\ h.comp = hw.comp /\ h.ready = FALSE
    BY <1>0, <2>5 DEF HFields
  <2>7. f \in FifoReset(h)
    BY <2>1, <2>2, <2>4
  <2>8. /\ HFields(f) /\ f.build = <<>> /\ f.packet = <<>> /\ f.rx = <<>> /\ f.comp = hw.comp
        /\ ~f.ready
    BY <2>6, <2>7, FifoResetIs
  <2>9. Resting("idle", FALSE, "DISABLED", f)
    BY <2>3, <2>8 DEF Resting
  <2>10. PICK e : e = [ep EXCEPT !.state = "DISABLED", !.bank = 0]
    OBVIOUS
  <2>11. e.x = ep.x /\ e.state = "DISABLED"
    BY <2>10 DEF IInv, Shape
  <2>12. Flow(Banks, "idle", FALSE, e, f, got, xfer.n, xfer.len, last)
    BY <1>0, <2>8, <2>9, <2>11, AtRest
  <2> QED BY <2>1, <2>2, <2>3, <2>10, <2>12 DEF Now, Banks
<1> QED BY <1>1, <1>2, <1>3, <1>4 DEF Control

-----------------------------------------------------------------------------
(* The theorem                                                              *)

LEMMA InitStream == Init => Stream
<1> SUFFICES ASSUME Init PROVE Now
  BY DEF Stream
<1>1. XFields(ep.x)
  BY DEF Init, XFields, NoXfer
<1>2. HFields(hw) /\ hw.rx = <<>>
  BY DEF Init, Quiet, HFields
<1>3. Resting(pc, ie, ep.state, hw)
  BY DEF Init, Quiet, Resting
<1>4. Reported(last, got, xfer.n, xfer.len) /\ xfer.n = 0 /\ xfer.len = 0 /\ last.n = 0
  BY DEF Init, Reported
<1>5. got = Units(0, 0, 0)
  BY NoUnits DEF Init
<1> QED BY <1>1, <1>2, <1>3, <1>4, <1>5, AtRest DEF Init, Now

\* Driver and controller do not agree again.
LEMMA OffStays == IInv /\ [Next]_vars /\ ~off' => ~off /\ Dir' = Dir
<1> SUFFICES ASSUME IInv, [Next]_vars, ~off' PROVE ~off /\ Dir' = Dir
  OBVIOUS
<1>1. off' = off \/ \E c : OffIf(c)
  BY DEF Next, Host, MainLoop, EndpointHandler, Control, HostReads, HostSends, HostStalled,
         Write, WriteSetup, WriteLoad, WriteStart, WriteSecond, Read, ReadSetup, Enable,
         TransferSent, PacketSent, StrayComp, PacketRead, Discard, Nak, StallSent,
         Halt, Unhalt, ConfigureEP, ResetEPs, history, vars
<1>2. kind' = kind
  BY DEF Next, Host, MainLoop, EndpointHandler, Control, HostReads, HostSends, HostStalled,
         Write, WriteSetup, WriteLoad, WriteStart, WriteSecond, Read, ReadSetup, Enable,
         TransferSent, PacketSent, StrayComp, PacketRead, Discard, Nak, StallSent,
         Halt, Unhalt, ConfigureEP, ResetEPs, history, vars
<1>3. ~off
  BY <1>1, Zenon DEF OffIf
<1> QED BY <1>2, <1>3 DEF Dir

LEMMA NextStream == IInv /\ Stream /\ [Next]_vars => Stream'
<1> SUFFICES ASSUME IInv, Stream, [Next]_vars, Dir' = "in", ~off' PROVE Now'
  BY DEF Stream
<1>1. ~off /\ Dir = "in"
  BY OffStays
<1>2. Now
  BY <1>1 DEF Stream
<1>3. CASE UNCHANGED vars
  BY <1>2, <1>3 DEF vars, Now, Banks
<1> QED BY <1>1, <1>2, <1>3, HostStream, MainLoopStream, EndpointHandlerStream, ControlStream DEF Next

LEMMA StreamImplies == IInv /\ Stream => WholeToHost
<1> SUFFICES ASSUME IInv, Dir = "in", ~off, Now
             PROVE  /\ \A k \in DOMAIN got : got[k] = <<xfer.n, k>>
                    /\ last.status = "SUCCESS" /\ last.n = xfer.n =>
                         Len(got) = xfer.len /\ last.transferred = xfer.len /\ last.remaining = 0
  BY DEF Stream, WholeToHost
<1>1. Reported(last, got, xfer.n, xfer.len) /\ xfer.n \in Nat
  BY DEF Now, Flow, IInv, Shape
<1>2. PICK a \in Nat : got = Units(xfer.n, 0, a)
  BY DEF Now, Flow
<1>3. /\ Units(xfer.n, 0, a) = [k \in 1 .. a - 0 |-> <<xfer.n, 0 + k>>]
  BY DEF Units
<1>4. \A k \in DOMAIN got : got[k] = <<xfer.n, k>>
  BY <1>2, <1>3
<1> QED BY <1>1, <1>4 DEF Reported

\* Stream is an invariant of the specification, with IInv.
THEOREM StreamInvariant == Spec => []Stream
<1> QED BY InitStream, NextStream, Invariant, PTL DEF Spec

\* Whatever the lengths and the packet size, what the host received is the current
\* transfer from its first unit on, and it has all of it when the call-back reports
\* SUCCESS, as long as driver and controller agree.
THEOREM HostGetsWhole == Spec => []WholeToHost
<1> QED BY StreamImplies, StreamInvariant, Invariant, PTL

-----------------------------------------------------------------------------
(* From the host: the banks of the FIFO                                     *)

\* FlattenSeq of no, one and two sequences.
LEMMA FlattenNone == ASSUME NEW q, q = <<>> PROVE FlattenSeq(q) = <<>>
  BY DEF FlattenSeq

LEMMA FlattenOne == ASSUME NEW s PROVE FlattenSeq(<<s>>) = s
<1> DEFINE q == <<s>>
           F(f) == [i \in 1 .. Len(q) |-> IF i = 1 THEN q[i] ELSE f[i - 1] \o q[i]]
<1>1. FlattenSeq(q) = (CHOOSE f : f = F(f))[Len(q)]
  BY DEF FlattenSeq
<1>2. Len(q) = 1 /\ q[1] = s
  OBVIOUS
<1> HIDE DEF q
<1>3. PICK w : w = [i \in 1 .. 1 |-> q[i]]
  OBVIOUS
<1>4. w = F(w)
  <2>1. F(w) = [i \in 1 .. 1 |-> q[i]]
    BY <1>2
  <2> QED BY <1>3, <2>1
<1>5. PICK f : f = (CHOOSE g : g = F(g))
  OBVIOUS
<1>6. f = F(f)
  BY <1>4, <1>5, Zenon
<1>7. f[1] = q[1]
  BY <1>2, <1>6
<1> QED BY <1>1, <1>2, <1>5, <1>7 DEF q

LEMMA FlattenTwo == ASSUME NEW s, NEW t PROVE FlattenSeq(<<s, t>>) = s \o t
<1> DEFINE q == <<s, t>>
           F(f) == [i \in 1 .. Len(q) |-> IF i = 1 THEN q[i] ELSE f[i - 1] \o q[i]]
<1>1. FlattenSeq(q) = (CHOOSE f : f = F(f))[Len(q)]
  BY DEF FlattenSeq
<1>2. Len(q) = 2 /\ q[1] = s /\ q[2] = t
  OBVIOUS
<1> HIDE DEF q
<1>3. PICK w : w = [i \in 1 .. 2 |-> IF i = 1 THEN q[1] ELSE q[1] \o q[2]]
  OBVIOUS
<1>4. w = F(w)
  <2>1. F(w) = [i \in 1 .. 2 |-> IF i = 1 THEN q[i] ELSE w[i - 1] \o q[i]]
    BY <1>2
  <2>2. w[1] = q[1]
    BY <1>3
  <2>3. \A i \in 1 .. 2 : (IF i = 1 THEN q[i] ELSE w[i - 1] \o q[i])
                          = (IF i = 1 THEN q[1] ELSE q[1] \o q[2])
    BY <2>2
  <2> QED BY <1>3, <2>1, <2>3
<1>5. PICK f : f = (CHOOSE g : g = F(g))
  OBVIOUS
<1>6. f = F(f)
  BY <1>4, <1>5, Zenon
<1>7. f[1] = q[1] /\ f[2] = f[1] \o q[2]
  BY <1>2, <1>6
<1> QED BY <1>1, <1>2, <1>5, <1>7 DEF q

\* A packet in the FIFO, and a FIFO of no, one or two of them.
Packet == [bank : 0 .. 1, data : Seq(Nat)]
Fits(rx) == \/ rx = <<>>
            \/ \E p \in Packet : rx = <<p>>
            \/ \E p, q \in Packet : rx = <<p, q>>

LEMMA FlatNone == Flat(<<>>) = <<>>
  BY FlattenNone DEF Flat

LEMMA FlatOne == ASSUME NEW p PROVE Flat(<<p>>) = p.data
<1>1. [i \in DOMAIN <<p>> |-> <<p>>[i].data] = <<p.data>>
  OBVIOUS
<1> QED BY <1>1, FlattenOne DEF Flat

LEMMA FlatTwo == ASSUME NEW p, NEW q PROVE Flat(<<p, q>>) = p.data \o q.data
<1>1. [i \in DOMAIN <<p, q>> |-> <<p, q>>[i].data] = <<p.data, q.data>>
  OBVIOUS
<1> QED BY <1>1, FlattenTwo DEF Flat

LEMMA ReleaseNone == ASSUME NEW b PROVE Release(<<>>, b) = <<>>
  BY FlattenNone DEF Release

LEMMA ReleaseOne ==
  ASSUME NEW p, NEW b
  PROVE  Release(<<p>>, b) = IF p.bank = b THEN <<>> ELSE <<p>>
<1>1. [i \in DOMAIN <<p>> |-> IF <<p>>[i].bank = b THEN <<>> ELSE <<<<p>>[i]>>]
      = <<IF p.bank = b THEN <<>> ELSE <<p>>>>
  OBVIOUS
<1> QED BY <1>1, FlattenOne DEF Release

LEMMA ReleaseTwo ==
  ASSUME NEW p, NEW q, NEW b
  PROVE  Release(<<p, q>>, b) = (IF p.bank = b THEN <<>> ELSE <<p>>)
                                \o (IF q.bank = b THEN <<>> ELSE <<q>>)
<1>1. [i \in DOMAIN <<p, q>> |-> IF <<p, q>>[i].bank = b THEN <<>> ELSE <<<<p, q>>[i]>>]
      = <<IF p.bank = b THEN <<>> ELSE <<p>>, IF q.bank = b THEN <<>> ELSE <<q>>>>
  OBVIOUS
<1> QED BY <1>1, FlattenTwo DEF Release

LEMMA TwoOfThem ==
  ASSUME NEW p \in Packet, NEW q \in Packet
  PROVE  /\ <<p>> \o <<q>> = <<p, q>> /\ Append(<<p>>, q) = <<p, q>>
         /\ Len(<<p, q>>) = 2 /\ Len(<<p>>) = 1
<1> DEFINE P == <<p>> \o <<q>>
<1>1. <<p>> \in Seq(Packet) /\ <<q>> \in Seq(Packet) /\ Len(<<p>>) = 1 /\ Len(<<q>>) = 1
  OBVIOUS
<1>2. /\ P \in Seq(Packet) /\ Len(P) = 1 + 1
      /\ \A i \in 1 .. 1 + 1 : P[i] = IF i <= 1 THEN <<p>>[i] ELSE <<q>>[i - 1]
  BY <1>1, ConcatProperties
<1>3. P[1] = p /\ P[2] = q
  BY <1>2
<1> HIDE DEF P
<1>4. P = <<p, q>>
  BY <1>2, <1>3
<1>5. Append(<<p>>, q) = <<p, q>>
  <2>1. PICK a : a = Append(<<p>>, q)
    OBVIOUS
  <2>2. /\ a \in Seq(Packet) /\ Len(a) = 2 /\ a[1] = p /\ a[2] = q
    BY <2>1, <1>1, AppendProperties
  <2>3. a = <<p, q>>
    BY <2>2
  <2> QED BY <2>1, <2>3
<1>6. Len(<<p, q>>) = 2
  BY <1>2, <1>4
<1> QED BY <1>1, <1>4, <1>5, <1>6 DEF P

LEMMA FitsLen == ASSUME NEW rx, Fits(rx) PROVE rx \in Seq(Packet) /\ Len(rx) \in 0 .. 2
<1>1. CASE rx = <<>>
  BY <1>1
<1>2. CASE \E p \in Packet : rx = <<p>>
  BY <1>2
<1>3. CASE \E p, q \in Packet : rx = <<p, q>>
  <2>1. PICK p \in Packet, q \in Packet : rx = <<p, q>>
    BY <1>3
  <2>2. Append(<<p>>, q) = <<p, q>> /\ Len(<<p, q>>) = 2
    BY TwoOfThem
  <2>3. Append(<<p>>, q) \in Seq(Packet)
    <3>1. <<p>> \in Seq(Packet)
      OBVIOUS
    <3> QED BY <3>1, AppendProperties
  <2> QED BY <2>1, <2>2, <2>3
<1> QED BY <1>1, <1>2, <1>3 DEF Fits

\* Clearing a bank leaves what a FIFO can hold.
LEMMA ReleaseFits ==
  ASSUME NEW rx, Fits(rx), NEW b
  PROVE  Fits(Release(rx, b)) /\ Len(Release(rx, b)) <= Len(rx)
<1>1. CASE rx = <<>>
  BY <1>1, ReleaseNone DEF Fits
<1>2. CASE \E p \in Packet : rx = <<p>>
  <2>1. PICK p \in Packet : rx = <<p>>
    BY <1>2
  <2>2. Release(rx, b) \in {<<>>, <<p>>}
    BY <2>1, ReleaseOne
  <2>3. Len(<<p>>) = 1 /\ Len(<<>>) = 0
    OBVIOUS
  <2>4. Fits(<<>>) /\ Fits(<<p>>)
    BY DEF Fits
  <2>5. PICK r : r = Release(rx, b)
    OBVIOUS
  <2>6. Len(r) <= 1 /\ Len(rx) = 1 /\ Fits(r)
    BY <2>1, <2>2, <2>3, <2>4, <2>5
  <2> QED BY <2>5, <2>6
<1>3. CASE \E p, q \in Packet : rx = <<p, q>>
  <2>1. PICK p \in Packet, q \in Packet : rx = <<p, q>>
    BY <1>3
  <2>2. Release(rx, b) = (IF p.bank = b THEN <<>> ELSE <<p>>)
                         \o (IF q.bank = b THEN <<>> ELSE <<q>>)
    BY <2>1, ReleaseTwo
  <2>3. Release(rx, b) \in {<<>>, <<p>>, <<q>>, <<p, q>>}
    <3>1. <<>> \in Seq(Packet) /\ <<p>> \in Seq(Packet) /\ <<q>> \in Seq(Packet)
      OBVIOUS
    <3>2. <<>> \o <<>> = <<>> /\ <<>> \o <<q>> = <<q>> /\ <<p>> \o <<>> = <<p>>
      BY <3>1, ConcatEmptySeq
    <3>3. <<p>> \o <<q>> = <<p, q>>
      BY TwoOfThem
    <3> QED BY <2>2, <3>2, <3>3
  <2>4. Fits(<<>>) /\ Fits(<<p>>) /\ Fits(<<q>>) /\ Fits(<<p, q>>)
    BY DEF Fits
  <2>5. Len(<<p, q>>) = 2 /\ Len(<<p>>) = 1 /\ Len(<<q>>) = 1 /\ Len(<<>>) = 0
    BY TwoOfThem
  <2>6. PICK r : r = Release(rx, b)
    OBVIOUS
  <2>7. Len(r) <= 2 /\ Fits(r)
    <3>1. r = <<>> \/ r = <<p>> \/ r = <<q>> \/ r = <<p, q>>
      BY <2>3, <2>6
    <3>2. r = <<>> => Len(r) <= 2 /\ Fits(r)
      BY <2>4, <2>5
    <3>3. r = <<p>> => Len(r) <= 2 /\ Fits(r)
      BY <2>4, <2>5
    <3>4. r = <<q>> => Len(r) <= 2 /\ Fits(r)
      BY <2>4, <2>5
    <3>5. r = <<p, q>> => Len(r) <= 2 /\ Fits(r)
      BY <2>4, <2>5
    <3> QED BY <3>1, <3>2, <3>3, <3>4, <3>5
  <2> QED BY <2>1, <2>5, <2>6, <2>7
<1> QED BY <1>1, <1>2, <1>3 DEF Fits

\* The banks are filled in turn, and the driver believes in that of the oldest packet.
Following(k, b) == IF b = 0 /\ k > 1 THEN 1 ELSE 0
Turn(k, b, rx, f) ==
  \/ rx = <<>> /\ f = b
  \/ \E p \in Packet : rx = <<p>> /\ p.bank = b /\ f = Following(k, b)
  \/ \E p, q \in Packet :
       rx = <<p, q>> /\ k = 2 /\ p.bank = b /\ q.bank = Following(k, b) /\ f = b

\* The first packet is read: the bank released is its own.
LEMMA TurnReleased ==
  ASSUME NEW k \in {1, 2}, NEW b \in 0 .. k - 1, NEW rx, NEW f, Turn(k, b, rx, f), rx # <<>>
  PROVE  /\ Turn(k, Following(k, b), Release(rx, b), f) /\ Following(k, b) \in 0 .. k - 1
         /\ Head(rx) \in Packet
         /\ Flat(rx) = Head(rx).data \o Flat(Release(rx, b))
         /\ Flat(Release(rx, b)) \in Seq(Nat)
<1>0. Following(k, b) \in 0 .. k - 1 /\ (k = 2 => Following(k, b) # b /\ Following(k, Following(k, b)) = b)
  BY DEF Following
<1>1. CASE \E p \in Packet : rx = <<p>> /\ p.bank = b /\ f = Following(k, b)
  <2>1. PICK p \in Packet : rx = <<p>> /\ p.bank = b /\ f = Following(k, b)
    BY <1>1
  <2>2. Release(rx, b) = <<>> /\ Head(rx) = p /\ Flat(rx) = p.data
    BY <2>1, ReleaseOne, FlatOne
  <2>3. p.data \in Seq(Nat)
    BY DEF Packet
  <2>4. p.data \o <<>> = p.data /\ <<>> \in Seq(Nat)
    BY <2>3, ConcatEmptySeq
  <2>5. Flat(<<>>) = <<>>
    BY FlatNone
  <2>6. Turn(k, Following(k, b), <<>>, f)
    BY <2>1 DEF Turn
  <2> QED BY <1>0, <2>1, <2>2, <2>4, <2>5, <2>6
<1>2. CASE \E p, q \in Packet :
             rx = <<p, q>> /\ k = 2 /\ p.bank = b /\ q.bank = Following(k, b) /\ f = b
  <2>1. PICK p \in Packet, q \in Packet :
          rx = <<p, q>> /\ k = 2 /\ p.bank = b /\ q.bank = Following(k, b) /\ f = b
    BY <1>2
  <2>2. q.bank # b
    BY <1>0, <2>1
  <2>3. Release(rx, b) = <<>> \o <<q>>
    BY <2>1, <2>2, ReleaseTwo
  <2>4. Release(rx, b) = <<q>> /\ Head(rx) = p
    BY <2>1, <2>3
  <2>5. Flat(rx) = p.data \o q.data /\ Flat(<<q>>) = q.data
    BY <2>1, FlatOne, FlatTwo
  <2>6. Turn(k, Following(k, b), <<q>>, f)
    BY <1>0, <2>1 DEF Turn
  <2>7. q.data \in Seq(Nat)
    BY DEF Packet
  <2> QED BY <1>0, <2>1, <2>4, <2>5, <2>6, <2>7
<1> QED BY <1>1, <1>2 DEF Turn

\* A packet arrives in the bank that is free.
Filled(k, b, rx, f, d) ==
  /\ Turn(k, b, Append(rx, [bank |-> f, data |-> d]), (f + 1) % k)
  /\ Flat(Append(rx, [bank |-> f, data |-> d])) = Flat(rx) \o d

LEMMA TurnFilled ==
  ASSUME NEW k \in {1, 2}, NEW b \in 0 .. k - 1, NEW rx, NEW f, Turn(k, b, rx, f),
         Len(rx) < k, NEW d \in Seq(Nat)
  PROVE  Filled(k, b, rx, f, d)
<1> DEFINE p == [bank |-> f, data |-> d]
<1>p. p.bank = f /\ p.data = d /\ (f \in 0 .. 1 => p \in Packet)
  BY DEF Packet
<1> SUFFICES Turn(k, b, Append(rx, p), (f + 1) % k) /\ Flat(Append(rx, p)) = Flat(rx) \o d
  BY DEF Filled
<1> HIDE DEF p
<1>0. Following(k, b) \in 0 .. k - 1
  BY DEF Following
<1>1. CASE rx = <<>> /\ f = b
  <2>1. p \in Packet /\ p.bank = b /\ p.data = d
    BY <1>1, <1>p
  <2>2. (f + 1) % k = Following(k, b)
    <3>1. CASE k = 1
      BY <3>1, <1>1 DEF Following
    <3>2. CASE k = 2
      BY <3>2, <1>1 DEF Following
    <3> QED BY <3>1, <3>2
  <2>3. Append(rx, p) = <<p>> /\ <<>> \o d = d
    BY <1>1
  <2> QED BY <1>1, <2>1, <2>2, <2>3, FlatNone, FlatOne DEF Turn
<1>2. CASE \E o \in Packet : rx = <<o>> /\ o.bank = b /\ f = Following(k, b)
  <2>1. PICK o \in Packet : rx = <<o>> /\ o.bank = b /\ f = Following(k, b)
    BY <1>2
  <2>2. k = 2 /\ Append(rx, p) = <<o, p>>
    <3>1. p \in Packet
      BY <1>0, <1>p, <2>1
    <3>2. Len(<<o>>) = 1 /\ Append(<<o>>, p) = <<o, p>>
      BY <3>1, TwoOfThem
    <3> QED BY <2>1, <3>2
  <2>3. p \in Packet /\ p.bank = Following(k, b) /\ p.data = d
    BY <1>0, <1>p, <2>1, <2>2
  <2>4. (f + 1) % k = b
    BY <2>1, <2>2 DEF Following
  <2>5. Flat(Append(rx, p)) = Flat(rx) \o d
    <3>1. Flat(<<o, p>>) = o.data \o p.data /\ Flat(<<o>>) = o.data
      BY FlatOne, FlatTwo
    <3> QED BY <2>1, <2>2, <2>3, <3>1
  <2>6. Turn(k, b, <<o, p>>, b)
    BY <2>1, <2>2, <2>3 DEF Turn
  <2> QED BY <2>2, <2>4, <2>5, <2>6
<1>3. ASSUME NEW o, NEW q, rx = <<o, q>>, k = 2 PROVE FALSE
  <2>1. Len(<<o, q>>) = 2
    OBVIOUS
  <2> QED BY <1>3, <2>1
<1> QED BY <1>1, <1>2, <1>3 DEF Turn

LEMMA FlatType == ASSUME NEW rx, Fits(rx) PROVE Flat(rx) \in Seq(Nat)
<1>1. CASE rx = <<>>
  <2>1. <<>> \in Seq(Nat)
    OBVIOUS
  <2> QED BY <1>1, <2>1, FlatNone
<1>2. CASE \E p \in Packet : rx = <<p>>
  BY <1>2, FlatOne DEF Packet
<1>3. CASE \E p, q \in Packet : rx = <<p, q>>
  <2>1. PICK p \in Packet, q \in Packet : rx = <<p, q>>
    BY <1>3
  <2>2. p.data \in Seq(Nat) /\ q.data \in Seq(Nat)
    BY DEF Packet
  <2>3. p.data \o q.data \in Seq(Nat)
    BY <2>2, ConcatProperties
  <2> QED BY <2>1, <2>3, FlatTwo
<1> QED BY <1>1, <1>2, <1>3 DEF Fits

LEMMA TurnFits == ASSUME NEW k, NEW b, NEW rx, NEW f, Turn(k, b, rx, f) PROVE Fits(rx)
  BY DEF Turn, Fits

-----------------------------------------------------------------------------
(* From the host: what was seen of the units sent                           *)

Rising(s) == \A i, j \in DOMAIN s : i < j => s[i] < s[j]

\* s has the units up to n in order, without those of g.
Holds(s, n, g) ==
  /\ s \in Seq(Nat) /\ Rising(s) /\ ToSet(s) = (1 .. n) \ g /\ g \subseteq 1 .. n

LEMMA HoldsMore ==
  ASSUME NEW s, NEW n \in Nat, NEW g, Holds(s, n, g), NEW k \in Nat,
         NEW t, t = [i \in 1 .. k |-> n + i]
  PROVE  Holds(s \o t, n + k, g)
<1>0. s \in Seq(Nat) /\ t \in Seq(Nat) /\ Len(t) = k
  BY DEF Holds
<1>1. PICK m \in Nat : m = Len(s)
  BY <1>0
<1>2. PICK u : u = s \o t
  OBVIOUS
<1>3. /\ u \in Seq(Nat) /\ DOMAIN u = 1 .. m + k
      /\ \A i \in 1 .. m : u[i] = s[i]
      /\ \A i \in m + 1 .. m + k : u[i] = n + (i - m)
  BY <1>0, <1>1, <1>2
<1>4. \A i \in 1 .. m : s[i] \in 1 .. n
  BY <1>0, <1>1 DEF Holds, ToSet
<1>5. Rising(u)
  <2> SUFFICES ASSUME NEW i \in 1 .. m + k, NEW j \in 1 .. m + k, i < j PROVE u[i] < u[j]
    BY <1>3 DEF Rising
  <2>1. CASE j \in 1 .. m
    <3>1. i \in 1 .. m /\ s[i] < s[j]
      BY <2>1, <1>0, <1>1 DEF Holds, Rising
    <3> QED BY <3>1, <2>1, <1>3
  <2>2. CASE i \in 1 .. m /\ j \in m + 1 .. m + k
    <3>1. u[i] = s[i] /\ s[i] \in 1 .. n /\ u[j] = n + (j - m)
      BY <2>2, <1>3, <1>4
    <3> QED BY <3>1, <2>2, <1>1
  <2>3. CASE i \in m + 1 .. m + k /\ j \in m + 1 .. m + k
    <3>1. u[i] = n + (i - m) /\ u[j] = n + (j - m)
      BY <2>3, <1>3
    <3> QED BY <3>1, <2>3, <1>1
  <2> QED BY <1>1, <2>1, <2>2, <2>3
<1>6. ToSet(u) = (1 .. n + k) \ g
  <2>1. ASSUME NEW x \in ToSet(u) PROVE x \in (1 .. n + k) \ g
    <3>1. PICK i \in 1 .. m + k : x = u[i]
      BY <1>3 DEF ToSet
    <3>2. CASE i \in 1 .. m
      <4>1. x = s[i]
        BY <3>1, <3>2, <1>3
      <4>2. DOMAIN s = 1 .. m
        BY <1>0, <1>1
      <4>3. s[i] \in ToSet(s)
        BY <3>2, <4>2 DEF ToSet
      <4>4. x \in 1 .. n /\ x \notin g /\ 1 .. n \subseteq 1 .. n + k
        BY <4>1, <4>3 DEF Holds
      <4> QED BY <4>4
    <3>3. CASE i \in m + 1 .. m + k
      <4>1. x = n + (i - m)
        BY <3>1, <3>3, <1>3
      <4> QED BY <4>1, <3>3, <1>1 DEF Holds
    <3> QED BY <3>2, <3>3, <1>1
  <2>2. ASSUME NEW x \in (1 .. n + k) \ g PROVE x \in ToSet(u)
    <3>1. CASE x \in 1 .. n
      <4>1. x \in ToSet(s)
        BY <3>1, <2>2 DEF Holds
      <4>2. PICK i \in 1 .. m : x = s[i]
        BY <4>1, <1>0, <1>1 DEF ToSet
      <4>3. u[i] = x /\ i \in DOMAIN u
        BY <4>2, <1>1, <1>3
      <4> QED BY <4>3 DEF ToSet
    <3>2. CASE x \in n + 1 .. n + k
      <4>1. m + (x - n) \in m + 1 .. m + k /\ n + ((m + (x - n)) - m) = x
        BY <3>2, <1>1
      <4>2. PICK i : i = m + (x - n)
        OBVIOUS
      <4>3. i \in m + 1 .. m + k /\ n + (i - m) = x
        BY <4>1, <4>2
      <4>4. u[i] = x
        BY <4>3, <1>3
      <4>5. i \in DOMAIN u
        BY <4>3, <1>1, <1>3
      <4> QED BY <4>4, <4>5 DEF ToSet
    <3> QED BY <3>1, <3>2, <2>2
  <2> QED BY <2>1, <2>2
<1> QED BY <1>2, <1>3, <1>5, <1>6 DEF Holds

\* What is taken out of the middle is lost, and only that.
LEMMA HoldsLess ==
  ASSUME NEW a \in Seq(Nat), NEW b \in Seq(Nat), NEW c \in Seq(Nat), NEW n \in Nat, NEW g,
         Holds(a \o b \o c, n, g)
  PROVE  /\ Holds(a \o c, n, g \cup ToSet(b))
         /\ ToSet(a) \cap ToSet(b) = {}
<1>0. PICK la \in Nat, lb \in Nat, lc \in Nat : la = Len(a) /\ lb = Len(b) /\ lc = Len(c)
  OBVIOUS
<1>1. PICK u, v : u = a \o b \o c /\ v = a \o c
  OBVIOUS
<1>2. /\ u \in Seq(Nat) /\ DOMAIN u = 1 .. la + lb + lc
      /\ \A i \in 1 .. la : u[i] = a[i]
      /\ \A i \in 1 .. lb : u[la + i] = b[i]
      /\ \A i \in 1 .. lc : u[la + lb + i] = c[i]
  BY <1>0, <1>1
<1>3. /\ v \in Seq(Nat) /\ DOMAIN v = 1 .. la + lc
      /\ \A i \in 1 .. la : v[i] = a[i]
      /\ \A i \in 1 .. lc : v[la + i] = c[i]
  BY <1>0, <1>1
<1>a. la \in Nat /\ lb \in Nat /\ lc \in Nat
  OBVIOUS
<1>b. DOMAIN a = 1 .. la /\ DOMAIN b = 1 .. lb /\ DOMAIN c = 1 .. lc
  BY <1>0
<1>c. DOMAIN u = 1 .. la + lb + lc /\ DOMAIN v = 1 .. la + lc
  BY <1>2, <1>3
<1>4. Rising(u) /\ ToSet(u) = (1 .. n) \ g /\ g \subseteq 1 .. n
  BY <1>1 DEF Holds
<1>5. /\ ToSet(u) = ToSet(a) \cup ToSet(b) \cup ToSet(c) /\ ToSet(v) = ToSet(a) \cup ToSet(c)
  <2>1. /\ ToSet(a) = {a[i] : i \in 1 .. la} /\ ToSet(b) = {b[i] : i \in 1 .. lb}
        /\ ToSet(c) = {c[i] : i \in 1 .. lc}
    BY <1>b DEF ToSet
  <2>2. ASSUME NEW i \in 1 .. la + lb + lc PROVE u[i] \in ToSet(a) \cup ToSet(b) \cup ToSet(c)
    <3>1. CASE i \in 1 .. la
      BY <3>1, <1>2, <2>1
    <3>2. CASE i \in la + 1 .. la + lb
      <4>1. PICK j \in 1 .. lb : i = la + j
        <5>1. i - la \in 1 .. lb /\ i = la + (i - la)
          BY <3>2, <1>0
        <5> QED BY <5>1
      <4> QED BY <4>1, <1>2, <2>1
    <3>3. CASE i \in la + lb + 1 .. la + lb + lc
      <4>1. PICK j \in 1 .. lc : i = la + lb + j
        <5>1. i - (la + lb) \in 1 .. lc /\ i = la + lb + (i - (la + lb))
          BY <3>3, <1>0
        <5> QED BY <5>1
      <4> QED BY <4>1, <1>2, <2>1
    <3> QED BY <3>1, <3>2, <3>3, <1>0
  <2>3. ASSUME NEW i \in 1 .. la + lc PROVE v[i] \in ToSet(a) \cup ToSet(c)
    <3>1. CASE i \in 1 .. la
      BY <3>1, <1>3, <2>1
    <3>3. CASE i \in la + 1 .. la + lc
      <4>1. PICK j \in 1 .. lc : i = la + j
        <5>1. i - la \in 1 .. lc /\ i = la + (i - la)
          BY <3>3, <1>0
        <5> QED BY <5>1
      <4> QED BY <4>1, <1>3, <2>1
    <3> QED BY <3>1, <3>3, <1>0
  <2>4. \A i \in 1 .. la : i \in 1 .. la + lb + lc /\ i \in 1 .. la + lc
    BY <1>0
  <2>5. \A i \in 1 .. lb : la + i \in 1 .. la + lb + lc
    BY <1>0
  <2>6. \A i \in 1 .. lc : la + lb + i \in 1 .. la + lb + lc /\ la + i \in 1 .. la + lc
    BY <1>0
  <2>7. /\ \A i \in 1 .. la : a[i] \in ToSet(u) /\ a[i] \in ToSet(v)
        /\ \A i \in 1 .. lb : b[i] \in ToSet(u)
        /\ \A i \in 1 .. lc : c[i] \in ToSet(u) /\ c[i] \in ToSet(v)
    BY <1>2, <1>3, <1>c, <2>4, <2>5, <2>6 DEF ToSet
  <2>8. ToSet(u) \subseteq ToSet(a) \cup ToSet(b) \cup ToSet(c)
    BY <1>c, <2>2 DEF ToSet
  <2>9. ToSet(v) \subseteq ToSet(a) \cup ToSet(c)
    BY <1>c, <2>3 DEF ToSet
  <2>10. ToSet(a) \subseteq ToSet(u) /\ ToSet(a) \subseteq ToSet(v)
    BY <2>1, <2>7
  <2>11. ToSet(b) \subseteq ToSet(u)
    BY <2>1, <2>7
  <2>12. ToSet(c) \subseteq ToSet(u) /\ ToSet(c) \subseteq ToSet(v)
    BY <2>1, <2>7
  <2> QED BY <2>8, <2>9, <2>10, <2>11, <2>12
<1>6. \A i \in 1 .. la, j \in 1 .. lb : a[i] < b[j]
  <2> TAKE i \in 1 .. la, j \in 1 .. lb
  <2>1. i \in DOMAIN u /\ la + j \in DOMAIN u /\ i < la + j
    BY <1>a, <1>c
  <2>2. u[i] < u[la + j]
    BY <2>1, <1>4 DEF Rising
  <2> QED BY <2>2, <1>2
<1>7. \A i \in 1 .. lb, j \in 1 .. lc : b[i] < c[j]
  <2> TAKE i \in 1 .. lb, j \in 1 .. lc
  <2>1. la + i \in DOMAIN u /\ la + lb + j \in DOMAIN u /\ la + i < la + lb + j
    BY <1>a, <1>c
  <2>2. u[la + i] < u[la + lb + j]
    BY <2>1, <1>4 DEF Rising
  <2> QED BY <2>2, <1>2
<1>8. /\ ToSet(a) \cap ToSet(b) = {} /\ ToSet(c) \cap ToSet(b) = {}
  <2>1. /\ \A i \in 1 .. la : a[i] \in Nat
        /\ \A i \in 1 .. lb : b[i] \in Nat
        /\ \A i \in 1 .. lc : c[i] \in Nat
    BY <1>0
  <2>2. ASSUME NEW i \in 1 .. la, NEW j \in 1 .. lb, a[i] = b[j] PROVE FALSE
    BY <2>1, <2>2, <1>6
  <2>3. ASSUME NEW i \in 1 .. lc, NEW j \in 1 .. lb, c[i] = b[j] PROVE FALSE
    BY <2>1, <2>3, <1>7
  <2>4. DOMAIN a = 1 .. la /\ DOMAIN b = 1 .. lb /\ DOMAIN c = 1 .. lc
    BY <1>0
  <2> QED BY <2>2, <2>3, <2>4 DEF ToSet
<1>9. Rising(v)
  <2> SUFFICES ASSUME NEW i \in 1 .. la + lc, NEW j \in 1 .. la + lc, i < j PROVE v[i] < v[j]
    BY <1>3 DEF Rising
  <2>1. CASE j \in 1 .. la
    <3>1. i \in 1 .. la /\ i \in DOMAIN u /\ j \in DOMAIN u
      BY <2>1, <1>a, <1>c
    <3>2. u[i] < u[j]
      BY <3>1, <1>4 DEF Rising
    <3> QED BY <3>1, <3>2, <2>1, <1>2, <1>3
  <2>2. CASE i \in 1 .. la /\ j \in la + 1 .. la + lc
    <3>1. PICK k : k = j - la
      OBVIOUS
    <3>2. k \in 1 .. lc /\ la + k = j
      BY <2>2, <3>1, <1>0
    <3>3. i \in DOMAIN u /\ la + lb + k \in DOMAIN u /\ i < la + lb + k
      BY <2>2, <3>2, <1>a, <1>c
    <3>4. u[i] < u[la + lb + k]
      BY <3>3, <1>4 DEF Rising
    <3>5. v[j] = c[k]
      BY <3>2, <1>3
    <3> QED BY <3>2, <3>4, <3>5, <2>2, <1>2, <1>3
  <2>3. CASE i \in la + 1 .. la + lc /\ j \in la + 1 .. la + lc
    <3>1. PICK h, k : h = i - la /\ k = j - la
      OBVIOUS
    <3>2. k \in 1 .. lc /\ la + k = j /\ h \in 1 .. lc /\ la + h = i /\ h < k
      BY <2>3, <3>1, <1>0
    <3>3. la + lb + h \in DOMAIN u /\ la + lb + k \in DOMAIN u /\ la + lb + h < la + lb + k
      BY <3>2, <1>a, <1>c
    <3>4. u[la + lb + h] < u[la + lb + k]
      BY <3>3, <1>4 DEF Rising
    <3>5. v[j] = c[k] /\ v[i] = c[h]
      BY <3>2, <1>3
    <3> QED BY <3>2, <3>4, <3>5, <1>2
  <2> QED BY <2>1, <2>2, <2>3, <1>0
<1>10. ToSet(v) = (1 .. n) \ (g \cup ToSet(b)) /\ g \cup ToSet(b) \subseteq 1 .. n
  BY <1>4, <1>5, <1>8
<1> QED BY <1>1, <1>3, <1>8, <1>9, <1>10 DEF Holds

-----------------------------------------------------------------------------
(* The registers, whatever driver and controller think of each other        *)

RegsOf(k, e, h) ==
  /\ HFields(h) /\ XFields(e.x)
  /\ Fits(h.rx) /\ Len(h.rx) <= k /\ h.fill \in 0 .. k - 1
  /\ e.bank \in 0 .. k - 1
FromFields(f) ==
  /\ f = [packets |-> f.packets, sent |-> f.sent, delivered |-> f.delivered, gone |-> f.gone]
  /\ f.sent \in Nat
Regs == RegsOf(Banks, ep, hw) /\ FromFields(from)

\* Steps that move no packet from the host.
SameRx(f, h) == HFields(f) /\ f.rx = h.rx /\ f.fill = h.fill

LEMMA LoadRegs ==
  ASSUME NEW x, NEW h, XFields(x), HFields(h)
  PROVE  XFields(Load(x, h).x) /\ SameRx(Load(x, h).hw, h)
<1> DEFINE size == IF x.remaining < Size THEN x.remaining ELSE Size
           f == [x EXCEPT !.data = IF size > 0 THEN SubSeq(@, size + 1, Len(@)) ELSE @,
                          !.buffered = @ + size, !.remaining = @ - size]
           e == [h EXCEPT !.build = @ \o SubSeq(x.data, 1, size)]
<1>1. Load(x, h).x = f /\ Load(x, h).hw = e
  BY DEF Load
<1> HIDE DEF size, f, e
<1>2. XFields(f)
  <2>1. PICK d : d = IF size > 0 THEN SubSeq(x.data, size + 1, Len(x.data)) ELSE x.data
    OBVIOUS
  <2>2. f = [x EXCEPT !.data = d, !.buffered = x.buffered + size, !.remaining = x.remaining - size]
    BY <2>1 DEF f
  <2>3. f = [data |-> d, remaining |-> x.remaining - size, buffered |-> x.buffered + size,
             transferred |-> x.transferred]
    BY <2>2 DEF XFields
  <2> QED BY <2>3 DEF XFields
<1>3. SameRx(e, h)
  <2>1. PICK d : d = h.build \o SubSeq(x.data, 1, size)
    OBVIOUS
  <2>2. e = [h EXCEPT !.build = d]
    BY <2>1 DEF e
  <2>3. e = [build |-> d, ready |-> h.ready, packet |-> h.packet, comp |-> h.comp,
             rx |-> h.rx, fill |-> h.fill, stall |-> h.stall, sent |-> h.sent]
    BY <2>2 DEF HFields
  <2> QED BY <2>3 DEF HFields, SameRx
<1> QED BY <1>1, <1>2, <1>3

LEMMA StartRegs == ASSUME NEW h, HFields(h) PROVE SameRx(Start(h), h)
  BY StartIs DEF SameRx

\* One of the flags is changed, the packet that is ready perhaps taken.
LEMMA CompRegs ==
  ASSUME NEW h, HFields(h), NEW c \in BOOLEAN
  PROVE  SameRx([h EXCEPT !.comp = c], h)
<1>1. PICK f : f = [h EXCEPT !.comp = c]
  OBVIOUS
<1>2. f = [build |-> h.build, ready |-> h.ready, packet |-> h.packet, comp |-> c,
           rx |-> h.rx, fill |-> h.fill, stall |-> h.stall, sent |-> h.sent]
  BY <1>1 DEF HFields
<1>3. SameRx(f, h)
  BY <1>2 DEF HFields, SameRx
<1> QED BY <1>1, <1>3

LEMMA ReadyRegs ==
  ASSUME NEW h, HFields(h), NEW c \in BOOLEAN
  PROVE  SameRx([h EXCEPT !.ready = c], h)
<1>1. PICK f : f = [h EXCEPT !.ready = c]
  OBVIOUS
<1>2. f = [build |-> h.build, ready |-> c, packet |-> h.packet, comp |-> h.comp,
           rx |-> h.rx, fill |-> h.fill, stall |-> h.stall, sent |-> h.sent]
  BY <1>1 DEF HFields
<1>3. SameRx(f, h)
  BY <1>2 DEF HFields, SameRx
<1> QED BY <1>1, <1>3

LEMMA StallRegs ==
  ASSUME NEW h, HFields(h), NEW c \in BOOLEAN
  PROVE  SameRx([h EXCEPT !.stall = c], h)
<1>1. PICK f : f = [h EXCEPT !.stall = c]
  OBVIOUS
<1>2. f = [build |-> h.build, ready |-> h.ready, packet |-> h.packet, comp |-> h.comp,
           rx |-> h.rx, fill |-> h.fill, stall |-> c, sent |-> h.sent]
  BY <1>1 DEF HFields
<1>3. SameRx(f, h)
  BY <1>2 DEF HFields, SameRx
<1> QED BY <1>1, <1>3

LEMMA SentRegs ==
  ASSUME NEW h, HFields(h)
  PROVE  SameRx([h EXCEPT !.sent = TRUE], h)
<1>1. PICK f : f = [h EXCEPT !.sent = TRUE]
  OBVIOUS
<1>2. f = [build |-> h.build, ready |-> h.ready, packet |-> h.packet, comp |-> h.comp,
           rx |-> h.rx, fill |-> h.fill, stall |-> h.stall, sent |-> TRUE]
  BY <1>1 DEF HFields
<1>3. SameRx(f, h)
  BY <1>2 DEF HFields, SameRx
<1> QED BY <1>1, <1>3

LEMMA UnstallRegs ==
  ASSUME NEW h, HFields(h), NEW c \in BOOLEAN
  PROVE  SameRx([h EXCEPT !.sent = FALSE, !.stall = c], h)
<1>1. PICK f : f = [h EXCEPT !.sent = FALSE, !.stall = c]
  OBVIOUS
<1>2. f = [build |-> h.build, ready |-> h.ready, packet |-> h.packet, comp |-> h.comp,
           rx |-> h.rx, fill |-> h.fill, stall |-> c, sent |-> FALSE]
  BY <1>1 DEF HFields
<1>3. SameRx(f, h)
  BY <1>2 DEF HFields, SameRx
<1> QED BY <1>1, <1>3

LEMMA TakenRegs ==
  ASSUME NEW h, HFields(h)
  PROVE  SameRx([h EXCEPT !.ready = FALSE, !.packet = <<>>, !.comp = TRUE], h)
<1>1. PICK f : f = [h EXCEPT !.ready = FALSE, !.packet = <<>>, !.comp = TRUE]
  OBVIOUS
<1>2. f = [build |-> h.build, ready |-> FALSE, packet |-> <<>>, comp |-> TRUE,
           rx |-> h.rx, fill |-> h.fill, stall |-> h.stall, sent |-> h.sent]
  BY <1>1 DEF HFields
<1>3. SameRx(f, h)
  BY <1>2 DEF HFields, SameRx
<1> QED BY <1>1, <1>3

LEMMA ResetRegs ==
  ASSUME NEW h, HFields(h), NEW f \in FifoReset(h)
  PROVE  HFields(f) /\ f.rx = <<>> /\ f.fill = 0
<1>1. PICK r \in BOOLEAN :
        f = [h EXCEPT !.build = <<>>, !.packet = <<>>, !.ready = r, !.rx = <<>>, !.fill = 0]
  BY DEF FifoReset
<1>2. f = [build |-> <<>>, ready |-> r, packet |-> <<>>, comp |-> h.comp,
           rx |-> <<>>, fill |-> 0, stall |-> h.stall, sent |-> h.sent]
  BY <1>1 DEF HFields
<1> QED BY <1>2 DEF HFields

\* The FIFO and the bank the driver expects, when a packet is read.
Freed(h, b) == [h EXCEPT !.rx = Release(@, b)]

LEMMA ReleaseRegs ==
  ASSUME NEW k \in {1, 2}, NEW e, NEW h, RegsOf(k, e, h), NEW b
  PROVE  /\ HFields(Freed(h, b)) /\ Freed(h, b).rx = Release(h.rx, b) /\ Freed(h, b).fill = h.fill
         /\ Fits(Freed(h, b).rx) /\ Len(Freed(h, b).rx) <= k
<1>1. PICK rx, f : rx = Release(h.rx, b) /\ f = Freed(h, b)
  OBVIOUS
<1>2. f = [build |-> h.build, ready |-> h.ready, packet |-> h.packet, comp |-> h.comp,
           rx |-> rx, fill |-> h.fill, stall |-> h.stall, sent |-> h.sent]
  <2>1. f = [h EXCEPT !.rx = rx]
    BY <1>1 DEF Freed
  <2> QED BY <2>1 DEF RegsOf, HFields
<1>3. HFields(f) /\ f.rx = rx /\ f.fill = h.fill
  BY <1>2 DEF RegsOf, HFields
<1>4. Fits(rx) /\ Len(rx) <= Len(h.rx)
  BY <1>1, ReleaseFits DEF RegsOf
<1>5. Len(h.rx) \in 0 .. 2 /\ Len(rx) \in 0 .. 2
  BY <1>4, FitsLen DEF RegsOf
<1>6. Len(h.rx) <= k
  BY DEF RegsOf
<1>7. Len(rx) <= k
  BY <1>4, <1>5, <1>6
<1> QED BY <1>1, <1>3, <1>4, <1>7

LEMMA NextBankType == Shape => \A b : NextBank(b) \in 0 .. Banks - 1
  BY BanksType DEF NextBank

\* Transfers that end leave the FIFO alone.
LEMMA EndedRegs ==
  ASSUME Shape, RegsOf(Banks, ep, hw), NEW status
  PROVE  /\ XFields(Ended(status).ep.x) /\ SameRx(Ended(status).hw, hw)
         /\ Ended(status).ep.bank = ep.bank
<1>0. HFields(hw) /\ XFields(ep.x)
  BY DEF RegsOf
<1>1. PICK r : r = Ended(status)
  OBVIOUS
<1>2. CASE ~Active(ep)
  <2>1. r.ep = ep /\ r.hw = hw
    BY <1>1, <1>2 DEF Ended
  <2> QED BY <1>0, <1>1, <2>1 DEF SameRx
<1>3. CASE Active(ep) /\ WantsZlp(ep.x)
  <2>1. /\ r.ep = [ep EXCEPT !.state = "SENDING", !.x = NewXfer(<<>>, 0)]
        /\ r.hw = Start([hw EXCEPT !.comp = @ \/ hw.ready])
    BY <1>1, <1>3 DEF Ended
  <2>2. r.ep.x = NewXfer(<<>>, 0) /\ r.ep.bank = ep.bank
    BY <2>1 DEF Shape
  <2>3. XFields(r.ep.x)
    BY <2>2 DEF XFields, NewXfer
  <2>4. PICK c \in BOOLEAN : c = (hw.comp \/ hw.ready)
    OBVIOUS
  <2>5. PICK h : h = [hw EXCEPT !.comp = c]
    OBVIOUS
  <2>6. SameRx(h, hw)
    BY <1>0, <2>5, CompRegs
  <2>7. SameRx(Start(h), h)
    BY <2>6, StartRegs DEF SameRx
  <2>8. r.hw = Start(h)
    BY <2>1, <2>4, <2>5
  <2> QED BY <1>1, <2>2, <2>3, <2>6, <2>7, <2>8 DEF SameRx
<1>4. CASE Active(ep) /\ ~WantsZlp(ep.x)
  <2>1. r.ep = [ep EXCEPT !.state = "IDLE", !.x = NoXfer] /\ r.hw = hw
    BY <1>1, <1>4 DEF Ended
  <2>2. r.ep.x = NoXfer /\ r.ep.bank = ep.bank
    BY <2>1 DEF Shape
  <2>3. XFields(r.ep.x)
    BY <2>2 DEF XFields, NoXfer
  <2> QED BY <1>0, <1>1, <2>1, <2>2, <2>3 DEF SameRx
<1> QED BY <1>2, <1>3, <1>4

\* Steps that leave the banks and the history of the packets alone.
LEMMA RegsKept ==
  ASSUME Regs, kind' = kind, SameRx(hw', hw), XFields(ep'.x), ep'.bank = ep.bank,
         from' = from \/ \E g : from' = [from EXCEPT !.gone = g]
  PROVE  Regs'
<1>1. RegsOf(Banks, ep, hw)'
  BY DEF Regs, RegsOf, SameRx, Banks
<1>2. FromFields(from')
  <2>1. CASE from' = from
    BY <2>1 DEF Regs
  <2>2. CASE \E g : from' = [from EXCEPT !.gone = g]
    <3>1. PICK g : from' = [from EXCEPT !.gone = g]
      BY <2>2
    <3>2. from' = [packets |-> from.packets, sent |-> from.sent, delivered |-> from.delivered,
                   gone |-> g]
      BY <3>1 DEF Regs, FromFields
    <3>3. from.sent \in Nat
      BY DEF Regs, FromFields
    <3>4. PICK f : f = from'
      OBVIOUS
    <3>5. FromFields(f)
      BY <3>2, <3>3, <3>4 DEF FromFields
    <3> QED BY <3>4, <3>5
  <2> QED BY <2>1, <2>2
<1>3. FromFields(from)'
  BY <1>2 DEF FromFields
<1> QED BY <1>1, <1>3 DEF Regs

LEMMA HostRegs == IInv /\ Regs /\ Host => Regs'
<1> SUFFICES ASSUME IInv, Regs, Host PROVE Regs'
  OBVIOUS
<1>0. HFields(hw) /\ XFields(ep.x)
  BY DEF Regs, RegsOf
<1>1. CASE HostReads
  <2>1. /\ hw' = [hw EXCEPT !.ready = FALSE, !.packet = <<>>, !.comp = TRUE]
        /\ UNCHANGED <<kind, ep, from>>
    BY <1>1 DEF HostReads
  <2>2. SameRx(hw', hw)
    BY <1>0, <2>1, TakenRegs
  <2> QED BY <1>0, <2>1, <2>2, RegsKept
<1>2. CASE HostStalled
  <2>1. hw' = [hw EXCEPT !.sent = TRUE] /\ UNCHANGED <<kind, ep, from>>
    BY <1>2 DEF HostStalled, history
  <2>2. SameRx(hw', hw)
    BY <1>0, <2>1, SentRegs
  <2> QED BY <1>0, <2>1, <2>2, RegsKept
<1>3. CASE HostSends
  <2>1. PICK k \in 0 .. Size :
          /\ hw' = [hw EXCEPT !.rx = Append(@, [bank |-> hw.fill,
                                                data |-> [i \in 1 .. k |-> from.sent + i]]),
                              !.fill = (@ + 1) % Banks]
          /\ from' = [from EXCEPT !.packets = @ + 1, !.sent = @ + k]
    BY <1>3 DEF HostSends
  <2>2. UNCHANGED <<kind, ep>> /\ Len(hw.rx) < Banks
    BY <1>3 DEF HostSends
  <2>3. /\ k \in Nat /\ from.sent \in Nat /\ Banks \in {1, 2} /\ hw.fill \in 0 .. Banks - 1
        /\ Fits(hw.rx)
    BY BanksType, UdpAssumption DEF Regs, RegsOf, FromFields, IInv
  <2>4. PICK d, p : d = [i \in 1 .. k |-> from.sent + i] /\ p = [bank |-> hw.fill, data |-> d]
    OBVIOUS
  <2>5. d \in Seq(Nat)
    BY <2>3, <2>4
  <2>6. p \in Packet
    BY <2>3, <2>4, <2>5 DEF Packet
  <2>7. Fits(Append(hw.rx, p)) /\ Len(Append(hw.rx, p)) <= Banks
    <3>1. hw.rx \in Seq(Packet) /\ Len(hw.rx) \in 0 .. 2
      BY <2>3, FitsLen
    <3>2. Len(Append(hw.rx, p)) = Len(hw.rx) + 1
      BY <2>6, <3>1, AppendProperties
    <3>a. Len(Append(hw.rx, p)) <= Banks
      BY <2>2, <2>3, <3>1, <3>2
    <3>3. CASE hw.rx = <<>>
      <4>1. Append(<<>>, p) = <<p>>
        OBVIOUS
      <4>2. Fits(<<p>>)
        BY <2>6 DEF Fits
      <4> QED BY <3>a, <3>3, <4>1, <4>2
    <3>4. CASE \E o \in Packet : hw.rx = <<o>>
      <4>1. PICK o \in Packet : hw.rx = <<o>>
        BY <3>4
      <4>2. Append(<<o>>, p) = <<o, p>>
        BY <2>6, TwoOfThem
      <4>3. Fits(<<o, p>>)
        BY <2>6 DEF Fits
      <4>4. Fits(Append(hw.rx, p))
        BY <4>1, <4>2, <4>3
      <4> QED BY <3>a, <4>4
    <3>5. CASE \E o, q \in Packet : hw.rx = <<o, q>>
      <4>1. PICK o \in Packet, q \in Packet : hw.rx = <<o, q>>
        BY <3>5
      <4>2. Len(<<o, q>>) = 2
        BY TwoOfThem
      <4> QED BY <2>2, <2>3, <4>1, <4>2
    <3> QED BY <2>3, <3>3, <3>4, <3>5 DEF Fits
  <2>8. PICK f : f = (hw.fill + 1) % Banks
    OBVIOUS
  <2>9. f \in 0 .. Banks - 1
    <3>1. CASE Banks = 1
      BY <2>3, <2>8, <3>1
    <3>2. CASE Banks = 2
      BY <2>3, <2>8, <3>2
    <3> QED BY <2>3, <3>1, <3>2
  <2>10. PICK rx : rx = Append(hw.rx, p)
    OBVIOUS
  <2>11. hw' = [hw EXCEPT !.rx = rx, !.fill = f]
    BY <2>1, <2>4, <2>8, <2>10
  <2>12. hw' = [build |-> hw.build, ready |-> hw.ready, packet |-> hw.packet, comp |-> hw.comp,
                rx |-> rx, fill |-> f, stall |-> hw.stall, sent |-> hw.sent]
    BY <1>0, <2>11 DEF HFields
  <2>13. HFields(hw') /\ hw'.rx = rx /\ hw'.fill = f
    <3>1. PICK h : h = hw'
      OBVIOUS
    <3>2. HFields(h) /\ h.rx = rx /\ h.fill = f
      BY <1>0, <2>12, <3>1 DEF HFields
    <3> QED BY <3>1, <3>2
  <2>14. RegsOf(Banks, ep, hw)'
    BY <2>2, <2>7, <2>9, <2>10, <2>13 DEF Regs, RegsOf, Banks, HFields
  <2>15. FromFields(from)'
    <3>1. from' = [packets |-> from.packets + 1, sent |-> from.sent + k,
                   delivered |-> from.delivered, gone |-> from.gone]
      BY <2>1 DEF Regs, FromFields
    <3>2. PICK g : g = from'
      OBVIOUS
    <3>3. FromFields(g)
      BY <2>3, <3>1, <3>2 DEF FromFields
    <3> QED BY <3>2, <3>3 DEF FromFields
  <2> QED BY <2>14, <2>15 DEF Regs
<1> QED BY <1>1, <1>2, <1>3 DEF Host

LEMMA MainLoopRegs == IInv /\ Regs /\ MainLoop => Regs'
<1> SUFFICES ASSUME IInv, Regs, MainLoop PROVE Regs'
  OBVIOUS
<1>0. HFields(hw) /\ XFields(ep.x) /\ SameRx(hw, hw)
  BY DEF Regs, RegsOf, SameRx
<1>1. CASE Write \/ Enable
  <2>1. UNCHANGED <<kind, ep, hw, from>>
    BY <1>1 DEF Write, Enable, history
  <2> QED BY <1>0, <2>1, RegsKept
<1>2. CASE WriteSetup
  <2>1. PICK len : ep' = [ep EXCEPT !.state = "SENDING",
                                    !.x = NewXfer([k \in 1 .. len |-> <<xfer.n + 1, k>>], len)]
    BY <1>2 DEF WriteSetup
  <2>2. UNCHANGED <<kind, hw, from>>
    BY <1>2 DEF WriteSetup
  <2>3. PICK x : x = NewXfer([k \in 1 .. len |-> <<xfer.n + 1, k>>], len)
    OBVIOUS
  <2>4. XFields(x)
    BY <2>3 DEF XFields, NewXfer
  <2>5. ep'.x = x /\ ep'.bank = ep.bank
    BY <2>1, <2>3 DEF IInv, Shape
  <2> QED BY <1>0, <2>2, <2>4, <2>5, RegsKept
<1>3. CASE WriteLoad \/ WriteSecond
  <2>1. /\ ep' = [ep EXCEPT !.x = Load(@, hw).x] /\ hw' = Load(ep.x, hw).hw
        /\ UNCHANGED <<kind, from>>
    BY <1>3 DEF WriteLoad, WriteSecond, history
  <2>2. XFields(Load(ep.x, hw).x) /\ SameRx(Load(ep.x, hw).hw, hw)
    BY <1>0, LoadRegs
  <2>3. ep'.x = Load(ep.x, hw).x /\ ep'.bank = ep.bank
    BY <2>1 DEF IInv, Shape
  <2> QED BY <2>1, <2>2, <2>3, RegsKept
<1>4. CASE WriteStart
  <2>1. hw' = Start(hw) /\ UNCHANGED <<kind, ep, from>>
    BY <1>4 DEF WriteStart, history
  <2>2. SameRx(hw', hw)
    BY <1>0, <2>1, StartRegs
  <2> QED BY <1>0, <2>1, <2>2, RegsKept
<1>5. CASE Read
  <2>1. ep' = [ep EXCEPT !.state = "RECEIVING"] /\ UNCHANGED <<kind, hw, from>>
    BY <1>5 DEF Read
  <2>2. ep'.x = ep.x /\ ep'.bank = ep.bank
    BY <2>1 DEF IInv, Shape
  <2> QED BY <1>0, <2>1, <2>2, RegsKept
<1>6. CASE ReadSetup
  <2>1. ep' = [ep EXCEPT !.x = NewXfer(<<>>, Tailroom)] /\ UNCHANGED <<kind, hw, from>>
    BY <1>6 DEF ReadSetup, history
  <2>2. ep'.x = NewXfer(<<>>, Tailroom) /\ ep'.bank = ep.bank
    BY <2>1 DEF IInv, Shape
  <2>3. PICK x : x = NewXfer(<<>>, Tailroom)
    OBVIOUS
  <2>4. XFields(x)
    BY <2>3 DEF XFields, NewXfer
  <2> QED BY <1>0, <2>1, <2>2, <2>3, <2>4, RegsKept
<1> QED BY <1>1, <1>2, <1>3, <1>4, <1>5, <1>6 DEF MainLoop

\* A packet leaves the FIFO, and the driver expects the next bank.
LEMMA RegsReleased ==
  ASSUME IInv, Regs, kind' = kind, hw' = [hw EXCEPT !.rx = Release(@, ep.bank)],
         XFields(ep'.x), ep'.bank = NextBank(ep.bank), FromFields(from')
  PROVE  Regs'
<1>1. Banks \in {1, 2} /\ NextBank(ep.bank) \in 0 .. Banks - 1
  BY BanksType, NextBankType DEF IInv
<1>2. PICK f : f = Freed(hw, ep.bank)
  OBVIOUS
<1>3. HFields(f) /\ f.fill = hw.fill /\ Fits(f.rx) /\ Len(f.rx) <= Banks
  <2>1. RegsOf(Banks, ep, hw)
    BY DEF Regs
  <2> QED BY <1>1, <1>2, <2>1, ReleaseRegs
<1>a. hw' = f
  BY <1>2 DEF Freed
<1>4. RegsOf(Banks, ep, hw)'
  BY <1>1, <1>a, <1>3 DEF Regs, RegsOf, Banks, HFields
<1>5. FromFields(from)'
  BY DEF FromFields
<1> QED BY <1>4, <1>5 DEF Regs

LEMMA EndpointHandlerRegs == IInv /\ Regs /\ EndpointHandler => Regs'
<1> SUFFICES ASSUME IInv, Regs, EndpointHandler PROVE Regs'
  OBVIOUS
<1>0. HFields(hw) /\ XFields(ep.x) /\ SameRx(hw, hw) /\ FromFields(from)
  BY DEF Regs, RegsOf, SameRx
<1>1. CASE TransferSent
  <2>1. PICK zlp \in BOOLEAN :
          /\ ep' = [ep EXCEPT !.state = IF zlp THEN @ ELSE "IDLE",
                              !.x = IF zlp THEN NewXfer(<<>>, 0) ELSE NoXfer]
          /\ hw' = [(IF zlp THEN Start(hw) ELSE hw) EXCEPT !.comp = FALSE]
    BY <1>1 DEF TransferSent, WantsZlp
  <2>2. UNCHANGED <<kind, from>>
    BY <1>1 DEF TransferSent
  <2>3. ep'.x = (IF zlp THEN NewXfer(<<>>, 0) ELSE NoXfer) /\ ep'.bank = ep.bank
    BY <2>1 DEF IInv, Shape
  <2>4. XFields(NewXfer(<<>>, 0)) /\ XFields(NoXfer)
    BY DEF XFields, NewXfer, NoXfer
  <2>5. PICK h : h = IF zlp THEN Start(hw) ELSE hw
    OBVIOUS
  <2>6. SameRx(h, hw)
    BY <1>0, <2>5, StartRegs
  <2>7. SameRx([h EXCEPT !.comp = FALSE], h)
    BY <2>6, CompRegs DEF SameRx
  <2>8. SameRx(hw', hw)
    BY <2>1, <2>5, <2>6, <2>7 DEF SameRx
  <2> QED BY <2>2, <2>3, <2>4, <2>8, RegsKept
<1>2. CASE PacketSent
  <2>1. PICK x, h, next :
          /\ x = Sent(ep.x) /\ h = (IF Banks = 1 THEN hw ELSE Start(hw)) /\ next = Load(x, h)
          /\ ep' = [ep EXCEPT !.x = next.x]
          /\ hw' = [(IF Banks = 1 THEN Start(next.hw) ELSE next.hw) EXCEPT !.comp = FALSE]
    BY <1>2 DEF PacketSent, Sent
  <2>2. UNCHANGED <<kind, from>>
    BY <1>2 DEF PacketSent
  <2>3. XFields(x)
    BY <1>0, <2>1, SentIs DEF XFields
  <2>4. SameRx(h, hw)
    BY <1>0, <2>1, StartRegs
  <2>5. XFields(next.x) /\ SameRx(next.hw, h)
    BY <2>1, <2>3, <2>4, LoadRegs DEF SameRx
  <2>6. PICK f : f = IF Banks = 1 THEN Start(next.hw) ELSE next.hw
    OBVIOUS
  <2>7. SameRx(f, next.hw)
    BY <2>5, <2>6, StartRegs DEF SameRx
  <2>8. SameRx([f EXCEPT !.comp = FALSE], f)
    BY <2>7, CompRegs DEF SameRx
  <2>9. SameRx(hw', hw)
    BY <2>1, <2>4, <2>5, <2>6, <2>7, <2>8 DEF SameRx
  <2>10. ep'.x = next.x /\ ep'.bank = ep.bank
    BY <2>1 DEF IInv, Shape
  <2> QED BY <2>2, <2>5, <2>9, <2>10, RegsKept
<1>3. CASE StrayComp
  <2>1. hw' = [hw EXCEPT !.comp = FALSE] /\ UNCHANGED <<kind, ep, from>>
    BY <1>3 DEF StrayComp
  <2>2. SameRx(hw', hw)
    BY <1>0, <2>1, CompRegs
  <2> QED BY <1>0, <2>1, <2>2, RegsKept
<1>4. CASE PacketRead
  <2>1. PICK ends, x, d, g :
          /\ ends \in BOOLEAN /\ x = Store(ep.x, Head(hw.rx).data)
          /\ ep' = [state |-> IF ends THEN "IDLE" ELSE ep.state, bank |-> NextBank(ep.bank),
                    x |-> IF ends THEN NoXfer ELSE x]
          /\ from' = [from EXCEPT !.delivered = d, !.gone = g]
    BY <1>4 DEF PacketRead
  <2>2. kind' = kind /\ hw' = [hw EXCEPT !.rx = Release(@, ep.bank)]
    BY <1>4 DEF PacketRead
  <2>3. XFields(x)
    <3>1. PICK size, p : x = [ep.x EXCEPT !.data = @ \o SubSeq(p, 1, size), !.remaining = @ - size,
                                     !.transferred = @ + size, !.buffered = @ + Len(p) - size]
      BY <2>1 DEF Store
    <3>2. PICK a, b, c, e : x = [ep.x EXCEPT !.data = a, !.remaining = b, !.transferred = c,
                                             !.buffered = e]
      BY <3>1
    <3>3. x = [data |-> a, remaining |-> b, buffered |-> e, transferred |-> c]
      BY <1>0, <3>2 DEF XFields
    <3> QED BY <3>3 DEF XFields
  <2>4. XFields(ep'.x) /\ ep'.bank = NextBank(ep.bank)
    <3>1. XFields(NoXfer)
      BY DEF XFields, NoXfer
    <3>2. ep'.x = (IF ends THEN NoXfer ELSE x) /\ ep'.bank = NextBank(ep.bank)
      BY <2>1
    <3> QED BY <2>3, <3>1, <3>2
  <2>5. FromFields(from')
    <3>1. from' = [packets |-> from.packets, sent |-> from.sent, delivered |-> d, gone |-> g]
      BY <1>0, <2>1 DEF FromFields
    <3>2. PICK f : f = from'
      OBVIOUS
    <3>3. FromFields(f)
      BY <1>0, <3>1, <3>2 DEF FromFields
    <3> QED BY <3>2, <3>3
  <2> QED BY <2>2, <2>4, <2>5, RegsReleased
<1>5. CASE Discard
  <2>1. PICK g : from' = [from EXCEPT !.gone = g]
    BY <1>5 DEF Discard, Lose
  <2>2. /\ kind' = kind /\ hw' = [hw EXCEPT !.rx = Release(@, ep.bank)]
        /\ ep' = [ep EXCEPT !.bank = NextBank(@)]
    BY <1>5 DEF Discard
  <2>3. ep'.x = ep.x /\ ep'.bank = NextBank(ep.bank)
    BY <2>2 DEF IInv, Shape
  <2>4. FromFields(from')
    <3>1. from' = [packets |-> from.packets, sent |-> from.sent, delivered |-> from.delivered,
                   gone |-> g]
      BY <1>0, <2>1 DEF FromFields
    <3>2. PICK f : f = from'
      OBVIOUS
    <3>3. FromFields(f)
      BY <1>0, <3>1, <3>2 DEF FromFields
    <3> QED BY <3>2, <3>3
  <2> QED BY <1>0, <2>2, <2>3, <2>4, RegsReleased
<1>6. CASE Nak
  <2>1. UNCHANGED <<kind, ep, hw, from>>
    BY <1>6 DEF Nak
  <2> QED BY <1>0, <2>1, RegsKept
<1>7. CASE StallSent
  <2>1. /\ hw' = [hw EXCEPT !.sent = FALSE, !.stall = @ /\ ep.state = "HALTED"]
        /\ UNCHANGED <<kind, ep, from>>
    BY <1>7 DEF StallSent, history
  <2>2. PICK c \in BOOLEAN : c = (hw.stall /\ ep.state = "HALTED")
    OBVIOUS
  <2>3. SameRx([hw EXCEPT !.sent = FALSE, !.stall = c], hw)
    BY <1>0, UnstallRegs
  <2>4. SameRx(hw', hw)
    BY <2>1, <2>2, <2>3
  <2> QED BY <1>0, <2>1, <2>4, RegsKept
<1> QED BY <1>1, <1>2, <1>3, <1>4, <1>5, <1>6, <1>7 DEF EndpointHandler

\* The FIFO is emptied.
LEMMA RegsEmptied ==
  ASSUME IInv, Regs, kind' = kind, NEW h, HFields(h), hw' \in FifoReset(h),
         XFields(ep'.x), ep'.bank \in {0, ep.bank}, NEW g, from' = [from EXCEPT !.gone = g]
  PROVE  Regs'
<1>1. PICK f : f = hw' /\ f \in FifoReset(h)
  OBVIOUS
<1>2. HFields(f) /\ f.rx = <<>> /\ f.fill = 0
  BY <1>1, ResetRegs
<1>3. Banks \in {1, 2} /\ ep.bank \in 0 .. Banks - 1
  BY BanksType DEF IInv, Regs, RegsOf
<1>4. Fits(<<>>) /\ Len(<<>>) = 0
  BY DEF Fits
<1>5. RegsOf(Banks, ep, hw)'
  BY <1>1, <1>2, <1>3, <1>4 DEF RegsOf, Banks, HFields
<1>6. FromFields(from)'
  <2>1. from' = [packets |-> from.packets, sent |-> from.sent, delivered |-> from.delivered,
                 gone |-> g]
    BY DEF Regs, FromFields
  <2>2. PICK r : r = from'
    OBVIOUS
  <2>3. FromFields(r)
    BY <2>1, <2>2 DEF FromFields, Regs
  <2> QED BY <2>2, <2>3 DEF FromFields
<1> QED BY <1>5, <1>6 DEF Regs

LEMMA ControlRegs == IInv /\ Regs /\ Control => Regs'
<1> SUFFICES ASSUME IInv, Regs, Control PROVE Regs'
  OBVIOUS
<1>0. HFields(hw) /\ XFields(ep.x) /\ RegsOf(Banks, ep, hw) /\ Shape
  BY DEF Regs, RegsOf, IInv
<1>1. CASE Halt
  <2>1. /\ ep' = [Ended("ABORTED").ep EXCEPT !.state = "HALTED"]
        /\ hw' = [Ended("ABORTED").hw EXCEPT !.stall = TRUE] /\ kind' = kind
        /\ \E g : from' = [from EXCEPT !.gone = g]
    BY <1>1 DEF Halt, Lose
  <2>2. PICK r : r = Ended("ABORTED")
    OBVIOUS
  <2>3. XFields(r.ep.x) /\ SameRx(r.hw, hw) /\ r.ep.bank = ep.bank
    BY <1>0, <2>2, EndedRegs
  <2>4. r.ep = [state |-> r.ep.state, bank |-> ep.bank, x |-> r.ep.x]
    BY <1>0, <2>2, EndedFacts
  <2>5. ep'.x = r.ep.x /\ ep'.bank = ep.bank
    BY <2>1, <2>2, <2>4
  <2>6. SameRx([r.hw EXCEPT !.stall = TRUE], r.hw)
    BY <2>3, StallRegs DEF SameRx
  <2>7. SameRx(hw', hw)
    BY <2>1, <2>2, <2>3, <2>6 DEF SameRx
  <2> QED BY <2>1, <2>3, <2>5, <2>7, RegsKept
<1>2. CASE Unhalt
  <2>1. /\ ep' = [ep EXCEPT !.state = "IDLE"] /\ kind' = kind
        /\ hw' \in FifoReset([hw EXCEPT !.stall = FALSE])
    BY <1>2 DEF Unhalt
  <2>2. PICK g : from' = [from EXCEPT !.gone = g]
    BY <1>2 DEF Unhalt, Lose
  <2>3. ep'.x = ep.x /\ ep'.bank = ep.bank
    BY <2>1 DEF IInv, Shape
  <2>4. HFields([hw EXCEPT !.stall = FALSE])
    BY <1>0, StallRegs DEF SameRx
  <2> QED BY <1>0, <2>1, <2>2, <2>3, <2>4, RegsEmptied
<1>3. CASE ConfigureEP
  <2>1. /\ ep' = [Ended("RESET").ep EXCEPT !.state = "IDLE"] /\ kind' = kind
        /\ hw' \in FifoReset(Ended("RESET").hw)
    BY <1>3 DEF ConfigureEP
  <2>2. PICK g : from' = [from EXCEPT !.gone = g]
    BY <1>3 DEF ConfigureEP, Lose
  <2>3. PICK r : r = Ended("RESET")
    OBVIOUS
  <2>4. XFields(r.ep.x) /\ SameRx(r.hw, hw) /\ r.ep.bank = ep.bank
    BY <1>0, <2>3, EndedRegs
  <2>5. r.ep = [state |-> r.ep.state, bank |-> ep.bank, x |-> r.ep.x]
    BY <1>0, <2>3, EndedFacts
  <2>6. ep'.x = r.ep.x /\ ep'.bank = ep.bank
    BY <2>1, <2>3, <2>5
  <2>7. HFields(r.hw)
    BY <2>4 DEF SameRx
  <2> QED BY <2>1, <2>2, <2>3, <2>4, <2>6, <2>7, RegsEmptied
<1>4. CASE ResetEPs
  <2>1. /\ ep' = [ep EXCEPT !.state = "DISABLED", !.bank = 0] /\ kind' = kind
        /\ hw' \in FifoReset([hw EXCEPT !.ready = FALSE])
    BY <1>4 DEF ResetEPs
  <2>2. PICK g : from' = [from EXCEPT !.gone = g]
    BY <1>4 DEF ResetEPs, Lose
  <2>3. ep'.x = ep.x /\ ep'.bank = 0
    BY <2>1 DEF IInv, Shape
  <2>4. HFields([hw EXCEPT !.ready = FALSE])
    BY <1>0, ReadyRegs DEF SameRx
  <2> QED BY <1>0, <2>1, <2>2, <2>3, <2>4, RegsEmptied
<1> QED BY <1>1, <1>2, <1>3, <1>4 DEF Control

LEMMA InitRegs == Init => Regs
<1> SUFFICES ASSUME Init PROVE Regs
  OBVIOUS
<1>1. XFields(ep.x) /\ ep.bank = 0
  BY DEF Init, XFields, NoXfer
<1>2. HFields(hw) /\ hw.rx = <<>> /\ hw.fill = 0
  BY DEF Init, Quiet, HFields
<1>3. Fits(<<>>) /\ Len(<<>>) = 0
  BY DEF Fits
<1>4. Banks \in {1, 2}
  BY InitInv, BanksType DEF IInv
<1>5. FromFields(from)
  BY DEF Init, FromFields
<1> QED BY <1>1, <1>2, <1>3, <1>4, <1>5 DEF Regs, RegsOf

LEMMA NextRegs == IInv /\ Regs /\ [Next]_vars => Regs'
<1>1. Regs /\ UNCHANGED vars => Regs'
  BY DEF Regs, RegsOf, FromFields, Banks, vars, HFields, XFields
<1> QED BY <1>1, HostRegs, MainLoopRegs, EndpointHandlerRegs, ControlRegs DEF Next

-----------------------------------------------------------------------------
(* From the host: the invariant                                             *)

\* What the current transfer from the host has received.
Recv(p, e) == IF e.state = "RECEIVING" /\ p # "setup" THEN e.x.data ELSE <<>>

\* A descriptor at rest or in use, and one of a transfer that runs.
Small(x) ==
  /\ x.buffered \in {-1, 0}
  /\ x.remaining \in Int /\ x.remaining >= -1 /\ x.transferred \in Int /\ x.transferred >= -1
Coming(x) ==
  x.data \in Seq(Nat) /\ x.remaining \in Nat /\ x.buffered = 0 /\ x.transferred \in Nat

InFlow(k, p, e, h, f) ==
  /\ e.state # "SENDING" /\ p \in {"idle", "setup", "enable"}
  /\ Turn(k, e.bank, h.rx, h.fill)
  /\ h.build = <<>> /\ h.packet = <<>>
  /\ Small(e.x)
  /\ e.state = "RECEIVING" /\ p # "setup" => Coming(e.x)
  /\ f.delivered \in Seq(Nat)
  /\ Holds(f.delivered \o Recv(p, e) \o Flat(h.rx), f.sent, f.gone)

\* The inductive invariant, with IInv and Regs.
Inward == Dir = "out" /\ ~off => InFlow(Banks, pc, ep, hw, from)

LEMMA ToSetConcat ==
  ASSUME NEW s \in Seq(Nat), NEW t \in Seq(Nat)
  PROVE  ToSet(s \o t) = ToSet(s) \cup ToSet(t)
<1>1. PICK ls \in Nat, lt \in Nat : ls = Len(s) /\ lt = Len(t)
  OBVIOUS
<1>2. DOMAIN s = 1 .. ls /\ DOMAIN t = 1 .. lt /\ DOMAIN (s \o t) = 1 .. ls + lt
  BY <1>1
<1>3. /\ \A i \in 1 .. ls : (s \o t)[i] = s[i]
      /\ \A i \in 1 .. lt : (s \o t)[ls + i] = t[i]
  BY <1>1
<1>4. PICK u : u = s \o t
  OBVIOUS
<1>5. /\ DOMAIN u = 1 .. ls + lt
      /\ \A i \in 1 .. ls : u[i] = s[i]
      /\ \A i \in 1 .. lt : u[ls + i] = t[i]
  BY <1>2, <1>3, <1>4
<1>6. ASSUME NEW i \in 1 .. ls + lt PROVE u[i] \in ToSet(s) \cup ToSet(t)
  <2>1. CASE i \in 1 .. ls
    BY <2>1, <1>2, <1>5 DEF ToSet
  <2>2. CASE i \in ls + 1 .. ls + lt
    <3>1. PICK j \in 1 .. lt : i = ls + j
      <4>1. i - ls \in 1 .. lt /\ i = ls + (i - ls)
        BY <2>2
      <4> QED BY <4>1
    <3> QED BY <3>1, <1>2, <1>5 DEF ToSet
  <2> QED BY <2>1, <2>2
<1>7. ToSet(u) \subseteq ToSet(s) \cup ToSet(t)
  BY <1>5, <1>6 DEF ToSet
<1>8. \A i \in 1 .. ls : i \in 1 .. ls + lt
  OBVIOUS
<1>9. \A i \in 1 .. lt : ls + i \in 1 .. ls + lt
  OBVIOUS
<1>10. ToSet(s) \subseteq ToSet(u)
  BY <1>2, <1>5, <1>8 DEF ToSet
<1>11. ToSet(t) \subseteq ToSet(u)
  BY <1>2, <1>5, <1>9 DEF ToSet
<1> QED BY <1>4, <1>7, <1>10, <1>11

LEMMA Associative == \A s, t, u \in Seq(Nat) : (s \o t) \o u = s \o (t \o u)
  BY ConcatAssociative

\* Two parts that are kept, one that is lost, and the rest.
Text == Seq(Nat)
Cat(s, t) == s \o t
Regrouped(a, b, s, t, c) == Cat(Cat(a, b), Cat(Cat(s, t), c)) = Cat(Cat(Cat(a, Cat(b, s)), t), c)

LEMMA CatType == \A s, t \in Text : Cat(s, t) \in Text
  BY ConcatProperties DEF Text, Cat

LEMMA CatAssociative == \A s, t, u \in Text : Cat(Cat(s, t), u) = Cat(s, Cat(t, u))
  BY Associative DEF Text, Cat

LEMMA Regroup == \A a, b, s, t, c \in Text : Regrouped(a, b, s, t, c)
<1> TAKE a, b, s, t, c \in Text
<1>1. Cat(Cat(s, t), c) = Cat(s, Cat(t, c))
  BY CatAssociative
<1>2. Cat(Cat(a, b), Cat(s, Cat(t, c))) = Cat(Cat(Cat(a, b), s), Cat(t, c))
  BY CatType, CatAssociative
<1>3. Cat(Cat(a, b), s) = Cat(a, Cat(b, s))
  BY CatAssociative
<1>4. Cat(Cat(Cat(a, b), s), Cat(t, c)) = Cat(Cat(Cat(Cat(a, b), s), t), c)
  <2>1. PICK w \in Text : w = Cat(Cat(a, b), s)
    BY CatType
  <2>2. Cat(w, Cat(t, c)) = Cat(Cat(w, t), c)
    BY CatAssociative
  <2> QED BY <2>1, <2>2
<1> QED BY <1>1, <1>2, <1>3, <1>4 DEF Regrouped

LEMMA InFlowTypes ==
  ASSUME NEW k, NEW p, NEW e, NEW h, NEW f, InFlow(k, p, e, h, f)
  PROVE  f.delivered \in Seq(Nat) /\ Recv(p, e) \in Seq(Nat) /\ Flat(h.rx) \in Seq(Nat)
<1>1. <<>> \in Seq(Nat)
  OBVIOUS
<1>2. Recv(p, e) \in Seq(Nat)
  BY <1>1 DEF InFlow, Coming, Recv
<1>3. Fits(h.rx)
  BY TurnFits DEF InFlow
<1> QED BY <1>2, <1>3, FlatType DEF InFlow

\* No packet moves.
LEMMA InFlowKept ==
  ASSUME NEW k, NEW p, NEW e, NEW h, NEW f, InFlow(k, p, e, h, f),
         NEW q \in {"idle", "setup", "enable"}, NEW d, NEW g,
         d.state # "SENDING", d.bank = e.bank, Small(d.x), Recv(q, d) = Recv(p, e),
         d.state = "RECEIVING" /\ q # "setup" => Coming(d.x),
         g.rx = h.rx, g.fill = h.fill, g.build = h.build, g.packet = h.packet
  PROVE  InFlow(k, q, d, g, f)
BY DEF InFlow

\* A packet of the host: the next n units.
Fresh(d, sent, n) == d = [i \in 1 .. n |-> sent + i]

LEMMA InFlowSent ==
  ASSUME NEW k \in {1, 2}, NEW p, NEW e, NEW h, NEW f, InFlow(k, p, e, h, f),
         e.bank \in 0 .. k - 1, Len(h.rx) < k, f.sent \in Nat, NEW n \in Nat,
         NEW d, Fresh(d, f.sent, n),
         NEW g, g.rx = Append(h.rx, [bank |-> h.fill, data |-> d]),
         g.fill = (h.fill + 1) % k, g.build = h.build, g.packet = h.packet,
         NEW r, r.delivered = f.delivered, r.sent = f.sent + n, r.gone = f.gone
  PROVE  InFlow(k, p, e, g, r)
<1>1. d \in Seq(Nat)
  BY DEF Fresh
<1>2. /\ Turn(k, e.bank, g.rx, g.fill) /\ Flat(g.rx) = Flat(h.rx) \o d
  <2>1. PICK b, rx, x : b \in 0 .. k - 1 /\ b = e.bank /\ rx = h.rx /\ x = h.fill
    OBVIOUS
  <2>2. Turn(k, b, rx, x) /\ Len(rx) < k
    BY <2>1 DEF InFlow
  <2>3. PICK y : y = d
    OBVIOUS
  <2>4. y \in Seq(Nat)
    BY <1>1, <2>3
  <2>5. Filled(k, b, rx, x, y)
    <3>1. b \in 0 .. k - 1
      BY <2>1
    <3> QED BY <2>2, <2>4, <3>1, TurnFilled
  <2> QED BY <2>1, <2>3, <2>5 DEF Filled
<1>3. PICK a, b, c : a = f.delivered /\ b = Recv(p, e) /\ c = Flat(h.rx)
  OBVIOUS
<1>4. a \in Seq(Nat) /\ b \in Seq(Nat) /\ c \in Seq(Nat)
  BY <1>3, InFlowTypes
<1>5. Holds((a \o b \o c) \o d, f.sent + n, f.gone)
  <2>1. Holds(a \o b \o c, f.sent, f.gone)
    BY <1>3 DEF InFlow
  <2>2. Fresh(d, f.sent, n)
    OBVIOUS
  <2> QED BY <2>1, <2>2, HoldsMore DEF Fresh
<1>6. (a \o b \o c) \o d = a \o b \o (c \o d)
  <2>1. a \o b \in Seq(Nat)
    BY <1>4, ConcatProperties
  <2> QED BY <1>1, <1>4, <2>1, Associative
<1>7. Holds(r.delivered \o Recv(p, e) \o Flat(g.rx), r.sent, r.gone)
  BY <1>2, <1>3, <1>5, <1>6
<1> QED BY <1>2, <1>7 DEF InFlow

\* A transfer is aborted.
LEMMA InFlowAborted ==
  ASSUME NEW k, NEW p, NEW e, NEW h, NEW f, InFlow(k, p, e, h, f), f.sent \in Nat,
         NEW d, d.state \notin {"SENDING", "RECEIVING"}, d.bank = e.bank, Small(d.x),
         NEW g, g.rx = h.rx, g.fill = h.fill, g.build = h.build, g.packet = h.packet,
         NEW r, r.delivered = f.delivered, r.sent = f.sent,
         r.gone = f.gone \cup ToSet(Recv(p, e))
  PROVE  InFlow(k, p, d, g, r)
<1>1. PICK a, b, c : a = f.delivered /\ b = Recv(p, e) /\ c = Flat(h.rx)
  OBVIOUS
<1>2. a \in Seq(Nat) /\ b \in Seq(Nat) /\ c \in Seq(Nat)
  BY <1>1, InFlowTypes
<1>3. Holds(a \o c, f.sent, f.gone \cup ToSet(b))
  <2>1. Holds(a \o b \o c, f.sent, f.gone)
    BY <1>1 DEF InFlow
  <2> QED BY <1>2, <2>1, HoldsLess
<1>4. a \o <<>> = a
  BY <1>2, ConcatEmptySeq
<1>5. Recv(p, d) = <<>>
  BY DEF Recv
<1>6. Holds(r.delivered \o Recv(p, d) \o Flat(g.rx), r.sent, r.gone)
  BY <1>1, <1>3, <1>4, <1>5
<1> QED BY <1>6 DEF InFlow

\* The FIFO is emptied, and the driver begins with its first bank.
LEMMA InFlowEmptied ==
  ASSUME NEW k, NEW p, NEW e, NEW h, NEW f, InFlow(k, p, e, h, f), f.sent \in Nat,
         NEW d, d.state \notin {"SENDING", "RECEIVING"}, d.bank = 0, Small(d.x),
         NEW g, g.rx = <<>>, g.fill = 0, g.build = <<>>, g.packet = <<>>,
         NEW r, r.delivered = f.delivered, r.sent = f.sent,
         r.gone = f.gone \cup (ToSet(Recv(p, e)) \cup ToSet(Flat(h.rx)))
  PROVE  InFlow(k, p, d, g, r)
<1>1. PICK a, b, c : a = f.delivered /\ b = Recv(p, e) /\ c = Flat(h.rx)
  OBVIOUS
<1>2. a \in Seq(Nat) /\ b \in Seq(Nat) /\ c \in Seq(Nat) /\ <<>> \in Seq(Nat)
  BY <1>1, InFlowTypes
<1>3. Holds(a \o c, f.sent, f.gone \cup ToSet(b))
  <2>1. Holds(a \o b \o c, f.sent, f.gone)
    BY <1>1 DEF InFlow
  <2> QED BY <1>2, <2>1, HoldsLess
<1>4. a \o <<>> = a /\ (a \o c) \o <<>> = a \o c
  <2>1. a \o c \in Seq(Nat)
    BY <1>2, ConcatProperties
  <2> QED BY <1>2, <2>1, ConcatEmptySeq
<1>5. Holds(a \o <<>>, f.sent, (f.gone \cup ToSet(b)) \cup ToSet(c))
  <2>1. Holds(a \o c \o <<>>, f.sent, f.gone \cup ToSet(b))
    BY <1>3, <1>4
  <2> QED BY <1>2, <2>1, HoldsLess
<1>6. Recv(p, d) = <<>> /\ Flat(g.rx) = <<>>
  BY FlatNone DEF Recv
<1>7. (f.gone \cup ToSet(b)) \cup ToSet(c) = r.gone
  BY <1>1
<1>8. Holds(r.delivered \o Recv(p, d) \o Flat(g.rx), r.sent, r.gone)
  <2>1. r.delivered \o Recv(p, d) \o Flat(g.rx) = a \o <<>> \o <<>>
    BY <1>1, <1>6
  <2>2. a \o <<>> \o <<>> = a \o <<>>
    BY <1>4
  <2> QED BY <1>5, <1>7, <2>1, <2>2
<1>9. Turn(k, d.bank, g.rx, g.fill)
  BY DEF Turn
<1> QED BY <1>8, <1>9 DEF InFlow

\* The first packet is thrown away.
LEMMA InFlowDiscarded ==
  ASSUME NEW k \in {1, 2}, NEW p, NEW e, NEW h, NEW f, InFlow(k, p, e, h, f), f.sent \in Nat,
         e.bank \in 0 .. k - 1, h.rx # <<>>, e.state # "RECEIVING",
         NEW d, d.state = e.state, d.x = e.x, d.bank = Following(k, e.bank),
         NEW g, g.rx = Release(h.rx, e.bank), g.fill = h.fill, g.build = h.build,
         g.packet = h.packet,
         NEW r, r.delivered = f.delivered, r.sent = f.sent,
         r.gone = f.gone \cup ToSet(Head(h.rx).data)
  PROVE  InFlow(k, p, d, g, r)
<1>1. PICK b0, rx, x : b0 \in 0 .. k - 1 /\ b0 = e.bank /\ rx = h.rx /\ x = h.fill
  OBVIOUS
<1>2. Turn(k, b0, rx, x) /\ rx # <<>>
  BY <1>1 DEF InFlow
<1>n. b0 \in 0 .. k - 1
  BY <1>1
<1>3. /\ Turn(k, Following(k, b0), Release(rx, b0), x) /\ Head(rx) \in Packet
      /\ Flat(rx) = Head(rx).data \o Flat(Release(rx, b0)) /\ Flat(Release(rx, b0)) \in Seq(Nat)
  BY <1>2, <1>n, TurnReleased
<1>4. PICK a, b, c : a = f.delivered /\ b = Head(rx).data /\ c = Flat(Release(rx, b0))
  OBVIOUS
<1>5. a \in Seq(Nat) /\ b \in Seq(Nat) /\ c \in Seq(Nat)
  BY <1>3, <1>4, InFlowTypes DEF Packet
<1>6. Recv(p, e) = <<>> /\ Recv(p, d) = <<>> /\ a \o <<>> = a
  BY <1>5, ConcatEmptySeq DEF Recv
<1>7. Holds(a \o (b \o c), f.sent, f.gone)
  <2>1. Holds(f.delivered \o Recv(p, e) \o Flat(h.rx), f.sent, f.gone)
    BY DEF InFlow
  <2>2. f.delivered \o Recv(p, e) = a
    BY <1>4, <1>6
  <2>3. Flat(h.rx) = b \o c
    BY <1>1, <1>3, <1>4
  <2> QED BY <2>1, <2>2, <2>3
<1>8. a \o (b \o c) = a \o b \o c
  BY <1>5, Associative
<1>9. Holds(a \o c, f.sent, f.gone \cup ToSet(b))
  <2>1. Holds(a \o b \o c, f.sent, f.gone)
    BY <1>7, <1>8
  <2> QED BY <1>5, <2>1, HoldsLess
<1>10. Holds(r.delivered \o Recv(p, d) \o Flat(g.rx), r.sent, r.gone)
  BY <1>1, <1>4, <1>6, <1>9
<1>11. Turn(k, d.bank, g.rx, g.fill)
  BY <1>1, <1>3
<1> QED BY <1>10, <1>11 DEF InFlow

\* What UDP_ReadPayload keeps of a packet, and what it drops.
Kept(x, packet) == SubSeq(packet, 1, IF Len(packet) > x.remaining THEN x.remaining ELSE Len(packet))
Dropped(x, packet) ==
  SubSeq(packet, (IF Len(packet) > x.remaining THEN x.remaining ELSE Len(packet)) + 1, Len(packet))

LEMMA StoreIs ==
  ASSUME NEW x, XFields(x), Coming(x), NEW packet \in Seq(Nat)
  PROVE  LET y == Store(x, packet) IN
         /\ y.data = x.data \o Kept(x, packet)
         /\ Kept(x, packet) \in Seq(Nat) /\ Dropped(x, packet) \in Seq(Nat)
         /\ Kept(x, packet) \o Dropped(x, packet) = packet
         /\ y.data \in Seq(Nat) /\ y.remaining \in Nat /\ y.transferred \in Nat
         /\ y.remaining # 0 => y.buffered = 0
<1>y. PICK y : y = Store(x, packet)
  OBVIOUS
<1> DEFINE size == IF Len(packet) > x.remaining THEN x.remaining ELSE Len(packet)
<1>1. y = [x EXCEPT !.data = @ \o SubSeq(packet, 1, size), !.remaining = @ - size,
                    !.transferred = @ + size, !.buffered = @ + Len(packet) - size]
  BY <1>y DEF Store
<1>2. /\ x.data \in Seq(Nat) /\ x.remaining \in Nat /\ x.buffered = 0 /\ x.transferred \in Nat
      /\ Len(packet) \in Nat
  BY DEF Coming
<1>3. /\ size \in Nat /\ size <= Len(packet) /\ size <= x.remaining
      /\ x.remaining - size # 0 => size = Len(packet)
  BY <1>2
<1>4. Kept(x, packet) = SubSeq(packet, 1, size) /\ Dropped(x, packet) = SubSeq(packet, size + 1, Len(packet))
  BY DEF Kept, Dropped
<1> HIDE DEF size
<1>5. y = [data |-> x.data \o SubSeq(packet, 1, size), remaining |-> x.remaining - size,
           buffered |-> x.buffered + Len(packet) - size, transferred |-> x.transferred + size]
  BY <1>1 DEF XFields
<1>6. /\ SubSeq(packet, 1, size) \in Seq(Nat) /\ SubSeq(packet, size + 1, Len(packet)) \in Seq(Nat)
  BY <1>2, <1>3
<1>7. SubSeq(packet, 1, size) \o SubSeq(packet, size + 1, Len(packet)) = packet
  <2>1. /\ 1 \in 1 .. Len(packet) + 1 /\ size \in 1 - 1 .. Len(packet)
        /\ Len(packet) \in size .. Len(packet)
    BY <1>2, <1>3
  <2>2. SubSeq(packet, 1, size) \o SubSeq(packet, size + 1, Len(packet)) = SubSeq(packet, 1, Len(packet))
    BY <2>1, ConcatAdjacentSubSeq
  <2>3. SubSeq(packet, 1, Len(packet)) = packet
    OBVIOUS
  <2> QED BY <2>2, <2>3
<1>8. x.data \o SubSeq(packet, 1, size) \in Seq(Nat)
  BY <1>2, <1>6, ConcatProperties
<1>9. y.data = x.data \o Kept(x, packet) /\ y.data \in Seq(Nat)
  BY <1>4, <1>5, <1>8
<1>10. y.remaining \in Nat /\ y.transferred \in Nat /\ (y.remaining # 0 => y.buffered = 0)
  <2>1. y.remaining = x.remaining - size /\ y.buffered = x.buffered + Len(packet) - size
        /\ y.transferred = x.transferred + size
    BY <1>5
  <2> QED BY <1>2, <1>3, <2>1
<1>11. /\ Kept(x, packet) \in Seq(Nat) /\ Dropped(x, packet) \in Seq(Nat)
       /\ Kept(x, packet) \o Dropped(x, packet) = packet
  BY <1>4, <1>6, <1>7
<1> QED BY <1>y, <1>9, <1>10, <1>11

\* A packet is read, and what did not fit is lost.
LEMMA InFlowRead ==
  ASSUME NEW k \in {1, 2}, NEW p, NEW e, NEW h, NEW f, InFlow(k, p, e, h, f), f.sent \in Nat,
         p # "setup", XFields(e.x), e.bank \in 0 .. k - 1, h.rx # <<>>, e.state = "RECEIVING",
         NEW packet, packet = Head(h.rx).data, NEW y, y = Store(e.x, packet),
         NEW ends \in BOOLEAN, y.remaining = 0 => ends,
         NEW d, d.state = (IF ends THEN "IDLE" ELSE e.state), d.bank = Following(k, e.bank),
         d.x = (IF ends THEN NoXfer ELSE y),
         NEW g, g.rx = Release(h.rx, e.bank), g.fill = h.fill, g.build = h.build,
         g.packet = h.packet,
         NEW r, r.delivered = (IF ends THEN f.delivered \o y.data ELSE f.delivered),
         r.sent = f.sent, r.gone = f.gone \cup (ToSet(packet) \ ToSet(y.data))
  PROVE  InFlow(k, p, d, g, r)
<1>1. PICK b0, rx, x : b0 \in 0 .. k - 1 /\ b0 = e.bank /\ rx = h.rx /\ x = h.fill
  OBVIOUS
<1>2. Turn(k, b0, rx, x) /\ rx # <<>>
  BY <1>1 DEF InFlow
<1>n. b0 \in 0 .. k - 1
  BY <1>1
<1>3. /\ Turn(k, Following(k, b0), Release(rx, b0), x) /\ Head(rx) \in Packet
      /\ Flat(rx) = Head(rx).data \o Flat(Release(rx, b0)) /\ Flat(Release(rx, b0)) \in Seq(Nat)
  BY <1>2, <1>n, TurnReleased
<1>4. packet \in Seq(Nat) /\ Coming(e.x)
  BY <1>1, <1>3 DEF Packet, InFlow
<1>5. PICK kept, over : kept = Kept(e.x, packet) /\ over = Dropped(e.x, packet)
  OBVIOUS
<1>6. /\ y.data = e.x.data \o kept /\ kept \in Seq(Nat) /\ over \in Seq(Nat)
      /\ kept \o over = packet /\ y.data \in Seq(Nat) /\ y.remaining \in Nat /\ y.transferred \in Nat
      /\ y.remaining # 0 => y.buffered = 0
  <2>1. PICK x0, q : x0 = e.x /\ q = packet
    OBVIOUS
  <2>2. XFields(x0) /\ Coming(x0) /\ q \in Seq(Nat)
    BY <1>4, <2>1
  <2>3. LET w == Store(x0, q) IN
         /\ w.data = x0.data \o Kept(x0, q)
         /\ Kept(x0, q) \in Seq(Nat) /\ Dropped(x0, q) \in Seq(Nat)
         /\ Kept(x0, q) \o Dropped(x0, q) = q
         /\ w.data \in Seq(Nat) /\ w.remaining \in Nat /\ w.transferred \in Nat
         /\ w.remaining # 0 => w.buffered = 0
    BY <2>2, StoreIs
  <2> QED BY <1>5, <2>1, <2>3
<1>a. kept \in Seq(Nat) /\ over \in Seq(Nat)
  BY <1>6
<1>7. PICK a, b, c, z : a = f.delivered /\ b = e.x.data /\ c = Flat(Release(rx, b0)) /\ z = y.data
  OBVIOUS
<1>8. /\ a \in Seq(Nat) /\ b \in Seq(Nat) /\ c \in Seq(Nat) /\ z \in Seq(Nat) /\ z = b \o kept
      /\ <<>> \in Seq(Nat)
  BY <1>3, <1>4, <1>6, <1>7, InFlowTypes DEF Coming
<1>b. a \in Seq(Nat) /\ b \in Seq(Nat) /\ c \in Seq(Nat)
  BY <1>8
<1>9. Holds((a \o z) \o over \o c, f.sent, f.gone)
  <2>1. Holds(a \o b \o (packet \o c), f.sent, f.gone)
    <3>1. Holds(f.delivered \o Recv(p, e) \o Flat(h.rx), f.sent, f.gone)
      BY DEF InFlow
    <3>2. Recv(p, e) = b
      BY <1>7 DEF Recv
    <3>3. Flat(h.rx) = packet \o c
      BY <1>1, <1>3, <1>7
    <3>4. f.delivered = a
      BY <1>7
    <3> QED BY <3>1, <3>2, <3>3, <3>4
  <2>2. Regrouped(a, b, kept, over, c)
    <3>1. a \in Text /\ b \in Text /\ c \in Text /\ kept \in Text /\ over \in Text
      BY <1>a, <1>b DEF Text
    <3> QED BY <3>1, Regroup
  <2>3. (a \o b) \o ((kept \o over) \o c) = (a \o (b \o kept)) \o over \o c
    BY <2>2 DEF Regrouped, Cat
  <2> QED BY <1>6, <1>8, <2>1, <2>3
<1>10. a \o z \in Seq(Nat)
  BY <1>8, ConcatProperties
<1>11. Holds((a \o z) \o c, f.sent, f.gone \cup ToSet(over)) /\ ToSet(a \o z) \cap ToSet(over) = {}
  BY <1>6, <1>8, <1>9, <1>10, HoldsLess
<1>12. ToSet(packet) \ ToSet(z) = ToSet(over)
  <2>1. ToSet(packet) = ToSet(kept) \cup ToSet(over)
    BY <1>6, ToSetConcat
  <2>2. ToSet(z) = ToSet(b) \cup ToSet(kept)
    BY <1>6, <1>8, ToSetConcat
  <2>3. ToSet(a \o z) = ToSet(a) \cup ToSet(z)
    BY <1>8, ToSetConcat
  <2> QED BY <1>11, <2>1, <2>2, <2>3
<1>13. Turn(k, d.bank, g.rx, g.fill) /\ Flat(g.rx) = c
  BY <1>1, <1>3, <1>7
<1>14. CASE ends
  <2>1. Recv(p, d) = <<>> /\ r.delivered = a \o z /\ d.x = NoXfer /\ d.state = "IDLE"
    BY <1>7, <1>14 DEF Recv
  <2>2. (a \o z) \o <<>> = a \o z
    BY <1>10, ConcatEmptySeq
  <2>3. Holds(r.delivered \o Recv(p, d) \o Flat(g.rx), r.sent, r.gone)
    BY <1>7, <1>11, <1>12, <1>13, <2>1, <2>2
  <2>4. Small(d.x)
    BY <2>1 DEF Small, NoXfer
  <2> QED BY <1>10, <1>13, <2>1, <2>3, <2>4 DEF InFlow
<1>15. CASE ~ends
  <2>1. Recv(p, d) = z /\ r.delivered = a /\ d.x = y /\ d.state = "RECEIVING"
    BY <1>7, <1>15 DEF Recv
  <2>2. Holds(r.delivered \o Recv(p, d) \o Flat(g.rx), r.sent, r.gone)
    BY <1>7, <1>11, <1>12, <1>13, <2>1
  <2>3. Coming(y) /\ Small(y)
    BY <1>6, <1>15 DEF Coming, Small
  <2> QED BY <1>8, <1>13, <2>1, <2>2, <2>3 DEF InFlow
<1> QED BY <1>14, <1>15

-----------------------------------------------------------------------------
(* From the host: the steps                                                 *)

\* What the steps find.
Facts == IInv /\ Regs /\ Dir = "out" /\ ~off /\ InFlow(Banks, pc, ep, hw, from)

LEMMA FactsAre ==
  ASSUME Facts
  PROVE  /\ HFields(hw) /\ XFields(ep.x) /\ FromFields(from) /\ from.sent \in Nat
         /\ Banks \in {1, 2} /\ ep.bank \in 0 .. Banks - 1
         /\ ep = [state |-> ep.state, bank |-> ep.bank, x |-> ep.x] /\ ep.state \in State
         /\ Small(ep.x) /\ pc \in {"idle", "setup", "enable"} /\ ep.state # "SENDING"
         /\ hw.build = <<>> /\ hw.packet = <<>>
BY BanksType DEF Facts, IInv, Shape, Regs, RegsOf, FromFields, InFlow

\* The FIFO is as it was.
SameFifo(g, h) == g.rx = h.rx /\ g.fill = h.fill /\ g.build = h.build /\ g.packet = h.packet

\* The units of the history that are given up.
LEMMA LoseIs ==
  ASSUME NEW f, FromFields(f), NEW units, NEW g, g = [f EXCEPT !.gone = @ \cup units]
  PROVE  g.delivered = f.delivered /\ g.sent = f.sent /\ g.gone = f.gone \cup units
BY DEF FromFields

LEMMA HostInward == Facts /\ Host => InFlow(Banks, pc', ep', hw', from')
<1> SUFFICES ASSUME Facts, Host PROVE InFlow(Banks, pc', ep', hw', from')
  OBVIOUS
<1>0. /\ HFields(hw) /\ FromFields(from) /\ from.sent \in Nat
      /\ Banks \in {1, 2} /\ ep.bank \in 0 .. Banks - 1 /\ InFlow(Banks, pc, ep, hw, from)
  BY FactsAre DEF Facts
<1>1. ~HostReads
  BY DEF Facts, HostReads
<1>2. CASE HostSends
  <2>1. PICK n \in 0 .. Size :
          /\ hw' = [hw EXCEPT !.rx = Append(@, [bank |-> hw.fill,
                                                data |-> [i \in 1 .. n |-> from.sent + i]]),
                              !.fill = (@ + 1) % Banks]
          /\ from' = [from EXCEPT !.packets = @ + 1, !.sent = @ + n]
          /\ Len(hw.rx) < Banks /\ pc' = pc /\ ep' = ep
    BY <1>2 DEF HostSends
  <2>a. n \in Nat
    BY UdpAssumption
  <2>2. PICK d, g, r : d = [i \in 1 .. n |-> from.sent + i] /\ g = hw' /\ r = from'
    OBVIOUS
  <2>b. Fresh(d, from.sent, n)
    BY <2>2 DEF Fresh
  <2>c. Len(hw.rx) < Banks
    BY <2>1
  <2>3. PICK rx, x : rx = Append(hw.rx, [bank |-> hw.fill, data |-> d]) /\ x = (hw.fill + 1) % Banks
    OBVIOUS
  <2>4. g = [hw EXCEPT !.rx = rx, !.fill = x]
    BY <2>1, <2>2, <2>3
  <2>5. g.rx = rx /\ g.fill = x /\ g.build = hw.build /\ g.packet = hw.packet
    BY <1>0, <2>4 DEF HFields
  <2>6. r.delivered = from.delivered /\ r.sent = from.sent + n /\ r.gone = from.gone
    BY <1>0, <2>1, <2>2 DEF FromFields
  <2>7. InFlow(Banks, pc, ep, g, r)
    BY <1>0, <2>a, <2>b, <2>c, <2>3, <2>5, <2>6, InFlowSent
  <2> QED BY <2>1, <2>2, <2>7
<1>3. CASE HostStalled
  <2>1. hw' = [hw EXCEPT !.sent = TRUE] /\ UNCHANGED <<pc, ep, from>>
    BY <1>3 DEF HostStalled, history
  <2>2. SameFifo(hw', hw)
    BY <1>0, <2>1 DEF HFields, SameFifo
  <2> QED BY <1>0, <2>1, <2>2 DEF SameFifo, InFlow
<1> QED BY <1>1, <1>2, <1>3 DEF Host

LEMMA MainLoopInward == Facts /\ MainLoop => InFlow(Banks, pc', ep', hw', from')
<1> SUFFICES ASSUME Facts, MainLoop PROVE InFlow(Banks, pc', ep', hw', from')
  OBVIOUS
<1>0. /\ InFlow(Banks, pc, ep, hw, from) /\ Small(ep.x) /\ ep.state # "SENDING"
      /\ ep = [state |-> ep.state, bank |-> ep.bank, x |-> ep.x]
  BY FactsAre DEF Facts
<1>1. ~Write /\ ~WriteSetup /\ ~WriteLoad /\ ~WriteStart /\ ~WriteSecond
  BY FactsAre DEF Facts, Write, WriteSetup, WriteLoad, WriteStart, WriteSecond
<1>2. CASE Read
  <2>1. /\ ep' = [ep EXCEPT !.state = "RECEIVING"] /\ pc' = "setup" /\ ep.state = "IDLE"
        /\ UNCHANGED <<hw, from>>
    BY <1>2 DEF Read
  <2>2. ep' = [state |-> "RECEIVING", bank |-> ep.bank, x |-> ep.x]
    BY <1>0, <2>1
  <2>3. PICK d : d = ep'
    OBVIOUS
  <2>4. Recv("setup", d) = Recv(pc, ep)
    BY <2>1 DEF Recv
  <2>5. d.state = "RECEIVING" /\ d.bank = ep.bank /\ d.x = ep.x
    BY <2>2, <2>3
  <2>6. InFlow(Banks, "setup", d, hw, from)
    BY <1>0, <2>4, <2>5, InFlowKept
  <2> QED BY <2>1, <2>3, <2>6
<1>3. CASE ReadSetup
  <2>1. /\ ep' = [ep EXCEPT !.x = NewXfer(<<>>, Tailroom)] /\ pc = "setup" /\ pc' = "enable"
        /\ UNCHANGED <<hw, from>>
    BY <1>3 DEF ReadSetup, history
  <2>2. PICK d, x : d = ep' /\ x = NewXfer(<<>>, Tailroom)
    OBVIOUS
  <2>3. d.state = ep.state /\ d.bank = ep.bank /\ d.x = x
    BY <1>0, <2>1, <2>2
  <2>4. /\ x.data = <<>> /\ x.remaining = Tailroom /\ x.buffered = 0 /\ x.transferred = 0
    BY <2>2 DEF NewXfer
  <2>5. Coming(x) /\ Small(x)
    <3>1. <<>> \in Seq(Nat)
      OBVIOUS
    <3> QED BY <2>4, <3>1, UdpAssumption DEF Coming, Small
  <2>6. Recv("enable", d) = <<>> /\ Recv(pc, ep) = <<>>
    BY <2>1, <2>3, <2>4 DEF Recv
  <2>7. InFlow(Banks, "enable", d, hw, from)
    BY <1>0, <2>3, <2>5, <2>6, InFlowKept
  <2> QED BY <2>1, <2>2, <2>7
<1>4. CASE Enable
  <2>1. pc = "enable" /\ pc' = "idle" /\ UNCHANGED <<ep, hw, from>>
    BY <1>4 DEF Enable, history
  <2>2. Recv("idle", ep) = Recv(pc, ep)
    BY <2>1 DEF Recv
  <2>3. InFlow(Banks, "idle", ep, hw, from)
    BY <1>0, <2>1, <2>2 DEF InFlow
  <2> QED BY <2>1, <2>3
<1> QED BY <1>1, <1>2, <1>3, <1>4 DEF MainLoop

\* The bank the driver goes to is the one the controller fills after this one.
LEMMA NextBankIs == ASSUME NEW b PROVE NextBank(b) = Following(Banks, b)
  BY DEF NextBank, Following

LEMMA PacketReadInward ==
  Facts /\ PacketRead /\ ~off' => InFlow(Banks, pc', ep', hw', from')
<1> SUFFICES ASSUME Facts, PacketRead, ~off' PROVE InFlow(Banks, pc', ep', hw', from')
  OBVIOUS
<1>0. /\ HFields(hw) /\ XFields(ep.x) /\ FromFields(from) /\ from.sent \in Nat
      /\ Banks \in {1, 2} /\ ep.bank \in 0 .. Banks - 1 /\ InFlow(Banks, pc, ep, hw, from)
  BY FactsAre DEF Facts
<1>1. pc = "idle" /\ pc' = pc /\ ep.state = "RECEIVING" /\ hw.rx # <<>>
  BY Zenon DEF PacketRead, OffIf
<1>2. PICK packet, y, ends :
        /\ packet = Head(hw.rx).data /\ y = Store(ep.x, packet)
        /\ ends = (y.remaining = 0 \/ Len(packet) < Size)
        /\ ep' = [state |-> IF ends THEN "IDLE" ELSE ep.state, bank |-> NextBank(ep.bank),
                  x |-> IF ends THEN NoXfer ELSE y]
        /\ from' = [from EXCEPT !.delivered = IF ends THEN @ \o y.data ELSE @,
                                !.gone = @ \cup (ToSet(packet) \ ToSet(y.data))]
        /\ hw' = [hw EXCEPT !.rx = Release(@, ep.bank)]
  BY DEF PacketRead
<1>3. ends \in BOOLEAN /\ (y.remaining = 0 => ends)
  BY <1>2, Zenon
<1>4. PICK d, g, r : d = ep' /\ g = hw' /\ r = from'
  OBVIOUS
<1>5. /\ d.state = (IF ends THEN "IDLE" ELSE ep.state) /\ d.bank = Following(Banks, ep.bank)
      /\ d.x = (IF ends THEN NoXfer ELSE y)
  BY <1>2, <1>4, NextBankIs
<1>6. g.rx = Release(hw.rx, ep.bank) /\ g.fill = hw.fill /\ g.build = hw.build /\ g.packet = hw.packet
  <2>1. PICK rx : rx = Release(hw.rx, ep.bank)
    OBVIOUS
  <2>2. g = [hw EXCEPT !.rx = rx]
    BY <1>2, <1>4, <2>1
  <2>3. g.rx = rx /\ g.fill = hw.fill /\ g.build = hw.build /\ g.packet = hw.packet
    BY <1>0, <2>2 DEF HFields
  <2> QED BY <2>1, <2>3
<1>7. /\ r.delivered = (IF ends THEN from.delivered \o y.data ELSE from.delivered)
      /\ r.sent = from.sent /\ r.gone = from.gone \cup (ToSet(packet) \ ToSet(y.data))
  <2>1. PICK u, w : /\ u = (IF ends THEN from.delivered \o y.data ELSE from.delivered)
                    /\ w = from.gone \cup (ToSet(packet) \ ToSet(y.data))
    OBVIOUS
  <2>2. r = [from EXCEPT !.delivered = u, !.gone = w]
    BY <1>2, <1>4, <2>1
  <2>3. r.delivered = u /\ r.sent = from.sent /\ r.gone = w
    BY <1>0, <2>2 DEF FromFields
  <2> QED BY <2>1, <2>3
<1>8. pc # "setup"
  BY <1>1
<1>9. packet = Head(hw.rx).data /\ y = Store(ep.x, packet)
  BY <1>2
<1>10. InFlow(Banks, pc, d, g, r)
  BY <1>0, <1>1, <1>3, <1>5, <1>6, <1>7, <1>8, <1>9, InFlowRead
<1> QED BY <1>1, <1>4, <1>10

LEMMA DiscardInward == Facts /\ Discard => InFlow(Banks, pc', ep', hw', from')
<1> SUFFICES ASSUME Facts, Discard PROVE InFlow(Banks, pc', ep', hw', from')
  OBVIOUS
<1>0. /\ HFields(hw) /\ FromFields(from) /\ from.sent \in Nat
      /\ ep = [state |-> ep.state, bank |-> ep.bank, x |-> ep.x]
      /\ Banks \in {1, 2} /\ ep.bank \in 0 .. Banks - 1 /\ InFlow(Banks, pc, ep, hw, from)
  BY FactsAre DEF Facts
<1>1. /\ pc' = pc /\ ep.state # "RECEIVING" /\ hw.rx # <<>>
      /\ hw' = [hw EXCEPT !.rx = Release(@, ep.bank)]
      /\ ep' = [ep EXCEPT !.bank = NextBank(@)]
      /\ from' = [from EXCEPT !.gone = @ \cup ToSet(Head(hw.rx).data)]
  BY DEF Discard, Lose
<1>2. PICK d, g, r : d = ep' /\ g = hw' /\ r = from'
  OBVIOUS
<1>3. d.state = ep.state /\ d.x = ep.x /\ d.bank = Following(Banks, ep.bank)
  <2>1. d = [state |-> ep.state, bank |-> NextBank(ep.bank), x |-> ep.x]
    BY <1>0, <1>1, <1>2
  <2> QED BY <2>1, NextBankIs
<1>4. g.rx = Release(hw.rx, ep.bank) /\ g.fill = hw.fill /\ g.build = hw.build /\ g.packet = hw.packet
  <2>1. PICK rx : rx = Release(hw.rx, ep.bank)
    OBVIOUS
  <2>2. g = [hw EXCEPT !.rx = rx]
    BY <1>1, <1>2, <2>1
  <2>3. g.rx = rx /\ g.fill = hw.fill /\ g.build = hw.build /\ g.packet = hw.packet
    BY <1>0, <2>2 DEF HFields
  <2> QED BY <2>1, <2>3
<1>5. /\ r.delivered = from.delivered /\ r.sent = from.sent
      /\ r.gone = from.gone \cup ToSet(Head(hw.rx).data)
  BY <1>0, <1>1, <1>2, LoseIs
<1>6. InFlow(Banks, pc, d, g, r)
  BY <1>0, <1>1, <1>3, <1>4, <1>5, InFlowDiscarded
<1> QED BY <1>1, <1>2, <1>6

LEMMA EndpointHandlerInward ==
  Facts /\ EndpointHandler /\ ~off' => InFlow(Banks, pc', ep', hw', from')
<1> SUFFICES ASSUME Facts, EndpointHandler, ~off' PROVE InFlow(Banks, pc', ep', hw', from')
  OBVIOUS
<1>0. HFields(hw) /\ InFlow(Banks, pc, ep, hw, from)
  BY FactsAre DEF Facts
<1>1. ~TransferSent /\ ~PacketSent
  BY FactsAre DEF TransferSent, PacketSent
<1>2. CASE StrayComp
  <2>1. hw' = [hw EXCEPT !.comp = FALSE] /\ UNCHANGED <<pc, ep, from>>
    BY <1>2 DEF StrayComp
  <2>2. SameFifo(hw', hw)
    BY <1>0, <2>1 DEF HFields, SameFifo
  <2> QED BY <1>0, <2>1, <2>2 DEF SameFifo, InFlow
<1>3. CASE Nak
  <2>1. UNCHANGED <<pc, ep, hw, from>>
    BY <1>3 DEF Nak
  <2> QED BY <1>0, <2>1
<1>4. CASE StallSent
  <2>1. PICK c : hw' = [hw EXCEPT !.sent = FALSE, !.stall = c]
    BY <1>4 DEF StallSent
  <2>2. UNCHANGED <<pc, ep, from>>
    BY <1>4 DEF StallSent, history
  <2>3. SameFifo(hw', hw)
    BY <1>0, <2>1 DEF HFields, SameFifo
  <2> QED BY <1>0, <2>2, <2>3 DEF SameFifo, InFlow
<1> QED BY <1>1, <1>2, <1>3, <1>4, PacketReadInward, DiscardInward DEF EndpointHandler

\* A transfer from the host that ends leaves the registers alone.
LEMMA EndedInward ==
  ASSUME Facts, NEW status
  PROVE  LET r == Ended(status) IN
         /\ r.hw = hw /\ r.ep.bank = ep.bank /\ Small(r.ep.x)
<1>1. PICK r : r = Ended(status)
  OBVIOUS
<1>2. ~WantsZlp(ep.x)
  BY DEF Facts, WantsZlp
<1>3. CASE ~Active(ep)
  BY <1>1, <1>3, FactsAre DEF Ended
<1>4. CASE Active(ep)
  <2>1. r.ep = [ep EXCEPT !.state = "IDLE", !.x = NoXfer] /\ r.hw = hw
    BY <1>1, <1>2, <1>4 DEF Ended
  <2>2. r.ep.x = NoXfer /\ r.ep.bank = ep.bank
    BY <2>1, FactsAre
  <2>3. Small(r.ep.x)
    BY <2>2 DEF Small, NoXfer
  <2> QED BY <1>1, <2>1, <2>2, <2>3
<1> QED BY <1>3, <1>4

\* The FIFO is emptied while driver and controller agree.
LEMMA EmptiedInward ==
  ASSUME Facts, NEW h, HFields(h), hw' \in FifoReset(h), pc' = pc,
         ep'.state \notin {"SENDING", "RECEIVING"}, ep'.bank = 0, Small(ep'.x),
         from' = [from EXCEPT !.gone = @ \cup (ToSet(Recv(pc, ep)) \cup InFifo)]
  PROVE  InFlow(Banks, pc', ep', hw', from')
<1>0. /\ FromFields(from) /\ from.sent \in Nat /\ InFlow(Banks, pc, ep, hw, from)
  BY FactsAre DEF Facts
<1>1. PICK d, g, r : d = ep' /\ g = hw' /\ r = from'
  OBVIOUS
<1>2. g.rx = <<>> /\ g.fill = 0 /\ g.build = <<>> /\ g.packet = <<>>
  <2>1. g \in FifoReset(h)
    BY <1>1
  <2> QED BY <2>1, ResetRegs, FifoResetIs
<1>3. PICK units : units = ToSet(Recv(pc, ep)) \cup ToSet(Flat(hw.rx))
  OBVIOUS
<1>4. r = [from EXCEPT !.gone = @ \cup units]
  BY <1>1, <1>3 DEF InFifo
<1>5. r.delivered = from.delivered /\ r.sent = from.sent /\ r.gone = from.gone \cup units
  BY <1>0, <1>4, LoseIs
<1>6. d.state \notin {"SENDING", "RECEIVING"} /\ d.bank = 0 /\ Small(d.x)
  BY <1>1
<1>7. InFlow(Banks, pc, d, g, r)
  BY <1>0, <1>2, <1>3, <1>5, <1>6, InFlowEmptied
<1> QED BY <1>1, <1>7

LEMMA ControlInward == Facts /\ Control /\ ~off' => InFlow(Banks, pc', ep', hw', from')
<1> SUFFICES ASSUME Facts, Control, ~off' PROVE InFlow(Banks, pc', ep', hw', from')
  OBVIOUS
<1>0. /\ HFields(hw) /\ FromFields(from) /\ from.sent \in Nat /\ Small(ep.x)
      /\ ep = [state |-> ep.state, bank |-> ep.bank, x |-> ep.x]
      /\ InFlow(Banks, pc, ep, hw, from) /\ Shape
  BY FactsAre DEF Facts, IInv
<1>a. Received = Recv(pc, ep)
  BY DEF Received, Recv
<1>1. CASE Halt
  <2>1. /\ ep' = [Ended("ABORTED").ep EXCEPT !.state = "HALTED"]
        /\ hw' = [Ended("ABORTED").hw EXCEPT !.stall = TRUE] /\ pc' = pc
        /\ from' = [from EXCEPT !.gone = @ \cup InXfer]
    BY <1>1 DEF Halt, Lose
  <2>2. PICK e : e = Ended("ABORTED").ep
    OBVIOUS
  <2>3. /\ e = [state |-> e.state, bank |-> ep.bank, x |-> e.x] /\ Small(e.x)
        /\ Ended("ABORTED").hw = hw
    BY <1>0, <2>2, EndedFacts, EndedInward
  <2>4. PICK d, g, r : d = ep' /\ g = hw' /\ r = from'
    OBVIOUS
  <2>5. d.state = "HALTED" /\ d.bank = ep.bank /\ Small(d.x)
    <3>1. d = [state |-> "HALTED", bank |-> ep.bank, x |-> e.x]
      BY <2>1, <2>2, <2>3, <2>4
    <3> QED BY <2>3, <3>1
  <2>6. SameFifo(g, hw)
    <3>1. g = [hw EXCEPT !.stall = TRUE]
      BY <2>1, <2>3, <2>4
    <3> QED BY <1>0, <3>1 DEF HFields, SameFifo
  <2>7. r.delivered = from.delivered /\ r.sent = from.sent
        /\ r.gone = from.gone \cup ToSet(Recv(pc, ep))
    <3>1. InXfer = ToSet(Recv(pc, ep))
      BY <1>a DEF InXfer
    <3> QED BY <1>0, <2>1, <2>4, <3>1, LoseIs
  <2>8. InFlow(Banks, pc, d, g, r)
    BY <1>0, <2>5, <2>6, <2>7, InFlowAborted DEF SameFifo
  <2> QED BY <2>1, <2>4, <2>8
<1>2. CASE Unhalt
  <2>1. /\ ep.state = "HALTED" /\ ep' = [ep EXCEPT !.state = "IDLE"] /\ pc' = pc
        /\ hw' \in FifoReset([hw EXCEPT !.stall = FALSE])
        /\ from' = [from EXCEPT !.gone = @ \cup InFifo]
        /\ OffIf(ep.bank # 0 \/ hw'.ready)
    BY <1>2 DEF Unhalt, Lose
  <2>2. ep.bank = 0
    BY <2>1, Zenon DEF OffIf
  <2>3. HFields([hw EXCEPT !.stall = FALSE])
    BY <1>0, StallRegs DEF SameRx
  <2>4. ep'.state = "IDLE" /\ ep'.bank = 0 /\ Small(ep'.x)
    <3>1. ep' = [state |-> "IDLE", bank |-> ep.bank, x |-> ep.x]
      BY <1>0, <2>1
    <3> QED BY <1>0, <2>2, <3>1
  <2>5. ToSet(Recv(pc, ep)) = {}
    BY <2>1 DEF Recv, ToSet
  <2>6. ToSet(Recv(pc, ep)) \cup InFifo = InFifo
    BY <2>5
  <2>7. from' = [from EXCEPT !.gone = @ \cup (ToSet(Recv(pc, ep)) \cup InFifo)]
    BY <2>1, <2>6
  <2> QED BY <2>1, <2>3, <2>4, <2>7, EmptiedInward
<1>3. CASE ConfigureEP
  <2>1. /\ ep' = [Ended("RESET").ep EXCEPT !.state = "IDLE"] /\ pc' = pc
        /\ hw' \in FifoReset(Ended("RESET").hw)
        /\ from' = [from EXCEPT !.gone = @ \cup (InXfer \cup InFifo)]
        /\ OffIf(ep.bank # 0 \/ hw'.ready)
    BY <1>3 DEF ConfigureEP, Lose
  <2>2. ep.bank = 0
    BY <2>1, Zenon DEF OffIf
  <2>3. PICK e : e = Ended("RESET").ep
    OBVIOUS
  <2>4. /\ e = [state |-> e.state, bank |-> ep.bank, x |-> e.x] /\ Small(e.x)
        /\ Ended("RESET").hw = hw
    BY <1>0, <2>3, EndedFacts, EndedInward
  <2>5. ep'.state = "IDLE" /\ ep'.bank = 0 /\ Small(ep'.x)
    <3>1. ep' = [state |-> "IDLE", bank |-> ep.bank, x |-> e.x]
      BY <2>1, <2>3, <2>4
    <3> QED BY <2>2, <2>4, <3>1
  <2>6. hw' \in FifoReset(hw)
    BY <2>1, <2>4
  <2>7. from' = [from EXCEPT !.gone = @ \cup (ToSet(Recv(pc, ep)) \cup InFifo)]
    BY <2>1, <1>a DEF InXfer
  <2> QED BY <1>0, <2>1, <2>5, <2>6, <2>7, EmptiedInward
<1>4. CASE ResetEPs
  <2>1. /\ ep' = [ep EXCEPT !.state = "DISABLED", !.bank = 0] /\ pc' = pc
        /\ hw' \in FifoReset([hw EXCEPT !.ready = FALSE])
        /\ from' = [from EXCEPT !.gone = @ \cup (InXfer \cup InFifo)]
    BY <1>4 DEF ResetEPs, Lose
  <2>2. HFields([hw EXCEPT !.ready = FALSE])
    BY <1>0, ReadyRegs DEF SameRx
  <2>3. ep'.state = "DISABLED" /\ ep'.bank = 0 /\ Small(ep'.x)
    <3>1. ep' = [state |-> "DISABLED", bank |-> 0, x |-> ep.x]
      BY <1>0, <2>1
    <3> QED BY <1>0, <3>1
  <2>4. from' = [from EXCEPT !.gone = @ \cup (ToSet(Recv(pc, ep)) \cup InFifo)]
    BY <2>1, <1>a DEF InXfer
  <2> QED BY <2>1, <2>2, <2>3, <2>4, EmptiedInward
<1> QED BY <1>1, <1>2, <1>3, <1>4 DEF Control

-----------------------------------------------------------------------------
(* From the host: the theorem                                               *)

LEMMA InitInward == Init => Inward
<1> SUFFICES ASSUME Init PROVE InFlow(Banks, pc, ep, hw, from)
  BY DEF Inward
<1>1. /\ ep.state = "IDLE" /\ ep.bank = 0 /\ ep.x = NoXfer /\ pc = "idle"
      /\ hw.rx = <<>> /\ hw.fill = 0 /\ hw.build = <<>> /\ hw.packet = <<>>
      /\ from.delivered = <<>> /\ from.sent = 0 /\ from.gone = {}
  BY DEF Init, Quiet
<1>2. Small(ep.x)
  BY <1>1 DEF Small, NoXfer
<1>3. Recv(pc, ep) = <<>> /\ Flat(hw.rx) = <<>> /\ <<>> \o <<>> = <<>> /\ <<>> \in Seq(Nat)
  BY <1>1, FlatNone DEF Recv
<1>4. Holds(<<>>, 0, {})
  <2>1. ToSet(<<>>) = (1 .. 0) \ {} /\ Rising(<<>>)
    BY DEF ToSet, Rising
  <2> QED BY <1>3, <2>1 DEF Holds
<1>5. from.delivered \o Recv(pc, ep) \o Flat(hw.rx) = <<>>
  BY <1>1, <1>3
<1> QED BY <1>1, <1>2, <1>3, <1>4, <1>5 DEF InFlow, Turn

LEMMA NextInward == IInv /\ Regs /\ Inward /\ [Next]_vars => Inward'
<1> SUFFICES ASSUME IInv, Regs, Inward, [Next]_vars, Dir' = "out", ~off'
             PROVE  InFlow(Banks, pc, ep, hw, from)'
  BY DEF Inward
<1>1. ~off /\ Dir = "out"
  BY OffStays
<1>2. Facts
  BY <1>1 DEF Facts, Inward
<1>3. kind' = kind
  BY DEF Next, Host, MainLoop, EndpointHandler, Control, HostReads, HostSends, HostStalled,
         Write, WriteSetup, WriteLoad, WriteStart, WriteSecond, Read, ReadSetup, Enable,
         TransferSent, PacketSent, StrayComp, PacketRead, Discard, Nak, StallSent,
         Halt, Unhalt, ConfigureEP, ResetEPs, history, vars
<1>4. InFlow(Banks, pc', ep', hw', from')
  <2>1. CASE UNCHANGED vars
    BY <1>2, <2>1 DEF vars, Facts
  <2> QED BY <1>2, <2>1, HostInward, MainLoopInward, EndpointHandlerInward, ControlInward DEF Next
<1> QED BY <1>3, <1>4 DEF Banks

LEMMA InwardImplies == Inward => InOrder
<1> SUFFICES ASSUME Inward, Dir = "out", ~off
             PROVE  LET seen == from.delivered \o Received \o Flat(hw.rx) IN
                    /\ \A i, j \in DOMAIN seen : i < j => seen[i] < seen[j]
                    /\ ToSet(seen) = (1 .. from.sent) \ from.gone
  BY DEF InOrder
<1>1. Received = Recv(pc, ep)
  BY DEF Received, Recv
<1>2. Holds(from.delivered \o Recv(pc, ep) \o Flat(hw.rx), from.sent, from.gone)
  BY DEF Inward, InFlow
<1> QED BY <1>1, <1>2 DEF Holds, Rising

-----------------------------------------------------------------------------
(* The types and the sizes                                                  *)

Simple ==
  /\ ie \in BOOLEAN /\ last.status \in Status
  /\ pc \in {"idle", "setup", "load", "start", "second", "enable"}

\* No packet is longer than the endpoint allows, and the driver has no more in flight
\* than the FIFO holds.
Sized(k, x, h) ==
  /\ Len(h.build) <= Size /\ Len(h.packet) <= Size
  /\ x.buffered \in -1 .. k * Size /\ x.remaining >= -1 /\ x.transferred >= -1

\* With IInv, Regs, Stream and Inward, the inductive invariant of TypeOK.
Typed == Simple /\ (~off => Sized(Banks, ep.x, hw))

\* A step that loads nothing: it ends a transfer, announces or takes a packet, or
\* empties the FIFO.
Shrinks(x, h, y, g) ==
  /\ y = x \/ y = NoXfer \/ y = NewXfer(<<>>, 0)
  /\ g.build = h.build \/ g.build = <<>>
  /\ g.packet = h.packet \/ g.packet = h.build \/ g.packet = <<>>

LEMMA ShrinksSized ==
  ASSUME NEW k \in {1, 2}, NEW x, NEW h, Sized(k, x, h), NEW y, NEW g, Shrinks(x, h, y, g)
  PROVE  Sized(k, y, g)
<1>1. 0 \in -1 .. k * Size /\ -1 \in -1 .. k * Size /\ Len(<<>>) = 0 /\ 0 <= Size
  <2>1. CASE k = 1
    BY <2>1, UdpAssumption
  <2>2. CASE k = 2
    BY <2>2, UdpAssumption
  <2> QED BY <2>1, <2>2
<1>2. Len(g.build) <= Size /\ Len(g.packet) <= Size
  BY <1>1 DEF Sized, Shrinks
<1>3. CASE y = x
  BY <1>2, <1>3 DEF Sized
<1>4. CASE y = NoXfer
  BY <1>1, <1>2, <1>4 DEF Sized, NoXfer
<1>5. CASE y = NewXfer(<<>>, 0)
  BY <1>1, <1>2, <1>5 DEF Sized, NewXfer
<1> QED BY <1>3, <1>4, <1>5 DEF Shrinks

\* A packet of the current transfer is no longer than Size.
LEMMA PacketSize ==
  ASSUME NEW n \in Nat, NEW len \in Nat, NEW a \in 0 .. len
  PROVE  Len(Units(n, a, Until(len, a))) <= Size
<1>1. PICK b \in Nat : b = Until(len, a) /\ a <= b /\ b - a <= Size
  BY UntilIs, UdpAssumption
<1>2. Len(Units(n, a, b)) = b - a
  <2>1. a \in Nat /\ a <= b
    BY <1>1
  <2> QED BY <2>1, UnitsAre
<1> QED BY <1>1, <1>2

\* How far the driver is ahead of the host.
LEMMA AheadSize ==
  ASSUME NEW k \in {1, 2}, NEW n \in Nat, NEW len \in Nat, NEW t \in 0 .. len
  PROVE  /\ Ahead(k, len, t) - t \in 0 .. k * Size /\ Ahead(k, len, t) \in 0 .. len
         /\ Len(Units(n, Until(len, t), Ahead(k, len, t))) <= Size
<1>1. PICK u \in 0 .. len : u = Until(len, t) /\ t <= u /\ u - t <= Size
  BY UntilIs, UdpAssumption
<1>2. PICK v \in 0 .. len : v = Until(len, u) /\ u <= v /\ v - u <= Size
  BY UntilIs, UdpAssumption
<1>3. CASE k = 1
  <2>1. Ahead(k, len, t) = u
    BY <1>1, <1>3 DEF Ahead
  <2>2. Len(Units(n, u, u)) = 0
    BY UnitsAre
  <2> QED BY <1>1, <1>3, <2>1, <2>2, UdpAssumption
<1>4. CASE k = 2
  <2>1. Ahead(k, len, t) = v
    BY <1>1, <1>2, <1>4 DEF Ahead
  <2>2. Len(Units(n, u, v)) <= Size
    BY <1>2, PacketSize
  <2> QED BY <1>1, <1>2, <1>4, <2>1, <2>2, UdpAssumption
<1> QED BY <1>3, <1>4

\* While a transfer to the host runs.
LEMMA SendingSized ==
  ASSUME NEW k \in {1, 2}, NEW p, NEW i, NEW x, NEW h, NEW g, NEW n \in Nat, NEW len \in Nat,
         Sending(k, p, i, x, h, g, n, len)
  PROVE  Sized(k, x, h)
<1>1. PICK t \in 0 .. len : t = x.transferred
  BY DEF Sending
<1>2. /\ Len(<<>>) = 0 /\ 0 <= Size /\ 0 \in -1 .. k * Size /\ Size \in Nat
  <2>1. CASE k = 1
    BY <2>1, UdpAssumption
  <2>2. CASE k = 2
    BY <2>2, UdpAssumption
  <2> QED BY <2>1, <2>2
<1>3. PICK u \in 0 .. len : u = Until(len, 0) /\ u <= Size
  BY UntilIs, UdpAssumption
<1>4. u \in -1 .. k * Size
  BY <1>2, <1>3, UdpAssumption
<1>a. Len(Units(n, 0, u)) <= Size
  <2>1. Len(Units(n, 0, Until(len, 0))) <= Size
    <3>1. 0 \in 0 .. len
      OBVIOUS
    <3> QED BY <3>1, PacketSize
  <2> QED BY <1>3, <2>1
<1>5. CASE p = "load"
  <2>1. /\ h.packet = <<>> /\ h.build = <<>> /\ x.remaining = len - 0
        /\ x.buffered = 0 - x.transferred /\ x.transferred = 0
    BY <1>5 DEF Sending, NoneOut, Loaded
  <2>2. x.remaining = len /\ x.buffered = 0
    BY <2>1
  <2> QED BY <1>2, <2>1, <2>2 DEF Sized
<1>6. CASE p = "start"
  <2>1. /\ h.packet = <<>> /\ h.build = Units(n, 0, u) /\ x.remaining = len - u
        /\ x.buffered = u - x.transferred /\ x.transferred = 0
    BY <1>3, <1>6 DEF Sending, NoneOut, Loaded
  <2>2. Len(h.build) <= Size
    BY <1>a, <2>1
  <2> QED BY <1>2, <1>3, <1>4, <2>1, <2>2 DEF Sized
<1>7. CASE p = "second"
  <2>1. /\ h.packet = <<>> \/ h.packet = Units(n, 0, u)
        /\ h.build = <<>> /\ x.remaining = len - u
        /\ x.buffered = u - x.transferred /\ x.transferred = 0
    BY <1>3, <1>7 DEF Sending, Out, Loaded
  <2>2. Len(h.packet) <= Size
    BY <1>2, <1>a, <2>1
  <2> QED BY <1>2, <1>3, <1>4, <2>1, <2>2 DEF Sized
<1>8. CASE p \in {"enable", "idle"}
  <2>1. /\ h.packet = <<>> \/ h.packet = Units(n, t, Until(len, t))
        /\ h.build = Units(n, Until(len, t), Ahead(k, len, t))
        /\ x.remaining = len - Ahead(k, len, t) /\ x.buffered = Ahead(k, len, t) - t
    BY <1>1, <1>8 DEF Sending, Out, Loaded
  <2>2. Len(h.packet) <= Size
    BY <1>2, <2>1, PacketSize
  <2>3. PICK v \in 0 .. len : v = Ahead(k, len, t) /\ v - t \in 0 .. k * Size
    BY AheadSize
  <2>4. Len(h.build) <= Size
    BY <2>1, AheadSize
  <2>5. x.buffered = v - t /\ x.remaining = len - v
    BY <2>1, <2>3
  <2>6. x.buffered \in -1 .. k * Size /\ x.remaining >= -1 /\ x.transferred >= -1
    <3>1. PICK w \in Int : w = k * Size
      BY <1>2
    <3> QED BY <1>1, <2>3, <2>5, <3>1
  <2> QED BY <2>2, <2>4, <2>6 DEF Sized
<1> QED BY <1>5, <1>6, <1>7, <1>8 DEF Sending

LEMMA StreamSized == IInv /\ Now /\ ep.state = "SENDING" => Sized(Banks, ep.x, hw)
<1> SUFFICES ASSUME IInv, Now, ep.state = "SENDING" PROVE Sized(Banks, ep.x, hw)
  OBVIOUS
<1>1. /\ Banks \in {1, 2} /\ xfer.n \in Nat /\ xfer.len \in Nat
      /\ Sending(Banks, pc, ie, ep.x, hw, got, xfer.n, xfer.len)
  BY BanksType DEF IInv, Shape, Now, Flow
<1> QED BY <1>1, SendingSized

LEMMA InwardSized == IInv /\ InFlow(Banks, pc, ep, hw, from) => Sized(Banks, ep.x, hw)
<1> SUFFICES ASSUME IInv, InFlow(Banks, pc, ep, hw, from) PROVE Sized(Banks, ep.x, hw)
  OBVIOUS
<1>1. /\ hw.build = <<>> /\ hw.packet = <<>> /\ Small(ep.x)
  BY DEF InFlow
<1>2. /\ Len(<<>>) = 0 /\ 0 <= Size /\ {-1, 0} \subseteq -1 .. Banks * Size
  <2>0. Banks \in {1, 2}
    BY BanksType DEF IInv
  <2>1. CASE Banks = 1
    BY <2>1, UdpAssumption
  <2>2. CASE Banks = 2
    BY <2>2, UdpAssumption
  <2> QED BY <2>0, <2>1, <2>2
<1> QED BY <1>1, <1>2 DEF Small, Sized

LEMMA InitTyped == Init => Typed
<1> SUFFICES ASSUME Init PROVE Typed
  OBVIOUS
<1>1. ie = FALSE /\ last.status = "NONE" /\ pc = "idle"
  BY DEF Init
<1>2. hw.build = <<>> /\ hw.packet = <<>> /\ ep.x = NoXfer
  BY DEF Init, Quiet
<1>3. Sized(Banks, ep.x, hw)
  <2>0. Banks \in {1, 2}
    BY InitInv, BanksType DEF IInv
  <2>1. -1 \in -1 .. Banks * Size /\ Len(<<>>) = 0 /\ 0 <= Size
    <3>1. CASE Banks = 1
      BY <3>1, UdpAssumption
    <3>2. CASE Banks = 2
      BY <3>2, UdpAssumption
    <3> QED BY <2>0, <3>1, <3>2
  <2> QED BY <1>2, <2>1 DEF Sized, NoXfer
<1> QED BY <1>1, <1>3 DEF Typed, Simple, Status

LEMMA NextSimple == IInv /\ Simple /\ [Next]_vars => Simple'
<1> SUFFICES ASSUME IInv, Simple, [Next]_vars PROVE Simple'
  OBVIOUS
<1>1. CASE Host \/ UNCHANGED vars
  <2>1. UNCHANGED <<ie, pc, last>>
    BY <1>1 DEF Host, HostReads, HostSends, HostStalled, history, vars
  <2> QED BY <2>1 DEF Simple
<1>2. CASE MainLoop
  <2>1. last' = last /\ (ie' = ie \/ ie' = TRUE)
    BY <1>2 DEF MainLoop, Write, WriteSetup, WriteLoad, WriteStart, WriteSecond, Read, ReadSetup,
                Enable, history
  <2>2. pc' \in {"idle", "setup", "load", "start", "second", "enable"}
    BY <1>2 DEF MainLoop, Write, WriteSetup, WriteLoad, WriteStart, WriteSecond, Read, ReadSetup,
                Enable
  <2> QED BY <2>1, <2>2, Zenon DEF Simple
<1>3. CASE EndpointHandler
  <2>1. pc' = pc
    BY <1>3 DEF EndpointHandler, TransferSent, PacketSent, StrayComp, PacketRead, Discard, Nak,
                StallSent
  <2>2. CASE TransferSent
    <3>1. PICK zlp \in BOOLEAN : ie' = zlp
      BY <2>2, Zenon DEF TransferSent, WantsZlp
    <3>2. last'.status = "SUCCESS"
      BY <2>2 DEF TransferSent
    <3> QED BY <2>1, <3>1, <3>2 DEF Simple, Status
  <2>3. CASE PacketRead
    <3>1. ie' \in BOOLEAN
      BY <2>3, Zenon DEF PacketRead
    <3>2. last' = last \/ last'.status = "SUCCESS"
      BY <2>3 DEF PacketRead
    <3> QED BY <2>1, <3>1, <3>2 DEF Simple, Status
  <2>4. CASE PacketSent \/ StrayComp \/ Discard \/ Nak \/ StallSent
    <3>1. last' = last /\ (ie' = ie \/ ie' = FALSE)
      BY <2>4 DEF PacketSent, StrayComp, Discard, Nak, StallSent, history
    <3> QED BY <2>1, <3>1, Zenon DEF Simple
  <2> QED BY <1>3, <2>2, <2>3, <2>4 DEF EndpointHandler
<1>4. ASSUME NEW status \in Status
      PROVE  Ended(status).ie \in BOOLEAN /\ Ended(status).last.status \in Status
  <2>1. PICK zlp \in BOOLEAN : zlp = (Active(ep) /\ WantsZlp(ep.x))
    BY Zenon
  <2>2. Ended(status).ie = ie \/ Ended(status).ie = (ie \/ zlp)
    BY <2>1 DEF Ended
  <2>3. Ended(status).last = last \/ Ended(status).last.status = status
    BY DEF Ended
  <2> QED BY <2>2, <2>3, Zenon DEF Simple
<1>5. CASE Control
  <2>1. CASE Halt
    <3>1. PICK q : q = [Ended("ABORTED") EXCEPT !.ie = TRUE]
      OBVIOUS
    <3>2. q.ie = TRUE /\ q.last = Ended("ABORTED").last
      BY <3>1 DEF Ended
    <3>3. Record(q, TRUE) /\ pc' = pc
      BY <2>1, <3>1 DEF Halt
    <3>4. last' = Ended("ABORTED").last /\ ie' = TRUE
      BY <3>2, <3>3 DEF Record
    <3>5. "ABORTED" \in Status
      BY DEF Status
    <3> QED BY <1>4, <3>3, <3>4, <3>5 DEF Simple
  <2>2. CASE ConfigureEP
    <3>1. last' = Ended("RESET").last /\ ie' = Ended("RESET").ie /\ pc' = pc
      BY <2>2 DEF ConfigureEP, Record
    <3>2. "RESET" \in Status
      BY DEF Status
    <3> QED BY <1>4, <3>1, <3>2 DEF Simple
  <2>3. CASE Unhalt \/ ResetEPs
    <3>1. last' = last /\ pc' = pc /\ (ie' = ie \/ ie' = FALSE)
      BY <2>3 DEF Unhalt, ResetEPs
    <3> QED BY <3>1, Zenon DEF Simple
  <2> QED BY <1>5, <2>1, <2>2, <2>3 DEF Control
<1> QED BY <1>1, <1>2, <1>3, <1>5 DEF Next

\* What a transfer that ends does to the registers and the descriptor.
LEMMA EndedShrinks ==
  ASSUME Shape, HFields(hw), XFields(ep.x), NEW status
  PROVE  Shrinks(ep.x, hw, Ended(status).ep.x, Ended(status).hw)
<1>1. PICK r : r = Ended(status)
  OBVIOUS
<1>2. CASE ~Active(ep)
  BY <1>1, <1>2 DEF Ended, Shrinks
<1>3. CASE Active(ep) /\ WantsZlp(ep.x)
  <2>1. /\ r.ep = [ep EXCEPT !.state = "SENDING", !.x = NewXfer(<<>>, 0)]
        /\ r.hw = Start([hw EXCEPT !.comp = @ \/ hw.ready])
    BY <1>1, <1>3 DEF Ended
  <2>2. r.ep.x = NewXfer(<<>>, 0)
    BY <2>1 DEF Shape
  <2>3. PICK c : c = (hw.comp \/ hw.ready)
    OBVIOUS
  <2>4. PICK h : h = [hw EXCEPT !.comp = c]
    OBVIOUS
  <2>5. h.build = hw.build
    BY <2>4 DEF HFields
  <2>6. r.hw = [h EXCEPT !.ready = TRUE, !.packet = h.build, !.build = <<>>]
    BY <2>1, <2>3, <2>4 DEF Start
  <2>7. h = [build |-> hw.build, ready |-> hw.ready, packet |-> hw.packet, comp |-> c,
             rx |-> hw.rx, fill |-> hw.fill, stall |-> hw.stall, sent |-> hw.sent]
    BY <2>4 DEF HFields
  <2>8. r.hw.build = <<>> /\ r.hw.packet = hw.build
    BY <2>5, <2>6, <2>7
  <2> QED BY <1>1, <2>2, <2>8 DEF Shrinks
<1>4. CASE Active(ep) /\ ~WantsZlp(ep.x)
  <2>1. r.ep = [ep EXCEPT !.state = "IDLE", !.x = NoXfer] /\ r.hw = hw
    BY <1>1, <1>4 DEF Ended
  <2>2. r.ep.x = NoXfer
    BY <2>1 DEF Shape
  <2> QED BY <1>1, <2>1, <2>2 DEF Shrinks
<1> QED BY <1>2, <1>3, <1>4

\* Between the transfers to the host nothing is loaded.
LEMMA RestShrinks ==
  ASSUME IInv, Regs, Dir = "in", ~off, Now, [Next]_vars, ep'.state # "SENDING"
  PROVE  Shrinks(ep.x, hw, ep'.x, hw')
<1>0. /\ HFields(hw) /\ XFields(ep.x) /\ Shape
      /\ ep = [state |-> ep.state, bank |-> ep.bank, x |-> ep.x]
      /\ hw.rx = <<>> /\ ep.state # "RECEIVING"
      /\ ep.state # "SENDING" => pc \in {"idle", "setup"}
  BY DEF Regs, RegsOf, IInv, Shape, Now, Flow, Resting
<1>1. CASE UNCHANGED vars
  BY <1>1 DEF vars, Shrinks
<1>2. CASE Host
  <2>1. ep' = ep
    BY <1>2 DEF Host, HostReads, HostSends, HostStalled
  <2>2. CASE HostReads
    <3>1. hw' = [hw EXCEPT !.ready = FALSE, !.packet = <<>>, !.comp = TRUE]
      BY <2>2 DEF HostReads
    <3>2. hw'.build = hw.build /\ hw'.packet = <<>>
      BY <1>0, <3>1 DEF HFields
    <3> QED BY <2>1, <3>2 DEF Shrinks
  <2>3. CASE HostStalled
    <3>1. hw' = [hw EXCEPT !.sent = TRUE]
      BY <2>3 DEF HostStalled
    <3>2. hw'.build = hw.build /\ hw'.packet = hw.packet
      BY <1>0, <3>1 DEF HFields
    <3> QED BY <2>1, <3>2 DEF Shrinks
  <2> QED BY <1>2, <2>2, <2>3 DEF Host, HostSends
<1>3. CASE MainLoop
  <2>1. ~WriteSetup
    <3>1. ASSUME WriteSetup PROVE ep'.state = "SENDING"
      <4>1. PICK x : ep' = [ep EXCEPT !.state = "SENDING", !.x = x]
        BY <3>1 DEF WriteSetup
      <4> QED BY <1>0, <4>1
    <3> QED BY <3>1
  <2>2. ~WriteLoad /\ ~WriteStart /\ ~WriteSecond
    <3>1. ASSUME WriteLoad \/ WriteStart \/ WriteSecond PROVE FALSE
      <4>1. ep.state = "SENDING"
        BY <1>0, <3>1 DEF WriteLoad, WriteStart, WriteSecond
      <4>2. \/ ep' = ep
            \/ \E x : ep' = [ep EXCEPT !.x = x]
        BY <3>1 DEF WriteLoad, WriteStart, WriteSecond
      <4>3. ep'.state = ep.state
        BY <1>0, <4>2
      <4> QED BY <4>1, <4>3
    <3> QED BY <3>1
  <2>3. Write \/ Enable
    BY <1>3, <2>1, <2>2 DEF MainLoop, Read, ReadSetup
  <2>4. UNCHANGED <<ep, hw>>
    BY <2>3 DEF Write, Enable
  <2> QED BY <2>4 DEF Shrinks
<1>4. CASE EndpointHandler
  <2>1. CASE TransferSent
    <3>1. PICK zlp \in BOOLEAN :
            /\ ep' = [ep EXCEPT !.state = IF zlp THEN @ ELSE "IDLE",
                                !.x = IF zlp THEN NewXfer(<<>>, 0) ELSE NoXfer]
            /\ hw' = [(IF zlp THEN Start(hw) ELSE hw) EXCEPT !.comp = FALSE]
            /\ ep.state = "SENDING"
      BY <2>1 DEF TransferSent, WantsZlp
    <3>2. CASE zlp
      <4>1. ep' = [state |-> "SENDING", bank |-> ep.bank, x |-> NewXfer(<<>>, 0)]
        BY <1>0, <3>1, <3>2
      <4> QED BY <4>1
    <3>3. CASE ~zlp
      <4>1. ep' = [state |-> "IDLE", bank |-> ep.bank, x |-> NoXfer]
        BY <1>0, <3>1, <3>3
      <4>2. hw' = [hw EXCEPT !.comp = FALSE]
        BY <3>1, <3>3
      <4>3. hw'.build = hw.build /\ hw'.packet = hw.packet
        BY <1>0, <4>2 DEF HFields
      <4> QED BY <4>1, <4>3 DEF Shrinks
    <3> QED BY <3>2, <3>3
  <2>2. ~PacketSent
    <3>1. ASSUME PacketSent PROVE FALSE
      <4>1. PICK x : ep' = [ep EXCEPT !.x = x]
        BY <3>1 DEF PacketSent
      <4>2. ep'.state = "SENDING"
        BY <1>0, <3>1, <4>1 DEF PacketSent
      <4> QED BY <4>2
    <3> QED BY <3>1
  <2>3. CASE StrayComp
    <3>1. hw' = [hw EXCEPT !.comp = FALSE] /\ ep' = ep
      BY <2>3 DEF StrayComp
    <3>2. hw'.build = hw.build /\ hw'.packet = hw.packet
      BY <1>0, <3>1 DEF HFields
    <3> QED BY <3>1, <3>2 DEF Shrinks
  <2>4. CASE StallSent
    <3>1. PICK c : hw' = [hw EXCEPT !.sent = FALSE, !.stall = c]
      BY <2>4 DEF StallSent
    <3>2. hw'.build = hw.build /\ hw'.packet = hw.packet /\ ep' = ep
      BY <1>0, <2>4, <3>1 DEF HFields, StallSent
    <3> QED BY <3>2 DEF Shrinks
  <2>5. ~PacketRead /\ ~Discard /\ ~Nak
    BY <1>0 DEF PacketRead, Discard, Nak
  <2> QED BY <1>4, <2>1, <2>2, <2>3, <2>4, <2>5 DEF EndpointHandler
<1>5. CASE Control
  <2>1. CASE Halt
    <3>1. /\ ep' = [Ended("ABORTED").ep EXCEPT !.state = "HALTED"]
          /\ hw' = [Ended("ABORTED").hw EXCEPT !.stall = TRUE]
      BY <2>1 DEF Halt
    <3>2. PICK e, h : e = Ended("ABORTED").ep /\ h = Ended("ABORTED").hw
      OBVIOUS
    <3>3. e = [state |-> e.state, bank |-> ep.bank, x |-> e.x]
      BY <1>0, <3>2, EndedFacts
    <3>4. Shrinks(ep.x, hw, e.x, h)
      BY <1>0, <3>2, EndedShrinks
    <3>5. ep'.x = e.x
      BY <3>1, <3>2, <3>3
    <3>6. HFields(h)
      <4>1. RegsOf(Banks, ep, hw)
        BY DEF Regs
      <4> QED BY <1>0, <3>2, <4>1, EndedRegs DEF SameRx
    <3>7. hw'.build = h.build /\ hw'.packet = h.packet
      BY <3>1, <3>2, <3>6 DEF HFields
    <3> QED BY <3>4, <3>5, <3>7 DEF Shrinks
  <2>2. CASE Unhalt \/ ResetEPs
    <3>1. ep'.x = ep.x
      <4>1. PICK s, b : ep' = [ep EXCEPT !.state = s] \/ ep' = [ep EXCEPT !.state = s, !.bank = b]
        BY <2>2 DEF Unhalt, ResetEPs
      <4> QED BY <1>0, <4>1
    <3>2. PICK h : h = [hw EXCEPT !.stall = FALSE] \/ h = [hw EXCEPT !.ready = FALSE]
      OBVIOUS
    <3>3. /\ HFields([hw EXCEPT !.stall = FALSE]) /\ HFields([hw EXCEPT !.ready = FALSE])
      BY <1>0, StallRegs, ReadyRegs DEF SameRx
    <3>4. \/ hw' \in FifoReset([hw EXCEPT !.stall = FALSE])
          \/ hw' \in FifoReset([hw EXCEPT !.ready = FALSE])
      BY <2>2 DEF Unhalt, ResetEPs
    <3>5. hw'.build = <<>> /\ hw'.packet = <<>>
      BY <3>3, <3>4, FifoResetIs
    <3> QED BY <3>1, <3>5 DEF Shrinks
  <2>3. CASE ConfigureEP
    <3>1. /\ ep' = [Ended("RESET").ep EXCEPT !.state = "IDLE"]
          /\ hw' \in FifoReset(Ended("RESET").hw)
      BY <2>3 DEF ConfigureEP
    <3>2. PICK e, h : e = Ended("RESET").ep /\ h = Ended("RESET").hw
      OBVIOUS
    <3>3. e = [state |-> e.state, bank |-> ep.bank, x |-> e.x]
      BY <1>0, <3>2, EndedFacts
    <3>4. Shrinks(ep.x, hw, e.x, h)
      BY <1>0, <3>2, EndedShrinks
    <3>5. ep'.x = e.x
      BY <3>1, <3>2, <3>3
    <3>6. HFields(h)
      <4>1. RegsOf(Banks, ep, hw)
        BY DEF Regs
      <4> QED BY <1>0, <3>2, <4>1, EndedRegs DEF SameRx
    <3>7. hw' \in FifoReset(h)
      BY <3>1, <3>2
    <3>8. hw'.build = <<>> /\ hw'.packet = <<>>
      BY <3>6, <3>7, FifoResetIs
    <3> QED BY <3>4, <3>5, <3>8 DEF Shrinks
  <2> QED BY <1>5, <2>1, <2>2, <2>3 DEF Control
<1> QED BY <1>1, <1>2, <1>3, <1>4, <1>5 DEF Next

LEMMA NextTyped ==
  IInv /\ Regs /\ Stream /\ Inward /\ Typed /\ [Next]_vars => Typed'
<1> SUFFICES ASSUME IInv, Regs, Stream, Inward, Typed, [Next]_vars PROVE Typed'
  OBVIOUS
<1>1. Simple'
  BY NextSimple DEF Typed
<1>2. IInv' /\ Stream' /\ Inward'
  BY NextInv, NextStream, NextInward
<1>3. ASSUME ~off' PROVE Sized(Banks, ep.x, hw)'
  <2>1. ~off /\ Dir' = Dir /\ Dir \in {"in", "out"}
    BY <1>3, OffStays, DirType DEF IInv
  <2>2. CASE Dir = "out"
    <3>1. InFlow(Banks, pc, ep, hw, from)'
      BY <1>2, <1>3, <2>1, <2>2 DEF Inward
    <3> QED BY <1>2, <3>1, InwardSized, PTL
  <2>3. CASE Dir = "in" /\ ep'.state = "SENDING"
    <3>1. Now'
      BY <1>2, <1>3, <2>1, <2>3 DEF Stream
    <3>2. (ep.state = "SENDING")'
      BY <2>3
    <3> QED BY <1>2, <3>1, <3>2, StreamSized, PTL
  <2>4. CASE Dir = "in" /\ ep'.state # "SENDING"
    <3>1. Now /\ Sized(Banks, ep.x, hw) /\ Banks \in {1, 2}
      BY <2>1, <2>4, BanksType DEF Stream, Typed, IInv
    <3>2. Shrinks(ep.x, hw, ep'.x, hw')
      BY <2>1, <2>4, <3>1, RestShrinks
    <3>3. Sized(Banks, ep'.x, hw')
      BY <3>1, <3>2, ShrinksSized
    <3>4. kind' = kind
      BY DEF Next, Host, MainLoop, EndpointHandler, Control, HostReads, HostSends, HostStalled,
         Write, WriteSetup, WriteLoad, WriteStart, WriteSecond, Read, ReadSetup, Enable,
         TransferSent, PacketSent, StrayComp, PacketRead, Discard, Nak, StallSent,
         Halt, Unhalt, ConfigureEP, ResetEPs, history, vars
    <3> QED BY <3>3, <3>4 DEF Banks
  <2> QED BY <2>1, <2>2, <2>3, <2>4
<1> QED BY <1>1, <1>3 DEF Typed

LEMMA TypedImplies == IInv /\ Regs /\ Typed => TypeOK
<1> SUFFICES ASSUME IInv, Regs, Typed PROVE TypeOK
  OBVIOUS
<1>1. Banks \in {1, 2}
  BY BanksType DEF IInv
<1>2. ep.bank \in 0 .. 1
  BY <1>1 DEF Regs, RegsOf
<1>3. Len(hw.rx) <= Banks /\ hw.fill \in 0 .. Banks - 1
  BY DEF Regs, RegsOf
<1>4. kind \in Kinds /\ off \in BOOLEAN /\ ep.state \in State
  BY DEF IInv, Shape
<1>5. ~off => /\ Len(hw.build) <= Size /\ Len(hw.packet) <= Size
              /\ ep.x.buffered \in -1 .. Banks * Size
              /\ ep.x.remaining >= -1 /\ ep.x.transferred >= -1
  BY DEF Typed, Sized
<1> QED BY <1>2, <1>3, <1>4, <1>5 DEF Typed, Simple, TypeOK

LEMMA RegsInvariant == Spec => []Regs
<1> QED BY InitRegs, NextRegs, Invariant, PTL DEF Spec

\* Inward is an invariant of the specification, with IInv and Regs.
THEOREM InwardInvariant == Spec => []Inward
<1> QED BY InitInward, NextInward, Invariant, RegsInvariant, PTL DEF Spec

\* However many packets of whatever lengths the host sends and however the endpoint is
\* halted, configured and reset, the firmware gets the units in order, none twice and
\* none missing but those the code throws away, as long as driver and controller agree.
THEOREM FirmwareGetsInOrder == Spec => []InOrder
<1> QED BY InwardImplies, InwardInvariant, PTL

\* No packet is ever longer than the endpoint allows, the driver has never more in
\* flight than the FIFO holds, and the FIFO never holds more packets than it has banks.
THEOREM TypeCorrect == Spec => []TypeOK
<1> QED BY InitTyped, NextTyped, TypedImplies, Invariant, RegsInvariant, StreamInvariant,
           InwardInvariant, PTL DEF Spec
=============================================================================
