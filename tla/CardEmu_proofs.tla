--------------------------- MODULE CardEmu_proofs ---------------------------
(***************************************************************************)
(* Proofs about the card-emulation state machine of CardEmu, for every     *)
(* value of its constants: any ATRs and messages, any length of the ring   *)
(* buffer and of the endpoint queues.                                      *)
(*                                                                         *)
(* The operators on fsm come first, then type correctness, then the        *)
(* inductive invariant IInv and the safety properties it implies.          *)
(***************************************************************************)
EXTENDS CardEmu, TLAPS

FsmType == [state : State, tpdu : TpduState, mask : SUBSET Irq,
            wt : WtPhase, stale : BOOLEAN, late : BOOLEAN]
Levels == [vcc : BOOLEAN, clk : BOOLEAN, rst : BOOLEAN]

-----------------------------------------------------------------------------
(* The operators stay within their types.                                   *)

\* The USART services map states of the FSM to states of the FSM.
LEMMA UartType ==
  ASSUME NEW f \in FsmType, NEW mask \in SUBSET Irq, NEW on \in BOOLEAN
  PROVE  /\ UartEnable(f, mask) \in FsmType
         /\ UpdateWt(f, on) \in FsmType
         /\ ResetWt(f) \in FsmType
         /\ DisableTxrdy(f) \in FsmType
BY DEF FsmType, UartEnable, UpdateWt, ResetWt, DisableTxrdy, WtPhase

\* set_tpdu_state, whatever the old and the new sub-state.
LEMMA SetTpduStateType ==
  ASSUME NEW f \in FsmType, NEW t \in TpduState
  PROVE  SetTpduState(f, t) \in FsmType
<1> DEFINE g == [f EXCEPT !.tpdu = t]
<1>1. g \in FsmType
  BY DEF FsmType
<1>2. RxMask \in SUBSET Irq /\ TxMask \in SUBSET Irq
  BY DEF RxMask, TxMask, Irq
<1>3. UpdateWt(g, TRUE) \in FsmType
  BY <1>1 DEF FsmType, UpdateWt, WtPhase
<1>4. /\ UpdateWt(UartEnable(g, RxMask), FALSE) \in FsmType
      /\ UpdateWt(UartEnable(g, RxMask), TRUE) \in FsmType
      /\ UpdateWt(UartEnable(g, TxMask), TRUE) \in FsmType
  BY <1>1, <1>2 DEF FsmType, UpdateWt, UartEnable, WtPhase
<1> QED
  BY <1>1, <1>3, <1>4 DEF SetTpduState, TpduState, HeaderStates

\* card_set_state, whatever the old and the new state.
LEMMA CardSetStateType ==
  ASSUME NEW f \in FsmType, NEW s \in State
  PROVE  CardSetState(f, s) \in FsmType
<1> DEFINE g == [f EXCEPT !.state = s]
<1>1. g \in FsmType
  BY DEF FsmType
<1>2. {} \in SUBSET Irq /\ RxMask \in SUBSET Irq /\ TxMask \in SUBSET Irq /\ TimerMask \in SUBSET Irq
  BY DEF RxMask, TxMask, TimerMask, Irq
<1>3. /\ UpdateWt(UartEnable(g, {}), FALSE) \in FsmType
      /\ UpdateWt(UartEnable(g, TimerMask), TRUE) \in FsmType
      /\ UartEnable(UpdateWt(g, TRUE), TxMask) \in FsmType
  BY <1>1, <1>2 DEF FsmType, UpdateWt, UartEnable, WtPhase
<1>4. SetTpduState(g, "WAIT_CLA") \in FsmType
  BY <1>1, SetTpduStateType DEF TpduState, HeaderStates
<1>5. UartEnable(SetTpduState(g, "WAIT_CLA"), RxMask) \in FsmType
  BY <1>2, <1>4, UartType
<1> QED
  BY <1>1, <1>3, <1>5 DEF CardSetState, State, Off

\* tx_byte_tpdu, after any byte of any message.
LEMMA AfterTxByteType ==
  ASSUME NEW f \in FsmType, NEW m \in TxMsgType \cup {NoMsg}
  PROVE  AfterTxByte(f, m) \in FsmType
<1> DEFINE g == CASE f.tpdu = "WAIT_PB" /\ m.pbTx -> SetTpduState(f, "WAIT_TX")
                  [] f.tpdu = "WAIT_PB" /\ ~m.pbTx /\ m.pbRx -> SetTpduState(f, "WAIT_RX")
                  [] OTHER -> f
<1>1. g \in FsmType
  BY SetTpduStateType DEF TpduState
<1>2. /\ SetTpduState(g, "WAIT_RX") \in FsmType
      /\ CardSetState(g, "WAIT_TPDU") \in FsmType
  <2> HIDE DEF g
  <2> QED  BY <1>1, SetTpduStateType, CardSetStateType DEF TpduState, State
<1> QED
  <2>1. AfterTxByte(f, m) \in {g, SetTpduState(g, "WAIT_RX"), CardSetState(g, "WAIT_TPDU")}
    BY DEF AfterTxByte
  <2> HIDE DEF g
  <2> QED  BY <1>1, <1>2, <2>1

\* next_pts_state yields a PTS sub-state.
LEMMA NextPtsStateType ==
  ASSUME NEW p \in PtsState, NEW options
  PROVE  NextPtsState(p, options) \in PtsState
BY DEF NextPtsState, PtsState, PtsField

\* A queue of messages for the host stays one when a message is submitted ...
LEMMA SubmitType ==
  ASSUME NEW q \in Seq(Kind), NEW m \in Kind
  PROVE  Submit(q, m) \in Seq(Kind)
<1>1. CASE Len(q) >= UsbMaxQlen
  <2>1. q # <<>>
    BY <1>1, BoundAssumption
  <2> QED  BY <1>1, <2>1 DEF Submit
<1>2. CASE ~(Len(q) >= UsbMaxQlen)
  BY <1>2 DEF Submit
<1> QED  BY <1>1, <1>2

\* ... or allocated, sent or reported.
LEMMA QueueType ==
  ASSUME NEW q \in Seq(Kind), NEW m \in Kind
  PROVE  /\ AllocSt(q) \subseteq Seq(Kind)
         /\ Sent(q, m) \subseteq Seq(Kind)
         /\ \A changed \in BOOLEAN : Report(q, changed) \subseteq Seq(Kind)
<1>1. AllocSt(q) \subseteq Seq(Kind)
  BY DEF AllocSt
<1>2. \A k \in Kind : Sent(q, k) \subseteq Seq(Kind)
  BY <1>1, SubmitType DEF Sent
<1>3. "STATUS" \in Kind
  BY DEF Kind
<1> QED  BY <1>1, <1>2, <1>3 DEF Report

-----------------------------------------------------------------------------
(* Type correctness.                                                        *)

\* The initial state is of the declared types.
LEMMA TypeInit == Init => TypeOK
<1> SUFFICES ASSUME Init PROVE TypeOK
  OBVIOUS
<1>1. fsm \in FsmType
  BY DEF Init, FsmType, State, TpduState, HeaderStates, WtPhase
<1>2. pts \in PtsState /\ nextPts \in PtsState /\ arg \in State /\ pc \in Pc
  BY DEF Init, PtsStart, PtsState, PtsField, State, Pc
<1>3. atr \in Atrs /\ atrIdx \in Nat /\ atrOut \in Seq(Nat)
  BY DEF Init
<1>7. atrMixed \in BOOLEAN /\ enabled \in BOOLEAN /\ statusIrq \in BOOLEAN
  BY DEF Init
<1>8. pts0 \in SUBSET {1, 2, 3} /\ p3 \in 0..255 /\ rx \in {NoRx} \cup 1..255 /\ tx \in {NoMsg}
  BY DEF Init
<1>4. rb \in 0..(RbLen - 1)
  BY BoundAssumption DEF Init
<1>5. pins \in Levels /\ line \in [vcc : BOOLEAN, rst : BOOLEAN] /\ last \in [vcc : BOOLEAN, rst : BOOLEAN]
  BY DEF Init, Levels
<1>6. epq \in [{"IN", "INT"} -> Seq(Kind)] /\ txQ \in Seq(TxMsgType)
  BY DEF Init
<1> QED
  BY <1>1, <1>2, <1>3, <1>4, <1>5, <1>6, <1>7, <1>8 DEF TypeOK, FsmType, Levels

\* Type correctness is kept by the interrupts and by the pins.
LEMMA TypeIrq ==
  ASSUME TypeOK, LineChange \/ UsartIrq
  PROVE  TypeOK'
<1> USE DEF card, answer, atrVars, io, main
<1>0. fsm \in FsmType
  BY DEF TypeOK, FsmType
<1>1. CASE LineChange
  <2>1. line' \in [vcc : BOOLEAN, rst : BOOLEAN]
    BY <1>1, ZenonT(60) DEF LineChange, TypeOK
  <2> QED  BY <1>1, <2>1 DEF LineChange, TypeOK
<1>2. CASE IrqRx
  BY <1>2, BoundAssumption DEF IrqRx, TypeOK
<1>3. CASE IrqTxAtrByte
  <2>1. atr[atrIdx + 1] \in Nat
    <3>1. atr \in Seq(Nat) /\ atrIdx \in Nat /\ atrIdx < Len(atr)
      BY <1>3, DataAssumption DEF IrqTxAtrByte, TypeOK
    <3> QED  BY <3>1
  <2>2. atrOut' \in Seq(Nat) /\ atrIdx' \in Nat
    BY <1>3, <2>1 DEF IrqTxAtrByte, TypeOK
  <2> QED  BY <1>3, <2>2 DEF IrqTxAtrByte, TypeOK
<1>4. CASE IrqTxAtrEnd
  <2>1. CardSetState(fsm, "WAIT_TPDU") \in FsmType
    BY <1>0, CardSetStateType DEF State
  <2>2. fsm' \in FsmType
    BY <1>4, <2>1, UartType DEF IrqTxAtrEnd
  <2>3. atrMixed' \in BOOLEAN
    BY <1>4 DEF IrqTxAtrEnd
  <2>4. atrOut' \in Seq(Nat) /\ UNCHANGED <<atr, atrIdx, card, answer, io, rb, epq, main>>
    BY <1>4 DEF IrqTxAtrEnd
  <2> QED  BY <2>2, <2>3, <2>4 DEF TypeOK, FsmType
<1>5. CASE IrqTxPts
  <2>1. CardSetState(fsm, "WAIT_TPDU") \in FsmType /\ DisableTxrdy(fsm) \in FsmType
    BY <1>0, CardSetStateType, UartType DEF State
  <2>2. NextPtsState(pts, pts0) \in PtsState /\ <<"REQ", "PTSS">> \in PtsState
    BY NextPtsStateType DEF TypeOK, PtsState, PtsField
  <2>3. fsm' \in FsmType /\ pts' \in PtsState
    <3>1. pts \in PtsState /\ (pts[1] = "REQ" \/ pts[1] = "RESP")
      BY DEF TypeOK, PtsState
    <3>2. CASE pts = <<"RESP", "PCK">>
      BY <1>5, <2>1, <2>2, <3>2 DEF IrqTxPts
    <3>3. CASE pts[1] = "RESP" /\ pts # <<"RESP", "PCK">>
      <4>1. pts[2] # "PCK"
        BY <3>1, <3>3 DEF PtsState
      <4>2. fsm' = fsm /\ pts' = NextPtsState(pts, pts0)
        BY <1>5, <3>3, <4>1 DEF IrqTxPts
      <4> QED  BY <1>0, <2>2, <4>2
    <3>4. CASE pts[1] = "REQ"
      BY <1>5, <2>1, <3>1, <3>4 DEF IrqTxPts
    <3> QED  BY <3>1, <3>2, <3>3, <3>4
  <2> QED  BY <1>5, <2>3 DEF IrqTxPts, TypeOK, FsmType
<1>6. CASE IrqTxTpdu
  <2> DEFINE m == IF tx # NoMsg THEN tx ELSE Head(txQ)
  <2>1. m \in TxMsgType \cup {NoMsg} /\ txQ' \in Seq(TxMsgType)
    BY <1>6 DEF IrqTxTpdu, TypeOK
  <2>2. m \in TxMsgType
    BY <1>6, <2>1 DEF IrqTxTpdu, TypeOK
  <2>3. tx' \in TxMsgType \cup {NoMsg}
    BY <1>6, <2>2 DEF IrqTxTpdu, TxMsgType
  <2>4. fsm' = AfterTxByte(ResetWt(fsm), m)
    BY <1>6 DEF IrqTxTpdu
  <2>5. fsm' \in FsmType
    <3> HIDE DEF m
    <3> QED  BY <1>0, <2>1, <2>4, UartType, AfterTxByteType
  <2> QED  BY <1>6, <2>1, <2>3, <2>5 DEF IrqTxTpdu, TypeOK, FsmType
<1>7. CASE IrqTxNothing
  <2>1. fsm' \in FsmType
    BY <1>0, <1>7, UartType DEF IrqTxNothing
  <2> QED  BY <1>7, <2>1 DEF IrqTxNothing, TypeOK, FsmType
<1>8. CASE IrqHalfExpired
  <2>1. [fsm EXCEPT !.wt = "half"] \in FsmType
    BY <1>0 DEF FsmType, WtPhase
  <2>2. fsm' \in FsmType
    BY <1>8, <2>1, UartType DEF IrqHalfExpired
  <2>3. UNCHANGED <<card, answer, atrVars, io, rb, epq, main>>
    BY <1>8 DEF IrqHalfExpired
  <2> QED  BY <2>2, <2>3 DEF TypeOK, FsmType
<1>9. CASE IrqExpired
  <2> DEFINE f == [fsm EXCEPT !.wt = "done"]
  <2>1. f \in FsmType
    BY <1>0 DEF FsmType, WtPhase
  <2>2. CardSetState(f, "IN_ATR") \in FsmType
    BY <2>1, CardSetStateType DEF State
  <2>3. fsm' \in FsmType
    BY <1>9, <2>1, <2>2 DEF IrqExpired
  <2>4. atrIdx' \in Nat /\ atrOut' \in Seq(Nat) /\ atrMixed' \in BOOLEAN
    <3>1. CASE fsm.state = "WAIT_ATR"
      <4>1. f.state = "WAIT_ATR"
        BY <1>0, <3>1 DEF FsmType
      <4>2. atrIdx' = 0 /\ atrOut' = <<>> /\ atrMixed' = (pc = "setIdx")
        BY <1>9, <4>1 DEF IrqExpired
      <4>3. atrMixed' \in BOOLEAN
        BY <4>2
      <4> QED  BY <4>2, <4>3
    <3>2. CASE fsm.state # "WAIT_ATR"
      <4>1. f.state # "WAIT_ATR"
        BY <1>0, <3>2 DEF FsmType
      <4>2. UNCHANGED <<atrIdx, atrOut, atrMixed>>
        BY <1>9, <4>1 DEF IrqExpired
      <4> QED  BY <4>2 DEF TypeOK
    <3> QED  BY <3>1, <3>2
  <2> QED  BY <1>9, <2>3, <2>4 DEF IrqExpired, TypeOK, FsmType
<1> QED
  BY <1>1, <1>2, <1>3, <1>4, <1>5, <1>6, <1>7, <1>8, <1>9 DEF UsartIrq

\* Type correctness is kept by the steps that handle a byte from the reader.
LEMMA TypeDrain ==
  ASSUME TypeOK, DrainStep
  PROVE  TypeOK'
<1> USE DEF card, answer, atrVars, io, main
<1>0. fsm \in FsmType /\ epq \in [{"IN", "INT"} -> Seq(Kind)] /\ pts \in PtsState
  BY DEF TypeOK, FsmType
<1>1. CASE Drained
  BY <1>1 DEF Drained, TypeOK, Pc
<1>2. CASE IgnoreByte
  BY <1>2, BoundAssumption DEF IgnoreByte, NextByte, TypeOK
<1>3. CASE RxPtsByte
  <2> DEFINE p == IF fsm.state = "WAIT_TPDU" THEN PtsStart ELSE pts
  <2>1. p \in PtsState /\ PtsStart \in PtsState /\ nextPts \in PtsState
    BY <1>0 DEF PtsStart, PtsState, PtsField, TypeOK
  <2>2. pts0' \in SUBSET {1, 2, 3}
    BY <1>3, DataAssumption DEF RxPtsByte, TypeOK
  <2>3. NextPtsState(p, pts0') \in PtsState
    <3> HIDE DEF p
    <3> QED  BY <2>1, NextPtsStateType
  <2>4. pts' \in PtsState /\ nextPts' \in PtsState
    BY <1>3, <2>1, <2>3 DEF RxPtsByte
  <2>7. pc' \in Pc /\ arg' \in State
    BY <1>3 DEF RxPtsByte, NextByte, TypeOK, Pc, State
  <2>8. rb' \in 0..(RbLen - 1) /\ UNCHANGED <<fsm, p3, rx, answer, atrVars, io, epq>>
    BY <1>3, BoundAssumption DEF RxPtsByte, NextByte, TypeOK
  <2> QED  BY <2>2, <2>4, <2>7, <2>8 DEF TypeOK, FsmType
<1>10. CASE SetPts
  <2>1. fsm' \in FsmType
    <3>1. [fsm EXCEPT !.late = @ \/ (fsm.state = "WAIT_TPDU" /\ nextPts[1] = "RESP")] \in FsmType
      BY <1>0 DEF FsmType
    <3> QED  BY <1>10, <3>1 DEF SetPts
  <2>2. pts' \in PtsState /\ nextPts' \in PtsState
    BY <1>10 DEF SetPts, TypeOK, PtsStart, PtsState, PtsField
  <2>3. pc' \in Pc /\ UNCHANGED <<pts0, p3, rx, answer, atrVars, io, rb, epq, arg>>
    BY <1>10 DEF SetPts, Pc
  <2> QED  BY <2>1, <2>2, <2>3 DEF TypeOK, FsmType
<1>11. CASE RespondPts
  <2>1. epq' \in [{"IN", "INT"} -> Seq(Kind)]
    <3>1. Sent(epq["IN"], "PTS") \subseteq Seq(Kind)
      BY <1>0, QueueType DEF Kind
    <3> QED  BY <1>0, <1>11, <3>1 DEF RespondPts
  <2>2. pc' \in Pc /\ arg' \in State /\ UNCHANGED <<fsm, card, answer, atrVars, io, rb>>
    BY <1>11 DEF RespondPts, TypeOK, Pc, State
  <2> QED  BY <2>1, <2>2 DEF TypeOK
<1>12. CASE EnableTxPts
  <2>1. UartEnable(fsm, TxMask) \in FsmType
    BY <1>0, UartType DEF TxMask, Irq
  <2>2. fsm' \in FsmType
    BY <1>12, <2>1 DEF EnableTxPts, FsmType
  <2>3. pc' \in Pc /\ UNCHANGED <<card, answer, atrVars, io, rb, epq, arg>>
    BY <1>12 DEF EnableTxPts, Pc
  <2> QED  BY <2>2, <2>3 DEF TypeOK, FsmType
<1>4. ASSUME TpduByte
      PROVE  /\ pc' \in Pc /\ arg' \in State /\ rb' \in 0..(RbLen - 1)
             /\ UNCHANGED <<pts, nextPts, pts0, answer, atrVars, io>>
  BY <1>4, BoundAssumption DEF TpduByte, NextByte, TypeOK, Pc, State
<1>5. CASE RxHeaderByte
  <2>1. TpduByte /\ UNCHANGED <<p3, rx, epq>>
    BY <1>5 DEF RxHeaderByte
  <2>2. NextHeaderState(fsm.tpdu) \in TpduState
    BY <1>5 DEF RxHeaderByte, HeaderStates, TpduState, NextHeaderState
  <2>3. fsm' \in FsmType
    BY <1>0, <1>5, <2>2, SetTpduStateType DEF RxHeaderByte
  <2>4. /\ pc' \in Pc /\ arg' \in State /\ rb' \in 0..(RbLen - 1)
        /\ UNCHANGED <<pts, nextPts, pts0, answer, atrVars, io, p3, rx, epq>>
    BY <1>4, <2>1
  <2> QED  BY <2>3, <2>4 DEF TypeOK, FsmType
<1>6. CASE RxP3
  <2>1. TpduByte /\ p3' \in 0..255 /\ rx' = NoRx
    BY <1>6, DataAssumption DEF RxP3
  <2>2. fsm' \in FsmType
    BY <1>0, <1>6, SetTpduStateType DEF RxP3, TpduState
  <2>3. epq' \in [{"IN", "INT"} -> Seq(Kind)]
    <3>1. FlushRx(epq["IN"]) \in Seq(Kind)
      BY <1>0, SubmitType DEF FlushRx, Kind
    <3>2. Sent(FlushRx(epq["IN"]), "HDR") \subseteq Seq(Kind)
      BY <3>1, QueueType DEF Kind
    <3> QED  BY <1>0, <1>6, <3>2 DEF RxP3
  <2> QED  BY <1>4, <2>1, <2>2, <2>3, ZenonT(60) DEF TypeOK, FsmType
<1>7. CASE RxBodyByte
  <2>1. TpduByte /\ UNCHANGED p3
    BY <1>7 DEF RxBodyByte
  <2>2. SetTpduState(fsm, "WAIT_TX") \in FsmType
    BY <1>0, SetTpduStateType DEF TpduState
  <2>3. fsm' \in FsmType
    BY <1>0, <1>7, <2>2 DEF RxBodyByte
  <2>4. AllocSt(epq["IN"]) \subseteq Seq(Kind) /\ epq["IN"] \in Seq(Kind)
    BY <1>0, QueueType DEF Kind
  <2>5. \A q \in Seq(Kind) : Submit(q, "DATA") \in Seq(Kind)
    BY SubmitType DEF Kind
  <2>6. epq' \in [{"IN", "INT"} -> Seq(Kind)]
    BY <1>0, <1>7, <2>4, <2>5 DEF RxBodyByte
  <2>7. rx' \in {NoRx} \cup 1..255
    <3>1. rx \in {NoRx} \cup 1..255 /\ p3 \in 0..255
      BY DEF TypeOK
    <3>2. \/ rx' = rx
          \/ LET n == IF rx = NoRx THEN 1 ELSE rx + 1 IN rx' = IF n >= p3 THEN NoRx ELSE n
      BY <1>7 DEF RxBodyByte
    <3> QED  BY <3>1, <3>2 DEF NoRx
  <2>8. p3' \in 0..255
    BY <2>1 DEF TypeOK
  <2>9. /\ pc' \in Pc /\ arg' \in State /\ rb' \in 0..(RbLen - 1)
        /\ UNCHANGED <<pts, nextPts, pts0, answer, atrVars, io>>
    BY <1>4, <2>1
  <2> HIDE DEF Kind, TxMsgType, Pc, State, PtsState, NoRx, NoMsg
  <2> QED  BY <2>3, <2>6, <2>7, <2>8, <2>9 DEF TypeOK, FsmType
<1>8. CASE RxUnexpectedByte
  BY <1>4, <1>8, ZenonT(60) DEF RxUnexpectedByte, TypeOK
<1>9. CASE SetNewState
  <2>1. fsm' \in FsmType
    BY <1>0, <1>9, CardSetStateType DEF SetNewState, TypeOK
  <2>2. pc' \in Pc /\ UNCHANGED <<card, answer, atrVars, io, rb, epq, arg>>
    BY <1>9 DEF SetNewState, Pc
  <2> QED  BY <2>1, <2>2 DEF TypeOK, FsmType
<1> QED
  BY <1>1, <1>2, <1>3, <1>5, <1>6, <1>7, <1>8, <1>9, <1>10, <1>11, <1>12 DEF DrainStep, PtsStep

\* Type correctness is kept by the steps that forward changed levels.
LEMMA TypeIo ==
  ASSUME TypeOK, IoStep
  PROVE  TypeOK'
<1> USE DEF card, answer, atrVars, io, main
<1>0. /\ fsm \in FsmType /\ pins \in Levels
      /\ last \in [vcc : BOOLEAN, rst : BOOLEAN] /\ line \in [vcc : BOOLEAN, rst : BOOLEAN]
      /\ enabled \in BOOLEAN
      /\ epq \in [{"IN", "INT"} -> Seq(Kind)]
  BY DEF TypeOK, FsmType, Levels
<1>1. Level \in [vcc : BOOLEAN, rst : BOOLEAN]
  BY DEF Level
<1>2. CASE VccSame
  BY <1>2 DEF VccSame, TypeOK, Pc
<1>3. CASE RstSame
  BY <1>3 DEF RstSame, TypeOK, Pc
<1>4. ASSUME NEW target \in State, StartReset(target)
      PROVE  /\ fsm' \in FsmType /\ tx' \in {NoMsg} /\ rx' \in {NoRx}
             /\ pc' \in Pc /\ arg' \in State /\ UNCHANGED <<pins, last, epq>>
  BY <1>0, <1>4, UartType DEF StartReset, Pc
<1>5. CASE VccOff
  <2>1. /\ fsm' \in FsmType /\ tx' \in {NoMsg} /\ rx' \in {NoRx}
        /\ pc' \in Pc /\ arg' \in State /\ UNCHANGED <<pins, last, epq>>
    BY <1>4, <1>5 DEF VccOff, State
  <2>2. UNCHANGED <<pts, nextPts, pts0, p3, txQ, atrVars, line, enabled, statusIrq, rb>>
    BY <1>5 DEF VccOff
  <2> QED  BY <2>1, <2>2 DEF TypeOK, FsmType
<1>6. CASE RstAsserted
  <2>1. /\ fsm' \in FsmType /\ tx' \in {NoMsg} /\ rx' \in {NoRx}
        /\ pc' \in Pc /\ arg' \in State /\ UNCHANGED <<pins, last, epq>>
    BY <1>4, <1>6 DEF RstAsserted, State
  <2>2. UNCHANGED <<pts, nextPts, pts0, p3, txQ, atrVars, line, enabled, statusIrq, rb>>
    BY <1>6 DEF RstAsserted
  <2> QED  BY <2>1, <2>2 DEF TypeOK, FsmType
<1>7. \A f \in FsmType : \A q : EndActivation(f, q) \in FsmType
  BY CardSetStateType DEF EndActivation, State
<1>8. \A q \in Seq(Kind), changed \in BOOLEAN : Report(q, changed) \subseteq Seq(Kind)
  BY QueueType DEF Kind
<1>9. CASE VccOther
  <2> DEFINE v == Level.vcc
             on == [pins EXCEPT !.vcc = v]
             f1 == IF v /\ ~pins.vcc THEN CardSetState(fsm, "WAIT_CLK") ELSE fsm
             f2 == EndActivation(f1, on)
             f3 == IF v /\ ~pins.clk /\ f2.state = "WAIT_CLK"
                   THEN CardSetState(f2, "WAIT_RST") ELSE f2
  <2>1. v \in BOOLEAN
    BY <1>1
  <2>2. f1 \in FsmType
    BY <1>0, CardSetStateType DEF State
  <2>3. f2 \in FsmType
    <3> HIDE DEF f1
    <3> QED  BY <1>7, <2>2
  <2>4. f3 \in FsmType
    <3> HIDE DEF f2
    <3> QED  BY <2>3, CardSetStateType DEF State
  <2>5. /\ fsm' = EndActivation(f3, pins')
        /\ pins' = [on EXCEPT !.clk = v] /\ last' = [last EXCEPT !.vcc = v]
        /\ \E q \in Report(epq["INT"], v # pins.vcc) :
             \E r \in Report(q, v # pins.clk) : epq' = [epq EXCEPT !["INT"] = r]
        /\ pc' = "rst"
        /\ UNCHANGED <<card, answer, atrVars, line, enabled, statusIrq, rb, arg>>
    BY <1>9 DEF VccOther
  <2>6. fsm' \in FsmType
    <3> HIDE DEF f3
    <3> QED  BY <1>7, <2>4, <2>5
  <2>7. pins' \in Levels /\ last' \in [vcc : BOOLEAN, rst : BOOLEAN]
    <3> HIDE DEF v
    <3> QED  BY <1>0, <2>1, <2>5 DEF Levels
  <2>8. epq' \in [{"IN", "INT"} -> Seq(Kind)]
    <3>1. epq["INT"] \in Seq(Kind)
      BY <1>0
    <3>2. (v # pins.vcc) \in BOOLEAN /\ (v # pins.clk) \in BOOLEAN
      OBVIOUS
    <3> HIDE DEF v
    <3> QED  BY <1>0, <1>8, <2>5, <3>1, <3>2, ZenonT(60)
  <2> QED  BY <2>5, <2>6, <2>7, <2>8 DEF TypeOK, FsmType, Levels, Pc
<1>10. CASE RstOther
  <2> DEFINE r == Level.rst
             f1 == IF ~r /\ pins.rst /\ pins.vcc /\ pins.clk /\ fsm.state = "WAIT_RST"
                   THEN CardSetState(fsm, "WAIT_ATR") ELSE fsm
  <2>1. r \in BOOLEAN
    BY <1>1
  <2>2. f1 \in FsmType
    BY <1>0, CardSetStateType DEF State
  <2>3. /\ fsm' = EndActivation(f1, pins')
        /\ pins' = [pins EXCEPT !.rst = r] /\ last' = [last EXCEPT !.rst = r]
        /\ \E q \in Report(epq["INT"], r # pins.rst) : epq' = [epq EXCEPT !["INT"] = q]
        /\ pc' = "refill"
        /\ UNCHANGED <<card, answer, atrVars, line, enabled, statusIrq, rb, arg>>
    BY <1>10 DEF RstOther
  <2>4. fsm' \in FsmType
    <3> HIDE DEF f1
    <3> QED  BY <1>7, <2>2, <2>3
  <2>5. pins' \in Levels /\ last' \in [vcc : BOOLEAN, rst : BOOLEAN]
    <3> HIDE DEF r
    <3> QED  BY <1>0, <2>1, <2>3 DEF Levels
  <2>6. epq' \in [{"IN", "INT"} -> Seq(Kind)]
    <3>1. epq["INT"] \in Seq(Kind)
      BY <1>0
    <3>2. (r # pins.rst) \in BOOLEAN
      OBVIOUS
    <3> HIDE DEF r
    <3> QED  BY <1>0, <1>8, <2>3, <3>1, <3>2
  <2> QED  BY <2>3, <2>4, <2>5, <2>6, ZenonT(60) DEF TypeOK, FsmType, Levels, Pc
<1>11. CASE ReleaseQueued
  BY <1>11 DEF ReleaseQueued, TypeOK
<1>12. CASE Released
  <2>1. fsm' \in FsmType /\ UNCHANGED <<card, answer, atrVars, line, enabled, statusIrq, rb, arg>>
    BY <1>0, <1>12, CardSetStateType DEF Released, TypeOK
  <2>2. epq["INT"] \in Seq(Kind) /\ TRUE \in BOOLEAN /\ pins.clk \in BOOLEAN
    BY <1>0 DEF Levels
  <2>3. epq' \in [{"IN", "INT"} -> Seq(Kind)]
    <3>1. Report(epq["INT"], TRUE) \subseteq Seq(Kind)
      BY <1>8, <2>2
    <3>2. \A q \in Seq(Kind) : Report(q, pins.clk) \subseteq Seq(Kind)
      BY <1>8, <2>2
    <3>3. CASE arg = "WAIT_POWER"
      <4>1. \E q \in Report(epq["INT"], TRUE) :
              \E r \in Report(q, pins.clk) : epq' = [epq EXCEPT !["INT"] = r]
        BY <1>12, <3>3 DEF Released
      <4> QED  BY <1>0, <3>1, <3>2, <4>1
    <3>4. CASE arg # "WAIT_POWER"
      BY <1>0, <1>12, <3>1, <3>4 DEF Released
    <3> QED  BY <3>3, <3>4
  <2>4. pins' \in Levels /\ last' \in [vcc : BOOLEAN, rst : BOOLEAN] /\ pc' \in Pc
    <3>1. CASE arg = "WAIT_POWER"
      BY <1>0, <1>12, <3>1 DEF Released, Levels, Pc
    <3>2. CASE arg # "WAIT_POWER"
      BY <1>0, <1>12, <3>2 DEF Released, Levels, Pc
    <3> QED  BY <3>1, <3>2
  <2> QED  BY <2>1, <2>3, <2>4 DEF TypeOK, FsmType, Levels
<1> QED
  BY <1>2, <1>3, <1>5, <1>6, <1>9, <1>10, <1>11, <1>12 DEF IoStep

\* Type correctness is kept by the rest of the main loop.
LEMMA TypeCommands ==
  ASSUME TypeOK, Refill \/ CommandStep \/ NewUartTx \/ EnableTx \/ SetAtrIdx \/ CmdsDone
  PROVE  TypeOK'
<1> USE DEF card, answer, atrVars, io, main
<1>0. fsm \in FsmType /\ epq \in [{"IN", "INT"} -> Seq(Kind)]
  BY DEF TypeOK, FsmType
<1>1. CASE Refill
  <2>1. epq' \in [{"IN", "INT"} -> Seq(Kind)]
    BY <1>0, <1>1 DEF Refill
  <2>2. pc' \in Pc /\ UNCHANGED <<fsm, card, answer, atrVars, io, rb, arg>>
    BY <1>1 DEF Refill, Pc
  <2> QED  BY <2>1, <2>2 DEF TypeOK
<1>2. CASE CmdTxData
  <2>1. txQ' \in Seq(TxMsgType)
    BY <1>2, DataAssumption DEF CmdTxData, TypeOK
  <2> QED  BY <1>2, <2>1 DEF CmdTxData, TypeOK, Pc
<1>3. CASE CmdTxDataDropped
  BY <1>3 DEF CmdTxDataDropped, TypeOK, vars
<1>4. CASE CmdSetAtr
  <2>1. atrMixed' \in BOOLEAN
    BY <1>4 DEF CmdSetAtr
  <2>2. atr' \in Atrs /\ pc' \in Pc /\ UNCHANGED <<fsm, card, answer, atrIdx, atrOut, io, rb, epq, arg>>
    BY <1>4 DEF CmdSetAtr, Pc
  <2> QED  BY <2>1, <2>2 DEF TypeOK
<1>5. CASE CmdSimSelect
  BY <1>5 DEF CmdSimSelect, TypeOK
<1>6. CASE CmdStatus
  <2>1. epq' \in [{"IN", "INT"} -> Seq(Kind)]
    BY <1>0, <1>6, QueueType DEF CmdStatus, Kind
  <2> QED  BY <1>6, <2>1 DEF CmdStatus, TypeOK
<1>7. CASE CmdConfig
  <2>1. epq' \in [{"IN", "INT"} -> Seq(Kind)]
    BY <1>0, <1>7, QueueType DEF CmdConfig, Kind
  <2> QED  BY <1>7, <2>1 DEF CmdConfig, TypeOK
<1>8. CASE NewUartTx
  BY <1>8 DEF NewUartTx, TypeOK, Pc
<1>9. CASE EnableTx
  <2>1. UartEnable(fsm, TxMask) \in FsmType
    BY <1>0, UartType DEF TxMask, Irq
  <2>2. fsm' \in FsmType
    BY <1>9, <2>1 DEF EnableTx, FsmType
  <2>3. pc' \in Pc /\ UNCHANGED <<card, answer, atrVars, io, rb, epq, arg>>
    BY <1>9 DEF EnableTx, Pc
  <2> QED  BY <2>2, <2>3 DEF TypeOK, FsmType
<1>10. CASE SetAtrIdx
  <2>1. atrMixed' \in BOOLEAN
    BY <1>10 DEF SetAtrIdx
  <2>2. atrIdx' \in Nat /\ pc' \in Pc /\ UNCHANGED <<fsm, card, answer, atr, atrOut, io, rb, epq, arg>>
    BY <1>10 DEF SetAtrIdx, Pc
  <2> QED  BY <2>1, <2>2 DEF TypeOK
<1>11. CASE CmdsDone
  BY <1>11 DEF CmdsDone, TypeOK, Pc
<1> QED
  BY <1>1, <1>2, <1>3, <1>4, <1>5, <1>6, <1>7, <1>8, <1>9, <1>10, <1>11 DEF CommandStep

\* Type correctness of every reachable state: the ring buffer of received bytes
\* keeps its free slot whatever RING_BUFLEN is, no byte of a body is counted
\* beyond P3.
THEOREM TypeCorrect == Spec => []TypeOK
<1>1. Init => TypeOK
  BY TypeInit
<1>2. TypeOK /\ [Next]_vars => TypeOK'
  <2> SUFFICES ASSUME TypeOK, [Next]_vars PROVE TypeOK'
    OBVIOUS
  <2>1. CASE UNCHANGED vars
    BY <2>1 DEF TypeOK, vars
  <2>2. CASE Next
    BY <2>2, TypeIrq, TypeDrain, TypeIo, TypeCommands DEF Next, MainStep
  <2> QED  BY <2>1, <2>2
<1> QED  BY <1>1, <1>2, PTL DEF Spec

-----------------------------------------------------------------------------
(* What the operators do to the FSM.                                        *)

\* set_tpdu_state does nothing when the sub-state is the same; else it chooses
\* direction and waiting time.
LEMMA SetTpduStateFacts ==
  ASSUME NEW f \in FsmType, NEW t \in TpduState
  PROVE  LET g == SetTpduState(f, t) IN
         /\ g.state = f.state /\ g.tpdu = t
         /\ f.tpdu = t => g = f
         /\ f.tpdu # t /\ t = "WAIT_CLA" => g.mask = RxMask /\ g.stale = FALSE /\ g.late = FALSE
         /\ f.tpdu # t /\ t = "WAIT_RX" => g.mask = RxMask /\ g.stale = FALSE /\ g.late = FALSE
         /\ f.tpdu # t /\ t \in {"WAIT_PB", "WAIT_TX"} =>
              g.mask = TxMask /\ g.stale = FALSE /\ g.late = FALSE /\ g.wt = "run"
         /\ t \in HeaderStates \ {"WAIT_CLA"} => g.mask = f.mask /\ g.stale = f.stale /\ g.late = f.late
BY DEF SetTpduState, FsmType, UpdateWt, UartEnable, TpduState, HeaderStates

\* card_set_state likewise; it only keeps the interrupts when it enters a TPDU or
\* a PTS exchange.
LEMMA CardSetStateFacts ==
  ASSUME NEW f \in FsmType, NEW s \in State
  PROVE  LET g == CardSetState(f, s) IN
         /\ g.state = s
         /\ f.state = s => g = f
         /\ f.state # s /\ s \in Off => g.mask = {} /\ g.stale = FALSE /\ g.late = FALSE
         /\ f.state # s /\ s = "WAIT_ATR" => g.mask = TimerMask /\ g.stale = FALSE /\ g.late = FALSE
         /\ f.state # s /\ s = "IN_ATR" => g.mask = TxMask /\ g.stale = FALSE /\ g.late = FALSE
         /\ f.state # s /\ s = "WAIT_TPDU" =>
              g.mask = RxMask /\ g.stale = FALSE /\ g.late = FALSE /\ g.tpdu = "WAIT_CLA"
         /\ s \in {"IN_PTS", "IN_TPDU"} =>
              /\ g.mask = f.mask /\ g.stale = f.stale /\ g.late = f.late
              /\ g.tpdu = f.tpdu /\ g.wt = f.wt
<1> DEFINE h == [f EXCEPT !.state = s]
           g == CardSetState(f, s)
<1>1. h \in FsmType /\ h.state = s /\ h.mask = f.mask /\ h.stale = f.stale /\ h.late = f.late /\ h.tpdu = f.tpdu /\ h.wt = f.wt
  BY DEF FsmType
<1>2. CASE f.state = s
  BY <1>2 DEF CardSetState
<1>3. CASE f.state # s /\ s \in Off
  BY <1>1, <1>3 DEF CardSetState, UpdateWt, UartEnable, FsmType, Off
<1>4. CASE f.state # s /\ s \in {"WAIT_ATR", "IN_ATR", "IN_PTS", "IN_TPDU"}
  BY <1>1, <1>4 DEF CardSetState, UpdateWt, UartEnable, FsmType, Off
<1>5. CASE f.state # s /\ s = "WAIT_TPDU"
  <2> DEFINE k == SetTpduState(h, "WAIT_CLA")
  <2>1. k \in FsmType /\ k.state = s /\ k.tpdu = "WAIT_CLA"
    <3>1. "WAIT_CLA" \in TpduState
      BY DEF TpduState, HeaderStates
    <3> HIDE DEF h
    <3>2. k \in FsmType
      BY <1>1, <3>1, SetTpduStateType
    <3>3. k.state = h.state /\ k.tpdu = "WAIT_CLA"
      BY <1>1, <3>1, SetTpduStateFacts
    <3> QED  BY <1>1, <3>2, <3>3
  <2>2. g = UartEnable(k, RxMask)
    BY <1>5 DEF CardSetState, Off
  <2> HIDE DEF k
  <2> QED  BY <1>5, <2>1, <2>2 DEF UartEnable, FsmType, Off
<1> QED  BY <1>2, <1>3, <1>4, <1>5 DEF State, Off

\* A byte of a message leaves the FSM alone, turns to sending or to receiving, or
\* completes the answer.
LEMMA AfterTxByteFacts ==
  ASSUME NEW f \in FsmType, f.state = "IN_TPDU", NEW m
  PROVE  LET g == AfterTxByte(f, m) IN
         \/ g = f
         \/ /\ g.state = "IN_TPDU" /\ g.tpdu = "WAIT_TX" /\ g.mask = TxMask
            /\ g.stale = FALSE /\ g.late = FALSE /\ g.wt = "run"
         \/ /\ g.state = "IN_TPDU" /\ g.tpdu = "WAIT_RX" /\ g.mask = RxMask
            /\ g.stale = FALSE /\ g.late = FALSE
         \/ /\ g.state = "WAIT_TPDU" /\ g.tpdu = "WAIT_CLA" /\ g.mask = RxMask
            /\ g.stale = FALSE /\ g.late = FALSE
<1> DEFINE h == CASE f.tpdu = "WAIT_PB" /\ m.pbTx -> SetTpduState(f, "WAIT_TX")
                  [] f.tpdu = "WAIT_PB" /\ ~m.pbTx /\ m.pbRx -> SetTpduState(f, "WAIT_RX")
                  [] OTHER -> f
           Turned(k) == \/ k = f
                        \/ /\ k.state = "IN_TPDU" /\ k.tpdu = "WAIT_TX" /\ k.mask = TxMask
                           /\ k.stale = FALSE /\ k.late = FALSE /\ k.wt = "run"
                        \/ /\ k.state = "IN_TPDU" /\ k.tpdu = "WAIT_RX" /\ k.mask = RxMask
                           /\ k.stale = FALSE /\ k.late = FALSE
<1>0. "WAIT_TX" \in TpduState /\ "WAIT_RX" \in TpduState /\ "WAIT_TPDU" \in State
  BY DEF TpduState, State
<1>1. h \in FsmType /\ Turned(h)
  <2>1. h \in {f, SetTpduState(f, "WAIT_TX"), SetTpduState(f, "WAIT_RX")}
    OBVIOUS
  <2> HIDE DEF h
  <2>2. Turned(SetTpduState(f, "WAIT_TX")) /\ Turned(SetTpduState(f, "WAIT_RX")) /\ Turned(f)
    BY <1>0, SetTpduStateFacts, ZenonT(60)
  <2>3. SetTpduState(f, "WAIT_TX") \in FsmType /\ SetTpduState(f, "WAIT_RX") \in FsmType
    BY <1>0, SetTpduStateType
  <2> QED  BY <2>1, <2>2, <2>3
<1>2. h.state = "IN_TPDU"
  BY <1>1
<1>3. AfterTxByte(f, m) \in {h, SetTpduState(h, "WAIT_RX"), CardSetState(h, "WAIT_TPDU")}
  BY DEF AfterTxByte
<1> HIDE DEF h
<1>4. Turned(SetTpduState(h, "WAIT_RX"))
  <2>1. CASE h.tpdu = "WAIT_RX"
    <3>1. SetTpduState(h, "WAIT_RX") = h
      BY <1>0, <1>1, <2>1, SetTpduStateFacts
    <3> QED  BY <1>1, <3>1
  <2>2. CASE h.tpdu # "WAIT_RX"
    <3> DEFINE k == SetTpduState(h, "WAIT_RX")
    <3>1. k.state = "IN_TPDU" /\ k.tpdu = "WAIT_RX" /\ k.mask = RxMask /\ k.stale = FALSE /\ k.late = FALSE
      BY <1>0, <1>1, <1>2, <2>2, SetTpduStateFacts, ZenonT(60)
    <3> QED  BY <3>1
  <2> QED  BY <2>1, <2>2
<1>5. /\ CardSetState(h, "WAIT_TPDU").state = "WAIT_TPDU"
      /\ CardSetState(h, "WAIT_TPDU").tpdu = "WAIT_CLA"
      /\ CardSetState(h, "WAIT_TPDU").mask = RxMask
      /\ CardSetState(h, "WAIT_TPDU").stale = FALSE
      /\ CardSetState(h, "WAIT_TPDU").late = FALSE
  BY <1>0, <1>1, <1>2, CardSetStateFacts, ZenonT(60)
<1> QED  BY <1>1, <1>3, <1>4, <1>5

-----------------------------------------------------------------------------
(* The inductive invariant, in three parts: the bytes of the ATR (AtrSent), *)
(* the PTS exchange (Exchange), and the control of the FSM, the main loop   *)
(* and the interrupts.                                                      *)

Exchange == SetPtsFits /\ RespondFits /\ LateFits

Control ==
  /\ SetStateFits /\ ReleaseFits /\ EnableFits /\ WaitTpduIdle
  /\ StaleFits /\ PowerFits
  /\ UartMatchesState /\ NoLostWakeup /\ WaitingTimeGuarded
  /\ ResetEmptiesQueue /\ ActivationComplete

\* The initial state satisfies all three.
LEMMA InvInit == Init => Control /\ Exchange /\ AtrSent
<1> SUFFICES ASSUME Init PROVE Control /\ Exchange /\ AtrSent
  OBVIOUS
<1>1. /\ fsm.state = "WAIT_POWER" /\ fsm.mask = {} /\ fsm.stale = FALSE /\ fsm.late = FALSE
      /\ pc = "drain" /\ txQ = <<>> /\ rx = NoRx /\ last.vcc = FALSE
  BY DEF Init
<1>2. Exchange
  BY <1>1 DEF Exchange, SetPtsFits, RespondFits, LateFits
<1> QED
  BY <1>1, <1>2 DEF Control, SetStateFits, ReleaseFits, EnableFits, WaitTpduIdle, StaleFits,
    PowerFits, UartMatchesState, MaskFits, ResponseStarts, LateSetPts, NoLostWakeup, WaitingTimeGuarded, Responding,
    ResetEmptiesQueue, ActivationComplete, AtrSent, Off

\* A step that leaves these variables alone keeps the control part.
LEMMA ControlStutter ==
  ASSUME Control, Exchange, UNCHANGED <<fsm, pts, nextPts, rx, tx, txQ, pins, last, pc, arg>>
  PROVE  Control' /\ Exchange'
<1>5. Exchange'
  BY DEF Exchange, SetPtsFits, RespondFits, LateFits
<1>1. (SetStateFits /\ ReleaseFits /\ EnableFits)'
  BY DEF Control, SetStateFits, ReleaseFits, EnableFits
<1>2. (WaitTpduIdle /\ StaleFits /\ PowerFits)'
  BY DEF Control, WaitTpduIdle, StaleFits, PowerFits
<1>3. (UartMatchesState /\ NoLostWakeup /\ WaitingTimeGuarded)'
  BY DEF Control, UartMatchesState, MaskFits, ResponseStarts, LateSetPts, NoLostWakeup, WaitingTimeGuarded, Responding
<1>4. (ResetEmptiesQueue /\ ActivationComplete)'
  BY DEF Control, ResetEmptiesQueue, ActivationComplete
<1> QED  BY <1>1, <1>2, <1>3, <1>4, <1>5 DEF Control

\* The control part is kept by the interrupts and by the pins.
LEMMA ControlIrq ==
  ASSUME TypeOK, Control, Exchange, LineChange \/ UsartIrq
  PROVE  Control'
<1> USE DEF card, answer, atrVars, io, main
<1>0. fsm \in FsmType /\ txQ \in Seq(TxMsgType)
  BY DEF TypeOK, FsmType
<1>1. CASE LineChange
  BY <1>1, ControlStutter DEF LineChange
<1>2. CASE IrqRx
  BY <1>2, ControlStutter DEF IrqRx
<1>3. CASE IrqTxAtrByte
  BY <1>3, ControlStutter DEF IrqTxAtrByte
<1>4. CASE IrqTxAtrEnd
  <2> DEFINE g == CardSetState(fsm, "WAIT_TPDU")
  <2>1. /\ g \in FsmType /\ g.state = "WAIT_TPDU" /\ g.mask = RxMask
        /\ g.stale = FALSE /\ g.late = FALSE /\ g.tpdu = "WAIT_CLA"
    BY <1>0, <1>4, CardSetStateType, CardSetStateFacts, ZenonT(60) DEF IrqTxAtrEnd, State
  <2>2. fsm' = DisableTxrdy(g) /\ UNCHANGED <<atr, atrIdx, card, answer, io, rb, epq, main>>
    BY <1>4 DEF IrqTxAtrEnd
  <2>3. /\ fsm'.state = "WAIT_TPDU" /\ fsm'.mask = RxMask
        /\ fsm'.stale = FALSE /\ fsm'.late = FALSE /\ fsm'.tpdu = "WAIT_CLA"
    <3> HIDE DEF g
    <3> QED  BY <2>1, <2>2 DEF DisableTxrdy, FsmType, RxMask
  <2>4. fsm.state = "IN_ATR"
    BY <1>4 DEF IrqTxAtrEnd
  <2> QED
    BY <2>2, <2>3, <2>4 DEF Control, SetStateFits, ReleaseFits, EnableFits, WaitTpduIdle,
      StaleFits, PowerFits, UartMatchesState, MaskFits, ResponseStarts, LateSetPts, NoLostWakeup, WaitingTimeGuarded,
      Responding, ResetEmptiesQueue, ActivationComplete, Inactive, Off, Ready
<1>5. CASE IrqTxPts
  <2>1. fsm.state = "IN_PTS" /\ "TXRDY" \in fsm.mask /\ UNCHANGED <<nextPts, pts0, p3, rx, answer, atrVars, io, rb, epq, main>>
    BY <1>5 DEF IrqTxPts
  <2>2. CASE pts = <<"RESP", "PCK">>
    <3>1. /\ fsm'.state = "WAIT_TPDU" /\ fsm'.mask = RxMask
          /\ fsm'.stale = FALSE /\ fsm'.late = FALSE /\ fsm'.tpdu = "WAIT_CLA"
      <4>1. fsm' = CardSetState(fsm, "WAIT_TPDU")
        BY <1>5, <2>2 DEF IrqTxPts
      <4> QED  BY <1>0, <2>1, <4>1, CardSetStateFacts, ZenonT(60) DEF State
    <3>2. pts'[1] = "REQ"
      BY <1>5, <2>2 DEF IrqTxPts
    <3> QED
      BY <2>1, <3>1, <3>2 DEF Control, SetStateFits, ReleaseFits, EnableFits, WaitTpduIdle,
        StaleFits, PowerFits, UartMatchesState, MaskFits, ResponseStarts, LateSetPts, NoLostWakeup, WaitingTimeGuarded,
        Responding, ResetEmptiesQueue, ActivationComplete, Inactive, Off, Ready
  <2>3. CASE pts[1] = "RESP" /\ pts # <<"RESP", "PCK">>
    <3>0. pts[2] # "PCK"
      BY <2>3 DEF TypeOK, PtsState
    <3>1. fsm' = fsm /\ pts' = NextPtsState(pts, pts0) /\ pts[2] # "PCK"
      BY <1>5, <2>3, <3>0 DEF IrqTxPts
    <3>2. pts'[1] = "RESP"
      BY <2>3, <3>1 DEF NextPtsState, TypeOK, PtsState, PtsField
    <3>3. UartMatchesState'
      <4>1. fsm.mask # RxMask
        BY <2>1 DEF RxMask
      <4> QED
        BY <2>1, <2>3, <3>1, <3>2, <4>1
          DEF Control, UartMatchesState, MaskFits, ResponseStarts, LateSetPts, Off
    <3> QED
      BY <2>1, <2>3, <3>1, <3>2, <3>3 DEF Control, SetStateFits, ReleaseFits, EnableFits, WaitTpduIdle,
        StaleFits, PowerFits, NoLostWakeup, WaitingTimeGuarded,
        Responding, ResetEmptiesQueue, ActivationComplete, Inactive, Off, Ready
  <2>4. CASE pts[1] = "REQ"
    <3>1. fsm' = DisableTxrdy(fsm) /\ pts' = pts
      BY <1>5, <2>4 DEF IrqTxPts
    <3>2. fsm.stale = TRUE
      BY <2>1, <2>4 DEF Control, UartMatchesState, MaskFits, ResponseStarts, LateSetPts, Off, RxMask
    <3>3. fsm'.state = fsm.state /\ fsm'.tpdu = fsm.tpdu /\ fsm'.stale = fsm.stale /\ fsm'.late = fsm.late
      BY <1>0, <3>1 DEF DisableTxrdy, FsmType
    <3> QED
      BY <2>1, <2>4, <3>1, <3>2, <3>3 DEF Control, SetStateFits, ReleaseFits, EnableFits, WaitTpduIdle,
        StaleFits, PowerFits, UartMatchesState, MaskFits, ResponseStarts, LateSetPts, NoLostWakeup, WaitingTimeGuarded,
        Responding, ResetEmptiesQueue, ActivationComplete, Inactive, Off, Ready
  <2> QED  BY <2>2, <2>3, <2>4 DEF TypeOK, PtsState
<1>6. CASE IrqTxTpdu
  <2> DEFINE r == ResetWt(fsm)
             m == IF tx # NoMsg THEN tx ELSE Head(txQ)
  <2>1. /\ fsm.state = "IN_TPDU" /\ "TXRDY" \in fsm.mask
        /\ fsm' = AfterTxByte(r, m)
        /\ UNCHANGED <<card, atrVars, io, rb, epq, main>>
    BY <1>6 DEF IrqTxTpdu
  <2>2. /\ r \in FsmType /\ r.state = fsm.state /\ r.tpdu = fsm.tpdu /\ r.mask = fsm.mask
        /\ r.stale = fsm.stale /\ r.late = fsm.late /\ (fsm.wt = "run" => r.wt = "run")
    BY <1>0 DEF ResetWt, UpdateWt, FsmType, WtPhase
  <2> HIDE DEF r, m
  <2>3. CASE fsm' = r
    <3>1. UartMatchesState'
      BY <2>1, <2>2, <2>3 DEF Control, UartMatchesState, MaskFits, ResponseStarts, LateSetPts
    <3> QED
      BY <2>1, <2>2, <2>3, <3>1 DEF Control, SetStateFits, ReleaseFits, EnableFits, WaitTpduIdle,
        StaleFits, PowerFits, NoLostWakeup, WaitingTimeGuarded,
        Responding, ResetEmptiesQueue, ActivationComplete, Inactive, Off, Ready
  <2>4. CASE /\ fsm'.state = "IN_TPDU" /\ fsm'.tpdu = "WAIT_TX" /\ fsm'.mask = TxMask
             /\ fsm'.stale = FALSE /\ fsm'.late = FALSE /\ fsm'.wt = "run"
    BY <2>1, <2>4 DEF Control, SetStateFits, ReleaseFits, EnableFits, WaitTpduIdle,
        StaleFits, PowerFits, UartMatchesState, MaskFits, ResponseStarts, LateSetPts, NoLostWakeup, WaitingTimeGuarded,
        Responding, ResetEmptiesQueue, ActivationComplete, Inactive, Off, Ready, TxMask, TimerMask
  <2>5. CASE /\ fsm'.state = "IN_TPDU" /\ fsm'.tpdu = "WAIT_RX" /\ fsm'.mask = RxMask
             /\ fsm'.stale = FALSE /\ fsm'.late = FALSE
    BY <2>1, <2>5 DEF Control, SetStateFits, ReleaseFits, EnableFits, WaitTpduIdle,
        StaleFits, PowerFits, UartMatchesState, MaskFits, ResponseStarts, LateSetPts, NoLostWakeup, WaitingTimeGuarded,
        Responding, ResetEmptiesQueue, ActivationComplete, Inactive, Off, Ready
  <2>6. CASE /\ fsm'.state = "WAIT_TPDU" /\ fsm'.tpdu = "WAIT_CLA" /\ fsm'.mask = RxMask
             /\ fsm'.stale = FALSE /\ fsm'.late = FALSE
    BY <2>1, <2>6 DEF Control, SetStateFits, ReleaseFits, EnableFits, WaitTpduIdle,
        StaleFits, PowerFits, UartMatchesState, MaskFits, ResponseStarts, LateSetPts, NoLostWakeup, WaitingTimeGuarded,
        Responding, ResetEmptiesQueue, ActivationComplete, Inactive, Off, Ready
  <2> QED
    BY <2>1, <2>2, <2>3, <2>4, <2>5, <2>6, AfterTxByteFacts
<1>7. CASE IrqTxNothing
  <2>1. /\ "TXRDY" \in fsm.mask
        /\ \/ fsm.state \notin {"IN_ATR", "IN_PTS", "IN_TPDU"}
           \/ fsm.state = "IN_TPDU" /\ tx = NoMsg /\ txQ = <<>>
        /\ fsm' = DisableTxrdy(fsm)
        /\ UNCHANGED <<card, answer, atrVars, io, rb, epq, main>>
    BY <1>7 DEF IrqTxNothing
  <2>2. /\ fsm'.state = fsm.state /\ fsm'.tpdu = fsm.tpdu /\ fsm'.stale = fsm.stale /\ fsm'.late = fsm.late
        /\ fsm'.wt = fsm.wt /\ fsm'.mask = fsm.mask \ {"TXRDY"}
    BY <1>0, <2>1 DEF DisableTxrdy, FsmType
  <2>3. UartMatchesState'
    BY <1>0, <2>1, <2>2 DEF Control, UartMatchesState, MaskFits, ResponseStarts, LateSetPts, RxMask, TxMask, TimerMask,
      FsmType, State, Off
  <2> QED
    BY <2>1, <2>2, <2>3 DEF Control, SetStateFits, ReleaseFits, EnableFits, WaitTpduIdle,
        StaleFits, PowerFits, NoLostWakeup, WaitingTimeGuarded,
        Responding, ResetEmptiesQueue, ActivationComplete
<1>8. CASE IrqHalfExpired
  <2>1. /\ fsm.wt = "run" /\ "TIMEOUT" \in fsm.mask
        /\ UNCHANGED <<card, answer, atrVars, io, rb, epq, main>>
    BY <1>8 DEF IrqHalfExpired
  <2>2. /\ fsm'.state = fsm.state /\ fsm'.tpdu = fsm.tpdu /\ fsm'.stale = fsm.stale /\ fsm'.late = fsm.late
        /\ fsm'.mask = fsm.mask /\ (Responding => fsm'.wt = "run")
    BY <1>0, <1>8 DEF IrqHalfExpired, FsmType, ResetWt, UpdateWt, Responding
  <2>3. UartMatchesState'
    BY <2>1, <2>2 DEF Control, UartMatchesState, MaskFits, ResponseStarts, LateSetPts
  <2> QED
    BY <2>1, <2>2, <2>3 DEF Control, SetStateFits, ReleaseFits, EnableFits, WaitTpduIdle,
        StaleFits, PowerFits, NoLostWakeup, WaitingTimeGuarded,
        Responding, ResetEmptiesQueue, ActivationComplete
<1>9. CASE IrqExpired
  <2> DEFINE f == [fsm EXCEPT !.wt = "done"]
  <2>1. /\ f \in FsmType /\ f.state = fsm.state /\ f.tpdu = fsm.tpdu
        /\ f.stale = fsm.stale /\ f.late = fsm.late /\ f.mask = fsm.mask
    BY <1>0 DEF FsmType, WtPhase
  <2>2. fsm.wt = "half" /\ UNCHANGED <<card, answer, io, rb, epq, main>>
    BY <1>9 DEF IrqExpired
  <2>3. CASE fsm.state = "WAIT_ATR"
    <3>1. fsm' = CardSetState(f, "IN_ATR")
      BY <1>9, <2>1, <2>3 DEF IrqExpired
    <3>2. fsm'.state = "IN_ATR" /\ fsm'.mask = TxMask /\ fsm'.stale = FALSE /\ fsm'.late = FALSE
      <4> HIDE DEF f
      <4> QED  BY <2>1, <2>3, <3>1, CardSetStateFacts DEF State
    <3> QED
      BY <2>2, <2>3, <3>2 DEF Control, SetStateFits, ReleaseFits, EnableFits, WaitTpduIdle,
        StaleFits, PowerFits, UartMatchesState, MaskFits, ResponseStarts, LateSetPts, NoLostWakeup, WaitingTimeGuarded,
        Responding, ResetEmptiesQueue, ActivationComplete, Inactive, Off, Ready
  <2>4. CASE fsm.state # "WAIT_ATR"
    <3>1. fsm' = f
      BY <1>9, <2>1, <2>4 DEF IrqExpired
    <3> HIDE DEF f
    <3>2. UartMatchesState'
      BY <2>1, <2>2, <3>1 DEF Control, UartMatchesState, MaskFits, ResponseStarts, LateSetPts
    <3> QED
      BY <2>1, <2>2, <3>1, <3>2 DEF Control, SetStateFits, ReleaseFits, EnableFits, WaitTpduIdle,
        StaleFits, PowerFits, NoLostWakeup, WaitingTimeGuarded,
        Responding, ResetEmptiesQueue, ActivationComplete
  <2> QED  BY <2>3, <2>4
<1> QED
  BY <1>1, <1>2, <1>3, <1>4, <1>5, <1>6, <1>7, <1>8, <1>9 DEF UsartIrq

\* The control part is kept by the steps that handle a byte from the reader.
LEMMA ControlDrain ==
  ASSUME TypeOK, Control, Exchange, DrainStep
  PROVE  Control'
<1> USE DEF card, answer, atrVars, io, main
<1>0. fsm \in FsmType /\ pts \in PtsState
  BY DEF TypeOK, FsmType
<1>1. CASE Drained
  <2>1. pc = "drain" /\ pc' = "vcc" /\ UNCHANGED <<fsm, card, answer, atrVars, io, rb, epq, arg>>
    BY <1>1 DEF Drained
  <2>2. UartMatchesState'
    BY <2>1 DEF Control, UartMatchesState, MaskFits, ResponseStarts, LateSetPts
  <2> QED
    BY <2>1, <2>2 DEF Control, SetStateFits, ReleaseFits, EnableFits, WaitTpduIdle,
        StaleFits, PowerFits, NoLostWakeup, WaitingTimeGuarded,
        Responding, ResetEmptiesQueue, ActivationComplete
<1>2. CASE IgnoreByte
  BY <1>2, ControlStutter DEF IgnoreByte, NextByte
<1>3. CASE RxPtsByte
  <2>1. /\ pc = "drain" /\ pc' \in {"setPts", "setState"}
        /\ pc' = "setState" => arg' = "WAIT_TPDU"
        /\ fsm.state \in {"WAIT_TPDU", "IN_PTS"}
        /\ UNCHANGED <<fsm, p3, rx, answer, atrVars, io, epq>>
    BY <1>3 DEF RxPtsByte, NextByte
  <2>2. fsm.state = "IN_PTS" => pts'[1] = pts[1]
    BY <1>3 DEF RxPtsByte, PtsStart
  <2>3. UartMatchesState'
    BY <2>1, <2>2 DEF Control, UartMatchesState, MaskFits, ResponseStarts, LateSetPts, Off
  <2> QED
    BY <2>1, <2>3 DEF Control, SetStateFits, ReleaseFits, EnableFits, WaitTpduIdle,
      StaleFits, PowerFits, NoLostWakeup, WaitingTimeGuarded,
      Responding, ResetEmptiesQueue, ActivationComplete
<1>10. CASE SetPts
  <2>1. /\ pc = "setPts" /\ pc' = "respond" /\ pts' = nextPts
        /\ UNCHANGED <<rx, answer, atrVars, io, rb, epq, arg>>
    BY <1>10 DEF SetPts
  <2>2. /\ fsm'.state = fsm.state /\ fsm'.tpdu = fsm.tpdu /\ fsm'.stale = fsm.stale
        /\ fsm'.mask = fsm.mask /\ fsm'.wt = fsm.wt /\ (fsm.late => fsm'.late)
    BY <1>0, <1>10 DEF SetPts, FsmType
  <2>3. fsm.state \in {"WAIT_TPDU", "IN_PTS"}
    BY <2>1 DEF Exchange, SetPtsFits
  <2>4. UartMatchesState'
    <3>1. CASE nextPts = <<"RESP", "PTSS">>
      <4>1. fsm.state = "IN_PTS" /\ pts = <<"REQ", "PCK">>
        BY <2>1, <3>1 DEF Exchange, SetPtsFits
      <4> QED
        BY <2>1, <2>2, <3>1, <4>1
          DEF Control, UartMatchesState, MaskFits, ResponseStarts, LateSetPts, Off
    <3>2. CASE nextPts # <<"RESP", "PTSS">>
      <4>1. fsm.state = "IN_PTS" => nextPts[1] = pts[1]
        BY <2>1, <3>2 DEF Exchange, SetPtsFits
      <4> QED
        BY <2>1, <2>2, <2>3, <4>1
          DEF Control, UartMatchesState, MaskFits, ResponseStarts, LateSetPts, Off
    <3> QED  BY <3>1, <3>2
  <2> QED
    BY <2>1, <2>2, <2>3, <2>4 DEF Control, SetStateFits, ReleaseFits, EnableFits, WaitTpduIdle,
      StaleFits, PowerFits, NoLostWakeup, WaitingTimeGuarded,
      Responding, ResetEmptiesQueue, ActivationComplete
<1>11. CASE RespondPts
  <2>1. /\ pc = "respond" /\ UNCHANGED <<fsm, card, answer, atrVars, io, rb>>
        /\ \/ pts = <<"RESP", "PTSS">> /\ pc' = "enablePts" /\ arg' = arg
           \/ pts # <<"RESP", "PTSS">> /\ pc' = "setState" /\ arg' = "IN_PTS"
    BY <1>11 DEF RespondPts
  <2>2. fsm.state \in {"WAIT_TPDU", "IN_PTS"}
    BY <2>1 DEF Exchange, RespondFits
  <2>3. UartMatchesState'
    BY <2>1 DEF Control, UartMatchesState, MaskFits, ResponseStarts, LateSetPts
  <2> QED
    BY <2>1, <2>2, <2>3 DEF Control, SetStateFits, ReleaseFits, EnableFits, WaitTpduIdle,
      StaleFits, PowerFits, NoLostWakeup, WaitingTimeGuarded,
      Responding, ResetEmptiesQueue, ActivationComplete
<1>12. CASE EnableTxPts
  <2>1. /\ pc = "enablePts" /\ pc' = "drain"
        /\ fsm' = [UartEnable(fsm, TxMask) EXCEPT !.stale = (fsm.state = "WAIT_TPDU")]
        /\ UNCHANGED <<card, answer, atrVars, io, rb, epq, arg>>
    BY <1>12 DEF EnableTxPts
  <2>2. /\ fsm'.state = fsm.state /\ fsm'.tpdu = fsm.tpdu /\ fsm'.mask = TxMask
        /\ fsm'.wt = fsm.wt /\ (fsm'.stale <=> fsm.state = "WAIT_TPDU")
    BY <1>0, <2>1 DEF UartEnable, FsmType
  <2>3. /\ fsm.state \in {"WAIT_TPDU", "IN_PTS"}
        /\ fsm.state = "IN_PTS" => pts[1] = "RESP"
    BY <2>1 DEF Exchange, RespondFits
  <2>4. UartMatchesState'
    BY <2>1, <2>2, <2>3 DEF UartMatchesState, MaskFits, Off
  <2> QED
    BY <2>1, <2>2, <2>3, <2>4 DEF Control, SetStateFits, ReleaseFits, EnableFits, WaitTpduIdle,
      StaleFits, PowerFits, NoLostWakeup, WaitingTimeGuarded,
      Responding, ResetEmptiesQueue, ActivationComplete, Off, Inactive, Ready
<1>4. ASSUME TpduByte
      PROVE  /\ pc = "drain" /\ pc' = "setState" /\ arg' = "IN_TPDU"
             /\ fsm.state \in {"WAIT_TPDU", "IN_TPDU"}
             /\ fsm.state = "WAIT_TPDU" => fsm.tpdu = "WAIT_CLA"
             /\ UNCHANGED <<pts, nextPts, pts0, answer, atrVars, io>>
  BY <1>4 DEF TpduByte, NextByte, Control, WaitTpduIdle
<1>5. CASE RxHeaderByte
  <2> DEFINE t == NextHeaderState(fsm.tpdu)
  <2>1. TpduByte /\ fsm' = SetTpduState(fsm, t) /\ UNCHANGED <<p3, rx, epq>>
    BY <1>5 DEF RxHeaderByte
  <2>2. t \in HeaderStates \ {"WAIT_CLA"} /\ (fsm.tpdu = "WAIT_CLA" => t = "WAIT_INS")
    BY <1>5 DEF RxHeaderByte, HeaderStates, NextHeaderState
  <2>3. fsm.tpdu \in HeaderStates
    BY <1>5 DEF RxHeaderByte
  <2> HIDE DEF t
  <2>4. /\ fsm'.state = fsm.state /\ fsm'.tpdu = t
        /\ fsm'.mask = fsm.mask /\ fsm'.stale = fsm.stale /\ fsm'.late = fsm.late
    <3>1. t \in TpduState
      BY <2>2 DEF TpduState
    <3> QED  BY <1>0, <2>1, <2>2, <3>1, SetTpduStateFacts
  <2>5. UartMatchesState'
    BY <1>4, <2>1, <2>2, <2>3, <2>4 DEF Control, UartMatchesState, MaskFits, ResponseStarts, LateSetPts, HeaderStates, Off
  <2> QED
    BY <1>4, <2>1, <2>2, <2>4, <2>5 DEF Control, SetStateFits, ReleaseFits, EnableFits, WaitTpduIdle,
        StaleFits, PowerFits, NoLostWakeup, WaitingTimeGuarded,
        Responding, ResetEmptiesQueue, ActivationComplete, HeaderStates, Inactive, Off, Ready
<1>6. CASE RxP3
  <2>1. TpduByte /\ fsm.tpdu = "WAIT_P3" /\ rx' = NoRx /\ fsm' = SetTpduState(fsm, "WAIT_PB")
    BY <1>6 DEF RxP3
  <2>2. /\ fsm'.state = fsm.state /\ fsm'.tpdu = "WAIT_PB"
        /\ fsm'.mask = TxMask /\ fsm'.stale = FALSE /\ fsm'.late = FALSE /\ fsm'.wt = "run"
    <3>1. "WAIT_PB" \in TpduState /\ fsm.tpdu # "WAIT_PB"
      BY <2>1 DEF TpduState
    <3> QED  BY <1>0, <2>1, <3>1, SetTpduStateFacts
  <2> QED
    BY <1>4, <2>1, <2>2 DEF Control, SetStateFits, ReleaseFits, EnableFits, WaitTpduIdle,
        StaleFits, PowerFits, UartMatchesState, MaskFits, ResponseStarts, LateSetPts, NoLostWakeup, WaitingTimeGuarded,
        Responding, ResetEmptiesQueue, ActivationComplete, Inactive, Off, Ready, TxMask, TimerMask
<1>7. CASE RxBodyByte
  <2>1. TpduByte /\ fsm.tpdu = "WAIT_RX" /\ fsm' \in {fsm, SetTpduState(fsm, "WAIT_TX")}
    BY <1>7 DEF RxBodyByte
  <2>2. CASE fsm' = fsm
    <3>1. UartMatchesState'
      BY <1>4, <2>1, <2>2 DEF Control, UartMatchesState, MaskFits, ResponseStarts, LateSetPts
    <3> QED
      BY <1>4, <2>1, <2>2, <3>1 DEF Control, SetStateFits, ReleaseFits, EnableFits, WaitTpduIdle,
        StaleFits, PowerFits, NoLostWakeup, WaitingTimeGuarded,
        Responding, ResetEmptiesQueue, ActivationComplete, Inactive, Off
  <2>3. CASE fsm' = SetTpduState(fsm, "WAIT_TX")
    <3>1. /\ fsm'.state = fsm.state /\ fsm'.tpdu = "WAIT_TX"
          /\ fsm'.mask = TxMask /\ fsm'.stale = FALSE /\ fsm'.late = FALSE /\ fsm'.wt = "run"
      <4>1. "WAIT_TX" \in TpduState /\ fsm.tpdu # "WAIT_TX"
        BY <2>1 DEF TpduState
      <4> QED  BY <1>0, <2>1, <2>3, <4>1, SetTpduStateFacts
    <3> QED
      BY <1>4, <2>1, <3>1 DEF Control, SetStateFits, ReleaseFits, EnableFits, WaitTpduIdle,
        StaleFits, PowerFits, UartMatchesState, MaskFits, ResponseStarts, LateSetPts, NoLostWakeup, WaitingTimeGuarded,
        Responding, ResetEmptiesQueue, ActivationComplete, Inactive, Off, Ready, TxMask, TimerMask
  <2> QED  BY <2>1, <2>2, <2>3
<1>8. CASE RxUnexpectedByte
  <2>1. TpduByte /\ fsm.tpdu \in {"WAIT_PB", "WAIT_TX"} /\ UNCHANGED <<fsm, p3, rx, epq>>
    BY <1>8 DEF RxUnexpectedByte
  <2>2. UartMatchesState'
    BY <1>4, <2>1 DEF Control, UartMatchesState, MaskFits, ResponseStarts, LateSetPts
  <2> QED
    BY <1>4, <2>1, <2>2 DEF Control, SetStateFits, ReleaseFits, EnableFits, WaitTpduIdle,
        StaleFits, PowerFits, NoLostWakeup, WaitingTimeGuarded,
        Responding, ResetEmptiesQueue, ActivationComplete
<1>9. CASE SetNewState
  <2>1. /\ pc = "setState" /\ pc' = "drain" /\ fsm' = CardSetState(fsm, arg)
        /\ UNCHANGED <<card, answer, atrVars, io, rb, epq, arg>>
    BY <1>9 DEF SetNewState
  <2>2. CASE arg = "WAIT_TPDU" /\ fsm.state # "WAIT_TPDU"
    <3>1. /\ fsm'.state = "WAIT_TPDU" /\ fsm'.tpdu = "WAIT_CLA" /\ fsm'.mask = RxMask
          /\ fsm'.stale = FALSE /\ fsm'.late = FALSE
      BY <1>0, <2>1, <2>2, CardSetStateFacts, ZenonT(60) DEF State
    <3> QED
      BY <2>1, <2>2, <3>1 DEF Control, SetStateFits, ReleaseFits, EnableFits, WaitTpduIdle,
        StaleFits, PowerFits, UartMatchesState, MaskFits, ResponseStarts, LateSetPts, NoLostWakeup, WaitingTimeGuarded,
        Responding, ResetEmptiesQueue, ActivationComplete, Inactive, Off, Ready
  <2>3. CASE arg = "WAIT_TPDU" /\ fsm.state = "WAIT_TPDU"
    <3>1. fsm' = fsm
      BY <1>0, <2>1, <2>3, CardSetStateFacts, ZenonT(60) DEF State
    <3>2. UartMatchesState'
      BY <2>1, <3>1 DEF Control, UartMatchesState, MaskFits, ResponseStarts, LateSetPts
    <3> QED
      BY <2>1, <2>3, <3>1, <3>2 DEF Control, SetStateFits, ReleaseFits, EnableFits, WaitTpduIdle,
        StaleFits, PowerFits, NoLostWakeup, WaitingTimeGuarded,
        Responding, ResetEmptiesQueue, ActivationComplete
  <2>4. CASE arg \in {"IN_PTS", "IN_TPDU"}
    <3>1. /\ fsm'.state = arg /\ fsm'.mask = fsm.mask /\ fsm'.stale = fsm.stale /\ fsm'.late = fsm.late
          /\ fsm'.tpdu = fsm.tpdu /\ fsm'.wt = fsm.wt
      <4>1. arg \in State
        BY <2>4 DEF State
      <4> QED  BY <1>0, <2>1, <2>4, <4>1, CardSetStateFacts, ZenonT(60)
    <3>2. UartMatchesState'
      <4>1. CASE fsm.stale
        BY <3>1, <4>1 DEF UartMatchesState
      <4>2. CASE ~fsm.stale /\ arg = "IN_TPDU"
        BY <2>1, <3>1, <4>2 DEF Control, UartMatchesState, MaskFits, ResponseStarts, LateSetPts,
          SetStateFits, WaitTpduIdle, Off
      <4>3. CASE ~fsm.stale /\ arg = "IN_PTS"
        <5>1. fsm.state \in {"WAIT_TPDU", "IN_PTS"}
          BY <2>1, <4>3 DEF Control, SetStateFits
        <5>2. CASE fsm.state = "IN_PTS"
          BY <2>1, <3>1, <4>3, <5>2
            DEF Control, UartMatchesState, MaskFits, ResponseStarts, LateSetPts, Off
        <5>3. CASE fsm.state = "WAIT_TPDU"
          <6>1. fsm.mask = RxMask
            BY <4>3, <5>3 DEF Control, UartMatchesState, MaskFits, ResponseStarts, LateSetPts, Off
          <6>2. pts[1] = "RESP" => fsm.late
            BY <2>1, <4>3, <5>3 DEF Exchange, LateFits
          <6>3. pts[1] = "RESP" \/ pts[1] = "REQ"
            BY DEF TypeOK, PtsState
          <6> QED
            BY <2>1, <3>1, <4>3, <6>1, <6>2, <6>3 DEF UartMatchesState, MaskFits, LateSetPts, Off
        <5> QED  BY <5>1, <5>2, <5>3
      <4> QED  BY <2>4, <4>1, <4>2, <4>3
    <3> QED
      BY <2>1, <2>4, <3>1, <3>2 DEF Control, SetStateFits, ReleaseFits, EnableFits, WaitTpduIdle,
        StaleFits, PowerFits, NoLostWakeup, WaitingTimeGuarded,
        Responding, ResetEmptiesQueue, ActivationComplete, Inactive, Off, Ready
  <2> QED  BY <2>1, <2>2, <2>3, <2>4 DEF Control, SetStateFits
<1> QED
  BY <1>1, <1>2, <1>3, <1>5, <1>6, <1>7, <1>8, <1>9, <1>10, <1>11, <1>12 DEF DrainStep, PtsStep

\* A card that is off or about to start has the interrupts of its state, and no
\* late ENABLE_TX behind it.
Settled(f) == /\ f \in FsmType /\ f.stale = FALSE /\ f.late = FALSE
              /\ \/ f.state \in Off /\ f.mask = {}
                 \/ f.state = "WAIT_ATR" /\ f.mask = TimerMask

\* card_set_state keeps it so among these states ...
LEMMA SettledSet ==
  ASSUME NEW f, Settled(f), NEW s \in Off \cup {"WAIT_ATR"}
  PROVE  Settled(CardSetState(f, s)) /\ CardSetState(f, s).state = s
<1> DEFINE g == CardSetState(f, s)
<1>1. f \in FsmType /\ s \in State
  BY DEF Settled, Off, State
<1>2. g \in FsmType /\ g.state = s
  BY <1>1, CardSetStateType, CardSetStateFacts
<1>3. CASE f.state = s
  BY <1>1, <1>3, CardSetStateFacts
<1>4. CASE f.state # s /\ s \in Off
  <2>1. g.mask = {} /\ g.stale = FALSE /\ g.late = FALSE
    BY <1>1, <1>4, CardSetStateFacts
  <2> QED  BY <1>2, <1>4, <2>1 DEF Settled
<1>5. CASE f.state # s /\ s = "WAIT_ATR"
  <2>1. g.mask = TimerMask /\ g.stale = FALSE /\ g.late = FALSE
    BY <1>1, <1>5, CardSetStateFacts
  <2> QED  BY <1>2, <1>5, <2>1 DEF Settled
<1> QED  BY <1>3, <1>4, <1>5

\* ... and so does the end of the activation, which leaves the off states when
\* all the signals are there, and no other state.
LEMMA SettledActivation ==
  ASSUME NEW f, NEW p
  PROVE  LET g == EndActivation(f, p) IN
         /\ Settled(f) => Settled(g)
         /\ f.state \notin Off => g = f
         /\ ~p.vcc => g = f
         /\ p.vcc /\ p.clk /\ p.rst = FALSE => g.state \notin Off
<1> DEFINE g == EndActivation(f, p)
<1>1. ASSUME Settled(f) PROVE Settled(CardSetState(f, "WAIT_ATR"))
  BY <1>1, SettledSet
<1>2. f.state \in Off => CardSetState(f, "WAIT_ATR").state \notin Off
  BY DEF CardSetState, UpdateWt, UartEnable, Off
<1> QED  BY <1>1, <1>2 DEF EndActivation

\* A step of card_emu_io_statechg that only moves a card among the states in which
\* it is settled, or leaves it alone, keeps the control part.
LEMMA ControlActivation ==
  ASSUME TypeOK, Control, Exchange, Settled(fsm) => Settled(fsm'),
         ~Settled(fsm) => fsm' = fsm,
         pc \in {"vcc", "rst"}, pc' \in {"rst", "refill"}, UNCHANGED <<card, answer>>,
         PowerFits', ActivationComplete'
  PROVE  Control'
<1> USE DEF card, answer
<1>1. CASE Settled(fsm)
  <2>1. fsm.state \in Inactive /\ fsm'.state \in Off \cup {"WAIT_ATR"}
    BY <1>1 DEF Settled, Inactive
  <2>2. UartMatchesState'
    BY <1>1 DEF UartMatchesState, MaskFits, ResponseStarts, LateSetPts, Settled, Off
  <2> QED
    BY <1>1, <2>1, <2>2 DEF Settled, Control, SetStateFits, ReleaseFits, EnableFits, WaitTpduIdle,
        StaleFits, PowerFits, NoLostWakeup, WaitingTimeGuarded,
        Responding, ResetEmptiesQueue, ActivationComplete, Off, Ready, Inactive
<1>2. CASE fsm' = fsm
  <2>1. UartMatchesState'
    BY <1>2 DEF Control, UartMatchesState, MaskFits, ResponseStarts, LateSetPts
  <2> QED
    BY <1>2, <2>1 DEF Control, SetStateFits, ReleaseFits, EnableFits, WaitTpduIdle,
        StaleFits, PowerFits, NoLostWakeup, WaitingTimeGuarded,
        Responding, ResetEmptiesQueue, ActivationComplete
<1> QED  BY <1>1, <1>2

\* An inactive card is settled.
LEMMA ControlSettled ==
  ASSUME TypeOK, Control, Exchange, fsm.state \in Off \cup {"WAIT_ATR"}
  PROVE  Settled(fsm)
BY DEF TypeOK, FsmType, Control, Exchange, RespondFits, LateFits, UartMatchesState, MaskFits, ResponseStarts,
  LateSetPts, StaleFits, Settled, Off, Ready

\* The control part is kept by the steps that handle the reader's signals.
LEMMA ControlIo ==
  ASSUME TypeOK, Control, Exchange, IoStep
  PROVE  Control'
<1> USE DEF card, answer, atrVars, main
<1>0. fsm \in FsmType /\ txQ \in Seq(TxMsgType) /\ arg \in State
      /\ pins \in [vcc : BOOLEAN, clk : BOOLEAN, rst : BOOLEAN]
      /\ last \in [vcc : BOOLEAN, rst : BOOLEAN] /\ enabled \in BOOLEAN
      /\ line \in [vcc : BOOLEAN, rst : BOOLEAN]
  BY DEF TypeOK, FsmType
<1>1. CASE VccSame
  <2>1. pc = "vcc" /\ pc' = "rst" /\ UNCHANGED <<fsm, card, answer, atrVars, io, rb, epq, arg>>
    BY <1>1 DEF VccSame
  <2>2. PowerFits' /\ ActivationComplete'
    BY <2>1 DEF Control, PowerFits, ActivationComplete, io
  <2> QED  BY <2>1, <2>2, ControlActivation
<1>2. CASE RstSame
  <2>1. pc = "rst" /\ pc' = "refill" /\ UNCHANGED <<fsm, card, answer, atrVars, io, rb, epq, arg>>
    BY <1>2 DEF RstSame
  <2>2. PowerFits' /\ ActivationComplete'
    BY <2>1 DEF Control, PowerFits, ActivationComplete, io
  <2> QED  BY <2>1, <2>2, ControlActivation
<1>3. CASE VccOff \/ RstAsserted
  <2>1. /\ pc \in {"vcc", "rst"} /\ pc' = "release" /\ arg' \in {"WAIT_POWER", "WAIT_RST"}
        /\ fsm' = UpdateWt(fsm, FALSE) /\ tx' = NoMsg /\ rx' = NoRx
        /\ UNCHANGED <<pins, last, pts, txQ>>
    BY <1>3 DEF VccOff, RstAsserted, StartReset
  <2>2. /\ fsm'.state = fsm.state /\ fsm'.tpdu = fsm.tpdu /\ fsm'.stale = fsm.stale /\ fsm'.late = fsm.late
        /\ fsm'.mask = fsm.mask
    BY <1>0, <2>1 DEF UpdateWt, FsmType
  <2>3. UartMatchesState'
    BY <2>1, <2>2 DEF Control, UartMatchesState, MaskFits, ResponseStarts, LateSetPts
  <2> QED
    BY <2>1, <2>2, <2>3 DEF Control, SetStateFits, ReleaseFits, EnableFits, WaitTpduIdle,
        StaleFits, PowerFits, NoLostWakeup, WaitingTimeGuarded,
        Responding, ResetEmptiesQueue, ActivationComplete
<1>4. CASE VccOther
  <2> DEFINE v == Level.vcc
             on == [pins EXCEPT !.vcc = v]
             f1 == IF v /\ ~pins.vcc THEN CardSetState(fsm, "WAIT_CLK") ELSE fsm
             f2 == EndActivation(f1, on)
             f3 == IF v /\ ~pins.clk /\ f2.state = "WAIT_CLK"
                   THEN CardSetState(f2, "WAIT_RST") ELSE f2
  <2>1. /\ pc = "vcc" /\ pc' = "rst" /\ v # last.vcc /\ (v \/ ~pins.vcc)
        /\ pins' = [on EXCEPT !.clk = v] /\ fsm' = EndActivation(f3, pins')
        /\ last' = [last EXCEPT !.vcc = v]
        /\ UNCHANGED <<card, answer>>
    BY <1>4 DEF VccOther
  <2>2. v \in BOOLEAN
    BY <1>0 DEF Level
  <2> HIDE DEF v
  <2>3. v = TRUE /\ last.vcc = FALSE
    BY <1>0, <2>1, <2>2 DEF Control, ActivationComplete
  <2>4. /\ pins'.vcc = TRUE /\ pins'.clk = TRUE /\ pins'.rst = pins.rst
        /\ last'.vcc = TRUE
    BY <1>0, <2>1, <2>3
  <2>5. ASSUME Settled(fsm) PROVE Settled(fsm')
    <3>1. Settled(f1)
      <4>1. Settled(CardSetState(fsm, "WAIT_CLK"))
        BY <2>5, SettledSet DEF Off
      <4> QED  BY <2>5, <4>1
    <3> HIDE DEF f1
    <3>2. Settled(f2)
      BY <3>1, SettledActivation
    <3> HIDE DEF f2
    <3>3. Settled(f3)
      <4>1. Settled(CardSetState(f2, "WAIT_RST"))
        BY <3>2, SettledSet DEF Off
      <4> QED  BY <3>2, <4>1
    <3> HIDE DEF f3
    <3> QED  BY <2>1, <3>3, SettledActivation
  <2>6. ASSUME ~Settled(fsm) PROVE fsm' = fsm
    <3>1. fsm.state \notin Off /\ pins.vcc
      BY <2>6, ControlSettled DEF Control, PowerFits
    <3>2. f1 = fsm
      BY <3>1
    <3>3. f2 = fsm
      BY <3>1, <3>2, SettledActivation
    <3>4. f3 = fsm
      BY <3>1, <3>3 DEF Off
    <3> HIDE DEF f1, f2, f3
    <3> QED  BY <2>1, <3>1, <3>4, SettledActivation
  <2>7. PowerFits'
    BY <2>4 DEF PowerFits
  <2>8. ActivationComplete'
    <3> HIDE DEF f3
    <3>1. pins'.rst = FALSE => fsm'.state \notin Off
      BY <2>1, <2>4, SettledActivation
    <3> QED  BY <1>0, <2>4, <3>1 DEF ActivationComplete
  <2> QED
    BY <2>1, <2>5, <2>6, <2>7, <2>8, ControlActivation
<1>5. CASE RstOther
  <2> DEFINE r == Level.rst
             f1 == IF ~r /\ pins.rst /\ pins.vcc /\ pins.clk /\ fsm.state = "WAIT_RST"
                   THEN CardSetState(fsm, "WAIT_ATR") ELSE fsm
  <2>1. /\ pc = "rst" /\ pc' = "refill"
        /\ pins' = [pins EXCEPT !.rst = r] /\ fsm' = EndActivation(f1, pins')
        /\ last' = [last EXCEPT !.rst = r]
        /\ UNCHANGED <<card, answer>>
    BY <1>5 DEF RstOther
  <2>2. r \in BOOLEAN
    BY <1>0 DEF Level
  <2> HIDE DEF r
  <2>3. /\ pins'.vcc = pins.vcc /\ pins'.clk = pins.clk /\ pins'.rst = r
        /\ last'.vcc = last.vcc
    BY <1>0, <2>1, <2>2
  <2>4. ASSUME Settled(fsm) PROVE Settled(fsm')
    <3>1. Settled(f1)
      <4>1. Settled(CardSetState(fsm, "WAIT_ATR"))
        BY <2>4, SettledSet
      <4> QED  BY <2>4, <4>1
    <3> HIDE DEF f1
    <3> QED  BY <2>1, <3>1, SettledActivation
  <2>5. ASSUME ~Settled(fsm) PROVE fsm' = fsm
    <3>1. fsm.state \notin Off
      BY <2>5, ControlSettled
    <3>2. f1 = fsm
      BY <3>1 DEF Off
    <3> HIDE DEF f1
    <3> QED  BY <2>1, <3>1, <3>2, SettledActivation
  <2>6. PowerFits'
    <3>1. ASSUME ~pins.vcc PROVE fsm' = fsm
      <4>1. f1 = fsm
        BY <3>1
      <4> HIDE DEF f1
      <4> QED  BY <2>1, <2>3, <3>1, <4>1, SettledActivation
    <3> QED  BY <2>3, <3>1 DEF Control, PowerFits
  <2>7. ActivationComplete'
    <3> HIDE DEF f1
    <3>1. pins'.vcc /\ pins'.clk /\ pins'.rst = FALSE => fsm'.state \notin Off
      BY <2>1, SettledActivation
    <3> QED  BY <1>0, <2>2, <2>3, <3>1 DEF Control, ActivationComplete
  <2> QED
    BY <2>1, <2>4, <2>5, <2>6, <2>7, ControlActivation
<1>6. CASE ReleaseQueued
  <2>1. /\ pc = "release" /\ txQ # <<>> /\ txQ' = Tail(txQ)
        /\ UNCHANGED <<fsm, card, tx, pins, last, main>>
    BY <1>6 DEF ReleaseQueued, io
  <2>2. UartMatchesState'
    BY <2>1 DEF Control, UartMatchesState, MaskFits, ResponseStarts, LateSetPts
  <2> QED
    BY <2>1, <2>2 DEF Control, SetStateFits, ReleaseFits, EnableFits, WaitTpduIdle,
        StaleFits, PowerFits, NoLostWakeup, WaitingTimeGuarded,
        Responding, ResetEmptiesQueue, ActivationComplete
<1>7. CASE Released
  <2>1. /\ pc = "release" /\ txQ = <<>> /\ fsm' = CardSetState(fsm, arg)
        /\ pc' \in {"rst", "refill"}
        /\ arg = "WAIT_POWER" => pins'.vcc = FALSE /\ last'.vcc = FALSE
        /\ arg = "WAIT_RST" => /\ pins'.vcc = pins.vcc /\ pins'.clk = pins.clk
                               /\ pins'.rst = TRUE /\ last'.vcc = last.vcc
        /\ UNCHANGED <<card, answer>>
    BY <1>0, <1>7 DEF Released
  <2>2. arg \in {"WAIT_POWER", "WAIT_RST"} /\ rx = NoRx
    BY <2>1 DEF Control, ReleaseFits
  <2>3. fsm'.state = arg /\ fsm'.mask = {} /\ fsm'.stale = FALSE /\ fsm'.late = FALSE
    <3>1. CASE fsm.state = arg
      <4>1. fsm' = fsm
        BY <1>0, <2>1, <3>1, CardSetStateFacts
      <4> QED  BY <2>2, <3>1, <4>1, ControlSettled DEF Off, Settled
    <3>2. CASE fsm.state # arg
      BY <1>0, <2>1, <2>2, <3>2, CardSetStateFacts, ZenonT(60) DEF Off
    <3> QED  BY <3>1, <3>2
  <2> QED
    BY <2>1, <2>2, <2>3 DEF Control, SetStateFits, ReleaseFits, EnableFits, WaitTpduIdle,
        StaleFits, PowerFits, UartMatchesState, MaskFits, ResponseStarts, LateSetPts, NoLostWakeup, WaitingTimeGuarded,
        Responding, ResetEmptiesQueue, ActivationComplete, Off, Ready, Inactive
<1> QED
  BY <1>1, <1>2, <1>3, <1>4, <1>5, <1>6, <1>7 DEF IoStep

\* The control part is kept by the steps that refill the endpoints and run the
\* host's commands.
LEMMA ControlCommands ==
  ASSUME TypeOK, Control, Exchange,
         Refill \/ CommandStep \/ NewUartTx \/ EnableTx \/ SetAtrIdx \/ CmdsDone
  PROVE  Control'
<1> USE DEF card, answer, atrVars, main
<1>0. fsm \in FsmType /\ txQ \in Seq(TxMsgType)
  BY DEF TypeOK, FsmType
<1>1. CASE Refill \/ SetAtrIdx \/ CmdsDone \/ CmdSetAtr
  <2>1. /\ pc \in {"refill", "setIdx", "cmd"} /\ pc' \in {"cmd", "drain", "setIdx"}
        /\ UNCHANGED <<fsm, card, answer, pins, last, arg>>
    BY <1>1 DEF Refill, SetAtrIdx, CmdsDone, CmdSetAtr, Command, io
  <2>2. UartMatchesState'
    BY <2>1 DEF Control, UartMatchesState, MaskFits, ResponseStarts, LateSetPts
  <2> QED
    BY <2>1, <2>2 DEF Control, SetStateFits, ReleaseFits, EnableFits, WaitTpduIdle,
        StaleFits, PowerFits, NoLostWakeup, WaitingTimeGuarded,
        Responding, ResetEmptiesQueue, ActivationComplete
<1>2. CASE CmdTxDataDropped \/ CmdSimSelect \/ CmdStatus \/ CmdConfig
  BY <1>2, ControlStutter DEF CmdTxDataDropped, CmdSimSelect, CmdStatus, CmdConfig, vars, io
<1>3. CASE CmdTxData
  <2>1. /\ pc = "cmd" /\ pc' = "newTx" /\ fsm.state \in Ready
        /\ UNCHANGED <<fsm, card, tx, pins, last, arg>>
    BY <1>3 DEF CmdTxData, Command, io
  <2>2. UartMatchesState'
    BY <2>1 DEF Control, UartMatchesState, MaskFits, ResponseStarts, LateSetPts
  <2> QED
    BY <2>1, <2>2 DEF Control, SetStateFits, ReleaseFits, EnableFits, WaitTpduIdle,
        StaleFits, PowerFits, NoLostWakeup, WaitingTimeGuarded,
        Responding, ResetEmptiesQueue, ActivationComplete, Inactive, Off, Ready
<1>4. CASE NewUartTx
  <2>1. /\ pc = "newTx" /\ pc' = IF Responding THEN "enable" ELSE "cmd"
        /\ UNCHANGED <<fsm, card, answer, pins, last, arg>>
    BY <1>4 DEF NewUartTx, io, Responding
  <2>2. UartMatchesState'
    BY <2>1 DEF Control, UartMatchesState, MaskFits, ResponseStarts, LateSetPts
  <2> QED
    BY <2>1, <2>2 DEF Control, SetStateFits, ReleaseFits, EnableFits, WaitTpduIdle,
        StaleFits, PowerFits, NoLostWakeup, WaitingTimeGuarded,
        Responding, ResetEmptiesQueue, ActivationComplete
<1>5. CASE EnableTx
  <2>1. /\ pc = "enable" /\ pc' = "cmd" /\ UNCHANGED <<card, answer, pins, last, arg>>
        /\ fsm' = [UartEnable(fsm, TxMask) EXCEPT !.stale = ~Responding]
    BY <1>5 DEF EnableTx, io, Responding
  <2>2. /\ fsm'.state = fsm.state /\ fsm'.tpdu = fsm.tpdu /\ fsm'.mask = TxMask
        /\ fsm'.wt = fsm.wt /\ (fsm'.stale <=> ~Responding)
    BY <1>0, <2>1 DEF UartEnable, FsmType, Responding
  <2>3. fsm.state \in {"WAIT_TPDU", "IN_TPDU"}
    BY <2>1 DEF Control, EnableFits
  <2>4. UartMatchesState'
    BY <2>2, <2>3 DEF UartMatchesState, MaskFits, ResponseStarts, LateSetPts, Responding, Off, TxMask, TimerMask
  <2> QED
    BY <2>1, <2>2, <2>3, <2>4 DEF Control, SetStateFits, ReleaseFits, EnableFits, WaitTpduIdle,
        StaleFits, PowerFits, NoLostWakeup, WaitingTimeGuarded,
        Responding, ResetEmptiesQueue, ActivationComplete, Inactive, Off, Ready, TxMask
<1> QED
  BY <1>1, <1>2, <1>3, <1>4, <1>5 DEF CommandStep

-----------------------------------------------------------------------------
(* The PTS exchange.                                                        *)

\* A step that leaves the FSM's state, the interrupts and the sub-states alone keeps
\* the exchange as it is, while the main loop stays where it is ...
LEMMA ExchangeSame ==
  ASSUME Exchange, UNCHANGED <<pts, nextPts, pc, arg>>,
         fsm'.state = fsm.state, fsm'.stale = fsm.stale, fsm'.late = fsm.late,
         fsm'.late => fsm'.mask = fsm.mask
  PROVE  Exchange'
<1>1. SetPtsFits'
  BY DEF Exchange, SetPtsFits
<1>2. RespondFits'
  BY DEF Exchange, RespondFits
<1>3. LateFits'
  BY DEF Exchange, LateFits
<1> QED  BY <1>1, <1>2, <1>3 DEF Exchange

\* ... or is far from the exchange before and after the step.
LEMMA ExchangeFar ==
  ASSUME Exchange, UNCHANGED <<pts, nextPts>>,
         pc \notin {"respond", "setState"},
         pc' \notin {"setPts", "respond", "enablePts"},
         pc' = "setState" => arg' # "IN_PTS",
         \/ fsm'.late = FALSE
         \/ /\ fsm'.state = fsm.state /\ fsm'.stale = fsm.stale /\ fsm'.late = fsm.late
            /\ fsm'.mask = fsm.mask
  PROVE  Exchange'
<1>1. SetPtsFits' /\ RespondFits'
  BY DEF SetPtsFits, RespondFits
<1>2. LateFits'
  BY DEF Exchange, LateFits
<1> QED  BY <1>1, <1>2 DEF Exchange

\* An interrupt in another state cannot meet the main loop in an exchange.
LEMMA ExchangeAway ==
  ASSUME Exchange, SetStateFits, UNCHANGED <<pts, nextPts, pc, arg>>,
         fsm.state \notin {"WAIT_TPDU", "IN_PTS"}, fsm'.late = FALSE
  PROVE  Exchange'
<1>1. pc \notin {"setPts", "respond", "enablePts"} /\ (pc = "setState" => arg # "IN_PTS")
  BY DEF Exchange, SetPtsFits, RespondFits, SetStateFits
<1>2. SetPtsFits' /\ RespondFits'
  BY <1>1 DEF SetPtsFits, RespondFits
<1>3. LateFits'
  BY <1>1 DEF LateFits
<1> QED  BY <1>2, <1>3 DEF Exchange

\* The interrupts keep the exchange.
LEMMA ExchangeIrq ==
  ASSUME TypeOK, Control, Exchange, LineChange \/ UsartIrq
  PROVE  Exchange'
<1> USE DEF card, answer, atrVars, io, main
<1>0. fsm \in FsmType /\ SetStateFits
  BY DEF TypeOK, FsmType, Control
<1>1. CASE LineChange \/ IrqRx \/ IrqTxAtrByte
  BY <1>1, ExchangeSame DEF LineChange, IrqRx, IrqTxAtrByte
<1>2. CASE IrqTxNothing \/ IrqHalfExpired
  <2>1. /\ UNCHANGED <<pts, nextPts, pc, arg>>
        /\ fsm'.state = fsm.state /\ fsm'.stale = fsm.stale /\ fsm'.late = fsm.late
        /\ fsm'.mask = fsm.mask \/ fsm'.mask = fsm.mask \ {"TXRDY"}
    BY <1>0, <1>2 DEF IrqTxNothing, IrqHalfExpired, DisableTxrdy, ResetWt, UpdateWt, FsmType
  <2>2. fsm.late => fsm.mask = {"RXRDY"}
    BY DEF Exchange, LateFits, RxMask
  <2> QED  BY <2>1, <2>2, ExchangeSame
<1>3. CASE IrqTxAtrEnd
  <2> DEFINE g == CardSetState(fsm, "WAIT_TPDU")
  <2>1. g \in FsmType /\ g.late = FALSE
    BY <1>0, <1>3, CardSetStateType, CardSetStateFacts, ZenonT(60) DEF IrqTxAtrEnd, State
  <2>2. fsm' = DisableTxrdy(g) /\ fsm.state = "IN_ATR" /\ UNCHANGED <<card, main>>
    BY <1>3 DEF IrqTxAtrEnd
  <2> HIDE DEF g
  <2>3. fsm'.late = FALSE
    BY <2>1, <2>2 DEF DisableTxrdy, FsmType
  <2> QED  BY <1>0, <2>2, <2>3, ExchangeAway
<1>4. CASE IrqTxTpdu
  <2> DEFINE r == ResetWt(fsm)
             m == IF tx # NoMsg THEN tx ELSE Head(txQ)
  <2>1. fsm.state = "IN_TPDU" /\ fsm' = AfterTxByte(r, m) /\ UNCHANGED <<card, main>>
    BY <1>4 DEF IrqTxTpdu
  <2>2. r \in FsmType /\ r.state = "IN_TPDU" /\ r.late = fsm.late
    BY <1>0, <2>1 DEF ResetWt, UpdateWt, FsmType, WtPhase
  <2>3. fsm.late = FALSE
    BY <1>0, <2>1 DEF Exchange, LateFits, FsmType
  <2> HIDE DEF r, m
  <2>4. fsm'.late = FALSE
    BY <2>1, <2>2, <2>3, AfterTxByteFacts
  <2> QED  BY <1>0, <2>1, <2>4, ExchangeAway
<1>5. CASE IrqExpired
  <2> DEFINE f == [fsm EXCEPT !.wt = "done"]
  <2>1. /\ f \in FsmType /\ f.state = fsm.state /\ f.stale = fsm.stale /\ f.late = fsm.late
        /\ f.mask = fsm.mask
    BY <1>0 DEF FsmType, WtPhase
  <2>2. UNCHANGED <<card, main>>
    BY <1>5 DEF IrqExpired
  <2>3. CASE fsm.state = "WAIT_ATR"
    <3>1. fsm' = CardSetState(f, "IN_ATR")
      BY <1>5, <2>1, <2>3 DEF IrqExpired
    <3>2. fsm'.late = FALSE
      <4> HIDE DEF f
      <4> QED  BY <2>1, <2>3, <3>1, CardSetStateFacts DEF State
    <3> QED  BY <1>0, <2>2, <2>3, <3>2, ExchangeAway
  <2>4. CASE fsm.state # "WAIT_ATR"
    <3>1. fsm' = f
      BY <1>5, <2>1, <2>4 DEF IrqExpired
    <3> HIDE DEF f
    <3> QED  BY <2>1, <2>2, <3>1, ExchangeSame
  <2> QED  BY <2>3, <2>4
<1>6. CASE IrqTxPts
  <2>1. /\ fsm.state = "IN_PTS" /\ "TXRDY" \in fsm.mask
        /\ UNCHANGED <<nextPts, pc, arg>>
    BY <1>6 DEF IrqTxPts
  <2>2. fsm.late = FALSE
    BY <1>0, <2>1 DEF Exchange, LateFits, RxMask, FsmType
  <2>3. CASE pts = <<"RESP", "PCK">>
    <3>1. /\ fsm'.state = "WAIT_TPDU" /\ fsm'.stale = FALSE /\ fsm'.late = FALSE
      <4>1. fsm' = CardSetState(fsm, "WAIT_TPDU")
        BY <1>6, <2>3 DEF IrqTxPts
      <4> QED  BY <1>0, <2>1, <4>1, CardSetStateFacts, ZenonT(60) DEF State
    <3>2. pts' = <<"REQ", "PTSS">>
      BY <1>6, <2>3 DEF IrqTxPts
    <3>3. SetPtsFits'
      BY <2>1, <2>3, <3>1, <3>2 DEF Exchange, SetPtsFits
    <3>4. RespondFits' /\ LateFits'
      BY <2>1, <3>1, <3>2 DEF RespondFits, LateFits
    <3> QED  BY <3>3, <3>4 DEF Exchange
  <2>4. CASE pts[1] = "RESP" /\ pts # <<"RESP", "PCK">>
    <3>1. pts[2] # "PCK"
      BY <2>4 DEF TypeOK, PtsState
    <3>2. fsm' = fsm /\ pts' = NextPtsState(pts, pts0)
      BY <1>6, <2>4, <3>1 DEF IrqTxPts
    <3>3. pts'[1] = "RESP"
      BY <2>4, <3>1, <3>2 DEF NextPtsState, TypeOK, PtsState, PtsField
    <3>4. SetPtsFits'
      BY <2>1, <2>4, <3>2, <3>3 DEF Exchange, SetPtsFits
    <3>5. RespondFits' /\ LateFits'
      BY <2>1, <2>2, <2>4, <3>2, <3>3 DEF Exchange, RespondFits, LateFits
    <3> QED  BY <3>4, <3>5 DEF Exchange
  <2>5. CASE pts[1] = "REQ"
    <3>1. fsm' = DisableTxrdy(fsm) /\ pts' = pts
      BY <1>6, <2>5 DEF IrqTxPts, TypeOK, PtsState
    <3>2. fsm'.state = fsm.state /\ fsm'.stale = fsm.stale /\ fsm'.late = fsm.late
      BY <1>0, <3>1 DEF DisableTxrdy, FsmType
    <3> QED  BY <2>1, <2>2, <3>1, <3>2, ExchangeSame
  <2> QED  BY <2>3, <2>4, <2>5 DEF TypeOK, PtsState
<1> QED
  BY <1>1, <1>2, <1>3, <1>4, <1>5, <1>6 DEF UsartIrq

\* The exchange is kept by the steps that handle a byte from the reader.
LEMMA ExchangeDrain ==
  ASSUME TypeOK, Control, Exchange, DrainStep
  PROVE  Exchange'
<1> USE DEF card, answer, atrVars, io, main
<1>0. fsm \in FsmType /\ pts \in PtsState /\ nextPts \in PtsState
  BY DEF TypeOK, FsmType
<1>1. CASE Drained
  BY <1>1, ExchangeFar DEF Drained
<1>2. CASE IgnoreByte
  BY <1>2, ExchangeSame DEF IgnoreByte, NextByte
<1>3. CASE RxPtsByte
  <2> DEFINE p == IF fsm.state = "WAIT_TPDU" THEN PtsStart ELSE pts
  <2>1. /\ pc = "drain" /\ fsm.state \in {"WAIT_TPDU", "IN_PTS"} /\ fsm' = fsm
        /\ p \in PtsState
    BY <1>0, <1>3 DEF RxPtsByte, NextByte, PtsStart, PtsState, PtsField
  <2>2. CASE pts' = p /\ nextPts' = NextPtsState(p, pts0') /\ pc' = "setPts" /\ arg' = arg
    <3>1. fsm.late => fsm.state = "IN_PTS"
      BY <2>1 DEF Exchange, LateFits
    <3>2. fsm.state = "WAIT_TPDU" => nextPts' = <<"REQ", "PTS0">>
      BY <2>2 DEF NextPtsState, PtsStart
    <3>3. fsm.state = "IN_PTS" => pts' = pts /\ nextPts' = NextPtsState(pts, pts0')
      BY <2>2
    <3>4. CASE pts = <<"REQ", "PCK">>
      <4>1. fsm.state = "IN_PTS" => nextPts' = <<"RESP", "PTSS">>
        BY <3>3, <3>4 DEF NextPtsState
      <4> QED
        BY <2>1, <2>2, <3>1, <3>2, <3>3, <3>4, <4>1
          DEF Exchange, SetPtsFits, RespondFits, LateFits
    <3>5. CASE pts # <<"REQ", "PCK">>
      <4>1. NextPtsState(pts, pts0')[1] = pts[1] /\ NextPtsState(pts, pts0') # <<"RESP", "PTSS">>
        BY <1>0, <3>5 DEF NextPtsState, PtsState, PtsField
      <4>2. SetPtsFits'
        BY <2>1, <2>2, <3>2, <3>3, <4>1 DEF SetPtsFits
      <4>3. RespondFits' /\ LateFits'
        BY <2>1, <2>2, <3>1, <3>3 DEF Exchange, RespondFits, LateFits
      <4> QED  BY <4>2, <4>3 DEF Exchange
    <3> QED  BY <3>4, <3>5
  <2>3. CASE p = <<"REQ", "PCK">> /\ pc' = "setState" /\ arg' = "WAIT_TPDU"
    <3>1. fsm.state = "IN_PTS" /\ pts[1] = "REQ"
      BY <2>1, <2>3 DEF PtsStart
    <3>2. fsm.late = FALSE
      BY <1>0, <3>1 DEF Exchange, LateFits, FsmType
    <3> QED
      BY <2>1, <2>3, <3>1, <3>2 DEF Exchange, SetPtsFits, RespondFits, LateFits
  <2> QED  BY <1>3, <2>2, <2>3 DEF RxPtsByte
<1>4. CASE SetPts
  <2>1. /\ pc = "setPts" /\ pc' = "respond" /\ pts' = nextPts
        /\ fsm' = [fsm EXCEPT !.late = @ \/ (fsm.state = "WAIT_TPDU" /\ nextPts[1] = "RESP")]
    BY <1>4 DEF SetPts
  <2>2. /\ fsm'.state = fsm.state /\ fsm'.stale = fsm.stale /\ fsm'.mask = fsm.mask
        /\ fsm'.late <=> fsm.late \/ (fsm.state = "WAIT_TPDU" /\ nextPts[1] = "RESP")
    BY <1>0, <2>1 DEF FsmType
  <2>3. SetPtsFits /\ LateFits /\ fsm.state \in {"WAIT_TPDU", "IN_PTS"}
    BY <2>1 DEF Exchange, SetPtsFits
  <2>4. fsm.late => fsm.state = "IN_PTS"
    BY <2>1, <2>3 DEF LateFits
  <2>5. SetPtsFits' /\ RespondFits'
    BY <2>1, <2>2, <2>3 DEF SetPtsFits, RespondFits
  <2>6. CASE fsm.state = "WAIT_TPDU"
    <3>1. nextPts[1] = "RESP" => fsm.mask = RxMask /\ ~fsm.stale /\ nextPts # <<"RESP", "PTSS">>
      <4>1. nextPts[1] = "RESP" => ~fsm.stale /\ nextPts # <<"RESP", "PTSS">>
        BY <2>1, <2>3, <2>6 DEF SetPtsFits
      <4>2. fsm.stale \/ fsm.mask = RxMask
        BY <2>1, <2>6 DEF Control, UartMatchesState, MaskFits, ResponseStarts, LateSetPts, Off
      <4> QED  BY <4>1, <4>2
    <3> QED  BY <2>1, <2>2, <2>4, <2>5, <2>6, <3>1 DEF Exchange, LateFits
  <2>7. CASE fsm.state = "IN_PTS"
    <3>1. fsm.late => nextPts[1] = "RESP" /\ nextPts # <<"RESP", "PTSS">>
      BY <2>1, <2>3, <2>7 DEF SetPtsFits, LateFits
    <3> QED  BY <2>1, <2>2, <2>3, <2>5, <2>7, <3>1 DEF Exchange, LateFits
  <2> QED  BY <2>3, <2>6, <2>7
<1>5. CASE RespondPts
  <2>1. /\ pc = "respond" /\ UNCHANGED <<fsm, pts, nextPts>>
        /\ \/ pts = <<"RESP", "PTSS">> /\ pc' = "enablePts" /\ arg' = arg
           \/ pts # <<"RESP", "PTSS">> /\ pc' = "setState" /\ arg' = "IN_PTS"
    BY <1>5 DEF RespondPts
  <2>2. SetPtsFits' /\ RespondFits'
    BY <2>1 DEF Exchange, SetPtsFits, RespondFits
  <2>3. LateFits'
    BY <2>1 DEF Exchange, LateFits
  <2> QED  BY <2>2, <2>3 DEF Exchange
<1>6. CASE EnableTxPts
  <2>1. /\ pc = "enablePts" /\ pc' = "drain" /\ UNCHANGED card
        /\ fsm' = [UartEnable(fsm, TxMask) EXCEPT !.stale = (fsm.state = "WAIT_TPDU")]
    BY <1>6 DEF EnableTxPts
  <2>2. fsm'.late = FALSE
    BY <1>0, <2>1 DEF UartEnable, FsmType
  <2> QED  BY <2>1, <2>2, ExchangeFar
<1>7. ASSUME TpduByte
      PROVE  /\ pc = "drain" /\ pc' = "setState" /\ arg' = "IN_TPDU"
             /\ UNCHANGED <<pts, nextPts>> /\ fsm.late = FALSE
  BY <1>0, <1>7 DEF TpduByte, NextByte, Exchange, LateFits, FsmType
<1>8. CASE RxHeaderByte \/ RxP3 \/ RxBodyByte \/ RxUnexpectedByte
  <2>1. /\ TpduByte
        /\ fsm' \in {fsm} \cup {SetTpduState(fsm, t) : t \in TpduState}
    <3>1. fsm.tpdu \in HeaderStates \ {"WAIT_P3"} => NextHeaderState(fsm.tpdu) \in TpduState
      BY DEF HeaderStates, NextHeaderState, TpduState
    <3>2. "WAIT_PB" \in TpduState /\ "WAIT_TX" \in TpduState
      BY DEF TpduState
    <3> QED  BY <1>8, <3>1, <3>2 DEF RxHeaderByte, RxP3, RxBodyByte, RxUnexpectedByte
  <2>2. \A t \in TpduState : SetTpduState(fsm, t).late \in {fsm.late, FALSE}
    BY <1>0, ZenonT(60) DEF SetTpduState, FsmType, UpdateWt, UartEnable, TpduState, HeaderStates
  <2>3. fsm'.late = FALSE
    BY <1>7, <2>1, <2>2
  <2> QED  BY <1>7, <2>1, <2>3, ExchangeFar
<1>9. CASE SetNewState
  <2>1. /\ pc = "setState" /\ pc' = "drain" /\ fsm' = CardSetState(fsm, arg)
        /\ UNCHANGED <<pts, nextPts, arg>>
    BY <1>9 DEF SetNewState
  <2>2. SetPtsFits' /\ RespondFits'
    BY <2>1 DEF SetPtsFits, RespondFits
  <2>3. fsm.late => fsm.state = "IN_PTS" \/ arg = "IN_PTS"
    BY <2>1 DEF Exchange, LateFits
  <2>4. CASE arg = "IN_PTS" \/ (arg = "IN_TPDU" /\ fsm.late = FALSE)
    <3>1. /\ fsm'.state = arg /\ fsm'.mask = fsm.mask /\ fsm'.stale = fsm.stale
          /\ fsm'.late = fsm.late
      <4>1. arg \in State /\ arg \in {"IN_PTS", "IN_TPDU"}
        BY <2>4 DEF State
      <4> QED  BY <1>0, <2>1, <4>1, CardSetStateFacts
    <3> QED  BY <2>1, <2>2, <2>4, <3>1 DEF Exchange, LateFits
  <2>5. CASE arg = "WAIT_TPDU"
    <3>1. fsm'.late = FALSE
      <4>1. CASE fsm.state = "WAIT_TPDU"
        <5>1. fsm' = fsm /\ fsm.late = FALSE
          BY <1>0, <2>1, <2>3, <2>5, <4>1, CardSetStateFacts DEF State, FsmType
        <5> QED  BY <5>1
      <4>2. CASE fsm.state # "WAIT_TPDU"
        BY <1>0, <2>1, <2>5, <4>2, CardSetStateFacts, ZenonT(60) DEF State
      <4> QED  BY <4>1, <4>2
    <3> QED  BY <2>1, <2>2, <3>1 DEF Exchange, LateFits
  <2>6. arg = "IN_TPDU" => fsm.late = FALSE
    BY <1>0, <2>1, <2>3 DEF Control, SetStateFits, FsmType
  <2> QED  BY <2>1, <2>4, <2>5, <2>6 DEF Control, SetStateFits
<1> QED
  BY <1>1, <1>2, <1>3, <1>4, <1>5, <1>6, <1>8, <1>9 DEF DrainStep, PtsStep

\* card_set_state to an off state, or to the wait before the ATR, ends a late
\* set_pts_state, or there is nothing to do.
Ends(f, g) == g \in FsmType /\ (g.late = FALSE \/ g = f)

LEMMA EndsSet ==
  ASSUME NEW f, NEW g, Ends(f, g), NEW s \in Off \cup {"WAIT_ATR"}
  PROVE  Ends(f, CardSetState(g, s))
<1>1. g \in FsmType /\ s \in State
  BY DEF Ends, Off, State
<1>2. CardSetState(g, s) \in FsmType
  BY <1>1, CardSetStateType
<1>3. CASE g.state = s
  <2>1. CardSetState(g, s) = g
    BY <1>1, <1>3, CardSetStateFacts
  <2> QED  BY <2>1
<1>4. CASE g.state # s
  <2>1. CardSetState(g, s).late = FALSE
    BY <1>1, <1>4, CardSetStateFacts
  <2> QED  BY <1>2, <2>1 DEF Ends
<1> QED  BY <1>3, <1>4

\* A change of VCC or RST in the main loop ends a late set_pts_state, or does nothing.
LEMMA LateOther ==
  ASSUME fsm \in FsmType, VccOther \/ RstOther
  PROVE  fsm'.late = FALSE \/ fsm' = fsm
<1>0. Ends(fsm, fsm)
  BY DEF Ends
<1>1. \A g, p : Ends(fsm, g) => Ends(fsm, EndActivation(g, p))
  BY EndsSet DEF EndActivation
<1>2. CASE VccOther
  <2> DEFINE v == Level.vcc
             on == [pins EXCEPT !.vcc = v]
             f1 == IF v /\ ~pins.vcc THEN CardSetState(fsm, "WAIT_CLK") ELSE fsm
             f2 == EndActivation(f1, on)
             f3 == IF v /\ ~pins.clk /\ f2.state = "WAIT_CLK"
                   THEN CardSetState(f2, "WAIT_RST") ELSE f2
  <2>1. fsm' = EndActivation(f3, pins')
    BY <1>2 DEF VccOther
  <2>2. Ends(fsm, f1)
    BY <1>0, EndsSet DEF Off
  <2> HIDE DEF f1
  <2>3. Ends(fsm, f2)
    BY <1>1, <2>2
  <2> HIDE DEF f2
  <2>4. Ends(fsm, f3)
    BY <2>3, EndsSet DEF Off
  <2> HIDE DEF f3
  <2>5. Ends(fsm, fsm')
    BY <1>1, <2>1, <2>4
  <2> QED  BY <2>5 DEF Ends
<1>3. CASE RstOther
  <2> DEFINE r == Level.rst
             f1 == IF ~r /\ pins.rst /\ pins.vcc /\ pins.clk /\ fsm.state = "WAIT_RST"
                   THEN CardSetState(fsm, "WAIT_ATR") ELSE fsm
  <2>1. fsm' = EndActivation(f1, pins')
    BY <1>3 DEF RstOther
  <2>2. Ends(fsm, f1)
    BY <1>0, EndsSet
  <2> HIDE DEF f1
  <2>3. Ends(fsm, fsm')
    BY <1>1, <2>1, <2>2
  <2> QED  BY <2>3 DEF Ends
<1> QED  BY <1>2, <1>3

\* The exchange is kept by the rest of the main loop.
LEMMA ExchangeMain ==
  ASSUME TypeOK, Control, Exchange,
         IoStep \/ Refill \/ CommandStep \/ NewUartTx \/ EnableTx \/ SetAtrIdx \/ CmdsDone
  PROVE  Exchange'
<1> USE DEF card, answer, atrVars, main
<1>0. fsm \in FsmType /\ arg \in State
  BY DEF TypeOK, FsmType
<1>1. CASE \/ VccSame \/ RstSame \/ ReleaseQueued \/ Refill \/ CommandStep \/ NewUartTx
           \/ SetAtrIdx \/ CmdsDone
  <2>1. CASE UNCHANGED vars
    BY <2>1, ExchangeSame DEF vars
  <2>2. CASE ~UNCHANGED vars
    <3>1. /\ fsm' = fsm /\ UNCHANGED <<pts, nextPts>>
          /\ pc \in {"vcc", "rst", "release", "refill", "cmd", "newTx", "setIdx"}
          /\ pc' \in {"drain", "vcc", "rst", "release", "refill", "cmd", "newTx", "setIdx", "enable"}
      BY <1>1, <2>2 DEF VccSame, RstSame, ReleaseQueued, Refill, CommandStep, CmdTxData,
        CmdTxDataDropped, CmdSetAtr, CmdSimSelect, CmdStatus, CmdConfig, NewUartTx, SetAtrIdx,
        CmdsDone, Command
    <3> QED  BY <3>1, ExchangeFar
  <2> QED  BY <2>1, <2>2
<1>2. CASE VccOff \/ RstAsserted \/ EnableTx
  <2>1. /\ UNCHANGED <<pts, nextPts>>
        /\ pc \in {"vcc", "rst", "enable"} /\ pc' \in {"release", "cmd"}
        /\ \/ fsm' = UpdateWt(fsm, FALSE)
           \/ fsm' = [UartEnable(fsm, TxMask) EXCEPT !.stale =
                        ~(fsm.state = "IN_TPDU" /\ fsm.tpdu \in {"WAIT_TX", "WAIT_PB"})]
    BY <1>2 DEF VccOff, RstAsserted, EnableTx, StartReset
  <2>2. \/ fsm'.late = FALSE
        \/ /\ fsm'.state = fsm.state /\ fsm'.stale = fsm.stale /\ fsm'.late = fsm.late
           /\ fsm'.mask = fsm.mask
    BY <1>0, <2>1 DEF UpdateWt, UartEnable, FsmType
  <2> QED  BY <2>1, <2>2, ExchangeFar
<1>3. CASE VccOther \/ RstOther
  <2>1. /\ UNCHANGED <<pts, nextPts>>
        /\ pc \in {"vcc", "rst"} /\ pc' \in {"rst", "refill"}
    BY <1>3 DEF VccOther, RstOther
  <2>2. fsm'.late = FALSE \/ fsm' = fsm
    BY <1>0, <1>3, LateOther
  <2> QED  BY <2>1, <2>2, ExchangeFar
<1>4. CASE Released
  <2>1. /\ UNCHANGED <<pts, nextPts>> /\ fsm' = CardSetState(fsm, arg)
        /\ pc = "release" /\ pc' \in {"rst", "refill"}
    BY <1>4 DEF Released
  <2>2. arg \in Off
    BY <2>1 DEF Control, ReleaseFits, Off
  <2>3. fsm'.late = FALSE \/ fsm' = fsm
    BY <1>0, <2>1, <2>2, CardSetStateFacts
  <2> QED  BY <2>1, <2>3, ExchangeFar
<1> QED
  BY <1>1, <1>2, <1>3, <1>4 DEF IoStep

-----------------------------------------------------------------------------
(* The bytes of the ATR.                                                    *)

\* Only the timer starts an ATR, and only the interrupt that finds it complete
\* goes from there to waiting for a command.
LEMMA AtrMoves ==
  ASSUME TypeOK, Control, Exchange, Next
  PROVE  \/ IrqExpired \/ IrqTxAtrEnd
         \/ /\ fsm'.state = "IN_ATR" => fsm.state = "IN_ATR"
            /\ fsm.state = "IN_ATR" => fsm'.state # "WAIT_TPDU"
<1> DEFINE Quiet == /\ fsm'.state = "IN_ATR" => fsm.state = "IN_ATR"
                    /\ fsm.state = "IN_ATR" => fsm'.state # "WAIT_TPDU"
<1>0. fsm \in FsmType /\ arg \in State
  BY DEF TypeOK, FsmType
<1>1. CASE \/ LineChange \/ IrqRx \/ IrqTxAtrByte \/ Drained \/ IgnoreByte \/ RxUnexpectedByte
           \/ VccSame \/ RstSame \/ ReleaseQueued \/ Refill \/ CommandStep \/ NewUartTx
           \/ SetAtrIdx \/ CmdsDone \/ RespondPts
  <2>1. fsm' = fsm
    BY <1>1 DEF RespondPts, LineChange, IrqRx, IrqTxAtrByte, Drained, IgnoreByte, RxUnexpectedByte,
      VccSame, RstSame, ReleaseQueued, Refill, CommandStep, CmdTxData, CmdTxDataDropped,
      CmdSetAtr, CmdSimSelect, CmdStatus, CmdConfig, NewUartTx, SetAtrIdx, CmdsDone, vars
  <2> QED  BY <2>1
<1>2. CASE \/ IrqTxNothing \/ IrqHalfExpired \/ VccOff \/ RstAsserted \/ EnableTx
           \/ SetPts \/ EnableTxPts
  <2>1. fsm'.state = fsm.state
    BY <1>0, <1>2 DEF IrqTxNothing, IrqHalfExpired, VccOff, RstAsserted, EnableTx, StartReset,
      SetPts, EnableTxPts,
      DisableTxrdy, ResetWt, UpdateWt, UartEnable, FsmType
  <2> QED  BY <2>1
<1>3. CASE IrqTxPts
  <2>1. /\ fsm.state = "IN_PTS"
        /\ fsm' \in {fsm, DisableTxrdy(fsm), CardSetState(fsm, "WAIT_TPDU")}
    <3>1. pts[1] = "REQ" \/ pts = <<"RESP", "PCK">> \/ (pts[1] = "RESP" /\ pts[2] # "PCK")
      BY DEF TypeOK, PtsState
    <3> QED  BY <1>3, <3>1 DEF IrqTxPts
  <2>2. /\ DisableTxrdy(fsm).state = "IN_PTS"
        /\ CardSetState(fsm, "WAIT_TPDU").state = "WAIT_TPDU"
    BY <1>0, <2>1, CardSetStateFacts DEF DisableTxrdy, FsmType, State
  <2> QED  BY <2>1, <2>2
<1>4. CASE IrqTxTpdu
  <2> DEFINE r == ResetWt(fsm)
             m == IF tx # NoMsg THEN tx ELSE Head(txQ)
  <2>1. fsm.state = "IN_TPDU" /\ fsm' = AfterTxByte(r, m)
    BY <1>4 DEF IrqTxTpdu
  <2>2. r \in FsmType /\ r.state = "IN_TPDU"
    BY <1>0, <2>1 DEF ResetWt, UpdateWt, FsmType, WtPhase
  <2> HIDE DEF r, m
  <2>3. fsm'.state \in {"IN_TPDU", "WAIT_TPDU"}
    BY <2>1, <2>2, AfterTxByteFacts
  <2> QED  BY <2>1, <2>3
<1>5. CASE RxPtsByte \/ RxHeaderByte \/ RxP3 \/ RxBodyByte
  <2>1. fsm.state \in Ready
    BY <1>5 DEF RxPtsByte, RxHeaderByte, RxP3, RxBodyByte, TpduByte, Ready
  <2>2. fsm' \in {fsm} \cup {SetTpduState(fsm, t) : t \in TpduState}
    <3>1. fsm.tpdu \in HeaderStates \ {"WAIT_P3"} => NextHeaderState(fsm.tpdu) \in TpduState
      BY DEF HeaderStates, NextHeaderState, TpduState
    <3>2. "WAIT_PB" \in TpduState /\ "WAIT_TX" \in TpduState
      BY DEF TpduState
    <3> QED  BY <1>5, <3>1, <3>2 DEF RxPtsByte, RxHeaderByte, RxP3, RxBodyByte
  <2>3. \A t \in TpduState : SetTpduState(fsm, t).state = fsm.state
    BY <1>0, SetTpduStateFacts
  <2>5. fsm'.state = fsm.state
    BY <2>2, <2>3
  <2> QED  BY <2>5
<1>6. CASE SetNewState \/ Released
  <2>1. /\ fsm' = CardSetState(fsm, arg)
        /\ pc = "setState" \/ pc = "release"
    BY <1>6 DEF SetNewState, Released
  <2>2. fsm'.state = arg
    BY <1>0, <2>1, CardSetStateFacts
  <2>3. arg # "IN_ATR" /\ (fsm.state = "IN_ATR" => arg # "WAIT_TPDU")
    BY <2>1 DEF Control, SetStateFits, ReleaseFits
  <2> QED  BY <2>2, <2>3
<1>7. CASE VccOther
  <2> DEFINE v == Level.vcc
             on == [pins EXCEPT !.vcc = v]
             f1 == IF v /\ ~pins.vcc THEN CardSetState(fsm, "WAIT_CLK") ELSE fsm
             f2 == EndActivation(f1, on)
             f3 == IF v /\ ~pins.clk /\ f2.state = "WAIT_CLK"
                   THEN CardSetState(f2, "WAIT_RST") ELSE f2
  <2>1. fsm' = EndActivation(f3, pins')
    BY <1>7 DEF VccOther
  <2>2. CASE Settled(fsm)
    <3>1. Settled(f1)
      <4>1. Settled(CardSetState(fsm, "WAIT_CLK"))
        BY <2>2, SettledSet DEF Off
      <4> QED  BY <2>2, <4>1
    <3> HIDE DEF f1
    <3>2. Settled(f2)
      BY <3>1, SettledActivation
    <3> HIDE DEF f2
    <3>3. Settled(f3)
      <4>1. Settled(CardSetState(f2, "WAIT_RST"))
        BY <3>2, SettledSet DEF Off
      <4> QED  BY <3>2, <4>1
    <3> HIDE DEF f3
    <3>4. Settled(fsm')
      BY <2>1, <3>3, SettledActivation
    <3> QED  BY <3>4 DEF Settled, Off
  <2>3. CASE ~Settled(fsm)
    <3>1. fsm.state \notin Off /\ pins.vcc
      BY <2>3, ControlSettled DEF Control, PowerFits
    <3>2. f1 = fsm
      BY <3>1
    <3>3. f2 = fsm
      BY <3>1, <3>2, SettledActivation
    <3>4. f3 = fsm
      BY <3>1, <3>3 DEF Off
    <3>5. fsm' = fsm
      <4> HIDE DEF f1, f2, f3
      <4> QED  BY <2>1, <3>1, <3>4, SettledActivation
    <3> QED  BY <3>5
  <2> QED  BY <2>2, <2>3
<1>8. CASE RstOther
  <2> DEFINE r == Level.rst
             f1 == IF ~r /\ pins.rst /\ pins.vcc /\ pins.clk /\ fsm.state = "WAIT_RST"
                   THEN CardSetState(fsm, "WAIT_ATR") ELSE fsm
  <2>1. fsm' = EndActivation(f1, pins')
    BY <1>8 DEF RstOther
  <2>2. CASE Settled(fsm)
    <3>1. Settled(f1)
      <4>1. Settled(CardSetState(fsm, "WAIT_ATR"))
        BY <2>2, SettledSet
      <4> QED  BY <2>2, <4>1
    <3> HIDE DEF f1
    <3>2. Settled(fsm')
      BY <2>1, <3>1, SettledActivation
    <3> QED  BY <3>2 DEF Settled, Off
  <2>3. CASE ~Settled(fsm)
    <3>1. fsm.state \notin Off
      BY <2>3, ControlSettled
    <3>2. f1 = fsm
      BY <3>1 DEF Off
    <3>3. fsm' = fsm
      <4> HIDE DEF f1
      <4> QED  BY <2>1, <3>1, <3>2, SettledActivation
    <3> QED  BY <3>3
  <2> QED  BY <2>2, <2>3
<1> QED
  BY <1>1, <1>2, <1>3, <1>4, <1>5, <1>6, <1>7, <1>8
    DEF Next, UsartIrq, MainStep, DrainStep, PtsStep, IoStep

\* The ATR's own variables change in five actions only.
LEMMA AtrFrame ==
  ASSUME Next, ~IrqTxAtrByte, ~IrqTxAtrEnd, ~IrqExpired, ~CmdSetAtr, ~SetAtrIdx
  PROVE  UNCHANGED atrVars
<1> USE DEF atrVars
<1>1. LineChange \/ UsartIrq => UNCHANGED atrVars \/ IrqHalfExpired
  BY DEF LineChange, UsartIrq, IrqRx, IrqTxPts, IrqTxTpdu, IrqTxNothing
<1>2. DrainStep => UNCHANGED atrVars
  BY DEF DrainStep, PtsStep, SetPts, RespondPts, EnableTxPts, Drained, IgnoreByte, RxPtsByte, RxHeaderByte, RxP3, RxBodyByte,
    RxUnexpectedByte, TpduByte, SetNewState
<1>3. IoStep => UNCHANGED atrVars
  BY DEF IoStep, VccSame, VccOff, VccOther, RstSame, RstAsserted, RstOther, ReleaseQueued,
    Released
<1>4. Refill \/ CommandStep \/ NewUartTx \/ EnableTx \/ CmdsDone => UNCHANGED atrVars
  BY DEF Refill, CommandStep, CmdTxData, CmdTxDataDropped, CmdSimSelect, CmdStatus, CmdConfig,
    NewUartTx, EnableTx, CmdsDone, vars
<1>5. IrqHalfExpired => UNCHANGED atrVars
  BY DEF IrqHalfExpired
<1> QED  BY <1>1, <1>2, <1>3, <1>4, <1>5 DEF Next, MainStep

\* The bytes sent so far stay the first bytes of the ATR.
LEMMA AtrStep ==
  ASSUME TypeOK, Control, Exchange, AtrSent, Next
  PROVE  AtrSent'
<1> USE DEF atrVars
<1>0. atr \in Seq(Nat) /\ atrIdx \in Nat /\ atrOut \in Seq(Nat)
  BY DataAssumption DEF TypeOK
<1>1. CASE IrqTxAtrByte
  <2>1. /\ fsm' = fsm /\ fsm.state = "IN_ATR" /\ atr' = atr /\ atrMixed' = atrMixed
        /\ atrIdx < Len(atr) /\ atrIdx' = atrIdx + 1
        /\ atrOut' = Append(atrOut, atr[atrIdx + 1])
    BY <1>1 DEF IrqTxAtrByte
  <2> SUFFICES ASSUME ~atrMixed
               PROVE  /\ atrIdx' = Len(atrOut') /\ atrIdx' <= Len(atr)
                      /\ \A i \in 1..atrIdx' : atrOut'[i] = atr[i]
    BY <2>1 DEF AtrSent
  <2>2. atrIdx = Len(atrOut) /\ \A i \in 1..atrIdx : atrOut[i] = atr[i]
    BY <2>1 DEF AtrSent
  <2> QED  BY <1>0, <2>1, <2>2
<1>2. CASE IrqTxAtrEnd
  <2>1. fsm'.state # "IN_ATR"
    <3> DEFINE g == CardSetState(fsm, "WAIT_TPDU")
    <3>1. g \in FsmType /\ g.state = "WAIT_TPDU" /\ fsm' = DisableTxrdy(g)
      BY <1>2, CardSetStateType, CardSetStateFacts DEF IrqTxAtrEnd, State, TypeOK, FsmType
    <3> HIDE DEF g
    <3> QED  BY <3>1 DEF DisableTxrdy, FsmType
  <2> QED  BY <2>1 DEF AtrSent
<1>3. CASE IrqExpired
  <2>1. CASE fsm.state = "WAIT_ATR"
    <3>1. atr' = atr /\ atrIdx' = 0 /\ atrOut' = <<>>
      BY <1>3, <2>1 DEF IrqExpired, TypeOK
    <3> QED  BY <1>0, <3>1 DEF AtrSent
  <2>2. CASE fsm.state # "WAIT_ATR"
    <3>1. UNCHANGED atrVars /\ fsm'.state = fsm.state
      BY <1>3, <2>2 DEF IrqExpired, TypeOK
    <3> QED  BY <3>1 DEF AtrSent
  <2> QED  BY <2>1, <2>2
<1>4. CASE CmdSetAtr \/ SetAtrIdx
  <2>1. fsm' = fsm /\ atrMixed' = (fsm.state = "IN_ATR")
    BY <1>4 DEF CmdSetAtr, SetAtrIdx
  <2> QED  BY <2>1 DEF AtrSent
<1>5. CASE ~(IrqTxAtrByte \/ IrqTxAtrEnd \/ IrqExpired \/ CmdSetAtr \/ SetAtrIdx)
  <2>1. UNCHANGED atrVars
    BY <1>5, AtrFrame
  <2>2. fsm'.state = "IN_ATR" => fsm.state = "IN_ATR"
    BY <1>5, AtrMoves
  <2> QED  BY <2>1, <2>2 DEF AtrSent
<1> QED  BY <1>1, <1>2, <1>3, <1>4, <1>5

-----------------------------------------------------------------------------
(* The theorems.                                                            *)

\* Every step of the interrupts, the pins and the main loop preserves the
\* inductive invariant.
LEMMA IInvNext == IInv /\ [Next]_vars => IInv'
<1> SUFFICES ASSUME IInv, [Next]_vars PROVE IInv'
  OBVIOUS
<1>0. TypeOK /\ Control /\ Exchange /\ AtrSent
  BY DEF IInv, Control, Exchange
<1>1. CASE Next
  <2>1. TypeOK'
    BY <1>0, <1>1, TypeIrq, TypeDrain, TypeIo, TypeCommands DEF Next, MainStep
  <2>2. Control'
    BY <1>0, <1>1, ControlIrq, ControlDrain, ControlIo, ControlCommands DEF Next, MainStep
  <2>4. Exchange'
    BY <1>0, <1>1, ExchangeIrq, ExchangeDrain, ExchangeMain DEF Next, MainStep
  <2>3. AtrSent'
    BY <1>0, <1>1, AtrStep
  <2> QED  BY <2>1, <2>2, <2>3, <2>4 DEF IInv, Control, Exchange
<1>2. CASE UNCHANGED vars
  <2>1. TypeOK'
    BY <1>0, <1>2 DEF TypeOK, vars
  <2>2. Control' /\ Exchange'
    BY <1>0, <1>2, ControlStutter DEF vars
  <2>3. AtrSent'
    BY <1>0, <1>2 DEF AtrSent, vars
  <2> QED  BY <2>1, <2>2, <2>3 DEF IInv, Control, Exchange
<1> QED  BY <1>1, <1>2

\* The inductive invariant holds in every reachable state, for every choice of the
\* messages, ATRs, commands and bounds.
THEOREM Invariance == Spec => []IInv
<1>1. Init => IInv
  BY TypeInit, InvInit DEF IInv, Control, Exchange
<1> QED  BY <1>1, IInvNext, PTL DEF Spec

\* The USART's interrupts are those the state needs, except behind a late
\* ENABLE_TX and behind a late set_pts_state of process_byte_pts.
THEOREM UartMatchesStateAlways == Spec => []UartMatchesState
<1>1. IInv => UartMatchesState
  BY DEF IInv
<1> QED  BY <1>1, Invariance, PTL

\* The main loop and the TXRDY interrupt never leave an answer queued with nobody
\* to send it.
THEOREM NoLostWakeupAlways == Spec => []NoLostWakeup
<1>1. IInv => NoLostWakeup
  BY DEF IInv
<1> QED  BY <1>1, Invariance, PTL

\* While the card owes the reader data the waiting time runs and is not half over.
THEOREM WaitingTimeGuardedAlways == Spec => []WaitingTimeGuarded
<1>1. IInv => WaitingTimeGuarded
  BY DEF IInv
<1> QED  BY <1>1, Invariance, PTL

\* card_handle_reset leaves no queued answer and no body to the next session.
THEOREM ResetEmptiesQueueAlways == Spec => []ResetEmptiesQueue
<1>1. IInv => ResetEmptiesQueue
  BY DEF IInv
<1> QED  BY <1>1, Invariance, PTL

\* card_emu_io_statechg completes the activation whatever order the reader
\* switched its signals in.
THEOREM ActivationCompleteAlways == Spec => []ActivationComplete
<1>1. IInv => ActivationComplete
  BY DEF IInv
<1> QED  BY <1>1, Invariance, PTL

\* tx_byte_atr sends an ATR that no SET_ATR interfered with from its first byte
\* to its last.
THEOREM AtrSentWhole == Spec => AtrEndsWhole
<1> DEFINE Whole == fsm.state = "IN_ATR" /\ fsm'.state = "WAIT_TPDU" /\ ~atrMixed => atrOut = atr
<1>1. IInv /\ [Next]_vars => [Whole]_vars
  <2> SUFFICES ASSUME IInv, Next, fsm.state = "IN_ATR", fsm'.state = "WAIT_TPDU", ~atrMixed
               PROVE  atrOut = atr
    OBVIOUS
  <2>1. IrqTxAtrEnd \/ IrqExpired
    BY AtrMoves DEF IInv, Control, Exchange
  <2>2. ~IrqExpired
    <3> SUFFICES ASSUME IrqExpired PROVE FALSE
      OBVIOUS
    <3>1. fsm' = [fsm EXCEPT !.wt = "done"]
      BY DEF IrqExpired
    <3> QED  BY <3>1 DEF IInv, TypeOK
  <2>3. atrIdx >= Len(atr)
    BY <2>1, <2>2 DEF IrqTxAtrEnd
  <2>4. /\ atrIdx = Len(atrOut) /\ atrIdx <= Len(atr)
        /\ \A i \in 1..atrIdx : atrOut[i] = atr[i]
    BY DEF IInv, AtrSent
  <2>5. atr \in Seq(Nat) /\ atrOut \in Seq(Nat) /\ atrIdx \in Nat
    BY DataAssumption DEF IInv, TypeOK
  <2> QED  BY <2>3, <2>4, <2>5
<1> QED  BY <1>1, Invariance, PTL DEF Spec, AtrEndsWhole

=============================================================================
