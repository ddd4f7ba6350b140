--------------------------- MODULE WaitingTime_proofs ---------------------------
(***************************************************************************)
(* Type correctness of WaitingTime, the assertion of compute_next_timeout, *)
(* and what the waiting time is for: the reader never gives up, no NULL    *)
(* byte falls between two bytes of an answer, and the ATR keeps its delay. *)
(* For all waiting times and every width of the time-out register.         *)
(*                                                                         *)
(* The argument for the assertion (IInv): the interrupt handler notes the  *)
(* half of the waiting time before it computes the next round, and         *)
(* otherwise reloads the whole waiting time, which is more than its half;  *)
(* the main loop computes the next round from what it has just reloaded,   *)
(* unless a time-out came in between (Reloaded).                           *)
(*                                                                         *)
(* The argument for the rest (Clock): silence and the etu still to count   *)
(* add up to no more than the waiting time and the two ticks that the main *)
(* loop may spend on a reload (Counting), of which the NULL byte at its    *)
(* half takes care; a byte restarts a first round that is longer than the  *)
(* time to the next byte (Sending); and the ATR's delay starts from a      *)
(* stopped counter (Purpose), so that it is counted in full (AtrRuns).     *)
(***************************************************************************)
EXTENDS WaitingTime, TLAPS

\* The fields of the interrupt handler, no assertion having failed.
Good(f) == f \in Fields /\ f.ok = TRUE

\* The whole of the waiting time is left to wait, what a reload leaves behind.
Whole(f) == f.remaining = f.total
Unhalved(f) == f.half = FALSE

\* What the main loop has reloaded is still so, unless a time-out was served.
Reloaded ==
  ~raced => /\ pc \in {"half", "compute"} => Whole(s)
            /\ pc = "compute" => Unhalved(s)

\* The inductive invariant.
IInv == TypeOK /\ s.ok = TRUE /\ Reloaded /\ AssertHolds

-----------------------------------------------------------------------------
(* Arithmetic                                                               *)

LEMMA HalfType == ASSUME NEW n \in Nat PROVE n \div 2 \in Nat /\ n \div 2 <= n
  OBVIOUS

LEMMA HalfLess == ASSUME NEW n \in Nat, n # 0 PROVE ~(n <= n \div 2)
  OBVIOUS

-----------------------------------------------------------------------------
(* The operators                                                            *)

LEMMA ComputeNextTimeoutType ==
  ASSUME NEW f \in Fields, ~AssertFails(f)
  PROVE  ComputeNextTimeout(f) \in 0..MaxRound
<1> DEFINE hf == f.total \div 2
<1>1. f.total \in Nat /\ f.remaining \in Nat /\ f.half \in BOOLEAN /\ MaxRound \in Nat
  BY TimesAssumption DEF Fields
<1>2. hf \in Nat
  BY <1>1, HalfType
<1>3. CASE f.total = 0
  BY <1>1, <1>3 DEF ComputeNextTimeout
<1>4. CASE f.total # 0 /\ f.half
  BY <1>1, <1>2, <1>4 DEF ComputeNextTimeout
<1>5. CASE f.total # 0 /\ ~f.half
  <2>1. ~(f.remaining <= hf)
    BY <1>5 DEF AssertFails
  <2> QED BY <1>1, <1>2, <1>5, <2>1 DEF ComputeNextTimeout
<1> QED BY <1>3, <1>4, <1>5, <1>1

LEMMA RettoGood ==
  ASSUME NEW f, Good(f)
  PROVE  /\ Good(Retto(f)) /\ Retto(f).remaining = f.remaining /\ Retto(f).total = f.total
         /\ Retto(f).half = f.half
  BY TimesAssumption DEF Good, Fields, Retto

LEMMA SetRtorGood ==
  ASSUME NEW f, Good(f), NEW v \in 0..MaxRound
  PROVE  /\ Good(SetRtor(f, v)) /\ SetRtor(f, v).remaining = f.remaining
         /\ SetRtor(f, v).total = f.total /\ SetRtor(f, v).half = f.half
  BY DEF Good, Fields, SetRtor

LEMMA SetNextTimeoutGood ==
  ASSUME NEW f, Good(f), ~AssertFails(f)
  PROVE  /\ Good(SetNextTimeout(f)) /\ SetNextTimeout(f).remaining = f.remaining
         /\ SetNextTimeout(f).total = f.total /\ SetNextTimeout(f).half = f.half
<1>1. ComputeNextTimeout(f) \in 0..MaxRound
  BY ComputeNextTimeoutType DEF Good
<1> QED BY <1>1, SetRtorGood DEF SetNextTimeout

\* A reload of the waiting time leaves the whole of it, and the assertion holds.
LEMMA ResetWtGood ==
  ASSUME NEW f, Good(f)
  PROVE  /\ Good(ResetWt(f)) /\ Whole(ResetWt(f)) /\ Unhalved(ResetWt(f))
<1> DEFINE g == [f EXCEPT !.remaining = f.total, !.half = FALSE]
<1>1. Good(g) /\ g.remaining = g.total /\ g.half = FALSE /\ g.total \in Nat
  BY DEF Good, Fields
<1>2. ~AssertFails(g)
  BY <1>1, HalfLess DEF AssertFails
<1> HIDE DEF g
<1>3. Good(SetNextTimeout(g)) /\ Whole(SetNextTimeout(g)) /\ Unhalved(SetNextTimeout(g))
  BY <1>1, <1>2, SetNextTimeoutGood DEF Whole, Unhalved
<1>4. Good(Retto(SetNextTimeout(g))) /\ Whole(Retto(SetNextTimeout(g))) /\ Unhalved(Retto(SetNextTimeout(g)))
  BY <1>3, RettoGood DEF Whole, Unhalved
<1> QED BY <1>4 DEF ResetWt, g

LEMMA UpdateWtGood ==
  ASSUME NEW f, Good(f), NEW w \in Nat
  PROVE  /\ Good(UpdateWt(f, w)) /\ Whole(UpdateWt(f, w)) /\ Unhalved(UpdateWt(f, w))
<1>1. Good([f EXCEPT !.total = w])
  BY DEF Good, Fields
<1> QED BY <1>1, ResetWtGood DEF UpdateWt

LEMMA ToWaitTpduGood ==
  ASSUME NEW f, Good(f)
  PROVE  /\ Good(ToWaitTpdu(f)) /\ Whole(ToWaitTpdu(f)) /\ Unhalved(ToWaitTpdu(f))
<1>1. Good([f EXCEPT !.st = "WAIT_TPDU", !.mask = {"RXRDY"}])
  BY DEF Good, Fields, State, Irq
<1> QED BY <1>1, UpdateWtGood DEF ToWaitTpdu

\* What the reload has to survive: g is as whole and as unhalved as f.
Kept(f, g) == (Whole(f) => Whole(g)) /\ (Unhalved(f) => Unhalved(g))

LEMMA ByteSentGood ==
  ASSUME NEW f, Good(f), f.left > 0
  PROVE  Good(ByteSent(f)) /\ Kept(f, ByteSent(f))
<1> DEFINE g == [f EXCEPT !.left = @ - 1, !.begun = TRUE]
<1>1. Good(g) /\ Kept(f, g)
  <2>1. f \in Fields /\ f.ok = TRUE /\ f.left - 1 \in Nat
    BY DEF Good, Fields
  <2>2. g \in Fields /\ g.ok = f.ok /\ g.remaining = f.remaining /\ g.total = f.total /\ g.half = f.half
    BY <2>1 DEF Fields
  <2> QED BY <2>1, <2>2 DEF Good, Kept, Whole, Unhalved
<1> HIDE DEF g
<1>2. Good(Retto(g)) /\ Kept(f, Retto(g))
  BY <1>1, RettoGood DEF Kept, Whole, Unhalved
<1>3. Good(ResetWt(Retto(g))) /\ Kept(f, ResetWt(Retto(g)))
  BY <1>2, ResetWtGood DEF Kept
<1>4. ByteSent(f) = IF f.st \in Owing THEN ResetWt(Retto(g)) ELSE Retto(g)
  BY DEF ByteSent, g
<1> QED BY <1>2, <1>3, <1>4

LEMMA AfterPbGood ==
  ASSUME NEW f, Good(f), waiting \in Nat
  PROVE  Good(AfterPb(f)) /\ Kept(f, AfterPb(f))
<1> DEFINE g == [f EXCEPT !.st = IF f.flags.pb = "rx" THEN "WAIT_RX" ELSE "WAIT_TX",
                          !.mask = IF f.flags.pb = "rx" THEN {"RXRDY"} ELSE @]
<1>1. Good(g)
  BY DEF Good, Fields, State, Irq
<1> HIDE DEF g
<1>2. Good(UpdateWt(g, waiting)) /\ Kept(f, UpdateWt(g, waiting))
  BY <1>1, UpdateWtGood DEF Kept
<1>3. AfterPb(f) = IF f.st # "WAIT_PB" \/ f.flags.pb = "no" THEN f ELSE UpdateWt(g, waiting)
  BY DEF AfterPb, g
<1> QED BY <1>2, <1>3 DEF Kept

\* The transmitter's interrupt.
LEMMA TxByteGood ==
  ASSUME NEW f, Good(f), waiting \in Nat
  PROVE  Good(TxByte(f)) /\ Kept(f, TxByte(f))
<1> DEFINE g == AfterPb(ByteSent(f))
           done == [g EXCEPT !.begun = FALSE]
           quiet == [f EXCEPT !.mask = @ \ {"TXRDY"}]
           told == [f EXCEPT !.begun = FALSE, !.mask = @ \ {"TXRDY"}]
<1>1. f.left \in Nat
  BY DEF Good, Fields
<1>2. CASE f.left > 0
  <2>1. Good(g) /\ Kept(f, g)
    BY <1>2, ByteSentGood, AfterPbGood DEF Kept
  <2> HIDE DEF g
  <2>2. Good(done) /\ Kept(f, done)
    BY <2>1 DEF Good, Fields, Kept, Whole, Unhalved
  <2> HIDE DEF done
  <2>3. Good(ToWaitTpdu(done)) /\ Kept(f, ToWaitTpdu(done))
    BY <2>2, ToWaitTpduGood DEF Kept
  <2>4. TxByte(f) \in {g, done, ToWaitTpdu(done)}
    <3>1. CASE f.left > 1
      BY <3>1 DEF TxByte, g, done
    <3>2. CASE f.left = 1 /\ f.st = "IN_ATR"
      BY <3>2 DEF TxByte, g, done
    <3>3. CASE f.left = 1 /\ f.st # "IN_ATR"
      BY <3>3 DEF TxByte, g, done
    <3> QED BY <3>1, <3>2, <3>3, <1>1, <1>2
  <2> QED BY <2>1, <2>2, <2>3, <2>4
<1>3. CASE f.left = 0
  <2>1. Good(quiet) /\ Kept(f, quiet)
    BY DEF Good, Fields, Kept, Whole, Unhalved
  <2>2. Good(told)
    BY DEF Good, Fields
  <2> HIDE DEF told, quiet
  <2>3. Good(ToWaitTpdu(told)) /\ Kept(f, ToWaitTpdu(told))
    BY <2>2, ToWaitTpduGood DEF Kept
  <2>4. TxByte(f) \in {quiet, ToWaitTpdu(told)}
    <3>1. CASE f.st = "IN_ATR"
      BY <3>1, <1>3 DEF TxByte, told
    <3>2. CASE f.st # "IN_ATR"
      BY <3>2, <1>3 DEF TxByte, quiet
    <3> QED BY <3>1, <3>2
  <2> QED BY <2>1, <2>3, <2>4
<1> QED BY <1>1, <1>2, <1>3

\* The next round of the waiting time: its half was noted if it is over.
LEMMA NextRoundGood ==
  ASSUME NEW f, Good(f)
  PROVE  Good(NextRound(f))
<1> DEFINE g == [f EXCEPT !.half = @ \/ HalfReached(f)]
<1>1. HalfReached(f) \in BOOLEAN
  BY DEF HalfReached
<1>2. Good(g) /\ g.half = (f.half \/ HalfReached(f)) /\ g.remaining = f.remaining /\ g.total = f.total
  BY <1>1 DEF Good, Fields
<1>3. ~AssertFails(g)
  <2> SUFFICES ASSUME ~g.half, g.remaining <= g.total \div 2 PROVE FALSE
    BY DEF AssertFails
  <2>1. ~f.half /\ ~HalfReached(f)
    BY <1>2, Zenon
  <2>2. f.remaining <= f.total \div 2
    BY <1>2
  <2> QED BY <2>1, <2>2 DEF HalfReached
<1>4. Good(Retto(SetNextTimeout(g)))
  BY <1>2, <1>3, SetNextTimeoutGood, RettoGood
<1> QED BY <1>4 DEF NextRound

\* The receiver's time-out.
LEMMA TimeOutGood ==
  ASSUME NEW f, Good(f), waiting \in Nat
  PROVE  Good(TimeOut(f))
<1> DEFINE g == Elapsed(f)
           a == [g EXCEPT !.st = "IN_ATR", !.mask = {"TXRDY", "TIMEOUT"}]
<1>1. Good(g)
  <2>1. f.remaining \in Nat /\ f.rtor \in Nat
    BY TimesAssumption DEF Good, Fields
  <2>2. (IF f.remaining <= f.rtor THEN 0 ELSE f.remaining - f.rtor) \in Nat
    BY <2>1
  <2> QED BY <2>2 DEF Good, Fields, Elapsed
<1> HIDE DEF g
<1>2. Good(Expired(g))
  <2>1. Good(a)
    BY <1>1 DEF Good, Fields, State, Irq
  <2> HIDE DEF a
  <2>2. Good(UpdateWt(a, waiting))
    BY <2>1, UpdateWtGood
  <2>3. Good([UpdateWt(a, waiting) EXCEPT !.left = AtrLen])
    BY <2>2, TimesAssumption DEF Good, Fields
  <2>4. Expired(g) = IF g.st # "WAIT_ATR" THEN g ELSE [UpdateWt(a, waiting) EXCEPT !.left = AtrLen]
    BY DEF Expired, a
  <2> QED BY <1>1, <2>3, <2>4
<1>3. Good(NextRound(g)) /\ Good(ResetWt(NextRound(g)))
  BY <1>1, NextRoundGood, ResetWtGood
<1>4. TimeOut(f) \in {Expired(g), NextRound(g), ResetWt(NextRound(g))}
  BY DEF TimeOut, g
<1> QED BY <1>2, <1>3, <1>4

-----------------------------------------------------------------------------
(* The invariant                                                            *)

LEMMA BootedGood == Good(Booted) /\ Whole(Booted) /\ Unhalved(Booted)
  BY TimesAssumption DEF Booted, Good, Fields, State, Flags, Irq, Whole, Unhalved

LEMMA InitInv == Init => IInv
<1> SUFFICES ASSUME Init PROVE IInv
  OBVIOUS
<1>1. Good(s)
  BY BootedGood DEF Init
<1>2. TypeOK
  <2>1. raced \in BOOLEAN
    BY Zenon DEF Init
  <2>2. arg \in Nat /\ next \in 0..MaxRound /\ gap \in 0..1 /\ silence \in Nat /\ faults \subseteq Fault
    BY TimesAssumption DEF Init, Fault
  <2> QED BY <1>1, <2>1, <2>2 DEF Init, TypeOK, Good
<1>3. Reloaded /\ AssertHolds
  BY DEF Init, Reloaded, AssertHolds
<1> QED BY <1>1, <1>2, <1>3 DEF IInv, Good

LEMMA UsartIrqInv == IInv /\ UsartIrq => IInv'
<1> SUFFICES ASSUME IInv, UsartIrq PROVE IInv'
  OBVIOUS
<1> USE DEF IInv
<1>1. waiting \in Nat /\ Good(s) /\ s.timeout \in BOOLEAN
  BY TimesAssumption DEF TypeOK, Good, Fields
<1> DEFINE out == s.timeout /\ "TIMEOUT" \in s.mask
<1>2. PICK tx \in BOOLEAN :
        LET f == IF tx THEN TxByte(s) ELSE s
            h == IF out THEN TimeOut(f) ELSE f
        IN /\ s' = After(h)
           /\ silence' \in {0, silence}
           /\ gap' \in {0, gap}
           /\ raced' = (raced \/ (out /\ pc # "idle"))
           /\ faults' \subseteq Fault
           /\ h.ok = TRUE => "assert" \notin faults'
           /\ pc' = IF h.ok THEN pc ELSE "idle"
           /\ UNCHANGED <<waiting, arg, next>>
  BY DEF UsartIrq, TypeOK, AssertHolds, Fault
<1> DEFINE f == IF tx THEN TxByte(s) ELSE s
           h == IF out THEN TimeOut(f) ELSE f
<1>3. Good(f) /\ Kept(s, f)
  BY <1>1, TxByteGood DEF Kept
<1> HIDE DEF f
<1>4. Good(h) /\ (~out => h = f)
  BY <1>1, <1>3, TimeOutGood
<1>5. s' = h /\ pc' = pc /\ h.ok = TRUE
  BY <1>2, <1>4 DEF After, Good, f
<1> HIDE DEF h
<1>6. TypeOK' /\ s'.ok = TRUE /\ AssertHolds'
  <2>1. silence' \in Nat /\ gap' \in 0..1 /\ raced' \in BOOLEAN /\ faults' \subseteq Fault
    BY <1>2 DEF TypeOK
  <2>2. "assert" \notin faults'
    BY <1>2, <1>5 DEF h, f
  <2> QED BY <1>2, <1>4, <1>5, <2>1, <2>2 DEF TypeOK, Good, AssertHolds
<1>7. Reloaded'
  <2> SUFFICES ASSUME ~raced', pc' \in {"half", "compute"}
               PROVE  Whole(s') /\ (pc' = "compute" => Unhalved(s'))
    BY DEF Reloaded, Whole, Unhalved
  <2>1. ~raced /\ ~out
    BY <1>2, <1>5
  <2>2. s' = f
    BY <2>1, <1>4, <1>5
  <2> QED BY <2>1, <2>2, <1>3, <1>5 DEF Reloaded, Kept
<1> QED BY <1>6, <1>7

LEMMA TickInv == IInv /\ Tick => IInv'
<1> SUFFICES ASSUME IInv, Tick PROVE IInv'
  OBVIOUS
<1>1. s.count \in Nat /\ s \in Fields /\ s.timeout \in BOOLEAN
  BY DEF IInv, TypeOK, Fields
<1> DEFINE c == IF s.count = 0 THEN 0 ELSE s.count - 1
           o == s.timeout \/ s.count = 1
<1>a. c \in Nat /\ o \in BOOLEAN
  BY <1>1
<1>b. s' = [s EXCEPT !.count = c, !.timeout = o]
  BY DEF Tick
<1> HIDE DEF c, o
<1>2. s' \in Fields /\ s'.ok = s.ok /\ s'.remaining = s.remaining /\ s'.total = s.total /\ s'.half = s.half
  BY <1>1, <1>a, <1>b DEF Fields
<1>3. TypeOK'
  BY <1>2 DEF IInv, TypeOK, Tick
<1> QED BY <1>2, <1>3 DEF IInv, Tick, Reloaded, AssertHolds, Whole, Unhalved

LEMMA UpdateWtStepInv == IInv /\ UpdateWtStep => IInv'
<1> SUFFICES ASSUME IInv, UpdateWtStep PROVE IInv'
  OBVIOUS
<1>0. Good(s) /\ arg \in Nat /\ s.total \in Nat
  BY DEF IInv, TypeOK, Good, Fields
<1>1. CASE SetTotal
  <2>1. Good(s')
    BY <1>0, <1>1 DEF SetTotal, Good, Fields
  <2> QED BY <2>1, <1>1 DEF IInv, SetTotal, TypeOK, Reloaded, AssertHolds, Good
<1>2. CASE SetRemaining
  <2>1. Good(s') /\ Whole(s')
    BY <1>0, <1>2 DEF SetRemaining, Good, Fields, Whole
  <2> QED BY <2>1, <1>2 DEF IInv, SetRemaining, TypeOK, Reloaded, AssertHolds, Good, Whole
<1>3. CASE SetHalf
  <2>1. Good(s') /\ Unhalved(s') /\ (Whole(s) => Whole(s'))
    BY <1>0, <1>3 DEF SetHalf, Good, Fields, Whole, Unhalved
  <2>2. Whole(s') \/ raced
    BY <2>1, <1>3 DEF IInv, Reloaded, SetHalf, At
  <2> QED BY <2>1, <2>2, <1>3 DEF IInv, SetHalf, TypeOK, Reloaded, AssertHolds, Good, Whole, Unhalved
<1>4. CASE Compute
  <2>1. raced \/ ~AssertFails(s)
    BY <1>0, <1>4, HalfLess DEF IInv, Reloaded, Compute, At, AssertFails, Whole, Unhalved
  <2>2. CASE AssertFails(s)
    <3>1. s' = Booted /\ pc' = "idle" /\ next' = next /\ raced' = raced /\ raced
          /\ waiting' = waiting /\ arg' = arg /\ gap' = gap /\ silence' = silence
      BY <2>1, <2>2, <1>4 DEF Compute
    <3>2. faults' = faults
      BY <3>1, <1>4 DEF Compute
    <3> QED BY <3>1, <3>2, BootedGood DEF IInv, TypeOK, Reloaded, AssertHolds, Good
  <2>3. CASE ~AssertFails(s)
    <3>1. s' = s /\ pc' = "rtor" /\ next' = ComputeNextTimeout(s) /\ raced' = raced
          /\ waiting' = waiting /\ arg' = arg /\ gap' = gap /\ silence' = silence
      BY <2>3, <1>4 DEF Compute
    <3>2. faults' = faults
      BY <2>3, <1>4 DEF Compute
    <3>3. next' \in 0..MaxRound
      BY <1>0, <2>3, <3>1, ComputeNextTimeoutType DEF Good
    <3> QED BY <3>1, <3>2, <3>3 DEF IInv, TypeOK, Reloaded, AssertHolds
  <2> QED BY <2>2, <2>3
<1>5. CASE SetRtorRetto
  <2> DEFINE f == Retto(SetRtor(s, next))
             g == [f EXCEPT !.st = "OFF", !.mask = {}, !.left = 0, !.begun = FALSE]
  <2>1. Good(f)
    BY <1>0, SetRtorGood, RettoGood DEF IInv, TypeOK
  <2> HIDE DEF f
  <2>2. Good(g)
    BY <2>1 DEF Good, Fields, State
  <2> HIDE DEF g
  <2>3. Good(UpdateWt(g, 0))
    BY <2>2, UpdateWtGood
  <2>4. s' = IF arg # 0 THEN f ELSE UpdateWt(g, 0)
    BY <1>5 DEF SetRtorRetto, f, g
  <2>5. Good(s') /\ silence' \in Nat
    BY <2>1, <2>3, <2>4, <1>5 DEF SetRtorRetto, IInv, TypeOK
  <2> QED BY <2>5, <1>5 DEF IInv, SetRtorRetto, TypeOK, Reloaded, AssertHolds, Good
<1> QED BY <1>1, <1>2, <1>3, <1>4, <1>5 DEF UpdateWtStep

LEMMA MainStepInv == IInv /\ MainStep => IInv'
<1> SUFFICES ASSUME IInv, MainStep PROVE IInv'
  OBVIOUS
<1>0. Good(s) /\ TypeOK /\ AssertHolds
  BY DEF IInv, TypeOK, Good
<1> SUFFICES Good(s') /\ TypeOK' /\ Reloaded' /\ AssertHolds'
  BY DEF IInv, Good
<1>1. CASE Reset
  <2>1. Good(s')
    BY <1>0, <1>1 DEF Reset, Good, Fields
  <2>a. /\ pc' = "total" /\ arg' = 0 /\ gap' = 0 /\ raced' = FALSE
        /\ next' = next /\ waiting' = waiting /\ faults' = faults /\ silence' \in {0, silence}
    BY <1>1 DEF Reset, Reload
  <2>b. arg' \in Nat /\ gap' \in 0..1 /\ silence' \in Nat
    BY <2>a, <1>0, TimesAssumption DEF TypeOK
  <2>d. raced' \in BOOLEAN
    BY <2>a, Zenon
  <2>c. TypeOK'
    BY <2>1, <2>a, <2>b, <2>d, <1>0 DEF TypeOK, Good
  <2> QED BY <2>1, <2>a, <2>c, <1>0 DEF Reloaded, AssertHolds
<1>2. CASE Activate
  <2>1. Good(s')
    BY <1>0, <1>2 DEF Activate, Good, Fields, State, Irq
  <2>a. /\ pc' = "total" /\ arg' = AtrDelay /\ gap' = 0 /\ raced' = FALSE
        /\ next' = next /\ waiting' = waiting /\ faults' = faults /\ silence' \in {0, silence}
    BY <1>2 DEF Activate, Reload
  <2>b. arg' \in Nat /\ gap' \in 0..1 /\ silence' \in Nat
    BY <2>a, <1>0, TimesAssumption DEF TypeOK
  <2>d. raced' \in BOOLEAN
    BY <2>a, Zenon
  <2>c. TypeOK'
    BY <2>1, <2>a, <2>b, <2>d, <1>0 DEF TypeOK, Good
  <2> QED BY <2>1, <2>a, <2>c, <1>0 DEF Reloaded, AssertHolds
<1>3. CASE RxCla
  <2>1. waiting' \in Times /\ waiting' \in Nat
    BY <1>3, TimesAssumption DEF RxCla
  <2>2. Good([s EXCEPT !.st = "HEADER"])
    BY <1>0 DEF Good, Fields, State
  <2>3. Good(s')
    BY <2>1, <2>2, <1>3, UpdateWtGood DEF RxCla
  <2> QED BY <2>1, <2>3, <1>0, <1>3 DEF RxCla, At, TypeOK, Reloaded, AssertHolds, Good
<1>4. CASE RxByte
  <2>1. Good(s')
    BY <1>0, <1>4, RettoGood DEF RxByte
  <2> QED BY <2>1, <1>0, <1>4 DEF RxByte, At, TypeOK, Reloaded, AssertHolds, Good
<1>5. CASE RxLast
  <2>1. Good(Retto(s))
    BY <1>0, RettoGood
  <2>2. Good(s')
    BY <2>1, <1>5 DEF RxLast, Good, Fields, State, Irq
  <2>a. /\ pc' = "total" /\ arg' = waiting /\ gap' = 0 /\ raced' = FALSE
        /\ next' = next /\ waiting' = waiting /\ faults' = faults /\ silence' \in {0, silence}
    BY <1>5 DEF RxLast, Reload
  <2>b. arg' \in Nat /\ gap' \in 0..1 /\ silence' \in Nat
    BY <2>a, <1>0, TimesAssumption DEF TypeOK
  <2>d. raced' \in BOOLEAN
    BY <2>a, Zenon
  <2>c. TypeOK'
    BY <2>2, <2>a, <2>b, <2>d, <1>0 DEF TypeOK, Good
  <2> QED BY <2>2, <2>a, <2>c, <1>0 DEF Reloaded, AssertHolds
<1>6. CASE HaveNewUartTx
  <2>1. PICK n \in Lengths, flags \in Flags :
          s' = [s EXCEPT !.left = n, !.flags = flags, !.mask = {"TXRDY", "TIMEOUT"}]
    BY <1>6 DEF HaveNewUartTx
  <2>2. Good(s')
    BY <2>1, <1>0, TimesAssumption DEF Good, Fields, Irq
  <2> QED BY <2>2, <1>0, <1>6 DEF HaveNewUartTx, At, TypeOK, Reloaded, AssertHolds, Good
<1> QED BY <1>1, <1>2, <1>3, <1>4, <1>5, <1>6 DEF MainStep

LEMMA NextInv == IInv /\ [Next]_vars => IInv'
<1>1. IInv /\ UNCHANGED vars => IInv'
  BY DEF IInv, TypeOK, Reloaded, AssertHolds, Whole, Unhalved, vars
<1> QED BY <1>1, UsartIrqInv, TickInv, UpdateWtStepInv, MainStepInv DEF Next

\* IInv is an invariant of the specification.
THEOREM Invariant == Spec => []IInv
<1> QED BY InitInv, NextInv, PTL DEF Spec

\* Every variable keeps its type: card_emu_uart_update_wt and the interrupt
\* handler never give US_RTOR a time-out that it cannot hold, even when the one
\* interrupts the other.
THEOREM TypeCorrect == Spec => []TypeOK
<1>1. IInv => TypeOK
  BY DEF IInv
<1> QED BY <1>1, Invariant, PTL

\* The assertion of compute_next_timeout cannot fail but by the race of the FIXME
\* in card_emu_uart_reset_wt, and in the interrupt handler not even by it.
THEOREM AssertionHolds == Spec => []AssertHolds
<1>1. IInv => AssertHolds
  BY DEF IInv
<1> QED BY <1>1, Invariant, PTL

-----------------------------------------------------------------------------
(* How far the waiting time has run.  The operators first.                  *)

\* The first round of a waiting time, to its half.
First(t) == IF t - t \div 2 < MaxRound THEN t - t \div 2 ELSE MaxRound

\* The card's side of the fields: what a time-out does not touch.
Card(f) == <<f.st, f.left, f.begun, f.flags, f.mask>>

\* The waiting time t has just been restarted.
Fresh(f, t) ==
  /\ f.total = t /\ f.remaining = t /\ f.half = FALSE
  /\ f.rtor = First(t) /\ f.count = First(t)

Stopped(f) == f.rtor = 0 /\ f.count = 0 /\ f.timeout = FALSE

LEMMA HalfBelow == ASSUME NEW n \in Nat, n > 3 PROVE n - n \div 2 > 1 /\ n \div 2 > 1
  OBVIOUS

LEMMA FirstLong ==
  ASSUME NEW t \in Nat, t > 3
  PROVE  First(t) \in Nat /\ First(t) > 1 /\ First(t) <= t - t \div 2
<1> DEFINE hf == t \div 2
<1>1. hf \in Nat /\ t - hf > 1 /\ MaxRound \in Nat /\ MaxRound > 1
  BY HalfType, HalfBelow, TimesAssumption
<1>2. First(t) = IF t - hf < MaxRound THEN t - hf ELSE MaxRound
  BY DEF First
<1> HIDE DEF hf
<1>3. First(t) \in Nat /\ First(t) > 1 /\ First(t) <= t - hf
  BY <1>1, <1>2
<1> QED BY <1>3 DEF hf

LEMMA FirstSome ==
  ASSUME NEW t \in Nat \ {0}
  PROVE  First(t) \in Nat /\ First(t) > 0 /\ First(t) <= t - t \div 2
<1> DEFINE hf == t \div 2
<1>1. hf \in Nat /\ ~(t <= hf) /\ MaxRound \in Nat /\ MaxRound > 1
  BY HalfType, HalfLess, TimesAssumption
<1>2. First(t) = IF t - hf < MaxRound THEN t - hf ELSE MaxRound
  BY DEF First
<1> HIDE DEF hf
<1>3. First(t) \in Nat /\ First(t) > 0 /\ First(t) <= t - hf
  BY <1>1, <1>2
<1> QED BY <1>3 DEF hf

LEMMA WaitingIsTime == ASSUME NEW t \in Times PROVE t \in Nat /\ t > 3 /\ t # 0
  BY TimesAssumption

LEMMA SetNextTimeoutFields ==
  ASSUME NEW f, Good(f), ~AssertFails(f)
  PROVE  /\ Card(SetNextTimeout(f)) = Card(f)
         /\ SetNextTimeout(f).rtor = ComputeNextTimeout(f)
         /\ SetNextTimeout(f).timeout = (f.timeout /\ ComputeNextTimeout(f) # 0)
<1> DEFINE v == ComputeNextTimeout(f)
<1> HIDE DEF v
<1>1. /\ Card(SetRtor(f, v)) = Card(f) /\ SetRtor(f, v).rtor = v
      /\ SetRtor(f, v).timeout = (f.timeout /\ v # 0)
  BY DEF Good, Fields, SetRtor, Card
<1> QED BY <1>1 DEF SetNextTimeout, v

LEMMA RettoFields ==
  ASSUME NEW f, Good(f)
  PROVE  /\ Card(Retto(f)) = Card(f) /\ Retto(f).rtor = f.rtor /\ Retto(f).count = f.rtor
         /\ Retto(f).timeout = f.timeout
  BY DEF Good, Fields, Retto, Card

\* A reload restarts the waiting time, and leaves TIMEOUT as it is ...
LEMMA ResetWtFresh ==
  ASSUME NEW f, Good(f), f.total # 0
  PROVE  /\ Fresh(ResetWt(f), f.total) /\ Card(ResetWt(f)) = Card(f)
         /\ ResetWt(f).timeout = f.timeout
<1> DEFINE g == [f EXCEPT !.remaining = f.total, !.half = FALSE]
           t == f.total
<1>1. /\ Good(g) /\ g.remaining = t /\ g.total = t /\ g.half = FALSE /\ t \in Nat /\ t # 0
      /\ g.timeout = f.timeout /\ f.timeout \in BOOLEAN /\ Card(g) = Card(f)
  BY DEF Good, Fields, Card
<1>2. ~AssertFails(g)
  BY <1>1, HalfLess DEF AssertFails
<1>3. ResetWt(f) = Retto(SetNextTimeout(g))
  BY DEF ResetWt, g
<1> HIDE DEF g
<1>4. ComputeNextTimeout(g) = First(t)
  BY <1>1 DEF ComputeNextTimeout, First
<1> HIDE DEF t
<1>5. First(t) # 0
  BY <1>1, FirstSome
<1> DEFINE k == SetNextTimeout(g)
<1>6. /\ Good(k) /\ k.remaining = t /\ k.total = t /\ k.half = FALSE
      /\ k.rtor = First(t) /\ k.timeout = f.timeout /\ Card(k) = Card(f)
  BY <1>1, <1>2, <1>4, <1>5, SetNextTimeoutGood, SetNextTimeoutFields
<1> HIDE DEF k
<1>7. /\ Retto(k).remaining = t /\ Retto(k).total = t /\ Retto(k).half = FALSE
      /\ Retto(k).rtor = First(t) /\ Retto(k).count = First(t)
      /\ Retto(k).timeout = f.timeout /\ Card(Retto(k)) = Card(f)
  BY <1>6, RettoGood, RettoFields
<1> QED BY <1>3, <1>7 DEF Fresh, k, t

LEMMA UpdateWtFresh ==
  ASSUME NEW f, Good(f), NEW w \in Nat, w # 0
  PROVE  /\ Fresh(UpdateWt(f, w), w) /\ Card(UpdateWt(f, w)) = Card(f)
         /\ UpdateWt(f, w).timeout = f.timeout
<1> DEFINE g == [f EXCEPT !.total = w]
<1>1. Good(g) /\ g.total = w /\ Card(g) = Card(f) /\ g.timeout = f.timeout
  BY DEF Good, Fields, Card
<1>2. UpdateWt(f, w) = ResetWt(g)
  BY DEF UpdateWt, g
<1> HIDE DEF g
<1> QED BY <1>1, <1>2, ResetWtFresh

\* ... unless there is none to wait: that stops the counter and clears TIMEOUT.
LEMMA UpdateWtStops ==
  ASSUME NEW f, Good(f)
  PROVE  /\ Stopped(UpdateWt(f, 0)) /\ Card(UpdateWt(f, 0)) = Card(f)
<1> DEFINE g == [[f EXCEPT !.total = 0] EXCEPT !.remaining = 0, !.half = FALSE]
           k == SetNextTimeout(g)
<1>1. Good(g) /\ g.total = 0 /\ Card(g) = Card(f)
  BY DEF Good, Fields, Card
<1>2. UpdateWt(f, 0) = Retto(k)
  <2>1. [f EXCEPT !.total = 0].total = 0
    BY DEF Good, Fields
  <2> QED BY <2>1 DEF UpdateWt, ResetWt, g, k
<1> HIDE DEF g
<1>3. ~AssertFails(g) /\ ComputeNextTimeout(g) = 0
  BY <1>1 DEF AssertFails, ComputeNextTimeout
<1>4. Good(k) /\ Card(k) = Card(f) /\ k.rtor = 0 /\ k.timeout = FALSE
  BY <1>1, <1>3, SetNextTimeoutGood, SetNextTimeoutFields
<1> HIDE DEF k
<1> QED BY <1>2, <1>4, RettoFields DEF Stopped

\* A message that was begun is not over; the card sends only while it owes an
\* answer, or the ATR; the procedure byte before a body to receive goes alone; and
\* a card that owes an answer listens to its time-out.
WellSent(f) ==
  /\ f.begun => f.left > 0 \/ f.st = "IN_ATR"
  /\ f.left > 0 => f.st \in Owing \cup {"IN_ATR"}
  /\ f.st = "WAIT_PB" /\ f.left > 0 /\ f.flags.pb = "rx" => f.left = 1
  /\ f.st \in Owing => "TIMEOUT" \in f.mask

LEMMA CardFields ==
  ASSUME NEW f, NEW g, Card(f) = Card(g)
  PROVE  f.st = g.st /\ f.left = g.left /\ f.begun = g.begun /\ f.flags = g.flags /\ f.mask = g.mask
  BY DEF Card

LEMMA WellSentCard ==
  ASSUME NEW f, NEW g, Card(f) = Card(g), WellSent(f)
  PROVE  WellSent(g)
  BY CardFields DEF WellSent

\* The transmitter has nothing to send and is turned off.
Quiet(f) == [f EXCEPT !.mask = @ \ {"TXRDY"}]

LEMMA QuietFields ==
  ASSUME NEW f, Good(f)
  PROVE  /\ Good(Quiet(f)) /\ Quiet(f).st = f.st /\ Quiet(f).left = f.left
         /\ Quiet(f).begun = f.begun /\ Quiet(f).flags = f.flags
         /\ Quiet(f).mask = f.mask \ {"TXRDY"}
         /\ Quiet(f).total = f.total /\ Quiet(f).remaining = f.remaining /\ Quiet(f).half = f.half
         /\ Quiet(f).rtor = f.rtor /\ Quiet(f).count = f.count /\ Quiet(f).timeout = f.timeout
  BY DEF Good, Fields, Quiet

LEMMA TxByteNone ==
  ASSUME NEW f, Good(f), f.left = 0, f.st # "IN_ATR"
  PROVE  TxByte(f) = Quiet(f)
  BY DEF TxByte, Quiet

\* A byte of an answer restarts the waiting time.
LEMMA ByteSentFresh ==
  ASSUME NEW f, Good(f), f.left > 0, f.st \in Owing, f.total # 0
  PROVE  LET h == ByteSent(f)
         IN /\ Good(h) /\ Fresh(h, f.total) /\ h.timeout = f.timeout
            /\ h.st = f.st /\ h.left = f.left - 1 /\ h.begun = TRUE
            /\ h.flags = f.flags /\ h.mask = f.mask
<1> DEFINE g == [f EXCEPT !.left = @ - 1, !.begun = TRUE]
           k == Retto(g)
<1>1. /\ Good(g) /\ g.total = f.total /\ g.timeout = f.timeout
      /\ g.st = f.st /\ g.left = f.left - 1 /\ g.begun = TRUE /\ g.flags = f.flags /\ g.mask = f.mask
  <2>1. f \in Fields /\ f.ok = TRUE /\ f.left - 1 \in Nat
    BY DEF Good, Fields
  <2> QED BY <2>1 DEF Good, Fields
<1>2. ByteSent(f) = ResetWt(k)
  BY DEF ByteSent, g
<1> HIDE DEF g
<1>3. Good(k) /\ k.total = f.total /\ k.timeout = f.timeout /\ Card(k) = Card(g)
  BY <1>1, RettoGood, RettoFields
<1> HIDE DEF k
<1>4. /\ Good(ResetWt(k)) /\ Fresh(ResetWt(k), f.total) /\ ResetWt(k).timeout = f.timeout
      /\ Card(ResetWt(k)) = Card(g)
  BY <1>3, ResetWtGood, ResetWtFresh
<1>5. /\ ResetWt(k).st = f.st /\ ResetWt(k).left = f.left - 1 /\ ResetWt(k).begun = TRUE
      /\ ResetWt(k).flags = f.flags /\ ResetWt(k).mask = f.mask
  BY <1>1, <1>4, CardFields
<1> QED BY <1>2, <1>4, <1>5

LEMMA AfterPbFresh ==
  ASSUME NEW f, Good(f), f.st \in Owing, Fresh(f, waiting), waiting \in Times
  PROVE  LET h == AfterPb(f)
         IN /\ Good(h) /\ Fresh(h, waiting) /\ h.timeout = f.timeout
            /\ h.left = f.left /\ h.begun = f.begun /\ h.flags = f.flags
            /\ \/ h.st \in Owing /\ h.mask = f.mask /\ (h.st = "WAIT_PB" => f.st = "WAIT_PB" /\ f.flags.pb = "no")
               \/ h.st = "WAIT_RX" /\ f.st = "WAIT_PB" /\ f.flags.pb = "rx"
<1> DEFINE g == [f EXCEPT !.st = IF f.flags.pb = "rx" THEN "WAIT_RX" ELSE "WAIT_TX",
                          !.mask = IF f.flags.pb = "rx" THEN {"RXRDY"} ELSE @]
<1>0. waiting \in Nat /\ waiting # 0
  BY WaitingIsTime
<1>1. CASE f.st # "WAIT_PB" \/ f.flags.pb = "no"
  BY <1>1 DEF AfterPb, Owing
<1>2. CASE ~(f.st # "WAIT_PB" \/ f.flags.pb = "no")
  <2>1. /\ Good(g) /\ g.left = f.left /\ g.begun = f.begun /\ g.flags = f.flags /\ g.timeout = f.timeout
        /\ \/ g.st = "WAIT_TX" /\ g.mask = f.mask
           \/ g.st = "WAIT_RX" /\ f.flags.pb = "rx"
    <3>1. CASE f.flags.pb = "rx"
      BY <3>1 DEF Good, Fields, State, Irq
    <3>2. CASE f.flags.pb # "rx"
      BY <3>2 DEF Good, Fields, State, Irq
    <3> QED BY <3>1, <3>2
  <2>2. AfterPb(f) = UpdateWt(g, waiting)
    BY <1>2 DEF AfterPb, g
  <2> HIDE DEF g
  <2> DEFINE h == UpdateWt(g, waiting)
  <2>3. Good(h) /\ Fresh(h, waiting) /\ Card(h) = Card(g) /\ h.timeout = f.timeout
    BY <2>1, <1>0, UpdateWtGood, UpdateWtFresh
  <2> HIDE DEF h
  <2>4. h.st = g.st /\ h.left = g.left /\ h.begun = g.begun /\ h.flags = g.flags /\ h.mask = g.mask
    BY <2>3, CardFields
  <2>5. AfterPb(f) = h
    BY <2>2 DEF h
  <2> QED BY <2>1, <2>3, <2>4, <2>5, <1>2 DEF Owing
<1> QED BY <1>1, <1>2

LEMMA ToWaitTpduCard ==
  ASSUME NEW f, Good(f)
  PROVE  LET h == ToWaitTpdu(f)
         IN h.st = "WAIT_TPDU" /\ h.left = f.left /\ h.begun = f.begun
<1> DEFINE g == [f EXCEPT !.st = "WAIT_TPDU", !.mask = {"RXRDY"}]
<1>1. Good(g) /\ g.st = "WAIT_TPDU" /\ g.left = f.left /\ g.begun = f.begun
  BY DEF Good, Fields, State, Irq
<1>2. ToWaitTpdu(f) = UpdateWt(g, 0)
  BY DEF ToWaitTpdu, g
<1> HIDE DEF g
<1> QED BY <1>1, <1>2, UpdateWtStops, CardFields

\* A byte of an answer is sent: as long as the card owes more, its waiting time has
\* just been restarted.
LEMMA TxByteOwing ==
  ASSUME NEW f, Good(f), WellSent(f), f.st \in Owing, f.left > 0,
         waiting \in Times, f.total = waiting
  PROVE  LET h == TxByte(f)
         IN /\ Good(h) /\ WellSent(h) /\ h.st \in {"WAIT_PB", "WAIT_TX", "WAIT_RX", "WAIT_TPDU"}
            /\ h.st \in Owing => Fresh(h, waiting) /\ h.timeout = f.timeout /\ h.mask = f.mask
<1> DEFINE b == ByteSent(f)
           g == AfterPb(b)
           done == [g EXCEPT !.begun = FALSE]
<1>0. f.left \in Nat /\ waiting \in Nat /\ waiting # 0 /\ f.left - 1 \in Nat
  BY WaitingIsTime DEF Good, Fields
<1>1. /\ Good(b) /\ Fresh(b, waiting) /\ b.timeout = f.timeout
      /\ b.st = f.st /\ b.left = f.left - 1 /\ b.begun = TRUE /\ b.flags = f.flags /\ b.mask = f.mask
  BY <1>0, ByteSentFresh
<1> HIDE DEF b
<1>2. /\ Good(g) /\ Fresh(g, waiting) /\ g.timeout = f.timeout
      /\ g.left = f.left - 1 /\ g.begun = TRUE /\ g.flags = f.flags
      /\ \/ g.st \in Owing /\ g.mask = f.mask /\ (g.st = "WAIT_PB" => f.st = "WAIT_PB" /\ f.flags.pb = "no")
         \/ g.st = "WAIT_RX" /\ f.st = "WAIT_PB" /\ f.flags.pb = "rx"
  BY <1>1, AfterPbFresh
<1>3. TxByte(f) = IF f.left > 1 THEN g
                  ELSE IF f.flags.pb # "rx" /\ f.flags.final THEN ToWaitTpdu(done) ELSE done
  <2>1. f.st # "IN_ATR"
    BY DEF Owing
  <2>2. CASE f.left > 1
    BY <2>2 DEF TxByte, g, b
  <2>3. CASE f.left = 1
    BY <2>1, <2>3 DEF TxByte, g, b
  <2> QED BY <2>2, <2>3, <1>0
<1>4. "TIMEOUT" \in f.mask /\ (f.st = "WAIT_PB" /\ f.flags.pb = "rx" => f.left = 1)
  BY DEF WellSent
<1> HIDE DEF g
<1>5. CASE f.left > 1
  <2>1. g.st \in Owing /\ g.mask = f.mask
    BY <1>2, <1>4, <1>5
  <2>2. WellSent(g)
    BY <1>2, <1>4, <1>5, <1>0, <2>1 DEF WellSent, Owing
  <2> QED BY <1>2, <1>3, <1>5, <2>1, <2>2 DEF Owing
<1>6. CASE f.left = 1
  <2>1. /\ Good(done) /\ Fresh(done, waiting) /\ done.timeout = f.timeout
        /\ done.left = 0 /\ done.begun = FALSE /\ done.st = g.st /\ done.mask = g.mask
    <3>1. Good(done) /\ Card(done) = <<g.st, g.left, FALSE, g.flags, g.mask>>
      BY <1>2 DEF Good, Fields, Card
    <3>2. /\ done.total = g.total /\ done.remaining = g.remaining /\ done.half = g.half
          /\ done.rtor = g.rtor /\ done.count = g.count /\ done.timeout = g.timeout
      BY <1>2 DEF Good, Fields
    <3> HIDE DEF done
    <3> QED BY <3>1, <3>2, <1>2, <1>6 DEF Fresh, Card
  <2> HIDE DEF done
  <2>2. WellSent(done)
    BY <2>1, <1>2, <1>4 DEF WellSent, Owing
  <2> DEFINE k == ToWaitTpdu(done)
  <2>3. Good(k) /\ k.st = "WAIT_TPDU" /\ k.left = 0 /\ k.begun = FALSE
    BY <2>1, ToWaitTpduGood, ToWaitTpduCard
  <2>4. WellSent(k)
    BY <2>3 DEF WellSent, Owing
  <2>5. TxByte(f) \in {k, done}
    BY <1>3, <1>6
  <2> HIDE DEF k
  <2>6. CASE TxByte(f) = k
    BY <2>3, <2>4, <2>6 DEF Owing
  <2>7. CASE TxByte(f) = done
    BY <2>1, <2>2, <2>7, <1>2 DEF Owing
  <2> QED BY <2>5, <2>6, <2>7
<1> QED BY <1>0, <1>5, <1>6

LEMMA TxByteAtr ==
  ASSUME NEW f, Good(f), f.st = "IN_ATR", waiting \in Nat
  PROVE  LET h == TxByte(f)
         IN Good(h) /\ WellSent(h) /\ h.st \in {"IN_ATR", "WAIT_TPDU"}
<1> DEFINE g == AfterPb(ByteSent(f))
           told == [f EXCEPT !.begun = FALSE, !.mask = @ \ {"TXRDY"}]
<1>0. f.left \in Nat /\ Good(TxByte(f))
  BY TxByteGood DEF Good, Fields
<1>1. CASE f.left > 0
  <2>1. TxByte(f) = g
    <3>1. CASE f.left > 1
      BY <3>1 DEF TxByte
    <3>2. CASE f.left = 1
      BY <3>2 DEF TxByte
    <3> QED BY <3>1, <3>2, <1>0, <1>1
  <2> DEFINE b == [f EXCEPT !.left = @ - 1, !.begun = TRUE]
  <2>2. b.st = "IN_ATR" /\ Good(b)
    <3>1. f.left - 1 \in Nat
      BY <1>0, <1>1
    <3> QED BY <3>1 DEF Good, Fields
  <2>3. ByteSent(f) = Retto(b)
    BY DEF ByteSent, Owing
  <2> HIDE DEF b
  <2>4. Retto(b).st = "IN_ATR"
    BY <2>2, RettoFields, CardFields
  <2>5. g = Retto(b)
    BY <2>3, <2>4 DEF AfterPb
  <2>6. TxByte(f).st = "IN_ATR"
    BY <2>1, <2>4, <2>5
  <2> QED BY <2>6, <1>0 DEF WellSent, Owing
<1>2. CASE f.left = 0
  <2>1. TxByte(f) = ToWaitTpdu(told)
    BY <1>2 DEF TxByte
  <2>2. Good(told) /\ told.left = 0 /\ told.begun = FALSE
    BY <1>2 DEF Good, Fields
  <2> HIDE DEF told
  <2>3. TxByte(f).st = "WAIT_TPDU" /\ TxByte(f).left = 0 /\ TxByte(f).begun = FALSE
    BY <2>1, <2>2, ToWaitTpduCard
  <2> QED BY <2>3, <1>0 DEF WellSent, Owing
<1> QED BY <1>0, <1>1, <1>2

LEMMA ElapsedFields ==
  ASSUME NEW f, Good(f)
  PROVE  LET g == Elapsed(f)
         IN /\ Good(g) /\ Card(g) = Card(f) /\ g.total = f.total /\ g.half = f.half
            /\ g.timeout = FALSE /\ f.remaining \in Nat /\ f.rtor \in Nat
            /\ g.remaining = (IF f.remaining <= f.rtor THEN 0 ELSE f.remaining - f.rtor)
<1>1. f.remaining \in Nat /\ f.rtor \in Nat
  BY TimesAssumption DEF Good, Fields
<1>2. (IF f.remaining <= f.rtor THEN 0 ELSE f.remaining - f.rtor) \in Nat
  BY <1>1
<1> QED BY <1>1, <1>2 DEF Good, Fields, Elapsed, Card

\* The next round is counted in full; before the half of the waiting time it ends
\* there at the latest.
LEMMA NextRoundFields ==
  ASSUME NEW g, Good(g), g.timeout = FALSE, g.total # 0, g.remaining # 0
  PROVE  LET h == NextRound(g)
         IN /\ Good(h) /\ Card(h) = Card(g) /\ h.total = g.total /\ h.remaining = g.remaining
            /\ h.timeout = FALSE /\ h.count = h.rtor /\ h.rtor > 0 /\ h.rtor <= h.remaining
            /\ ~g.half /\ ~HalfReached(g) =>
                 /\ h.half = FALSE
                 /\ h.rtor = (IF g.remaining - g.total \div 2 < MaxRound
                              THEN g.remaining - g.total \div 2 ELSE MaxRound)
<1> DEFINE k == [g EXCEPT !.half = @ \/ HalfReached(g)]
           hf == g.total \div 2
           v == ComputeNextTimeout(k)
           n == SetNextTimeout(k)
<1>0. /\ g.total \in Nat /\ g.remaining \in Nat /\ g.half \in BOOLEAN /\ hf \in Nat
      /\ MaxRound \in Nat /\ MaxRound > 1 /\ HalfReached(g) \in BOOLEAN
  BY TimesAssumption, HalfType DEF Good, Fields, HalfReached
<1>1. /\ Good(k) /\ Card(k) = Card(g) /\ k.remaining = g.remaining /\ k.total = g.total
      /\ k.half = (g.half \/ HalfReached(g)) /\ k.timeout = FALSE
  BY <1>0 DEF Good, Fields, Card
<1>2. NextRound(g) = Retto(n)
  BY DEF NextRound, k, n
<1> HIDE DEF k
<1>3. ~k.half => ~(k.remaining <= hf)
  <2> SUFFICES ASSUME ~k.half, k.remaining <= hf PROVE FALSE
    OBVIOUS
  <2>1. ~g.half /\ ~HalfReached(g)
    BY <1>1, Zenon
  <2>2. g.remaining <= g.total \div 2
    BY <1>1
  <2> QED BY <2>1, <2>2 DEF HalfReached
<1>4. ~AssertFails(k)
  BY <1>1, <1>3 DEF AssertFails
<1>5. v = (IF k.half THEN IF g.remaining < MaxRound THEN g.remaining ELSE MaxRound
           ELSE IF g.remaining - hf < MaxRound THEN g.remaining - hf ELSE MaxRound)
  BY <1>1 DEF ComputeNextTimeout
<1> HIDE DEF hf
<1>6. v > 0 /\ v <= g.remaining
  BY <1>0, <1>1, <1>3, <1>5
<1>7. ~g.half /\ ~HalfReached(g) =>
        /\ k.half = FALSE
        /\ v = (IF g.remaining - hf < MaxRound THEN g.remaining - hf ELSE MaxRound)
  <2> SUFFICES ASSUME ~g.half, ~HalfReached(g)
               PROVE  k.half = FALSE
    BY <1>5
  <2> QED BY <1>1, <1>0
<1> HIDE DEF v
<1>8. Good(n) /\ Card(n) = Card(g) /\ n.remaining = g.remaining /\ n.total = g.total
      /\ n.half = k.half /\ n.rtor = v /\ n.timeout = FALSE
  BY <1>1, <1>4, SetNextTimeoutGood, SetNextTimeoutFields DEF v
<1> HIDE DEF n
<1>9. /\ Good(Retto(n)) /\ Card(Retto(n)) = Card(g) /\ Retto(n).remaining = g.remaining
      /\ Retto(n).total = g.total /\ Retto(n).half = k.half /\ Retto(n).rtor = v
      /\ Retto(n).count = v /\ Retto(n).timeout = FALSE
  BY <1>8, RettoGood, RettoFields
<1> QED BY <1>2, <1>6, <1>7, <1>9 DEF hf

\* Without a waiting time there is no next round.
LEMMA NextRoundNone ==
  ASSUME NEW g, Good(g), g.total = 0 \/ g.remaining # 0
  PROVE  LET h == NextRound(g)
         IN Card(h) = Card(g) /\ h.total = g.total
<1> DEFINE k == [g EXCEPT !.half = @ \/ HalfReached(g)]
           n == SetNextTimeout(k)
<1>1. /\ Good(k) /\ Card(k) = Card(g) /\ k.remaining = g.remaining /\ k.total = g.total
      /\ k.half = (g.half \/ HalfReached(g))
  BY DEF Good, Fields, Card, HalfReached
<1>2. NextRound(g) = Retto(n)
  BY DEF NextRound, k, n
<1> HIDE DEF k
<1>3. ~AssertFails(k)
  <2> SUFFICES ASSUME ~k.half, k.remaining <= k.total \div 2 PROVE FALSE
    BY DEF AssertFails
  <2>1. ~g.half /\ ~HalfReached(g)
    BY <1>1, Zenon
  <2>2. g.remaining <= g.total \div 2
    BY <1>1
  <2> QED BY <2>1, <2>2 DEF HalfReached
<1>4. Good(n) /\ Card(n) = Card(g) /\ n.total = g.total
  BY <1>1, <1>3, SetNextTimeoutGood, SetNextTimeoutFields
<1> HIDE DEF n
<1> QED BY <1>2, <1>4, RettoGood, RettoFields

\* The waiting time f has run for at most sil ticks, but for the two that the main
\* loop may have spent on the reload; the next round ends at its half at the latest.
Counting(f, sil) ==
  /\ f.half = FALSE /\ f.rtor > 0 /\ f.count <= f.rtor
  /\ f.rtor <= f.remaining - f.total \div 2
  /\ sil + f.remaining + f.count <= f.total + 2 + f.rtor
  /\ f.count = 0 => f.timeout

LEMMA FreshCounting ==
  ASSUME NEW f, NEW t \in Times, Fresh(f, t), NEW sil \in Nat, sil <= 2
  PROVE  Counting(f, sil) /\ f.count > 1
<1>0. t \in Nat /\ t > 3
  BY WaitingIsTime
<1>1. First(t) \in Nat /\ First(t) > 1 /\ First(t) <= t - t \div 2
  BY <1>0, FirstLong
<1>2. f.total = t /\ f.remaining = t /\ f.half = FALSE /\ f.rtor = First(t) /\ f.count = First(t)
  BY DEF Fresh
<1>3. sil + f.remaining + f.count <= f.total + 2 + f.rtor
  BY <1>0, <1>1, <1>2
<1>4. f.count # 0 /\ f.count > 1 /\ f.rtor > 0 /\ f.count <= f.rtor
  BY <1>1, <1>2
<1>5. f.rtor <= f.remaining - f.total \div 2
  BY <1>1, <1>2
<1> QED BY <1>2, <1>3, <1>4, <1>5 DEF Counting

\* A time-out of a card that owes an answer: a NULL byte at the half of the waiting
\* time, or the next round up to it.
LEMMA TimeOutCounting ==
  ASSUME NEW f, Good(f), f.st \in Owing, f.total \in Times, NEW sil \in Nat, Counting(f, sil)
  PROVE  LET h == TimeOut(f)
         IN /\ Good(h) /\ Card(h) = Card(f) /\ h.total = f.total /\ h.timeout = FALSE
            /\ Counting(h, IF NullDue(Elapsed(f)) THEN 0 ELSE sil)
            /\ Fresh(f, f.total) => h.count > 1
<1> DEFINE g == Elapsed(f)
           t == f.total
           hf == t \div 2
           h == TimeOut(f)
           n == NextRound(g)
<1>0. t \in Nat /\ t > 3 /\ t # 0 /\ hf \in Nat /\ hf > 1 /\ f.count \in Nat /\ f.st # "WAIT_ATR"
  BY WaitingIsTime, HalfType, HalfBelow DEF Good, Fields, Owing
<1>1. /\ Good(g) /\ Card(g) = Card(f) /\ g.total = t /\ g.half = f.half
      /\ g.timeout = FALSE /\ f.remaining \in Nat /\ f.rtor \in Nat
      /\ g.remaining = (IF f.remaining <= f.rtor THEN 0 ELSE f.remaining - f.rtor)
  BY ElapsedFields
<1>2. /\ f.half = FALSE /\ f.rtor > 0 /\ f.rtor <= f.remaining - hf
      /\ sil + f.remaining + f.count <= t + 2 + f.rtor
  BY DEF Counting
<1>3. h = IF g.remaining = 0 THEN Expired(g) ELSE IF NullDue(g) THEN ResetWt(n) ELSE n
  BY DEF TimeOut
<1>4. Fresh(f, t) => f.remaining = t /\ f.rtor = First(t)
  BY DEF Fresh
<1>5. HalfReached(g) <=> g.remaining <= hf
  BY <1>1, <1>2 DEF HalfReached
<1>6. NullDue(g) <=> g.remaining # 0 /\ HalfReached(g)
  BY <1>1, CardFields DEF NullDue
<1> HIDE DEF g, h, hf, t
<1>7. g.remaining = f.remaining - f.rtor /\ g.remaining >= hf /\ g.remaining # 0 /\ g.remaining \in Nat
  BY <1>0, <1>1, <1>2
<1>8. /\ Good(n) /\ Card(n) = Card(g) /\ n.total = t /\ n.remaining = g.remaining
      /\ n.timeout = FALSE /\ n.count = n.rtor /\ n.rtor > 0
      /\ ~HalfReached(g) =>
           /\ n.half = FALSE
           /\ n.rtor = (IF g.remaining - hf < MaxRound THEN g.remaining - hf ELSE MaxRound)
  BY <1>0, <1>1, <1>2, <1>7, NextRoundFields DEF hf
<1> HIDE DEF n
<1>9. CASE NullDue(g)
  <2>1. h = ResetWt(n)
    BY <1>3, <1>7, <1>9
  <2>2. Good(h) /\ Fresh(h, t) /\ Card(h) = Card(f) /\ h.timeout = FALSE
    BY <1>0, <1>1, <1>8, <2>1, ResetWtGood, ResetWtFresh
  <2>3. Counting(h, 0) /\ h.count > 1
    BY <2>2, FreshCounting DEF t
  <2> QED BY <2>2, <2>3, <1>9 DEF Fresh, h, t, g
<1>10. CASE ~NullDue(g)
  <2>1. h = n /\ ~HalfReached(g)
    BY <1>3, <1>6, <1>7, <1>10
  <2>2. g.remaining > hf
    <3>1. ~(g.remaining <= hf)
      BY <1>5, <2>1, Zenon
    <3> QED BY <3>1, <1>7, <1>0
  <2>3. h.half = FALSE /\ h.rtor = (IF g.remaining - hf < MaxRound THEN g.remaining - hf ELSE MaxRound)
    BY <2>1, <1>8
  <2>4. MaxRound \in Nat /\ MaxRound > 1
    BY TimesAssumption
  <2>5. h.rtor \in Nat /\ h.rtor > 0 /\ h.rtor <= g.remaining - hf
    BY <2>2, <2>3, <2>4, <1>7, <1>0
  <2>6. sil + h.remaining + h.count <= h.total + 2 + h.rtor
    <3>1. h.remaining = f.remaining - f.rtor /\ h.count = h.rtor /\ h.total = t
      BY <2>1, <1>7, <1>8
    <3> QED BY <3>1, <2>5, <1>0, <1>1, <1>2
  <2>7. Counting(h, sil)
    BY <2>1, <2>3, <2>5, <2>6, <1>8 DEF Counting, hf
  <2>8. ASSUME Fresh(f, t) PROVE h.count > 1
    <3>1. t - hf # MaxRound + 1
      BY TimesAssumption DEF t, hf
    <3>2. g.remaining = t - First(t)
      BY <1>4, <1>7, <2>8
    <3>3. First(t) = IF t - hf < MaxRound THEN t - hf ELSE MaxRound
      BY DEF First, hf
    <3>4. First(t) = MaxRound /\ t - hf > MaxRound
      BY <3>2, <3>3, <2>2, <2>4, <1>0
    <3>5. g.remaining - hf > 1
      BY <3>1, <3>2, <3>4, <2>4, <1>0
    <3> QED BY <3>5, <2>1, <2>3, <2>4, <1>8
  <2>9. Card(h) = Card(f) /\ Good(h) /\ h.total = t /\ h.timeout = FALSE
    BY <2>1, <1>1, <1>8
  <2> QED BY <2>7, <2>8, <2>9, <1>10 DEF h, t, g
<1> QED BY <1>9, <1>10

\* Whatever its clock says, a time-out does not touch the card's side, unless it
\* starts the ATR.
LEMMA TimeOutCard ==
  ASSUME NEW f, Good(f), f.st # "WAIT_ATR"
  PROVE  Card(TimeOut(f)) = Card(f) /\ TimeOut(f).total = f.total
<1> DEFINE g == Elapsed(f)
           n == NextRound(g)
<1>1. Good(g) /\ Card(g) = Card(f) /\ g.total = f.total
  BY ElapsedFields
<1>2. TimeOut(f) = IF g.remaining = 0 THEN Expired(g) ELSE IF NullDue(g) THEN ResetWt(n) ELSE n
  BY DEF TimeOut
<1>3. g.st # "WAIT_ATR"
  BY <1>1, CardFields
<1> HIDE DEF g
<1>4. Expired(g) = g
  BY <1>3 DEF Expired
<1>5. CASE g.remaining = 0
  BY <1>1, <1>2, <1>4, <1>5
<1>6. CASE g.remaining # 0
  <2>1. Good(n) /\ Card(n) = Card(g) /\ n.total = g.total
    BY <1>1, <1>6, NextRoundGood, NextRoundNone
  <2>2. NullDue(g) => n.total # 0
    <3>1. g.remaining \in Nat /\ g.total \in Nat /\ (g.total = 0 => g.total \div 2 = 0)
      BY <1>1 DEF Good, Fields
    <3>2. NullDue(g) => g.remaining # 0 /\ g.remaining <= g.total \div 2
      BY DEF NullDue, HalfReached
    <3> QED BY <2>1, <3>1, <3>2
  <2> HIDE DEF n
  <2>3. NullDue(g) => Card(ResetWt(n)) = Card(g) /\ ResetWt(n).total = g.total
    BY <2>1, <2>2, ResetWtFresh DEF Fresh
  <2>4. CASE NullDue(g)
    BY <2>3, <2>4, <1>1, <1>2, <1>6
  <2>5. CASE ~NullDue(g)
    BY <2>1, <2>5, <1>1, <1>2, <1>6
  <2> QED BY <2>4, <2>5
<1> QED BY <1>5, <1>6

\* The delay of the ATR: the ATR at its end, or the next round.
LEMMA TimeOutAtr ==
  ASSUME NEW f, Good(f), f.st = "WAIT_ATR", f.total # 0, waiting \in Nat
  PROVE  LET h == TimeOut(f)
         IN /\ Good(h) /\ f.remaining \in Nat /\ f.rtor \in Nat
            /\ \/ f.remaining <= f.rtor /\ h.st = "IN_ATR" /\ WellSent(h)
               \/ /\ ~(f.remaining <= f.rtor) /\ Card(h) = Card(f) /\ h.total = f.total
                  /\ h.remaining = f.remaining - f.rtor /\ h.timeout = FALSE
                  /\ h.count = h.rtor /\ h.rtor > 0 /\ h.rtor <= h.remaining
<1> DEFINE g == Elapsed(f)
           n == NextRound(g)
<1>0. Good(TimeOut(f))
  BY TimeOutGood
<1>1. /\ Good(g) /\ Card(g) = Card(f) /\ g.total = f.total /\ g.timeout = FALSE
      /\ f.remaining \in Nat /\ f.rtor \in Nat
      /\ g.remaining = (IF f.remaining <= f.rtor THEN 0 ELSE f.remaining - f.rtor)
  BY ElapsedFields
<1>2. TimeOut(f) = IF g.remaining = 0 THEN Expired(g) ELSE IF NullDue(g) THEN ResetWt(n) ELSE n
  BY DEF TimeOut
<1>3. g.st = "WAIT_ATR"
  BY <1>1, CardFields
<1> HIDE DEF g
<1>4. ~NullDue(g)
  BY <1>3 DEF NullDue, Owing
<1>5. CASE f.remaining <= f.rtor
  <2> DEFINE a == [g EXCEPT !.st = "IN_ATR", !.mask = {"TXRDY", "TIMEOUT"}]
             u == UpdateWt(a, waiting)
  <2>1. Good(a) /\ a.st = "IN_ATR"
    BY <1>1 DEF Good, Fields, State, Irq
  <2>2. Expired(g) = [u EXCEPT !.left = AtrLen]
    BY <1>3 DEF Expired
  <2> HIDE DEF a
  <2>3. Good(u) /\ Card(u) = Card(a)
    BY <2>1, UpdateWtGood, UpdateWtFresh, UpdateWtStops
  <2>4. u.st = "IN_ATR"
    BY <2>1, <2>3, CardFields
  <2> HIDE DEF u
  <2>5. Expired(g).st = "IN_ATR"
    BY <2>2, <2>3, <2>4 DEF Good, Fields
  <2>6. TimeOut(f).st = "IN_ATR"
    BY <2>5, <1>1, <1>2, <1>5
  <2> QED BY <1>0, <1>1, <1>5, <2>6 DEF WellSent, Owing
<1>6. CASE ~(f.remaining <= f.rtor)
  <2>1. g.remaining = f.remaining - f.rtor /\ g.remaining # 0
    BY <1>1, <1>6
  <2>2. TimeOut(f) = n
    BY <2>1, <1>2, <1>4
  <2>3. /\ Card(n) = Card(g) /\ n.total = g.total /\ n.remaining = g.remaining
        /\ n.timeout = FALSE /\ n.count = n.rtor /\ n.rtor > 0 /\ n.rtor <= n.remaining
    BY <1>1, <2>1, NextRoundFields
  <2> HIDE DEF n
  <2> QED BY <1>0, <1>1, <1>6, <2>1, <2>2, <2>3
<1> QED BY <1>5, <1>6

-----------------------------------------------------------------------------
(* The second invariant: what the clock has to do with the card's state.    *)

\* What the main loop reloads the waiting time for: a reset, an answer that has not
\* begun, or the ATR's delay, of which nothing has passed.
Purpose ==
  /\ s.st = "OFF" => pc = "idle" /\ Stopped(s)
  /\ pc # "idle" /\ s.st \in Owing => s.left = 0
  /\ pc # "idle" /\ arg # 0 =>
       \/ s.st \in Owing /\ arg = waiting
       \/ s.st = "WAIT_ATR" /\ arg = AtrDelay /\ Stopped(s) /\ silence = 0 /\ raced = FALSE

\* What it is about to write to US_RTOR.
Loaded ==
  pc = "rtor" /\ arg # 0 /\ ~raced =>
    Whole(s) /\ Unhalved(s) /\ (s.total # 0 => next = First(s.total))

\* Which waiting time is running.
TotalSet ==
  ~Resetting /\ pc # "total" =>
    /\ s.st \in Owing => s.total = waiting
    /\ s.st = "WAIT_ATR" => s.total = AtrDelay

\* How much of it is spent while the card owes an answer.
Spent ==
  s.st \in Owing /\ ~Resetting /\ ~raced =>
    IF pc = "idle" THEN Counting(s, silence)
    ELSE silence <= gap + (IF "TXRDY" \in s.mask THEN 0 ELSE 1)

\* How much of the ATR's delay is.
AtrRuns ==
  s.st = "WAIT_ATR" /\ pc = "idle" =>
    /\ s.rtor > 0 /\ s.rtor <= s.remaining
    /\ silence + s.remaining + s.count >= AtrDelay + s.rtor
    /\ s.timeout => s.count = 0

\* Between two bytes of an answer no time-out is due before the next of them.
Sending ==
  s.st \in Owing /\ s.begun => "TXRDY" \in s.mask /\ s.timeout = FALSE /\ s.count + gap >= 2

Clock == WellSent(s) /\ Purpose /\ Loaded /\ TotalSet /\ Spent /\ AtrRuns /\ Sending

CInv == Clock /\ NullsBetweenAnswers /\ AtrOnTime

LEMMA InitClock == Init => CInv
<1> SUFFICES ASSUME Init PROVE CInv
  OBVIOUS
<1>1. /\ s.st = "OFF" /\ s.left = 0 /\ s.begun = FALSE /\ s.rtor = 0 /\ s.count = 0 /\ s.timeout = FALSE
      /\ pc = "idle" /\ faults = {}
  BY DEF Init, Booted
<1> QED BY <1>1 DEF CInv, Clock, WellSent, Purpose, Loaded, TotalSet, Spent, AtrRuns, Sending,
                    Stopped, Owing, NullsBetweenAnswers, AtrOnTime

\* Where the card neither owes an answer nor waits for its ATR, the clock is free.
LEMMA Elsewhere ==
  ASSUME WellSent(s'), s'.st \notin Owing \cup {"OFF", "WAIT_ATR"}, pc' = "idle" \/ arg' = 0
  PROVE  Clock'
  BY DEF Clock, Purpose, Loaded, TotalSet, Spent, AtrRuns, Sending, Resetting, WellSent

Out == s.timeout /\ "TIMEOUT" \in s.mask
AfterTx(tx) == IF tx THEN TxByte(s) ELSE s
Served(tx) == IF Out THEN TimeOut(AfterTx(tx)) ELSE AfterTx(tx)
NullSent(tx) == Out /\ NullDue(Elapsed(AfterTx(tx)))

\* What one call of the interrupt handler does.
LEMMA IrqFacts ==
  ASSUME IInv, UsartIrq
  PROVE  \E tx \in BOOLEAN :
           /\ tx => "TXRDY" \in s.mask
           /\ tx \/ Out
           /\ Good(AfterTx(tx)) /\ Good(Served(tx)) /\ s' = Served(tx)
           /\ pc' = pc /\ arg' = arg /\ waiting' = waiting /\ next' = next
           /\ gap' = IF tx THEN 0 ELSE gap
           /\ raced' = (raced \/ (Out /\ pc # "idle"))
           /\ silence' = IF \/ NullSent(tx) \/ (s.st = "WAIT_ATR" /\ s'.st = "IN_ATR")
                            \/ tx /\ s.left > 0
                         THEN 0 ELSE silence
           /\ "null" \in faults' =>
                "null" \in faults \/ (NullSent(tx) /\ s.begun /\ s.left > 0 /\ ~tx)
           /\ "atr" \in faults' =>
                "atr" \in faults \/ (s.st = "WAIT_ATR" /\ s'.st = "IN_ATR" /\ silence < AtrDelay /\ ~Resetting)
<1>1. waiting \in Nat /\ Good(s)
  BY TimesAssumption DEF IInv, TypeOK, Good
<1>2. PICK tx \in BOOLEAN :
        /\ tx => "TXRDY" \in s.mask
        /\ tx \/ Out
        /\ s' = After(Served(tx))
        /\ pc' = IF Served(tx).ok THEN pc ELSE "idle"
        /\ arg' = arg /\ waiting' = waiting /\ next' = next
        /\ gap' = IF tx THEN 0 ELSE gap
        /\ raced' = (raced \/ (Out /\ pc # "idle"))
        /\ silence' = IF \/ NullSent(tx) \/ (s.st = "WAIT_ATR" /\ s'.st = "IN_ATR")
                         \/ tx /\ s.left > 0
                      THEN 0 ELSE silence
        /\ faults' = faults
             \cup {x \in {"assert"} : ~Served(tx).ok}
             \cup {x \in {"null"} : NullSent(tx) /\ AfterTx(tx).begun /\ AfterTx(tx).left > 0 /\ ~tx}
             \cup {x \in {"atr"} : (s.st = "WAIT_ATR" /\ s'.st = "IN_ATR") /\ silence < AtrDelay /\ ~Resetting}
  <2>1. PICK tx \in {FALSE} \cup {"TXRDY" \in s.mask} :
          LET out == s.timeout /\ "TIMEOUT" \in s.mask
              f == IF tx THEN TxByte(s) ELSE s
              g == Elapsed(f)
              h == IF out THEN TimeOut(f) ELSE f
              null == out /\ NullDue(g)
              atr == s.st = "WAIT_ATR" /\ s'.st = "IN_ATR"
          IN /\ tx \/ out
             /\ s' = After(h)
             /\ silence' = IF null \/ atr \/ (tx /\ s.left > 0) THEN 0 ELSE silence
             /\ gap' = IF tx THEN 0 ELSE gap
             /\ raced' = (raced \/ (out /\ pc # "idle"))
             /\ faults' = faults
                  \cup {x \in {"assert"} : ~h.ok}
                  \cup {x \in {"null"} : null /\ f.begun /\ f.left > 0 /\ ~tx}
                  \cup {x \in {"atr"} : atr /\ silence < AtrDelay /\ ~Resetting}
             /\ pc' = IF h.ok THEN pc ELSE "idle"
             /\ UNCHANGED <<waiting, arg, next>>
    BY DEF UsartIrq
  <2>2. tx \in BOOLEAN /\ (tx => "TXRDY" \in s.mask)
    <3>1. tx \in {FALSE} \cup {"TXRDY" \in s.mask}
      BY <2>1
    <3>2. CASE "TXRDY" \in s.mask
      BY <3>1, <3>2
    <3>3. CASE ~("TXRDY" \in s.mask)
      <4>1. ("TXRDY" \in s.mask) = FALSE
        BY <3>3, SMT
      <4>2. tx = FALSE
        BY <3>1, <4>1, Zenon
      <4> QED BY <4>2, Zenon
    <3> QED BY <3>2, <3>3
  <2>3. /\ tx \/ Out
        /\ s' = After(Served(tx))
        /\ pc' = IF Served(tx).ok THEN pc ELSE "idle"
        /\ arg' = arg /\ waiting' = waiting /\ next' = next
        /\ gap' = IF tx THEN 0 ELSE gap
        /\ raced' = (raced \/ (Out /\ pc # "idle"))
    BY <2>1, Zenon DEF Out, AfterTx, Served, NullSent
  <2>4. silence' = IF \/ NullSent(tx) \/ (s.st = "WAIT_ATR" /\ s'.st = "IN_ATR")
                      \/ tx /\ s.left > 0
                   THEN 0 ELSE silence
    BY <2>1, Zenon DEF Out, AfterTx, Served, NullSent
  <2>5. faults' = faults
             \cup {x \in {"assert"} : ~Served(tx).ok}
             \cup {x \in {"null"} : NullSent(tx) /\ AfterTx(tx).begun /\ AfterTx(tx).left > 0 /\ ~tx}
             \cup {x \in {"atr"} : (s.st = "WAIT_ATR" /\ s'.st = "IN_ATR") /\ silence < AtrDelay /\ ~Resetting}
    BY <2>1, Zenon DEF Out, AfterTx, Served, NullSent
  <2> QED BY <2>2, <2>3, <2>4, <2>5, Zenon
<1>3. Good(AfterTx(tx)) /\ Good(Served(tx))
  BY <1>1, TxByteGood, TimeOutGood DEF AfterTx, Served
<1>4. s' = Served(tx) /\ pc' = pc
  BY <1>2, <1>3 DEF After, Good
<1>5. ~tx => AfterTx(tx) = s
  BY DEF AfterTx
<1>6. "null" \in faults' =>
        "null" \in faults \/ (NullSent(tx) /\ s.begun /\ s.left > 0 /\ ~tx)
  BY <1>2, <1>5
<1>7. "atr" \in faults' =>
        "atr" \in faults \/ (s.st = "WAIT_ATR" /\ s'.st = "IN_ATR" /\ silence < AtrDelay /\ ~Resetting)
  BY <1>2
<1> QED BY <1>2, <1>3, <1>4, <1>6, <1>7

\* Card and clock after the transmitter's interrupt found nothing to send.
LEMMA AfterTxNone ==
  ASSUME Good(s), s.left = 0, s.st # "IN_ATR", NEW tx \in BOOLEAN
  PROVE  LET f == AfterTx(tx)
         IN /\ Good(f) /\ f.st = s.st /\ f.left = s.left /\ f.begun = s.begun /\ f.flags = s.flags
            /\ f.total = s.total /\ f.remaining = s.remaining /\ f.half = s.half
            /\ f.rtor = s.rtor /\ f.count = s.count /\ f.timeout = s.timeout
            /\ f.mask = IF tx THEN s.mask \ {"TXRDY"} ELSE s.mask
<1>1. CASE tx
  <2>1. AfterTx(tx) = Quiet(s)
    BY <1>1, TxByteNone DEF AfterTx
  <2> QED BY <1>1, <2>1, QuietFields
<1>2. CASE ~tx
  BY <1>2 DEF AfterTx
<1> QED BY <1>1, <1>2

LEMMA CountingSame ==
  ASSUME NEW f, NEW g, NEW sil, Counting(f, sil),
         g.total = f.total, g.remaining = f.remaining, g.half = f.half,
         g.rtor = f.rtor, g.count = f.count, g.timeout = f.timeout
  PROVE  Counting(g, sil)
  BY DEF Counting

\* The interrupt of a card that is sending an answer.
LEMMA IrqSending ==
  ASSUME IInv, CInv, UsartIrq, s.st \in Owing, s.left > 0
  PROVE  Clock'
<1>0. /\ Good(s) /\ WellSent(s) /\ pc = "idle" /\ waiting \in Times /\ s.total = waiting
      /\ silence \in Nat /\ waiting \in Nat /\ raced \in BOOLEAN /\ gap \in 0..1 /\ s.left # 0
      /\ "TIMEOUT" \in s.mask
  BY TimesAssumption
     DEF IInv, TypeOK, Good, Fields, CInv, Clock, Purpose, TotalSet, Resetting, WellSent
<1>1. PICK tx \in BOOLEAN :
        /\ tx => "TXRDY" \in s.mask
        /\ tx \/ Out
        /\ Good(AfterTx(tx)) /\ Good(Served(tx)) /\ s' = Served(tx)
        /\ pc' = pc /\ arg' = arg /\ waiting' = waiting /\ next' = next
        /\ gap' = IF tx THEN 0 ELSE gap
        /\ raced' = (raced \/ (Out /\ pc # "idle"))
        /\ silence' = IF \/ NullSent(tx) \/ (s.st = "WAIT_ATR" /\ s'.st = "IN_ATR")
                         \/ tx /\ s.left > 0
                      THEN 0 ELSE silence
  BY IrqFacts
<1> DEFINE f == AfterTx(tx)
           h == Served(tx)
<1>2. h = IF Out THEN TimeOut(f) ELSE f
  BY DEF Served
<1>3. raced' = raced /\ pc' = "idle" /\ s.st # "WAIT_ATR"
  BY <1>0, <1>1 DEF Owing
<1>4. tx => f = TxByte(s)
  BY DEF AfterTx
<1>5. ~tx => f = s
  BY DEF AfterTx
<1>6. Out <=> s.timeout /\ "TIMEOUT" \in s.mask
  BY DEF Out
<1>7. NullSent(tx) <=> Out /\ NullDue(Elapsed(f))
  BY DEF NullSent
<1>8. Good(f) /\ Good(h) /\ s' = h
  BY <1>1
<1> HIDE DEF f, h
<1>9. SUFFICES /\ WellSent(h) /\ h.st \notin {"OFF", "WAIT_ATR"}
               /\ h.st \in Owing =>
                    /\ h.total = waiting
                    /\ ~raced => Counting(h, silence')
                    /\ h.begun => "TXRDY" \in h.mask /\ h.timeout = FALSE /\ h.count + gap' >= 2
  BY <1>0, <1>1, <1>3, <1>8
     DEF Clock, WellSent, Purpose, Loaded, TotalSet, Spent, AtrRuns, Sending, Resetting
<1>10. CASE tx
  <2>1. /\ WellSent(f) /\ f.st \in {"WAIT_PB", "WAIT_TX", "WAIT_RX", "WAIT_TPDU"}
        /\ f.st \in Owing => Fresh(f, waiting) /\ f.timeout = s.timeout /\ f.mask = s.mask
    BY <1>0, <1>4, <1>10, TxByteOwing
  <2>2. silence' = 0 /\ gap' = 0 /\ "TXRDY" \in s.mask
    BY <1>1, <1>10
  <2>3. f.st \in Owing => Counting(f, 0) /\ f.count > 1 /\ f.total = waiting /\ f.count \in Nat
    <3> SUFFICES ASSUME Fresh(f, waiting)
                 PROVE  Counting(f, 0) /\ f.count > 1 /\ f.total = waiting /\ f.count \in Nat
      BY <2>1
    <3>1. 0 \in Nat /\ 0 <= 2
      OBVIOUS
    <3>2. Counting(f, 0) /\ f.count > 1
      BY <1>0, <3>1, FreshCounting
    <3>3. f.total = waiting /\ f.count \in Nat
      BY <1>8 DEF Fresh, Good, Fields
    <3> QED BY <3>2, <3>3
  <2>4. CASE ~Out
    <3>1. h = f /\ s.timeout = FALSE
      BY <1>0, <1>2, <1>6, <2>4 DEF Good, Fields
    <3> QED BY <2>1, <2>2, <2>3, <3>1
  <2>5. CASE Out
    <3>1. h = TimeOut(f) /\ f.st # "WAIT_ATR"
      BY <1>2, <2>1, <2>5
    <3>2. Card(h) = Card(f)
      BY <1>8, <3>1, TimeOutCard
    <3>3. WellSent(h) /\ h.st = f.st /\ h.mask = f.mask
      BY <2>1, <3>2, WellSentCard, CardFields
    <3>4. f.st \in Owing =>
            /\ h.total = waiting /\ h.timeout = FALSE /\ h.count > 1 /\ h.count \in Nat
            /\ Counting(h, IF NullDue(Elapsed(f)) THEN 0 ELSE 0)
      <4> SUFFICES ASSUME f.st \in Owing
                   PROVE  /\ h.total = waiting /\ h.timeout = FALSE /\ h.count > 1 /\ h.count \in Nat
                          /\ Counting(h, IF NullDue(Elapsed(f)) THEN 0 ELSE 0)
        OBVIOUS
      <4>1. Good(f) /\ f.total = waiting /\ Counting(f, 0) /\ Fresh(f, f.total)
        BY <1>8, <2>1, <2>3
      <4>2. h.count \in Nat
        BY <1>8 DEF Good, Fields
      <4>3. f.total \in Times /\ 0 \in Nat
        BY <4>1, <1>0
      <4>4. /\ h.total = f.total /\ h.timeout = FALSE
            /\ Counting(h, IF NullDue(Elapsed(f)) THEN 0 ELSE 0)
            /\ Fresh(f, f.total) => h.count > 1
        BY <4>1, <4>3, <3>1, TimeOutCounting
      <4> QED BY <4>1, <4>2, <4>4
    <3> QED BY <2>1, <2>2, <3>3, <3>4
  <2> QED BY <2>4, <2>5
<1>11. CASE ~tx
  <2>1. Out /\ f = s /\ h = TimeOut(s)
    BY <1>1, <1>2, <1>5, <1>11
  <2>2. s.begun = FALSE
    BY <1>0, <1>6, <2>1 DEF CInv, Clock, Sending, Good, Fields
  <2>3. Card(h) = Card(s) /\ h.total = s.total
    BY <1>0, <1>3, <2>1, TimeOutCard
  <2>4. WellSent(h) /\ h.st = s.st /\ h.begun = FALSE
    BY <1>0, <2>2, <2>3, WellSentCard, CardFields
  <2>5. silence' = IF NullDue(Elapsed(s)) THEN 0 ELSE silence
    BY <1>1, <1>3, <1>7, <1>11, <2>1
  <2>6. ASSUME ~raced PROVE Counting(h, silence')
    <3>1. Counting(s, silence)
      BY <1>0, <2>6 DEF CInv, Clock, Spent, Resetting
    <3>2. Counting(h, IF NullDue(Elapsed(s)) THEN 0 ELSE silence)
      BY <1>0, <2>1, <3>1, TimeOutCounting
    <3> QED BY <2>5, <3>2
  <2> QED BY <1>0, <2>3, <2>4, <2>6 DEF Owing
<1> QED BY <1>10, <1>11

\* The interrupt of a card that owes an answer and has none yet.
LEMMA IrqOwing ==
  ASSUME IInv, CInv, UsartIrq, s.st \in Owing, s.left = 0
  PROVE  Clock'
<1>0. /\ Good(s) /\ WellSent(s) /\ waiting \in Times /\ waiting \in Nat
      /\ silence \in Nat /\ raced \in BOOLEAN /\ gap \in 0..1
      /\ s.begun = FALSE /\ s.st \notin {"OFF", "IN_ATR", "WAIT_ATR"}
  BY TimesAssumption
     DEF IInv, TypeOK, Good, Fields, CInv, Clock, WellSent, Owing
<1>1. PICK tx \in BOOLEAN :
        /\ tx => "TXRDY" \in s.mask
        /\ tx \/ Out
        /\ Good(AfterTx(tx)) /\ Good(Served(tx)) /\ s' = Served(tx)
        /\ pc' = pc /\ arg' = arg /\ waiting' = waiting /\ next' = next
        /\ gap' = IF tx THEN 0 ELSE gap
        /\ raced' = (raced \/ (Out /\ pc # "idle"))
        /\ silence' = IF \/ NullSent(tx) \/ (s.st = "WAIT_ATR" /\ s'.st = "IN_ATR")
                         \/ tx /\ s.left > 0
                      THEN 0 ELSE silence
  BY IrqFacts
<1> DEFINE f == AfterTx(tx)
           h == Served(tx)
<1>2. h = IF Out THEN TimeOut(f) ELSE f
  BY DEF Served
<1>3. /\ f.st = s.st /\ f.left = 0 /\ f.begun = FALSE /\ f.flags = s.flags
      /\ f.total = s.total /\ f.remaining = s.remaining /\ f.half = s.half
      /\ f.rtor = s.rtor /\ f.count = s.count /\ f.timeout = s.timeout
      /\ f.mask = IF tx THEN s.mask \ {"TXRDY"} ELSE s.mask
  BY <1>0, AfterTxNone
<1>4. NullSent(tx) <=> Out /\ NullDue(Elapsed(f))
  BY DEF NullSent
<1>5. Good(f) /\ Good(h) /\ s' = h
  BY <1>1
<1> HIDE DEF f, h
<1>6. /\ h.st = s.st /\ h.left = 0 /\ h.begun = FALSE /\ h.mask = f.mask /\ h.total = s.total
  <2>1. CASE Out
    <3>1. Card(h) = Card(f) /\ h.total = f.total
      BY <1>0, <1>2, <1>3, <1>5, <2>1, TimeOutCard
    <3> QED BY <1>3, <3>1, CardFields
  <2>2. CASE ~Out
    BY <1>2, <1>3, <2>2
  <2> QED BY <2>1, <2>2
<1>7. WellSent(h)
  BY <1>0, <1>3, <1>6 DEF WellSent, Owing
<1>8. silence' = IF NullSent(tx) THEN 0 ELSE silence
  BY <1>0, <1>1
<1>9. Purpose' /\ TotalSet' /\ AtrRuns' /\ Sending'
  BY <1>0, <1>1, <1>5, <1>6
     DEF CInv, Clock, Purpose, TotalSet, AtrRuns, Sending, Resetting, Owing
<1>10. Loaded'
  <2> SUFFICES ASSUME pc = "rtor", arg # 0, ~raced'
               PROVE  Whole(h) /\ Unhalved(h) /\ (h.total # 0 => next = First(h.total))
    BY <1>1, <1>5 DEF Loaded, Whole, Unhalved
  <2>1. ~raced /\ ~Out
    BY <1>1
  <2>2. h = f
    BY <1>2, <2>1
  <2> QED BY <1>3, <2>1, <2>2 DEF CInv, Clock, Loaded, Whole, Unhalved
<1>11. Spent'
  <2> SUFFICES ASSUME ~Resetting, ~raced'
               PROVE  IF pc = "idle" THEN Counting(h, silence')
                      ELSE silence' <= gap' + (IF "TXRDY" \in h.mask THEN 0 ELSE 1)
    BY <1>1, <1>5 DEF Spent, Resetting
  <2>1. ~raced
    BY <1>1
  <2>2. CASE pc = "idle"
    <3>1. Counting(s, silence)
      BY <2>1, <2>2 DEF CInv, Clock, Spent, Resetting
    <3>2. Counting(f, silence)
      BY <1>3, <3>1, CountingSame
    <3>3. s.total = waiting
      BY <2>2 DEF CInv, Clock, TotalSet, Resetting
    <3>4. CASE Out
      <4>1. Counting(h, IF NullDue(Elapsed(f)) THEN 0 ELSE silence)
        BY <1>0, <1>2, <1>3, <1>5, <3>2, <3>3, <3>4, TimeOutCounting
      <4>2. silence' = IF NullDue(Elapsed(f)) THEN 0 ELSE silence
        BY <1>4, <1>8, <3>4
      <4> QED BY <2>2, <4>1, <4>2
    <3>5. CASE ~Out
      BY <1>2, <1>4, <1>8, <2>2, <3>2, <3>5
    <3> QED BY <3>4, <3>5
  <2>3. CASE pc # "idle"
    <3>1. ~Out /\ tx
      BY <1>1, <2>3
    <3>2. h = f /\ silence' = silence /\ gap' = 0 /\ "TXRDY" \notin h.mask /\ "TXRDY" \in s.mask
      BY <1>1, <1>2, <1>3, <1>4, <1>8, <3>1
    <3>3. silence <= gap + 0
      BY <2>1, <2>3, <3>2 DEF CInv, Clock, Spent
    <3>4. silence <= 1
      BY <3>3, <1>0
    <3> QED BY <2>3, <3>2, <3>4
  <2> QED BY <2>2, <2>3
<1> QED BY <1>5, <1>7, <1>9, <1>10, <1>11 DEF Clock, WellSent

\* The interrupt during the ATR, or of a card that waits for the reader.
LEMMA IrqElsewhere ==
  ASSUME IInv, CInv, UsartIrq, s.st \notin Owing \cup {"WAIT_ATR", "OFF"}
  PROVE  Clock'
<1>0. Good(s) /\ WellSent(s) /\ waiting \in Nat /\ (pc = "idle" \/ arg = 0) /\ s.left \in Nat
  BY TimesAssumption DEF IInv, TypeOK, Good, Fields, CInv, Clock, Purpose
<1>1. PICK tx \in BOOLEAN :
        /\ Good(AfterTx(tx)) /\ s' = Served(tx)
        /\ pc' = pc /\ arg' = arg
  BY IrqFacts
<1> DEFINE f == AfterTx(tx)
<1>2. s' = IF Out THEN TimeOut(f) ELSE f
  BY <1>1 DEF Served
<1>3. WellSent(f) /\ f.st \notin Owing \cup {"WAIT_ATR", "OFF"}
  <2>1. CASE s.st = "IN_ATR"
    <3>1. CASE tx
      BY <1>0, <2>1, <3>1, TxByteAtr DEF AfterTx, Owing
    <3>2. CASE ~tx
      BY <1>0, <2>1, <3>2 DEF AfterTx, Owing
    <3> QED BY <3>1, <3>2
  <2>2. CASE s.st # "IN_ATR"
    <3>1. s.left = 0 /\ s.begun = FALSE
      BY <1>0, <2>2 DEF WellSent, Good, Fields
    <3>2. f.st = s.st /\ f.left = 0 /\ f.begun = FALSE
      BY <1>0, <2>2, <3>1, AfterTxNone
    <3> QED BY <3>2 DEF WellSent, Owing
  <2> QED BY <2>1, <2>2
<1> HIDE DEF f
<1>4. WellSent(s') /\ s'.st = f.st
  <2>1. CASE Out
    <3>1. Card(TimeOut(f)) = Card(f)
      BY <1>1, <1>3, TimeOutCard DEF f
    <3> QED BY <1>2, <1>3, <2>1, <3>1, WellSentCard, CardFields
  <2>2. CASE ~Out
    BY <1>2, <1>3, <2>2
  <2> QED BY <2>1, <2>2
<1>5. s'.st \notin Owing \cup {"OFF", "WAIT_ATR"}
  BY <1>3, <1>4
<1> QED BY <1>0, <1>1, <1>4, <1>5, Elsewhere

\* The USART is off, or the ATR is due later: TIMEOUT may end its delay.
LEMMA IrqAtr ==
  ASSUME IInv, CInv, UsartIrq, s.st \in {"WAIT_ATR", "OFF"}
  PROVE  /\ Clock'
         /\ s.st = "WAIT_ATR" /\ s'.st = "IN_ATR" /\ ~Resetting => silence >= AtrDelay
<1>0. /\ Good(s) /\ WellSent(s) /\ waiting \in Nat /\ silence \in Nat
      /\ s.left = 0 /\ s.begun = FALSE /\ s.st # "IN_ATR" /\ s.st \notin Owing
      /\ AtrDelay \in Nat /\ AtrDelay # 0 /\ waiting # 0
  BY TimesAssumption DEF IInv, TypeOK, Good, Fields, CInv, Clock, WellSent, Owing
<1>1. PICK tx \in BOOLEAN :
        /\ tx => "TXRDY" \in s.mask
        /\ tx \/ Out
        /\ Good(AfterTx(tx)) /\ Good(Served(tx)) /\ s' = Served(tx)
        /\ pc' = pc /\ arg' = arg /\ waiting' = waiting /\ next' = next
        /\ raced' = (raced \/ (Out /\ pc # "idle"))
        /\ silence' = IF \/ NullSent(tx) \/ (s.st = "WAIT_ATR" /\ s'.st = "IN_ATR")
                         \/ tx /\ s.left > 0
                      THEN 0 ELSE silence
  BY IrqFacts
<1> DEFINE f == AfterTx(tx)
           h == Served(tx)
<1>2. h = IF Out THEN TimeOut(f) ELSE f
  BY DEF Served
<1>3. /\ Good(f) /\ f.st = s.st /\ f.left = 0 /\ f.begun = FALSE
      /\ f.total = s.total /\ f.remaining = s.remaining /\ f.half = s.half
      /\ f.rtor = s.rtor /\ f.count = s.count /\ f.timeout = s.timeout
  BY <1>0, AfterTxNone
<1>4. ~NullSent(tx)
  <2>1. Elapsed(f).st \notin Owing
    BY <1>0, <1>3, ElapsedFields, CardFields
  <2> QED BY <2>1 DEF NullSent, NullDue
<1>5. WellSent(f)
  BY <1>0, <1>3 DEF WellSent
<1>6. Good(f) /\ Good(h) /\ s' = h
  BY <1>1
<1>7. Out => s.timeout
  BY DEF Out
<1> HIDE DEF f, h
\* nothing is due: the state is as it was, but for the transmitter
<1>8. CASE ~Out
  <2>1. h = f /\ silence' = silence /\ raced' = raced
    <3>1. raced' = raced
      BY <1>1, <1>8, <1>0 DEF IInv, TypeOK
    <3> QED BY <1>0, <1>1, <1>2, <1>3, <1>4, <1>6, <1>8, <3>1
  <2>2. Purpose' /\ TotalSet' /\ Spent' /\ Sending'
    BY <1>0, <1>1, <1>3, <1>6, <2>1
       DEF CInv, Clock, Purpose, TotalSet, Spent, Sending, Resetting, Stopped
  <2>3. AtrRuns'
    BY <1>0, <1>1, <1>3, <1>6, <2>1 DEF CInv, Clock, AtrRuns
  <2>4. Loaded'
    BY <1>1, <1>3, <1>6, <2>1 DEF CInv, Clock, Loaded, Whole, Unhalved
  <2>5. WellSent(s')
    BY <1>5, <1>6, <2>1
  <2> QED BY <1>0, <1>3, <1>6, <2>1, <2>2, <2>3, <2>4, <2>5 DEF Clock
\* a time-out: the delay runs, or the card is being reset
<1>9. CASE Out
  <2>1. s.timeout = TRUE /\ s.st = "WAIT_ATR" /\ (pc = "idle" \/ arg = 0)
    <3>1. s.timeout = TRUE
      BY <1>7, <1>9, <1>0 DEF Good, Fields
    <3>2. ~Stopped(s)
      BY <3>1 DEF Stopped
    <3>3. s.st # "OFF" /\ (pc # "idle" /\ arg # 0 => s.st \in Owing)
      BY <3>2 DEF CInv, Clock, Purpose
    <3> QED BY <1>0, <3>1, <3>3
  <2>2. h = TimeOut(f)
    BY <1>2, <1>9
  <2>3. CASE pc # "idle"
    <3>1. arg = 0
      BY <2>1, <2>3
    <3>2. Purpose' /\ TotalSet' /\ Spent' /\ Sending' /\ AtrRuns' /\ Loaded' /\ WellSent(h)
      <4>1. WellSent(h) /\ h.st \notin Owing /\ h.st # "OFF"
        <5>1. CASE f.total = 0
          <6> DEFINE g == Elapsed(f)
                     n == NextRound(g)
                     a == [g EXCEPT !.st = "IN_ATR", !.mask = {"TXRDY", "TIMEOUT"}]
                     u == UpdateWt(a, waiting)
          <6>1. Good(g) /\ Card(g) = Card(f) /\ g.total = 0
            BY <1>3, <5>1, ElapsedFields
          <6>2. h = IF g.remaining = 0 THEN Expired(g) ELSE IF NullDue(g) THEN ResetWt(n) ELSE n
            BY <2>2 DEF TimeOut
          <6>3. g.st = "WAIT_ATR"
            BY <1>3, <2>1, <6>1, CardFields
          <6> HIDE DEF g
          <6>4. ~NullDue(g)
            BY <6>3 DEF NullDue, Owing
          <6>5. Card(n) = Card(g)
            BY <6>1, NextRoundNone
          <6> HIDE DEF n
          <6>6. Good(a) /\ a.st = "IN_ATR" /\ Expired(g) = [u EXCEPT !.left = AtrLen]
            BY <6>1, <6>3 DEF Good, Fields, State, Irq, Expired
          <6> HIDE DEF a
          <6>7. Good(u) /\ u.st = "IN_ATR"
            BY <1>0, <6>6, UpdateWtGood, UpdateWtFresh, CardFields
          <6> HIDE DEF u
          <6>8. [u EXCEPT !.left = AtrLen].st = "IN_ATR"
            BY <6>7 DEF Good, Fields
          <6>9. CASE h = n
            BY <1>5, <2>1, <1>3, <6>1, <6>5, <6>9, WellSentCard, CardFields DEF Owing
          <6>10. CASE h = Expired(g)
            BY <6>6, <6>8, <6>10 DEF WellSent, Owing
          <6> QED BY <6>2, <6>4, <6>9, <6>10
        <5>2. CASE f.total # 0
          <6>1. \/ h.st = "IN_ATR" /\ WellSent(h)
                \/ Card(h) = Card(f)
            BY <1>0, <1>3, <2>1, <2>2, <5>2, TimeOutAtr
          <6> QED BY <1>3, <1>5, <2>1, <6>1, WellSentCard, CardFields DEF Owing
        <5> QED BY <5>1, <5>2
      <4> QED BY <1>1, <1>6, <2>3, <3>1, <4>1
              DEF Purpose, TotalSet, Spent, Sending, AtrRuns, Loaded, Resetting
    <3> QED BY <1>6, <2>3, <3>1, <3>2 DEF Clock, Resetting
  <2>4. CASE pc = "idle"
    <3>1. /\ s.total = AtrDelay /\ s.rtor > 0 /\ s.rtor <= s.remaining
          /\ silence + s.remaining + s.count >= AtrDelay + s.rtor /\ s.count = 0
      BY <2>1, <2>4 DEF CInv, Clock, TotalSet, AtrRuns, Resetting
    <3>2. /\ f.remaining \in Nat /\ f.rtor \in Nat
          /\ \/ f.remaining <= f.rtor /\ h.st = "IN_ATR" /\ WellSent(h)
             \/ /\ ~(f.remaining <= f.rtor) /\ Card(h) = Card(f) /\ h.total = f.total
                /\ h.remaining = f.remaining - f.rtor /\ h.timeout = FALSE
                /\ h.count = h.rtor /\ h.rtor > 0 /\ h.rtor <= h.remaining
      BY <1>0, <1>3, <2>1, <2>2, <3>1, TimeOutAtr
    <3>3. CASE f.remaining <= f.rtor /\ h.st = "IN_ATR" /\ WellSent(h)
      <4>1. silence >= AtrDelay
        BY <1>0, <1>3, <3>1, <3>2, <3>3
      <4>2. Clock'
        BY <1>1, <1>6, <2>4, <3>3, Elsewhere DEF Owing
      <4> QED BY <4>1, <4>2
    <3>4. CASE /\ ~(f.remaining <= f.rtor) /\ Card(h) = Card(f) /\ h.total = f.total
               /\ h.remaining = f.remaining - f.rtor /\ h.timeout = FALSE
               /\ h.count = h.rtor /\ h.rtor > 0 /\ h.rtor <= h.remaining
      <4>1. WellSent(h) /\ h.st = "WAIT_ATR"
        BY <1>3, <1>5, <2>1, <3>4, WellSentCard, CardFields
      <4>2. silence' = silence
        BY <1>0, <1>1, <1>4, <1>6, <4>1
      <4>3. silence + h.remaining + h.count >= AtrDelay + h.rtor
        <5>1. h.rtor \in Nat /\ h.remaining \in Nat
          BY <1>6, TimesAssumption DEF Good, Fields
        <5> QED BY <5>1, <1>0, <1>3, <3>1, <3>2, <3>4
      <4>4. AtrRuns'
        BY <1>6, <3>4, <4>1, <4>2, <4>3 DEF AtrRuns
      <4>5. Purpose' /\ TotalSet' /\ Spent' /\ Sending' /\ Loaded'
        BY <1>1, <1>3, <1>6, <2>4, <3>1, <3>4, <4>1
           DEF Purpose, TotalSet, Spent, Sending, Loaded, Resetting, Owing
      <4> QED BY <1>6, <4>1, <4>4, <4>5 DEF Clock
    <3> QED BY <3>2, <3>3, <3>4
  <2> QED BY <2>3, <2>4
<1> QED BY <1>8, <1>9

LEMMA UsartIrqClock == IInv /\ CInv /\ UsartIrq => CInv'
<1> SUFFICES ASSUME IInv, CInv, UsartIrq PROVE CInv'
  OBVIOUS
<1>0. s.left \in Nat /\ Good(s) /\ s.timeout \in BOOLEAN /\ silence \in Nat /\ AtrDelay \in Nat
  BY TimesAssumption DEF IInv, TypeOK, Good, Fields
<1>1. Clock' /\ (s.st = "WAIT_ATR" /\ s'.st = "IN_ATR" /\ ~Resetting => silence >= AtrDelay)
  <2>1. CASE s.st \in Owing /\ s.left > 0
    BY <2>1, IrqSending DEF Owing
  <2>2. CASE s.st \in Owing /\ s.left = 0
    BY <2>2, IrqOwing DEF Owing
  <2>3. CASE s.st \in {"WAIT_ATR", "OFF"}
    BY <2>3, IrqAtr
  <2>4. CASE s.st \notin Owing \cup {"WAIT_ATR", "OFF"}
    BY <2>4, IrqElsewhere
  <2>5. s.left > 0 \/ s.left = 0
    BY <1>0
  <2> QED BY <2>1, <2>2, <2>3, <2>4, <2>5
<1>2. PICK tx \in BOOLEAN :
        /\ tx \/ Out
        /\ "null" \in faults' =>
             "null" \in faults \/ (NullSent(tx) /\ s.begun /\ s.left > 0 /\ ~tx)
        /\ "atr" \in faults' =>
             "atr" \in faults \/ (s.st = "WAIT_ATR" /\ s'.st = "IN_ATR" /\ silence < AtrDelay /\ ~Resetting)
  BY IrqFacts
<1>3. NullsBetweenAnswers'
  <2>1. NullSent(tx) /\ ~tx => s.st \in Owing
    <3> SUFFICES ASSUME NullSent(tx), ~tx PROVE s.st \in Owing
      OBVIOUS
    <3>1. NullDue(Elapsed(s))
      BY DEF NullSent, AfterTx
    <3> QED BY <3>1, <1>0, ElapsedFields, CardFields DEF NullDue
  <2>2. s.st \in Owing /\ s.begun => ~Out
    BY DEF CInv, Clock, Sending, Out
  <2> QED BY <1>2, <2>1, <2>2 DEF CInv, NullsBetweenAnswers
<1>4. AtrOnTime'
  <2>1. ~(silence >= AtrDelay /\ silence < AtrDelay)
    BY <1>0
  <2> QED BY <1>1, <1>2, <2>1 DEF CInv, AtrOnTime
<1> QED BY <1>1, <1>3, <1>4 DEF CInv

LEMMA TickClock == IInv /\ CInv /\ Tick => CInv'
<1> SUFFICES ASSUME IInv, CInv, Tick PROVE CInv'
  OBVIOUS
<1>0. /\ Good(s) /\ s.count \in Nat /\ s.rtor \in Nat /\ s.remaining \in Nat /\ s.total \in Nat
      /\ s.timeout \in BOOLEAN /\ silence \in Nat /\ gap \in 0..1 /\ WellSent(s)
      /\ AtrDelay \in Nat /\ Clock /\ s.total \div 2 \in Nat
  BY TimesAssumption, HalfType DEF IInv, TypeOK, Good, Fields, CInv, Clock
<1> DEFINE c == IF s.count = 0 THEN 0 ELSE s.count - 1
           o == s.timeout \/ s.count = 1
<1>a. c \in Nat /\ o \in BOOLEAN
  BY <1>0
<1>b. s' = [s EXCEPT !.count = c, !.timeout = o]
  BY DEF Tick
<1>1. /\ Card(s') = Card(s) /\ s'.total = s.total /\ s'.remaining = s.remaining
      /\ s'.half = s.half /\ s'.rtor = s.rtor /\ s'.count = c /\ s'.timeout = o
  <2> HIDE DEF c, o
  <2> QED BY <1>0, <1>a, <1>b DEF Good, Fields, Card
<1>2. /\ s'.st = s.st /\ s'.left = s.left /\ s'.begun = s.begun /\ s'.mask = s.mask /\ WellSent(s')
  BY <1>0, <1>1, CardFields, WellSentCard
<1>3. /\ pc' = pc /\ arg' = arg /\ waiting' = waiting /\ next' = next /\ raced' = raced
      /\ faults' = faults /\ silence' = silence + 1
      /\ gap' = IF pc # "idle" \/ "TXRDY" \in s.mask THEN 1 ELSE 0
      /\ (pc # "idle" \/ "TXRDY" \in s.mask) => gap = 0
      /\ s.count > 0 \/ s.st \in Owing
      /\ ~Pending
  BY DEF Tick
<1>4. s.st \in Owing => s.timeout = FALSE
  BY <1>0, <1>3 DEF Pending, WellSent
<1>5. s.st = "OFF" \/ s.st = "WAIT_ATR" => s.count > 0
  BY <1>3 DEF Owing
<1>6. Purpose'
  BY <1>0, <1>2, <1>3, <1>5 DEF Clock, Purpose, Stopped, Owing
<1>7. Loaded' /\ TotalSet'
  BY <1>0, <1>1, <1>2, <1>3 DEF Clock, Loaded, TotalSet, Resetting, Whole, Unhalved
<1>8. Spent'
  <2> SUFFICES ASSUME s.st \in Owing, ~Resetting, ~raced
               PROVE  IF pc = "idle" THEN Counting(s', silence + 1)
                      ELSE silence + 1 <= 1 + (IF "TXRDY" \in s.mask THEN 0 ELSE 1)
    BY <1>2, <1>3 DEF Spent, Resetting
  <2>1. CASE pc = "idle"
    <3>1. Counting(s, silence)
      BY <1>0, <2>1 DEF Clock, Spent, Resetting
    <3>2. s.count > 0
      BY <1>0, <1>4, <3>1 DEF Counting
    <3>3. c = s.count - 1 /\ (c = 0 => o)
      BY <1>0, <3>2
    <3> HIDE DEF c, o
    <3>4. (silence + 1) + s.remaining + c <= s.total + 2 + s.rtor /\ c <= s.rtor
      BY <1>0, <3>1, <3>3 DEF Counting
    <3> QED BY <1>1, <2>1, <3>1, <3>3, <3>4 DEF Counting
  <2>2. CASE pc # "idle"
    BY <1>0, <1>3, <2>2 DEF Clock, Spent, Resetting
  <2> QED BY <2>1, <2>2
<1>9. AtrRuns'
  <2> SUFFICES ASSUME s.st = "WAIT_ATR", pc = "idle"
               PROVE  /\ s.rtor > 0 /\ s.rtor <= s.remaining
                      /\ (silence + 1) + s.remaining + c >= AtrDelay + s.rtor
                      /\ o => c = 0
    BY <1>1, <1>2, <1>3 DEF AtrRuns
  <2>1. /\ s.rtor > 0 /\ s.rtor <= s.remaining
        /\ silence + s.remaining + s.count >= AtrDelay + s.rtor
        /\ s.timeout => s.count = 0
    BY <1>0 DEF Clock, AtrRuns
  <2>2. s.count > 0 /\ c = s.count - 1
    BY <1>0, <1>5
  <2> QED BY <1>0, <2>1, <2>2
<1>10. Sending'
  <2> SUFFICES ASSUME s.st \in Owing, s.begun
               PROVE  "TXRDY" \in s.mask /\ o = FALSE /\ c + 1 >= 2
    BY <1>1, <1>2, <1>3 DEF Sending
  <2>1. "TXRDY" \in s.mask /\ s.timeout = FALSE /\ s.count + gap >= 2 /\ gap = 0
    BY <1>0, <1>3 DEF Clock, Sending
  <2>2. s.count >= 2 /\ c = s.count - 1 /\ s.count # 1
    BY <1>0, <2>1
  <2> QED BY <1>0, <2>1, <2>2
<1> QED BY <1>2, <1>3, <1>6, <1>7, <1>8, <1>9, <1>10
        DEF CInv, Clock, NullsBetweenAnswers, AtrOnTime

\* The record of the fields, one of them assigned.
LEMMA Assigned ==
  ASSUME Good(s), NEW v \in Nat,
         \/ s' = [s EXCEPT !.total = v] \/ s' = [s EXCEPT !.remaining = v] \/ s' = [s EXCEPT !.half = FALSE]
  PROVE  /\ Card(s') = Card(s) /\ s'.rtor = s.rtor /\ s'.count = s.count /\ s'.timeout = s.timeout
         /\ s'.total = s.total \/ s' = [s EXCEPT !.total = v]
  BY DEF Good, Fields, Card

LEMMA UpdateWtStepClock == IInv /\ CInv /\ UpdateWtStep => CInv'
<1> SUFFICES ASSUME IInv, CInv, UpdateWtStep PROVE CInv'
  OBVIOUS
<1>0. /\ Good(s) /\ arg \in Nat /\ s.total \in Nat /\ s.left \in Nat /\ WellSent(s) /\ Clock
      /\ waiting \in Nat /\ waiting \in Times /\ waiting # 0 /\ AtrDelay \in Nat /\ AtrDelay # 0
      /\ silence \in Nat /\ gap \in 0..1 /\ raced \in BOOLEAN
  BY TimesAssumption DEF IInv, TypeOK, Good, Fields, CInv, Clock
\* before US_RTOR is written, only ci->wt changes
<1>1. ASSUME /\ Card(s') = Card(s) /\ s'.rtor = s.rtor /\ s'.count = s.count /\ s'.timeout = s.timeout
             /\ pc # "idle" /\ pc' \notin {"idle", "total"}
             /\ arg' = arg /\ waiting' = waiting /\ gap' = gap /\ raced' = raced /\ silence' = silence
             /\ faults' = faults \/ ("null" \notin faults' /\ "atr" \notin faults')
             /\ ~Resetting => s'.total = arg
             /\ Loaded'
      PROVE  CInv'
  <2>1. s'.st = s.st /\ s'.left = s.left /\ s'.begun = s.begun /\ s'.mask = s.mask /\ WellSent(s')
    BY <1>0, <1>1, CardFields, WellSentCard
  <2>2. Purpose'
    BY <1>0, <1>1, <2>1 DEF Clock, Purpose, Stopped, Owing
  <2>3. TotalSet'
    BY <1>0, <1>1, <2>1 DEF Clock, Purpose, TotalSet, Resetting, Owing
  <2>4. Spent' /\ AtrRuns' /\ Sending'
    BY <1>0, <1>1, <2>1 DEF Clock, Spent, AtrRuns, Sending, Resetting
  <2> QED BY <1>1, <2>1, <2>2, <2>3, <2>4 DEF CInv, Clock, NullsBetweenAnswers, AtrOnTime
<1>2. CASE SetTotal
  <2>1. s' = [s EXCEPT !.total = arg] /\ s'.total = arg
    BY <1>0, <1>2 DEF SetTotal, Good, Fields
  <2> QED BY <1>0, <1>1, <1>2, <2>1, Assigned DEF SetTotal, At, Loaded
<1>3. CASE SetRemaining
  <2>1. s' = [s EXCEPT !.remaining = s.total] /\ s'.total = s.total
    BY <1>0, <1>3 DEF SetRemaining, Good, Fields
  <2>2. ~Resetting => s.total = arg
    BY <1>0, <1>3 DEF Clock, Purpose, TotalSet, Resetting, SetRemaining, At, Owing
  <2> QED BY <1>0, <1>1, <1>3, <2>1, <2>2, Assigned DEF SetRemaining, At, Loaded
<1>4. CASE SetHalf
  <2>1. s' = [s EXCEPT !.half = FALSE] /\ s'.total = s.total
    BY <1>0, <1>4 DEF SetHalf, Good, Fields
  <2>2. ~Resetting => s.total = arg
    BY <1>0, <1>4 DEF Clock, Purpose, TotalSet, Resetting, SetHalf, At, Owing
  <2> QED BY <1>0, <1>1, <1>4, <2>1, <2>2, Assigned DEF SetHalf, At, Loaded
<1>5. CASE Compute
  <2>0. /\ waiting' = waiting /\ arg' = arg /\ gap' = gap /\ raced' = raced /\ silence' = silence
        /\ "null" \notin faults' /\ "atr" \notin faults' /\ pc = "compute"
    BY <1>5 DEF Compute, At, CInv, NullsBetweenAnswers, AtrOnTime
  <2>1. CASE AssertFails(s)
    <3>1. /\ s'.st = "OFF" /\ pc' = "idle" /\ s'.rtor = 0 /\ s'.count = 0 /\ s'.timeout = FALSE
          /\ s'.left = 0 /\ s'.begun = FALSE
      BY <1>5, <2>1 DEF Compute, Booted
    <3> QED BY <2>0, <3>1
            DEF CInv, Clock, WellSent, Purpose, Loaded, TotalSet, Spent, AtrRuns, Sending,
                Stopped, Owing, NullsBetweenAnswers, AtrOnTime
  <2>2. CASE ~AssertFails(s)
    <3>1. s' = s /\ pc' = "rtor" /\ next' = ComputeNextTimeout(s)
      BY <1>5, <2>2 DEF Compute
    <3>2. ~Resetting => s.total = arg
      BY <1>0, <2>0 DEF Clock, Purpose, TotalSet, Resetting, Owing
    <3>3. Loaded'
      <4> SUFFICES ASSUME ~raced
                   PROVE  Whole(s) /\ Unhalved(s) /\ (s.total # 0 => ComputeNextTimeout(s) = First(s.total))
        BY <2>0, <3>1 DEF Loaded, Whole, Unhalved
      <4>1. Whole(s) /\ Unhalved(s)
        BY <2>0 DEF IInv, Reloaded
      <4> QED BY <4>1 DEF Whole, Unhalved, ComputeNextTimeout, First
    <3> QED BY <1>1, <2>0, <3>1, <3>2, <3>3
  <2> QED BY <2>1, <2>2
<1>6. CASE SetRtorRetto
  <2>0. /\ pc = "rtor" /\ pc' = "idle" /\ ~Pending /\ waiting' = waiting /\ arg' = arg /\ next' = next
        /\ gap' = gap /\ raced' = raced /\ faults' = faults
        /\ silence' = IF arg = 0 THEN 0 ELSE silence
    BY <1>6 DEF SetRtorRetto, At
  <2> DEFINE k == SetRtor(s, next)
             f == Retto(k)
             g == [f EXCEPT !.st = "OFF", !.mask = {}, !.left = 0, !.begun = FALSE]
  <2>1. s' = IF arg # 0 THEN f ELSE UpdateWt(g, 0)
    BY <1>6 DEF SetRtorRetto
  <2>2. /\ Good(k) /\ Card(k) = Card(s) /\ k.rtor = next /\ k.timeout = (s.timeout /\ next # 0)
        /\ k.total = s.total /\ k.remaining = s.remaining /\ k.half = s.half
    <3>1. next \in 0..MaxRound
      BY DEF IInv, TypeOK
    <3>2. Card(k) = Card(s) /\ k.rtor = next /\ k.timeout = (s.timeout /\ next # 0)
      BY <1>0 DEF SetRtor, Good, Fields, Card
    <3> QED BY <1>0, <3>1, <3>2, SetRtorGood
  <2> HIDE DEF k
  <2>3. /\ Good(f) /\ Card(f) = Card(s) /\ f.rtor = next /\ f.count = next
        /\ f.timeout = (s.timeout /\ next # 0)
        /\ f.total = s.total /\ f.remaining = s.remaining /\ f.half = s.half
    BY <2>2, RettoGood, RettoFields
  <2> HIDE DEF f
  <2>4. CASE arg = 0
    <3>1. Good(g) /\ g.st = "OFF" /\ g.left = 0 /\ g.begun = FALSE
      BY <2>3 DEF Good, Fields, State
    <3> HIDE DEF g
    <3>2. Stopped(s') /\ s'.st = "OFF" /\ s'.left = 0 /\ s'.begun = FALSE
      BY <2>1, <2>4, <3>1, UpdateWtStops, CardFields
    <3> QED BY <2>0, <3>2
            DEF CInv, Clock, WellSent, Purpose, Loaded, TotalSet, Spent, AtrRuns, Sending,
                Stopped, Owing, NullsBetweenAnswers, AtrOnTime
  <2>5. CASE arg # 0
    <3>1. s' = f /\ silence' = silence
      BY <2>0, <2>1, <2>5
    <3>2. /\ s'.st = s.st /\ s'.left = s.left /\ s'.begun = s.begun /\ s'.mask = s.mask /\ WellSent(s')
      BY <1>0, <2>3, <3>1, CardFields, WellSentCard
    <3>3. \/ s.st \in Owing /\ arg = waiting /\ s.left = 0 /\ s.begun = FALSE
          \/ s.st = "WAIT_ATR" /\ arg = AtrDelay /\ Stopped(s) /\ silence = 0 /\ raced = FALSE
      <4>1. s.left = 0 /\ s.st \in Owing => s.begun = FALSE
        BY <1>0 DEF WellSent, Owing, Good, Fields
      <4> QED BY <1>0, <2>0, <2>5, <4>1 DEF Clock, Purpose
    <3>4. s.total = arg
      BY <1>0, <2>0, <2>5, <3>3 DEF Clock, TotalSet, Resetting, Owing
    <3>5. ~raced => Fresh(s', arg)
      BY <1>0, <2>0, <2>3, <2>5, <3>1, <3>4
         DEF Clock, Loaded, Whole, Unhalved, Fresh
    <3>6. Purpose' /\ Loaded' /\ TotalSet' /\ Sending'
      BY <2>0, <2>3, <3>1, <3>2, <3>3, <3>4
         DEF Purpose, Loaded, TotalSet, Sending, Resetting, Owing
    <3>7. Spent'
      <4> SUFFICES ASSUME s.st \in Owing, ~raced PROVE Counting(s', silence)
        BY <2>0, <3>1, <3>2 DEF Spent
      <4>1. silence <= 2
        BY <1>0, <2>0, <2>5 DEF Clock, Spent, Resetting
      <4>2. Fresh(s', waiting)
        BY <3>3, <3>5 DEF Owing
      <4> QED BY <1>0, <4>1, <4>2, FreshCounting
    <3>8. AtrRuns'
      <4> SUFFICES ASSUME s.st = "WAIT_ATR"
                   PROVE  /\ s'.rtor > 0 /\ s'.rtor <= s'.remaining
                          /\ silence + s'.remaining + s'.count >= AtrDelay + s'.rtor
                          /\ s'.timeout => s'.count = 0
        BY <2>0, <3>1, <3>2 DEF AtrRuns
      <4>1. arg = AtrDelay /\ s.timeout = FALSE /\ silence = 0 /\ Fresh(s', AtrDelay)
        BY <3>3, <3>5 DEF Stopped, Owing
      <4>2. First(AtrDelay) \in Nat /\ First(AtrDelay) > 0 /\ First(AtrDelay) <= AtrDelay - AtrDelay \div 2
        BY <1>0, FirstSome
      <4>3. AtrDelay \div 2 \in Nat
        BY <1>0, HalfType
      <4>4. s'.timeout = FALSE
        BY <2>3, <3>1, <4>1
      <4> QED BY <1>0, <4>1, <4>2, <4>3, <4>4 DEF Fresh
    <3> QED BY <2>0, <3>2, <3>6, <3>7, <3>8 DEF CInv, Clock, NullsBetweenAnswers, AtrOnTime
  <2> QED BY <2>4, <2>5
<1> QED BY <1>2, <1>3, <1>4, <1>5, <1>6 DEF UpdateWtStep

LEMMA MainStepClock == IInv /\ CInv /\ MainStep => CInv'
<1> SUFFICES ASSUME IInv, CInv, MainStep PROVE CInv'
  OBVIOUS
<1>0. /\ Good(s) /\ s.left \in Nat /\ s.begun \in BOOLEAN /\ WellSent(s) /\ Clock
      /\ waiting \in Nat /\ waiting # 0 /\ AtrDelay \in Nat /\ AtrDelay # 0
      /\ silence \in Nat /\ gap \in 0..1 /\ raced \in BOOLEAN
  BY TimesAssumption DEF IInv, TypeOK, Good, Fields, CInv, Clock
<1>1. CASE Reset
  <2>1. /\ s'.st = s.st /\ s'.left = 0 /\ s'.begun = FALSE /\ s'.mask = s.mask
        /\ s.st # "OFF" /\ pc' = "total" /\ arg' = 0 /\ faults' = faults
    BY <1>0, <1>1 DEF Reset, Reload, Good, Fields
  <2> QED BY <1>0, <2>1
          DEF CInv, Clock, WellSent, Purpose, Loaded, TotalSet, Spent, AtrRuns, Sending,
              Resetting, NullsBetweenAnswers, AtrOnTime
<1>2. CASE Activate
  <2>1. /\ s'.st = "WAIT_ATR" /\ s'.left = s.left /\ s'.begun = s.begun
        /\ s'.rtor = s.rtor /\ s'.count = s.count /\ s'.timeout = s.timeout
        /\ s.st = "OFF" /\ pc' = "total" /\ arg' = AtrDelay /\ raced' = FALSE
        /\ silence' = 0 /\ faults' = faults
    BY <1>0, <1>2 DEF Activate, Reload, Good, Fields
  <2>2. Stopped(s) /\ s.left = 0 /\ s.begun = FALSE
    BY <1>0, <2>1 DEF Clock, Purpose, WellSent, Owing
  <2> QED BY <1>0, <2>1, <2>2
          DEF CInv, Clock, WellSent, Purpose, Loaded, TotalSet, Spent, AtrRuns, Sending,
              Resetting, Stopped, Owing, NullsBetweenAnswers, AtrOnTime
<1>3. CASE RxCla
  <2> DEFINE a == [s EXCEPT !.st = "HEADER"]
  <2>1. Good(a) /\ a.st = "HEADER" /\ a.left = s.left /\ a.begun = s.begun
    BY <1>0 DEF Good, Fields, State
  <2>2. s' = UpdateWt(a, waiting') /\ waiting' \in Nat /\ waiting' # 0 /\ pc' = "idle" /\ faults' = faults
        /\ s.st = "WAIT_TPDU"
    BY <1>3, TimesAssumption DEF RxCla, At
  <2> HIDE DEF a
  <2>3. s'.st = "HEADER" /\ s'.left = s.left /\ s'.begun = s.begun
    BY <2>1, <2>2, UpdateWtFresh, CardFields
  <2>4. WellSent(s')
    BY <1>0, <2>2, <2>3 DEF WellSent, Owing
  <2> QED BY <2>2, <2>3, <2>4, Elsewhere DEF Owing, CInv, NullsBetweenAnswers, AtrOnTime
<1>4. CASE RxByte
  <2>1. s' = Retto(s) /\ pc' = "idle" /\ faults' = faults /\ s.st \in {"HEADER", "WAIT_RX"}
    BY <1>4 DEF RxByte, At
  <2>2. s'.st = s.st /\ WellSent(s')
    BY <1>0, <2>1, RettoFields, WellSentCard, CardFields
  <2> QED BY <2>1, <2>2, Elsewhere DEF Owing, CInv, NullsBetweenAnswers, AtrOnTime
<1>5. CASE RxLast
  <2> DEFINE r == Retto(s)
  <2>1. s.st \in {"HEADER", "WAIT_RX"} /\ s.left = 0 /\ s.begun = FALSE
    BY <1>0, <1>5 DEF RxLast, WellSent, Owing
  <2>2. Good(r) /\ r.left = 0 /\ r.begun = FALSE
    BY <1>0, <2>1, RettoGood, RettoFields, CardFields
  <2>3. s' = [r EXCEPT !.st = IF @ = "HEADER" THEN "WAIT_PB" ELSE "WAIT_TX",
                       !.mask = {"TXRDY", "TIMEOUT"}]
    BY <1>5 DEF RxLast
  <2> HIDE DEF r
  <2>4. s'.st \in Owing /\ s'.left = 0 /\ s'.begun = FALSE /\ s'.mask = {"TXRDY", "TIMEOUT"}
    BY <2>2, <2>3 DEF Good, Fields, Owing
  <2>5. /\ pc' = "total" /\ arg' = waiting /\ gap' = 0 /\ waiting' = waiting /\ silence' = 0
        /\ faults' = faults
    BY <1>5 DEF RxLast, Reload
  <2> QED BY <1>0, <2>4, <2>5
          DEF CInv, Clock, WellSent, Purpose, Loaded, TotalSet, Spent, AtrRuns, Sending,
              Resetting, Owing, NullsBetweenAnswers, AtrOnTime
<1>6. CASE HaveNewUartTx
  <2>1. PICK n \in Lengths, flags \in Flags :
          /\ flags.pb = "rx" => n = 1 /\ ~flags.final
          /\ s' = [s EXCEPT !.left = n, !.flags = flags, !.mask = {"TXRDY", "TIMEOUT"}]
    BY <1>6 DEF HaveNewUartTx
  <2>2. /\ s'.st = s.st /\ s'.left = n /\ s'.begun = s.begun /\ s'.flags = flags
        /\ s'.mask = {"TXRDY", "TIMEOUT"} /\ n \in Nat
        /\ s'.total = s.total /\ s'.remaining = s.remaining /\ s'.half = s.half
        /\ s'.rtor = s.rtor /\ s'.count = s.count /\ s'.timeout = s.timeout
    BY <1>0, <2>1, TimesAssumption DEF Good, Fields
  <2>3. /\ s.st \in Owing /\ s.left = 0 /\ pc = "idle" /\ pc' = "idle" /\ arg' = arg /\ next' = next
        /\ waiting' = waiting /\ raced' = raced /\ silence' = silence /\ faults' = faults
    BY <1>6 DEF HaveNewUartTx, At
  <2>4. s.begun = FALSE /\ s.st \notin {"OFF", "WAIT_ATR", "IN_ATR"}
    BY <1>0, <2>3 DEF WellSent, Owing
  <2>5. WellSent(s')
    BY <2>1, <2>2, <2>3, <2>4 DEF WellSent
  <2>6. Spent'
    <3> SUFFICES ASSUME ~raced PROVE Counting(s', silence)
      BY <2>3 DEF Spent
    <3>1. Counting(s, silence)
      BY <1>0, <2>3 DEF Clock, Spent, Resetting
    <3> QED BY <2>2, <3>1, CountingSame
  <2>7. Purpose' /\ Loaded' /\ TotalSet' /\ AtrRuns' /\ Sending'
    BY <1>0, <2>2, <2>3, <2>4
       DEF Clock, Purpose, Loaded, TotalSet, AtrRuns, Sending, Resetting
  <2> QED BY <2>3, <2>5, <2>6, <2>7 DEF CInv, Clock, NullsBetweenAnswers, AtrOnTime
<1> QED BY <1>1, <1>2, <1>3, <1>4, <1>5, <1>6 DEF MainStep

LEMMA NextClock == IInv /\ CInv /\ [Next]_vars => CInv'
<1>1. CInv /\ UNCHANGED vars => CInv'
  BY DEF CInv, Clock, WellSent, Purpose, Loaded, TotalSet, Spent, AtrRuns, Sending, Counting,
         Resetting, Stopped, Whole, Unhalved, NullsBetweenAnswers, AtrOnTime, vars
<1> QED BY <1>1, UsartIrqClock, TickClock, UpdateWtStepClock, MainStepClock DEF Next

\* CInv is an invariant of the specification.
THEOREM ClockInvariant == Spec => []CInv
<1> QED BY InitClock, NextClock, Invariant, PTL DEF Spec

\* While the card owes an answer, usart_irq_rx sends a NULL byte before the reader's
\* waiting time is over, in however many rounds of US_RTOR that takes and with the
\* main loop's reload interrupted anywhere but by a time-out.
THEOREM ReaderIsKept == Spec => []ReaderNeverGivesUp
<1>1. IInv /\ CInv => ReaderNeverGivesUp
  <2> SUFFICES ASSUME IInv, CInv, s.st \in Owing, ~Resetting, ~raced PROVE silence <= waiting
    BY DEF ReaderNeverGivesUp
  <2>0. /\ waiting \in Nat /\ waiting > 3 /\ silence \in Nat /\ gap \in 0..1
        /\ s.count \in Nat /\ s.remaining \in Nat /\ s.rtor \in Nat
        /\ waiting \div 2 \in Nat /\ waiting \div 2 > 1
    BY TimesAssumption, HalfType, HalfBelow DEF IInv, TypeOK, Fields
  <2>1. CASE pc = "idle"
    <3>1. s.total = waiting /\ Counting(s, silence)
      BY <2>1 DEF CInv, Clock, TotalSet, Spent, Resetting
    <3>2. /\ s.rtor <= s.remaining - waiting \div 2
          /\ silence + s.remaining + s.count <= waiting + 2 + s.rtor
      BY <3>1 DEF Counting
    <3> QED BY <2>0, <3>2
  <2>2. CASE pc # "idle"
    BY <2>0, <2>2 DEF CInv, Clock, Spent
  <2> QED BY <2>1, <2>2
<1> QED BY <1>1, Invariant, ClockInvariant, PTL

\* card_emu_wtime_half_expired puts no NULL byte between two bytes of an answer.
THEOREM NullsKeptApart == Spec => []NullsBetweenAnswers
<1>1. CInv => NullsBetweenAnswers
  BY DEF CInv
<1> QED BY <1>1, ClockInvariant, PTL

\* card_emu_wtime_expired starts the ATR no earlier than its delay after the
\* activation: the USART was turned off with its time-out stopped.
THEOREM AtrNotEarly == Spec => []AtrOnTime
<1>1. CInv => AtrOnTime
  BY DEF CInv
<1> QED BY <1>1, ClockInvariant, PTL
=============================================================================
