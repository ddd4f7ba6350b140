---------------------------- MODULE Sniffer_proofs ----------------------------
(***************************************************************************)
(* What the sniffer reports, for any talk of reader and card that it would *)
(* understand byte by byte (UnderstoodAssumption), any size of the buffer, *)
(* and every interleaving of the interrupts with the main loop.            *)
(*                                                                         *)
(* TypeInv: the memory of the main loop fits its state.  KeepsUp, on top   *)
(* of it, holds as long as the main loop keeps up: in reset the sniffer is *)
(* as if switched on (InReset); otherwise (OnLine) a path leads from the   *)
(* place in the talk that the memory stands for, one place further with    *)
(* each entry of the buffer, to the place where the line is.  An interrupt *)
(* adds a place at the end (Push), the main loop takes one from the front  *)
(* (Pop).  due holds the transmissions the path enters and has not left.   *)
(*                                                                         *)
(* The path is as long as the buffer: that it only rises and that entries  *)
(* without data do not move it are shown by induction over its length, on  *)
(* sets of numbers (Induction).                                            *)
(***************************************************************************)
EXTENDS Sniffer, FiniteSetTheorems, WellFoundedInduction, SequenceTheorems, TLAPS

-----------------------------------------------------------------------------
(* Induction over the numbers.                                              *)

LEMMA LessIs == {ss \in Nat \X Nat : ss[1] < ss[2]} = OpToRel(<, Nat)
BY DEF OpToRel

LEMMA LessIsWellFounded == IsWellFoundedOn({ss \in Nat \X Nat : ss[1] < ss[2]}, Nat)
BY NatLessThanWellFounded, LessIs

LEMMA Least ==
  ASSUME NEW T \in SUBSET Nat, T # {}
  PROVE  \E x \in T : \A y \in T : x <= y
<1> DEFINE R == {ss \in Nat \X Nat : ss[1] < ss[2]}
<1>1. IsWellFoundedOn(R, Nat)
  BY LessIsWellFounded
<1> HIDE DEF R
<1>2. PICK x \in T : \A y \in T : ~(<<y, x>> \in R)
  BY <1>1, WFMin
<1>3. ASSUME NEW y \in T PROVE x <= y
  <2>1. ~(<<y, x>> \in R) /\ x \in Nat /\ y \in Nat
    BY <1>2
  <2>2. <<y, x>> \in Nat \X Nat /\ <<y, x>>[1] = y /\ <<y, x>>[2] = x
    BY <2>1
  <2>3. ~(y < x)
    BY <2>1, <2>2, Zenon DEF R
  <2> QED  BY <2>1, <2>3
<1> QED  BY <1>3

\* a set of naturals with 0 that is closed under successor has all of them
LEMMA Induction ==
  ASSUME NEW T, 0 \in T, \A n \in Nat : n \in T => n + 1 \in T
  PROVE  \A n \in Nat : n \in T
<1> SUFFICES ASSUME \E n \in Nat : n \notin T PROVE FALSE
  OBVIOUS
<1> DEFINE F == {n \in Nat : n \notin T}
<1>1. PICK x \in F : \A y \in F : x <= y
  BY Least
<1>2. x # 0 /\ x \in Nat /\ x - 1 \in Nat /\ x - 1 \notin F
  BY <1>1
<1>3. (x - 1) + 1 \in T
  BY <1>2
<1>4. (x - 1) + 1 = x
  BY <1>2
<1> QED  BY <1>1, <1>3, <1>4

-----------------------------------------------------------------------------
(* The memory of the main loop.                                             *)

PpsSubs == {"PPSS", "PPS0", "PPS1", "PPS2", "PPS3", "PCK", "END"}
Subs == AtrStates \cup PpsSubs \cup TpduStates

\* its fields, the messages aside
MemoryWith(o) ==
  [iso : IsoStates, sub : Subs, data : Seq(Byte), pps : [1..6 -> Byte],
   y : Nat, hist : Nat, i : Nat, tsup : SUBSET Int,
   err : SUBSET {"MALFORMED", "CHECKSUM", "INCOMPLETE"}, conv : BOOLEAN,
   wi : Nat, d : Nat, fidi : Nat, drop : BOOLEAN, stop : BOOLEAN, out : {o}]
IsMemory(s) == s \in MemoryWith(s.out)

\* n bytes of a TPDU are there when the next is one of its header
Filled(sub, n) ==
  /\ sub = "INS" => n >= 1
  /\ sub = "P1" => n >= 2
  /\ sub = "P2" => n >= 3
  /\ sub = "P3" => n >= 4

\* The sub-state is one of the state's, and the arrays are long enough; in reset
\* the settings are the default ones.
AtDefault(s) == s.wi = 10 /\ s.d = 1 /\ s.fidi = 372
Fits(s) ==
  /\ s.iso = "RESET" => AtDefault(s)
  /\ s.iso = "IN_ATR" => s.sub \in AtrStates /\ Len(s.data) <= MAX_ATR_SIZE
  /\ s.iso \in {"IN_PPS_REQ", "IN_PPS_RSP"} => s.sub \in PpsSubs
  /\ s.iso \in {"WAIT_TPDU", "IN_TPDU"} =>
       s.sub \in TpduStates /\ Len(s.data) <= MAX_TPDU_SIZE /\ Filled(s.sub, Len(s.data))
Good(s) == IsMemory(s) /\ Fits(s)

LEMMA ByteParts ==
  ASSUME NEW b \in Byte
  PROVE  High(b) \in 0..15 /\ Low(b) \in 0..15 /\ b - Low(b) \in Nat
BY DEF Byte, High, Low

LEMMA InvertIs == ASSUME NEW b \in Byte PROVE Invert(b) \in Byte
BY DEF Invert, Byte

LEMMA DiIs == ASSUME NEW k \in 0..15 PROVE di_table[k + 1] \in Nat
BY DEF di_table
LEMMA FiIs == ASSUME NEW k \in 0..15 PROVE fi_table[k + 1] \in Nat
BY DEF fi_table

LEMMA FdRatioIs == ASSUME NEW b \in Byte PROVE FdRatio(b) \in Nat
<1> DEFINE f == fi_table[High(b) + 1]
           d == di_table[Low(b) + 1]
<1>1. f \in Nat /\ d \in Nat
  BY ByteParts, DiIs, FiIs
<1>2. FdRatio(b) = IF f = 0 \/ d = 0 THEN 0 ELSE IF Low(b) < 10 THEN f \div d ELSE f * d
  BY DEF FdRatio
<1> HIDE DEF f, d
<1>3. f * d \in Nat /\ (d # 0 => f \div d \in Nat)
  BY <1>1
<1> QED  BY <1>2, <1>3

LEMMA DefaultIs == FdRatio(DefaultFidi) = 372 /\ DefaultFidi \in Byte
<1>1. High(DefaultFidi) = 1 /\ Low(DefaultFidi) = 1 /\ DefaultFidi \in Byte
  BY DEF High, Low, DefaultFidi, Byte
<1>2. fi_table[1 + 1] = 372 /\ di_table[1 + 1] = 1
  BY DEF fi_table, di_table
<1> QED  BY <1>1, <1>2 DEF FdRatio

\* Sending does not touch the rest.
LEMMA SendsGood ==
  ASSUME NEW s, NEW m, Good(s)
  PROVE  Good(Sends(s, m)) /\ Sends(s, m).iso = s.iso
BY DEF Good, IsMemory, MemoryWith, Fits, AtDefault, Sends
LEMMA UpdateWtGood ==
  ASSUME NEW s, NEW wi \in Nat, NEW d \in Nat, Good(s), s.iso # "RESET"
  PROVE  Good(update_wt(s, wi, d)) /\ update_wt(s, wi, d).iso = s.iso
BY DEF Good, IsMemory, MemoryWith, Fits, update_wt
LEMMA UpdateFidiGood ==
  ASSUME NEW s, NEW b \in Byte, Good(s), s.iso # "RESET"
  PROVE  Good(update_fidi(s, b)) /\ update_fidi(s, b).iso = s.iso
BY FdRatioIs DEF Good, IsMemory, MemoryWith, Fits, update_fidi
LEMMA FreshIs ==
  ASSUME NEW s, IsMemory(s)
  PROVE  /\ IsMemory(Fresh(s)) /\ Fresh(s).iso = s.iso /\ Fresh(s).sub = "CLA"
         /\ Fresh(s).data = <<>> /\ Fresh(s).wi = s.wi /\ Fresh(s).d = s.d
         /\ Fresh(s).fidi = s.fidi /\ Fresh(s).out = s.out
         /\ Fresh(s).conv = s.conv /\ Fresh(s).drop = s.drop /\ Fresh(s).stop = s.stop
<1>1. <<>> \in Seq(Byte) /\ [k \in 1..6 |-> 0] \in [1..6 -> Byte] /\ "CLA" \in Subs
  BY DEF Byte, Subs, TpduStates
<1>2. PICK p : p = [k \in 1..6 |-> 0]
  OBVIOUS
<1>3. Fresh(s) = [s EXCEPT !.data = <<>>, !.pps = p, !.sub = "CLA",
                           !.y = 0, !.hist = 0, !.i = 0, !.tsup = {}, !.err = {}]
  BY <1>2 DEF Fresh
<1> HIDE <1>2
<1>4. p \in [1..6 -> Byte]
  BY <1>1, <1>2
<1>5. IsMemory([s EXCEPT !.data = <<>>, !.pps = p, !.sub = "CLA",
                           !.y = 0, !.hist = 0, !.i = 0, !.tsup = {}, !.err = {}])
  BY <1>1, <1>4 DEF IsMemory, MemoryWith
<1>6. /\ Fresh(s).iso = s.iso /\ Fresh(s).sub = "CLA"
      /\ Fresh(s).data = <<>> /\ Fresh(s).wi = s.wi /\ Fresh(s).d = s.d
      /\ Fresh(s).fidi = s.fidi /\ Fresh(s).out = s.out
      /\ Fresh(s).conv = s.conv /\ Fresh(s).drop = s.drop /\ Fresh(s).stop = s.stop
  BY <1>3 DEF IsMemory, MemoryWith
<1> QED  BY <1>3, <1>5, <1>6
LEMMA UpdateFidiIs ==
  ASSUME NEW s, NEW b \in Byte, IsMemory(s)
  PROVE  /\ IsMemory(update_fidi(s, b)) /\ update_fidi(s, b).out = s.out
         /\ update_fidi(s, b).conv = s.conv /\ update_fidi(s, b).drop = s.drop
<1>1. IsMemory(update_fidi(s, b))
  BY FdRatioIs DEF IsMemory, MemoryWith, update_fidi
<1> QED  BY <1>1 DEF IsMemory, MemoryWith, update_fidi
LEMMA UpdateWtIs ==
  ASSUME NEW s, NEW wi \in Nat, NEW d \in Nat, IsMemory(s)
  PROVE  /\ IsMemory(update_wt(s, wi, d)) /\ update_wt(s, wi, d).out = s.out
         /\ update_wt(s, wi, d).fidi = s.fidi
         /\ update_wt(s, wi, d).conv = s.conv /\ update_wt(s, wi, d).drop = s.drop
         /\ wi # 0 => update_wt(s, wi, d).wi = wi
         /\ d # 0 => update_wt(s, wi, d).d = d
<1>1. IsMemory(update_wt(s, wi, d))
  BY DEF IsMemory, MemoryWith, update_wt
<1> QED  BY <1>1 DEF IsMemory, MemoryWith, update_wt

LEMMA DefaultLinkIs ==
  ASSUME NEW s, IsMemory(s)
  PROVE  /\ IsMemory(DefaultLink(s)) /\ DefaultLink(s).wi = 10 /\ DefaultLink(s).d = 1
         /\ DefaultLink(s).fidi = 372 /\ DefaultLink(s).out = s.out
         /\ DefaultLink(s).conv = s.conv /\ DefaultLink(s).drop = s.drop
<1> DEFINE t == update_fidi(s, DefaultFidi)
<1>1. t = [s EXCEPT !.fidi = 372, !.stop = TRUE]
  BY DefaultIs DEF update_fidi, US_FIDI_MAX
<1>2. IsMemory(t) /\ t.out = s.out /\ t.conv = s.conv /\ t.drop = s.drop
  BY DefaultIs, UpdateFidiIs
<1>3. t.fidi = 372
  <2> HIDE DEF t
  <2> QED  BY <1>1 DEF IsMemory, MemoryWith
<1> HIDE DEF t
<1>4. DefaultLink(s) = update_wt(t, 10, 1)
  BY DEF DefaultLink, t
<1>5. PICK wi \in Nat, d \in Nat : wi = 10 /\ d = 1
  OBVIOUS
<1>7. wi # 0 /\ d # 0
  BY <1>5
<1>6. /\ IsMemory(update_wt(t, wi, d)) /\ update_wt(t, wi, d).out = s.out
      /\ update_wt(t, wi, d).fidi = 372
      /\ update_wt(t, wi, d).wi = wi /\ update_wt(t, wi, d).d = d
      /\ update_wt(t, wi, d).conv = s.conv /\ update_wt(t, wi, d).drop = s.drop
  <2>1. IsMemory(t)
    BY <1>2
  <2>2. IsMemory(update_wt(t, wi, d))
    BY <2>1, UpdateWtIs
  <2>3. update_wt(t, wi, d).out = t.out
    BY <2>1, UpdateWtIs
  <2>4. update_wt(t, wi, d).fidi = t.fidi
    BY <2>1, UpdateWtIs
  <2>5. update_wt(t, wi, d).wi = wi
    BY <2>1, <1>7, UpdateWtIs
  <2>6. update_wt(t, wi, d).d = d
    BY <2>1, <1>7, UpdateWtIs
  <2>7. update_wt(t, wi, d).conv = t.conv /\ update_wt(t, wi, d).drop = t.drop
    BY <2>1, UpdateWtIs
  <2> QED BY <2>2, <2>3, <2>4, <2>5, <2>6, <2>7, <1>2, <1>3
<1> QED  BY <1>4, <1>5, <1>6

\* A change of state leaves the memory in order, whatever it was before.
LEMMA ChangeGood ==
  ASSUME NEW s, IsMemory(s), NEW new \in IsoStates,
         new = s.iso => Fits(s), new = "IN_TPDU" => Fits(s) /\ s.iso \in {"WAIT_TPDU", "IN_TPDU"}
  PROVE  Good(change_state(s, new)) /\ change_state(s, new).iso = new
<1>1. CASE new = s.iso
  BY <1>1 DEF change_state, Good
<1>2. CASE new # s.iso /\ new = "RESET"
  <2> DEFINE t == DefaultLink(Fresh(s))
  <2>1. change_state(s, new) = [t EXCEPT !.iso = new]
    BY <1>2 DEF change_state
  <2>2. IsMemory(t)
    BY FreshIs, DefaultLinkIs
  <2>3. t.wi = 10 /\ t.d = 1 /\ t.fidi = 372
    BY FreshIs, DefaultLinkIs
  <2> HIDE DEF t
  <2>4. IsMemory([t EXCEPT !.iso = new]) /\ [t EXCEPT !.iso = new].iso = "RESET"
    BY <1>2, <2>2 DEF IsMemory, MemoryWith
  <2>5. AtDefault([t EXCEPT !.iso = new])
    BY <2>2, <2>3 DEF AtDefault, IsMemory, MemoryWith
  <2> QED  BY <1>2, <2>1, <2>4, <2>5 DEF Good, Fits
<1>3. CASE new # s.iso /\ new # "RESET" /\ new # "IN_TPDU"
  <2> DEFINE t == Fresh(s)
  <2>1. IsMemory(t) /\ t.sub = "CLA" /\ t.data = <<>>
    BY FreshIs
  <2>2. change_state(s, new) = [(CASE new = "WAIT_ATR" -> [t EXCEPT !.drop = TRUE]
                  [] new = "IN_ATR" -> [t EXCEPT !.sub = "TS", !.conv = FALSE]
                  [] new \in {"IN_PPS_REQ", "IN_PPS_RSP"} -> [t EXCEPT !.sub = "PPSS"]
                  [] new \in {"WAIT_TPDU", "WAIT_PPS_RSP"} -> t) EXCEPT !.iso = new]
    BY <1>3 DEF change_state, IsoStates
  <2> HIDE DEF t
  <2>3. CASE new = "WAIT_ATR"
    <3>1. change_state(s, new) = [[t EXCEPT !.drop = TRUE] EXCEPT !.iso = "WAIT_ATR"]
      BY <2>2, <2>3
    <3>2. IsMemory([[t EXCEPT !.drop = TRUE] EXCEPT !.iso = "WAIT_ATR"])
      BY <2>1, <2>3 DEF IsMemory, MemoryWith, Subs, AtrStates, PpsSubs
    <3>3. change_state(s, new).iso = "WAIT_ATR"
      BY <2>1, <3>1 DEF IsMemory, MemoryWith
    <3>4. Fits(change_state(s, new))
      BY <2>3, <3>3 DEF Fits, AtrStates, PpsSubs, TpduStates, MAX_ATR_SIZE, MAX_TPDU_SIZE
    <3> QED  BY <2>3, <3>1, <3>2, <3>3, <3>4 DEF Good
  <2>4. CASE new = "IN_ATR"
    <3>1. change_state(s, new) = [[t EXCEPT !.sub = "TS", !.conv = FALSE] EXCEPT !.iso = "IN_ATR"]
      BY <2>2, <2>4
    <3>2. IsMemory([[t EXCEPT !.sub = "TS", !.conv = FALSE] EXCEPT !.iso = "IN_ATR"])
      BY <2>1, <2>4 DEF IsMemory, MemoryWith, Subs, AtrStates, PpsSubs
    <3>3. change_state(s, new).iso = "IN_ATR" /\ change_state(s, new).sub = "TS" /\ change_state(s, new).data = <<>>
      BY <2>1, <3>1 DEF IsMemory, MemoryWith
    <3>4. Fits(change_state(s, new))
      BY <2>4, <3>3 DEF Fits, AtrStates, PpsSubs, TpduStates, MAX_ATR_SIZE, MAX_TPDU_SIZE
    <3> QED  BY <2>4, <3>1, <3>2, <3>3, <3>4 DEF Good
  <2>5. CASE new \in {"IN_PPS_REQ", "IN_PPS_RSP"}
    <3>1. change_state(s, new) = [[t EXCEPT !.sub = "PPSS"] EXCEPT !.iso = new]
      BY <2>2, <2>5
    <3>2. IsMemory([[t EXCEPT !.sub = "PPSS"] EXCEPT !.iso = new])
      BY <2>1, <2>5 DEF IsMemory, MemoryWith, Subs, AtrStates, PpsSubs
    <3>3. change_state(s, new).iso = new /\ change_state(s, new).sub = "PPSS"
      BY <2>1, <3>1 DEF IsMemory, MemoryWith
    <3>4. Fits(change_state(s, new))
      BY <2>5, <3>3 DEF Fits, AtrStates, PpsSubs, TpduStates, MAX_ATR_SIZE, MAX_TPDU_SIZE
    <3> QED  BY <2>5, <3>1, <3>2, <3>3, <3>4 DEF Good
  <2>6. CASE new \in {"WAIT_TPDU", "WAIT_PPS_RSP"}
    <3>1. change_state(s, new) = [t EXCEPT !.iso = new]
      BY <2>2, <2>6
    <3>2. IsMemory([t EXCEPT !.iso = new])
      BY <2>1, <2>6 DEF IsMemory, MemoryWith, Subs, AtrStates, PpsSubs
    <3>3. change_state(s, new).iso = new /\ change_state(s, new).sub = "CLA" /\ change_state(s, new).data = <<>>
      BY <2>1, <3>1 DEF IsMemory, MemoryWith
    <3>4. Fits(change_state(s, new))
      BY <2>6, <3>3 DEF Fits, Filled, AtrStates, PpsSubs, TpduStates, MAX_ATR_SIZE, MAX_TPDU_SIZE
    <3> QED  BY <2>6, <3>1, <3>2, <3>3, <3>4 DEF Good
  <2> QED  BY <1>3, <2>3, <2>4, <2>5, <2>6 DEF IsoStates
<1>4. CASE new # s.iso /\ new = "IN_TPDU"
  <2>1. change_state(s, new) = [s EXCEPT !.iso = new]
    BY <1>4 DEF change_state
  <2> QED  BY <1>4, <2>1 DEF Good, Fits, IsMemory, MemoryWith
<1> QED  BY <1>1, <1>2, <1>3, <1>4

-----------------------------------------------------------------------------
(* The answer to reset.                                                     *)

InAtr(s) == IsMemory(s) /\ s.iso = "IN_ATR" /\ Len(s.data) <= MAX_ATR_SIZE

LEMMA SendsIs ==
  ASSUME NEW s, NEW m, IsMemory(s)
  PROVE  /\ IsMemory(Sends(s, m)) /\ Sends(s, m).iso = s.iso /\ Sends(s, m).data = s.data
         /\ Sends(s, m).sub = s.sub /\ Sends(s, m).pps = s.pps /\ Sends(s, m).d = s.d
<1>1. IsMemory(Sends(s, m))
  BY DEF IsMemory, MemoryWith, Sends
<1>2. /\ Sends(s, m).iso = s.iso /\ Sends(s, m).data = s.data
      /\ Sends(s, m).sub = s.sub /\ Sends(s, m).pps = s.pps /\ Sends(s, m).d = s.d
  BY DEF IsMemory, MemoryWith, Sends
<1> QED  BY <1>1, <1>2

LEMMA ErrIs ==
  ASSUME NEW s, Good(s), NEW e \in SUBSET {"MALFORMED", "CHECKSUM", "INCOMPLETE"}
  PROVE  Good([s EXCEPT !.err = e]) /\ [s EXCEPT !.err = e].iso = s.iso
<1>1. IsMemory([s EXCEPT !.err = e])
  BY DEF Good, IsMemory, MemoryWith
<1>2. /\ [s EXCEPT !.err = e].iso = s.iso /\ [s EXCEPT !.err = e].sub = s.sub
      /\ [s EXCEPT !.err = e].data = s.data /\ [s EXCEPT !.err = e].wi = s.wi
      /\ [s EXCEPT !.err = e].d = s.d /\ [s EXCEPT !.err = e].fidi = s.fidi
  BY DEF Good, IsMemory, MemoryWith
<1> QED  BY <1>1, <1>2 DEF Good, Fits, AtDefault

LEMMA NoErrIs ==
  ASSUME NEW s, Good(s)
  PROVE  Good([s EXCEPT !.err = {}]) /\ [s EXCEPT !.err = {}].iso = s.iso
<1>1. IsMemory([s EXCEPT !.err = {}])
  BY DEF Good, IsMemory, MemoryWith
<1>2. /\ [s EXCEPT !.err = {}].iso = s.iso /\ [s EXCEPT !.err = {}].sub = s.sub
      /\ [s EXCEPT !.err = {}].data = s.data /\ [s EXCEPT !.err = {}].wi = s.wi
      /\ [s EXCEPT !.err = {}].d = s.d /\ [s EXCEPT !.err = {}].fidi = s.fidi
  BY DEF Good, IsMemory, MemoryWith
<1> QED  BY <1>1, <1>2 DEF Good, Fits, AtDefault

LEMMA SubIs ==
  ASSUME NEW s, IsMemory(s), NEW x \in Subs
  PROVE  /\ IsMemory([s EXCEPT !.sub = x]) /\ [s EXCEPT !.sub = x].iso = s.iso
         /\ [s EXCEPT !.sub = x].sub = x /\ [s EXCEPT !.sub = x].data = s.data
<1>1. IsMemory([s EXCEPT !.sub = x])
  BY DEF IsMemory, MemoryWith
<1>2. /\ [s EXCEPT !.sub = x].iso = s.iso /\ [s EXCEPT !.sub = x].sub = x
      /\ [s EXCEPT !.sub = x].data = s.data
  BY DEF IsMemory, MemoryWith
<1> QED  BY <1>1, <1>2

LEMMA AtrSubGood ==
  ASSUME NEW s, InAtr(s), NEW x \in AtrStates
  PROVE  Good([s EXCEPT !.sub = x])
BY SubIs DEF Good, Fits, InAtr, Subs

LEMMA SendAtrIs ==
  ASSUME NEW s, NEW f, IsMemory(s)
  PROVE  IsMemory(usb_send_atr(s, f)) /\ usb_send_atr(s, f).iso = s.iso
BY SendsIs DEF usb_send_atr

LEMMA AtrSentGood == ASSUME NEW s, InAtr(s) PROVE Good(AtrSent(s))
BY SendAtrIs, ChangeGood DEF AtrSent, InAtr, IsoStates

LEMMA AfterHistoryGood == ASSUME NEW s, InAtr(s) PROVE Good(AfterHistory(s))
BY AtrSentGood, AtrSubGood DEF AfterHistory, AtrStates

LEMMA NextInterfaceGood ==
  ASSUME NEW s, InAtr(s), NEW k \in 0..4
  PROVE  Good(NextInterface(s, k))
<1> DEFINE rest == {j \in k + 1..4 : Bit(s.y, j + 3)}
           j == CHOOSE j \in rest : \A l \in rest : j <= l
<1>1. CASE rest = {}
  BY <1>1, AfterHistoryGood DEF NextInterface
<1>2. CASE rest # {}
  <2>1. \E n \in rest : \A l \in rest : n <= l
    <3> HIDE DEF rest
    <3>1. rest \subseteq 1..4
      BY DEF rest
    <3> QED  BY <1>2, <3>1, Least
  <2>2. j \in 1..4
    BY <2>1
  <2>3. InterfaceBytes[j] \in AtrStates
    <3> HIDE DEF j
    <3> QED  BY <2>2 DEF InterfaceBytes, AtrStates
  <2>4. NextInterface(s, k) = [s EXCEPT !.sub = InterfaceBytes[j]]
    BY <1>2 DEF NextInterface
  <2> QED  BY <2>3, <2>4, AtrSubGood
<1> QED  BY <1>1, <1>2

LEMMA ReceiveTSGood == ASSUME NEW s, InAtr(s), NEW b \in Byte PROVE Good(ReceiveTS(s, b))
<1>1. CASE b \in {35, 48, 59, 63}
  <2> DEFINE c == IF b \in {35, 48} THEN ~s.conv ELSE s.conv
  <2>1. c \in BOOLEAN
    BY DEF InAtr, IsMemory, MemoryWith
  <2> HIDE DEF c
  <2>2. IsMemory([s EXCEPT !.err = {}, !.i = 0, !.sub = "T0", !.conv = c])
    BY <2>1 DEF InAtr, IsMemory, MemoryWith, Subs, AtrStates
  <2>3. ReceiveTS(s, b) = [s EXCEPT !.err = {}, !.i = 0, !.sub = "T0", !.conv = c]
    BY <1>1 DEF ReceiveTS, c
  <2>4. /\ ReceiveTS(s, b).iso = "IN_ATR" /\ ReceiveTS(s, b).sub = "T0"
        /\ ReceiveTS(s, b).data = s.data
    BY <2>3 DEF InAtr, IsMemory, MemoryWith
  <2> QED  BY <2>2, <2>3, <2>4 DEF Good, Fits, InAtr, AtrStates
<1>2. CASE b \notin {35, 48, 59, 63}
  <2> DEFINE t == change_state(usb_send_atr(s, {"MALFORMED"}), "WAIT_ATR")
  <2>1. Good(t)
    BY SendAtrIs, ChangeGood DEF InAtr, IsoStates
  <2>2. ReceiveTS(s, b) = [t EXCEPT !.err = {}]
    BY <1>2 DEF ReceiveTS
  <2> HIDE DEF t
  <2> QED  BY <2>1, <2>2, NoErrIs
<1> QED  BY <1>1, <1>2

LEMMA ReceiveFormatGood ==
  ASSUME NEW s, InAtr(s), NEW b \in Byte
  PROVE  Good(ReceiveFormat(s, b))
<1> DEFINE y == b - Low(b)
           i == (s.i + 1) % 256
           h == IF s.sub = "T0" THEN Low(b) ELSE s.hist
           p == IF s.sub = "TD" THEN s.tsup \cup {Low(b)} ELSE s.tsup
           r == [s EXCEPT !.y = y, !.i = i, !.hist = h, !.tsup = p]
<1>0. s.i \in Nat /\ s.hist \in Nat /\ s.tsup \in SUBSET Int /\ Low(b) \in 0..15 /\ y \in Nat
  BY ByteParts DEF InAtr, IsMemory, MemoryWith
<1>1. y \in Nat /\ i \in Nat /\ h \in Nat /\ p \in SUBSET Int
  <2>1. i \in Nat /\ h \in Nat
    BY <1>0
  <2>2. p \in SUBSET Int
    BY <1>0
  <2> QED  BY <1>0, <2>1, <2>2
<1>2. ReceiveFormat(s, b) = NextInterface(r, 0)
  BY DEF ReceiveFormat
<1> HIDE DEF y, i, h, p
<1>3. IsMemory(r)
  BY <1>1 DEF InAtr, IsMemory, MemoryWith
<1>4. r.iso = s.iso /\ r.data = s.data
  BY DEF InAtr, IsMemory, MemoryWith
<1>5. InAtr(r)
  BY <1>3, <1>4 DEF InAtr
<1> HIDE DEF r
<1> QED  BY <1>2, <1>5, NextInterfaceGood

LEMMA ReceiveTCGood == ASSUME NEW s, InAtr(s), NEW b \in Byte PROVE Good(ReceiveTC(s, b))
<1> DEFINE wi == IF b = 0 THEN 10 ELSE b
           r == IF s.i = 2 THEN update_wt(s, wi, 0) ELSE s
<1>1. wi \in Nat /\ 0 \in Nat
  BY DEF Byte
<1>2. ReceiveTC(s, b) = NextInterface(r, 3)
  BY DEF ReceiveTC
<1>3. InAtr(update_wt(s, wi, 0))
  <2> HIDE DEF wi
  <2>1. IsMemory(update_wt(s, wi, 0))
    BY <1>1, UpdateWtIs DEF InAtr
  <2>2. update_wt(s, wi, 0).iso = s.iso /\ update_wt(s, wi, 0).data = s.data
    BY DEF InAtr, IsMemory, MemoryWith, update_wt
  <2> QED  BY <2>1, <2>2 DEF InAtr
<1>4. InAtr(r)
  BY <1>3
<1> HIDE DEF r
<1> QED  BY <1>2, <1>4, NextInterfaceGood

LEMMA ReceiveHistGood == ASSUME NEW s, InAtr(s), NEW b \in Byte PROVE Good(ReceiveHist(s, b))
<1> DEFINE h == IF s.hist > 0 THEN s.hist - 1 ELSE 0
           r == [s EXCEPT !.hist = h]
<1>1. h \in Nat
  BY DEF InAtr, IsMemory, MemoryWith
<1>2. ReceiveHist(s, b) = AfterHistory(r)
  BY DEF ReceiveHist
<1> HIDE DEF h
<1>3. IsMemory(r)
  BY <1>1 DEF InAtr, IsMemory, MemoryWith
<1>4. r.iso = s.iso /\ r.data = s.data
  BY DEF InAtr, IsMemory, MemoryWith
<1>5. InAtr(r)
  BY <1>3, <1>4 DEF InAtr
<1> HIDE DEF r
<1> QED  BY <1>2, <1>5, AfterHistoryGood

LEMMA ReceiveTCKGood == ASSUME NEW s, InAtr(s), NEW b \in Byte PROVE Good(ReceiveTCK(s, b))
<1> DEFINE e == IF ChecksumOk(Tail(s.data)) THEN s.err ELSE s.err \cup {"CHECKSUM"}
           r == [s EXCEPT !.err = e]
<1>1. e \in SUBSET {"MALFORMED", "CHECKSUM", "INCOMPLETE"}
  BY DEF InAtr, IsMemory, MemoryWith
<1>2. ReceiveTCK(s, b) = AtrSent(r)
  BY DEF ReceiveTCK
<1> HIDE DEF e
<1>3. IsMemory(r)
  BY <1>1 DEF InAtr, IsMemory, MemoryWith
<1>4. r.iso = s.iso /\ r.data = s.data
  BY DEF InAtr, IsMemory, MemoryWith
<1>5. InAtr(r)
  BY <1>3, <1>4 DEF InAtr
<1> HIDE DEF r
<1> QED  BY <1>2, <1>5, AtrSentGood

\* a byte joins the data
LEMMA StoredIs ==
  ASSUME NEW s, IsMemory(s), NEW b \in Byte
  PROVE  LET r == [s EXCEPT !.data = Append(@, b)]
         IN  IsMemory(r) /\ r.iso = s.iso /\ r.sub = s.sub /\ r.data = Append(s.data, b)
             /\ Len(r.data) = Len(s.data) + 1
<1> DEFINE d == Append(s.data, b)
           r == [s EXCEPT !.data = d]
<1>1. s.data \in Seq(Byte)
  BY DEF IsMemory, MemoryWith
<1>2. d \in Seq(Byte) /\ Len(d) = Len(s.data) + 1
  BY <1>1, AppendProperties
<1> HIDE DEF d
<1>3. IsMemory(r)
  BY <1>2 DEF IsMemory, MemoryWith
<1>4. r.iso = s.iso /\ r.sub = s.sub /\ r.data = d
  BY DEF IsMemory, MemoryWith
<1> QED  BY <1>2, <1>3, <1>4 DEF d

LEMMA AtrGood ==
  ASSUME NEW s0, Good(s0), s0.iso = "IN_ATR", NEW b \in Byte
  PROVE  Good(process_byte_atr(s0, b))
<1> DEFINE s == [s0 EXCEPT !.data = Append(@, b)]
<1>1. CASE Len(s0.data) >= MAX_ATR_SIZE
  BY <1>1 DEF process_byte_atr
<1>2. CASE ~(Len(s0.data) >= MAX_ATR_SIZE)
  <2>1. IsMemory(s) /\ s.iso = "IN_ATR" /\ s.sub = s0.sub /\ Len(s.data) = Len(s0.data) + 1
    BY StoredIs DEF Good
  <2>2. s0.sub \in AtrStates /\ Len(s0.data) \in Nat
    <3>1. s0.data \in Seq(Byte)
      BY DEF Good, IsMemory, MemoryWith
    <3> QED  BY <3>1 DEF Good, Fits
  <2>3. process_byte_atr(s0, b) =
          CASE s.sub = "TS" -> ReceiveTS(s, b)
            [] s.sub \in {"T0", "TD"} -> ReceiveFormat(s, b)
            [] s.sub = "TA" -> NextInterface(s, 1)
            [] s.sub = "TB" -> NextInterface(s, 2)
            [] s.sub = "TC" -> ReceiveTC(s, b)
            [] s.sub = "HIST" -> ReceiveHist(s, b)
            [] s.sub = "TCK" -> ReceiveTCK(s, b)
    BY <1>2 DEF process_byte_atr
  <2> HIDE DEF s
  <2>4. InAtr(s)
    BY <1>2, <2>1, <2>2 DEF InAtr, MAX_ATR_SIZE
  <2>5. /\ Good(ReceiveTS(s, b)) /\ Good(ReceiveFormat(s, b)) /\ Good(ReceiveTC(s, b))
        /\ Good(ReceiveHist(s, b)) /\ Good(ReceiveTCK(s, b))
    BY <2>4, ReceiveTSGood, ReceiveFormatGood, ReceiveTCGood, ReceiveHistGood, ReceiveTCKGood
  <2>6. Good(NextInterface(s, 1)) /\ Good(NextInterface(s, 2))
    BY <2>4, NextInterfaceGood
  <2> QED  BY <2>1, <2>2, <2>3, <2>5, <2>6 DEF AtrStates
<1> QED  BY <1>1, <1>2

-----------------------------------------------------------------------------
(* Protocol and parameter selection.                                        *)

InPps(s) == IsMemory(s) /\ s.iso \in {"IN_PPS_REQ", "IN_PPS_RSP"}

LEMMA SendPpsIs ==
  ASSUME NEW s, NEW f, IsMemory(s)
  PROVE  /\ IsMemory(usb_send_pps(s, f)) /\ usb_send_pps(s, f).iso = s.iso
         /\ usb_send_pps(s, f).pps = s.pps /\ usb_send_pps(s, f).d = s.d
BY SendsIs DEF usb_send_pps

LEMMA ReceivePPSSGood == ASSUME NEW s, InPps(s), NEW b \in Byte PROVE Good(ReceivePPSS(s, b))
<1>1. CASE b = 255
  <2> DEFINE p == [s.pps EXCEPT ![1] = b]
             r == [s EXCEPT !.err = {}, !.pps = p, !.sub = "PPS0"]
  <2>1. p \in [1..6 -> Byte]
    BY DEF InPps, IsMemory, MemoryWith
  <2>2. ReceivePPSS(s, b) = r
    BY <1>1 DEF ReceivePPSS, InPps, IsMemory, MemoryWith
  <2> HIDE DEF p
  <2>3. IsMemory(r)
    BY <2>1 DEF InPps, IsMemory, MemoryWith, Subs, PpsSubs
  <2>4. r.iso = s.iso /\ r.sub = "PPS0"
    BY DEF InPps, IsMemory, MemoryWith
  <2> HIDE DEF r
  <2> QED  BY <2>2, <2>3, <2>4 DEF Good, Fits, InPps, PpsSubs
<1>2. CASE b # 255
  <2> DEFINE t == change_state(usb_send_pps(s, {"MALFORMED"}), "WAIT_TPDU")
  <2>1. Good(t)
    BY SendPpsIs, ChangeGood DEF InPps, IsoStates
  <2>2. ReceivePPSS(s, b) = [t EXCEPT !.err = {}]
    BY <1>2 DEF ReceivePPSS
  <2> HIDE DEF t
  <2> QED  BY <2>1, <2>2, NoErrIs
<1> QED  BY <1>1, <1>2

LEMMA ReceivePpsFieldGood ==
  ASSUME NEW s, InPps(s), NEW b \in Byte, NEW k \in 2..5
  PROVE  Good(ReceivePpsField(s, b, k))
<1> DEFINE mask == IF k = 2 THEN b ELSE s.pps[2]
           Next6(j) == /\ j = 6 \/ Bit(mask, j + 1)
                       /\ \A l \in k + 1..j - 1 : ~Bit(mask, l + 1)
           next == CHOOSE j \in k + 1..6 : Next6(j)
           p == [j \in 1..6 |-> IF j \in k..next - 1 THEN b ELSE s.pps[j]]
           r == [s EXCEPT !.pps = p, !.sub = PpsStates[next]]
<1>1. \E j \in k + 1..6 : Next6(j)
  <2> DEFINE T == {j \in k + 1..6 : j = 6 \/ Bit(mask, j + 1)}
  <2>1. T # {} /\ T \in SUBSET Nat
    BY DEF T
  <2>2. PICK j \in T : \A l \in T : j <= l
    BY <2>1, Least
  <2>3. ASSUME NEW l \in k + 1..j - 1 PROVE ~Bit(mask, l + 1)
    BY <2>2
  <2> QED  BY <2>2, <2>3
<1>2. next \in k + 1..6
  BY <1>1
<1>3. ReceivePpsField(s, b, k) = r
  BY DEF ReceivePpsField, InPps, IsMemory, MemoryWith
<1> HIDE DEF next
<1>4. p \in [1..6 -> Byte]
  BY DEF InPps, IsMemory, MemoryWith
<1>5. PICK x : x = PpsStates[next]
  OBVIOUS
<1>6. x \in PpsSubs
  BY <1>2, <1>5 DEF PpsStates, PpsSubs
<1>7. r = [s EXCEPT !.pps = p, !.sub = x]
  BY <1>5
<1> HIDE DEF p, r
<1>8. IsMemory([s EXCEPT !.pps = p, !.sub = x])
  BY <1>4, <1>6 DEF InPps, IsMemory, MemoryWith, Subs
<1>9. r.iso = s.iso /\ r.sub = x
  BY <1>7 DEF InPps, IsMemory, MemoryWith
<1> QED  BY <1>3, <1>6, <1>7, <1>8, <1>9 DEF Good, Fits, InPps

LEMMA PpsAgreedGood ==
  ASSUME NEW s, Good(s), s.iso = "IN_PPS_RSP"
  PROVE  Good(PpsAgreed(s)) /\ PpsAgreed(s).iso = s.iso
<1> DEFINE dn == IF Bit(s.pps[2], 4) THEN Low(s.pps[3]) ELSE 1
           dd == di_table[dn + 1]
           t == update_fidi(s, s.pps[3])
           u == update_wt(t, 0, dd)
<1>1. s.pps[3] \in Byte
  BY DEF Good, IsMemory, MemoryWith
<1>2. dn \in 0..15
  BY <1>1, ByteParts
<1>3. dd \in Nat /\ 0 \in Nat
  <2> HIDE DEF dn
  <2> QED  BY <1>2, DiIs
<1>4. Good(t) /\ t.iso = s.iso
  BY <1>1, UpdateFidiGood
<1>5. PpsAgreed(s) = usb_send_fidi(u, s.pps[3])
  BY DEF PpsAgreed
<1> HIDE DEF dd, t
<1>6. Good(u) /\ u.iso = t.iso
  BY <1>3, <1>4, UpdateWtGood
<1> HIDE DEF u
<1> QED  BY <1>4, <1>5, <1>6, SendsGood DEF usb_send_fidi

LEMMA ReceivePCKGood == ASSUME NEW s0, InPps(s0), NEW b \in Byte PROVE Good(ReceivePCK(s0, b))
<1> DEFINE p == [s0.pps EXCEPT ![6] = b]
           stored == [s0 EXCEPT !.pps = p, !.sub = "END"]
           fields == [n \in DOMAIN PpsFields(stored) |-> stored.pps[PpsFields(stored)[n]]]
           e == IF ChecksumOk(fields) THEN stored.err ELSE stored.err \cup {"CHECKSUM"}
           s1 == [stored EXCEPT !.err = e]
           s == usb_send_pps(s1, s1.err)
<1>1. p \in [1..6 -> Byte]
  BY DEF InPps, IsMemory, MemoryWith
<1>2. ReceivePCK(s0, b) = IF ~ChecksumOk(fields) THEN change_state(s, "WAIT_TPDU")
                          ELSE IF s.iso = "IN_PPS_REQ" THEN change_state(s, "WAIT_PPS_RSP")
                          ELSE change_state(PpsAgreed(s), "WAIT_TPDU")
  BY DEF ReceivePCK, InPps, IsMemory, MemoryWith
<1> HIDE DEF p
<1>3. IsMemory(stored)
  BY <1>1 DEF InPps, IsMemory, MemoryWith, Subs, PpsSubs
<1>4. stored.iso = s0.iso /\ stored.sub = "END"
  BY DEF InPps, IsMemory, MemoryWith
<1> HIDE DEF stored, fields
<1>5. e \in SUBSET {"MALFORMED", "CHECKSUM", "INCOMPLETE"}
  BY <1>3 DEF IsMemory, MemoryWith
<1> HIDE DEF e
<1>6. IsMemory(s1)
  BY <1>3, <1>5 DEF IsMemory, MemoryWith
<1>7. s1.iso = stored.iso /\ s1.sub = stored.sub
  BY <1>3 DEF IsMemory, MemoryWith
<1> HIDE DEF s1
<1>8. IsMemory(s) /\ s.iso = s0.iso /\ s.sub = "END"
  <2>1. IsMemory(s) /\ s.iso = s1.iso
    BY <1>6, SendPpsIs
  <2>2. s.sub = s1.sub
    BY <1>6, SendsIs DEF usb_send_pps
  <2> QED  BY <1>4, <1>7, <2>1, <2>2
<1> HIDE DEF s
<1>9. Good(s)
  BY <1>8 DEF Good, Fits, InPps, PpsSubs
<1>10. Good(change_state(s, "WAIT_TPDU")) /\ Good(change_state(s, "WAIT_PPS_RSP"))
  BY <1>8, <1>9, ChangeGood DEF InPps, IsoStates, Good
<1>11. CASE s.iso = "IN_PPS_RSP"
  <2>1. Good(PpsAgreed(s)) /\ PpsAgreed(s).iso = "IN_PPS_RSP"
    BY <1>9, <1>11, PpsAgreedGood
  <2>2. Good(change_state(PpsAgreed(s), "WAIT_TPDU"))
    BY <2>1, ChangeGood DEF IsoStates, Good
  <2> QED  BY <1>2, <1>10, <2>2
<1>12. CASE s.iso = "IN_PPS_REQ"
  BY <1>2, <1>10, <1>12
<1> QED  BY <1>8, <1>11, <1>12 DEF InPps

LEMMA PpsGood ==
  ASSUME NEW s, Good(s), InPps(s), NEW b \in Byte
  PROVE  Good(process_byte_pps(s, b))
<1>1. /\ Good(ReceivePPSS(s, b)) /\ Good(ReceivePCK(s, b))
      /\ \A k \in 2..5 : Good(ReceivePpsField(s, b, k))
  BY ReceivePPSSGood, ReceivePCKGood, ReceivePpsFieldGood
<1>2. /\ Good(ReceivePpsField(s, b, 2)) /\ Good(ReceivePpsField(s, b, 3))
      /\ Good(ReceivePpsField(s, b, 4)) /\ Good(ReceivePpsField(s, b, 5))
  BY <1>1
<1> QED  BY <1>1, <1>2 DEF process_byte_pps

-----------------------------------------------------------------------------
(* TPDUs.                                                                   *)

InTpdu(s) == IsMemory(s) /\ s.iso = "IN_TPDU"

LEMMA SendTpduIs ==
  ASSUME NEW s, NEW f, IsMemory(s)
  PROVE  IsMemory(usb_send_tpdu(s, f)) /\ usb_send_tpdu(s, f).iso = s.iso
BY SendsIs DEF usb_send_tpdu

LEMMA MalformedGood == ASSUME NEW s, InTpdu(s) PROVE Good(Malformed(s))
BY SendTpduIs, ChangeGood DEF Malformed, InTpdu, IsoStates

LEMMA StoreIs ==
  ASSUME NEW s, InTpdu(s), NEW b \in Byte, NEW x \in TpduStates
  PROVE  /\ InTpdu(Store(s, b, x)) /\ Store(s, b, x).sub = x
         /\ Len(Store(s, b, x).data) = Len(s.data) + 1
<1> DEFINE d == Append(s.data, b)
<1>1. s.data \in Seq(Byte)
  BY DEF InTpdu, IsMemory, MemoryWith
<1>2. d \in Seq(Byte) /\ Len(d) = Len(s.data) + 1
  BY <1>1, AppendProperties
<1>3. Store(s, b, x) = [s EXCEPT !.data = d, !.sub = x]
  BY DEF Store, InTpdu, IsMemory, MemoryWith
<1> HIDE DEF d
<1>4. IsMemory([s EXCEPT !.data = d, !.sub = x])
  BY <1>2 DEF InTpdu, IsMemory, MemoryWith, Subs
<1>5. Store(s, b, x).iso = s.iso /\ Store(s, b, x).sub = x /\ Store(s, b, x).data = d
  BY <1>3 DEF InTpdu, IsMemory, MemoryWith
<1> QED  BY <1>2, <1>3, <1>4, <1>5 DEF InTpdu

LEMMA StoreGood ==
  ASSUME NEW s, InTpdu(s), NEW b \in Byte, NEW x \in TpduStates, Len(s.data) < MAX_TPDU_SIZE,
         Filled(x, Len(s.data) + 1)
  PROVE  Good(Store(s, b, x))
<1>1. s.data \in Seq(Byte)
  BY DEF InTpdu, IsMemory, MemoryWith
<1> QED  BY <1>1, StoreIs DEF InTpdu, Good, Fits, MAX_TPDU_SIZE

LEMMA ReceiveHeaderGood ==
  ASSUME NEW s, InTpdu(s), NEW b \in Byte, s.sub \in {"CLA", "INS", "P1", "P2", "P3"},
         Filled(s.sub, Len(s.data))
  PROVE  Good(ReceiveHeader(s, b))
<1> DEFINE k == CHOOSE j \in 1..5 : Header[j] = s.sub
           d == SubSeq(s.data, 1, k - 1)
           t == [s EXCEPT !.data = d]
<1>0. Header[1] = "CLA" /\ Header[2] = "INS" /\ Header[3] = "P1" /\ Header[4] = "P2" /\ Header[5] = "P3"
  BY DEF Header
<1>1. k \in 1..5 /\ Header[k] = s.sub
  <2>1. 1 \in 1..5 /\ 2 \in 1..5 /\ 3 \in 1..5 /\ 4 \in 1..5 /\ 5 \in 1..5
    OBVIOUS
  <2>2. \E j \in 1..5 : Header[j] = s.sub
    BY <1>0, <2>1
  <2> QED  BY <2>2
<1>2. ReceiveHeader(s, b) = IF (k = 1 /\ b = 255) \/ (k = 2 /\ IsSW1(b)) THEN Malformed(s)
                            ELSE Store(t, b, Header[k + 1])
  BY DEF ReceiveHeader
<1> HIDE DEF k
<1>3. Header[k + 1] \in TpduStates /\ Filled(Header[k + 1], k)
  BY <1>1 DEF Header, TpduStates, Filled
<1>4. s.data \in Seq(Byte) /\ Len(s.data) \in Nat
  <2>1. s.data \in Seq(Byte)
    BY DEF InTpdu, IsMemory, MemoryWith
  <2> QED  BY <2>1
<1>5. k - 1 <= Len(s.data)
  BY <1>0, <1>1, <1>4 DEF Filled
<1>6. d \in Seq(Byte) /\ Len(d) = k - 1
  <2>1. \A i \in 1..k - 1 : s.data[i] \in Byte
    BY <1>1, <1>4, <1>5, ElementOfSeq
  <2>2. 1 \in Int /\ k - 1 \in Int
    BY <1>1
  <2> HIDE <1>0
  <2>3. SubSeq(s.data, 1, k - 1) \in Seq(Byte)
    BY <2>1, <2>2, SubSeqProperties
  <2>4. Len(SubSeq(s.data, 1, k - 1)) = IF 1 <= k - 1 THEN (k - 1) - 1 + 1 ELSE 0
    BY <2>1, <2>2, SubSeqProperties
  <2> QED  BY <1>1, <2>3, <2>4
<1> HIDE DEF d
<1>7. IsMemory(t)
  BY <1>6 DEF InTpdu, IsMemory, MemoryWith
<1>8. t.iso = s.iso /\ t.data = d
  BY DEF InTpdu, IsMemory, MemoryWith
<1> HIDE DEF t
<1>9. InTpdu(t) /\ Len(t.data) < MAX_TPDU_SIZE /\ Len(t.data) + 1 = k
  BY <1>1, <1>6, <1>7, <1>8 DEF InTpdu, MAX_TPDU_SIZE
<1>10. Good(Store(t, b, Header[k + 1]))
  BY <1>3, <1>9, StoreGood
<1> QED  BY <1>2, <1>10, MalformedGood

LEMMA TpduSubGood ==
  ASSUME NEW s, InTpdu(s), NEW x \in TpduStates, Len(s.data) <= MAX_TPDU_SIZE, Filled(x, Len(s.data))
  PROVE  Good([s EXCEPT !.sub = x])
<1>1. IsMemory(s) /\ x \in Subs
  BY DEF InTpdu, Subs
<1> QED  BY <1>1, SubIs DEF InTpdu, Good, Fits

LEMMA ReceiveProcedureGood ==
  ASSUME NEW s, InTpdu(s), Good(s), NEW b \in Byte, Len(s.data) < MAX_TPDU_SIZE
  PROVE  Good(ReceiveProcedure(s, b))
<1>1. Len(s.data) <= MAX_TPDU_SIZE
  BY DEF Good, Fits, InTpdu
<1>2. /\ Filled("DATA_REMAINING", Len(s.data)) /\ Filled("DATA_SINGLE", Len(s.data))
      /\ Filled("SW2", Len(s.data) + 1)
  BY DEF Filled
<1>3. {"DATA_REMAINING", "DATA_SINGLE", "SW2"} \subseteq TpduStates
  BY DEF TpduStates
<1>4. /\ Good([s EXCEPT !.sub = "DATA_REMAINING"]) /\ Good([s EXCEPT !.sub = "DATA_SINGLE"])
      /\ Good(Store(s, b, "SW2"))
  BY <1>1, <1>2, <1>3, TpduSubGood, StoreGood
<1> QED  BY <1>4, MalformedGood DEF ReceiveProcedure

LEMMA ReceiveDataGood ==
  ASSUME NEW s, InTpdu(s), s.sub \in {"DATA_REMAINING", "DATA_SINGLE"}, NEW b \in Byte,
         Len(s.data) < MAX_TPDU_SIZE
  PROVE  Good(ReceiveData(s, b))
<1> DEFINE x == IF Len(s.data) + 1 >= 5 + DataLen(s) \/ s.sub = "DATA_SINGLE"
                THEN "PROCEDURE" ELSE s.sub
<1>1. x \in TpduStates /\ Filled(x, Len(s.data) + 1)
  BY DEF TpduStates, Filled
<1>2. ReceiveData(s, b) = Store(s, b, x)
  BY DEF ReceiveData
<1> HIDE DEF x
<1> QED  BY <1>1, <1>2, StoreGood

LEMMA ReceiveSW2Good ==
  ASSUME NEW s, InTpdu(s), s.sub = "SW2", NEW b \in Byte
  PROVE  Good(ReceiveSW2(s, b))
<1> DEFINE t == Store(s, b, s.sub)
           u == usb_send_tpdu(t, {})
<1>1. InTpdu(t)
  BY StoreIs DEF TpduStates
<1>2. ReceiveSW2(s, b) = change_state(u, "WAIT_TPDU")
  BY DEF ReceiveSW2
<1> HIDE DEF t
<1>3. IsMemory(u) /\ u.iso = "IN_TPDU"
  BY <1>1, SendTpduIs DEF InTpdu
<1> HIDE DEF u
<1> QED  BY <1>2, <1>3, ChangeGood DEF IsoStates

LEMMA TpduGood ==
  ASSUME NEW s, Good(s), NEW b \in Byte
  PROVE  Good(process_byte_tpdu(s, b))
<1>1. CASE s.iso # "IN_TPDU" \/ Len(s.data) >= MAX_TPDU_SIZE
  BY <1>1 DEF process_byte_tpdu
<1>2. CASE ~(s.iso # "IN_TPDU" \/ Len(s.data) >= MAX_TPDU_SIZE)
  <2>1. s.data \in Seq(Byte)
    BY DEF Good, IsMemory, MemoryWith
  <2>2. InTpdu(s) /\ Len(s.data) < MAX_TPDU_SIZE /\ s.sub \in TpduStates /\ Filled(s.sub, Len(s.data))
    BY <1>2, <2>1 DEF InTpdu, Good, Fits, MAX_TPDU_SIZE
  <2>3. process_byte_tpdu(s, b) =
          CASE s.sub \in {"CLA", "INS", "P1", "P2", "P3"} -> ReceiveHeader(s, b)
            [] s.sub = "PROCEDURE" -> ReceiveProcedure(s, b)
            [] s.sub \in {"DATA_REMAINING", "DATA_SINGLE"} -> ReceiveData(s, b)
            [] s.sub = "SW2" -> ReceiveSW2(s, b)
    BY <1>2 DEF process_byte_tpdu
  <2>4. CASE s.sub \in {"CLA", "INS", "P1", "P2", "P3"}
    BY <2>2, <2>3, <2>4, ReceiveHeaderGood
  <2>5. CASE s.sub = "PROCEDURE"
    BY <2>2, <2>3, <2>5, ReceiveProcedureGood
  <2>6. CASE s.sub \in {"DATA_REMAINING", "DATA_SINGLE"}
    BY <2>2, <2>3, <2>6, ReceiveDataGood
  <2>7. CASE s.sub = "SW2"
    BY <2>2, <2>3, <2>7, ReceiveSW2Good
  <2> QED  BY <2>2, <2>4, <2>5, <2>6, <2>7 DEF TpduStates
<1> QED  BY <1>1, <1>2
-----------------------------------------------------------------------------
(* Entries of the buffer.                                                   *)

LEMMA HandleByteGood ==
  ASSUME NEW s, Good(s), NEW raw \in Byte
  PROVE  Good(HandleByte(s, raw))
<1> DEFINE b == IF s.conv THEN Invert(raw) ELSE raw
<1>1. b \in Byte
  BY InvertIs
<1>2. HandleByte(s, raw) =
        CASE s.iso = "RESET" -> s
          [] s.iso \in {"WAIT_ATR", "IN_ATR"} -> process_byte_atr(change_state(s, "IN_ATR"), b)
          [] s.iso = "WAIT_TPDU" ->
               IF b = 255 THEN process_byte_pps(change_state(s, "IN_PPS_REQ"), b)
               ELSE process_byte_tpdu(change_state(s, "IN_TPDU"), b)
          [] s.iso = "WAIT_PPS_RSP" ->
               IF b = 255 THEN process_byte_pps(change_state(s, "IN_PPS_RSP"), b)
               ELSE process_byte_tpdu(s, b)
          [] s.iso = "IN_TPDU" -> process_byte_tpdu(s, b)
          [] s.iso \in {"IN_PPS_REQ", "IN_PPS_RSP"} -> process_byte_pps(s, b)
  BY DEF HandleByte
<1> HIDE DEF b
<1>3. IsMemory(s) /\ s.iso \in IsoStates
  BY DEF Good, IsMemory, MemoryWith
<1>4. CASE s.iso = "RESET"
  BY <1>2, <1>4
<1>5. CASE s.iso \in {"WAIT_ATR", "IN_ATR"}
  <2>1. HandleByte(s, raw) = process_byte_atr(change_state(s, "IN_ATR"), b)
    BY <1>2, <1>5
  <2>2. Fits(s)
    BY DEF Good
  <2>3. Good(change_state(s, "IN_ATR")) /\ change_state(s, "IN_ATR").iso = "IN_ATR"
    BY <1>3, <2>2, ChangeGood DEF IsoStates
  <2> QED  BY <1>1, <2>1, <2>3, AtrGood
<1>6. CASE s.iso = "WAIT_TPDU" /\ b = 255
  <2>1. HandleByte(s, raw) = process_byte_pps(change_state(s, "IN_PPS_REQ"), b)
    BY <1>2, <1>6
  <2>2. Good(change_state(s, "IN_PPS_REQ")) /\ change_state(s, "IN_PPS_REQ").iso = "IN_PPS_REQ"
    BY <1>3, <1>6, ChangeGood DEF IsoStates
  <2>3. InPps(change_state(s, "IN_PPS_REQ"))
    BY <2>2 DEF Good, InPps
  <2> QED  BY <1>1, <2>1, <2>2, <2>3, PpsGood
<1>7. CASE s.iso = "WAIT_TPDU" /\ b # 255
  <2>1. HandleByte(s, raw) = process_byte_tpdu(change_state(s, "IN_TPDU"), b)
    BY <1>2, <1>7
  <2>2. Fits(s)
    BY DEF Good
  <2>3. Good(change_state(s, "IN_TPDU"))
    BY <1>3, <1>7, <2>2, ChangeGood DEF IsoStates
  <2> QED  BY <1>1, <2>1, <2>3, TpduGood
<1>8. CASE s.iso = "WAIT_PPS_RSP" /\ b = 255
  <2>1. HandleByte(s, raw) = process_byte_pps(change_state(s, "IN_PPS_RSP"), b)
    BY <1>2, <1>8
  <2>2. Good(change_state(s, "IN_PPS_RSP")) /\ change_state(s, "IN_PPS_RSP").iso = "IN_PPS_RSP"
    BY <1>3, <1>8, ChangeGood DEF IsoStates
  <2>3. InPps(change_state(s, "IN_PPS_RSP"))
    BY <2>2 DEF Good, InPps
  <2> QED  BY <1>1, <2>1, <2>2, <2>3, PpsGood
<1>9. CASE s.iso = "IN_TPDU" \/ (s.iso = "WAIT_PPS_RSP" /\ b # 255)
  <2>1. HandleByte(s, raw) = process_byte_tpdu(s, b)
    BY <1>2, <1>9
  <2> QED  BY <1>1, <2>1, TpduGood
<1>10. CASE s.iso \in {"IN_PPS_REQ", "IN_PPS_RSP"}
  <2>1. HandleByte(s, raw) = process_byte_pps(s, b)
    BY <1>2, <1>10
  <2>2. InPps(s)
    BY <1>3, <1>10 DEF InPps
  <2> QED  BY <1>1, <2>1, <2>2, PpsGood
<1> QED  BY <1>3, <1>4, <1>5, <1>6, <1>7, <1>8, <1>9, <1>10 DEF IsoStates

LEMMA SendAtrGood == ASSUME NEW s, NEW f, Good(s) PROVE Good(usb_send_atr(s, f)) /\ usb_send_atr(s, f).iso = s.iso
BY SendsGood DEF usb_send_atr
LEMMA SendPpsGood == ASSUME NEW s, NEW f, Good(s) PROVE Good(usb_send_pps(s, f)) /\ usb_send_pps(s, f).iso = s.iso
BY SendsGood DEF usb_send_pps
LEMMA SendTpduGood == ASSUME NEW s, NEW f, Good(s) PROVE Good(usb_send_tpdu(s, f)) /\ usb_send_tpdu(s, f).iso = s.iso
BY SendsGood DEF usb_send_tpdu

LEMMA SendIncompleteGood ==
  ASSUME NEW s, Good(s)
  PROVE  Good(SendIncomplete(s)) /\ SendIncomplete(s).iso = s.iso
BY SendAtrGood, SendPpsGood, SendTpduGood DEF SendIncomplete

LEMMA HandleTimeoutGood == ASSUME NEW s, Good(s) PROVE Good(HandleTimeout(s))
<1> DEFINE t == SendIncomplete(s)
<1>1. Good(t) /\ t.iso = s.iso
  BY SendIncompleteGood
<1>2. IsMemory(t) /\ s.iso \in IsoStates
  BY <1>1 DEF Good, IsMemory, MemoryWith
<1>3. HandleTimeout(s) = CASE s.iso = "IN_ATR" -> change_state(t, "WAIT_ATR")
                           [] s.iso \in {"IN_TPDU", "IN_PPS_REQ", "IN_PPS_RSP"} ->
                                change_state(t, "WAIT_TPDU")
                           [] OTHER -> s
  BY DEF HandleTimeout
<1> HIDE DEF t
<1>4. CASE s.iso = "IN_ATR"
  BY <1>1, <1>2, <1>3, <1>4, ChangeGood DEF IsoStates
<1>5. CASE s.iso \in {"IN_TPDU", "IN_PPS_REQ", "IN_PPS_RSP"}
  BY <1>1, <1>2, <1>3, <1>5, ChangeGood DEF IsoStates
<1>6. CASE s.iso \notin {"IN_ATR", "IN_TPDU", "IN_PPS_REQ", "IN_PPS_RSP"}
  BY <1>3, <1>6
<1> QED  BY <1>4, <1>5, <1>6

Entries == [byte : Byte, data : BOOLEAN, timeout : BOOLEAN]

LEMMA HandleEntryGood ==
  ASSUME NEW s, Good(s), NEW e \in Entries
  PROVE  Good(HandleEntry(s, e))
<1> DEFINE t == IF e.data THEN HandleByte(s, e.byte) ELSE s
<1>1. Good(t)
  BY HandleByteGood DEF Entries
<1> HIDE DEF t
<1>2. Good(HandleTimeout(t))
  BY <1>1, HandleTimeoutGood
<1> QED  BY <1>1, <1>2 DEF HandleEntry, t

LEMMA SettledGood ==
  ASSUME NEW s, Good(s)
  PROVE  /\ Good(Settled(s)) /\ Settled(s).out = <<>> /\ Settled(s).iso = s.iso
         /\ Settled(s).wi = s.wi /\ Settled(s).d = s.d /\ Settled(s).fidi = s.fidi
         /\ ~Settled(s).drop /\ ~Settled(s).stop
<1> DEFINE t == Settled(s)
<1>1. /\ t.out = <<>> /\ t.iso = s.iso /\ t.sub = s.sub /\ t.data = s.data
      /\ t.wi = s.wi /\ t.d = s.d /\ t.fidi = s.fidi /\ ~t.drop /\ ~t.stop
  BY DEF Settled, Good, IsMemory, MemoryWith
<1>2. IsMemory(t)
  BY DEF Settled, Good, IsMemory, MemoryWith
<1> HIDE DEF t
<1>3. Good(t)
  BY <1>1, <1>2 DEF Good, Fits, AtDefault
<1> QED  BY <1>1, <1>3 DEF t

LEMMA WaitingTimeIs == ASSUME NEW s, Good(s) PROVE g_wt(s) \in Nat
BY DEF g_wt, Good, IsMemory, MemoryWith

LEMMA BetweenGood ==
  ASSUME NEW iso \in {"RESET", "WAIT_ATR", "WAIT_TPDU", "WAIT_PPS_RSP"}, NEW link,
         link.wi \in Nat, link.d \in Nat, link.fidi \in Nat,
         iso = "RESET" => AtDefault(link)
  PROVE  Good(Between(iso, link))
<1> DEFINE t == Between(iso, link)
<1>1. <<>> \in Seq(Byte) /\ [k \in 1..6 |-> 0] \in [1..6 -> Byte] /\ "CLA" \in Subs
      /\ iso \in IsoStates
  BY DEF Byte, Subs, TpduStates, IsoStates
<1>2. PICK p : p = [k \in 1..6 |-> 0]
  OBVIOUS
<1>3. t = [iso |-> iso, sub |-> "CLA", data |-> <<>>, pps |-> p,
   y |-> 0, hist |-> 0, i |-> 0, tsup |-> {}, err |-> {}, conv |-> FALSE,
   wi |-> link.wi, d |-> link.d, fidi |-> link.fidi,
   drop |-> FALSE, stop |-> FALSE, out |-> <<>>]
  BY <1>2 DEF Between
<1>4. p \in [1..6 -> Byte]
  BY <1>1, <1>2
<1> HIDE DEF t
<1>5. IsMemory(t)
  BY <1>1, <1>3, <1>4 DEF IsMemory, MemoryWith
<1>6. t.iso = iso /\ t.sub = "CLA" /\ t.data = <<>> /\ t.wi = link.wi /\ t.d = link.d /\ t.fidi = link.fidi
  BY <1>3
<1>7. Fits(t)
  BY <1>6 DEF Fits, AtDefault, Filled, TpduStates, MAX_TPDU_SIZE
<1> QED  BY <1>5, <1>7 DEF Good, t
-----------------------------------------------------------------------------
(* Type correctness.                                                        *)

\* the memory between two steps of the main loop
Settles(s) == Good(s) /\ s.out = <<>> /\ ~s.drop /\ ~s.stop

TypeInv ==
  /\ rst \in {"low", "high"}
  /\ talk \in Talks \cup {Silence} /\ pos \in 0..Len(talk.bytes)
  /\ rate \in Nat
  /\ rb \in Seq(Entries) /\ Len(rb) <= SniffBufLen
  /\ flags \subseteq Signals \cup {"TIMEOUT_WT"}
  /\ rem \in Nat /\ rtor \in Nat /\ running \in BOOLEAN
  /\ Settles(sn)
  /\ pc \in {"data", "assert", "deassert", "send", "clear", "off"}

LEMMA TypeInvIsTypeOK == TypeInv => TypeOK
BY DEF TypeInv, TypeOK, Settles, Good, Fits, IsMemory, MemoryWith, PpsSubs, PpsStates

LEMMA TalkIs ==
  ASSUME NEW t \in Talks
  PROVE  /\ t.bytes \in Seq(Byte) /\ t.bytes # <<>> /\ Len(t.bytes) \in Nat /\ Len(t.bytes) >= 1
         /\ \A k \in 1..Len(t.bytes) : t.bytes[k] \in Byte
         /\ t.kind \in {"ATR", "PPS_REQ", "PPS_RSP", "TPDU"} /\ t.report \in Seq(Byte)
         /\ t.flags \subseteq {"CHECKSUM"}
         /\ t.kind = "PPS_RSP" => Len(t.bytes) >= 3
<1>1. /\ t.bytes \in Seq(Byte) /\ t.bytes # <<>>
      /\ t.kind \in {"ATR", "PPS_REQ", "PPS_RSP", "TPDU"} /\ t.report \in Seq(Byte)
      /\ t.flags \subseteq {"CHECKSUM"}
      /\ t.kind = "PPS_RSP" => Len(t.bytes) >= 3
  BY SnifferAssumption DEF TalkAssumption
<1>2. PICK b \in Seq(Byte) : b = t.bytes
  BY <1>1
<1>3. b # <<>> => Len(b) \in Nat /\ Len(b) >= 1
  OBVIOUS
<1>4. \A k \in 1..Len(b) : b[k] \in Byte
  OBVIOUS
<1> QED  BY <1>1, <1>2, <1>3, <1>4

LEMMA SilenceIs == Silence.bytes = <<>> /\ Silence.kind = "none"
BY DEF Silence

LEMMA NegotiatedIs ==
  ASSUME NEW t \in Talks, t.kind = "PPS_RSP"
  PROVE  NegotiatedRate(t) \in Nat
<1>1. t.bytes[3] \in Byte
  <2>1. Len(t.bytes) \in Nat /\ Len(t.bytes) >= 3
    BY TalkIs
  <2>2. 3 \in 1..Len(t.bytes)
    BY <2>1
  <2> QED  BY <2>2, TalkIs
<1>2. FdRatio(t.bytes[3]) \in Nat /\ FdRatio(DefaultFidi) \in Nat
  BY <1>1, FdRatioIs, DefaultIs
<1> QED  BY <1>2 DEF NegotiatedRate

LEMMA RateAfterIs ==
  ASSUME NEW t \in Talks, NEW old \in Nat
  PROVE  RateAfter(t, old) \in Nat
BY NegotiatedIs DEF RateAfter

\* A step of the main loop
LEMMA RunsKeepsType ==
  ASSUME TypeInv, NEW m, Good(m), NEW rest \in Seq(Entries), Len(rest) <= SniffBufLen, Runs(m, rest)
  PROVE  /\ rb' \in Seq(Entries) /\ Len(rb') <= SniffBufLen /\ running' \in BOOLEAN
         /\ Settles(sn')
<1>1. sn' = Settled(m) /\ rb' = IF m.drop THEN <<>> ELSE rest
  BY DEF Runs
<1>2. running' = (running /\ ~m.stop)
  BY DEF Runs
<1>3. Settles(sn')
  BY <1>1, SettledGood DEF Settles
<1>4. running' \in BOOLEAN
  BY <1>2
<1>5. Len(<<>>) = 0 /\ <<>> \in Seq(Entries) /\ SniffBufLen \in Nat
  BY SnifferAssumption
<1>6. rb' \in Seq(Entries) /\ Len(rb') <= SniffBufLen
  BY <1>1, <1>5
<1> QED  BY <1>3, <1>4, <1>6

\* ... and of the interrupt of the USART.
LEMMA WritesKeepsType ==
  ASSUME rb \in Seq(Entries), Len(rb) <= SniffBufLen, NEW e \in Entries, Writes(e)
  PROVE  rb' \in Seq(Entries) /\ Len(rb') <= SniffBufLen
BY SnifferAssumption DEF Writes, HasRoom

LEMMA CountDownKeepsType ==
  ASSUME TypeInv, NEW left \in Nat, CountDown(left)
  PROVE  /\ rem' \in Nat /\ rtor' \in Nat /\ running' \in BOOLEAN
         /\ flags' \subseteq Signals \cup {"TIMEOUT_WT"}
<1> DEFINE over == left <= rtor
           next == IF over THEN g_wt(sn) ELSE left - rtor
<1>1. g_wt(sn) \in Nat
  BY WaitingTimeIs DEF TypeInv, Settles
<1>2. next \in Nat
  BY <1>1 DEF TypeInv
<1>3. /\ rem' = next
      /\ rtor' = IF next > RtorMax THEN RtorMax ELSE next
      /\ flags' = IF over THEN flags \cup {"TIMEOUT_WT"} ELSE flags
      /\ running' = ("TIMEOUT_WT" \notin flags')
  BY DEF CountDown
<1> HIDE DEF next, over
<1> QED  BY <1>2, <1>3, SnifferAssumption DEF TypeInv

LEMMA HearsKeepsType ==
  ASSUME TypeInv, NEW t \in Talks, NEW p \in 1..Len(t.bytes), Hears(t, p)
  PROVE  /\ rb' \in Seq(Entries) /\ Len(rb') <= SniffBufLen
         /\ flags' \subseteq Signals \cup {"TIMEOUT_WT"}
         /\ rem' \in Nat /\ rtor' \in Nat /\ running' \in BOOLEAN
<1>1. g_wt(sn) \in Nat
  BY WaitingTimeIs DEF TypeInv, Settles
<1>2. t.bytes[p] \in Byte
  BY TalkIs
<1>3. \A x \in BOOLEAN : Entry(t.bytes[p], TRUE, x) \in Entries
  BY <1>2 DEF Entry, Entries
<1>4. rb \in Seq(Entries) /\ Len(rb) <= SniffBufLen
  BY DEF TypeInv
<1>5. CASE rem' = g_wt(sn) /\ running' = TRUE /\ Writes(Entry(t.bytes[p], TRUE, FALSE))
           /\ UNCHANGED <<rtor, flags>>
  <2>1. Entry(t.bytes[p], TRUE, FALSE) \in Entries
    BY <1>3
  <2>2. rb' \in Seq(Entries) /\ Len(rb') <= SniffBufLen
    BY <1>4, <1>5, <2>1, WritesKeepsType
  <2> QED  BY <1>1, <1>5, <2>2 DEF TypeInv
<1>6. CASE CountDown(g_wt(sn)) /\ Writes(Entry(t.bytes[p], TRUE, g_wt(sn) <= rtor))
  <2>1. (g_wt(sn) <= rtor) \in BOOLEAN
    BY <1>1 DEF TypeInv
  <2>2. Entry(t.bytes[p], TRUE, g_wt(sn) <= rtor) \in Entries
    BY <1>3, <2>1
  <2>3. rb' \in Seq(Entries) /\ Len(rb') <= SniffBufLen
    BY <1>4, <1>6, <2>2, WritesKeepsType
  <2> QED  BY <1>1, <1>6, <2>3, CountDownKeepsType
<1> QED  BY <1>5, <1>6 DEF Hears

LEMMA SpeaksKeepsType ==
  ASSUME TypeInv, NEW t \in Talks, NEW p \in 1..Len(t.bytes), Speaks(t, p)
  PROVE  /\ rst' = rst /\ talk' = t /\ talk' \in Talks /\ pos' = p /\ pos' \in 0..Len(talk'.bytes)
         /\ rate' \in Nat
<1>1. rate' = (IF p = Len(t.bytes) THEN RateAfter(t, rate) ELSE rate) /\ rst' = rst /\ talk' = t /\ pos' = p
  BY DEF Speaks
<1>2. rate \in Nat /\ RateAfter(t, rate) \in Nat
  BY RateAfterIs DEF TypeInv
<1>3. Len(t.bytes) \in Nat
  BY TalkIs
<1> QED  BY <1>1, <1>2, <1>3

LEMMA TypeInit == Init => TypeInv
<1> SUFFICES ASSUME Init PROVE TypeInv
  OBVIOUS
<1>1. FdRatio(DefaultFidi) \in Nat
  BY DefaultIs
<1>2. Settles(sn)
  <2>1. Default.wi = 10 /\ Default.d = 1 /\ Default.fidi = 372
    BY DefaultIs DEF Default
  <2>2. Good(Between("RESET", Default))
    <3> HIDE DEF Default
    <3>1. Default.wi \in Nat /\ Default.d \in Nat /\ Default.fidi \in Nat /\ AtDefault(Default)
      BY <2>1 DEF AtDefault
    <3> QED  BY <3>1, BetweenGood
  <2>3. LET b == Between("RESET", Default) IN b.out = <<>> /\ ~b.drop /\ ~b.stop
    BY DEF Between
  <2> QED  BY <2>2, <2>3 DEF Init, Settles
<1>3. rb \in Seq(Entries) /\ Len(rb) <= SniffBufLen
  BY SnifferAssumption DEF Init
<1>4. talk \in Talks \cup {Silence} /\ pos \in 0..Len(talk.bytes)
  BY SilenceIs DEF Init
<1>5. rst \in {"low", "high"} /\ rate \in Nat /\ flags \subseteq Signals \cup {"TIMEOUT_WT"}
      /\ rem \in Nat /\ rtor \in Nat /\ running \in BOOLEAN
      /\ pc \in {"data", "assert", "deassert", "send", "clear", "off"}
  BY <1>1 DEF Init
<1> QED  BY <1>2, <1>3, <1>4, <1>5 DEF TypeInv

LEMMA MemoryKeepsType ==
  ASSUME TypeInv, NEW m, Good(m), NEW rest \in Seq(Entries), Len(rest) <= SniffBufLen,
         Runs(m, rest), UNCHANGED <<line, isr>>,
         flags' \subseteq Signals \cup {"TIMEOUT_WT"},
         pc' \in {"data", "assert", "deassert", "send", "clear", "off"}
  PROVE  TypeInv'
<1>1. /\ rb' \in Seq(Entries) /\ Len(rb') <= SniffBufLen /\ running' \in BOOLEAN
      /\ Settles(sn')
  BY RunsKeepsType
<1> QED  BY <1>1 DEF TypeInv, line, isr

LEMMA TypeMainLoop == TypeInv /\ MainLoop => TypeInv'
<1> SUFFICES ASSUME TypeInv, MainLoop PROVE TypeInv'
  OBVIOUS
<1>1. Good(sn) /\ rb \in Seq(Entries) /\ Len(rb) <= SniffBufLen /\ IsMemory(sn) /\ Fits(sn)
      /\ flags \subseteq Signals \cup {"TIMEOUT_WT"}
  BY DEF TypeInv, Settles, Good
<1>2. CASE ReadEntry
  <2>1. CASE rb = <<>>
    <3>1. Runs(sn, <<>>) /\ UNCHANGED <<line, isr>> /\ flags' = flags /\ pc' = "assert"
      BY <1>2, <2>1 DEF ReadEntry
    <3>2. Len(<<>>) <= SniffBufLen /\ <<>> \in Seq(Entries)
      BY SnifferAssumption
    <3> QED  BY <1>1, <3>1, <3>2, MemoryKeepsType
  <2>2. CASE rb # <<>>
    <3>1. Runs(HandleEntry(sn, Head(rb)), Tail(rb)) /\ UNCHANGED <<line, isr>> /\ flags' = flags /\ pc' = "assert"
      BY <1>2, <2>2 DEF ReadEntry
    <3>2. Head(rb) \in Entries /\ Tail(rb) \in Seq(Entries) /\ Len(Tail(rb)) <= SniffBufLen
      BY <1>1, <2>2, SnifferAssumption
    <3>3. Good(HandleEntry(sn, Head(rb)))
      BY <1>1, <3>2, HandleEntryGood
    <3> QED  BY <1>1, <3>1, <3>2, <3>3, MemoryKeepsType
  <2> QED  BY <2>1, <2>2
<1>3. CASE NoFlags
  <2>1. Runs(sn, rb) /\ UNCHANGED <<line, isr>> /\ flags' = flags /\ pc' = "data"
    BY <1>3 DEF NoFlags
  <2> QED  BY <1>1, <2>1, MemoryKeepsType
<1>4. CASE HandleAssert
  <2> DEFINE m == IF "RESET_ASSERT" \in flags THEN change_state(SendIncomplete(sn), "RESET") ELSE sn
  <2>1. Runs(m, rb) /\ UNCHANGED <<line, isr>> /\ flags' = flags /\ pc' = "deassert"
    BY <1>4 DEF HandleAssert
  <2>2. Good(m)
    <3>1. Good(SendIncomplete(sn)) /\ IsMemory(SendIncomplete(sn)) /\ Fits(SendIncomplete(sn))
      BY <1>1, SendIncompleteGood DEF Good
    <3>2. Good(change_state(SendIncomplete(sn), "RESET"))
      BY <3>1, ChangeGood DEF IsoStates
    <3> QED  BY <1>1, <3>2
  <2> HIDE DEF m
  <2> QED  BY <1>1, <2>1, <2>2, MemoryKeepsType
<1>5. CASE HandleDeassert
  <2> DEFINE m == IF "RESET_DEASSERT" \in flags THEN change_state(sn, "WAIT_ATR") ELSE sn
  <2>1. Runs(m, rb) /\ UNCHANGED <<line, isr>> /\ flags' = flags /\ pc' = "send"
    BY <1>5 DEF HandleDeassert
  <2>2. Good(m)
    BY <1>1, ChangeGood DEF IsoStates
  <2> HIDE DEF m
  <2> QED  BY <1>1, <2>1, <2>2, MemoryKeepsType
<1>6. CASE SendFlags
  <2> DEFINE m == Sends(sn, Message("CHANGE", <<>>, flags))
  <2>1. Runs(m, rb) /\ UNCHANGED <<line, isr>> /\ flags' = flags /\ pc' = "clear"
    BY <1>6 DEF SendFlags
  <2>2. Good(m)
    BY <1>1, SendsGood
  <2> HIDE DEF m
  <2> QED  BY <1>1, <2>1, <2>2, MemoryKeepsType
<1>7. CASE ClearFlags
  <2>1. Runs(sn, rb) /\ UNCHANGED <<line, isr>> /\ flags' = {} /\ pc' = "data"
    BY <1>7 DEF ClearFlags
  <2> QED  BY <1>1, <2>1, MemoryKeepsType
<1> QED  BY <1>2, <1>3, <1>4, <1>5, <1>6, <1>7 DEF MainLoop

LEMMA TypeStart == TypeInv /\ Start => TypeInv'
<1> SUFFICES ASSUME TypeInv, Start PROVE TypeInv'
  OBVIOUS
<1> DEFINE f == FdRatio(DefaultFidi)
           s == [sn EXCEPT !.fidi = f]
           t == change_state(s, "RESET")
<1>1. Good(sn) /\ sn.out = <<>> /\ IsMemory(sn) /\ ~sn.drop
  BY DEF TypeInv, Settles, Good
<1>2. f \in Nat
  BY DefaultIs
<1>3. sn' = [t EXCEPT !.stop = FALSE]
  BY DEF Start
<1> HIDE DEF f
<1>4. IsMemory(s)
  BY <1>1, <1>2 DEF IsMemory, MemoryWith
<1>5. /\ s.iso = sn.iso /\ s.sub = sn.sub /\ s.data = sn.data /\ s.out = <<>> /\ ~s.drop
      /\ s.wi = sn.wi /\ s.d = sn.d /\ s.fidi = f
  BY <1>1, <1>2 DEF IsMemory, MemoryWith
<1> HIDE DEF s
<1>6. Fits(s)
  BY <1>1, <1>2, <1>5, DefaultIs DEF Good, Fits, AtDefault, f
<1>7. Good(t) /\ t.iso = "RESET"
  BY <1>4, <1>6, ChangeGood DEF IsoStates
<1>8. t.out = <<>> /\ ~t.drop
  <2>1. CASE s.iso = "RESET"
    BY <2>1, <1>5 DEF change_state
  <2>2. CASE s.iso # "RESET"
    <3>1. t = [DefaultLink(Fresh(s)) EXCEPT !.iso = "RESET"]
      BY <2>2 DEF change_state
    <3>2. IsMemory(Fresh(s)) /\ Fresh(s).out = <<>> /\ ~Fresh(s).drop
      BY <1>4, <1>5, FreshIs
    <3>3. IsMemory(DefaultLink(Fresh(s))) /\ DefaultLink(Fresh(s)).out = <<>> /\ ~DefaultLink(Fresh(s)).drop
      BY <3>2, DefaultLinkIs
    <3> QED  BY <3>1, <3>3 DEF IsMemory, MemoryWith
  <2> QED  BY <2>1, <2>2
<1> HIDE DEF t
<1>9. IsMemory([t EXCEPT !.stop = FALSE])
  BY <1>7 DEF Good, IsMemory, MemoryWith
<1>10. LET r == [t EXCEPT !.stop = FALSE]
       IN  /\ r.iso = "RESET" /\ r.out = <<>> /\ ~r.drop /\ ~r.stop
           /\ r.wi = t.wi /\ r.d = t.d /\ r.fidi = t.fidi
  BY <1>7, <1>8 DEF Good, IsMemory, MemoryWith
<1>11. Settles(sn')
  BY <1>3, <1>7, <1>9, <1>10 DEF Settles, Good, Fits, AtDefault
<1>12. rb' = <<>> /\ rtor' = g_wt(sn) /\ running' = TRUE /\ pc' = "data"
      /\ UNCHANGED <<line, rem, flags>>
  BY DEF Start
<1>13. g_wt(sn) \in Nat /\ SniffBufLen \in Nat
  BY <1>1, WaitingTimeIs, SnifferAssumption
<1>14. rb' \in Seq(Entries) /\ Len(rb') <= SniffBufLen /\ rtor' \in Nat /\ running' \in BOOLEAN
  BY <1>12, <1>13
<1> QED  BY <1>11, <1>12, <1>14 DEF TypeInv, line

LEMMA TypeExit == TypeInv /\ Exit => TypeInv'
BY DEF TypeInv, Exit, line, isr

LEMMA TypeLine == TypeInv /\ (FirstByte \/ NextByte \/ Timeout) => TypeInv'
<1> SUFFICES ASSUME TypeInv, FirstByte \/ NextByte \/ Timeout PROVE TypeInv'
  OBVIOUS
<1>1. CASE FirstByte
  <2>1. PICK t \in Talks : Speaks(t, 1) /\ Hears(t, 1)
    BY <1>1 DEF FirstByte
  <2>2. 1 \in 1..Len(t.bytes)
    BY TalkIs
  <2>3. UNCHANGED <<sn, pc>>
    BY <1>1 DEF FirstByte
  <2>4. talk' \in Talks /\ pos' \in 0..Len(talk'.bytes) /\ rate' \in Nat /\ rst' = rst
    BY <2>1, <2>2, SpeaksKeepsType
  <2>5. /\ rb' \in Seq(Entries) /\ Len(rb') <= SniffBufLen
        /\ flags' \subseteq Signals \cup {"TIMEOUT_WT"}
        /\ rem' \in Nat /\ rtor' \in Nat /\ running' \in BOOLEAN
    BY <2>1, <2>2, HearsKeepsType
  <2> QED  BY <2>3, <2>4, <2>5 DEF TypeInv
<1>2. CASE NextByte
  <2>1. Speaks(talk, pos + 1) /\ Hears(talk, pos + 1) /\ pos < Len(talk.bytes) /\ UNCHANGED <<sn, pc>>
    BY <1>2 DEF NextByte
  <2>2. talk \in Talks
    BY <2>1, SilenceIs DEF TypeInv
  <2>3. pos + 1 \in 1..Len(talk.bytes)
    BY <2>1, <2>2, TalkIs DEF TypeInv
  <2>4. talk' \in Talks /\ pos' \in 0..Len(talk'.bytes) /\ rate' \in Nat /\ rst' = rst
    BY <2>1, <2>2, <2>3, SpeaksKeepsType
  <2>5. /\ rb' \in Seq(Entries) /\ Len(rb') <= SniffBufLen
        /\ flags' \subseteq Signals \cup {"TIMEOUT_WT"}
        /\ rem' \in Nat /\ rtor' \in Nat /\ running' \in BOOLEAN
    BY <2>1, <2>2, <2>3, HearsKeepsType
  <2> QED  BY <2>1, <2>4, <2>5 DEF TypeInv
<1>3. CASE Timeout
  <2>1. CountDown(rem) /\ UNCHANGED <<line, sn, pc>>
        /\ IF rem <= rtor THEN Writes(Entry(0, FALSE, TRUE)) ELSE UNCHANGED rb
    BY <1>3 DEF Timeout
  <2>2. Entry(0, FALSE, TRUE) \in Entries
    BY DEF Entry, Entries, Byte
  <2>3. rb \in Seq(Entries) /\ Len(rb) <= SniffBufLen /\ rem \in Nat
    BY DEF TypeInv
  <2>4. rb' \in Seq(Entries) /\ Len(rb') <= SniffBufLen
    BY <2>1, <2>2, <2>3, WritesKeepsType
  <2>5. /\ rem' \in Nat /\ rtor' \in Nat /\ running' \in BOOLEAN
        /\ flags' \subseteq Signals \cup {"TIMEOUT_WT"}
    BY <2>1, <2>3, CountDownKeepsType
  <2> QED  BY <2>1, <2>4, <2>5 DEF TypeInv, line
<1> QED  BY <1>1, <1>2, <1>3

LEMMA TypeReset == TypeInv /\ (AssertReset \/ DeassertReset) => TypeInv'
<1> SUFFICES ASSUME TypeInv, AssertReset \/ DeassertReset PROVE TypeInv'
  OBVIOUS
<1>1. FdRatio(DefaultFidi) \in Nat
  BY DefaultIs
<1>2. CASE AssertReset
  <2>1. flags' \subseteq Signals \cup {"TIMEOUT_WT"}
    BY <1>2 DEF AssertReset, Flagged, Signals, TypeInv
  <2>2. talk' \in Talks \cup {Silence} /\ pos' \in 0..Len(talk'.bytes) /\ rate' \in Nat /\ rst' = "low"
    BY <1>1, <1>2, SilenceIs DEF AssertReset
  <2>3. UNCHANGED <<isr, rb, running, sn, pc>>
    BY <1>2 DEF AssertReset
  <2> QED  BY <2>1, <2>2, <2>3 DEF TypeInv, isr
<1>3. CASE DeassertReset
  <2>1. flags' \subseteq Signals \cup {"TIMEOUT_WT"}
    BY <1>3 DEF DeassertReset, Flagged, Signals, TypeInv
  <2>2. UNCHANGED <<talk, pos, rate, isr, rb, running, sn, pc>> /\ rst' = "high"
    BY <1>3 DEF DeassertReset
  <2> QED  BY <2>1, <2>2 DEF TypeInv, isr
<1> QED  BY <1>2, <1>3

LEMMA TypeInductive == Spec => []TypeInv
<1>1. TypeInv /\ [Next]_vars => TypeInv'
  <2> SUFFICES ASSUME TypeInv, [Next]_vars PROVE TypeInv'
    OBVIOUS
  <2>1. CASE UNCHANGED vars
    BY <2>1 DEF TypeInv, vars
  <2>2. CASE Next
    BY <2>2, TypeMainLoop, TypeStart, TypeExit, TypeLine, TypeReset DEF Next
  <2> QED  BY <2>1, <2>2
<1> QED  BY TypeInit, <1>1, PTL DEF Spec

\* The state machine of sniffer.c stays within its types, whatever is on the line
\* and however the interrupts and the main loop interleave: no array is written
\* beyond its end, and no byte is parsed in a sub-state of another transmission.
THEOREM TypeCorrect == Spec => []TypeOK
BY TypeInductive, TypeInvIsTypeOK, PTL

-----------------------------------------------------------------------------
(* What is heard of a transmission, byte by byte.                           *)

LEMMA HeardIs ==
  ASSUME NEW s, NEW bytes, Len(bytes) \in Nat
  PROVE  /\ Heard(s, bytes)[0] = s
         /\ \A n \in 1..Len(bytes) :
              Heard(s, bytes)[n] = Settled(HandleByte(Heard(s, bytes)[n - 1], bytes[n]))
<1> DEFINE Body(g, n) == IF n = 0 THEN s ELSE Settled(HandleByte(g[n - 1], bytes[n]))
           IsHeard(g, m) == g = [n \in 0..m |-> Body(g, n)]
           T == {m \in Nat : \E g : IsHeard(g, m)}
<1>1. 0 \in T
  <2>1. IsHeard([n \in 0..0 |-> s], 0)
    OBVIOUS
  <2> QED  BY <2>1
<1>2. \A m \in Nat : m \in T => m + 1 \in T
  <2> SUFFICES ASSUME NEW m \in Nat, NEW g, IsHeard(g, m) PROVE \E h : IsHeard(h, m + 1)
    OBVIOUS
  <2> DEFINE h == [n \in 0..m + 1 |-> IF n <= m THEN g[n] ELSE Settled(HandleByte(g[m], bytes[m + 1]))]
  <2>1. ASSUME NEW n \in 0..m + 1 PROVE h[n] = Body(h, n)
    <3>1. CASE n = 0
      BY <3>1
    <3>2. CASE n \in 1..m
      <4>1. g[n] = Body(g, n) /\ h[n] = g[n]
        BY <3>2
      <4>2. n - 1 \in 0..m + 1 /\ n - 1 <= m
        BY <3>2
      <4>3. h[n - 1] = g[n - 1]
        BY <4>2
      <4> QED  BY <3>2, <4>1, <4>3
    <3>3. CASE n = m + 1
      <4>1. h[m] = g[m] /\ n # 0 /\ n - 1 = m
        BY <3>3
      <4>2. h[n] = Settled(HandleByte(g[m], bytes[m + 1]))
        BY <3>3
      <4> QED  BY <3>3, <4>1, <4>2
    <3> QED  BY <3>1, <3>2, <3>3
  <2>2. DOMAIN h = 0..m + 1
    OBVIOUS
  <2> HIDE DEF Body
  <2>3. h = [n \in 0..m + 1 |-> h[n]]
    BY <2>2
  <2>4. [n \in 0..m + 1 |-> h[n]] = [n \in 0..m + 1 |-> Body(h, n)]
    <3> HIDE DEF h
    <3> QED  BY <2>1
  <2> HIDE DEF h
  <2> QED  BY <2>3, <2>4
<1>3. Len(bytes) \in T
  <2> HIDE DEF T
  <2> QED  BY <1>1, <1>2, Induction
<1>4. PICK g : IsHeard(g, Len(bytes))
  BY <1>3
<1>5. Heard(s, bytes) = CHOOSE f : IsHeard(f, Len(bytes))
  BY DEF Heard
<1>6. IsHeard(Heard(s, bytes), Len(bytes))
  <2> HIDE DEF IsHeard
  <2> QED  BY <1>4, <1>5
<1>7. ASSUME NEW n \in 0..Len(bytes) PROVE Heard(s, bytes)[n] = Body(Heard(s, bytes), n)
  BY <1>6
<1> QED  BY <1>7

-----------------------------------------------------------------------------
(* Changes of state between two transmissions.                              *)

NoPps == [k \in 1..6 |-> 0]

\* what Fresh clears
Clear(s) ==
  /\ s.sub = "CLA" /\ s.data = <<>> /\ s.pps = NoPps
  /\ s.y = 0 /\ s.hist = 0 /\ s.i = 0 /\ s.tsup = {} /\ s.err = {}

LEMMA FreshIsClear == ASSUME NEW s, IsMemory(s) PROVE Clear(Fresh(s))
<1>1. PICK p : p = NoPps
  OBVIOUS
<1>2. Fresh(s) = [s EXCEPT !.data = <<>>, !.pps = p, !.sub = "CLA",
                           !.y = 0, !.hist = 0, !.i = 0, !.tsup = {}, !.err = {}]
  BY <1>1 DEF Fresh, NoPps
<1>3. LET r == [s EXCEPT !.data = <<>>, !.pps = p, !.sub = "CLA",
                         !.y = 0, !.hist = 0, !.i = 0, !.tsup = {}, !.err = {}]
      IN  /\ r.sub = "CLA" /\ r.data = <<>> /\ r.pps = p
          /\ r.y = 0 /\ r.hist = 0 /\ r.i = 0 /\ r.tsup = {} /\ r.err = {}
  BY DEF IsMemory, MemoryWith
<1> QED  BY <1>1, <1>2, <1>3 DEF Clear

LEMMA SettledIsBetween ==
  ASSUME NEW s, IsMemory(s), Clear(s), ~s.conv
  PROVE  Settled(s) = Between(s.iso, Link(s))
<1> DEFINE t == Settled(s)
           r == Between(s.iso, Link(s))
<1>1. /\ t.iso = s.iso /\ t.sub = s.sub /\ t.data = s.data /\ t.pps = s.pps /\ t.y = s.y
      /\ t.hist = s.hist /\ t.i = s.i /\ t.tsup = s.tsup /\ t.err = s.err /\ t.conv = s.conv
      /\ t.wi = s.wi /\ t.d = s.d /\ t.fidi = s.fidi /\ t.drop = FALSE /\ t.stop = FALSE
      /\ t.out = <<>>
  BY DEF Settled, IsMemory, MemoryWith
<1>2. t = [iso |-> t.iso, sub |-> t.sub, data |-> t.data, pps |-> t.pps, y |-> t.y,
           hist |-> t.hist, i |-> t.i, tsup |-> t.tsup, err |-> t.err, conv |-> t.conv,
           wi |-> t.wi, d |-> t.d, fidi |-> t.fidi, drop |-> t.drop, stop |-> t.stop, out |-> t.out]
  <2>1. IsMemory(t)
    BY DEF Settled, IsMemory, MemoryWith
  <2> HIDE DEF t
  <2> QED  BY <2>1 DEF IsMemory, MemoryWith
<1>3. s.conv = FALSE
  BY DEF IsMemory, MemoryWith
<1>4. r = [iso |-> s.iso, sub |-> "CLA", data |-> <<>>, pps |-> NoPps,
   y |-> 0, hist |-> 0, i |-> 0, tsup |-> {}, err |-> {}, conv |-> FALSE,
   wi |-> s.wi, d |-> s.d, fidi |-> s.fidi, drop |-> FALSE, stop |-> FALSE, out |-> <<>>]
  BY DEF Between, Link, NoPps
<1> HIDE DEF t, r
<1>5. t = r
  BY <1>1, <1>2, <1>3, <1>4 DEF Clear
<1> QED  BY <1>5 DEF t, r

LEMMA LinkIs ==
  ASSUME NEW s
  PROVE  Link(s).wi = s.wi /\ Link(s).d = s.d /\ Link(s).fidi = s.fidi
BY DEF Link

LEMMA DefaultLinkOf ==
  ASSUME NEW s, AtDefault(s)
  PROVE  Link(s) = Default
BY DefaultIs DEF AtDefault, Link, Default

LEMMA BetweenDefault ==
  /\ Between("RESET", Default).iso = "RESET" /\ Between("WAIT_ATR", Default).iso = "WAIT_ATR"
  /\ Between("WAIT_ATR", Default).fidi = Default.fidi /\ Between("RESET", Default).fidi = Default.fidi
BY DEF Between

\* Into RESET
LEMMA ToReset ==
  ASSUME NEW s, Good(s), ~s.conv
  PROVE  /\ s.iso # "RESET" => Settled(change_state(s, "RESET")) = Between("RESET", Default)
         /\ change_state(s, "RESET").out = s.out
         /\ s.iso = "RESET" => change_state(s, "RESET") = s
         /\ change_state(s, "RESET").drop = s.drop
<1>0. IsMemory(s)
  BY DEF Good
<1>1. CASE s.iso = "RESET"
  BY <1>1 DEF change_state
<1>2. CASE s.iso # "RESET"
  <2> DEFINE t == Fresh(s)
             u == DefaultLink(t)
             v == [u EXCEPT !.iso = "RESET"]
  <2>1. change_state(s, "RESET") = v
    BY <1>2 DEF change_state
  <2>2. IsMemory(t) /\ Clear(t) /\ t.conv = s.conv /\ t.out = s.out /\ t.drop = s.drop
    BY <1>0, FreshIs, FreshIsClear
  <2> HIDE DEF t
  <2>3. /\ IsMemory(u) /\ u.wi = 10 /\ u.d = 1 /\ u.fidi = 372 /\ u.out = t.out
        /\ u.conv = t.conv /\ u.drop = t.drop
    BY <2>2, DefaultLinkIs
  <2>4. Clear(u)
    <3>1. u = update_wt(update_fidi(t, DefaultFidi), 10, 1)
      BY DEF DefaultLink
    <3> DEFINE w == update_fidi(t, DefaultFidi)
    <3>2. IsMemory(w)
      BY <2>2, DefaultIs, UpdateFidiIs
    <3>3. Clear(w)
      BY <2>2 DEF update_fidi, Clear, IsMemory, MemoryWith
    <3> HIDE DEF w
    <3>4. PICK wi, d : wi = 10 /\ d = 1
      OBVIOUS
    <3>5. Clear(update_wt(w, wi, d))
      BY <3>2, <3>3 DEF update_wt, Clear, IsMemory, MemoryWith
    <3> QED  BY <3>1, <3>4, <3>5 DEF w
  <2> HIDE DEF u
  <2>5. IsMemory(v)
    BY <2>3 DEF IsMemory, MemoryWith, IsoStates
  <2>6. /\ v.iso = "RESET" /\ v.wi = u.wi /\ v.d = u.d /\ v.fidi = u.fidi /\ v.out = u.out
        /\ v.conv = u.conv /\ v.drop = u.drop
    BY <2>3 DEF IsMemory, MemoryWith
  <2>7. Clear(v)
    BY <2>3, <2>4 DEF Clear, IsMemory, MemoryWith
  <2> HIDE DEF v
  <2>8. AtDefault(v) /\ ~v.conv
    BY <2>2, <2>3, <2>6 DEF AtDefault
  <2>9. Settled(v) = Between(v.iso, Link(v)) /\ Link(v) = Default
    BY <2>5, <2>7, <2>8, SettledIsBetween, DefaultLinkOf
  <2> QED  BY <1>2, <2>1, <2>2, <2>3, <2>6, <2>9
<1> QED  BY <1>1, <1>2

\* ... WAIT_ATR and WAIT_TPDU.
LEMMA ToWait ==
  ASSUME NEW s, Good(s), ~s.conv, NEW new \in {"WAIT_ATR", "WAIT_TPDU"}, s.iso # new
  PROVE  /\ Settled(change_state(s, new)) = Between(new, Link(s))
         /\ change_state(s, new).out = s.out /\ change_state(s, new).stop = s.stop
         /\ new = "WAIT_TPDU" => change_state(s, new).drop = s.drop
         /\ new = "WAIT_ATR" => change_state(s, new).drop
<1>0. IsMemory(s)
  BY DEF Good
<1> DEFINE t == Fresh(s)
<1>1. IsMemory(t) /\ Clear(t) /\ t.conv = s.conv /\ t.out = s.out /\ t.drop = s.drop /\ t.stop = s.stop
      /\ t.wi = s.wi /\ t.d = s.d /\ t.fidi = s.fidi
  BY <1>0, FreshIs, FreshIsClear
<1>2. CASE new = "WAIT_ATR"
  <2> DEFINE v == [[t EXCEPT !.drop = TRUE] EXCEPT !.iso = "WAIT_ATR"]
  <2>1. change_state(s, new) = v
    BY <1>2 DEF change_state
  <2> HIDE DEF t
  <2>2. IsMemory(v)
    BY <1>1 DEF IsMemory, MemoryWith, IsoStates
  <2>3. /\ v.iso = "WAIT_ATR" /\ v.wi = t.wi /\ v.d = t.d /\ v.fidi = t.fidi /\ v.out = t.out
        /\ v.conv = t.conv /\ v.drop = TRUE /\ v.stop = t.stop
    BY <1>1 DEF IsMemory, MemoryWith
  <2>4. Clear(v)
    BY <1>1 DEF Clear, IsMemory, MemoryWith
  <2> HIDE DEF v
  <2>5. Settled(v) = Between(v.iso, Link(v)) /\ Link(v) = Link(s)
    BY <1>1, <2>2, <2>3, <2>4, SettledIsBetween DEF Link
  <2> QED  BY <1>1, <1>2, <2>1, <2>3, <2>5
<1>3. CASE new = "WAIT_TPDU"
  <2> DEFINE v == [t EXCEPT !.iso = "WAIT_TPDU"]
  <2>1. change_state(s, new) = v
    BY <1>3 DEF change_state
  <2> HIDE DEF t
  <2>2. IsMemory(v)
    BY <1>1 DEF IsMemory, MemoryWith, IsoStates
  <2>3. /\ v.iso = "WAIT_TPDU" /\ v.wi = t.wi /\ v.d = t.d /\ v.fidi = t.fidi /\ v.out = t.out
        /\ v.conv = t.conv /\ v.drop = t.drop /\ v.stop = t.stop
    BY <1>1 DEF IsMemory, MemoryWith
  <2>4. Clear(v)
    BY <1>1 DEF Clear, IsMemory, MemoryWith
  <2> HIDE DEF v
  <2>5. Settled(v) = Between(v.iso, Link(v)) /\ Link(v) = Link(s)
    BY <1>1, <2>2, <2>3, <2>4, SettledIsBetween DEF Link
  <2> QED  BY <1>1, <1>3, <2>1, <2>3, <2>5
<1> QED  BY <1>2, <1>3

-----------------------------------------------------------------------------
(* Where the sniffer is in what reader and card say.                        *)
(*                                                                          *)
(* A place is a transmission, how many of its bytes were heard, whether it  *)
(* was then given up, the settings in which it is sent, and where it stands *)
(* among the transmissions that are to be reported, or 0.                   *)

Places == [t : Talks \cup {Silence}, n : Nat, over : BOOLEAN,
           link : {Default} \cup AfterAtr \cup AfterPps, j : Nat]

IsPlace(p) ==
  /\ p \in Places
  /\ p.t \in Talks => p.n \in 1..Len(p.t.bytes) /\ p.link \in Links(p.t)
  /\ p.t = Silence => p.n = 0 /\ ~p.over
  /\ p.over => p.n < Len(p.t.bytes)

Ended(p) == p.over \/ p.n = Len(p.t.bytes)

\* the memory there
At(s, p) ==
  IF p.t = Silence THEN s = Between("WAIT_ATR", Default)
  ELSE IF p.over
       THEN /\ s.iso = (IF p.t.kind = "ATR" THEN "WAIT_ATR" ELSE "WAIT_TPDU") /\ ~s.conv
            /\ p.t.kind = "TPDU" => s = Between("WAIT_TPDU", p.link)
       ELSE s = Heard(Between(Before(p.t), p.link), p.t.bytes)[p.n]

NextLink(p) ==
  IF p.t = Silence THEN Default ELSE IF p.over THEN p.link ELSE LinkAfter(p.t, p.link)

Follows(p, t) ==
  \/ p.t = Silence /\ t.kind = "ATR"
  \/ ~p.over /\ p.t.kind = "ATR" /\ t.kind \in {"PPS_REQ", "TPDU"}
  \/ ~p.over /\ p.t.kind = "PPS_REQ" /\ p.t.flags = {} /\ t.kind = "PPS_RSP"
  \/ ~p.over /\ p.t.kind = "PPS_RSP" /\ p.t.flags = {} /\ t.kind = "TPDU"
  \/ p.t.kind = "TPDU" /\ t.kind = "TPDU"

\* an entry of the buffer leads from p to r
GoesOn(p, e, r) ==
  /\ e.data /\ ~e.timeout /\ ~Ended(p) /\ e.byte = p.t.bytes[p.n + 1]
  /\ r = [p EXCEPT !.n = @ + 1]
Begins(p, e, r) ==
  /\ e.data /\ ~e.timeout /\ Ended(p) /\ r.t \in Talks /\ e.byte = r.t.bytes[1]
  /\ Follows(p, r.t)
  /\ r = [t |-> r.t, n |-> 1, over |-> FALSE, link |-> NextLink(p), j |-> p.j + 1]
GivesUp(p, e, r) ==
  /\ ~e.data /\ e.timeout
  /\ r = IF Ended(p) THEN p ELSE [p EXCEPT !.over = TRUE]
Moves(p, e, r) == GoesOn(p, e, r) \/ Begins(p, e, r) \/ GivesUp(p, e, r)

LEMMA PlaceIs ==
  ASSUME NEW p, IsPlace(p)
  PROVE  /\ p.t \in Talks \/ p.t = Silence
         /\ p.t \in Talks => /\ p.t # Silence /\ p.n \in 1..Len(p.t.bytes) /\ p.link \in Links(p.t)
                             /\ Understood(p.t, p.link)
         /\ p.t = Silence => p.n = 0 /\ ~p.over /\ Ended(p) /\ p.t \notin Talks
         /\ ~Ended(p) => p.t \in Talks /\ ~p.over /\ p.n < Len(p.t.bytes)
         /\ p.n \in Nat /\ p.j \in Nat /\ p.over \in BOOLEAN
<1>1. p.t \in Talks \cup {Silence} /\ p.n \in Nat /\ p.j \in Nat /\ p.over \in BOOLEAN
  BY DEF IsPlace, Places
<1>2. Silence \notin Talks
  BY TalkIs, SilenceIs
<1>3. p.t \in Talks => /\ p.t # Silence /\ p.n \in 1..Len(p.t.bytes) /\ p.link \in Links(p.t)
                       /\ Understood(p.t, p.link)
  BY <1>2, UnderstoodAssumption DEF IsPlace
<1>4. p.t = Silence => p.n = 0 /\ ~p.over /\ Ended(p) /\ p.t \notin Talks
  BY <1>2, SilenceIs DEF IsPlace, Ended
<1>5. ~Ended(p) => p.t \in Talks /\ ~p.over /\ p.n < Len(p.t.bytes)
  <2>1. SUFFICES ASSUME ~Ended(p) PROVE p.t \in Talks /\ ~p.over /\ p.n < Len(p.t.bytes)
    OBVIOUS
  <2>2. p.t \in Talks /\ ~p.over /\ p.n # Len(p.t.bytes)
    BY <1>1, <1>4, <2>1 DEF Ended
  <2>3. Len(p.t.bytes) \in Nat /\ p.n \in 1..Len(p.t.bytes)
    BY <1>3, <2>2, TalkIs
  <2> QED  BY <2>2, <2>3
<1> QED  BY <1>1, <1>3, <1>4, <1>5

LEMMA MidIs ==
  ASSUME NEW p, NEW s, IsPlace(p), At(s, p), ~Ended(p)
  PROVE  /\ s.iso = During(p.t) /\ ~s.conv /\ (p.t.kind = "TPDU" => Link(s) = p.link)
         /\ \E k \in 0..Len(p.t.report) :
              SendIncomplete(s).out = <<Message(Type(p.t), SubSeq(p.t.report, 1, k), {"INCOMPLETE"})>>
<1>1. p.t \in Talks /\ ~p.over /\ p.t # Silence /\ p.n \in 1..Len(p.t.bytes) /\ p.n < Len(p.t.bytes)
      /\ Understood(p.t, p.link)
  BY PlaceIs
<1>2. s = Heard(Between(Before(p.t), p.link), p.t.bytes)[p.n]
  BY <1>1 DEF At
<1>3. p.n \in 1..Len(p.t.bytes) - 1
  <2>1. Len(p.t.bytes) \in Nat
    BY <1>1, TalkIs
  <2> QED  BY <1>1, <2>1
<1>4. UnderstoodUpTo(p.t, p.link, p.n)
  BY <1>1, <1>3 DEF Understood
<1> QED  BY <1>2, <1>4 DEF UnderstoodUpTo

LEMMA DuringIs ==
  ASSUME NEW t \in Talks
  PROVE  /\ During(t) \in InTalk
         /\ t.kind = "ATR" => During(t) = "IN_ATR"
         /\ t.kind = "TPDU" => During(t) = "IN_TPDU"
         /\ t.kind \in {"PPS_REQ", "PPS_RSP"} => During(t) \in {"IN_PPS_REQ", "IN_PPS_RSP"}
BY TalkIs DEF During, InTalk

\* A complete transmission leaves the sniffer between two.
LEMMA CompleteIs ==
  ASSUME NEW p, NEW s, IsPlace(p), At(s, p), p.t \in Talks, ~p.over, Ended(p)
  PROVE  /\ s = Between(After(p.t), LinkAfter(p.t, p.link))
         /\ s.fidi = RateAfter(p.t, p.link.fidi)
         /\ LinkAfter(p.t, p.link).fidi = s.fidi
         /\ p.t.kind \in {"PPS_REQ", "TPDU"} => LinkAfter(p.t, p.link) = p.link
<1>1. p.t # Silence /\ Understood(p.t, p.link) /\ p.n = Len(p.t.bytes)
  BY PlaceIs DEF Ended
<1>2. s = Heard(Between(Before(p.t), p.link), p.t.bytes)[Len(p.t.bytes)]
  BY <1>1 DEF At
<1>3. LinkAfter(p.t, p.link) = Link(s)
  BY <1>2 DEF LinkAfter
<1>4. /\ s = Between(After(p.t), Link(s)) /\ s.fidi = RateAfter(p.t, p.link.fidi)
      /\ p.t.kind \in {"PPS_REQ", "TPDU"} => Link(s) = p.link
  BY <1>1, <1>2 DEF Understood
<1> QED  BY <1>3, <1>4, LinkIs

LEMMA EndedIs ==
  ASSUME NEW p, NEW s, IsPlace(p), At(s, p), Ended(p)
  PROVE  s.iso \in {"WAIT_ATR", "WAIT_TPDU", "WAIT_PPS_RSP"} /\ s.iso \notin InTalk /\ ~s.conv
<1>1. CASE p.t = Silence
  <2>1. s = Between("WAIT_ATR", Default)
    BY <1>1 DEF At
  <2> QED  BY <2>1 DEF Between, InTalk
<1>2. CASE p.t \in Talks /\ p.over
  <2>1. p.t # Silence
    BY <1>2, PlaceIs
  <2> QED  BY <1>2, <2>1 DEF At, InTalk
<1>3. CASE p.t \in Talks /\ ~p.over
  <2>1. s = Between(After(p.t), LinkAfter(p.t, p.link))
    BY <1>3, CompleteIs
  <2>2. s.iso = After(p.t) /\ ~s.conv
    BY <2>1 DEF Between
  <2> QED  BY <2>2 DEF After, InTalk
<1> QED  BY <1>1, <1>2, <1>3, PlaceIs

LEMMA AfterKinds ==
  ASSUME NEW t \in Talks, t.kind = "ATR"
  PROVE  LinkAfter(t, Default) \in AfterAtr
BY DEF AfterAtr
LEMMA AfterKinds2 ==
  ASSUME NEW t \in Talks, t.kind = "PPS_RSP", NEW l \in AfterAtr
  PROVE  LinkAfter(t, l) \in AfterPps
BY DEF AfterPps

\* ... ready for the next.
LEMMA ReadyForNext ==
  ASSUME NEW p, NEW s, IsPlace(p), At(s, p), Ended(p), NEW t \in Talks, Follows(p, t)
  PROVE  s = Between(Before(t), NextLink(p)) /\ NextLink(p) \in Links(t)
<1>1. CASE p.t = Silence
  <2>1. p.t.kind = "none"
    BY <1>1, SilenceIs
  <2>2. t.kind = "ATR"
    BY <1>1, <2>1 DEF Follows
  <2> QED  BY <1>1, <2>2 DEF At, NextLink, Before, Links
<1>2. CASE p.t \in Talks /\ p.over
  <2>1. p.t # Silence /\ p.link \in Links(p.t)
    BY <1>2, PlaceIs
  <2>2. p.t.kind = "TPDU" /\ t.kind = "TPDU"
    BY <1>2, <2>1 DEF Follows
  <2>3. s = Between("WAIT_TPDU", p.link) /\ NextLink(p) = p.link
    BY <1>2, <2>1, <2>2 DEF At, NextLink
  <2> QED  BY <2>1, <2>2, <2>3 DEF Before, Links
<1>3. CASE p.t \in Talks /\ ~p.over
  <2>1. p.t # Silence /\ p.link \in Links(p.t)
    BY <1>3, PlaceIs
  <2>2. /\ s = Between(After(p.t), LinkAfter(p.t, p.link))
        /\ p.t.kind \in {"PPS_REQ", "TPDU"} => LinkAfter(p.t, p.link) = p.link
    BY <1>3, CompleteIs
  <2>3. NextLink(p) = LinkAfter(p.t, p.link)
    BY <1>3, <2>1 DEF NextLink
  <2>4. CASE p.t.kind = "ATR" /\ t.kind \in {"PPS_REQ", "TPDU"}
    <3>1. p.link = Default
      BY <2>1, <2>4 DEF Links
    <3>2. LinkAfter(p.t, p.link) \in AfterAtr
      BY <1>3, <2>4, <3>1, AfterKinds
    <3>3. After(p.t) = "WAIT_TPDU" /\ Before(t) = "WAIT_TPDU"
      BY <2>4 DEF After, Before
    <3> QED  BY <2>2, <2>3, <2>4, <3>2, <3>3 DEF Links
  <2>5. CASE p.t.kind = "PPS_REQ" /\ p.t.flags = {} /\ t.kind = "PPS_RSP"
    <3>1. p.link \in AfterAtr
      BY <2>1, <2>5 DEF Links
    <3>3. After(p.t) = "WAIT_PPS_RSP" /\ Before(t) = "WAIT_PPS_RSP"
      BY <2>5 DEF After, Before
    <3> QED  BY <2>2, <2>3, <2>5, <3>1, <3>3 DEF Links
  <2>6. CASE p.t.kind = "PPS_RSP" /\ t.kind = "TPDU"
    <3>1. p.link \in AfterAtr
      BY <2>1, <2>6 DEF Links
    <3>2. LinkAfter(p.t, p.link) \in AfterPps
      BY <1>3, <2>6, <3>1, AfterKinds2
    <3>3. After(p.t) = "WAIT_TPDU" /\ Before(t) = "WAIT_TPDU"
      BY <2>6 DEF After, Before
    <3> QED  BY <2>2, <2>3, <2>6, <3>2, <3>3 DEF Links
  <2>7. CASE p.t.kind = "TPDU" /\ t.kind = "TPDU"
    <3>1. p.link \in AfterAtr \cup AfterPps
      BY <2>1, <2>7 DEF Links
    <3>3. After(p.t) = "WAIT_TPDU" /\ Before(t) = "WAIT_TPDU"
      BY <2>7 DEF After, Before
    <3> QED  BY <2>2, <2>3, <2>7, <3>1, <3>3 DEF Links
  <2> QED  BY <2>1, <2>4, <2>5, <2>6, <2>7 DEF Follows
<1> QED  BY <1>1, <1>2, <1>3, PlaceIs

LEMMA NextLinkIs ==
  ASSUME NEW p, IsPlace(p), Ended(p), NEW t \in Talks, Follows(p, t)
  PROVE  NextLink(p) \in Links(t)
<1>1. CASE p.t = Silence
  <2>1. At(Between("WAIT_ATR", Default), p)
    BY <1>1 DEF At
  <2> QED  BY <2>1, ReadyForNext
<1>2. CASE p.t \in Talks /\ p.over
  <2>1. p.t # Silence
    BY <1>2, PlaceIs
  <2>2. p.t.kind = "TPDU"
    BY <1>2, <2>1 DEF Follows
  <2>3. At(Between("WAIT_TPDU", p.link), p)
    BY <1>2, <2>1, <2>2 DEF At, Between
  <2> QED  BY <2>3, ReadyForNext
<1>3. CASE p.t \in Talks /\ ~p.over
  <2>1. p.t # Silence
    BY <1>3, PlaceIs
  <2>2. PICK s : s = Heard(Between(Before(p.t), p.link), p.t.bytes)[p.n]
    OBVIOUS
  <2>3. At(s, p)
    BY <1>3, <2>1, <2>2 DEF At
  <2> QED  BY <2>3, ReadyForNext
<1> QED  BY <1>1, <1>2, <1>3, PlaceIs

LEMMA LinksAre == ASSUME NEW t \in Talks PROVE Links(t) \subseteq {Default} \cup AfterAtr \cup AfterPps
BY TalkIs DEF Links

\* A move leads to a place.
LEMMA MoveIs ==
  ASSUME NEW p, NEW e, NEW r, IsPlace(p), Moves(p, e, r)
  PROVE  IsPlace(r)
<1>1. /\ p.t \in Talks \/ p.t = Silence
      /\ p.n \in Nat /\ p.j \in Nat /\ p.over \in BOOLEAN
      /\ p \in Places
  BY PlaceIs DEF IsPlace
<1>2. CASE GoesOn(p, e, r)
  <2>1. /\ p.t \in Talks /\ p.t # Silence /\ p.n \in 1..Len(p.t.bytes) /\ p.link \in Links(p.t)
        /\ ~p.over /\ p.n < Len(p.t.bytes) /\ Len(p.t.bytes) \in Nat
    BY <1>2, PlaceIs, TalkIs DEF GoesOn
  <2>2. r = [p EXCEPT !.n = p.n + 1]
    BY <1>2 DEF GoesOn
  <2>3. r \in Places /\ r.t = p.t /\ r.link = p.link /\ r.over = p.over /\ r.n = p.n + 1
    BY <1>1, <2>2 DEF Places
  <2>4. r.n \in 1..Len(p.t.bytes)
    BY <2>1, <2>3
  <2> QED  BY <2>1, <2>3, <2>4 DEF IsPlace
<1>3. CASE Begins(p, e, r)
  <2>1. PICK t \in Talks : t = r.t
    BY <1>3 DEF Begins
  <2>2. /\ r = [t |-> t, n |-> 1, over |-> FALSE, link |-> NextLink(p), j |-> p.j + 1]
        /\ Ended(p) /\ Follows(p, t)
    BY <1>3, <2>1 DEF Begins
  <2>3. NextLink(p) \in Links(t) /\ NextLink(p) \in {Default} \cup AfterAtr \cup AfterPps
    BY <2>2, NextLinkIs, LinksAre
  <2>4. t # Silence /\ 1 \in 1..Len(t.bytes)
    BY TalkIs, SilenceIs
  <2>5. r \in Places /\ r.n = 1 /\ r.over = FALSE /\ r.link = NextLink(p)
    <3> HIDE DEF NextLink
    <3> QED  BY <1>1, <2>1, <2>2, <2>3 DEF Places
  <2> QED  BY <2>1, <2>3, <2>4, <2>5 DEF IsPlace
<1>4. CASE GivesUp(p, e, r) /\ Ended(p)
  BY <1>4 DEF GivesUp
<1>5. CASE GivesUp(p, e, r) /\ ~Ended(p)
  <2>1. /\ p.t \in Talks /\ p.t # Silence /\ p.n \in 1..Len(p.t.bytes) /\ p.link \in Links(p.t)
        /\ p.n < Len(p.t.bytes)
    BY <1>5, PlaceIs
  <2>2. r = [p EXCEPT !.over = TRUE]
    BY <1>5 DEF GivesUp
  <2>3. r \in Places /\ r.t = p.t /\ r.link = p.link /\ r.n = p.n
    BY <1>1, <2>2 DEF Places
  <2> QED  BY <2>1, <2>3 DEF IsPlace
<1> QED  BY <1>2, <1>3, <1>4, <1>5 DEF Moves

\* what a move does to the fields
LEMMA MoveFields ==
  ASSUME NEW p, NEW e, NEW r, IsPlace(p), Moves(p, e, r)
  PROVE  /\ GoesOn(p, e, r) => /\ r.t = p.t /\ r.n = p.n + 1 /\ r.over = p.over /\ ~r.over
                               /\ r.link = p.link /\ r.j = p.j
         /\ Begins(p, e, r) => /\ r.t \in Talks /\ r.n = 1 /\ ~r.over /\ r.link = NextLink(p)
                               /\ r.j = p.j + 1
         /\ GivesUp(p, e, r) => /\ r.t = p.t /\ r.n = p.n /\ r.link = p.link /\ r.j = p.j
                                /\ Ended(r) /\ (Ended(p) => r = p) /\ (~Ended(p) => r.over)
<1>0. p \in Places
  BY DEF IsPlace
<1>1. ASSUME GoesOn(p, e, r) PROVE /\ r.t = p.t /\ r.n = p.n + 1 /\ r.over = p.over /\ ~r.over
                               /\ r.link = p.link /\ r.j = p.j
  <2>1. r = [p EXCEPT !.n = p.n + 1] /\ ~p.over
    BY <1>1, PlaceIs DEF GoesOn
  <2> QED  BY <1>0, <2>1 DEF Places
<1>2. ASSUME Begins(p, e, r) PROVE /\ r.t \in Talks /\ r.n = 1 /\ ~r.over /\ r.link = NextLink(p)
                               /\ r.j = p.j + 1
  <2>1. PICK t \in Talks : t = r.t
    BY <1>2 DEF Begins
  <2>2. r = [t |-> t, n |-> 1, over |-> FALSE, link |-> NextLink(p), j |-> p.j + 1]
    BY <1>2, <2>1 DEF Begins
  <2> QED  BY <2>1, <2>2
<1>3. ASSUME GivesUp(p, e, r) PROVE /\ r.t = p.t /\ r.n = p.n /\ r.link = p.link /\ r.j = p.j
                                /\ Ended(r) /\ (Ended(p) => r = p) /\ (~Ended(p) => r.over)
  <2>1. CASE Ended(p)
    BY <1>3, <2>1 DEF GivesUp
  <2>2. CASE ~Ended(p)
    <3>1. r = [p EXCEPT !.over = TRUE]
      BY <1>3, <2>2 DEF GivesUp
    <3>2. r.t = p.t /\ r.n = p.n /\ r.link = p.link /\ r.j = p.j /\ r.over
      BY <1>0, <3>1 DEF Places
    <3> QED  BY <2>2, <3>2 DEF Ended
  <2> QED  BY <2>1, <2>2
<1> QED  BY <1>1, <1>2, <1>3

-----------------------------------------------------------------------------
(* The main loop reads an entry.                                            *)

\* A whole transmission is reported;
Whole(m, t) ==
  /\ 1 \in DOMAIN m.out /\ m.out[1] = Message(Type(t), t.report, t.flags)
  /\ \A k \in DOMAIN m.out : k # 1 => ~IsReport(m.out[k])
  /\ ~m.drop /\ (m.stop => t.kind = "PPS_RSP")

LEMMA HearsByte ==
  ASSUME NEW p, NEW s, NEW e, NEW r, IsPlace(p), At(s, p), GoesOn(p, e, r) \/ Begins(p, e, r)
  PROVE  LET m == HandleEntry(s, e)
         IN  /\ At(Settled(m), r) /\ r.t \in Talks
             /\ ~Ended(r) => m.out = <<>> /\ ~m.drop /\ ~m.stop
             /\ Ended(r) => Whole(m, r.t)
<1> DEFINE h == Heard(Between(Before(r.t), r.link), r.t.bytes)
           m == HandleEntry(s, e)
<1>1. IsPlace(r) /\ Moves(p, e, r)
  BY MoveIs DEF Moves
<1>2. /\ r.t \in Talks /\ ~r.over /\ r.n \in 1..Len(r.t.bytes) /\ r.link \in Links(r.t)
      /\ e.byte = r.t.bytes[r.n] /\ s = h[r.n - 1] /\ e.data /\ ~e.timeout
  <2>0. \A x \in Talks : Len(x.bytes) \in Nat
    BY TalkIs
  <2>1. CASE GoesOn(p, e, r)
    <3>1. p.t \in Talks /\ p.t # Silence /\ ~p.over /\ p.n \in Nat
      BY <2>1, PlaceIs DEF GoesOn
    <3>2. r.t = p.t /\ r.n = p.n + 1 /\ ~r.over /\ r.link = p.link
      BY <1>1, <2>1, MoveFields
    <3>3. s = Heard(Between(Before(p.t), p.link), p.t.bytes)[p.n]
      BY <3>1 DEF At
    <3>4. r.n - 1 = p.n
      BY <3>1, <3>2
    <3>5. e.byte = r.t.bytes[r.n] /\ e.data /\ ~e.timeout
      BY <2>1, <3>2 DEF GoesOn
    <3>6. r.n \in 1..Len(r.t.bytes) /\ r.link \in Links(r.t)
      BY <1>1, <3>1, <3>2 DEF IsPlace
    <3> QED  BY <3>1, <3>2, <3>3, <3>4, <3>5, <3>6
  <2>2. CASE Begins(p, e, r)
    <3>1. r.t \in Talks /\ r.n = 1 /\ ~r.over /\ r.link = NextLink(p)
      BY <1>1, <2>2, MoveFields
    <3>2. Ended(p) /\ Follows(p, r.t) /\ e.byte = r.t.bytes[1] /\ e.data /\ ~e.timeout
      BY <2>2 DEF Begins
    <3>3. s = Between(Before(r.t), NextLink(p)) /\ NextLink(p) \in Links(r.t)
      BY <3>1, <3>2, ReadyForNext
    <3>4. h[0] = Between(Before(r.t), r.link)
      BY <2>0, <3>1, HeardIs
    <3>5. r.n - 1 = 0 /\ r.n \in 1..Len(r.t.bytes)
      BY <3>1, TalkIs
    <3> QED  BY <3>1, <3>2, <3>3, <3>4, <3>5
  <2> QED  BY <2>1, <2>2
<1>3. m = HandleByte(h[r.n - 1], r.t.bytes[r.n])
  <2>1. m = HandleByte(s, e.byte)
    BY <1>2 DEF HandleEntry
  <2> QED  BY <1>2, <2>1
<1>4. h[r.n] = Settled(m)
  <2>1. Len(r.t.bytes) \in Nat
    BY <1>2, TalkIs
  <2>2. \A n \in 1..Len(r.t.bytes) : h[n] = Settled(HandleByte(h[n - 1], r.t.bytes[n]))
    BY <2>1, HeardIs
  <2> HIDE DEF h, m
  <2> QED  BY <1>2, <1>3, <2>2
<1>5. r.t # Silence
  BY <1>2, TalkIs, SilenceIs
<1>6. At(Settled(m), r)
  BY <1>2, <1>4, <1>5 DEF At
<1>7. Understood(r.t, r.link)
  BY <1>2, UnderstoodAssumption
<1>8. ASSUME ~Ended(r) PROVE m.out = <<>> /\ ~m.drop /\ ~m.stop
  <2>1. r.n \in 1..Len(r.t.bytes) - 1
    <3>1. Len(r.t.bytes) \in Nat /\ r.n < Len(r.t.bytes)
      BY <1>1, <1>2, <1>8, TalkIs, PlaceIs
    <3> QED  BY <1>2, <3>1
  <2>2. UnderstoodUpTo(r.t, r.link, r.n)
    BY <1>7, <2>1 DEF Understood
  <2> QED  BY <1>3, <2>2 DEF UnderstoodUpTo
<1>9. ASSUME Ended(r) PROVE Whole(m, r.t)
  <2>1. r.n = Len(r.t.bytes)
    BY <1>2, <1>9 DEF Ended
  <2>2. m = HandleByte(h[Len(r.t.bytes) - 1], r.t.bytes[Len(r.t.bytes)])
    BY <1>3, <2>1
  <2> HIDE DEF m
  <2> QED  BY <1>7, <2>2 DEF Understood, Whole
<1> HIDE DEF m
<1>10. At(Settled(m), r) /\ r.t \in Talks
             /\ (~Ended(r) => m.out = <<>> /\ ~m.drop /\ ~m.stop)
             /\ (Ended(r) => Whole(m, r.t))
  BY <1>2, <1>6, <1>8, <1>9
<1> QED  BY <1>10 DEF m

LEMMA SendsKeeps ==
  ASSUME NEW s, NEW m, IsMemory(s)
  PROVE  LET u == Sends(s, m)
         IN  /\ u.iso = s.iso /\ u.conv = s.conv /\ u.drop = s.drop /\ u.stop = s.stop
             /\ u.wi = s.wi /\ u.d = s.d /\ u.fidi = s.fidi
BY DEF IsMemory, MemoryWith, Sends

LEMMA IncompleteKeeps ==
  ASSUME NEW s, Good(s)
  PROVE  /\ Good(SendIncomplete(s)) /\ SendIncomplete(s).iso = s.iso
         /\ SendIncomplete(s).conv = s.conv /\ SendIncomplete(s).drop = s.drop
         /\ SendIncomplete(s).stop = s.stop /\ Link(SendIncomplete(s)) = Link(s)
         /\ s.iso \notin InTalk => SendIncomplete(s) = s
<1> DEFINE u == SendIncomplete(s)
<1>1. Good(u) /\ u.iso = s.iso
  BY SendIncompleteGood
<1>2. IsMemory(s)
  BY DEF Good
<1>3. u = s \/ \E m : u = Sends(s, m)
  BY DEF SendIncomplete, usb_send_atr, usb_send_tpdu, usb_send_pps
<1>4. s.iso \notin InTalk => u = s
  BY DEF SendIncomplete, InTalk
<1> HIDE DEF u
<1>5. /\ u.conv = s.conv /\ u.drop = s.drop /\ u.stop = s.stop
      /\ u.wi = s.wi /\ u.d = s.d /\ u.fidi = s.fidi
  BY <1>2, <1>3, SendsKeeps
<1>6. Link(u) = Link(s)
  BY <1>5 DEF Link
<1> QED  BY <1>1, <1>4, <1>5, <1>6 DEF u

LEMMA SettlesIs ==
  ASSUME NEW s, Settles(s)
  PROVE  Settled(s) = s
<1> DEFINE t == Settled(s)
<1>1. IsMemory(s) /\ s.out = <<>> /\ s.drop = FALSE /\ s.stop = FALSE
  BY DEF Settles, Good, IsMemory, MemoryWith
<1>2. t = [s EXCEPT !.drop = s.drop, !.stop = s.stop, !.out = s.out]
  BY <1>1 DEF Settled
<1>3. [s EXCEPT !.drop = s.drop, !.stop = s.stop, !.out = s.out] = s
  BY <1>1 DEF IsMemory, MemoryWith
<1> QED  BY <1>2, <1>3

\* t is reported as far as it was heard.
Broken(m, t) ==
  \E k \in 0..Len(t.report) :
    m.out = <<Message(Type(t), SubSeq(t.report, 1, k), {"INCOMPLETE"})>>

\* A time-out gives up what is begun
LEMMA TimesOut ==
  ASSUME NEW p, NEW s, NEW e, NEW r, IsPlace(p), At(s, p), GivesUp(p, e, r), Settles(s)
  PROVE  LET m == HandleEntry(s, e)
         IN  /\ At(Settled(m), r) /\ ~m.stop
             /\ Ended(p) => m = s
             /\ ~Ended(p) => Broken(m, r.t) /\ (m.drop => r.t.kind = "ATR")
<1> DEFINE m == HandleEntry(s, e)
<1>1. m = HandleTimeout(s)
  BY DEF GivesUp, HandleEntry
<1>2. Good(s) /\ s.out = <<>> /\ ~s.drop /\ ~s.stop /\ Settled(s) = s
  BY SettlesIs DEF Settles
<1>3. CASE Ended(p)
  <2>1. r = p
    BY <1>3 DEF GivesUp
  <2>2. s.iso \notin InTalk
    BY <1>3, EndedIs
  <2>3. HandleTimeout(s) = s
    BY <2>2 DEF HandleTimeout, InTalk
  <2> QED  BY <1>1, <1>2, <1>3, <2>1, <2>3
<1>4. CASE ~Ended(p)
  <2> DEFINE u == SendIncomplete(s)
  <2>1. /\ p.t \in Talks /\ s.iso = During(p.t) /\ ~s.conv /\ (p.t.kind = "TPDU" => Link(s) = p.link)
        /\ Broken(u, p.t)
    BY <1>4, PlaceIs, MidIs DEF Broken
  <2>2. /\ r.t = p.t /\ r.over /\ r.link = p.link /\ r.t # Silence
    BY <1>4, <2>1, MoveFields, TalkIs, SilenceIs DEF Moves
  <2>3. /\ Good(u) /\ u.iso = s.iso /\ ~u.conv /\ ~u.drop /\ ~u.stop /\ Link(u) = Link(s)
    BY <1>2, <2>1, IncompleteKeeps
  <2>4. HandleTimeout(s) = CASE s.iso = "IN_ATR" -> change_state(u, "WAIT_ATR")
                             [] s.iso \in {"IN_TPDU", "IN_PPS_REQ", "IN_PPS_RSP"} ->
                                  change_state(u, "WAIT_TPDU")
                             [] OTHER -> s
    BY DEF HandleTimeout
  <2> HIDE DEF u, m
  <2>5. CASE p.t.kind = "ATR"
    <3>1. s.iso = "IN_ATR"
      BY <2>1, <2>5, DuringIs
    <3>2. m = change_state(u, "WAIT_ATR")
      BY <1>1, <2>4, <3>1
    <3>3. Settled(m) = Between("WAIT_ATR", Link(u)) /\ m.out = u.out /\ ~m.stop
      BY <2>3, <3>1, <3>2, ToWait
    <3>4. Settled(m).iso = "WAIT_ATR" /\ ~Settled(m).conv
      BY <3>3 DEF Between
    <3>5. At(Settled(m), r)
      BY <2>2, <2>5, <3>4 DEF At
    <3> QED  BY <1>4, <2>1, <2>2, <2>5, <3>3, <3>5 DEF Broken, m
  <2>6. CASE p.t.kind # "ATR"
    <3>1. s.iso \in {"IN_TPDU", "IN_PPS_REQ", "IN_PPS_RSP"}
      BY <2>1, <2>6, DuringIs, TalkIs
    <3>2. m = change_state(u, "WAIT_TPDU")
      BY <1>1, <2>4, <3>1
    <3>3. Settled(m) = Between("WAIT_TPDU", Link(u)) /\ m.out = u.out /\ ~m.stop /\ ~m.drop
      BY <2>3, <3>1, <3>2, ToWait
    <3>4. Settled(m).iso = "WAIT_TPDU" /\ ~Settled(m).conv
      BY <3>3 DEF Between
    <3>5. At(Settled(m), r)
      BY <2>1, <2>2, <2>3, <2>6, <3>3, <3>4 DEF At
    <3> QED  BY <1>4, <2>1, <2>2, <3>3, <3>5 DEF Broken, m
  <2> QED  BY <2>5, <2>6
<1> QED  BY <1>3, <1>4

\* ... and so does the reset.
LEMMA Resets ==
  ASSUME NEW p, NEW s, IsPlace(p), At(s, p), Settles(s)
  PROVE  LET m == change_state(SendIncomplete(s), "RESET")
         IN  /\ Settled(m) = Between("RESET", Default) /\ ~m.drop
             /\ Ended(p) => m.out = <<>>
             /\ ~Ended(p) => Broken(m, p.t)
<1> DEFINE u == SendIncomplete(s)
           m == change_state(u, "RESET")
<1>1. Good(s) /\ s.out = <<>> /\ ~s.drop
  BY DEF Settles
<1>2. ~s.conv /\ s.iso # "RESET" /\ (Ended(p) => s.iso \notin InTalk)
      /\ (~Ended(p) => Broken(u, p.t))
  <2>1. CASE Ended(p)
    BY <2>1, EndedIs
  <2>2. CASE ~Ended(p)
    <3>1. s.iso = During(p.t) /\ ~s.conv /\ Broken(u, p.t) /\ p.t \in Talks
      BY <2>2, MidIs, PlaceIs DEF Broken
    <3>2. s.iso # "RESET"
      BY <3>1, DuringIs DEF InTalk
    <3> QED  BY <2>2, <3>1, <3>2
  <2> QED  BY <2>1, <2>2
<1>3. Good(u) /\ u.iso = s.iso /\ ~u.conv /\ ~u.drop /\ (s.iso \notin InTalk => u = s)
  BY <1>1, <1>2, IncompleteKeeps
<1>4. Settled(m) = Between("RESET", Default) /\ m.out = u.out /\ ~m.drop
  BY <1>2, <1>3, ToReset
<1>5. Ended(p) => m.out = <<>>
  BY <1>1, <1>2, <1>3, <1>4
<1>6. ~Ended(p) => Broken(m, p.t)
  BY <1>2, <1>4 DEF Broken
<1> QED  BY <1>4, <1>5, <1>6

-----------------------------------------------------------------------------
(* The path from what the sniffer has handled, q[0], through the entries of *)
(* the buffer to what it will have handled, q[Len(b)].  d is what is to be  *)
(* reported on the way.                                                     *)

Path(q, b, d) ==
  /\ \A k \in 0..Len(b) : IsPlace(q[k])
  /\ \A k \in 1..Len(b) : Moves(q[k - 1], b[k], q[k])
  /\ q[0].j = (IF Ended(q[0]) THEN 0 ELSE 1)
  /\ q[Len(b)].j = Len(d)
  /\ \A k \in 0..Len(b) : q[k].j >= 1 => q[k].j <= Len(d) /\ d[q[k].j] = q[k].t
  /\ \A k \in 0..Len(b) : q[k].t.kind = "PPS_RSP" => q[k].j \in {0, Len(d)}
  /\ \A k \in 0..Len(b) : k < Len(b) /\ q[k].over => q[k].t.kind = "TPDU"

Stays(p, r) == r.t = p.t /\ r.link = p.link /\ (Ended(p) => r = p)

\* The way leads from one transmission to the next, or stays.
LEMMA Rises ==
  ASSUME NEW q, NEW b, NEW d, Len(b) \in Nat, Path(q, b, d), NEW i \in 0..Len(b), NEW k \in 0..Len(b), i <= k
  PROVE  /\ q[i].j <= q[k].j
         /\ q[i].j = q[k].j => Stays(q[i], q[k])
<1> DEFINE Fine(p, r) == p.j <= r.j /\ (p.j = r.j => Stays(p, r))
           T == {n \in Nat : i + n <= Len(b) => Fine(q[i], q[i + n])}
<1>1. \A n \in 0..Len(b) : q[n].j \in Nat
  BY PlaceIs DEF Path
<1>2. 0 \in T
  <2>1. q[i + 0] = q[i] /\ q[i].j \in Nat
    BY <1>1
  <2>2. Fine(q[i], q[i + 0])
    BY <2>1 DEF Stays
  <2> QED  BY <2>2
<1>3. \A n \in Nat : n \in T => n + 1 \in T
  <2> SUFFICES ASSUME NEW n \in Nat, n \in T, i + (n + 1) <= Len(b) PROVE Fine(q[i], q[i + (n + 1)])
    OBVIOUS
  <2>1. PICK m \in 0..Len(b) : m = i + n
    OBVIOUS
  <2>2. m + 1 = i + (n + 1) /\ m + 1 \in 1..Len(b) /\ m + 1 - 1 = m /\ m + 1 \in 0..Len(b)
    BY <2>1
  <2>3. Fine(q[i], q[m])
    BY <2>1
  <2>4. IsPlace(q[m]) /\ Moves(q[m], b[m + 1], q[m + 1])
    BY <2>2 DEF Path
  <2>5. q[i].j \in Nat /\ q[m].j \in Nat /\ q[m + 1].j \in Nat
    BY <1>1, <2>2
  <2>6. CASE GoesOn(q[m], b[m + 1], q[m + 1])
    <3>1. q[m + 1].t = q[m].t /\ q[m + 1].link = q[m].link /\ q[m + 1].j = q[m].j /\ ~Ended(q[m])
      BY <2>4, <2>6, MoveFields DEF GoesOn
    <3>2. Fine(q[i], q[m + 1])
      BY <2>3, <2>5, <3>1 DEF Stays
    <3> QED  BY <2>2, <3>2
  <2>7. CASE Begins(q[m], b[m + 1], q[m + 1])
    <3>1. q[m + 1].j = q[m].j + 1
      BY <2>4, <2>7, MoveFields
    <3>2. q[i].j <= q[m].j
      BY <2>3
    <3>3. q[i].j <= q[m + 1].j /\ q[i].j # q[m + 1].j
      BY <2>5, <3>1, <3>2
    <3>4. Fine(q[i], q[m + 1])
      BY <3>3
    <3> QED  BY <2>2, <3>4
  <2>8. CASE GivesUp(q[m], b[m + 1], q[m + 1])
    <3>1. /\ q[m + 1].t = q[m].t /\ q[m + 1].link = q[m].link /\ q[m + 1].j = q[m].j
          /\ Ended(q[m]) => q[m + 1] = q[m]
      BY <2>4, <2>8, MoveFields
    <3>2. Fine(q[i], q[m + 1])
      BY <2>3, <2>5, <3>1 DEF Stays
    <3> QED  BY <2>2, <3>2
  <2> QED  BY <2>4, <2>6, <2>7, <2>8 DEF Moves
<1>4. \A n \in Nat : n \in T
  <2> HIDE DEF T
  <2> QED  BY <1>2, <1>3, Induction
<1>5. k - i \in Nat /\ i + (k - i) = k /\ i + (k - i) <= Len(b)
  OBVIOUS
<1>6. Fine(q[i], q[i + (k - i)])
  BY <1>4, <1>5
<1> QED  BY <1>5, <1>6

\* An entry is added at its end,
Joins(q, b, d, e, r, d2) ==
  /\ b \in Seq(Entries) /\ d \in Seq(Talks) /\ Path(q, b, d)
  /\ e \in Entries /\ Moves(q[Len(b)], e, r)
  /\ d2 = IF Begins(q[Len(b)], e, r) THEN Append(d, r.t) ELSE d
  /\ q[Len(b)].over => q[Len(b)].t.kind = "TPDU"
  /\ Begins(q[Len(b)], e, r) /\ q[Len(b)].t.kind = "PPS_RSP" => d = <<>>

LEMMA Push ==
  ASSUME NEW q, NEW b, NEW d, NEW e, NEW r, NEW d2, Joins(q, b, d, e, r, d2)
  PROVE  \E q2 : Path(q2, Append(b, e), d2) /\ q2[0] = q[0] /\ q2[Len(Append(b, e))] = r
<1> SUFFICES ASSUME b \in Seq(Entries), d \in Seq(Talks), Path(q, b, d),
                    e \in Entries, Moves(q[Len(b)], e, r),
                    d2 = IF Begins(q[Len(b)], e, r) THEN Append(d, r.t) ELSE d,
                    q[Len(b)].over => q[Len(b)].t.kind = "TPDU",
                    Begins(q[Len(b)], e, r) /\ q[Len(b)].t.kind = "PPS_RSP" => d = <<>>
             PROVE  \E q2 : Path(q2, Append(b, e), d2) /\ q2[0] = q[0] /\ q2[Len(Append(b, e))] = r
  BY DEF Joins
<1> DEFINE n == Len(b)
           b2 == Append(b, e)
           q2 == [k \in 0..n + 1 |-> IF k <= n THEN q[k] ELSE r]
<1>1. /\ n \in Nat /\ Len(b2) = n + 1 /\ b2[n + 1] = e /\ \A k \in 1..n : b2[k] = b[k]
      /\ Len(d) \in Nat
  OBVIOUS
<1>2. (\A k \in 0..n : q2[k] = q[k]) /\ q2[n + 1] = r
  BY <1>1
<1> HIDE DEF b2, q2
<1>3. IsPlace(q[n]) /\ IsPlace(r) /\ q[n].j = Len(d)
      /\ (q[n].j >= 1 => q[n].j <= Len(d) /\ d[q[n].j] = q[n].t)
  <2>1. IsPlace(q[n]) /\ q[n].j = Len(d) /\ (q[n].j >= 1 => q[n].j <= Len(d) /\ d[q[n].j] = q[n].t)
    BY <1>1 DEF Path
  <2> QED  BY <2>1, MoveIs
<1>4. \A k \in 0..n + 1 : IsPlace(q2[k])
  BY <1>1, <1>2, <1>3 DEF Path
<1>5. \A k \in 1..n + 1 : Moves(q2[k - 1], b2[k], q2[k])
  <2>1. ASSUME NEW k \in 1..n PROVE Moves(q2[k - 1], b2[k], q2[k])
    <3>1. k - 1 \in 0..n /\ k \in 0..n
      BY <1>1
    <3>2. Moves(q[k - 1], b[k], q[k])
      BY DEF Path
    <3> QED  BY <1>1, <1>2, <3>1, <3>2
  <2>2. n + 1 - 1 = n /\ n \in 0..n
    BY <1>1
  <2>3. Moves(q2[n + 1 - 1], b2[n + 1], q2[n + 1])
    BY <1>1, <1>2, <2>2
  <2>4. \A k \in 1..n + 1 : k \in 1..n \/ k = n + 1
    BY <1>1
  <2> QED  BY <2>1, <2>3, <2>4
<1>6. q2[0].j = (IF Ended(q2[0]) THEN 0 ELSE 1) /\ q2[0] = q[0]
  BY <1>1, <1>2 DEF Path
<1>7. CASE Begins(q[n], e, r)
  <2>1. d2 = Append(d, r.t) /\ r.t \in Talks /\ r.j = Len(d) + 1 /\ ~r.over
    BY <1>3, <1>7, MoveFields
  <2>2. Len(d2) = Len(d) + 1 /\ d2[Len(d) + 1] = r.t /\ \A k \in 1..Len(d) : d2[k] = d[k]
    BY <2>1
  <2>3. q2[n + 1].j = Len(d2)
    BY <1>2, <2>1, <2>2
  <2>4. \A k \in 0..n : q[k].j \in Nat /\ (q[k].j >= 1 => q[k].j <= Len(d) /\ d[q[k].j] = q[k].t)
    BY PlaceIs DEF Path
  <2>5. \A k \in 0..n + 1 : q2[k].j >= 1 => q2[k].j <= Len(d2) /\ d2[q2[k].j] = q2[k].t
    <3>1. ASSUME NEW k \in 0..n, q2[k].j >= 1 PROVE q2[k].j <= Len(d2) /\ d2[q2[k].j] = q2[k].t
      BY <1>1, <1>2, <2>2, <2>4, <3>1
    <3>2. q2[n + 1].j <= Len(d2) /\ d2[q2[n + 1].j] = q2[n + 1].t
      BY <1>1, <1>2, <2>1, <2>2
    <3>3. \A k \in 0..n + 1 : k \in 0..n \/ k = n + 1
      BY <1>1
    <3> QED  BY <3>1, <3>2, <3>3
  <2>6. \A k \in 0..n + 1 : q2[k].t.kind = "PPS_RSP" => q2[k].j \in {0, Len(d2)}
    <3>1. ASSUME NEW k \in 0..n, q[k].t.kind = "PPS_RSP" PROVE q[k].j = 0
      <4>1. q[k].j \in {0, Len(d)} /\ k <= n /\ n \in 0..n
        BY <1>1, <3>1 DEF Path
      <4>2. CASE q[k].j = q[n].j
        <5>1. Stays(q[k], q[n])
          BY <1>1, <4>1, <4>2, Rises
        <5>2. d = <<>>
          BY <1>7, <3>1, <5>1 DEF Stays
        <5> QED  BY <4>1, <5>2
      <4> QED  BY <1>3, <4>1, <4>2
    <3> QED  BY <1>1, <1>2, <2>3, <3>1
  <2>7. \A k \in 0..n + 1 : k < n + 1 /\ q2[k].over => q2[k].t.kind = "TPDU"
    BY <1>1, <1>2 DEF Path
  <2>8. Path(q2, b2, d2)
    BY <1>1, <1>4, <1>5, <1>6, <2>3, <2>5, <2>6, <2>7 DEF Path
  <2> QED  BY <1>1, <1>2, <1>6, <2>8 DEF b2
<1>8. CASE ~Begins(q[n], e, r)
  <2>1. d2 = d /\ r.t = q[n].t /\ r.j = q[n].j
    BY <1>3, <1>8, MoveFields DEF Moves
  <2>3. q2[n + 1].j = Len(d2)
    BY <1>2, <1>3, <2>1
  <2>5. \A k \in 0..n + 1 : q2[k].j >= 1 => q2[k].j <= Len(d2) /\ d2[q2[k].j] = q2[k].t
    BY <1>1, <1>2, <1>3, <2>1 DEF Path
  <2>6. \A k \in 0..n + 1 : q2[k].t.kind = "PPS_RSP" => q2[k].j \in {0, Len(d2)}
    BY <1>1, <1>2, <1>3, <2>1 DEF Path
  <2>7. \A k \in 0..n + 1 : k < n + 1 /\ q2[k].over => q2[k].t.kind = "TPDU"
    BY <1>1, <1>2 DEF Path
  <2>8. Path(q2, b2, d2)
    BY <1>1, <1>4, <1>5, <1>6, <2>3, <2>5, <2>6, <2>7 DEF Path
  <2> QED  BY <1>1, <1>2, <1>6, <2>8 DEF b2
<1> QED  BY <1>7, <1>8

Lowered(p) == [p EXCEPT !.j = p.j - 1]

LEMMA LoweredIs ==
  ASSUME NEW p, IsPlace(p), p.j >= 1
  PROVE  /\ IsPlace(Lowered(p)) /\ Lowered(p).j = p.j - 1 /\ Lowered(p).t = p.t /\ Lowered(p).n = p.n
         /\ Lowered(p).over = p.over /\ Lowered(p).link = p.link
         /\ (Ended(Lowered(p)) <=> Ended(p))
<1>1. p \in Places /\ p.j - 1 \in Nat
  BY PlaceIs DEF IsPlace
<1>2. /\ Lowered(p) \in Places /\ Lowered(p).j = p.j - 1 /\ Lowered(p).t = p.t /\ Lowered(p).n = p.n
      /\ Lowered(p).over = p.over /\ Lowered(p).link = p.link
  BY <1>1 DEF Lowered, Places
<1> QED  BY <1>2 DEF IsPlace, Ended

LEMMA LoweredMoves ==
  ASSUME NEW p, NEW e, NEW r, IsPlace(p), Moves(p, e, r), p.j >= 1, r.j >= 1
  PROVE  Moves(Lowered(p), e, Lowered(r))
<1>1. IsPlace(r) /\ p \in Places /\ r \in Places /\ p.j \in Nat
  BY MoveIs, PlaceIs DEF IsPlace
<1>2. /\ Lowered(p).j = p.j - 1 /\ Lowered(p).t = p.t /\ Lowered(p).n = p.n
      /\ Lowered(p).over = p.over /\ Lowered(p).link = p.link
      /\ (Ended(Lowered(p)) <=> Ended(p))
  BY LoweredIs
<1>3. CASE GoesOn(p, e, r)
  <2>1. r = [p EXCEPT !.n = p.n + 1] /\ r.j = p.j
    BY <1>3, MoveFields DEF GoesOn
  <2>2. Lowered(r) = [Lowered(p) EXCEPT !.n = p.n + 1]
    BY <1>1, <2>1 DEF Lowered, Places
  <2> QED  BY <1>2, <1>3, <2>2 DEF Moves, GoesOn
<1>4. CASE Begins(p, e, r)
  <2>1. PICK t \in Talks : t = r.t
    BY <1>4 DEF Begins
  <2>2. r = [t |-> t, n |-> 1, over |-> FALSE, link |-> NextLink(p), j |-> p.j + 1] /\ r.j = p.j + 1
    BY <1>4, <2>1, MoveFields DEF Begins
  <2>3. NextLink(Lowered(p)) = NextLink(p) /\ (Follows(p, t) => Follows(Lowered(p), t))
    BY <1>2 DEF NextLink, Follows
  <2>4. Lowered(p).j + 1 = p.j /\ r.j - 1 = p.j
    BY <1>1, <1>2, <2>2
  <2> HIDE DEF NextLink
  <2>5. Lowered(r) = [t |-> t, n |-> 1, over |-> FALSE, link |-> NextLink(p), j |-> p.j]
    <3>1. PICK l, x : l = NextLink(p) /\ x = p.j + 1
      OBVIOUS
    <3>2. r = [t |-> t, n |-> 1, over |-> FALSE, link |-> l, j |-> x]
      BY <2>2, <3>1
    <3>3. [r EXCEPT !.j = p.j] = [t |-> t, n |-> 1, over |-> FALSE, link |-> l, j |-> p.j]
      <4> DEFINE y == [r EXCEPT !.j = p.j]
                 z == [t |-> t, n |-> 1, over |-> FALSE, link |-> l, j |-> p.j]
      <4>1. y \in Places /\ y.t = r.t /\ y.n = r.n /\ y.over = r.over /\ y.link = r.link /\ y.j = p.j
        BY <1>1 DEF Places
      <4>2. r.t = t /\ r.n = 1 /\ r.over = FALSE /\ r.link = l
        BY <3>2
      <4>3. l \in {Default} \cup AfterAtr \cup AfterPps
        BY <1>1, <4>2 DEF Places
      <4>4. z \in Places /\ z.t = t /\ z.n = 1 /\ z.over = FALSE /\ z.link = l /\ z.j = p.j
        BY <1>1, <4>3 DEF Places
      <4> HIDE DEF y, z
      <4>5. y = z
        BY <4>1, <4>2, <4>4 DEF Places
      <4> QED  BY <4>5 DEF y, z
    <3>4. Lowered(r) = [r EXCEPT !.j = p.j]
      BY <2>4 DEF Lowered
    <3> QED  BY <3>1, <3>3, <3>4
  <2>6. Lowered(r).t = t
    BY <2>5
  <2>7. Lowered(r) = [t |-> Lowered(r).t, n |-> 1, over |-> FALSE, link |-> NextLink(Lowered(p)),
                      j |-> Lowered(p).j + 1]
    BY <2>3, <2>4, <2>5, <2>6
  <2> QED  BY <1>2, <1>4, <2>1, <2>3, <2>6, <2>7 DEF Moves, Begins
<1>5. CASE GivesUp(p, e, r)
  <2>1. r = (IF Ended(p) THEN p ELSE [p EXCEPT !.over = TRUE]) /\ r.j = p.j
    BY <1>5, MoveFields DEF GivesUp
  <2>2. Lowered(r) = IF Ended(p) THEN Lowered(p) ELSE [Lowered(p) EXCEPT !.over = TRUE]
    BY <1>1, <2>1 DEF Lowered, Places
  <2> QED  BY <1>2, <1>5, <2>2 DEF Moves, GivesUp
<1> QED  BY <1>3, <1>4, <1>5 DEF Moves

Same(p, r) == p.t = r.t /\ p.n = r.n /\ p.over = r.over /\ p.link = r.link

LEMMA SameIs ==
  ASSUME NEW p, NEW r, Same(p, r)
  PROVE  (Ended(p) <=> Ended(r)) /\ \A s : At(s, p) => At(s, r)
BY DEF Same, Ended, At

\* what the first entry leads to is done: the transmission is reported
Done(q) == Ended(q[1]) /\ q[1].j = 1

LEMMA First ==
  ASSUME NEW q, NEW b, NEW d, Len(b) \in Nat, Len(b) >= 1, Path(q, b, d)
  PROVE  /\ IsPlace(q[0]) /\ IsPlace(q[1]) /\ Moves(q[0], b[1], q[1])
         /\ q[0].j = (IF Ended(q[0]) THEN 0 ELSE 1)
         /\ ~Done(q) => q[1].j = (IF Ended(q[1]) THEN 0 ELSE 1)
         /\ q[1].j >= 1 => Len(d) >= 1 /\ d[1] = q[1].t /\ q[1].j = 1
         /\ ~Ended(q[0]) => q[1].j = 1
<1>1. 1 \in 0..Len(b) /\ 1 \in 1..Len(b) /\ 0 \in 0..Len(b) /\ 1 - 1 = 0
  OBVIOUS
<1>2. IsPlace(q[0]) /\ IsPlace(q[1]) /\ q[0].j = (IF Ended(q[0]) THEN 0 ELSE 1)
  BY <1>1 DEF Path
<1>3. Moves(q[0], b[1], q[1])
  BY <1>1 DEF Path
<1>4. q[1].j >= 1 => q[1].j <= Len(d) /\ d[q[1].j] = q[1].t
  BY <1>1 DEF Path
<1>5. CASE GoesOn(q[0], b[1], q[1])
  <2>1. q[1].j = q[0].j /\ ~Ended(q[0])
    BY <1>2, <1>3, <1>5, MoveFields DEF GoesOn
  <2> QED  BY <1>2, <1>3, <1>4, <2>1 DEF Done
<1>6. CASE Begins(q[0], b[1], q[1])
  <2>1. q[1].j = q[0].j + 1 /\ Ended(q[0])
    BY <1>2, <1>3, <1>6, MoveFields DEF Begins
  <2>2. q[1].j = 1
    BY <1>2, <2>1
  <2> QED  BY <1>2, <1>3, <1>4, <2>1, <2>2 DEF Done
<1>7. CASE GivesUp(q[0], b[1], q[1])
  <2>1. q[1].j = q[0].j /\ Ended(q[1]) /\ (Ended(q[0]) => q[1] = q[0])
    BY <1>2, <1>3, <1>7, MoveFields
  <2> QED  BY <1>2, <1>3, <1>4, <2>1 DEF Done
<1> QED  BY <1>3, <1>5, <1>6, <1>7 DEF Moves

\* and taken from its beginning.
LEMMA Pop ==
  ASSUME NEW q, NEW b \in Seq(Entries), NEW d \in Seq(Talks), b # <<>>, Path(q, b, d)
  PROVE  \E q2 : /\ Path(q2, Tail(b), IF Done(q) THEN Tail(d) ELSE d)
                 /\ Same(q[1], q2[0]) /\ Same(q[Len(b)], q2[Len(Tail(b))])
<1> DEFINE n == Len(b) - 1
           b2 == Tail(b)
<1>1. /\ n \in Nat /\ Len(b) = n + 1 /\ Len(b2) = n /\ \A k \in 1..n : b2[k] = b[k + 1]
      /\ Len(d) \in Nat
  OBVIOUS
<1>2. /\ ~Done(q) => q[1].j = (IF Ended(q[1]) THEN 0 ELSE 1)
      /\ q[1].j >= 1 => Len(d) >= 1 /\ d[1] = q[1].t /\ q[1].j = 1
  BY <1>1, First
<1>3. \A k \in 0..n : k + 1 \in 0..Len(b) /\ k + 1 \in 1..Len(b) /\ k + 1 - 1 = k /\ 1 <= k + 1 /\ k \in 0..Len(b)
  BY <1>1
<1> HIDE DEF b2, n
<1>4. CASE ~Done(q)
  <2> DEFINE q2 == [k \in 0..n |-> q[k + 1]]
  <2>1. \A k \in 0..n : q2[k] = q[k + 1]
    OBVIOUS
  <2>2. q2[0] = q[1] /\ q2[n] = q[Len(b)]
    BY <1>1
  <2> HIDE DEF q2
  <2>3. \A k \in 0..n : IsPlace(q2[k])
    BY <1>3, <2>1 DEF Path
  <2>4. \A k \in 1..n : Moves(q2[k - 1], b2[k], q2[k])
    <3> SUFFICES ASSUME NEW k \in 1..n PROVE Moves(q2[k - 1], b2[k], q2[k])
      OBVIOUS
    <3>1. k \in 0..n /\ k - 1 \in 0..n /\ k - 1 + 1 = k
      BY <1>1
    <3>2. k + 1 \in 1..Len(b) /\ k + 1 - 1 = k
      BY <1>3, <3>1
    <3>3. Moves(q[k + 1 - 1], b[k + 1], q[k + 1])
      BY <3>2 DEF Path
    <3>4. q2[k - 1] = q[k] /\ q2[k] = q[k + 1] /\ b2[k] = b[k + 1]
      BY <1>1, <2>1, <3>1
    <3> QED  BY <3>2, <3>3, <3>4
  <2>5. q2[0].j = (IF Ended(q2[0]) THEN 0 ELSE 1) /\ q2[n].j = Len(d)
    BY <1>2, <1>4, <2>2 DEF Path
  <2>6. \A k \in 0..n : q2[k].j >= 1 => q2[k].j <= Len(d) /\ d[q2[k].j] = q2[k].t
    BY <1>3, <2>1 DEF Path
  <2>7. \A k \in 0..n : q2[k].t.kind = "PPS_RSP" => q2[k].j \in {0, Len(d)}
    BY <1>3, <2>1 DEF Path
  <2>8. \A k \in 0..n : k < n /\ q2[k].over => q2[k].t.kind = "TPDU"
    <3> SUFFICES ASSUME NEW k \in 0..n, k < n, q2[k].over PROVE q2[k].t.kind = "TPDU"
      OBVIOUS
    <3>1. k + 1 \in 0..Len(b) /\ k + 1 < Len(b) /\ q[k + 1].over /\ q2[k] = q[k + 1]
      BY <1>1, <1>3, <2>1
    <3> QED  BY <3>1 DEF Path
  <2>9. Path(q2, b2, d)
    BY <1>1, <2>3, <2>4, <2>5, <2>6, <2>7, <2>8 DEF Path
  <2> QED  BY <1>1, <1>4, <2>2, <2>9 DEF Same, b2
<1>5. CASE Done(q)
  <2> DEFINE q2 == [k \in 0..n |-> Lowered(q[k + 1])]
             d2 == Tail(d)
  <2>0. /\ q[1].j = 1 /\ Ended(q[1]) /\ Len(d) >= 1
        /\ Len(d2) = Len(d) - 1 /\ \A k \in 1..Len(d2) : d2[k] = d[k + 1]
    BY <1>2, <1>5 DEF Done
  <2>1. \A k \in 0..n : q2[k] = Lowered(q[k + 1])
    OBVIOUS
  <2>2. q2[0] = Lowered(q[1]) /\ q2[n] = Lowered(q[Len(b)])
    BY <1>1
  <2> HIDE DEF q2, d2
  <2>3. \A k \in 0..n : IsPlace(q[k + 1]) /\ q[k + 1].j >= 1 /\ q[k + 1].j \in Nat
    <3> SUFFICES ASSUME NEW k \in 0..n PROVE IsPlace(q[k + 1]) /\ q[k + 1].j >= 1 /\ q[k + 1].j \in Nat
      OBVIOUS
    <3>1. 1 \in 0..Len(b) /\ Len(b) \in Nat /\ k + 1 \in 0..Len(b) /\ 1 <= k + 1
      BY <1>1, <1>3
    <3>2. q[1].j <= q[k + 1].j
      BY <3>1, Rises
    <3>3. IsPlace(q[k + 1])
      BY <3>1 DEF Path
    <3> QED  BY <2>0, <3>2, <3>3, PlaceIs
  <2>4. \A k \in 0..n : /\ IsPlace(q2[k]) /\ q2[k].j = q[k + 1].j - 1 /\ q2[k].t = q[k + 1].t
                        /\ q2[k].n = q[k + 1].n /\ q2[k].over = q[k + 1].over
                        /\ q2[k].link = q[k + 1].link /\ (Ended(q2[k]) <=> Ended(q[k + 1]))
    BY <2>1, <2>3, LoweredIs
  <2>5. \A k \in 1..n : Moves(q2[k - 1], b2[k], q2[k])
    <3> SUFFICES ASSUME NEW k \in 1..n PROVE Moves(q2[k - 1], b2[k], q2[k])
      OBVIOUS
    <3>1. k \in 0..n /\ k - 1 \in 0..n /\ k - 1 + 1 = k
      BY <1>1
    <3>2. k + 1 \in 1..Len(b) /\ k + 1 - 1 = k
      BY <1>3, <3>1
    <3>3. Moves(q[k], b[k + 1], q[k + 1])
      BY <3>2 DEF Path
    <3>4. q2[k - 1] = Lowered(q[k]) /\ q2[k] = Lowered(q[k + 1]) /\ b2[k] = b[k + 1]
      BY <1>1, <2>1, <3>1
    <3>5. IsPlace(q[k]) /\ q[k].j >= 1 /\ q[k + 1].j >= 1
      BY <2>3, <3>1
    <3> QED  BY <3>3, <3>4, <3>5, LoweredMoves
  <2>6. 0 \in 0..n /\ n \in 0..n /\ n + 1 = Len(b) /\ 0 + 1 = 1
    BY <1>1
  <2>7. q2[0].j = (IF Ended(q2[0]) THEN 0 ELSE 1)
    BY <2>0, <2>4, <2>6
  <2>8. q2[n].j = Len(d2)
    <3>1. q[Len(b)].j = Len(d)
      BY DEF Path
    <3> QED  BY <1>1, <2>0, <2>4, <2>6, <3>1
  <2>9. \A k \in 0..n : q2[k].j >= 1 => q2[k].j <= Len(d2) /\ d2[q2[k].j] = q2[k].t
    <3> SUFFICES ASSUME NEW k \in 0..n, q2[k].j >= 1 PROVE q2[k].j <= Len(d2) /\ d2[q2[k].j] = q2[k].t
      OBVIOUS
    <3>1. k + 1 \in 0..Len(b) /\ q[k + 1].j \in Nat /\ q2[k].j = q[k + 1].j - 1 /\ q2[k].t = q[k + 1].t
      BY <1>3, <2>3, <2>4
    <3>2. q[k + 1].j <= Len(d) /\ d[q[k + 1].j] = q[k + 1].t
      BY <2>3, <3>1 DEF Path
    <3>3. q2[k].j \in 1..Len(d2) /\ q2[k].j + 1 = q[k + 1].j
      BY <1>1, <2>0, <3>1, <3>2
    <3>4. d2[q2[k].j] = d[q2[k].j + 1]
      BY <2>0, <3>3
    <3> QED  BY <3>1, <3>2, <3>3, <3>4
  <2>10. \A k \in 0..n : q2[k].t.kind = "PPS_RSP" => q2[k].j \in {0, Len(d2)}
    <3> SUFFICES ASSUME NEW k \in 0..n, q2[k].t.kind = "PPS_RSP" PROVE q2[k].j = Len(d2)
      OBVIOUS
    <3>1. k + 1 \in 0..Len(b) /\ q[k + 1].j >= 1 /\ q2[k].j = q[k + 1].j - 1 /\ q2[k].t = q[k + 1].t
      BY <1>3, <2>3, <2>4
    <3>2. q[k + 1].j = Len(d)
      BY <2>3, <3>1 DEF Path
    <3> QED  BY <2>0, <3>1, <3>2
  <2>11. \A k \in 0..n : k < n /\ q2[k].over => q2[k].t.kind = "TPDU"
    <3> SUFFICES ASSUME NEW k \in 0..n, k < n, q2[k].over PROVE q2[k].t.kind = "TPDU"
      OBVIOUS
    <3>1. k + 1 \in 0..Len(b) /\ k + 1 < Len(b) /\ q[k + 1].over /\ q2[k].t = q[k + 1].t
      BY <1>1, <1>3, <2>4
    <3> QED  BY <3>1 DEF Path
  <2>12. Path(q2, b2, d2)
    BY <1>1, <2>4, <2>5, <2>7, <2>8, <2>9, <2>10, <2>11 DEF Path
  <2>13. Same(q[1], q2[0]) /\ Same(q[Len(b)], q2[n])
    BY <2>4, <2>6 DEF Same
  <2> QED  BY <1>1, <1>5, <2>12, <2>13 DEF b2, d2
<1> QED  BY <1>4, <1>5

-----------------------------------------------------------------------------
(* The invariant: as long as the main loop keeps up, the sniffer is either  *)
(* in reset or on a path that ends where the line is.                       *)

HasAssert == "RESET_ASSERT" \in flags
HasDeassert == "RESET_DEASSERT" \in flags

\* the main loop is going to handle an assertion
Pending == HasAssert /\ pc \in {"data", "assert"}

InReset ==
  /\ sn = Between("RESET", Default) /\ due = <<>> /\ talk = Silence
  /\ rst = "high" => HasDeassert /\ pc \in {"data", "assert", "deassert"}
  /\ rst = "low" => ~HasDeassert /\ (HasAssert => pc \in {"deassert", "send", "clear"})

\* l is where the line is.
Lined(l) ==
  /\ l.t = talk /\ l.n = pos
  /\ ~Ended(l) => running
  /\ rate = IF l.t = Silence THEN Default.fidi
            ELSE IF l.n = Len(l.t.bytes) THEN RateAfter(l.t, l.link.fidi) ELSE l.link.fidi

OnPath(q) ==
  /\ At(sn, q[0]) /\ Path(q, rb, due)
  /\ q[Len(rb)].over => ~running
  /\ ~Pending => Lined(q[Len(rb)])

OnLine ==
  /\ \E q : OnPath(q)
  /\ Pending => talk = Silence /\ ~HoldsData(rb) /\ (rst = "low" <=> ~HasDeassert)
  /\ ~Pending => /\ rst = "high"
                 /\ HasAssert \/ HasDeassert => /\ HasDeassert /\ pc \in {"send", "clear"}
                                                /\ talk = Silence

KeepsUp ==
  /\ due \in Seq(Talks)
  /\ torn => due = <<>>
  /\ talk = Silence => rate = Default.fidi
  /\ ~torn => /\ pc # "off"
              /\ sn.iso = "RESET" => InReset
              /\ sn.iso # "RESET" => OnLine

SnifferInv == TypeInv /\ KeepsUp

LEMMA AtIso ==
  ASSUME NEW p, NEW s, IsPlace(p), At(s, p)
  PROVE  s.iso # "RESET" /\ (s.iso = "WAIT_ATR" => Ended(p))
<1>1. CASE Ended(p)
  BY <1>1, EndedIs
<1>2. CASE ~Ended(p)
  <2>1. s.iso = During(p.t) /\ p.t \in Talks
    BY <1>2, MidIs, PlaceIs
  <2> QED  BY <2>1, DuringIs DEF InTalk
<1> QED  BY <1>1, <1>2

LEMMA PathEnds ==
  ASSUME NEW q, NEW b, NEW d, Len(b) \in Nat, Path(q, b, d)
  PROVE  /\ IsPlace(q[0]) /\ IsPlace(q[Len(b)]) /\ q[Len(b)].j = Len(d)
         /\ q[0].j = (IF Ended(q[0]) THEN 0 ELSE 1)
         /\ \A k \in 0..Len(b) : q[k].j >= 1 => q[k].j <= Len(d) /\ d[q[k].j] = q[k].t
BY DEF Path

LEMMA ResetIgnores ==
  ASSUME NEW s, NEW e, s.iso = "RESET"
  PROVE  HandleEntry(s, e) = s /\ SendIncomplete(s) = s
BY DEF HandleEntry, HandleByte, HandleTimeout, SendIncomplete

LEMMA OneIsAll ==
  ASSUME NEW S, NEW s \in Seq(S), Len(s) = 1
  PROVE  Tail(s) = <<>>
<1>1. Len(Tail(s)) = 0 /\ Tail(s) \in Seq(S)
  OBVIOUS
<1>2. \A p \in Seq(S) : Len(p) = 0 => p = <<>>
  OBVIOUS
<1> QED  BY <1>1, <1>2

LEMMA TimesOutDrops ==
  ASSUME NEW p, NEW s, NEW e, NEW r, IsPlace(p), At(s, p), GivesUp(p, e, r), Settles(s), ~Ended(p),
         HandleEntry(s, e).drop
  PROVE  r.t.kind = "ATR"
<1> DEFINE m == HandleEntry(s, e)
<1>1. ~Ended(p) => Broken(m, r.t) /\ (m.drop => r.t.kind = "ATR")
  BY TimesOut
<1> QED  BY <1>1

\* What the main loop does with the next entry
LEMMA Reads ==
  ASSUME NEW q, Settles(sn), rb \in Seq(Entries), rb # <<>>, At(sn, q[0]), Path(q, rb, due)
  PROVE  LET m == HandleEntry(sn, Head(rb))
         IN  /\ At(Settled(m), q[1]) /\ IsPlace(q[1])
             /\ m.drop => Tail(rb) = <<>>
             /\ m.stop => Done(q) /\ q[1].t.kind = "PPS_RSP"
             /\ ~Done(q) => m.out = <<>>
             /\ Done(q) => q[1].t \in Talks /\ (Whole(m, q[1].t) \/ (Broken(m, q[1].t) /\ q[1].over))
<1> DEFINE m == HandleEntry(sn, Head(rb))
           e == Head(rb)
<1>1. Len(rb) \in Nat /\ Len(rb) >= 1 /\ e = rb[1] /\ e \in Entries
  <2> HIDE DEF Entries
  <2>1. Len(rb) \in Nat /\ Len(rb) >= 1 /\ e = rb[1]
    OBVIOUS
  <2>2. e \in Entries
    OBVIOUS
  <2> QED  BY <2>1, <2>2
<1>2. /\ IsPlace(q[0]) /\ IsPlace(q[1]) /\ Moves(q[0], e, q[1])
      /\ q[0].j = (IF Ended(q[0]) THEN 0 ELSE 1)
      /\ ~Ended(q[0]) => q[1].j = 1
  BY <1>1, First
<1> HIDE DEF e
<1>3. CASE GoesOn(q[0], e, q[1]) \/ Begins(q[0], e, q[1])
  <2>1. /\ At(Settled(m), q[1]) /\ q[1].t \in Talks
        /\ ~Ended(q[1]) => m.out = <<>> /\ ~m.drop /\ ~m.stop
        /\ Ended(q[1]) => Whole(m, q[1].t)
    BY <1>2, <1>3, HearsByte DEF e
  <2>2. q[1].j = 1
    <3>1. CASE GoesOn(q[0], e, q[1])
      BY <1>2, <3>1 DEF GoesOn
    <3>2. CASE Begins(q[0], e, q[1])
      <4>1. q[1].j = q[0].j + 1 /\ Ended(q[0])
        BY <1>2, <3>2, MoveFields DEF Begins
      <4> QED  BY <1>2, <4>1
    <3> QED  BY <1>3, <3>1, <3>2
  <2>3. Done(q) <=> Ended(q[1])
    BY <2>2 DEF Done
  <2> HIDE DEF m
  <2>4. Whole(m, q[1].t) => ~m.drop /\ (m.stop => q[1].t.kind = "PPS_RSP")
    BY DEF Whole
  <2>5. /\ m.drop => Tail(rb) = <<>>
        /\ m.stop => Done(q) /\ q[1].t.kind = "PPS_RSP"
        /\ ~Done(q) => m.out = <<>>
        /\ Done(q) => q[1].t \in Talks /\ Whole(m, q[1].t)
    BY <2>1, <2>3, <2>4
  <2> QED  BY <1>2, <2>1, <2>5 DEF m
<1>4. CASE GivesUp(q[0], e, q[1])
  <2>1. /\ At(Settled(m), q[1]) /\ ~m.stop
        /\ Ended(q[0]) => m = sn
        /\ ~Ended(q[0]) => Broken(m, q[1].t) /\ (m.drop => q[1].t.kind = "ATR")
    <3>1. HandleEntry(sn, e) = m
      BY DEF e
    <3> HIDE DEF m
    <3>2. /\ At(Settled(m), q[1]) /\ ~m.stop
          /\ Ended(q[0]) => m = sn
      BY <1>2, <1>4, <3>1, TimesOut
    <3>3. ~Ended(q[0]) => Broken(m, q[1].t)
      BY <1>2, <1>4, <3>1, TimesOut
    <3>4. ~Ended(q[0]) => (m.drop => q[1].t.kind = "ATR")
      <4>1. ASSUME ~Ended(q[0]), HandleEntry(sn, e).drop PROVE q[1].t.kind = "ATR"
        BY <1>2, <1>4, <4>1, TimesOutDrops
      <4> QED  BY <3>1, <4>1
    <3> QED  BY <3>2, <3>3, <3>4
  <2>2. /\ Ended(q[1]) /\ (Ended(q[0]) => q[1] = q[0]) /\ (~Ended(q[0]) => q[1].over)
    BY <1>2, <1>4, MoveFields
  <2> HIDE DEF m
  <2>3. CASE Ended(q[0])
    <3>1. ~Done(q)
      BY <1>2, <2>2, <2>3 DEF Done
    <3>2. m.out = <<>> /\ ~m.drop
      BY <2>1, <2>3 DEF Settles
    <3> QED  BY <1>2, <2>1, <3>1, <3>2 DEF m
  <2>4. CASE ~Ended(q[0])
    <3>1. Done(q)
      BY <1>2, <2>2, <2>4 DEF Done
    <3>2. q[1].over /\ q[1].t \in Talks
      BY <1>2, <2>2, <2>4, PlaceIs
    <3>3. ASSUME m.drop PROVE Tail(rb) = <<>>
      <4>1. q[1].t.kind # "TPDU"
        BY <2>1, <2>4, <3>3
      <4>2. 1 \in 0..Len(rb)
        BY <1>1
      <4>3. ~(1 < Len(rb))
        BY <3>2, <4>1, <4>2 DEF Path
      <4>4. \A n \in Nat : n >= 1 /\ ~(1 < n) => n = 1
        OBVIOUS
      <4>5. Len(rb) = 1
        BY <1>1, <4>3, <4>4, Zenon
      <4> QED  BY <4>5, OneIsAll
    <3> QED  BY <1>2, <2>1, <2>4, <3>1, <3>2, <3>3 DEF m
  <2> QED  BY <2>3, <2>4
<1> QED  BY <1>2, <1>3, <1>4 DEF Moves

\* A buffer without data leads no further than to the end of what is begun.
LEMMA NoData ==
  ASSUME NEW q, rb \in Seq(Entries), Path(q, rb, due), ~HoldsData(rb)
  PROVE  q[Len(rb)].j = q[0].j
<1> DEFINE T == {n \in Nat : n <= Len(rb) => q[n].j = q[0].j}
<1>1. 0 \in T /\ Len(rb) \in Nat
  OBVIOUS
<1>2. \A n \in Nat : n \in T => n + 1 \in T
  <2> SUFFICES ASSUME NEW n \in Nat, q[n].j = q[0].j, n + 1 <= Len(rb) PROVE q[n + 1].j = q[0].j
    OBVIOUS
  <2>1. n + 1 \in 1..Len(rb) /\ n \in 0..Len(rb) /\ n + 1 - 1 = n
    BY <1>1
  <2>2. IsPlace(q[n]) /\ Moves(q[n], rb[n + 1], q[n + 1])
    BY <2>1 DEF Path
  <2>3. ~rb[n + 1].data
    <3>1. n + 1 \in DOMAIN rb
      BY <2>1
    <3> QED  BY <3>1 DEF HoldsData
  <2>4. GivesUp(q[n], rb[n + 1], q[n + 1])
    BY <2>2, <2>3 DEF Moves, GoesOn, Begins
  <2>5. q[n + 1].j = q[n].j
    BY <2>2, <2>4, MoveFields
  <2> QED  BY <2>5
<1>3. \A n \in Nat : n \in T
  <2> HIDE DEF T
  <2> QED  BY <1>1, <1>2, Induction
<1> QED  BY <1>1, <1>3

-----------------------------------------------------------------------------
(* What is reported is right.                                               *)

Right(o) ==
  \A k \in DOMAIN o : IsReport(o[k]) =>
     /\ due # <<>>
     /\ o[k].type = Type(Head(due))
     /\ IF o[k].flags = {"INCOMPLETE"}
        THEN /\ Len(o[k].bytes) <= Len(Head(due).report)
             /\ o[k].bytes = SubSeq(Head(due).report, 1, Len(o[k].bytes))
             /\ ~Complete \/ Len(due) > 1
        ELSE o[k].bytes = Head(due).report /\ o[k].flags = Head(due).flags

HasReport(o) == \E k \in DOMAIN o : IsReport(o[k])

LEMMA NothingIsRight == Right(<<>>) /\ ~HasReport(<<>>)
BY DEF Right, HasReport

LEMMA TypeIs == ASSUME NEW t \in Talks PROVE Type(t) \in {"ATR", "PPS", "TPDU"}
BY TalkIs DEF Type

LEMMA MessageIs ==
  ASSUME NEW ty, NEW b, NEW f
  PROVE  Message(ty, b, f).type = ty /\ Message(ty, b, f).bytes = b /\ Message(ty, b, f).flags = f
BY DEF Message

LEMMA WholeIsRight ==
  ASSUME NEW m, NEW t \in Talks, Whole(m, t), due # <<>>, Head(due) = t
  PROVE  Right(m.out) /\ HasReport(m.out)
<1> DEFINE msg == Message(Type(t), t.report, t.flags)
<1>1. msg.type = Type(t) /\ msg.bytes = t.report /\ msg.flags = t.flags
  BY MessageIs
<1>2. t.flags # {"INCOMPLETE"}
  BY TalkIs
<1>3. 1 \in DOMAIN m.out /\ m.out[1] = msg /\ \A k \in DOMAIN m.out : k # 1 => ~IsReport(m.out[k])
  BY DEF Whole
<1> HIDE DEF msg
<1>4. IsReport(m.out[1])
  BY <1>1, <1>3, TypeIs DEF IsReport
<1>5. HasReport(m.out)
  BY <1>3, <1>4 DEF HasReport
<1>6. ASSUME NEW k \in DOMAIN m.out, IsReport(m.out[k]) PROVE m.out[k] = msg
  BY <1>3, <1>6
<1>7. Right(m.out)
  BY <1>1, <1>2, <1>6 DEF Right
<1> QED  BY <1>5, <1>7

LEMMA BrokenIsRight ==
  ASSUME NEW m, NEW t \in Talks, Broken(m, t), due # <<>>, Head(due) = t, ~Complete \/ Len(due) > 1
  PROVE  Right(m.out) /\ HasReport(m.out)
<1>1. PICK k \in 0..Len(t.report) :
         m.out = <<Message(Type(t), SubSeq(t.report, 1, k), {"INCOMPLETE"})>>
  BY DEF Broken
<1> DEFINE bytes == SubSeq(t.report, 1, k)
           msg == Message(Type(t), bytes, {"INCOMPLETE"})
<1>2. msg.type = Type(t) /\ msg.bytes = bytes /\ msg.flags = {"INCOMPLETE"}
  <2>1. PICK f : f = {"INCOMPLETE"}
    OBVIOUS
  <2>2. PICK b : b = bytes
    OBVIOUS
  <2>3. PICK ty : ty = Type(t)
    OBVIOUS
  <2>4. Message(ty, b, f).type = ty /\ Message(ty, b, f).bytes = b /\ Message(ty, b, f).flags = f
    BY MessageIs
  <2>5. msg = Message(ty, b, f)
    BY <2>1, <2>2, <2>3
  <2> HIDE DEF msg, bytes
  <2> QED  BY <2>1, <2>2, <2>3, <2>4, <2>5
<1>3. Len(bytes) = k /\ k <= Len(t.report)
  <2>1. t.report \in Seq(Byte)
    BY TalkIs
  <2>2. \A r \in Seq(Byte) : \A i \in 0..Len(r) : Len(SubSeq(r, 1, i)) = i /\ i <= Len(r)
    OBVIOUS
  <2> QED  BY <2>1, <2>2
<1>4. bytes = SubSeq(t.report, 1, Len(bytes))
  BY <1>3
<1> HIDE DEF bytes, msg
<1>5. m.out = <<msg>>
  BY <1>1 DEF bytes, msg
<1>6. DOMAIN m.out = {1} /\ m.out[1] = msg
  BY <1>5
<1>7. IsReport(msg)
  BY <1>2, TypeIs DEF IsReport
<1>8. HasReport(m.out)
  BY <1>6, <1>7 DEF HasReport
<1>9. Right(m.out)
  BY <1>2, <1>3, <1>4, <1>6 DEF Right
<1> QED  BY <1>8, <1>9

-----------------------------------------------------------------------------
(* The steps of the main loop.                                              *)

\* with the memory it had
LEMMA RunsStill ==
  ASSUME TypeInv, NEW rest, Runs(sn, rest)
  PROVE  sn' = sn /\ rb' = rest /\ out' = <<>> /\ running' = running
<1>1. Settles(sn) /\ running \in BOOLEAN
  BY DEF TypeInv
<1>2. Settled(sn) = sn /\ ~sn.drop /\ ~sn.stop /\ sn.out = <<>>
  BY <1>1, SettlesIs DEF Settles
<1>3. sn' = Settled(sn) /\ rb' = (IF sn.drop THEN <<>> ELSE rest) /\ out' = sn.out
  BY DEF Runs
<1>4. running' = (running /\ ~sn.stop)
  BY DEF Runs
<1>5. running' = running
  BY <1>1, <1>2, <1>4
<1> QED  BY <1>2, <1>3, <1>5

LEMMA ReportedNothing ==
  ASSUME Reported, ~HasReport(out')
  PROVE  due' = due
BY DEF Reported, HasReport

LEMMA ReportedOne ==
  ASSUME Reported, HasReport(out'), due # <<>>
  PROVE  due' = Tail(due)
BY DEF Reported, HasReport

LEMMA TornStays ==
  ASSUME KeepsUp, torn, torn', due' \in {due, <<>>} \/ Reported, talk' = talk, rate' = rate
  PROVE  KeepsUp'
<1>1. due = <<>>
  BY DEF KeepsUp
<1>2. due' = <<>>
  <2>1. CASE due' \in {due, <<>>}
    BY <1>1, <2>1
  <2>2. CASE Reported
    BY <1>1, <2>2 DEF Reported
  <2> QED  BY <2>1, <2>2
<1>3. due' \in Seq(Talks)
  BY <1>2
<1> QED  BY <1>2, <1>3 DEF KeepsUp

\* In reset the main loop reads nothing.
LEMMA ReadInReset ==
  ASSUME SnifferInv, ReadEntry, ~torn, sn.iso = "RESET"
  PROVE  KeepsUp' /\ Right(out')
<1>1. InReset /\ due \in Seq(Talks) /\ (talk = Silence => rate = Default.fidi) /\ TypeInv
  BY DEF SnifferInv, KeepsUp
<1>2. HandleEntry(sn, Head(rb)) = sn
  BY ResetIgnores
<1>3. PICK rest : Runs(sn, rest)
  BY <1>2 DEF ReadEntry
<1>4. sn' = sn /\ out' = <<>>
  BY <1>1, <1>3, RunsStill
<1>5. Right(out') /\ ~HasReport(out')
  BY <1>4, NothingIsRight
<1>6. pc = "data" /\ pc' = "assert" /\ UNCHANGED <<line, isr, flags, torn>> /\ Reported
  BY DEF ReadEntry
<1>7. due' = due
  BY <1>5, <1>6, ReportedNothing
<1>8. rst' = rst /\ talk' = talk /\ rate' = rate
  BY <1>6 DEF line
<1>9. InReset'
  BY <1>1, <1>4, <1>6, <1>7, <1>8 DEF InReset, HasAssert, HasDeassert
<1>10. KeepsUp'
  BY <1>1, <1>4, <1>6, <1>7, <1>8, <1>9 DEF KeepsUp
<1> QED  BY <1>5, <1>10

LEMMA ReadOnPath ==
  ASSUME SnifferInv, ReadEntry, ~torn, sn.iso # "RESET"
  PROVE  KeepsUp' /\ Right(out')
<1>1. /\ OnLine /\ due \in Seq(Talks) /\ (talk = Silence => rate = Default.fidi) /\ TypeInv
      /\ Settles(sn) /\ rb \in Seq(Entries) /\ running \in BOOLEAN
  BY DEF SnifferInv, KeepsUp, TypeInv
<1>2. PICK q : OnPath(q)
  BY <1>1 DEF OnLine
<1>3. pc = "data" /\ pc' = "assert" /\ UNCHANGED <<line, isr, flags, torn>> /\ Reported
  BY DEF ReadEntry
<1>4. rst' = rst /\ talk' = talk /\ pos' = pos /\ rate' = rate /\ flags' = flags /\ torn' = torn
  BY <1>3 DEF line
<1>5. Pending' = Pending /\ HasAssert' = HasAssert /\ HasDeassert' = HasDeassert
  <2>1. HasAssert' = HasAssert /\ HasDeassert' = HasDeassert
    BY <1>4 DEF HasAssert, HasDeassert
  <2> QED  BY <1>3, <2>1 DEF Pending
<1>6. ASSUME NEW q2, OnPath(q2)', sn'.iso # "RESET", due' \in Seq(Talks), HoldsData(rb') => HoldsData(rb)
      PROVE  KeepsUp'
  <2>1. OnLine'
    BY <1>1, <1>3, <1>4, <1>5, <1>6 DEF OnLine, Pending
  <2> QED  BY <1>1, <1>3, <1>4, <1>6, <2>1 DEF KeepsUp
<1>7. CASE rb = <<>>
  <2>1. Runs(sn, <<>>)
    BY <1>7 DEF ReadEntry
  <2>2. sn' = sn /\ rb' = rb /\ out' = <<>> /\ running' = running
    BY <1>1, <1>7, <2>1, RunsStill
  <2>3. Right(out') /\ ~HasReport(out')
    BY <2>2, NothingIsRight
  <2>4. due' = due
    BY <1>3, <2>3, ReportedNothing
  <2>5. OnPath(q)'
    BY <1>2, <1>4, <1>5, <2>2, <2>4 DEF OnPath, Lined
  <2> QED  BY <1>1, <1>6, <2>2, <2>3, <2>4, <2>5
<1>8. CASE rb # <<>>
  <2> DEFINE m == HandleEntry(sn, Head(rb))
             l == q[Len(rb)]
  <2>1. Runs(m, Tail(rb))
    BY <1>8 DEF ReadEntry
  <2>2. At(sn, q[0]) /\ Path(q, rb, due) /\ (l.over => ~running) /\ (~Pending => Lined(l))
    BY <1>2 DEF OnPath
  <2>3. /\ At(Settled(m), q[1]) /\ IsPlace(q[1])
        /\ m.drop => Tail(rb) = <<>>
        /\ m.stop => Done(q) /\ q[1].t.kind = "PPS_RSP"
        /\ ~Done(q) => m.out = <<>>
        /\ Done(q) => q[1].t \in Talks /\ (Whole(m, q[1].t) \/ (Broken(m, q[1].t) /\ q[1].over))
    BY <1>1, <1>8, <2>2, Reads
  <2> HIDE DEF m, l
  <2>4. sn' = Settled(m) /\ rb' = Tail(rb) /\ out' = m.out
    BY <2>1, <2>3 DEF Runs
  <2>5. running' = (running /\ ~m.stop)
    BY <2>1 DEF Runs
  <2>6. Len(rb) \in Nat /\ Len(rb) >= 1 /\ 1 \in 0..Len(rb) /\ Len(rb) \in 0..Len(rb) /\ 1 <= Len(rb)
    BY <1>1, <1>8
  <2>7. Done(q) => /\ q[1].j = 1 /\ Ended(q[1]) /\ due # <<>> /\ Head(due) = q[1].t /\ Len(due) >= 1
    <3>1. Done(q) => q[1].j = 1 /\ Ended(q[1]) /\ Len(due) >= 1 /\ due[1] = q[1].t
      BY <2>2, <2>6, First DEF Done
    <3> QED  BY <1>1, <3>1
  <2>8. ASSUME Done(q), Len(due) = 1 PROVE l = q[1] /\ Ended(l)
    <3>1. l.j = 1 /\ q[1].j = 1 /\ Ended(q[1])
      BY <2>2, <2>6, <2>7, <2>8, PathEnds DEF l
    <3>2. Stays(q[1], l)
      BY <2>2, <2>6, <3>1, Rises DEF l
    <3> QED  BY <3>1, <3>2 DEF Stays
  <2>9. Right(out') /\ (HasReport(out') <=> Done(q))
    <3>1. CASE ~Done(q)
      BY <2>3, <2>4, <3>1, NothingIsRight
    <3>2. CASE Done(q) /\ Whole(m, q[1].t)
      BY <2>3, <2>4, <2>7, <3>2, WholeIsRight
    <3>3. CASE Done(q) /\ Broken(m, q[1].t) /\ q[1].over
      <4>1. ~Complete \/ Len(due) > 1
        <5>0. Len(due) \in Nat /\ Len(due) >= 1
          BY <1>1, <2>7, <3>3
        <5>00. \A n \in Nat : n >= 1 /\ ~(n > 1) => n = 1
          OBVIOUS
        <5> SUFFICES ASSUME Len(due) = 1 PROVE ~Complete
          BY <5>0, <5>00
        <5>1. l = q[1] /\ l.over
          BY <2>8, <3>3
        <5>2. CASE Pending
          <6>1. talk = Silence
            BY <1>1, <5>2 DEF OnLine
          <6> QED  BY <6>1 DEF Complete
        <5>3. CASE ~Pending
          <6>1. l.t = talk /\ l.n = pos
            BY <2>2, <5>3 DEF Lined
          <6>2. l.n < Len(l.t.bytes) /\ l.n \in Nat
            BY <2>3, <5>1, PlaceIs DEF IsPlace
          <6> QED  BY <6>1, <6>2 DEF Complete
        <5> QED  BY <5>2, <5>3
      <4> QED  BY <2>3, <2>4, <2>7, <3>3, <4>1, BrokenIsRight
    <3> QED  BY <2>3, <3>1, <3>2, <3>3
  <2>10. due' = IF Done(q) THEN Tail(due) ELSE due
    BY <1>3, <2>7, <2>9, ReportedNothing, ReportedOne
  <2>11. due' \in Seq(Talks)
    BY <1>1, <2>7, <2>10
  <2>12. PICK q2 : /\ Path(q2, rb', due') /\ Same(q[1], q2[0]) /\ Same(l, q2[Len(rb')])
    <3>1. PICK q2 : /\ Path(q2, Tail(rb), IF Done(q) THEN Tail(due) ELSE due)
                    /\ Same(q[1], q2[0]) /\ Same(q[Len(rb)], q2[Len(Tail(rb))])
      BY <1>1, <1>8, <2>2, Pop
    <3> QED  BY <2>4, <2>10, <3>1 DEF l
  <2>13. PICK r : r = q2[Len(rb')]
    OBVIOUS
  <2>14. Same(l, r)
    BY <2>12, <2>13
  <2>15. At(sn', q2[0]) /\ sn'.iso # "RESET"
    <3>1. At(sn', q[1])
      BY <2>3, <2>4
    <3> QED  BY <2>3, <2>12, <3>1, SameIs, AtIso
  <2>16. r.over => ~running'
    BY <2>2, <2>5, <2>14 DEF Same
  <2>17. ASSUME ~Pending PROVE Lined(r)'
    <3>1. l.t = talk /\ l.n = pos /\ (~Ended(l) => running)
          /\ rate = IF l.t = Silence THEN Default.fidi
                    ELSE IF l.n = Len(l.t.bytes) THEN RateAfter(l.t, l.link.fidi) ELSE l.link.fidi
      BY <2>2, <2>17 DEF Lined
    <3>2. ASSUME ~Ended(r) PROVE running'
      <4>1. ~Ended(l) /\ running
        BY <2>14, <3>1, <3>2, SameIs
      <4>2. ASSUME m.stop PROVE FALSE
        <5>1. Done(q) /\ q[1].t.kind = "PPS_RSP" /\ q[1].j = 1
          BY <2>3, <2>7, <4>2
        <5>2. q[1].j \in {0, Len(due)}
          BY <2>2, <2>6, <5>1 DEF Path
        <5> QED  BY <2>8, <4>1, <5>1, <5>2
      <4> QED  BY <2>5, <4>1, <4>2
    <3> QED  BY <1>4, <2>14, <3>1, <3>2 DEF Lined, Same
  <2>18. OnPath(q2)'
    <3>1. At(sn', q2[0]) /\ Path(q2, rb', due')
      BY <2>12, <2>15
    <3>2. q2[Len(rb')].over => ~running'
      BY <2>13, <2>16
    <3>3. ~Pending' => Lined(q2[Len(rb)])'
      <4>1. ~Pending' => Lined(r)'
        BY <1>5, <2>17
      <4> QED  BY <2>13, <4>1 DEF Lined
    <3> QED  BY <3>1, <3>2, <3>3 DEF OnPath
  <2>19. HoldsData(rb') => HoldsData(rb)
    <3>1. ASSUME HoldsData(rb') PROVE HoldsData(rb)
      <4>1. PICK k \in DOMAIN Tail(rb) : Tail(rb)[k].data
        BY <2>4, <3>1 DEF HoldsData
      <4>2. k + 1 \in DOMAIN rb /\ Tail(rb)[k] = rb[k + 1]
        BY <1>1, <1>8
      <4> QED  BY <4>1, <4>2 DEF HoldsData
    <3> QED  BY <3>1
  <2> QED  BY <1>6, <2>9, <2>11, <2>15, <2>18, <2>19
<1> QED  BY <1>7, <1>8

-----------------------------------------------------------------------------
\* A step of the main loop that leaves its memory alone.
LEMMA NothingHeard ==
  ASSUME SnifferInv, ~torn, ~torn', sn' = sn, rb' = rb, running' = running, due' = due,
         UNCHANGED line, pc' # "off",
         sn.iso = "RESET" =>
           /\ rst = "high" => HasDeassert' /\ pc' \in {"data", "assert", "deassert"}
           /\ rst = "low" => ~HasDeassert' /\ (HasAssert' => pc' \in {"deassert", "send", "clear"}),
         sn.iso # "RESET" =>
           /\ ~Pending /\ ~Pending'
           /\ HasAssert' \/ HasDeassert' => /\ HasDeassert' /\ pc' \in {"send", "clear"}
                                            /\ talk = Silence
  PROVE  KeepsUp'
<1>1. /\ due \in Seq(Talks) /\ (talk = Silence => rate = Default.fidi)
      /\ sn.iso = "RESET" => InReset
      /\ sn.iso # "RESET" => OnLine
  BY DEF SnifferInv, KeepsUp
<1>2. rst' = rst /\ talk' = talk /\ pos' = pos /\ rate' = rate
  BY DEF line
<1>3. CASE sn.iso = "RESET"
  <2>1. InReset'
    BY <1>1, <1>2, <1>3 DEF InReset
  <2> QED  BY <1>1, <1>2, <1>3, <2>1 DEF KeepsUp
<1>4. CASE sn.iso # "RESET"
  <2>1. PICK q : OnPath(q)
    BY <1>1, <1>4 DEF OnLine
  <2>2. OnPath(q)'
    BY <1>2, <1>4, <2>1 DEF OnPath, Lined
  <2>3. rst = "high"
    BY <1>1, <1>4 DEF OnLine
  <2>4. OnLine'
    BY <1>2, <1>4, <2>2, <2>3 DEF OnLine
  <2> QED  BY <1>1, <1>2, <1>4, <2>4 DEF KeepsUp
<1> QED  BY <1>3, <1>4

LEMMA NoFlagsStep ==
  ASSUME SnifferInv, NoFlags
  PROVE  KeepsUp' /\ out' = <<>>
<1>1. sn' = sn /\ rb' = rb /\ out' = <<>> /\ running' = running
  BY RunsStill DEF SnifferInv, NoFlags
<1>2. pc = "assert" /\ flags = {} /\ pc' = "data" /\ UNCHANGED <<line, isr, flags, due, torn>>
  BY DEF NoFlags
<1>3. CASE torn
  BY <1>1, <1>2, <1>3, TornStays DEF SnifferInv, line
<1>4. CASE ~torn
  <2>1. ~HasAssert /\ ~HasDeassert /\ ~HasAssert' /\ ~HasDeassert'
    BY <1>2 DEF HasAssert, HasDeassert
  <2>2. sn.iso = "RESET" => InReset
    BY <1>4 DEF SnifferInv, KeepsUp
  <2>3. sn.iso = "RESET" => rst # "high"
    BY <2>1, <2>2 DEF InReset
  <2> QED  BY <1>1, <1>2, <1>4, <2>1, <2>3, NothingHeard DEF Pending
<1> QED  BY <1>1, <1>3, <1>4

LEMMA ClearFlagsStep ==
  ASSUME SnifferInv, ClearFlags
  PROVE  KeepsUp' /\ out' = <<>>
<1>1. sn' = sn /\ rb' = rb /\ out' = <<>> /\ running' = running
  BY RunsStill DEF SnifferInv, ClearFlags
<1>2. pc = "clear" /\ flags' = {} /\ pc' = "data" /\ UNCHANGED <<line, isr, due, torn>>
  BY DEF ClearFlags
<1>3. CASE torn
  BY <1>1, <1>2, <1>3, TornStays DEF SnifferInv, line
<1>4. CASE ~torn
  <2>1. ~HasAssert' /\ ~HasDeassert'
    BY <1>2 DEF HasAssert, HasDeassert
  <2>2. sn.iso = "RESET" => InReset
    BY <1>4 DEF SnifferInv, KeepsUp
  <2>3. sn.iso = "RESET" => rst # "high"
    BY <1>2, <2>2 DEF InReset
  <2> QED  BY <1>1, <1>2, <1>4, <2>1, <2>3, NothingHeard DEF Pending
<1> QED  BY <1>1, <1>3, <1>4

\* What is sent is all that changes.
LEMMA SendsSettles ==
  ASSUME NEW s, NEW x, Settles(s)
  PROVE  Settled(Sends(s, x)) = s /\ Sends(s, x).out = <<x>> /\ ~Sends(s, x).drop /\ ~Sends(s, x).stop
<1>1. IsMemory(s) /\ s.out = <<>> /\ ~s.drop /\ ~s.stop /\ Settled(s) = s
  BY SettlesIs DEF Settles, Good
<1>2. Sends(s, x) = [s EXCEPT !.out = Append(s.out, x)]
  BY DEF Sends
<1>3. Settled([s EXCEPT !.out = Append(s.out, x)]) = Settled(s)
  BY <1>1 DEF Settled, IsMemory, MemoryWith
<1>4. Sends(s, x).out = Append(s.out, x) /\ ~Sends(s, x).drop /\ ~Sends(s, x).stop
  BY <1>1, <1>2 DEF IsMemory, MemoryWith
<1>5. Append(<<>>, x) = <<x>>
  OBVIOUS
<1> QED  BY <1>1, <1>2, <1>3, <1>4, <1>5

LEMMA SendFlagsStep ==
  ASSUME SnifferInv, SendFlags
  PROVE  KeepsUp' /\ Right(out')
<1>1. pc = "send" /\ pc' = "clear" /\ UNCHANGED <<line, isr, flags, due, torn>>
  BY DEF SendFlags
<1>2. Settles(sn) /\ running \in BOOLEAN
  BY DEF SnifferInv, TypeInv
<1>3. PICK x : x = Message("CHANGE", <<>>, flags)
  OBVIOUS
<1>4. Runs(Sends(sn, x), rb)
  BY <1>3 DEF SendFlags
<1>5. Settled(Sends(sn, x)) = sn /\ Sends(sn, x).out = <<x>> /\ ~Sends(sn, x).drop /\ ~Sends(sn, x).stop
  BY <1>2, SendsSettles
<1>6. sn' = sn /\ rb' = rb /\ out' = <<x>>
  BY <1>4, <1>5 DEF Runs
<1>7. running' = running
  BY <1>2, <1>4, <1>5 DEF Runs
<1>8. Right(out')
  <2>1. ~IsReport(x)
    BY <1>3 DEF Message, IsReport
  <2>2. DOMAIN out' = {1} /\ out'[1] = x
    BY <1>6
  <2> QED  BY <2>1, <2>2 DEF Right
<1>9. CASE torn
  <2>1. KeepsUp /\ torn' /\ due' = due /\ talk' = talk /\ rate' = rate
    BY <1>1, <1>9 DEF SnifferInv, line
  <2> QED  BY <1>8, <1>9, <2>1, TornStays
<1>10. CASE ~torn
  <2>1. HasAssert' = HasAssert /\ HasDeassert' = HasDeassert
    BY <1>1 DEF HasAssert, HasDeassert
  <2>2. (sn.iso = "RESET" => InReset) /\ (sn.iso # "RESET" => OnLine)
    BY <1>10 DEF SnifferInv, KeepsUp
  <2>3. ~Pending /\ ~Pending'
    BY <1>1 DEF Pending
  <2>4. sn.iso = "RESET" =>
           /\ rst = "high" => HasDeassert' /\ pc' \in {"data", "assert", "deassert"}
           /\ rst = "low" => ~HasDeassert' /\ (HasAssert' => pc' \in {"deassert", "send", "clear"})
    BY <1>1, <2>1, <2>2 DEF InReset
  <2>5. sn.iso # "RESET" =>
           (HasAssert' \/ HasDeassert' => /\ HasDeassert' /\ pc' \in {"send", "clear"}
                                          /\ talk = Silence)
    BY <1>1, <2>1, <2>2, <2>3 DEF OnLine
  <2>6. due' = due /\ UNCHANGED line /\ pc' # "off" /\ ~torn'
    BY <1>1, <1>10
  <2> QED  BY <1>6, <1>7, <1>8, <1>10, <2>3, <2>4, <2>5, <2>6, NothingHeard
<1> QED  BY <1>8, <1>9, <1>10

-----------------------------------------------------------------------------
\* The reset breaks off what is on the line.
LEMMA AssertOnLine ==
  ASSUME SnifferInv, HandleAssert, ~torn, HasAssert, sn.iso # "RESET"
  PROVE  KeepsUp' /\ Right(out')
<1>1. /\ OnLine /\ due \in Seq(Talks) /\ (talk = Silence => rate = Default.fidi)
      /\ Settles(sn) /\ rb \in Seq(Entries)
  BY DEF SnifferInv, KeepsUp, TypeInv
<1>2. pc = "assert" /\ pc' = "deassert" /\ UNCHANGED <<line, isr, flags, torn>> /\ Reported
  BY DEF HandleAssert
<1>3. rst' = rst /\ talk' = talk /\ rate' = rate /\ HasDeassert' = HasDeassert
  BY <1>2 DEF line, HasDeassert
<1>4. Pending
  BY <1>2 DEF Pending
<1>5. talk = Silence /\ ~HoldsData(rb) /\ (rst = "low" <=> ~HasDeassert)
  BY <1>1, <1>4 DEF OnLine
<1>6. PICK q : At(sn, q[0]) /\ Path(q, rb, due)
  BY <1>1 DEF OnLine, OnPath
<1>7. PICK p : p = q[0]
  OBVIOUS
<1>8. IsPlace(p) /\ At(sn, p) /\ Len(due) = (IF Ended(p) THEN 0 ELSE 1) /\ (~Ended(p) => due[1] = p.t)
  <2>1. Len(rb) \in Nat
    BY <1>1
  <2>2. /\ IsPlace(q[0]) /\ q[Len(rb)].j = Len(due) /\ q[0].j = (IF Ended(q[0]) THEN 0 ELSE 1)
        /\ q[0].j >= 1 => due[q[0].j] = q[0].t
    <3>1. 0 \in 0..Len(rb)
      BY <2>1
    <3> QED  BY <1>6, <2>1, <3>1, PathEnds
  <2>3. q[Len(rb)].j = q[0].j
    BY <1>1, <1>5, <1>6, NoData
  <2> QED  BY <1>6, <1>7, <2>2, <2>3
<1> DEFINE m == change_state(SendIncomplete(sn), "RESET")
<1>9. Runs(m, rb)
  BY DEF HandleAssert, HasAssert
<1>10. /\ Settled(m) = Between("RESET", Default) /\ ~m.drop
       /\ Ended(p) => m.out = <<>>
       /\ ~Ended(p) => Broken(m, p.t)
  BY <1>1, <1>8, Resets
<1> HIDE DEF m
<1>11. sn' = Between("RESET", Default) /\ out' = m.out
  BY <1>9, <1>10 DEF Runs
<1>12. due' = <<>> /\ Right(out')
  <2>1. CASE Ended(p)
    <3>1. Right(out') /\ ~HasReport(out')
      BY <1>10, <1>11, <2>1, NothingIsRight
    <3>2. due' = due
      BY <1>2, <3>1, ReportedNothing
    <3>3. \A d \in Seq(Talks) : Len(d) = 0 => d = <<>>
      OBVIOUS
    <3> QED  BY <1>1, <1>8, <2>1, <3>1, <3>2, <3>3
  <2>2. CASE ~Ended(p)
    <3>1. p.t \in Talks
      BY <1>8, <2>2, PlaceIs
    <3>2. due # <<>> /\ Head(due) = p.t /\ Tail(due) = <<>>
      <4>1. Len(due) = 1 /\ due[1] = p.t
        BY <1>8, <2>2
      <4>2. Tail(due) = <<>>
        BY <1>1, <4>1, OneIsAll
      <4>3. due # <<>> /\ Head(due) = due[1]
        BY <1>1, <4>1
      <4> QED  BY <4>1, <4>2, <4>3
    <3>3. ~Complete
      BY <1>5 DEF Complete
    <3>4. Right(out') /\ HasReport(out')
      BY <1>10, <1>11, <2>2, <3>1, <3>2, <3>3, BrokenIsRight
    <3>5. due' = Tail(due)
      BY <1>2, <3>2, <3>4, ReportedOne
    <3> QED  BY <3>2, <3>4, <3>5
  <2> QED  BY <2>1, <2>2
<1>13. InReset'
  BY <1>2, <1>3, <1>5, <1>11, <1>12 DEF InReset
<1>14. sn'.iso = "RESET"
  BY <1>11, BetweenDefault
<1>15. KeepsUp'
  BY <1>1, <1>2, <1>3, <1>12, <1>13, <1>14 DEF KeepsUp
<1> QED  BY <1>12, <1>15

LEMMA HandleAssertStep ==
  ASSUME SnifferInv, HandleAssert
  PROVE  KeepsUp' /\ (~torn => Right(out'))
<1>1. pc = "assert" /\ pc' = "deassert" /\ UNCHANGED <<line, isr, flags, torn>> /\ Reported
  BY DEF HandleAssert
<1>2. CASE torn
  <2>1. KeepsUp /\ torn' /\ talk' = talk /\ rate' = rate
    BY <1>1, <1>2 DEF SnifferInv, line
  <2> QED  BY <1>1, <1>2, <2>1, TornStays
<1>3. CASE ~torn /\ (~HasAssert \/ sn.iso = "RESET")
  <2>1. (sn.iso = "RESET" => InReset) /\ (sn.iso # "RESET" => OnLine)
    BY <1>3 DEF SnifferInv, KeepsUp
  <2>2. Runs(sn, rb)
    <3>1. CASE ~HasAssert
      BY <3>1 DEF HandleAssert, HasAssert
    <3>2. CASE sn.iso = "RESET"
      <4>1. SendIncomplete(sn) = sn
        BY <3>2, ResetIgnores
      <4>2. change_state(sn, "RESET") = sn
        BY <3>2 DEF change_state
      <4> QED  BY <4>1, <4>2 DEF HandleAssert
    <3> QED  BY <1>3, <3>1, <3>2
  <2>3. sn' = sn /\ rb' = rb /\ out' = <<>> /\ running' = running
    BY <2>2, RunsStill DEF SnifferInv
  <2>4. Right(out') /\ ~HasReport(out')
    BY <2>3, NothingIsRight
  <2>5. due' = due
    BY <1>1, <2>4, ReportedNothing
  <2>6. HasAssert' = HasAssert /\ HasDeassert' = HasDeassert
    BY <1>1 DEF HasAssert, HasDeassert
  <2>7. sn.iso = "RESET" =>
           /\ rst = "high" => HasDeassert' /\ pc' \in {"data", "assert", "deassert"}
           /\ rst = "low" => ~HasDeassert' /\ (HasAssert' => pc' \in {"deassert", "send", "clear"})
    BY <1>1, <2>1, <2>6 DEF InReset
  <2>8. sn.iso # "RESET" => ~HasAssert /\ ~HasDeassert /\ ~Pending
    BY <1>1, <1>3, <2>1 DEF OnLine, Pending
  <2>9. ~Pending'
    BY <1>1 DEF Pending
  <2>10. UNCHANGED line /\ pc' # "off" /\ ~torn'
    BY <1>1, <1>3
  <2>11. KeepsUp'
    BY <1>3, <2>3, <2>5, <2>6, <2>7, <2>8, <2>9, <2>10, NothingHeard
  <2> QED  BY <2>4, <2>11
<1>4. CASE ~torn /\ HasAssert /\ sn.iso # "RESET"
  BY <1>4, AssertOnLine
<1> QED  BY <1>2, <1>3, <1>4

-----------------------------------------------------------------------------
\* The sniffer goes from the reset to the ATR; what it has not read by then is gone.
Quiet == [t |-> Silence, n |-> 0, over |-> FALSE, link |-> Default, j |-> 0]

LEMMA QuietIs ==
  /\ Quiet.t = Silence /\ Quiet.n = 0 /\ ~Quiet.over /\ Quiet.link = Default /\ Quiet.j = 0
  /\ IsPlace(Quiet) /\ Ended(Quiet) /\ At(Between("WAIT_ATR", Default), Quiet)
<1>1. Quiet.t = Silence /\ Quiet.n = 0 /\ ~Quiet.over /\ Quiet.link = Default /\ Quiet.j = 0
      /\ Quiet \in Places
  BY DEF Quiet, Places
<1>2. Silence \notin Talks /\ Silence.bytes = <<>>
  BY TalkIs, SilenceIs
<1>3. Len(Silence.bytes) = 0
  BY <1>2
<1>4. IsPlace(Quiet)
  BY <1>1, <1>2 DEF IsPlace
<1>5. Ended(Quiet)
  BY <1>1, <1>3 DEF Ended
<1>6. At(Between("WAIT_ATR", Default), Quiet)
  BY <1>1 DEF At
<1> QED  BY <1>1, <1>4, <1>5, <1>6

LEMMA QuietPath == ASSUME NEW q, q[0] = Quiet PROVE Path(q, <<>>, <<>>)
<1>1. Len(<<>>) = 0 /\ 0..0 = {0} /\ 1..0 = {}
  OBVIOUS
<1>2. \A k \in 0..0 : q[k] = Quiet
  BY <1>1
<1>3. Quiet.t.kind # "PPS_RSP"
  BY QuietIs, SilenceIs
<1> QED  BY <1>1, <1>2, <1>3, QuietIs DEF Path

LEMMA DeassertInReset ==
  ASSUME SnifferInv, HandleDeassert, HasDeassert, sn.iso = "RESET", ~sn.conv, due = <<>>,
         talk = Silence, rst = "high", ~torn'
  PROVE  KeepsUp' /\ out' = <<>>
<1>1. /\ (talk = Silence => rate = Default.fidi) /\ Settles(sn) /\ Good(sn) /\ sn.out = <<>>
      /\ ~sn.stop /\ pos \in 0..Len(talk.bytes)
  BY DEF SnifferInv, KeepsUp, TypeInv, Settles
<1>2. pc = "deassert" /\ pc' = "send" /\ UNCHANGED <<line, isr, flags, due>>
  BY DEF HandleDeassert
<1>3. rst' = rst /\ talk' = talk /\ pos' = pos /\ rate' = rate /\ HasDeassert' = HasDeassert
  BY <1>2 DEF line, HasDeassert
<1> DEFINE m == change_state(sn, "WAIT_ATR")
<1>4. Runs(m, rb)
  BY DEF HandleDeassert, HasDeassert
<1>5. AtDefault(sn)
  BY <1>1 DEF Good, Fits
<1>6. Link(sn) = Default
  BY <1>5, DefaultLinkOf
<1>7. /\ Settled(m) = Between("WAIT_ATR", Default) /\ m.out = <<>> /\ m.drop
  BY <1>1, <1>6, ToWait
<1> HIDE DEF m
<1>8. sn' = Between("WAIT_ATR", Default) /\ out' = <<>> /\ rb' = <<>>
  BY <1>4, <1>7 DEF Runs
<1>9. pos = 0
  BY <1>1, SilenceIs
<1>10. PICK q : q = [k \in {0} |-> Quiet]
  OBVIOUS
<1>11. q[0] = Quiet
  BY <1>10
<1>12. At(sn', q[0]) /\ Path(q, rb', due') /\ Len(rb') = 0
  BY <1>2, <1>8, <1>11, QuietIs, QuietPath
<1>13. Lined(Quiet)'
  <2>1. Lined([t |-> Silence, n |-> 0, over |-> FALSE, link |-> Default, j |-> 0])'
    <3>1. PICK l : l = [t |-> Silence, n |-> 0, over |-> FALSE, link |-> Default, j |-> 0]
      OBVIOUS
    <3>2. l.t = talk' /\ l.n = pos' /\ Ended(l) /\ rate' = Default.fidi /\ l.t = Silence
      BY <1>1, <1>3, <1>9, <3>1, QuietIs DEF Quiet
    <3>3. Lined(l)'
      BY <3>2 DEF Lined
    <3> QED  BY <3>1, <3>3
  <2> QED  BY <2>1 DEF Quiet
<1>14. OnPath(q)'
  <2>1. q[Len(rb')] = Quiet
    BY <1>11, <1>12
  <2>2. ~q[Len(rb')].over
    BY <2>1, QuietIs
  <2>3. PICK l : l = Quiet
    OBVIOUS
  <2>4. Lined(l)'
    BY <1>13, <2>3 DEF Lined
  <2>5. Lined(q[Len(rb)])'
    BY <2>1, <2>3, <2>4 DEF Lined
  <2> QED  BY <1>12, <2>2, <2>5 DEF OnPath
<1>15. OnLine'
  <2>1. ~Pending'
    BY <1>2 DEF Pending
  <2> QED  BY <1>2, <1>3, <1>14, <2>1 DEF OnLine
<1>16. sn'.iso # "RESET"
  BY <1>8, BetweenDefault
<1>17. due' \in Seq(Talks) /\ due' = <<>>
  BY <1>2
<1> QED  BY <1>1, <1>2, <1>3, <1>8, <1>15, <1>16, <1>17 DEF KeepsUp

LEMMA HandleDeassertStep ==
  ASSUME SnifferInv, HandleDeassert
  PROVE  KeepsUp' /\ (~torn => out' = <<>>)
<1>1. /\ KeepsUp /\ TypeInv /\ (torn => due = <<>>)
      /\ (~torn => /\ sn.iso = "RESET" => InReset
                   /\ sn.iso # "RESET" => OnLine)
  BY DEF SnifferInv, KeepsUp
<1>2. pc = "deassert" /\ pc' = "send" /\ UNCHANGED <<line, isr, flags, due>>
      /\ torn' = (torn /\ ~(/\ sn.iso = "RESET" /\ sn'.iso = "WAIT_ATR"
                           /\ rst = "high" /\ talk = Silence /\ ~sn.conv))
  BY DEF HandleDeassert
<1>3. talk' = talk /\ rate' = rate /\ HasAssert' = HasAssert /\ HasDeassert' = HasDeassert
  BY <1>2 DEF line, HasAssert, HasDeassert
<1>4. ~Pending /\ ~Pending'
  BY <1>2 DEF Pending
<1>5. CASE torn /\ torn'
  BY <1>1, <1>2, <1>3, <1>5, TornStays
<1>6. CASE ~(torn /\ torn') /\ ~HasDeassert
  <2>1. Runs(sn, rb)
    BY <1>6 DEF HandleDeassert, HasDeassert
  <2>2. sn' = sn /\ rb' = rb /\ out' = <<>> /\ running' = running
    BY <1>1, <2>1, RunsStill
  <2>3. ~torn /\ ~torn'
    BY <1>2, <1>6, <2>2
  <2>4. sn.iso = "RESET" =>
           /\ rst = "high" => HasDeassert' /\ pc' \in {"data", "assert", "deassert"}
           /\ rst = "low" => ~HasDeassert' /\ (HasAssert' => pc' \in {"deassert", "send", "clear"})
    BY <1>1, <1>2, <1>3, <1>6, <2>3 DEF InReset
  <2>5. sn.iso # "RESET" => ~HasAssert' /\ ~HasDeassert'
    BY <1>1, <1>2, <1>3, <1>4, <1>6, <2>3 DEF OnLine
  <2>6. UNCHANGED line /\ due' = due /\ pc' # "off"
    BY <1>2
  <2> QED  BY <1>4, <2>2, <2>3, <2>4, <2>5, <2>6, NothingHeard
<1>7. CASE ~(torn /\ torn') /\ HasDeassert
  <2>1. /\ sn.iso = "RESET" /\ ~sn.conv /\ due = <<>> /\ talk = Silence /\ rst = "high" /\ ~torn'
    <3>1. CASE torn
      BY <1>1, <1>2, <1>7, <3>1
    <3>2. CASE ~torn
      <4>1. sn.iso = "RESET"
        BY <1>1, <1>2, <1>4, <1>7, <3>2 DEF OnLine
      <4>2. InReset
        BY <1>1, <3>2, <4>1
      <4>3. ~sn.conv
        BY <4>2 DEF InReset, Between
      <4>4. rst = "high"
        BY <1>1, <1>7, <4>2 DEF InReset, TypeInv
      <4> QED  BY <1>2, <3>2, <4>1, <4>2, <4>3, <4>4 DEF InReset
    <3> QED  BY <3>1, <3>2
  <2> QED  BY <1>7, <2>1, DeassertInReset
<1> QED  BY <1>2, <1>5, <1>6, <1>7

LEMMA ExitStep == ASSUME SnifferInv, Exit PROVE KeepsUp' /\ out' = <<>>
<1>1. torn' = TRUE /\ due' = <<>> /\ out' = <<>> /\ UNCHANGED line
  BY DEF Exit
<1>2. talk = Silence => rate = Default.fidi
  BY DEF SnifferInv, KeepsUp
<1> QED  BY <1>1, <1>2 DEF KeepsUp, line

LEMMA StartStep == ASSUME SnifferInv, Start PROVE KeepsUp' /\ out' = <<>>
<1>1. pc = "off" /\ out' = <<>> /\ UNCHANGED <<line, rem, flags, due, torn>>
  BY DEF Start
<1>2. torn /\ KeepsUp
  BY <1>1 DEF SnifferInv, KeepsUp
<1> QED  BY <1>1, <1>2, TornStays DEF line

-----------------------------------------------------------------------------
(* The interrupt of the USART and the lines.                                *)

LEMMA TornIs ==
  ASSUME torn', due' = <<>>, talk' = Silence => rate' = Default.fidi
  PROVE  KeepsUp'
BY DEF KeepsUp

\* A byte that is not missed is heard on the line.
LEMMA NotMissed ==
  ASSUME SnifferInv, ~torn, ~torn', Listening, NEW t, NEW p, Hears(t, p)
  PROVE  /\ OnLine /\ ~Pending /\ ~HasAssert /\ ~HasDeassert /\ sn.iso # "RESET"
         /\ flags' = flags /\ running' /\ rb' = Append(rb, Entry(t.bytes[p], TRUE, FALSE))
         /\ ~(Complete /\ talk.kind = "PPS_RSP" /\ due # <<>>)
<1>1. (sn.iso = "RESET" => InReset) /\ (sn.iso # "RESET" => OnLine)
  BY DEF SnifferInv, KeepsUp
<1>2. /\ Writes(Entry(t.bytes[p], TRUE, FALSE)) /\ Tears(MissesByte)
      /\ running' = TRUE /\ flags' = flags
  BY DEF Hears, Tears
<1>3. ~MissesByte
  BY <1>2 DEF Tears
<1>4. ~HasAssert /\ ~HasDeassert /\ HasRoom /\ ~(Complete /\ talk.kind = "PPS_RSP" /\ due # <<>>)
  BY <1>3 DEF MissesByte, Signals, HasAssert, HasDeassert
<1>5. rb' = Append(rb, Entry(t.bytes[p], TRUE, FALSE))
  BY <1>2, <1>4 DEF Writes
<1>6. sn.iso # "RESET"
  <2> SUFFICES ASSUME sn.iso = "RESET" PROVE FALSE
    OBVIOUS
  <2> QED  BY <1>1, <1>4 DEF InReset, Listening
<1> QED  BY <1>1, <1>2, <1>4, <1>5, <1>6 DEF Pending

\* The path grows with what the line says.
LEMMA Grows ==
  ASSUME SnifferInv, ~torn, ~torn', Listening, UNCHANGED <<sn, pc, rst>>, NEW q, OnPath(q), OnLine, ~Pending,
         ~HasAssert, ~HasDeassert, sn.iso # "RESET", flags' = flags, running', talk' \in Talks,
         NEW e \in Entries, rb' = Append(rb, e), NEW r, Moves(q[Len(rb)], e, r), ~r.over,
         due' = IF Begins(q[Len(rb)], e, r) THEN Append(due, r.t) ELSE due,
         q[Len(rb)].over => q[Len(rb)].t.kind = "TPDU",
         Begins(q[Len(rb)], e, r) /\ q[Len(rb)].t.kind = "PPS_RSP" => due = <<>>,
         r.t = talk', r.n = pos',
         rate' = IF r.n = Len(r.t.bytes) THEN RateAfter(r.t, r.link.fidi) ELSE r.link.fidi
  PROVE  KeepsUp'
<1>1. /\ rb \in Seq(Entries) /\ due \in Seq(Talks) /\ Len(rb) \in Nat
  BY DEF SnifferInv, KeepsUp, TypeInv
<1>2. Path(q, rb, due) /\ At(sn, q[0])
  BY DEF OnPath
<1>3. PICK q2 : Path(q2, rb', due') /\ q2[0] = q[0] /\ q2[Len(rb')] = r
  <2>1. PICK d : d = IF Begins(q[Len(rb)], e, r) THEN Append(due, r.t) ELSE due
    OBVIOUS
  <2>2. PICK b \in Seq(Entries) : b = rb
    BY <1>1
  <2>3. PICK c \in Seq(Talks) : c = due
    BY <1>1
  <2>4. Path(q, b, c) /\ Moves(q[Len(b)], e, r)
        /\ d = (IF Begins(q[Len(b)], e, r) THEN Append(c, r.t) ELSE c)
        /\ (q[Len(b)].over => q[Len(b)].t.kind = "TPDU")
        /\ (Begins(q[Len(b)], e, r) /\ q[Len(b)].t.kind = "PPS_RSP" => c = <<>>)
    BY <1>2, <2>1, <2>2, <2>3
  <2>5. \E q2 : Path(q2, Append(b, e), d) /\ q2[0] = q[0] /\ q2[Len(Append(b, e))] = r
    <3>1. b \in Seq(Entries) /\ c \in Seq(Talks)
      BY <2>2, <2>3
    <3>2. Joins(q, b, c, e, r, d)
      BY <2>4, <3>1 DEF Joins
    <3> QED  BY <3>2, Push
  <2>6. rb' = Append(b, e) /\ due' = d
    BY <2>1, <2>2
  <2> QED  BY <2>5, <2>6
<1>4. talk' # Silence
  BY TalkIs, SilenceIs
<1>5. Lined(r)'
  BY <1>4 DEF Lined
<1>6. Lined(q2[Len(rb)])'
  BY <1>3, <1>5 DEF Lined
<1>7. At(sn', q2[0]) /\ (q2[Len(rb')].over => ~running')
  BY <1>2, <1>3
<1>8. OnPath(q2)'
  BY <1>3, <1>6, <1>7 DEF OnPath
<1>9. ~HasAssert' /\ ~HasDeassert' /\ ~Pending' /\ rst' = "high"
  BY DEF HasAssert, HasDeassert, Pending, Listening
<1>10. OnLine'
  BY <1>8, <1>9 DEF OnLine
<1>11. due' \in Seq(Talks)
  BY <1>1, <1>4
<1>12. pc' # "off" /\ sn'.iso # "RESET"
  BY DEF Listening
<1> QED  BY <1>4, <1>10, <1>11, <1>12 DEF KeepsUp

LEMMA EndRate ==
  ASSUME NEW p, IsPlace(p), p.t \in Talks, ~p.over, Ended(p)
  PROVE  LinkAfter(p.t, p.link).fidi = RateAfter(p.t, p.link.fidi)
<1>1. p.t # Silence /\ p.n = Len(p.t.bytes)
  BY PlaceIs DEF Ended
<1>2. PICK s : s = Heard(Between(Before(p.t), p.link), p.t.bytes)[p.n]
  OBVIOUS
<1>3. At(s, p)
  BY <1>1, <1>2 DEF At
<1>4. s.fidi = RateAfter(p.t, p.link.fidi) /\ LinkAfter(p.t, p.link).fidi = s.fidi
  BY <1>3, CompleteIs
<1> QED  BY <1>4

-----------------------------------------------------------------------------
LEMMA EntryIs ==
  ASSUME NEW b \in Byte, NEW x \in BOOLEAN, NEW y \in BOOLEAN
  PROVE  /\ Entry(b, x, y) \in Entries /\ Entry(b, x, y).byte = b
         /\ Entry(b, x, y).data = x /\ Entry(b, x, y).timeout = y
BY DEF Entry, Entries

LEMMA NextByteStep ==
  ASSUME SnifferInv, NextByte
  PROVE  KeepsUp' /\ out' = <<>>
<1>1. /\ Listening /\ ~torn /\ running /\ pos < Len(talk.bytes)
      /\ Speaks(talk, pos + 1) /\ Hears(talk, pos + 1)
      /\ due' = (IF torn' THEN <<>> ELSE due) /\ out' = <<>> /\ UNCHANGED <<sn, pc>>
  BY DEF NextByte
<1>2. /\ talk' = talk /\ pos' = pos + 1 /\ UNCHANGED rst
      /\ rate' = IF pos + 1 = Len(talk.bytes) THEN RateAfter(talk, rate) ELSE rate
  BY <1>1 DEF Speaks
<1>3. talk \in Talks /\ pos \in Nat /\ talk # Silence
  BY <1>1, SilenceIs, TalkIs DEF SnifferInv, TypeInv
<1>4. CASE torn'
  BY <1>1, <1>2, <1>3, <1>4, TornIs
<1>5. CASE ~torn'
  <2>1. /\ OnLine /\ ~Pending /\ ~HasAssert /\ ~HasDeassert /\ sn.iso # "RESET"
        /\ flags' = flags /\ running' /\ rb' = Append(rb, Entry(talk.bytes[pos + 1], TRUE, FALSE))
    BY <1>1, <1>5, NotMissed
  <2>2. PICK q : OnPath(q)
    BY <2>1 DEF OnLine
  <2>3. PICK l : l = q[Len(rb)]
    OBVIOUS
  <2>4. Lined(l) /\ ~l.over
    BY <1>1, <2>1, <2>2, <2>3 DEF OnPath
  <2>5. IsPlace(l)
    <3>1. Len(rb) \in Nat
      BY DEF SnifferInv, TypeInv
    <3> QED  BY <2>2, <2>3, <3>1, PathEnds DEF OnPath
  <2>6. l.t = talk /\ l.n = pos /\ rate = l.link.fidi
    BY <1>1, <1>3, <2>4 DEF Lined
  <2>7. ~Ended(l)
    BY <1>1, <2>4, <2>6 DEF Ended
  <2>8. PICK b : b = talk.bytes[pos + 1]
    OBVIOUS
  <2>9. b \in Byte
    <3>1. pos + 1 \in 1..Len(talk.bytes)
      BY <1>1, <1>3, TalkIs
    <3> QED  BY <1>3, <2>8, <3>1, TalkIs
  <2>10. PICK e : e = Entry(b, TRUE, FALSE)
    OBVIOUS
  <2>11. e \in Entries /\ e.byte = b /\ e.data /\ ~e.timeout
    BY <2>9, <2>10, EntryIs
  <2>12. PICK r : r = [l EXCEPT !.n = @ + 1]
    OBVIOUS
  <2>13. GoesOn(l, e, r) /\ ~Begins(l, e, r)
    BY <2>6, <2>7, <2>8, <2>11, <2>12 DEF GoesOn, Begins
  <2>14. Moves(l, e, r)
    BY <2>13 DEF Moves
  <2>15. r.t = l.t /\ r.n = l.n + 1 /\ ~r.over /\ r.link = l.link
    BY <2>5, <2>13, <2>14, MoveFields
  <2>16. rate' = IF r.n = Len(r.t.bytes) THEN RateAfter(r.t, r.link.fidi) ELSE r.link.fidi
    BY <1>2, <2>6, <2>15
  <2>17. rb' = Append(rb, e) /\ due' = due
    BY <1>1, <1>5, <2>1, <2>8, <2>10
  <2>18. r.t = talk' /\ r.n = pos' /\ talk' \in Talks
    BY <1>2, <1>3, <2>6, <2>15
  <2>19. /\ Moves(q[Len(rb)], e, r) /\ ~Begins(q[Len(rb)], e, r) /\ ~q[Len(rb)].over
    BY <2>3, <2>4, <2>13, <2>14
  <2>20. UNCHANGED <<sn, pc, rst>>
    BY <1>1, <1>2
  <2> QED  BY <1>1, <1>5, <2>1, <2>2, <2>11, <2>15, <2>16, <2>17, <2>18, <2>19, <2>20, Grows
<1> QED  BY <1>4, <1>5

\* at the rate of what comes next
LEMMA NextRate ==
  ASSUME NEW l, IsPlace(l), Lined(l), Ended(l)
  PROVE  rate = NextLink(l).fidi
<1>1. CASE l.t = Silence
  BY <1>1 DEF Lined, NextLink
<1>2. CASE l.t \in Talks /\ l.over
  <2>1. l.t # Silence /\ l.n < Len(l.t.bytes) /\ l.n \in Nat
    BY <1>2, PlaceIs DEF IsPlace
  <2> QED  BY <1>2, <2>1 DEF Lined, NextLink
<1>3. CASE l.t \in Talks /\ ~l.over
  <2>1. l.t # Silence /\ l.n = Len(l.t.bytes)
    BY <1>3, PlaceIs DEF Ended
  <2>2. rate = RateAfter(l.t, l.link.fidi)
    BY <2>1 DEF Lined
  <2> QED  BY <1>3, <2>1, <2>2, EndRate DEF NextLink
<1> QED  BY <1>1, <1>2, <1>3, PlaceIs

LEMMA MayFollowIs ==
  ASSUME NEW l, IsPlace(l), Lined(l), NEW t \in Talks, MayFollow(t)
  PROVE  /\ Ended(l) /\ Follows(l, t)
         /\ l.over => l.t.kind = "TPDU"
         /\ l.t.kind = "PPS_RSP" => Complete
<1>1. /\ l.t = talk /\ l.n = pos /\ (~Ended(l) => running) /\ (l.t = Silence => Ended(l) /\ ~l.over)
  BY PlaceIs DEF Lined
<1>2. Complete => Ended(l) /\ ~l.over
  <2> SUFFICES ASSUME Complete PROVE Ended(l) /\ ~l.over
    OBVIOUS
  <2>1. l.n = Len(l.t.bytes) /\ l.t # Silence
    BY <1>1 DEF Complete
  <2>2. l.n \in Nat
    BY PlaceIs
  <2>3. ~l.over
    BY <2>1, <2>2 DEF IsPlace
  <2> QED  BY <2>1, <2>3 DEF Ended
<1>3. CASE talk = Silence /\ t.kind = "ATR"
  BY <1>1, <1>3, SilenceIs DEF Follows
<1>4. CASE Complete /\ talk.kind = "ATR" /\ t.kind \in {"PPS_REQ", "TPDU"}
  BY <1>1, <1>2, <1>4 DEF Follows
<1>5. CASE Complete /\ talk.kind = "PPS_REQ" /\ talk.flags = {} /\ t.kind = "PPS_RSP"
  BY <1>1, <1>2, <1>5 DEF Follows
<1>6. CASE Complete /\ talk.kind = "PPS_RSP" /\ talk.flags = {} /\ t.kind = "TPDU"
  BY <1>1, <1>2, <1>6 DEF Follows
<1>7. CASE (Complete \/ ~running) /\ talk.kind = "TPDU" /\ t.kind = "TPDU"
  BY <1>1, <1>2, <1>7 DEF Follows
<1> QED  BY <1>3, <1>4, <1>5, <1>6, <1>7 DEF MayFollow

LEMMA FirstByteStep ==
  ASSUME SnifferInv, FirstByte
  PROVE  KeepsUp' /\ out' = <<>>
<1>1. Listening /\ ~torn /\ out' = <<>> /\ UNCHANGED <<sn, pc>>
  BY DEF FirstByte
<1>2. PICK t \in Talks : /\ MayFollow(t) /\ Speaks(t, 1) /\ Hears(t, 1)
                         /\ due' = IF torn' THEN <<>> ELSE Append(due, t)
  BY DEF FirstByte
<1>3. /\ talk' = t /\ pos' = 1 /\ UNCHANGED rst
      /\ rate' = IF 1 = Len(t.bytes) THEN RateAfter(t, rate) ELSE rate
  BY <1>2 DEF Speaks
<1>4. t # Silence /\ t.bytes[1] \in Byte
  <2>1. 1 \in 1..Len(t.bytes)
    BY TalkIs
  <2> QED  BY <2>1, TalkIs, SilenceIs
<1>5. CASE torn'
  BY <1>1, <1>2, <1>3, <1>4, <1>5, TornIs
<1>6. CASE ~torn'
  <2>1. /\ OnLine /\ ~Pending /\ ~HasAssert /\ ~HasDeassert /\ sn.iso # "RESET"
        /\ flags' = flags /\ running' /\ rb' = Append(rb, Entry(t.bytes[1], TRUE, FALSE))
        /\ ~(Complete /\ talk.kind = "PPS_RSP" /\ due # <<>>)
    BY <1>1, <1>2, <1>6, NotMissed
  <2>2. PICK q : OnPath(q)
    BY <2>1 DEF OnLine
  <2>3. PICK l : l = q[Len(rb)]
    OBVIOUS
  <2>4. Lined(l)
    BY <2>1, <2>2, <2>3 DEF OnPath
  <2>5. IsPlace(l) /\ l.t = talk
    <3>1. Len(rb) \in Nat
      BY DEF SnifferInv, TypeInv
    <3>2. IsPlace(l)
      BY <2>2, <2>3, <3>1, PathEnds DEF OnPath
    <3> QED  BY <2>4, <3>2 DEF Lined
  <2>6. /\ Ended(l) /\ Follows(l, t) /\ (l.over => l.t.kind = "TPDU")
        /\ (l.t.kind = "PPS_RSP" => Complete)
    BY <1>2, <2>4, <2>5, MayFollowIs
  <2>7. rate = NextLink(l).fidi
    BY <2>4, <2>5, <2>6, NextRate
  <2>8. PICK b : b = t.bytes[1]
    OBVIOUS
  <2>9. PICK e : e = Entry(b, TRUE, FALSE)
    OBVIOUS
  <2>10. e \in Entries /\ e.byte = b /\ e.data /\ ~e.timeout
    BY <1>4, <2>8, <2>9, EntryIs
  <2>11. PICK r : r = [t |-> t, n |-> 1, over |-> FALSE, link |-> NextLink(l), j |-> l.j + 1]
    OBVIOUS
  <2>12. r.t = t /\ r.n = 1 /\ ~r.over /\ r.link = NextLink(l)
    BY <2>11
  <2>13. Begins(l, e, r)
    BY <2>6, <2>8, <2>10, <2>11, <2>12 DEF Begins
  <2>14. Moves(l, e, r)
    BY <2>13 DEF Moves
  <2>15. rate' = IF r.n = Len(r.t.bytes) THEN RateAfter(r.t, r.link.fidi) ELSE r.link.fidi
    BY <1>3, <2>7, <2>12
  <2>16. rb' = Append(rb, e) /\ due' = Append(due, r.t)
    BY <1>2, <1>6, <2>1, <2>8, <2>9, <2>12
  <2>17. r.t = talk' /\ r.n = pos' /\ talk' \in Talks
    BY <1>3, <2>12
  <2>18. /\ Moves(q[Len(rb)], e, r) /\ Begins(q[Len(rb)], e, r)
         /\ q[Len(rb)].over => q[Len(rb)].t.kind = "TPDU"
         /\ q[Len(rb)].t.kind = "PPS_RSP" => due = <<>>
    BY <2>1, <2>3, <2>5, <2>6, <2>13, <2>14
  <2>19. UNCHANGED <<sn, pc, rst>>
    BY <1>1, <1>3
  <2> QED  BY <1>1, <1>6, <2>1, <2>2, <2>10, <2>12, <2>15, <2>16, <2>17, <2>18, <2>19, Grows
<1> QED  BY <1>1, <1>5, <1>6

-----------------------------------------------------------------------------
\* The waiting time is over.
LEMMA ExpiresInReset ==
  ASSUME SnifferInv, ~torn, ~torn', sn.iso = "RESET", UNCHANGED <<line, sn, pc, due>>,
         HasAssert' = HasAssert, HasDeassert' = HasDeassert
  PROVE  KeepsUp'
<1>1. InReset /\ due \in Seq(Talks) /\ (talk = Silence => rate = Default.fidi) /\ pc # "off"
  BY DEF SnifferInv, KeepsUp
<1>2. rst' = rst /\ talk' = talk /\ rate' = rate
  BY DEF line
<1>3. InReset'
  BY <1>1, <1>2 DEF InReset
<1> QED  BY <1>1, <1>2, <1>3 DEF KeepsUp

LEMMA NotOverOnLine ==
  ASSUME SnifferInv, ~torn, ~torn', sn.iso # "RESET", UNCHANGED <<line, sn, pc, due, rb>>,
         running' = running, HasAssert' = HasAssert, HasDeassert' = HasDeassert
  PROVE  KeepsUp'
<1>1. OnLine /\ due \in Seq(Talks) /\ (talk = Silence => rate = Default.fidi) /\ pc # "off"
  BY DEF SnifferInv, KeepsUp
<1>2. rst' = rst /\ talk' = talk /\ pos' = pos /\ rate' = rate
  BY DEF line
<1>3. Pending' = Pending
  BY DEF Pending
<1>4. PICK q : OnPath(q)
  BY <1>1 DEF OnLine
<1>5. OnPath(q)'
  BY <1>2, <1>3, <1>4 DEF OnPath, Lined
<1>6. OnLine'
  BY <1>1, <1>2, <1>3, <1>5 DEF OnLine
<1> QED  BY <1>1, <1>2, <1>6 DEF KeepsUp

LEMMA OverOnLine ==
  ASSUME SnifferInv, ~torn, ~torn', sn.iso # "RESET", UNCHANGED <<line, sn, pc, due>>,
         running, ~running', rb' = Append(rb, Entry(0, FALSE, TRUE)),
         HasAssert' = HasAssert, HasDeassert' = HasDeassert
  PROVE  KeepsUp'
<1>1. /\ OnLine /\ due \in Seq(Talks) /\ (talk = Silence => rate = Default.fidi) /\ pc # "off"
      /\ rb \in Seq(Entries) /\ Len(rb) \in Nat
  BY DEF SnifferInv, KeepsUp, TypeInv
<1>2. rst' = rst /\ talk' = talk /\ pos' = pos /\ rate' = rate
  BY DEF line
<1>3. Pending' = Pending
  BY DEF Pending
<1>4. PICK q : OnPath(q)
  BY <1>1 DEF OnLine
<1>5. PICK l : l = q[Len(rb)]
  OBVIOUS
<1>6. At(sn, q[0]) /\ Path(q, rb, due) /\ ~l.over /\ (~Pending => Lined(l))
  BY <1>4, <1>5 DEF OnPath
<1>7. IsPlace(l)
  BY <1>1, <1>5, <1>6, PathEnds
<1>8. PICK e : e = Entry(0, FALSE, TRUE)
  OBVIOUS
<1>9. e \in Entries /\ ~e.data /\ e.timeout
  <2>1. 0 \in Byte
    BY DEF Byte
  <2> QED  BY <1>8, <2>1, EntryIs
<1>10. PICK r : r = IF Ended(l) THEN l ELSE [l EXCEPT !.over = TRUE]
  OBVIOUS
<1>11. GivesUp(l, e, r) /\ ~Begins(l, e, r) /\ Moves(l, e, r)
  BY <1>9, <1>10 DEF GivesUp, Begins, Moves
<1>12. r.t = l.t /\ r.n = l.n /\ r.link = l.link /\ Ended(r)
  BY <1>7, <1>11, MoveFields
<1>13. Joins(q, rb, due, e, r, due)
  BY <1>1, <1>5, <1>6, <1>9, <1>11 DEF Joins
<1>14. PICK q2 : Path(q2, rb', due') /\ q2[0] = q[0] /\ q2[Len(rb')] = r
  <2>1. \E q2 : Path(q2, Append(rb, e), due) /\ q2[0] = q[0] /\ q2[Len(Append(rb, e))] = r
    BY <1>13, Push
  <2>2. rb' = Append(rb, e) /\ due' = due
    BY <1>8
  <2> QED  BY <2>1, <2>2
<1>15. ~Pending' => Lined(r)'
  BY <1>2, <1>3, <1>6, <1>12 DEF Lined
<1>16. ~Pending' => Lined(q2[Len(rb)])'
  BY <1>14, <1>15 DEF Lined
<1>17. At(sn', q2[0])
  BY <1>6, <1>14
<1>18. OnPath(q2)'
  BY <1>14, <1>16, <1>17 DEF OnPath
<1>19. HoldsData(rb') => HoldsData(rb)
  <2> SUFFICES ASSUME HoldsData(rb') PROVE HoldsData(rb)
    OBVIOUS
  <2>1. PICK b : b = rb'
    OBVIOUS
  <2>2. b = Append(rb, e)
    BY <1>8, <2>1
  <2>3. PICK k \in DOMAIN b : b[k].data
    BY <2>1 DEF HoldsData
  <2>4. DOMAIN b = 1..Len(rb) + 1 /\ b[Len(rb) + 1] = e /\ \A i \in 1..Len(rb) : b[i] = rb[i]
    BY <1>1, <2>2
  <2>5. k # Len(rb) + 1
    BY <1>9, <2>3, <2>4
  <2>6. k \in 1..Len(rb)
    BY <1>1, <2>3, <2>4, <2>5
  <2>7. k \in DOMAIN rb /\ rb[k].data
    BY <1>1, <2>3, <2>4, <2>6
  <2> QED  BY <2>7 DEF HoldsData
<1>20. OnLine'
  BY <1>1, <1>2, <1>3, <1>18, <1>19 DEF OnLine
<1> QED  BY <1>1, <1>2, <1>20 DEF KeepsUp

LEMMA TimeoutStep ==
  ASSUME SnifferInv, Timeout
  PROVE  KeepsUp' /\ out' = <<>>
<1>1. /\ running /\ CountDown(rem) /\ out' = <<>> /\ UNCHANGED <<line, sn, pc>>
      /\ IF rem <= rtor THEN Writes(Entry(0, FALSE, TRUE)) ELSE UNCHANGED rb
      /\ torn' = (torn \/ IF rem <= rtor THEN ~HasRoom ELSE ~running')
      /\ due' = IF torn' THEN <<>> ELSE due
  BY DEF Timeout, Tears
<1>2. talk = Silence => rate = Default.fidi
  BY DEF SnifferInv, KeepsUp
<1>3. CASE torn'
  BY <1>1, <1>2, <1>3, TornIs DEF line
<1>4. CASE ~torn'
  <2>1. ~torn /\ due' = due
    BY <1>1, <1>4
  <2>2. /\ flags' = (IF rem <= rtor THEN flags \cup {"TIMEOUT_WT"} ELSE flags)
        /\ running' = ("TIMEOUT_WT" \notin flags')
    BY <1>1 DEF CountDown
  <2>3. HasAssert' = HasAssert /\ HasDeassert' = HasDeassert
    BY <2>2 DEF HasAssert, HasDeassert
  <2>4. CASE sn.iso = "RESET"
    BY <1>1, <1>4, <2>1, <2>3, <2>4, ExpiresInReset
  <2>5. CASE sn.iso # "RESET" /\ ~(rem <= rtor)
    <3>1. running \in BOOLEAN
      BY DEF SnifferInv, TypeInv
    <3>2. rb' = rb /\ running'
      BY <1>1, <1>4, <2>5
    <3>3. running' \in BOOLEAN
      BY <2>2
    <3>4. running' = running
      BY <1>1, <3>1, <3>2, <3>3
    <3>5. UNCHANGED <<line, sn, pc, due, rb>>
      BY <1>1, <2>1, <3>2
    <3> QED  BY <1>1, <1>4, <2>1, <2>3, <2>5, <3>4, <3>5, NotOverOnLine
  <2>6. CASE sn.iso # "RESET" /\ rem <= rtor
    <3>1. ~running'
      BY <2>2, <2>6
    <3>2. rb' = Append(rb, Entry(0, FALSE, TRUE))
      BY <1>1, <1>4, <2>6 DEF Writes
    <3>3. UNCHANGED <<line, sn, pc, due>>
      BY <1>1, <2>1
    <3> QED  BY <1>1, <1>4, <2>1, <2>3, <2>6, <3>1, <3>2, <3>3, OverOnLine
  <2> QED  BY <2>4, <2>5, <2>6
<1> QED  BY <1>1, <1>3, <1>4

-----------------------------------------------------------------------------
(* The reset line.                                                          *)

LEMMA AssertResetStep ==
  ASSUME SnifferInv, AssertReset
  PROVE  KeepsUp' /\ out' = <<>>
<1>1. /\ rst = "high" /\ rst' = "low" /\ talk' = Silence /\ rate' = Default.fidi
      /\ torn' = (torn \/ (\/ HoldsData(rb) \/ HasDeassert \/ pc \in {"deassert", "send", "clear"}))
      /\ due' = (IF torn' THEN <<>> ELSE due) /\ out' = <<>>
      /\ UNCHANGED <<isr, rb, running, sn, pc>> /\ Flagged("RESET_ASSERT")
  BY DEF AssertReset, Tears, HasDeassert, Default
<1>2. CASE torn'
  BY <1>1, <1>2, TornIs
<1>3. CASE ~torn'
  <2>1. /\ ~torn /\ ~HoldsData(rb) /\ ~HasDeassert /\ pc \in {"data", "assert"} /\ due' = due
        /\ (sn.iso = "RESET" => InReset) /\ (sn.iso # "RESET" => OnLine) /\ due \in Seq(Talks)
    BY <1>1, <1>3 DEF SnifferInv, KeepsUp, TypeInv
  <2>2. HasAssert' /\ ~HasDeassert'
    BY <1>1, <2>1 DEF Flagged, HasAssert, HasDeassert
  <2>3. Pending'
    BY <1>1, <2>1, <2>2 DEF Pending
  <2>4. sn.iso # "RESET"
    BY <1>1, <2>1 DEF InReset
  <2>5. PICK q : OnPath(q)
    BY <2>1, <2>4 DEF OnLine
  <2>6. OnPath(q)'
    BY <1>1, <2>1, <2>3, <2>5 DEF OnPath
  <2>7. OnLine'
    BY <1>1, <2>1, <2>2, <2>3, <2>6 DEF OnLine
  <2> QED  BY <1>1, <1>3, <2>1, <2>4, <2>7 DEF KeepsUp
<1> QED  BY <1>1, <1>2, <1>3

LEMMA DeassertResetStep ==
  ASSUME SnifferInv, DeassertReset
  PROVE  KeepsUp' /\ out' = <<>>
<1>1. /\ rst = "low" /\ rst' = "high" /\ Flagged("RESET_DEASSERT")
      /\ torn' = (torn \/ pc \in {"send", "clear"})
      /\ due' = (IF torn' THEN <<>> ELSE due) /\ out' = <<>>
      /\ UNCHANGED <<talk, pos, rate, isr, rb, running, sn, pc>>
  BY DEF DeassertReset, Tears
<1>2. (talk = Silence => rate = Default.fidi) /\ due \in Seq(Talks)
  BY DEF SnifferInv, KeepsUp
<1>3. CASE torn'
  BY <1>1, <1>2, <1>3, TornIs
<1>4. CASE ~torn'
  <2>1. /\ ~torn /\ pc \in {"data", "assert", "deassert"} /\ due' = due
        /\ (sn.iso = "RESET" => InReset) /\ (sn.iso # "RESET" => OnLine)
    BY <1>1, <1>4 DEF SnifferInv, KeepsUp, TypeInv
  <2>2. HasAssert' = HasAssert /\ HasDeassert'
    BY <1>1, <2>1 DEF Flagged, HasAssert, HasDeassert
  <2>3. CASE sn.iso = "RESET"
    <3>1. InReset'
      BY <1>1, <2>1, <2>2, <2>3 DEF InReset
    <3> QED  BY <1>1, <1>2, <1>4, <2>1, <2>3, <3>1 DEF KeepsUp
  <2>4. CASE sn.iso # "RESET"
    <3>1. OnLine /\ Pending /\ Pending'
      BY <1>1, <2>1, <2>2, <2>4 DEF OnLine, Pending
    <3>2. PICK q : OnPath(q)
      BY <3>1 DEF OnLine
    <3>3. OnPath(q)'
      BY <1>1, <2>1, <3>1, <3>2 DEF OnPath
    <3>4. OnLine'
      BY <1>1, <2>1, <2>2, <3>1, <3>3 DEF OnLine
    <3> QED  BY <1>1, <1>2, <1>4, <2>1, <2>4, <3>4 DEF KeepsUp
  <2> QED  BY <2>3, <2>4
<1> QED  BY <1>1, <1>3, <1>4

-----------------------------------------------------------------------------
LEMMA StepsKeepUp ==
  ASSUME SnifferInv, Next
  PROVE  KeepsUp' /\ (~torn => Right(out'))
<1>1. CASE ReadEntry
  <2>1. CASE torn
    <3>1. KeepsUp /\ torn' /\ Reported /\ talk' = talk /\ rate' = rate
      BY <1>1, <2>1 DEF SnifferInv, ReadEntry, line
    <3> QED  BY <2>1, <3>1, TornStays
  <2>2. CASE ~torn
    BY <1>1, <2>2, ReadInReset, ReadOnPath
  <2> QED  BY <2>1, <2>2
<1>2. CASE NoFlags
  BY <1>2, NoFlagsStep, NothingIsRight
<1>3. CASE HandleAssert
  BY <1>3, HandleAssertStep
<1>4. CASE HandleDeassert
  BY <1>4, HandleDeassertStep, NothingIsRight
<1>5. CASE SendFlags
  BY <1>5, SendFlagsStep
<1>6. CASE ClearFlags
  BY <1>6, ClearFlagsStep, NothingIsRight
<1>7. CASE Exit \/ Start
  BY <1>7, ExitStep, StartStep, NothingIsRight
<1>8. CASE FirstByte \/ NextByte \/ Timeout
  BY <1>8, FirstByteStep, NextByteStep, TimeoutStep, NothingIsRight
<1>9. CASE AssertReset \/ DeassertReset
  BY <1>9, AssertResetStep, DeassertResetStep, NothingIsRight
<1> QED  BY <1>1, <1>2, <1>3, <1>4, <1>5, <1>6, <1>7, <1>8, <1>9 DEF Next, MainLoop

LEMMA InitKeepsUp == Init => KeepsUp
<1> SUFFICES ASSUME Init PROVE KeepsUp
  OBVIOUS
<1>1. /\ rst = "low" /\ talk = Silence /\ rate = Default.fidi /\ flags = {}
      /\ sn = Between("RESET", Default) /\ pc = "data" /\ due = <<>> /\ torn = FALSE
  BY DEF Init, Default
<1>2. InReset
  BY <1>1 DEF InReset, HasAssert, HasDeassert
<1>3. sn.iso = "RESET"
  BY <1>1, BetweenDefault
<1> QED  BY <1>1, <1>2, <1>3 DEF KeepsUp

LEMMA Stutters == KeepsUp /\ UNCHANGED vars => KeepsUp'
<1> SUFFICES ASSUME KeepsUp, UNCHANGED vars PROVE KeepsUp'
  OBVIOUS
<1>1. UNCHANGED <<rst, talk, pos, rate, rb, flags, running, sn, pc, due, torn>>
  BY DEF vars
<1>2. InReset' = InReset
  BY <1>1 DEF InReset, HasAssert, HasDeassert
<1>3. OnLine => OnLine'
  <2> SUFFICES ASSUME OnLine PROVE OnLine'
    OBVIOUS
  <2>1. PICK q : OnPath(q)
    BY DEF OnLine
  <2>2. Pending' = Pending /\ HasAssert' = HasAssert /\ HasDeassert' = HasDeassert
    BY <1>1 DEF Pending, HasAssert, HasDeassert
  <2>3. OnPath(q)'
    BY <1>1, <2>1, <2>2 DEF OnPath, Lined
  <2> QED  BY <1>1, <2>2, <2>3 DEF OnLine
<1> QED  BY <1>1, <1>2, <1>3 DEF KeepsUp

LEMMA KeepsUpInductive == Spec => []SnifferInv
<1>1. Init => KeepsUp
  BY InitKeepsUp
<1>2. TypeInv /\ KeepsUp /\ [Next]_vars => KeepsUp'
  BY StepsKeepUp, Stutters DEF SnifferInv
<1>3. Spec => []KeepsUp
  BY TypeInductive, <1>1, <1>2, PTL DEF Spec
<1> QED  BY TypeInductive, <1>3, PTL DEF SnifferInv

\* While the main loop keeps up, the host is told what was on the line: each
\* transmission once, in the order they were sent, whole or as far as it was heard,
\* whatever the delay between the interrupt that stores a byte and the pass of
\* Sniffer_run that reads it, and wherever the reset cuts in.
THEOREM LineIsReported == Spec => ReportsTheLine
<1>1. SnifferInv /\ [Next]_vars =>
        [~torn => \A k \in DOMAIN out' : IsReport(out'[k]) =>
           /\ due # <<>>
           /\ out'[k].type = Type(Head(due))
           /\ IF out'[k].flags = {"INCOMPLETE"}
              THEN /\ Len(out'[k].bytes) <= Len(Head(due).report)
                   /\ out'[k].bytes = SubSeq(Head(due).report, 1, Len(out'[k].bytes))
                   /\ ~Complete \/ Len(due) > 1
              ELSE out'[k].bytes = Head(due).report /\ out'[k].flags = Head(due).flags]_vars
  <2>1. SnifferInv /\ Next => (~torn => Right(out'))
    BY StepsKeepUp
  <2> QED  BY <2>1 DEF Right
<1> QED  BY KeepsUpInductive, <1>1, PTL DEF Spec, ReportsTheLine

\* ... and owes it nothing once it has read the buffer empty.
THEOREM NothingIsOwed == Spec => []NothingOwed
<1>1. SnifferInv => NothingOwed
  <2> SUFFICES ASSUME SnifferInv, ~torn, rb = <<>>,
                      Complete \/ sn.iso \in {"RESET", "WAIT_ATR"}, sn.iso # "RESET"
               PROVE  due = <<>>
    BY DEF NothingOwed, SnifferInv, KeepsUp, InReset
  <2>1. OnLine /\ due \in Seq(Talks)
    BY DEF SnifferInv, KeepsUp
  <2>2. PICK q : OnPath(q)
    BY <2>1 DEF OnLine
  <2>3. Len(rb) = 0
    OBVIOUS
  <2>4. PICK l : l = q[0]
    OBVIOUS
  <2>5. IsPlace(l) /\ At(sn, l) /\ l.j = Len(due) /\ l.j = (IF Ended(l) THEN 0 ELSE 1)
    <3>1. Path(q, rb, due) /\ At(sn, q[0])
      BY <2>2 DEF OnPath
    <3> QED  BY <2>3, <2>4, <3>1, PathEnds
  <2>6. Ended(l)
    <3>1. CASE Complete
      <4>1. ~Pending
        BY <2>1, <3>1 DEF OnLine, Complete
      <4>2. l.t = talk /\ l.n = pos
        BY <2>2, <2>3, <2>4, <4>1 DEF OnPath, Lined
      <4> QED  BY <3>1, <4>2 DEF Complete, Ended
    <3>2. CASE sn.iso = "WAIT_ATR"
      BY <2>5, <3>2, AtIso
    <3> QED  BY <3>1, <3>2
  <2>7. \A d \in Seq(Talks) : Len(d) = 0 => d = <<>>
    OBVIOUS
  <2> QED  BY <2>1, <2>5, <2>6, <2>7
<1> QED  BY KeepsUpInductive, <1>1, PTL

\* When the flags are handled the sniffer knows the level of the reset line, and
\* between two transmissions it listens at the rate reader and card have agreed on,
\* after a PPS too.
THEOREM StaysInStep == Spec => []InStep
<1>1. SnifferInv => InStep
  <2> SUFFICES ASSUME SnifferInv, ~torn, pc = "data", flags = {}
               PROVE  /\ rst = "low" <=> sn.iso = "RESET"
                      /\ (talk = Silence \/ Complete) /\ rb = <<>> => sn.fidi = rate
    BY DEF InStep
  <2>1. /\ (sn.iso = "RESET" => InReset) /\ (sn.iso # "RESET" => OnLine) /\ rst \in {"low", "high"}
        /\ ~HasAssert /\ ~HasDeassert /\ (talk = Silence => rate = Default.fidi)
    BY DEF SnifferInv, KeepsUp, TypeInv, HasAssert, HasDeassert
  <2>2. rst = "low" <=> sn.iso = "RESET"
    BY <2>1 DEF InReset, OnLine, Pending
  <2>3. ASSUME talk = Silence \/ Complete, rb = <<>> PROVE sn.fidi = rate
    <3>1. CASE sn.iso = "RESET"
      BY <2>1, <3>1, BetweenDefault DEF InReset
    <3>2. CASE sn.iso # "RESET"
      <4>1. PICK q : OnPath(q)
        BY <2>1, <3>2 DEF OnLine
      <4>2. Len(rb) = 0 /\ ~Pending
        BY <2>1, <2>3 DEF Pending
      <4>3. PICK l : l = q[0]
        OBVIOUS
      <4>4. IsPlace(l) /\ At(sn, l)
        <5>1. Path(q, rb, due) /\ At(sn, q[0])
          BY <4>1 DEF OnPath
        <5> QED  BY <4>2, <4>3, <5>1, PathEnds
      <4>5. Lined(l)
        BY <4>1, <4>2, <4>3 DEF OnPath
      <4>6. CASE talk = Silence
        <5>1. sn = Between("WAIT_ATR", Default) /\ rate = Default.fidi
          BY <4>4, <4>5, <4>6 DEF Lined, At
        <5> QED  BY <5>1, BetweenDefault
      <4>7. CASE Complete
        <5>1. l.t = talk /\ l.n = Len(l.t.bytes) /\ l.t # Silence /\ Ended(l)
              /\ rate = RateAfter(l.t, l.link.fidi)
          BY <4>5, <4>7 DEF Lined, Complete, Ended
        <5>2. ~l.over /\ l.t \in Talks
          <6>1. l.n \in Nat /\ l.t \in Talks
            BY <4>4, <5>1, PlaceIs
          <6> QED  BY <4>4, <5>1, <6>1 DEF IsPlace
        <5> QED  BY <4>4, <5>1, <5>2, CompleteIs
      <4> QED  BY <2>3, <4>6, <4>7
    <3> QED  BY <3>1, <3>2
  <2> QED  BY <2>2, <2>3
<1> QED  BY KeepsUpInductive, <1>1, PTL
=============================================================================
