------------------------------- MODULE Sniffer -------------------------------
(***************************************************************************)
(* sniffer.c: the device listens to a reader and a card and reports every  *)
(* ATR, PPS and TPDU it hears to the host.                                 *)
(*                                                                         *)
(* Three contexts share the state: the interrupt of the USART, which puts  *)
(* the bytes and the time-outs into a ring buffer, the interrupt of the    *)
(* reset line, which sets change_flags, and the main loop, which reads one *)
(* entry of the buffer and then the flags on each of its passes.  The      *)
(* buffer and the flags are not in step with each other, and the main loop *)
(* reads the flags several times before it clears them: each read is an    *)
(* action of its own.                                                      *)
(*                                                                         *)
(* The memory of the main loop is one record, sn; a function of the source *)
(* is an operator from the record before the call to the record after it.  *)
(* Of the arrays of the ATR, the PPS and the TPDU only the one the state   *)
(* iso uses is ever read: sn.data and sn.pps stand for them.               *)
(* Times are in units of 960 etu.                                          *)
(***************************************************************************)
EXTENDS Integers, Sequences, FiniteSets

CONSTANTS
  Talks,       \* what reader and card say to each other, see TalkAssumption
  SniffBufLen, \* entries the ring buffer holds
  RtorMax      \* what fits into the receiver time-out register

Byte == 0..255

\* A transmission: its bytes on the line, and what the host has to be told of it,
\* which for a TPDU leaves out the procedure bytes.
TalkAssumption ==
  \A t \in Talks :
    /\ t.kind \in {"ATR", "PPS_REQ", "PPS_RSP", "TPDU"}
    /\ t.bytes \in Seq(Byte) /\ t.bytes # <<>>
    /\ t.kind = "PPS_RSP" => Len(t.bytes) >= 3
    /\ t.report \in Seq(Byte)
    /\ t.flags \subseteq {"CHECKSUM"}

ASSUME SnifferAssumption ==
  /\ TalkAssumption
  /\ SniffBufLen \in Nat \ {0}
  /\ RtorMax \in Nat \ {0}

VARIABLES
  rst,      \* level of the reset line
  talk,     \* transmission on the line, or Silence
  pos,      \* how many of its bytes were sent
  rate,     \* F/D ratio reader and card use
  rb,       \* sniff_buffer
  flags,    \* change_flags
  rem,      \* wt_remaining
  rtor,     \* US_RTOR
  running,  \* whether the receiver time-out counts
  sn,       \* memory of the main loop
  pc,       \* next read of the main loop: "data", "assert", "deassert", "send", "clear"
  out,      \* messages the last step of the main loop sent
  due,      \* history: the transmissions begun and not yet reported, oldest first
  torn      \* history: the signals on the lines came faster than the main loop

line == <<rst, talk, pos, rate>>
isr == <<rem, rtor>>
vars == <<rst, talk, pos, rate, rb, flags, rem, rtor, running, sn, pc, out, due, torn>>

Silence == [kind |-> "none", bytes |-> <<>>, report |-> <<>>, flags |-> {}]

IsoStates == {"RESET", "WAIT_ATR", "IN_ATR", "WAIT_TPDU", "IN_TPDU",
              "IN_PPS_REQ", "WAIT_PPS_RSP", "IN_PPS_RSP"}
AtrStates == {"TS", "T0", "TA", "TB", "TC", "TD", "HIST", "TCK"}
PpsStates == <<"PPSS", "PPS0", "PPS1", "PPS2", "PPS3", "PCK", "END">>
TpduStates == {"CLA", "INS", "P1", "P2", "P3", "PROCEDURE",
               "DATA_REMAINING", "DATA_SINGLE", "SW2"}
\* where a transmission has begun and its report is not sent
InTalk == {"IN_ATR", "IN_TPDU", "IN_PPS_REQ", "IN_PPS_RSP"}

MAX_ATR_SIZE == 33
MAX_TPDU_SIZE == 5 + 256 + 2

-----------------------------------------------------------------------------
(* Bytes, and the F/D ratio of iso7816_fidi.c.                              *)

Bit(b, k) == (b \div 2^k) % 2 = 1
High(b) == b \div 16
Low(b) == b % 16

\* convention_convert_lut: the bits in reverse order, and inverted
Invert(b) ==
  LET bit(k, weight) == IF Bit(b, k) THEN 0 ELSE weight
  IN  bit(0, 128) + bit(1, 64) + bit(2, 32) + bit(3, 16) + bit(4, 8) + bit(5, 4) + bit(6, 2) + bit(7, 1)

\* the exclusive or of the bytes is zero
ChecksumOk(bytes) ==
  \A k \in 0..7 : Cardinality({i \in DOMAIN bytes : Bit(bytes[i], k)}) % 2 = 0

fi_table == <<372, 372, 558, 744, 1116, 1488, 1860, 0,
              0, 512, 768, 1024, 1536, 2048, 0, 0>>
di_table == <<0, 1, 2, 4, 8, 16, 32, 64, 12, 20, 2, 4, 8, 16, 32, 64>>

\* iso7816_3_compute_fd_ratio; 0 stands for the error
FdRatio(fidi) ==
  LET f == fi_table[High(fidi) + 1]
      d == di_table[Low(fidi) + 1]
  IN  IF f = 0 \/ d = 0 THEN 0
      ELSE IF Low(fidi) < 10 THEN f \div d ELSE f * d

DefaultFidi == 17  \* 0x11
US_FIDI_MAX == 2047

-----------------------------------------------------------------------------
(* Messages to the host.                                                    *)

Message(type, bytes, f) == [type |-> type, bytes |-> bytes, flags |-> f]

Sends(s, m) == [s EXCEPT !.out = Append(@, m)]

usb_send_atr(s, f) ==
  IF s.iso = "IN_ATR" THEN Sends(s, Message("ATR", s.data, f)) ELSE s

PpsAfter(sub, k) == \E j \in k + 1..7 : PpsStates[j] = sub

\* the fields of the PPS received so far; the array has a place for each field,
\* also for the optional ones that are absent
PpsFields(s) ==
  LET has(k) == /\ PpsAfter(s.sub, k)
                /\ k \in 3..5 => Bit(s.pps[2], k + 1)
  IN  SelectSeq(<<1, 2, 3, 4, 5, 6>>, has)

usb_send_pps(s, f) ==
  IF s.iso \in {"IN_PPS_REQ", "IN_PPS_RSP"}
  THEN Sends(s, Message("PPS", [n \in DOMAIN PpsFields(s) |-> s.pps[PpsFields(s)[n]]], f))
  ELSE s

usb_send_fidi(s, fidi) == Sends(s, Message("FIDI", <<fidi>>, {}))

usb_send_tpdu(s, f) ==
  IF s.iso = "IN_TPDU" THEN Sends(s, Message("TPDU", s.data, f)) ELSE s

-----------------------------------------------------------------------------
(* States, baud rate and waiting time.                                      *)

g_wt(s) == s.wi * s.d

update_wt(s, wi, d) ==
  [s EXCEPT !.wi = IF wi # 0 THEN wi ELSE @, !.d = IF d # 0 THEN d ELSE @]

\* a ratio the USART cannot use changes nothing; otherwise the receiver time-out
\* waits for the next character
update_fidi(s, fidi) ==
  IF FdRatio(fidi) \in 1..US_FIDI_MAX
  THEN [s EXCEPT !.fidi = FdRatio(fidi), !.stop = TRUE]
  ELSE s

\* seeded fault: the reset does not put the USART back to the default rate
KeepLink(s) == update_wt(s, 10, 1)

DefaultLink(s) == update_wt(update_fidi(s, DefaultFidi), 10, 1)

\* Between two transmissions none of this is read before it is written again; the
\* code clears only a part of it.
Fresh(s) ==
  [s EXCEPT !.data = <<>>, !.pps = [k \in 1..6 |-> 0], !.sub = "CLA",
            !.y = 0, !.hist = 0, !.i = 0, !.tsup = {}, !.err = {}]

change_state(s, new) ==
  IF new = s.iso THEN s
  ELSE LET t == CASE new = "RESET" -> DefaultLink(Fresh(s))
                  [] new = "WAIT_ATR" -> [Fresh(s) EXCEPT !.drop = TRUE]
                  [] new = "IN_ATR" -> [Fresh(s) EXCEPT !.sub = "TS", !.conv = FALSE]
                  [] new \in {"IN_PPS_REQ", "IN_PPS_RSP"} -> [Fresh(s) EXCEPT !.sub = "PPSS"]
                  [] new \in {"WAIT_TPDU", "WAIT_PPS_RSP"} -> Fresh(s)
                  [] new = "IN_TPDU" -> s
       IN  [t EXCEPT !.iso = new]

-----------------------------------------------------------------------------
(* The answer to reset.                                                     *)

AtrSent(s) == change_state(usb_send_atr(s, s.err), "WAIT_TPDU")

\* after the last interface byte, and after each historical byte but not the last
AfterHistory(s) ==
  IF s.hist > 0 THEN [s EXCEPT !.sub = "HIST"]
  ELSE IF s.tsup \ {0} # {} THEN [s EXCEPT !.sub = "TCK"]
  ELSE AtrSent(s)

InterfaceBytes == <<"TA", "TB", "TC", "TD">>

\* the next interface byte y announces after the first k of them
NextInterface(s, k) ==
  LET rest == {j \in k + 1..4 : Bit(s.y, j + 3)}
  IN  IF rest = {} THEN AfterHistory(s)
      ELSE [s EXCEPT !.sub = InterfaceBytes[CHOOSE j \in rest : \A l \in rest : j <= l]]

ReceiveTS(s, b) ==
  IF b \in {35, 48, 59, 63}  \* 0x23, 0x30, 0x3b, 0x3f
  THEN [s EXCEPT !.err = {}, !.i = 0, !.sub = "T0",
                 !.conv = IF b \in {35, 48} THEN ~@ ELSE @]
  ELSE [change_state(usb_send_atr(s, {"MALFORMED"}), "WAIT_ATR")
          EXCEPT !.err = {}]

\* T0, or TDi
ReceiveFormat(s, b) ==
  NextInterface([s EXCEPT !.y = b - Low(b), !.i = (@ + 1) % 256,
                          !.hist = IF s.sub = "T0" THEN Low(b) ELSE @,
                          !.tsup = IF s.sub = "TD" THEN @ \cup {Low(b)} ELSE @], 0)

\* TC2 holds the waiting integer
ReceiveTC(s, b) ==
  NextInterface(IF s.i = 2 THEN update_wt(s, IF b = 0 THEN 10 ELSE b, 0) ELSE s, 3)

ReceiveHist(s, b) ==
  AfterHistory([s EXCEPT !.hist = IF @ > 0 THEN @ - 1 ELSE 0])

ReceiveTCK(s, b) ==
  AtrSent([s EXCEPT !.err = IF ChecksumOk(Tail(s.data)) THEN @ ELSE @ \cup {"CHECKSUM"}])

process_byte_atr(s0, b) ==
  LET s == [s0 EXCEPT !.data = Append(@, b)]
  IN  IF Len(s0.data) >= MAX_ATR_SIZE THEN s0
      ELSE CASE s.sub = "TS" -> ReceiveTS(s, b)
             [] s.sub \in {"T0", "TD"} -> ReceiveFormat(s, b)
             [] s.sub = "TA" -> NextInterface(s, 1)
             [] s.sub = "TB" -> NextInterface(s, 2)
             [] s.sub = "TC" -> ReceiveTC(s, b)
             [] s.sub = "HIST" -> ReceiveHist(s, b)
             [] s.sub = "TCK" -> ReceiveTCK(s, b)

-----------------------------------------------------------------------------
(* Protocol and parameter selection.                                        *)

ReceivePPSS(s, b) ==
  IF b = 255
  THEN [s EXCEPT !.err = {}, !.pps[1] = b, !.sub = "PPS0"]
  ELSE [change_state(usb_send_pps(s, {"MALFORMED"}), "WAIT_TPDU") EXCEPT !.err = {}]

\* stores a field, and falls through the places of the absent fields, which all
\* get the same byte
ReceivePpsField(s, b, k) ==
  LET mask == IF k = 2 THEN b ELSE s.pps[2]
      next == CHOOSE j \in k + 1..6 :
                /\ j = 6 \/ Bit(mask, j + 1)
                /\ \A l \in k + 1..j - 1 : ~Bit(mask, l + 1)
  IN  [s EXCEPT !.pps = [j \in 1..6 |-> IF j \in k..next - 1 THEN b ELSE @[j]],
                !.sub = PpsStates[next]]

\* the link after the response: fn = dn = 1 when it has no PPS1
PpsAgreed(s) ==
  LET dn == IF Bit(s.pps[2], 4) THEN Low(s.pps[3]) ELSE 1
  IN  usb_send_fidi(update_wt(update_fidi(s, s.pps[3]), 0, di_table[dn + 1]), s.pps[3])

ReceivePCK(s0, b) ==
  LET stored == [s0 EXCEPT !.pps[6] = b, !.sub = "END"]
      fields == [n \in DOMAIN PpsFields(stored) |-> stored.pps[PpsFields(stored)[n]]]
      good == ChecksumOk(fields)
      s1 == [stored EXCEPT !.err = IF good THEN @ ELSE @ \cup {"CHECKSUM"}]
      s == usb_send_pps(s1, s1.err)
  IN  IF ~good THEN change_state(s, "WAIT_TPDU")
      ELSE IF s.iso = "IN_PPS_REQ" THEN change_state(s, "WAIT_PPS_RSP")
      ELSE change_state(PpsAgreed(s), "WAIT_TPDU")

process_byte_pps(s, b) ==
  CASE s.sub = "PPSS" -> ReceivePPSS(s, b)
    [] s.sub = "PPS0" -> ReceivePpsField(s, b, 2)
    [] s.sub = "PPS1" -> ReceivePpsField(s, b, 3)
    [] s.sub = "PPS2" -> ReceivePpsField(s, b, 4)
    [] s.sub = "PPS3" -> ReceivePpsField(s, b, 5)
    [] s.sub = "PCK" -> ReceivePCK(s, b)
    [] OTHER -> s

-----------------------------------------------------------------------------
(* TPDUs.                                                                   *)

Header == <<"CLA", "INS", "P1", "P2", "P3", "PROCEDURE">>

Malformed(s) == change_state(usb_send_tpdu(s, {"MALFORMED"}), "WAIT_TPDU")

\* 0x6X or 0x9X
IsSW1(b) == High(b) \in {6, 9}

Store(s, b, sub) == [s EXCEPT !.data = Append(@, b), !.sub = sub]

ReceiveHeader(s, b) ==
  LET k == CHOOSE j \in 1..5 : Header[j] = s.sub
  IN  IF (k = 1 /\ b = 255) \/ (k = 2 /\ IsSW1(b)) THEN Malformed(s)
      ELSE Store([s EXCEPT !.data = SubSeq(@, 1, k - 1)], b, Header[k + 1])

ReceiveProcedure(s, b) ==
  IF b = 96 THEN s  \* 0x60
  ELSE IF b = s.data[2] THEN [s EXCEPT !.sub = "DATA_REMAINING"]
  ELSE IF b = 255 - s.data[2] THEN [s EXCEPT !.sub = "DATA_SINGLE"]
  ELSE IF IsSW1(b) THEN Store(s, b, "SW2")
  ELSE Malformed(s)

DataLen(s) == IF s.data[5] = 0 THEN 256 ELSE s.data[5]

ReceiveData(s, b) ==
  Store(s, b, IF Len(s.data) + 1 >= 5 + DataLen(s) \/ s.sub = "DATA_SINGLE"
              THEN "PROCEDURE" ELSE s.sub)

ReceiveSW2(s, b) ==
  change_state(usb_send_tpdu(Store(s, b, s.sub), {}), "WAIT_TPDU")

process_byte_tpdu(s, b) ==
  IF s.iso # "IN_TPDU" \/ Len(s.data) >= MAX_TPDU_SIZE THEN s
  ELSE CASE s.sub \in {"CLA", "INS", "P1", "P2", "P3"} -> ReceiveHeader(s, b)
         [] s.sub = "PROCEDURE" -> ReceiveProcedure(s, b)
         [] s.sub \in {"DATA_REMAINING", "DATA_SINGLE"} -> ReceiveData(s, b)
         [] s.sub = "SW2" -> ReceiveSW2(s, b)

-----------------------------------------------------------------------------
(* What Sniffer_run does with one entry of the buffer.                      *)

HandleByte(s, raw) ==
  LET b == IF s.conv THEN Invert(raw) ELSE raw
  IN  CASE s.iso = "RESET" -> s
        [] s.iso \in {"WAIT_ATR", "IN_ATR"} -> process_byte_atr(change_state(s, "IN_ATR"), b)
        [] s.iso = "WAIT_TPDU" ->
             IF b = 255 THEN process_byte_pps(change_state(s, "IN_PPS_REQ"), b)
             ELSE process_byte_tpdu(change_state(s, "IN_TPDU"), b)
        [] s.iso = "WAIT_PPS_RSP" ->
             IF b = 255 THEN process_byte_pps(change_state(s, "IN_PPS_RSP"), b)
             ELSE process_byte_tpdu(s, b)
        [] s.iso = "IN_TPDU" -> process_byte_tpdu(s, b)
        [] s.iso \in {"IN_PPS_REQ", "IN_PPS_RSP"} -> process_byte_pps(s, b)

\* the report of a transmission that was broken off
SendIncomplete(s) ==
  CASE s.iso = "IN_ATR" -> usb_send_atr(s, {"INCOMPLETE"})
    [] s.iso = "IN_TPDU" -> usb_send_tpdu(s, {"INCOMPLETE"})
    [] s.iso \in {"IN_PPS_REQ", "IN_PPS_RSP"} -> usb_send_pps(s, {"INCOMPLETE"})
    [] OTHER -> s

\* seeded fault: the PPS is forgotten
HandleTimeoutNoPps(s) ==
  CASE s.iso = "IN_ATR" -> change_state(SendIncomplete(s), "WAIT_ATR")
    [] s.iso = "IN_TPDU" -> change_state(SendIncomplete(s), "WAIT_TPDU")
    [] OTHER -> s

\* seeded fault: what was reported as broken off is still going on
HandleTimeoutStays(s) == SendIncomplete(s)

HandleTimeout(s) ==
  CASE s.iso = "IN_ATR" -> change_state(SendIncomplete(s), "WAIT_ATR")
    [] s.iso \in {"IN_TPDU", "IN_PPS_REQ", "IN_PPS_RSP"} ->
         change_state(SendIncomplete(s), "WAIT_TPDU")
    [] OTHER -> s

HandleEntry(s, e) ==
  LET t == IF e.data THEN HandleByte(s, e.byte) ELSE s
  IN  IF e.timeout THEN HandleTimeout(t) ELSE t

\* what a step leaves in the memory
Settled(s) == [s EXCEPT !.drop = FALSE, !.stop = FALSE, !.out = <<>>]

-----------------------------------------------------------------------------
(* What the sniffer makes of a transmission when nothing disturbs it.       *)

Link(s) == [wi |-> s.wi, d |-> s.d, fidi |-> s.fidi]
Default == [wi |-> 10, d |-> 1, fidi |-> FdRatio(DefaultFidi)]

\* the memory between two transmissions
Between(iso, link) ==
  [iso |-> iso, sub |-> "CLA", data |-> <<>>, pps |-> [k \in 1..6 |-> 0],
   y |-> 0, hist |-> 0, i |-> 0, tsup |-> {}, err |-> {}, conv |-> FALSE,
   wi |-> link.wi, d |-> link.d, fidi |-> link.fidi,
   drop |-> FALSE, stop |-> FALSE, out |-> <<>>]

\* ... after each byte of a transmission
Heard(s, bytes) ==
  LET after[n \in 0..Len(bytes)] ==
        IF n = 0 THEN s ELSE Settled(HandleByte(after[n - 1], bytes[n]))
  IN  after

Before(t) == CASE t.kind = "ATR" -> "WAIT_ATR"
               [] t.kind = "PPS_RSP" -> "WAIT_PPS_RSP"
               [] OTHER -> "WAIT_TPDU"
During(t) == CASE t.kind = "ATR" -> "IN_ATR"
               [] t.kind = "PPS_REQ" -> "IN_PPS_REQ"
               [] t.kind = "PPS_RSP" -> "IN_PPS_RSP"
               [] t.kind = "TPDU" -> "IN_TPDU"
After(t) == IF t.kind = "PPS_REQ" /\ t.flags = {} THEN "WAIT_PPS_RSP" ELSE "WAIT_TPDU"
Type(t) == IF t.kind \in {"PPS_REQ", "PPS_RSP"} THEN "PPS" ELSE t.kind

\* the rate after a PPS response, which is the default if it has no PPS1
NegotiatedRate(t) == IF Bit(t.bytes[2], 4) THEN FdRatio(t.bytes[3]) ELSE FdRatio(DefaultFidi)

RateAfter(t, old) == IF t.kind = "PPS_RSP" /\ t.flags = {} THEN NegotiatedRate(t) ELSE old

IsReport(m) == m.type \in {"ATR", "PPS", "TPDU"}

\* Broken off after its n-th byte, t is reported as far as it was heard;
UnderstoodUpTo(t, link, n) ==
  LET h == Heard(Between(Before(t), link), t.bytes)
      m == HandleByte(h[n - 1], t.bytes[n])
  IN  /\ m.out = <<>> /\ ~m.drop /\ ~m.stop
      /\ h[n].iso = During(t) /\ ~h[n].conv
      /\ t.kind = "TPDU" => Link(h[n]) = link
      /\ \E k \in 0..Len(t.report) :
           SendIncomplete(h[n]).out = <<Message(Type(t), SubSeq(t.report, 1, k), {"INCOMPLETE"})>>

\* and whole with its last.
Understood(t, link) ==
  LET h == Heard(Between(Before(t), link), t.bytes)
      last == Len(t.bytes)
      m == HandleByte(h[last - 1], t.bytes[last])
  IN  /\ \A n \in 1..last - 1 : UnderstoodUpTo(t, link, n)
      /\ 1 \in DOMAIN m.out /\ m.out[1] = Message(Type(t), t.report, t.flags)
      /\ \A k \in DOMAIN m.out : k # 1 => ~IsReport(m.out[k])
      /\ ~m.drop /\ (m.stop => t.kind = "PPS_RSP")
      /\ h[last] = Between(After(t), Link(h[last]))
      /\ h[last].fidi = RateAfter(t, link.fidi)
      /\ t.kind \in {"PPS_REQ", "TPDU"} => Link(h[last]) = link

LinkAfter(t, link) == Link(Heard(Between(Before(t), link), t.bytes)[Len(t.bytes)])
AfterAtr == {LinkAfter(t, Default) : t \in {u \in Talks : u.kind = "ATR"}}
AfterPps == UNION {{LinkAfter(t, link) : t \in {u \in Talks : u.kind = "PPS_RSP"}} : link \in AfterAtr}

\* the settings in which t can be sent
Links(t) == CASE t.kind = "ATR" -> {Default}
              [] t.kind \in {"PPS_REQ", "PPS_RSP"} -> AfterAtr
              [] t.kind = "TPDU" -> AfterAtr \cup AfterPps

\* Reader and card say nothing that the sniffer would not report right if it heard
\* it by itself.
ASSUME UnderstoodAssumption == \A t \in Talks : \A link \in Links(t) : Understood(t, link)

-----------------------------------------------------------------------------
(* The main loop, Sniffer_run.                                              *)

\* The step of the main loop that ends with memory m; rest is what it leaves in
\* the buffer.
Runs(m, rest) ==
  /\ sn' = Settled(m)
  /\ out' = m.out
  /\ rb' = IF m.drop THEN <<>> ELSE rest
  /\ running' = (running /\ ~m.stop)

Reported ==
  due' = IF (\E k \in DOMAIN out' : IsReport(out'[k])) /\ due # <<>> THEN Tail(due) ELSE due

Signals == {"RESET_ASSERT", "RESET_DEASSERT"}

\* one entry of the buffer on each pass
ReadEntry ==
  /\ pc = "data"
  /\ IF rb = <<>> THEN Runs(sn, <<>>) ELSE Runs(HandleEntry(sn, Head(rb)), Tail(rb))
  /\ Reported
  /\ pc' = "assert"
  /\ UNCHANGED <<line, isr, flags, torn>>

NoFlags ==
  /\ pc = "assert" /\ flags = {}
  /\ Runs(sn, rb)
  /\ pc' = "data"
  /\ UNCHANGED <<line, isr, flags, due, torn>>

\* seeded fault: what was heard of the transmission is dropped at the reset
HandleAssertSilently ==
  /\ pc = "assert" /\ flags # {}
  /\ Runs(IF "RESET_ASSERT" \in flags THEN change_state(sn, "RESET") ELSE sn, rb)
  /\ Reported
  /\ pc' = "deassert"
  /\ UNCHANGED <<line, isr, flags, torn>>

HandleAssert ==
  /\ pc = "assert" /\ flags # {}
  /\ Runs(IF "RESET_ASSERT" \in flags THEN change_state(SendIncomplete(sn), "RESET") ELSE sn, rb)
  /\ Reported
  /\ pc' = "deassert"
  /\ UNCHANGED <<line, isr, flags, torn>>

HoldsData(b) == \E k \in DOMAIN b : b[k].data

\* The sniffer is in step again when it has gone through the reset and waits for
\* an ATR of which it missed nothing; but not while it has the inverse convention of
\* the last session, which it will apply to the first byte of the ATR.
HandleDeassert ==
  /\ pc = "deassert"
  /\ Runs(IF "RESET_DEASSERT" \in flags THEN change_state(sn, "WAIT_ATR") ELSE sn, rb)
  /\ torn' = (torn /\ ~(/\ sn.iso = "RESET" /\ sn'.iso = "WAIT_ATR"
                       /\ rst = "high" /\ talk = Silence /\ ~sn.conv))
  /\ pc' = "send"
  /\ UNCHANGED <<line, isr, flags, due>>

SendFlags ==
  /\ pc = "send"
  /\ Runs(Sends(sn, Message("CHANGE", <<>>, flags)), rb)
  /\ pc' = "clear"
  /\ UNCHANGED <<line, isr, flags, due, torn>>

\* whatever an interrupt has added since goes with the others
ClearFlags ==
  /\ pc = "clear"
  /\ Runs(sn, rb)
  /\ flags' = {}
  /\ pc' = "data"
  /\ UNCHANGED <<line, isr, due, torn>>

MainLoop == ReadEntry \/ NoFlags \/ HandleAssert \/ HandleDeassert \/ SendFlags \/ ClearFlags

\* Sniffer_exit, when the host selects another configuration; the memory stays
Exit ==
  /\ pc = "data"
  /\ pc' = "off" /\ running' = FALSE /\ out' = <<>>
  /\ torn' = TRUE /\ due' = <<>>
  /\ UNCHANGED <<line, isr, rb, flags, sn>>

\* Sniffer_init; the level of the reset line is not looked at
Start ==
  /\ pc = "off"
  /\ pc' = "data" /\ running' = TRUE /\ out' = <<>>
  /\ rb' = <<>>
  /\ rtor' = g_wt(sn)
  /\ sn' = [change_state([sn EXCEPT !.fidi = FdRatio(DefaultFidi)], "RESET") EXCEPT !.stop = FALSE]
  /\ UNCHANGED <<line, rem, flags, due, torn>>

-----------------------------------------------------------------------------
(* The interrupt of the USART, Sniffer_usart_isr.  Overrun, framing and     *)
(* parity errors are only logged.                                           *)

\* seeded fault: the buffer is never taken for full
HasRoomAlways == Len(rb) >= 0

HasRoom == Len(rb) < SniffBufLen

Entry(byte, data, timeout) == [byte |-> byte, data |-> data, timeout |-> timeout]

\* rbuf16_write; a full buffer takes nothing
Writes(e) == rb' = IF HasRoom THEN Append(rb, e) ELSE rb

\* what the time-out does, with left still to wait
CountDown(left) ==
  LET over == left <= rtor
      next == IF over THEN g_wt(sn) ELSE left - rtor
  IN  /\ rem' = next
      /\ rtor' = IF next > RtorMax THEN RtorMax ELSE next
      /\ flags' = IF over THEN flags \cup {"TIMEOUT_WT"} ELSE flags
      /\ running' = ("TIMEOUT_WT" \notin flags')

Complete == talk # Silence /\ pos = Len(talk.bytes)

\* The main loop was not ready for a byte: it has not handled the reset, has not
\* set the new rate, even if it is the old one (update_fidi will stop the time-out
\* that the byte has started), or has left no room.
MissesByte ==
  \/ ~HasRoom \/ flags \cap Signals # {}
  \/ sn.fidi # rate \/ (Complete /\ talk.kind = "PPS_RSP" /\ due # <<>>)

Tears(cond) == torn' = (torn \/ cond)

\* byte p of t is on the line, and with it the byte is in the receiver
Speaks(t, p) ==
  /\ talk' = t /\ pos' = p
  /\ rate' = IF p = Len(t.bytes) THEN RateAfter(t, rate) ELSE rate
  /\ UNCHANGED rst

Hears(t, p) ==
  \* a time-out that is pending in the same status word is handled after the byte
  \/ /\ rem' = g_wt(sn) /\ running' = TRUE
     /\ Writes(Entry(t.bytes[p], TRUE, FALSE))
     /\ Tears(MissesByte)
     /\ UNCHANGED <<rtor, flags>>
  \/ /\ running
     /\ CountDown(g_wt(sn))
     /\ Writes(Entry(t.bytes[p], TRUE, g_wt(sn) <= rtor))
     /\ Tears(TRUE)

Listening == rst = "high" /\ pc # "off"

\* Bound: after a missed signal the line is silent until the next reset.

\* the transmission goes on: the waiting time is not over
NextByte ==
  /\ Listening /\ ~torn /\ running /\ pos < Len(talk.bytes)
  /\ Speaks(talk, pos + 1) /\ Hears(talk, pos + 1)
  /\ due' = IF torn' THEN <<>> ELSE due
  /\ out' = <<>>
  /\ UNCHANGED <<sn, pc>>

\* what the standard lets follow; a TPDU can be given up when the waiting time is
\* over
MayFollow(t) ==
  \/ talk = Silence /\ t.kind = "ATR"
  \/ Complete /\ talk.kind = "ATR" /\ t.kind \in {"PPS_REQ", "TPDU"}
  \/ Complete /\ talk.kind = "PPS_REQ" /\ talk.flags = {} /\ t.kind = "PPS_RSP"
  \/ Complete /\ talk.kind = "PPS_RSP" /\ talk.flags = {} /\ t.kind = "TPDU"
  \/ (Complete \/ ~running) /\ talk.kind = "TPDU" /\ t.kind = "TPDU"

FirstByte ==
  /\ Listening /\ ~torn
  /\ \E t \in Talks :
       /\ MayFollow(t)
       /\ Speaks(t, 1) /\ Hears(t, 1)
       /\ due' = IF torn' THEN <<>> ELSE Append(due, t)
  /\ out' = <<>>
  /\ UNCHANGED <<sn, pc>>

\* the receiver time-out without a byte
Timeout ==
  /\ running
  /\ CountDown(rem)
  /\ IF rem <= rtor THEN Writes(Entry(0, FALSE, TRUE)) ELSE UNCHANGED rb
  /\ Tears(IF rem <= rtor THEN ~HasRoom ELSE ~running')
  /\ due' = IF torn' THEN <<>> ELSE due
  /\ out' = <<>>
  /\ UNCHANGED <<line, sn, pc>>

-----------------------------------------------------------------------------
(* The reset line and its interrupt, Sniffer_reset_isr, while it is on.     *)

Flagged(f) == flags' = IF pc = "off" THEN flags ELSE flags \cup {f}

\* Missed: bytes wait that the main loop will read after the reset, it handles a
\* release first that came before, or it is past the check.
AssertReset ==
  /\ rst = "high" /\ rst' = "low"
  /\ talk' = Silence /\ pos' = 0 /\ rate' = FdRatio(DefaultFidi)
  /\ Flagged("RESET_ASSERT")
  /\ Tears(\/ HoldsData(rb)
           \/ "RESET_DEASSERT" \in flags
           \/ pc \in {"deassert", "send", "clear"})
  /\ due' = IF torn' THEN <<>> ELSE due
  /\ out' = <<>>
  /\ UNCHANGED <<isr, rb, running, sn, pc>>

DeassertReset ==
  /\ rst = "low" /\ rst' = "high"
  /\ Flagged("RESET_DEASSERT")
  /\ Tears(pc \in {"send", "clear"})
  /\ due' = IF torn' THEN <<>> ELSE due
  /\ out' = <<>>
  /\ UNCHANGED <<talk, pos, rate, isr, rb, running, sn, pc>>

-----------------------------------------------------------------------------
Init ==
  /\ rst = "low" /\ talk = Silence /\ pos = 0 /\ rate = FdRatio(DefaultFidi)
  /\ rb = <<>> /\ flags = {}
  /\ rem = 10 /\ rtor = 10 /\ running = TRUE
  /\ sn = Between("RESET", Default)
  /\ pc = "data" /\ out = <<>>
  /\ due = <<>> /\ torn = FALSE

Next == \/ MainLoop \/ Exit \/ Start
        \/ FirstByte \/ NextByte \/ Timeout
        \/ AssertReset \/ DeassertReset

Spec == Init /\ [][Next]_vars

\* a step of MainLoop: no other action leads from one of its points to another
Advance == pc # "off" /\ pc' \in {"data", "assert", "deassert", "send", "clear"} \ {pc}

\* The main loop never waits for anything, and a running time-out expires.
FairSpec == Spec /\ WF_pc(Advance) /\ WF_vars(Timeout)

-----------------------------------------------------------------------------
TypeOK ==
  /\ rst \in {"low", "high"}
  /\ talk \in Talks \cup {Silence} /\ pos \in 0..Len(talk.bytes)
  /\ rate \in Nat
  /\ Len(rb) <= SniffBufLen
  /\ flags \subseteq Signals \cup {"TIMEOUT_WT"}
  /\ rem \in Nat /\ rtor \in Nat /\ running \in BOOLEAN
  /\ sn.iso \in IsoStates
  /\ sn.iso = "IN_ATR" => sn.sub \in AtrStates /\ Len(sn.data) <= MAX_ATR_SIZE
  /\ sn.iso \in {"IN_PPS_REQ", "IN_PPS_RSP"} => \E k \in 1..7 : sn.sub = PpsStates[k]
  /\ sn.iso = "IN_TPDU" => sn.sub \in TpduStates /\ Len(sn.data) <= MAX_TPDU_SIZE
  /\ pc \in {"data", "assert", "deassert", "send", "clear", "off"}

\* As long as the main loop keeps up, what it reports is what was on the line:
\* every transmission once, in order, whole and with the flags it deserves, or as
\* far as it was heard if it was broken off.
ReportsTheLine ==
  [][~torn => \A k \in DOMAIN out' : IsReport(out'[k]) =>
       /\ due # <<>>
       /\ out'[k].type = Type(Head(due))
       /\ IF out'[k].flags = {"INCOMPLETE"}
          THEN /\ Len(out'[k].bytes) <= Len(Head(due).report)
               /\ out'[k].bytes = SubSeq(Head(due).report, 1, Len(out'[k].bytes))
               /\ ~Complete \/ Len(due) > 1
          ELSE out'[k].bytes = Head(due).report /\ out'[k].flags = Head(due).flags]_vars

\* ... and nothing is kept back: once the buffer is empty a complete transmission
\* has been reported, and when the sniffer has seen the reset, so has a broken one.
NothingOwed ==
  ~torn => /\ Complete /\ rb = <<>> => due = <<>>
           /\ sn.iso \in {"RESET", "WAIT_ATR"} /\ rb = <<>> => due = <<>>

\* When the flags are handled the sniffer knows the level of the reset line, and
\* its receiver runs at the rate reader and card have agreed on.
InStep ==
  ~torn /\ pc = "data" /\ flags = {} =>
    /\ rst = "low" <=> sn.iso = "RESET"
    /\ (talk = Silence \/ Complete) /\ rb = <<>> => sn.fidi = rate

\* A transmission that stops is reported: the waiting time gets the sniffer out of
\* it, whatever the main loop and the flags are doing.
TalkEnds == (sn.iso \in InTalk) ~> (sn.iso \notin InTalk \/ torn)
=============================================================================
