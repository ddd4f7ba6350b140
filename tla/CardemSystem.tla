----------------------------- MODULE CardemSystem -----------------------------
(***************************************************************************)
(* The whole path of a command: the reader (a phone), the card emulation   *)
(* of the firmware, the USB endpoints, simtrace2-cardem-pcsc on the host,  *)
(* and the real card in the host's PC/SC reader.                           *)
(*                                                                         *)
(* CardEmu models the firmware byte by byte.  Here it moves in messages: a *)
(* header, a body or an answer crosses the line to the reader in one step, *)
(* a change of VCC or RST is seen by the main loop before the next one     *)
(* (the reader holds a level for longer than a pass of the main loop).     *)
(* What is kept in full is what lies between the two ends: the bounded     *)
(* endpoint queues, the transfer in progress on each endpoint, the         *)
(* transfers the kernel completed while the host program was busy, and the *)
(* host's own state from one message to the next.                          *)
(***************************************************************************)
EXTENDS Integers, Sequences, FiniteSets, SequencesExt

CONSTANTS
  Kinds,       \* the kinds of command the reader sends (see DetermineCase)
  MaxCmds,     \* bound: commands the reader sends
  MaxEvents,   \* bound: changes of VCC and RST, plus StopCost for each time the
               \* host program stops or the pool is found exhausted
  StopCost,    \* see MaxEvents
  UsbMaxQlen   \* USB_MAX_QLEN

ASSUME SystemAssumption ==
  /\ Kinds \subseteq {"none", "out", "in", "both", "gp"}
  /\ MaxCmds \in Nat /\ MaxEvents \in Nat /\ StopCost \in Nat \ {0}
  /\ UsbMaxQlen \in Nat \ {0}

VARIABLES
  rd,      \* the reader: phase, command (id, kind, whether it is a retry after
           \* SW 6Cxx) and whether the last answer was a 6Cxx
  line,    \* ci->vcc_active, ci->rst_active
  fw,      \* the card handle: state, pins, enabled, status feature
  txQ,     \* ch->uart_tx_queue
  ep,      \* queue and transfer in progress of the IN and INT endpoints
  urbs,    \* transfers completed by the host's kernel, in that order
  out,     \* OUT transfers under way, each a sequence of commands
  host,    \* simtrace2-cardem-pcsc: last_status_flags, ac (prev_ac until the next header)
  sim,     \* the real card: the session it was last reset for
  events,  \* what counts towards MaxEvents, so far
  sess,    \* history: session of the reader, ended by a reset or power-off
  torn,    \* history: the session began with the last one's messages under way
  lost     \* history: a step of this session failed (no buffer, no host, no card)

vars == <<rd, line, fw, txQ, ep, urbs, out, host, sim, events, sess, torn, lost>>

Endpoint == {"IN", "INT"}
Flag == {"VCC", "CLK", "RESET"}

NoCmd == [id |-> 0, kind |-> "none", retry |-> FALSE]

\* a message: its kind, the command it belongs to, its status flags
Msg(k, cmd, flags) == [k |-> k, cmd |-> cmd, flags |-> flags]
Plain(k) == Msg(k, NoCmd, {})
NoMsg == Plain("none")
TxKind == {"PB_AND_TX", "PB_AND_RX", "SW", "SW_6C"}
CmdKind == {"CONFIG", "SELECT", "SELECT_LOCAL"}
InKind == {"HDR", "DATA", "CONFIG"}
CmdType == [id : 0..MaxCmds, kind : Kinds \cup {"none"}, retry : BOOLEAN]
MsgType == [k : TxKind \cup CmdKind \cup InKind \cup {"STATUS", "none"},
            cmd : CmdType, flags : SUBSET Flag]

NoAc == [cmd |-> NoCmd, apduCase |-> 0, more |-> FALSE, sw |-> "0000"]

\* what simtrace2-cardem-pcsc requests of the firmware when it starts (main); the
\* commands CARDINSERT, SET_ATR and RESET that follow change nothing modelled here
Startup == << <<Plain("CONFIG")>>, <<Plain("SELECT")>> >>

Init ==
  /\ rd = [phase |-> "off", cmd |-> NoCmd, sw |-> "0000"]
  /\ line = [vcc |-> FALSE, rst |-> FALSE]
  /\ fw = [state |-> "OFF", pins |-> {}, level |-> line, enabled |-> FALSE, irq |-> FALSE]
  /\ txQ = <<>>
  /\ ep = [e \in Endpoint |-> [q |-> <<>>, busy |-> NoMsg]]
  /\ urbs = <<>>
  /\ out = Startup
  /\ host = [up |-> TRUE, flags |-> {}, ac |-> NoAc, busy |-> FALSE]
  /\ sim = 0
  /\ events = 0
  /\ sess = 0 /\ torn = FALSE /\ lost = FALSE

-----------------------------------------------------------------------------
(* Buffers for the host, as in CardEmu.                                     *)

\* seeded fault: a full queue refuses the new message
SubmitOrDrop(q, m) == IF Len(q) >= UsbMaxQlen THEN q ELSE Append(q, m)

\* seeded fault: the queue is not bounded
SubmitUnbounded(q, m) == Append(q, m)

\* usb_buf_submit: a full endpoint queue drops its oldest message
Submit(q, m) == Append(IF Len(q) >= UsbMaxQlen THEN Tail(q) ELSE q, m)

SubmitAll(q, msgs) ==
  LET after[n \in 0..Len(msgs)] == IF n = 0 THEN q ELSE Submit(after[n - 1], msgs[n])
  IN after[Len(msgs)]

\* a failure, which the bound allows only so often
Strike == events + StopCost <= MaxEvents /\ events' = events + StopCost

\* usb_buf_alloc_st, then submit on the IN endpoint: an exhausted pool costs the
\* queue its oldest message, or the new one when there is none
SendIn(m) ==
  LET q == ep["IN"].q IN
  /\ \/ /\ ep' = [ep EXCEPT !["IN"].q = Submit(q, m)]
        /\ UNCHANGED events
     \/ /\ ep' = [ep EXCEPT !["IN"].q = IF q = <<>> THEN q ELSE Submit(Tail(q), m)]
        /\ Strike
  /\ lost' = (lost \/ m \notin ToSet(ep'["IN"].q) \/ ~host.up)

-----------------------------------------------------------------------------
(* card_emu.c                                                               *)

Ready == fw.state \notin {"OFF", "ATR"}

\* seeded fault: the answers queued for the old session are kept
CardHandleResetKeeps == txQ' = txQ

\* card_handle_reset (tx, being part of a message, is part of txQ here)
CardHandleReset == txQ' = <<>>

\* "check end activation state": VCC and CLK present, not in reset
EndActivation(f) ==
  IF f.state = "OFF" /\ f.pins = {"VCC", "CLK"} THEN [f EXCEPT !.state = "ATR"] ELSE f

\* the levels the card sees: a disabled instance is off and not in reset
Level(l, enabled) == [vcc |-> l.vcc /\ enabled, rst |-> l.rst /\ enabled]

\* the sets of pins that card_emu_io_statechg reports, in order, when the levels
\* change: VCC and, following it, CLK; then RST
Reports(f, new) ==
  LET vcc == IF new.vcc = f.level.vcc THEN <<>>
             ELSE IF new.vcc THEN <<f.pins \cup {"VCC"}, f.pins \cup {"VCC", "CLK"}>>
             ELSE <<f.pins \ {"VCC"}, f.pins \ {"VCC", "CLK"}>>
      now == IF vcc = <<>> THEN f.pins ELSE Last(vcc)
      rst == IF new.rst = f.level.rst THEN <<>>
             ELSE IF new.rst THEN <<now \cup {"RESET"}>> ELSE <<now \ {"RESET"}>>
  IN vcc \o rst

\* messages of a TPDU exchange that are still on their way
Underway ==
  \/ host.busy
  \/ \E m \in ToSet(Append(ep["IN"].q, ep["IN"].busy)) \cup {u[2] : u \in ToSet(urbs)} :
       m.k \in {"HDR", "DATA"}
  \/ \E t \in ToSet(out) : \E i \in DOMAIN t : t[i].k \in TxKind

\* process_io_statechg with the levels l and enabled: drop the session if power
\* goes or a reset begins, end the activation, report every change
IoStateChg(l, enabled) ==
  LET new == Level(l, enabled)
      reports == Reports(fw, new)
      ends == (fw.level.vcc /\ ~new.vcc) \/ (~fw.level.rst /\ new.rst)
      pins == IF reports = <<>> THEN fw.pins ELSE Last(reports)
      f == [fw EXCEPT !.pins = pins, !.level = new, !.enabled = enabled,
                      !.state = IF ends THEN "OFF" ELSE @]
      status == [i \in DOMAIN reports |-> Msg("STATUS", NoCmd, reports[i])]
  IN /\ fw' = EndActivation(f)
     /\ ep' = IF fw.irq THEN [ep EXCEPT !["INT"].q = SubmitAll(@, status)] ELSE ep
     /\ IF ends
        THEN /\ CardHandleReset
             /\ rd' = [rd EXCEPT !.phase = "off", !.sw = "0000"]
             /\ sess' = sess + 1 /\ torn' = Underway /\ lost' = FALSE
        ELSE UNCHANGED <<txQ, rd, sess, torn, lost>>

\* the reader switches VCC or RST
LineChange ==
  /\ events < MaxEvents /\ events' = events + 1
  /\ \E w \in {"vcc", "rst"} : line' = [line EXCEPT ![w] = ~@]
  /\ IoStateChg(line', fw.enabled)
  /\ UNCHANGED <<urbs, out, host, sim>>

\* the ATR has been sent: the reader may send a command
AtrSent ==
  /\ fw.state = "ATR"
  /\ fw' = [fw EXCEPT !.state = "WAIT_TPDU"]
  /\ rd' = [rd EXCEPT !.phase = "idle"]
  /\ UNCHANGED <<line, txQ, ep, urbs, out, host, sim, events, sess, torn, lost>>

\* the reader sends a header (after a SW 6Cxx, the same one with the right Le),
\* which the firmware passes on: send_tpdu_header
SendTpduHeader ==
  /\ rd.phase = "idle" /\ fw.state = "WAIT_TPDU" /\ rd.cmd.id < MaxCmds
  /\ \E kind \in Kinds :
       LET retry == rd.sw = "6Cxx" /\ rd.cmd.kind = "gp"
           cmd == [id |-> rd.cmd.id + 1, kind |-> kind, retry |-> retry]
       IN /\ retry => kind = "gp"
          /\ rd' = [rd EXCEPT !.phase = "wait", !.cmd = cmd]
          /\ SendIn(Msg("HDR", cmd, {}))
  /\ fw' = [fw EXCEPT !.state = "WAIT_PB"]
  /\ UNCHANGED <<line, txQ, urbs, out, host, sim, sess, torn>>

HasBody(kind) == kind \in {"out", "both"}

\* the reader sends the body it was asked for (add_tpdu_byte); without a buffer
\* its first byte is lost and the card goes on waiting for the last
AddTpduBody ==
  /\ rd.phase = "body" /\ fw.state = "WAIT_RX"
  /\ SendIn(Msg("DATA", rd.cmd, {}))
  /\ rd' = [rd EXCEPT !.phase = "wait"]
  /\ fw' = [fw EXCEPT !.state = IF ep' = ep THEN @ ELSE "WAIT_TX"]
  /\ UNCHANGED <<line, txQ, urbs, out, host, sim, sess, torn>>

\* tx_byte_tpdu, for all bytes of the message at the head of the queue: a
\* procedure byte with data, one that asks for the body, or the status word
TxTpdu ==
  /\ fw.state \in {"WAIT_PB", "WAIT_TX"} /\ txQ # <<>>
  /\ txQ' = Tail(txQ)
  /\ LET m == Head(txQ)
     IN CASE m.k = "PB_AND_TX" ->
               fw' = [fw EXCEPT !.state = "WAIT_TX"] /\ rd' = rd
          [] m.k = "PB_AND_RX" ->
               /\ fw' = [fw EXCEPT !.state = "WAIT_RX"]
               /\ rd' = IF HasBody(rd.cmd.kind) THEN [rd EXCEPT !.phase = "body"] ELSE rd
          [] m.k \in {"SW", "SW_6C"} ->
               /\ fw' = [fw EXCEPT !.state = "WAIT_TPDU"]
               /\ rd' = [rd EXCEPT !.phase = "idle",
                                   !.sw = IF m.k = "SW_6C" THEN "6Cxx" ELSE "9000"]
  /\ UNCHANGED <<line, ep, urbs, out, host, sim, events, sess, torn, lost>>

-----------------------------------------------------------------------------
(* USB: usb_refill_to_host arms an endpoint with its oldest message, the    *)
(* host's controller completes it when a transfer of the host program is    *)
(* pending (four on IN, one on INT); the kernel hands completed transfers   *)
(* to the program in the order of their completion.                         *)

UsbRefillToHost(e) ==
  /\ ep[e].busy = NoMsg /\ ep[e].q # <<>>
  /\ ep' = [ep EXCEPT ![e] = [q |-> Tail(@.q), busy |-> Head(@.q)]]
  /\ UNCHANGED <<rd, line, fw, txQ, urbs, out, host, sim, events, sess, torn, lost>>

InTransfers == 4

Completed(e) == Cardinality({i \in DOMAIN urbs : urbs[i][1] = e})
Pending(e) == IF e = "IN" THEN Completed(e) + (IF host.busy THEN 1 ELSE 0) < InTransfers
              ELSE Completed(e) < 1

UsbComplete(e) ==
  /\ host.up /\ ep[e].busy # NoMsg /\ Pending(e)
  /\ urbs' = Append(urbs, <<e, ep[e].busy>>)
  /\ ep' = [ep EXCEPT ![e].busy = NoMsg]
  /\ UNCHANGED <<rd, line, fw, txQ, out, host, sim, events, sess, torn, lost>>

-----------------------------------------------------------------------------
(* simtrace2-cardem-pcsc.c, apdu_dispatch.c and simtrace2_api.c             *)

\* update_status_flags: the reset of the real card that a change of the flags
\* calls for
ResetFor(old, flags) ==
  CASE flags = {"VCC", "CLK"} /\ "RESET" \in old ->
         IF "VCC" \in old THEN "warm" ELSE "cold"
    [] flags = {"VCC", "CLK"} /\ {"RESET", "VCC"} \cap old = {} -> "cold"
    [] flags = {"VCC"} /\ "VCC" \notin old -> "cold"
    [] OTHER -> "none"

NextUrb(e) == host.up /\ ~host.busy /\ urbs # <<>> /\ Head(urbs)[1] = e /\ urbs' = Tail(urbs)

\* usb_irq_xfer_cb, process_irq_status
ProcessStatus ==
  /\ NextUrb("INT")
  /\ LET flags == Head(urbs)[2].flags
         reset == ResetFor(host.flags, flags)
     IN /\ host' = [host EXCEPT !.flags = flags]
        /\ sim' = IF reset = "none" THEN sim ELSE sess
  /\ UNCHANGED <<rd, line, fw, txQ, ep, out, events, sess, torn, lost>>

\* osim_determine_apdu_case (libosmosim): by class, instruction and P3.  "gp" is
\* a command without a body whose P3, when it is not 0, is taken for the length
\* of one.
DetermineCase(cmd) ==
  CASE cmd.kind = "none" -> 1
    [] cmd.kind = "in" -> 2
    [] cmd.kind = "out" -> 3
    [] cmd.kind = "both" -> 4
    [] cmd.kind = "gp" -> IF cmd.retry THEN 4 ELSE 2

\* seeded fault: the retry after SW 6Cxx is taken for a new command
SegmentHeaderAnew(cmd) ==
  [cmd |-> cmd, apduCase |-> DetermineCase(cmd), more |-> DetermineCase(cmd) \in {3, 4},
   sw |-> "0000"]

\* osmo_apdu_segment_in2 on a header: more is lc.tot > lc.cur
SegmentHeader(cmd) ==
  LET ac == host.ac
      again == ac.sw = "6Cxx" /\ ac.apduCase \in 1..3 /\ ac.cmd.kind = cmd.kind
      c == IF again THEN ac.apduCase ELSE DetermineCase(cmd)
  IN [cmd |-> cmd, apduCase |-> c, more |-> c \in {3, 4}, sw |-> "0000"]

\* process_do_rx_da: ask the reader for the body, or transceive with the card
\* (which takes its time: see Transceive)
ProcessRxData ==
  /\ NextUrb("IN")
  /\ LET m == Head(urbs)[2]
         ac == IF m.k = "HDR" THEN SegmentHeader(m.cmd) ELSE [host.ac EXCEPT !.more = FALSE]
     IN /\ m.k = "DATA" => host.ac.apduCase # 0
        /\ IF m.k \in {"HDR", "DATA"}
           THEN /\ host' = [host EXCEPT !.ac = ac, !.busy = ~ac.more]
                /\ out' = IF ac.more THEN Append(out, <<Msg("PB_AND_RX", ac.cmd, {})>>) ELSE out
           ELSE UNCHANGED <<host, out>>
  /\ UNCHANGED <<rd, line, fw, txQ, ep, sim, events, sess, torn, lost>>

\* transceive returns: the data, if any, then the status word.  Messages whose
\* length is a multiple of the packet size reach the firmware joined to the next.
Transceive ==
  /\ host.busy
  /\ LET ac == host.ac
         data == Msg("PB_AND_TX", ac.cmd, {})
         bad == ac.cmd.kind = "gp" /\ ~ac.cmd.retry
         sw == Msg(IF bad THEN "SW_6C" ELSE "SW", ac.cmd, {})
     IN /\ host' = [host EXCEPT !.busy = FALSE, !.ac.sw = IF bad THEN "6Cxx" ELSE "9000"]
        /\ \/ out' = Append(out, <<sw>>)
           \/ /\ ac.apduCase = 2 /\ ~bad
              /\ out' \in {Append(out, <<data, sw>>), Append(Append(out, <<data>>), <<sw>>)}
  /\ UNCHANGED <<rd, line, fw, txQ, ep, urbs, sim, events, sess, torn, lost>>

\* transceive fails: "error during transceive", and the reader gets no answer
TransceiveFails ==
  /\ host.busy
  /\ host' = [host EXCEPT !.busy = FALSE]
  /\ lost' = TRUE
  /\ UNCHANGED <<rd, line, fw, txQ, ep, urbs, out, sim, events, sess, torn>>

\* the program ends: its completed transfers go unread, and of its OUT transfers
\* only the first may still get through
Stopped(transfers) ==
  /\ host' = [host EXCEPT !.up = FALSE, !.busy = FALSE]
  /\ urbs' = <<>>
  /\ \E n \in 0..Len(transfers) : out' = SubSeq(transfers, 1, n)
  /\ lost' = TRUE

\* "Failed to recognize APDU, terminating": a body without its header
ApduUnknown ==
  /\ host.up /\ ~host.busy /\ urbs # <<>>
  /\ Head(urbs)[2].k = "DATA" /\ host.ac.apduCase = 0
  /\ Stopped(out)
  /\ UNCHANGED <<rd, line, fw, txQ, ep, sim, events, sess, torn>>

\* signal_handler (SIGINT): back to the local SIM, but exit does not wait for it
SignalHandler ==
  /\ host.up /\ Strike
  /\ Stopped(Append(out, <<Plain("SELECT_LOCAL")>>))
  /\ UNCHANGED <<rd, line, fw, txQ, ep, sim, sess, torn>>

\* main: a new run of the program, which powers up the real card
HostStart ==
  /\ ~host.up /\ out = <<>>
  /\ host' = [up |-> TRUE, flags |-> {}, ac |-> NoAc, busy |-> FALSE]
  /\ sim' = sess
  /\ out' = Startup
  /\ UNCHANGED <<rd, line, fw, txQ, ep, urbs, events, sess, torn, lost>>

-----------------------------------------------------------------------------
(* mode_cardemu.c: the commands of the host                                 *)

\* dispatch_usb_command_cardem, TX_DATA: dropped when the card is inactive.  Joined
\* commands are copied to a buffer each (dispatch_received_msg); when there is
\* none, the rest of them is dropped.
DispatchTxData ==
  /\ out # <<>> /\ Head(out)[1].k \in TxKind
  /\ LET t == Head(out) IN
     \E n \in IF Len(t) > 1 THEN 0..Len(t) ELSE {Len(t)} :
       /\ txQ' = IF Ready THEN txQ \o SubSeq(t, 1, n) ELSE txQ
       /\ IF n < Len(t) THEN Strike /\ lost' = TRUE ELSE UNCHANGED <<events, lost>>
  /\ out' = Tail(out)
  /\ UNCHANGED <<rd, line, fw, ep, urbs, host, sim, sess, torn>>

\* card_emu_set_config, which reports back
DispatchConfig ==
  /\ out # <<>> /\ Head(out)[1].k = "CONFIG"
  /\ fw' = [fw EXCEPT !.irq = TRUE]
  /\ ep' = [ep EXCEPT !["IN"].q = Submit(@, Plain("CONFIG"))]
  /\ out' = Tail(out)
  /\ UNCHANGED <<rd, line, txQ, urbs, host, sim, events, sess, torn, lost>>

\* usb_command_sim_select, and the process_io_statechg that follows
UsbCommandSimSelect ==
  /\ out # <<>> /\ Head(out)[1].k \in {"SELECT", "SELECT_LOCAL"}
  /\ IoStateChg(line, Head(out)[1].k = "SELECT")
  /\ out' = Tail(out)
  /\ UNCHANGED <<line, urbs, host, sim, events>>

-----------------------------------------------------------------------------
ReaderStep == LineChange \/ SendTpduHeader \/ AddTpduBody
FirmwareStep == \/ AtrSent \/ TxTpdu \/ DispatchTxData \/ DispatchConfig
                \/ UsbCommandSimSelect \/ \E e \in Endpoint : UsbRefillToHost(e)
HostStep == \/ ProcessStatus \/ ProcessRxData \/ Transceive \/ TransceiveFails \/ ApduUnknown

Next == \/ ReaderStep \/ FirmwareStep \/ HostStep
        \/ \E e \in Endpoint : UsbComplete(e)
        \/ SignalHandler \/ HostStart

Spec == Init /\ [][Next]_vars

\* The firmware's main loop and interrupts run, the host's controller polls both
\* endpoints, the host program handles what its transfers brought, and a reader
\* that is asked for the body of a command sends it.  Nothing is assumed of what
\* else the reader does, or of the program being stopped or started.
Fairness ==
  /\ WF_vars(AtrSent) /\ WF_vars(TxTpdu) /\ WF_vars(AddTpduBody)
  /\ WF_vars(DispatchTxData \/ DispatchConfig \/ UsbCommandSimSelect)
  /\ \A e \in Endpoint : WF_vars(UsbRefillToHost(e)) /\ WF_vars(UsbComplete(e))
  /\ WF_vars(HostStep)

FairSpec == Spec /\ Fairness

-----------------------------------------------------------------------------
\* Type correctness: above all, no endpoint queue outgrows USB_MAX_QLEN.
TypeOK ==
  /\ rd \in [phase : {"off", "idle", "wait", "body"}, cmd : CmdType,
             sw : {"0000", "9000", "6Cxx"}]
  /\ line \in [vcc : BOOLEAN, rst : BOOLEAN]
  /\ fw \in [state : {"OFF", "ATR", "WAIT_TPDU", "WAIT_PB", "WAIT_RX", "WAIT_TX"},
             pins : SUBSET Flag, level : [vcc : BOOLEAN, rst : BOOLEAN],
             enabled : BOOLEAN, irq : BOOLEAN]
  /\ \A e \in Endpoint : /\ ep[e].q \in Seq(MsgType) /\ Len(ep[e].q) <= UsbMaxQlen
                         /\ ep[e].busy \in MsgType
  /\ \A i \in DOMAIN txQ : txQ[i].k \in TxKind
  /\ \A e \in Endpoint : Completed(e) <= IF e = "IN" THEN InTransfers ELSE 1
  /\ host.ac.apduCase \in 0..4 /\ host.flags \subseteq Flag
  /\ sim \in 0..sess /\ torn \in BOOLEAN /\ lost \in BOOLEAN

\* The answers on their way to the reader are those to its present command, if
\* its session began with nothing of the old one under way: card_handle_reset
\* leaves none behind, and neither program, queue nor joined transfer answers a
\* command twice, or a command that is over.
AnswersAreDue ==
  ~torn => \A m \in ToSet(txQ) \cup UNION {ToSet(t) : t \in ToSet(out)} :
             m.k \in TxKind => m.cmd = rd.cmd /\ rd.phase \in {"wait", "body"}

\* When the reader has finished a power-up or reset and all status messages have
\* arrived, the real card has been reset too (update_status_flags), however many
\* messages the bounded queue of the interrupt endpoint dropped meanwhile.
StatusArrived ==
  /\ ep["INT"].q = <<>> /\ ep["INT"].busy = NoMsg /\ Completed("INT") = 0
  /\ host.up /\ fw.irq

ResetForwarded ==
  StatusArrived /\ fw.pins = {"VCC", "CLK"} => sim = sess

\* A command of an untorn session is answered with a status word in the end,
\* unless a step it needs failed or the reader ends the session.
Waiting(id) == rd.phase \in {"wait", "body"} /\ rd.cmd.id = id /\ ~torn /\ ~lost
CommandsAnswered == \A id \in 1..MaxCmds : Waiting(id) ~> ~Waiting(id)

=============================================================================
