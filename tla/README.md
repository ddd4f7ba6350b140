# A verification development for SIMtrace2

SIMtrace2 is firmware for Osmocom's SIM interface boards (SAM3S microcontroller) and the host
programs that talk to it.  This directory holds TLA+ specifications of its core logic, TLC
configurations that check them on small instances, and TLAPS proofs of the results that matter
most for every value of the parameters.  Paths below are relative to the repository; `common/`
stands for `firmware/libcommon/source/`, `softpack/` for `firmware/atmel_softpack_libraries/`.

## 1. The system

| component | state it keeps | operations | interacts with | modelled in |
|---|---|---|---|---|
| card state machine, `common/card_emu.c` | `struct card_handle`: ISO 7816-3 state, PTS and TPDU sub-state, ATR and index, the message being sent, the queue of answers, the message being received, pin levels | bytes from the reader, TXRDY, half and full expiry of the waiting time, pin changes, SET_ATR, CONFIG, TX_DATA, status | called by the main loop and by the USART interrupt | `CardEmu`, `WaitingTime`, `CardemSystem` |
| card emulation mode, `common/mode_cardemu.c` | `struct cardem_inst`: receive ring buffer, countdown of the waiting time, pin levels and their last values, `enabled` | main loop, USART interrupt, segmentation and dispatch of commands, init, exit | card state machine, USB endpoints | the same |
| ring buffer, `common/ringbuffer.c` | read and write index, array | reset, read, peek, write, empty, full (8 and 16 bit) | interrupt writes, main loop reads | `RingBuffer` |
| USB buffers, `common/usb_buf.c`, `host_communication.c`, `pseudo_talloc.c` | fixed pool, one queue and one "in progress" flag per endpoint | alloc, free, submit (evicting), refill to and from host, transfer call-backs | everything that talks to the host; USB interrupt | `UsbBuf` |
| USB device driver, `softpack/libchip_sam3s/source/USBD_HAL.c` | state, bank and transfer descriptor per endpoint; FIFO and registers of the controller | write, read, stall, halt, configure, reset, endpoint interrupt | main loop, USB interrupt, host | `Udp` |
| USB device framework, `softpack/usb/device/core` | device state, configuration | standard requests | every application | `UsbBuf`, `Board` |
| sniffer, `common/sniffer.c` | ATR/PPS/TPDU parser state, ring buffer, waiting time, change flags | USART and reset-line interrupts, `Sniffer_run` | USB buffers | `Sniffer` |
| application main loop, `firmware/apps/cardem/main.c` | current and requested USB configuration | configuration switch, run | every mode's init, exit and run | `Board` |
| DFU bootloader, `firmware/apps/dfu`, `softpack/usb/device/dfu` | DFU state machine, position in the flash | DNLOAD, UPLOAD, GETSTATUS, ABORT, CLRSTATUS, resets | USB, flash, start of the application | `Dfu`, `Board` |
| host library and `simtrace2-cardem-pcsc` | last status flags, the APDU under dispatch | status, TPDU data, PC/SC transceive, SIGINT | firmware over USB, the real card | `CardemSystem` |
| F/D tables, `common/iso7816_fidi.c` | none | lookups | sniffer | `Sniffer` |
| board support, CCID, MITM, printing host programs, vendored libraries | - | - | - | not modelled, section 7 |

**How the parts meet.** A phone (the *reader*) drives VCC, RST, CLK and the I/O line.  The USART
interrupt puts received bytes in the ring buffer, and calls the state machine for every byte it
may transmit and for the two phases of the waiting time.  The main loop drains the ring buffer
into the state machine, forwards changed pin levels, refills the USB endpoints and runs the host's
commands.  `simtrace2-cardem-pcsc` gets the header of a command as a message, sends the command to a
real card, answers with TX_DATA messages, and resets the real card when the flags of a status message
say that the reader reset the emulated one.

**What is hard.**  The USART interrupt has the highest priority and preempts the main loop at any
instruction, while both change `struct card_handle`; only some of the sections are protected.  The USB
interrupt completes or aborts a transfer, selects a configuration or takes a bus reset while the main
loop is in the middle of starting the next one.  The host is slow and unordered with respect to the
reader: an answer may arrive after a reset, and status and data use two endpoints.  The pool and the
queues are small and drop messages when full.  The waiting time must be extended by NULL bytes before the
reader gives up, and is longer than the USART's counter.  Readers switch VCC, CLK and RST in any order.  The
power may fail while the bootloader writes a page.

**What makes the parts correct.**

* card emulation: the interrupts enabled are those the state needs; no answer waits for ever with
  nobody to send it; the reader never waits longer than the waiting time; nothing of an old session
  reaches a new one; an ATR is sent whole and on time; the activation sequence always completes.
* ring buffer: a FIFO: nothing lost but on overrun, nothing reordered, no torn read.
* USB buffers: every buffer of the pool has exactly one owner; the length of a queue is what it says;
  eviction takes the oldest and reorders nothing; every transfer gives its endpoint back.
* USB driver: what the host reads is the transfer, whole, once and in order, and the call-back comes once.
* sniffer: what is reported is what was on the line, at the rate reader and card agreed on.
* the whole path: a command gets its own answer, and a reset of the emulated card reaches the real one.
* bootloader and application: what is started is a whole image, an acknowledged page is in the flash, a
  host that gave up can begin anew, and the mode that runs is the one that was initialised.

`PROJECT.json` lists all components, also those left out, and the hazards with their lines.

## 2. The modules

| module | what it is |
|---|---|
| `CardEmu`, `MCCardEmu` | `card_emu.c` with the main loop and the USART interrupt of `mode_cardemu.c` |
| `WaitingTime`, `MCWaitingTime` | the countdown of the waiting time, in etu |
| `Fifo` | a bounded queue: what a ring buffer promises |
| `RingBuffer`, `MCRingBuffer` | `ringbuffer.c`, both widths, with its writer and its reader; implements `Fifo` |
| `LossyFifo` | what the endpoint queues promise: messages may be lost, never doubled or reordered |
| `UsbBuf`, `MCUsbBuf` | pool, endpoint queues and transfers, and who holds a buffer when; implements `LossyFifo` |
| `Udp`, `MCUdp` | `USBD_HAL.c`, one endpoint packet by packet |
| `Sniffer`, `MCSniffer` | `sniffer.c`: parsers, interrupts and change flags |
| `CardemSystem`, `MCCardemSystem` | composition: reader, firmware, endpoints, host program, real card |
| `Dfu` | operators: the state machine of the bootloader and its flash |
| `Board`, `MCBoard` | composition: `Dfu`, the start of a program, and the application's main loop |
| `CardEmu_proofs`, `RingBuffer_proofs`, `UsbBuf_proofs`, `WaitingTime_proofs`, `Udp_proofs`, `CardemSystem_proofs`, `Sniffer_proofs`, `Board_proofs` | inductive invariants and theorems |

The modules meet where one abstracts what another has in full.  `CardEmu` keeps of the receive buffer only
how many bytes it holds and of the endpoint queues only the kinds of messages: that these are queues
is what `RingBuffer` and `UsbBuf` are about.  `CardEmu` has the waiting time as four phases that may follow
each other at any moment; `WaitingTime` has the phases of the card's state machine reduced to who owes
what and counts every etu.  `UsbBuf` has a transfer as one step that ends or is aborted; `Udp` has its
packets.  `CardemSystem` moves the firmware in messages.  `Board` has the modes only as init, exit and run.

### CardEmu

Two contexts act on the same variables.

* The **USART interrupt** (`usart_irq_rx`) has the highest priority.  Nothing preempts it, so each
  cause it handles is one atomic action: `IrqRx` (a byte into the ring buffer), `IrqTxAtrByte`,
  `IrqTxAtrEnd`, `IrqTxPts`, `IrqTxTpdu`, `IrqTxNothing` (TXRDY, by state), `IrqHalfExpired` and
  `IrqExpired` (TIMEOUT).  The mask in `fsm.mask` says which may happen.  A single invocation that
  finds TXRDY and TIMEOUT in its status word is the two actions one after the other (what that does to
  the waiting time is in `WaitingTime`).
* The **main loop** (`mode_cardemu_run`) is a program: `pc` says where it is, and the interrupt may
  act between any two of its steps.  Its order is the code's: `drain` the ring buffer
  (`card_emu_process_rx_byte`; the new state is set in a step of its own, `SetNewState`, because it
  was computed from a state the interrupt may have left, and a byte of a PTS exchange takes four steps, because it
  reads and writes `pts.state` while the interrupt may send the response: `RxPtsByte` reads it and computes its successor,
  `SetPts` writes that, `RespondPts` looks at it again, `EnableTxPts` enables the transmitter), `vcc` and `rst`
  (`process_io_statechg`, with `card_handle_reset` split at each critical section: `StartReset`,
  `ReleaseQueued`, `Released`), `refill`, then `cmd`, where at most one command is under way: TX_DATA
  in three steps (queue, look at the state, enable the transmitter), SET_ATR in two.
* `LineChange` is the reader switching VCC or RST.  Which bytes it sends is a choice of the step that
  looks at them.

`fsm` is a record of what the two contexts share most: ISO 7816-3 state, TPDU sub-state, USART mask,
and the phase of the waiting time (`off`, `run`, `half`, `done`).  The functions of the code that
change it (`card_set_state`, `set_tpdu_state`, `card_emu_uart_enable`, `card_emu_uart_update_wt`,
`card_emu_uart_reset_wt`) are operators from one record to the next, so that an action composes them
in the order the code calls them.

What is abstracted: a byte is not stored, it is chosen when it is interpreted; a TX_DATA message is
the number of bytes left and its three flags; a message to the host is its kind.  The copy of the ATR in
SET_ATR is one step, its index a second: an interrupt in the middle of the copy gives a mixture of two
ATRs, which the history `atrMixed` already records for any SET_ATR during IN_ATR.  `atrOut`,
`fsm.stale` (an ENABLE_TX that came too late) and `fsm.late` (the response was complete when the successor of `pts.state`
was written) are histories too.

### WaitingTime

Time passes in ticks of one etu.  `s` is what the interrupt reads and writes: `ci->wt`, the register
US_RTOR, the counter behind it and its TIMEOUT flag, the mask, and as much of the card's state as says
whether it owes the reader something.  `card_emu_uart_update_wt` is a program of five steps, one
assignment each (`SetTotal`, `SetRemaining`, `SetHalf`, `Compute`, `SetRtorRetto`), because the code runs it with
interrupts enabled ("FIXME: guard against race with interrupt handler").  `UsartIrq` handles a snapshot of the
status word, which may hold TXRDY and TIMEOUT together.  An assertion that fails resets the board (`Booted`).
A pending interrupt is taken before the main loop goes on.  The bound on `gap` says that neither the
main loop nor the transmitter takes more than one etu over a step.

`raced` says that a time-out was served during the reload the main loop is in: the properties about the
reader except what the FIXME describes, until the next reload.  `faults` collects what went wrong.

### RingBuffer

`rbuf_write`, `rbuf_read` and `rbuf_reset` mask interrupts and are one action each; `rbuf_is_empty` and
`rbuf_peek` do not.  `Sniffer_run` checks and reads in two calls (`sniffer.c:1028-1029`), which are two actions with the interrupt's writes
between them.  `mode_cardemu.c:952-958` masks interrupts around both; its behaviours are among those of the model.  The refinement maps the array and its two indices to a sequence.

### UsbBuf

The main loop allocates a buffer (`WantMsg`, `AllocOk`, and `AllocFails`, `DropOldest` for
`usb_buf_alloc_st` under exhaustion), submits it (`SubmitNow`, `FlushRx`; the eviction of
`usb_buf_submit`), refills the endpoints (`RefillTake` in the section with interrupts off, then
`WriteOk` or `WriteLocked` for the two results of `USBD_Write`; `RefillFromHost`) and runs the commands,
which keep the buffer they came in, release it, or copy segments of it into buffers of their own
(`CmdTake` to `SegmentFree`).  `AnswerSent` is the USART interrupt releasing an answer, `HandleReset`
the card releasing what it holds.  The USB interrupt is `TxDone` and `RxDone` (with `usb_write_cb` and
`usb_read_cb`), `SetHalt`, `ClearHalt` and `SetConfiguration`, which abort transfers: the call-back runs
and the endpoint's state is overwritten after it.

A call of `USBD_Write` or `USBD_Read` is one step; the length of a message, of which only its relation
to the packet size matters (shorter, equal, several packets), is chosen when its transfer starts.  The history `cut` has the endpoints on which a message of
several packets was aborted after exactly one of them.  A bus reset is left out, because the
application resets the microcontroller then; `usb_drain_queue` has no caller.  A `USBD_Read` that fails gives its
buffer back and changes nothing, so it has no action.

### Udp

One endpoint, of one of three kinds (interrupt IN with one FIFO bank, bulk IN with two, bulk OUT with two).
`UDP_Write` and `UDP_Read` run in the main loop and are cut at every access that another party can observe
(`pc`); the interrupt's handler, the halt, the configuration and the reset of the endpoint are one action
each.  `hw` is the controller: the FIFO being filled, TXPKTRDY with its packet, TXCOMP, the banks received,
the stall bits.  The host reads packets, sends them, and leaves a disabled endpoint alone.  An enabled
interrupt that is pending is taken before the main loop goes on (`Preempted`).  The call-back
`usb_write_cb`, which starts an empty packet, is part of the end of a transfer.

`off` says that the interrupt found the main loop inside `UDP_Write` or `UDP_Read`, or that a halt,
configuration or reset left driver and controller with different ideas of the FIFO (a packet still announced, a bank
that is not the first): the properties hold until then, and what happens afterwards is described in section 5.

### Sniffer

Three contexts: the USART interrupt puts bytes and time-outs into the ring buffer and runs the waiting time,
the interrupt of the reset line sets `change_flags`, and `Sniffer_run` takes one entry from the buffer and reads the flags
three times and clears them, each read an action (`pc`).  The memory of the main loop is one record `sn`, and each
function of the source (`process_byte_atr`, `process_byte_pps`, `process_byte_tpdu`, `change_state`, `update_fidi`, ...)
is an operator on it.  The parsers work on real byte values, so that checksums, PPS parameters, procedure bytes
and the F/D tables count.  Of the three arrays only the one the state uses is ever read, and stands for all.

What reader and card say is a set of whole transmissions (`Talks`) with the report each deserves; a transmission may be broken off
at any byte and a reset may come at any time.  `due` is the history of what is still to be reported.  `torn` says that a
signal on the lines came faster than the main loop, so that an edge, a byte or a mark was missed or taken in the wrong
order: the code has no means against that, and the properties hold until then.  After a missed signal the line is
silent until the next reset (bound).

What reader and card may say is a hypothesis of its own, `UnderstoodAssumption`: each transmission, heard by itself in any setting it
can be sent in (`Links`), is reported right.  `Heard` runs the parsers of the model over its bytes to say so, and TLC evaluates it
for the transmissions of the run.  It is about the parsers alone; what time-outs, resets, the buffer and the order of the
main loop's reads do to a talk is what the properties are about.  It leaves out the transmissions which section 5 says the parsers get
wrong (inverse convention, and a PPS response without PPS1 whose PPS0 is read as another rate).

### CardemSystem

The path of a command through all parts, in messages.  `LineChange`, `SendTpduHeader` and `AddTpduBody` are the reader;
`AtrSent`, `TxTpdu`, `DispatchTxData`, `DispatchConfig`, `UsbCommandSimSelect` and `UsbRefillToHost` the firmware;
`UsbComplete` the controller and the host's kernel; `ProcessStatus`, `ProcessRxData`, `Transceive` and `ApduUnknown` the
host program; `SignalHandler` and `HostStart` stop and start it.  In full are the bounded queues of the two endpoints to the
host, one transfer in progress on each, the transfers completed while the program was busy, `osmo_apdu_segment_in2` for the
cases of ISO 7816-4 with the retry after SW 6Cxx, and `update_status_flags`.

`torn` says that a session of the reader began while messages of the last one were under way; `lost` that a step of this
session failed: no buffer, no host program, no card.  The ATR and PTS are one step; the status message always finds a
buffer; a change of VCC or RST is seen before the next one.  The reader may retry a command after 6Cxx, begin another, cut the
power or reset at any moment, and the host program may stop and start between any two steps.

### Dfu and Board

`Dfu` has the bootloader as operators on a record: the class requests (`Handle`), the data stage of a download, which
completes in the interrupt (`Dnload`, `HandleDnload`, which writes the flash and compares), upload, manifestation, and what decides whether the
application is started.  Lengths are in packets of endpoint 0; a cell of the flash says which packet of which image it
holds, or garbage.  `Board` adds the actions: requests that follow the DFU protocol while the host downloads (`HostMay`)
and any request when it gave up, a packet of a data stage, bus resets, losses of power (also in the middle of a write),
detaching, and the application's main loop, one read or assignment of the configuration per action, under SET_CONFIGURATION, suspend and resume at any
moment: `MainCompare`, `MainTestInit` and `MainTestRun` choose the function, `MainCallInit` and `MainCallRun` read the
configuration once more and call what it selects then.  A call of slot 0's NULL is a fault, which only the watchdog's reset ends (`PowerLoss`).  `bad` says a page was acknowledged whose content differs, `dirty` that a download was begun and not completed, `raced`
that the configuration changed between an init and the assignment of `last_simtrace_config`, `moved` that it changed after the
main loop chose the function it is about to call.  The bootloader's own reset when
it is not configured is a stutter.

## 3. What is checked

Every run explores all interleavings of its instance.  `PROJECT.json` lists, for each property of a
passing run, a plausible fault of the code (a definition named "seeded fault" beside the one it
replaces) with which TLC finds the property violated.

| run | instance | shows |
|---|---|---|
| `cardemu_core` | P3 0 or 2; messages with data, with the status word, and asking for the body; 2-byte ATR; ring buffer of 3; one queued answer | `UartMatchesState`: receiver and transmitter are enabled exactly when the state needs them. `NoLostWakeup`: no answer is queued with nobody to send it. `WaitingTimeGuarded`: while the reader waits, the waiting time runs and a NULL byte is still to come. `ResetEmptiesQueue`, `ActivationComplete`, `AtrEndsWhole` |
| `cardemu_session` | PTS with an optional field, SET_ATR, status and configuration messages, exhausted pool; 1-byte ATR | `UartMatchesState` where stray bytes meet a PTS response and allocations fail |
| `cardemu_live` | 1-byte answers, P3 1 | `AnswerCompletes`, `AtrCompletes`: a final answer and an ATR come to their end, or the reader resets |
| `waiting_time` | waiting times 4, 5, 9, 14 etu, rounds of at most 3, ATR delay 2, messages of 1 or 2 bytes | `ReaderNeverGivesUp`, `AssertHolds`, `NullsBetweenAnswers`, `AtrOnTime` |
| `ringbuffer` | 4 slots, 3 items | `IsQueue` (refinement of `Fifo`), `ReadHasData` |
| `usbbuf_pool` | 3 buffers, 2 endpoints to the host, limit 1, a counter of two values, messages shorter than, equal to and longer than a packet | `OneOwner`: no leak, no double free, no use after free. `KeepsOrder` (refinement of `LossyFifo`), `InProgressIsTransfer`, `QueueLenIsLength`, `MessagesTerminated`, `TransfersEnd` |
| `udp` | packets of 2 units, transfers of 1, 2, 4 and 5, three kinds of endpoint, 3 transfers, 3 packets, 2 events | `Accounted`: each transfer is in progress or had its call-back. `WholeToHost`, `InOrder`: the host's data and the firmware's are the ones sent. `Progress` |
| `sniffer` | ATRs, PPS exchanges and TPDUs with right and wrong checksums and all procedure bytes; a buffer of 2 | `ReportsTheLine`, `NothingOwed`: each transmission is reported once, whole or as far as heard. `InStep`: level and rate. `TalkEnds` |
| `cardem_system` | 2 commands (one with a body to the card, one that ends in 6Cxx), 4 events, of which a stop of the host or an exhausted pool counts 2; limit 3 | `AnswersAreDue`: an answer goes to its own command. `ResetForwarded`: the real card is reset when the emulated one was. `CommandsAnswered` |
| `board` | a partition of 4 packets, pages of 2, 2 downloads | `AppIsWhole`, `Acknowledged`, `RunsInitialised`, `Recovers` |
| `cardemu_deaf`, `dfu_verify` | as above | one claim of the code each, violated; section 5 |

The runs of `sniffer`, `udp`, `board` and `cardem_system` check their type invariant too, each of which has a bound that
the code must keep (the ring buffer, a packet's size, the partition, USB_MAX_QLEN).  The type invariants of the other modules
are theorems.

**Bounds.**
`CardEmu`: `MaxTxQ` 1 still gives an answer in transmission and another queued behind it, which is
what the reset and the wake-up depend on.  `MaxAtrOut` only stops SET_ATR from restarting an ATR
without end.  A ring buffer of 2 holds one byte and still overruns; one of 3 has the reader ahead of the
main loop by two.  P3 2 gives a body with a first and a last byte, P3 0 a command without one;
`UsbMaxQlen` 1 makes every second message evict one.
`WaitingTime`: with rounds of 3, waiting times of 4 and 5 need two, 9 and 14 three and more, with halves that do and do not
fall on the end of a round.
`UsbBuf`: three buffers are enough for one in transfer, one in hand and one queued, for exhaustion, and for a segment
beside its message; limit 1 makes eviction and refusal meet at once.  The three lengths are all
that `usb_write_cb` and the controller tell apart.
`Udp`: transfers shorter than, equal to, twice and two and a half times a packet; three transfers are enough for a stale
packet of the first to meet the third; two events for a halt and its end, or a reset and a configuration.
`Sniffer`: a buffer of two entries is full at once; `RtorMax` makes the longest waiting time take two rounds.
`CardemSystem`: two commands let an answer to the first meet the second; four events are a power-up with its reset and another
reset, or a power-up with one stop of the host; three places let the status messages of these overflow.
`Board`: two pages, the last of which the end of the partition cuts; two downloads let one be interrupted after another
was completed.

**Fairness.**  Only of what the code or the hardware drives by itself, never of the reader or the user.
`CardEmu`: the main loop keeps going round (weak fairness of each part of it), and an enabled interrupt whose
cause persists is taken (TXRDY is level-triggered; the waiting time elapses while it is enabled).
`UsbBuf`: a message taken from its queue reaches `USBD_Write` in the same call, and the host polls the endpoints it reads.
`Udp`: the main loop leaves `UDP_Write` and `UDP_Read`, the interrupt handler runs, the host polls.
`Sniffer`: the main loop never waits, and a running time-out expires.
`CardemSystem`: the firmware's loop and interrupts run, the controller polls, the host program handles what its transfers brought, and
a reader that is asked for the body of a command sends it.
`Board`: a host that gave up goes through GETSTATUS, CLRSTATUS or ABORT, as `dfu-util` does before a download.

**Deadlock** is checked in every run but `cardem_system` and `udp`, whose bounded number of events and transfers lets the system
come to rest.

## 4. What is proved

For every value of the constants that satisfies the named assumptions, which only say that the constants are of
their types, that a ring buffer has a slot, an endpoint queue at least one place, that the counter `queue_len` is wide
enough for the limit, that a waiting time is longer than 3 etu, and that a round of US_RTOR after the first half of one is not a
single etu.  The last two are what the code has: `emu_update_wt` (`card_emu.c:431`) makes every waiting time a multiple of 960 etu, so that what
rounds of 0xffff leave of its half is a multiple of 15.  `Sniffer` also has the hypothesis `UnderstoodAssumption` of section 2.

* `CardEmu_proofs`: `Spec => []IInv`, and from it each safety property of `cardemu_core`, and
  `AtrEndsWhole`.  The properties are not inductive one by one.  `UartMatchesState` needs to know where
  the main loop is: `SetNewState` sets a state computed earlier, so `SetStateFits` says what the interrupt
  can have done since; `EnableTx` acts on an old look at the state, so `EnableFits` and `StaleFits` bound what
  that can hit.  `Exchange` does this for a byte of a PTS exchange: from `RxPtsByte` to `EnableTxPts` it relates what the main loop
  has read of `pts.state` to what the interrupt can have made of it, and says that only a late write takes a card that waits for a command
  back into a response.  `WaitTpduIdle` ties the TPDU sub-state to WAIT_TPDU, without which the first byte of
  a command could be taken for a body.  `ReleaseFits` and `PowerFits` carry `ResetEmptiesQueue` and
  `ActivationComplete` through the steps of a reset.  `AtrSent` says that what was sent is a prefix of
  the ATR.  The proof first gives, for each operator on `fsm`, what it does to state, mask and waiting
  time, then goes action by action.
* `WaitingTime_proofs`: `TypeCorrect` (US_RTOR never gets a value it cannot hold) and `AssertionHolds`.  The invariant
  `Reloaded` says, for each point of the reload, which of the three fields are already those of the new waiting time; the
  interrupt leaves a record whose half was noted before its next round was computed, and a complete reload leaves a whole one.
  `ReaderIsKept` (`ReaderNeverGivesUp`), `NullsKeptApart` (`NullsBetweenAnswers`) and `AtrNotEarly` (`AtrOnTime`) count etu along whole
  behaviours.  Their invariant `Clock` says that the silence so far, the etu still to count and those in the counter add up to the waiting time and at most
  the two etu the main loop spends on a reload (`Spent`, `Counting`), wherever in the reload the main loop is (`Loaded`, `TotalSet`); that the card is only sending
  when a byte has just restarted a first round (`Sending`); and that a card that is off has a stopped counter (`Purpose`), from which
  the ATR's delay is counted in full (`AtrRuns`).
* `RingBuffer_proofs`: `Spec => IsQueue` for every length; the index arithmetic (`%`) is in lemmas about
  one step of the read or of the write index.
* `UsbBuf_proofs`: `TypeCorrect`, whose point is that `in_progress` stays 0 or 1, needs `MainHolds` and
  `TransferHolds` (between `RefillTake` and `USBD_Write` the endpoint is in progress but not busy; a busy
  endpoint has a message to release).  `CountCorrect` (`QueueLenIsLength`) needs that a counted queue is never longer
  than the limit (`QueuesBounded`), so that eviction makes room before the count grows.  `Owned` (`OneOwner`) treats the
  places that can hold a buffer as a partition of the buffers in use: lemmas about any partition say that taking, moving and
  dropping keep it (`TakeKeeps`, `MoveKeeps`, `DropKeeps`), each action is one of these, and `Clean` says that whoever holds nothing also
  names nothing, so that a pointer left behind is not taken for an owner.  `EndpointsGivenBack` (`InProgressIsTransfer`) and `Terminates`
  (`MessagesTerminated`) hold for messages of any length, the first for the endpoints not in `cut`: only the call-back of a transfer
  aborted after exactly one of several packets starts an empty packet that the abort forgets.
  `KeepsTheOrder` (`KeepsOrder`) is the refinement of `LossyFifo`, for every pool, limit and message length.  The channel
  of an endpoint is the message being written, the one in transfer and the queue, in this order (`Row`).  Each step loses the first
  message, the one after it, or none (`RowLoses`), or appends one; that the appended message is not in the channel already (`NotYetPut`)
  follows from ownership (`Own`).
* `Udp_proofs`: `TransfersAccounted` (`Accounted`), for every packet size and every length.  The invariant is that driver and main loop
  agree on whether a transfer is active (`Undisturbed`), and that the transfers begun are those ended, lost or active (`Balanced`).
  `HostGetsWhole` (`WholeToHost`), for one and two banks.  The invariant `Stream` says where each unit of the current
  transfer is: of the units after those acknowledged, one packet is announced or read and not yet noticed (`Out`), the FIFO of an endpoint with two
  banks has the next (`Ahead`), and the descriptor the rest (`Loaded`); at rest nothing of the last transfer is left in the FIFO, and a
  known TXCOMP has its interrupt enabled, so that it is taken before the next transfer is set up (`Resting`).
  `FirmwareGetsInOrder` (`InOrder`) is the other direction.  Its invariant `Inward` says that while driver and FIFO agree on the bank
  the packets in the banks are those the driver will take, in that order (`Turn`), and that what was delivered, what the descriptor has received
  and what is in the FIFO are, one after the other, the units the host sent, without those a reset or an abort discarded (`Holds`).
  `TypeCorrect` (`TypeOK`) is that no packet in the FIFO is longer than the endpoint's and no counter of the descriptor leaves its range.
* `CardemSystem_proofs`, for any number of commands, sessions and events.  `TypeCorrect` (`TypeOK`) has the invariant `Base`: queues within
  their limit, no more transfers complete than the host submitted, and the card's pins those of the levels it sees.
  `AnswersDue` (`AnswersAreDue`) adds `Exchange`: in a session that is not torn, what is under way for the reader's command is in one of the
  places of `Places`: its header or body in the queue, the transfer or the completed transfers of the endpoint, the APDU with the host's
  program, its answers, or its body that the reader has yet to send (`Token`).  Each action keeps it there or moves it on to the next, and
  answers stay answers to the command: intermediate ones first, the final one last (`AnswersTo`, `OutOk`).
  `ResetsReachCard` (`ResetForwarded`) adds `StatusOk`: the last status message on its way tells the pins as they are (`Informed`), and
  while the card is powered and out of reset the real card was reset for this session or two successive messages will make the host do
  it (`Due`).  It has the hypothesis `UsbMaxQlen >= 3`, which USB_MAX_QLEN (`usb_buf.c:23`) satisfies with exactly 3: the two
  messages whose difference calls for the reset may be followed by a third, and a full queue drops its oldest.  With 2, TLC finds the property violated.
* `Sniffer_proofs`, for any talk the parsers understand, any size of the buffer, and every interleaving of the two interrupts with the five
  reads of the main loop.  `TypeCorrect` (`TypeOK`): no parser is in the sub-state of another, and no array is written past its end.
  `LineIsReported` (`ReportsTheLine`, an action property), `NothingIsOwed` (`NothingOwed`) and `StaysInStep` (`InStep`) share the invariant `KeepsUp`.
  The memory of the main loop and the line are at two places of the talk, and the invariant says what lies between them:
  a path with a place for each entry of the buffer (`Path`), each of which its entry leads to the next (`Moves`: the next byte, the first
  byte of another transmission, the end of the waiting time).  `due` has the transmissions the path goes through.  The interrupt adds a place
  (`Push`), the main loop takes the first and reports what it leaves (`Pop`, `Reads`); in reset the path is gone (`InReset`), and while an assertion waits
  to be handled it holds no byte (`Pending`).  That a path only goes forward (`Rises`), and stays where it is when no entry is a byte
  (`NoData`), is by induction over its length, for which sets of numbers are enough (`Induction`).
* `Board_proofs`: `ApplicationWhole`, `AcknowledgedHeld`, `RunsTheInitialised` and the types, for every size of the partition and
  of a page and every number of downloads.  `Download` says at every moment of a download what the flash holds: the data stage has the
  packets that follow those acknowledged (`Receiving`), the bootloader's offset is the host's (`InStep`), and once the last page is acknowledged
  the image is whole (`Whole`); `Configured` ties the main loop's place to the configuration it has initialised and
  to the one it has just compared, and says what a SET_CONFIGURATION since then can have changed.

Only model-checked are the liveness properties `AnswerCompletes`, `AtrCompletes`, `TransfersEnd`, `Progress`, `TalkEnds`,
`CommandsAnswered` and `Recovers`, which are out of the prover's reach, and that the parsers of `Sniffer` understand a transmission: what a
parser makes of every sequence of bytes is induction over data, so that it is a hypothesis which TLC evaluates.

## 5. Where the code does not do what it says

Two runs show a claim of the code violated.

* **A card that no longer listens** (`cardemu_deaf`, `card_emu.c:1085`).  `card_emu_have_new_uart_tx`
  decides and acts without masking the interrupt, which may send the whole answer in between; the
  receiver then stays off in WAIT_TPDU.  `UartMatchesState` excepts it (`fsm.stale`), and one other race, the first of those below.
* **A failed comparison that is forgotten** (`dfu_verify`, `apps/dfu/main.c:133`).  The result of comparing the flash with the
  data is overwritten by the statement after the loop: a page that was not written is acknowledged.  `AppIsWhole` and
  `Acknowledged` except it (`bad`).

The rest was found while modelling; the models have the behaviour, and a property names it as an exception.

* **A PTS exchange that never ends** (`card_emu.c:658`): a byte the reader sends while the PTS response is transmitted makes the main loop
  read `pts.state` and write its successor; if the interrupt sends the last byte of the response in between, the card is back in IN_PTS, in a
  sub-state of the response, with only the receiver enabled, and no byte leads out of it before the next reset.  `UartMatchesState` excepts exactly
  this outcome (`LateSetPts`, `fsm.late`).
* **A stale answer survives a reset** (`card_emu.c:254`).  `card_handle_reset` detaches and frees the current
  answer and the queued ones in separate critical sections; an interrupt between them moves a queued answer into the
  place just emptied.  `ResetEmptiesQueue` speaks of the queue and the body, not of that one answer.
* **Two ATRs in one** (`card_emu.c:1231`): SET_ATR takes effect at once, not at the next reset (`atrMixed` in `AtrEndsWhole`).
* **A card enabled late stays off** (`mode_cardemu.c:635`): it is given the raw levels of the lines at boot, while the last levels
  start as false.  `ActivationComplete` speaks of a VCC that went on while the instance was enabled.  `enabled`, the levels and their
  last values also survive exit and init on a switch of configurations.
* **The assertion of `usb_buf_submit`** (`host_communication.c:96`): a refused write puts the message back without counting it, and
  `queue_len` wraps (`refused` in `QueueLenIsLength`).  The next message to the empty queue then finds nothing to evict, and the assertion
  (`usb_buf.c:85`) resets the board; the model goes on.
* **Messages of several packets** (`host_communication.c:37`): of full packets only, they get no zero-length packet, and `MessagesTerminated` speaks of
  messages of exactly one.  One aborted after exactly one packet makes `usb_write_cb` start an empty packet whose transfer the abort then
  forgets, which leaves `in_progress` set for good: `InProgressIsTransfer` and `TransfersEnd` except the endpoint from then on (`cut`).
* **TXRDY and TIMEOUT in one snapshot** (`mode_cardemu.c:339-342`): the waiting time that the byte just sent has restarted is charged with the
  old time-out, and a NULL byte may follow in the middle of an answer, against the comment at `card_emu.c:1253` (`NullsBetweenAnswers` excepts it).
* **A reset whose release was seen and whose assertion was missed** makes the sniffer wait for an ATR at the old rate, and
  WAIT_ATR to WAIT_ATR does not empty its ring buffer (`torn` in `Sniffer`; the WARNING at `sniffer.c:1107` names the race).
* **The convention of the last session** (`sniffer.c:1034`): the first byte of an ATR is converted before `change_state` resets
  `convention_convert` (`sniffer.c:305`), so that after an ATR in the inverse convention the next one is misread (`HandleDeassert` in `Sniffer`
  does not take the sniffer to be in step again).
* **A PPS response that confirms the present rate** (`simtrace_iso7816.c:138`): `update_fidi` stops the receiver time-out even then; if the first byte of
  the next TPDU was there before the main loop handled the response, a TPDU that breaks off after it is never reported (`MissesByte`).
* **PPS1 absent** (`sniffer.c:631`, `685-687`): the rate is computed from PPS0's place, which the model keeps; **TS** is compared with 0x30
  (`sniffer.c:447`), which is not what an inverse convention card's TS reads as.
* **Order of status and data** (`simtrace2-cardem-pcsc.c:196`): they use two endpoints, so a command sent right after the ATR may reach the
  real card before the reset that ended the last session is forwarded.  A power-up in the standard's order of signals is forwarded as a warm
  reset, although the comment speaks of a cold one.  A host program restarted between SW 6Cxx and the retry has lost `prev_ac`; TPDU data without a header
  ends it; on SIGINT the request to switch back to the local SIM may never be sent.
* **The bootloader**: `past_manifest` (`dfu_driver.c:367`) is never cleared, so a bus reset during a second download starts the application;
  an upload's error is never answered; a SETUP in a data stage completes it with success and a short length; a bus reset in it leaves
  dfuDNLOAD_SYNC; an interrupted download may boot, as only the first two words are checked (`dirty` in `AppIsWhole`).
* **SET_CONFIGURATION while the main loop switches** (`apps/cardem/main.c:218-230`): `simtrace_config` is read again after each check.  Between an init and the
  assignment of `last_simtrace_config` a change makes the loop initialise a configuration twice or call the wrong exit (`raced`); after the comparison
  it runs a mode that never was initialised; and between a test for NULL and the call (l. 224-225, 229-230) a change to configuration 0 makes it call
  NULL, a fault that lasts until the watchdog resets the board (`moved`).  `RunsInitialised` says that nothing else leads there.  In `apps/trace/main.c:99-103` and `208-216` the index may be past the end of
  `config_func_ptrs`, or the function null.
* **The USB driver**: an abort, a configuration or a reset with a packet announced, or with an odd number of packets received, leaves FIFO
  and driver at different banks; the interrupt may find the main loop inside `UDP_Write` (`off` in `Udp`); `UDP_ResetEndpoints` sets
  DISABLED before `UDP_EndOfTransfer` tests for a transfer, so the call-back it announces is lost (`USBD_HAL.c:1272`).

## 6. How it was planned, and what is left

The order was: the card's state machine, then what it stands on (ring buffer, USB buffers), then time (`WaitingTime`), the second
mode (`Sniffer`), the path to the real card (`CardemSystem`), the bootloader and the start (`Dfu`, `Board`), the USB driver (`Udp`), and
the proofs of each.  Related questions about one module share an instance.

Left, in this order: that `CardEmu` implements the firmware of `CardemSystem` and `Udp` the transfers of `UsbBuf`, which are
related only by their descriptions here; the control transfers of `USBD_HAL.c` beyond those DFU uses.

## 7. Not modelled

* **CCID reader mode and MITM** (`cciddriver.c`, `mode_ccid.c`, `mitm.c`, `iso7816_4.c`): `HAVE_CCID` and `HAVE_MITM` are commented out in every
  `board.h`, so no build contains them.  `tc_etu.c` has no caller in the applications.
* **Board support** (card presence, modem reset, SIM switch, multiplexers, LEDs, console): pins, timers and a debug buffer without influence on
  the protocols.  The console's race (`uart_console.c:163`) loses or doubles debug output only.
* **`apps/trace`, `apps/triple_play`**: the main loop of `apps/cardem` with other modes, or without USB; the differences that matter are in section 5.
* **`simtrace2-sniff`, `simtrace2-tool`, `usb2list`, GSMTAP**: they print what they receive or send one command and exit.
* **In the modelled files**: the F, D and WI arithmetic and the TC2 parse of `card_emu.c` (they set the bit rate and the length of the waiting
  time, which is any), the hysteresis of the VCC ADC, the modem reset pulse, register set-up, a failed allocation in the sniffer
  (which drops one report) and of a status message (which the system's model always sends), the refusal of an ATR that is too long (SET_ATR is then without
  effect, as if it had not come), multi-buffer lists and
  isochronous endpoints of `USBD_HAL.c` (never used), USB descriptors, the synchronous transport of the host library.
* **Vendored code**: chip headers, CMSIS, libosmocore, stdio and string make up most of the repository's lines.  They are register
  definitions and general libraries, which is why the definitions here map to about a tenth of all lines, but to most of those of the modelled files.
