---------------------------------- MODULE Dfu ----------------------------------
(***************************************************************************)
(* The DFU bootloader (dfu_driver.c, apps/dfu/main.c): the state machine    *)
(* behind the class requests of endpoint 0, the data stage of a download,   *)
(* which completes in the USB interrupt, and the flash it writes.           *)
(*                                                                         *)
(* Operators on the bootloader's state, a record d; Board has the actions.  *)
(* Lengths and offsets are in packets of endpoint 0 (64 bytes); a cell of   *)
(* the flash holds one packet: <<i, k>> is packet k of the host's image i.  *)
(***************************************************************************)
EXTENDS Integers, Sequences

CONSTANTS
  FlashSize,    \* packets in the application partition, as in the RAM partition
  PagePackets,  \* BOARD_DFU_PAGE_SIZE
  Garbage       \* the content of a packet that was not written correctly

ASSUME DfuAssumption ==
  FlashSize \in Nat \ {0} /\ PagePackets \in Nat \ {0} /\ Garbage \notin Nat \X Nat

DfuState == {"dfuIDLE", "dfuDNLOAD_SYNC", "dfuDNLOAD_IDLE", "dfuMANIFEST_SYNC",
             "dfuMANIFEST", "dfuUPLOAD_IDLE", "dfuERROR"}
Partition == {"ram", "flash"}
Request == {"DNLOAD", "UPLOAD", "GETSTATUS", "GETSTATE", "ABORT", "CLRSTATUS", "OTHER"}

\* How a write to the flash can end: FLASHD_Unlock or FLASHD_Write fails, or what
\* is read back differs from the data.
Outcome == {"written", "unlockFails", "writeFails", "differs"}

\* What the host gets for its request; "none" while the request is in progress,
\* "lost" if it is never answered.
Answer == {"none", "zlp", "data", "stall", "lost"}

\* st, status, past, total: g_dfu
\* alt: if_altsettings[0]
\* ep, len, buf, up: endpoint 0 is idle, receives len packets (of which it has buf) or
\* sends up packets of an upload (or an answer of another kind, up = 0)
\* reply: the answer to the request
\* flash: the partition ALTIF_FLASH
\* bad: history: a write whose content differed was acknowledged
\* dirty: history: written to since the last complete download
Booted(flash, bad, dirty) ==
  [st |-> "dfuIDLE", status |-> "OK", past |-> FALSE, total |-> 0, alt |-> "ram",
   ep |-> "idle", len |-> 0, buf |-> <<>>, up |-> 0, reply |-> "zlp",
   flash |-> flash, bad |-> bad, dirty |-> dirty]

\* USBD_Write and USBD_Stall do nothing while the endpoint is busy
Reply(d, r) ==
  IF d.ep # "idle" THEN [d EXCEPT !.reply = "lost"]
  ELSE [d EXCEPT !.reply = r, !.ep = IF r = "stall" THEN "idle" ELSE "send", !.up = 0]

Fail(d) == Reply([d EXCEPT !.st = "dfuERROR"], "stall")
AddressError(d) == [d EXCEPT !.st = "dfuERROR", !.status = "errADDRESS"]

-----------------------------------------------------------------------------
(* Download                                                                 *)

\* packets from position at are replaced by those of buf, or by garbage
Stored(flash, at, buf, good) ==
  [k \in DOMAIN flash |->
     IF k \in at .. at + Len(buf) - 1
     THEN IF good THEN buf[k - at + 1] ELSE Garbage
     ELSE flash[k]]

\* seeded fault: the end of the partition is not checked
HandleDnloadUnbounded(d, w) ==
  IF d.alt = "ram" THEN [d |-> d, rc |-> "zlp"]
  ELSE IF w = "unlockFails" THEN [d |-> d, rc |-> "stall"]
  ELSE [d |-> [d EXCEPT !.flash = Stored(@, d.total, d.buf, w = "written"),
                        !.dirty = TRUE, !.bad = @ \/ w = "differs"],
        rc |-> IF w = "writeFails" THEN "stall" ELSE "zlp"]

\* seeded fault: the page is written to the start of the partition
HandleDnloadAtStart(d, w) ==
  IF d.total + Len(d.buf) >= FlashSize THEN [d |-> AddressError(d), rc |-> "stall"]
  ELSE IF d.alt = "ram" THEN [d |-> d, rc |-> "zlp"]
  ELSE [d |-> [d EXCEPT !.flash = Stored(@, 0, d.buf, w = "written"), !.dirty = TRUE],
        rc |-> IF w = "writeFails" THEN "stall" ELSE "zlp"]

\* USBDFU_handle_dnload: the result of the comparison is overwritten
HandleDnload(d, w) ==
  IF d.total + Len(d.buf) >= FlashSize THEN [d |-> AddressError(d), rc |-> "stall"]
  ELSE IF d.alt = "ram" THEN [d |-> d, rc |-> "zlp"]
  ELSE IF w = "unlockFails" THEN [d |-> d, rc |-> "stall"]
  ELSE [d |-> [d EXCEPT !.flash = Stored(@, d.total, d.buf, w = "written"),
                        !.dirty = TRUE, !.bad = @ \/ w = "differs"],
        rc |-> IF w = "writeFails" THEN "stall" ELSE "zlp"]

\* dnload_cb, in the USB interrupt
DnloadCb(d, w) ==
  LET h == HandleDnload([d EXCEPT !.ep = "idle"], w)
      n == Len(d.buf)
      e == [h.d EXCEPT !.buf = <<>>, !.len = 0]
  IN IF h.rc = "stall" THEN Fail(e)
     ELSE Reply([e EXCEPT !.st = "dfuDNLOAD_IDLE", !.total = @ + n], "zlp")

\* seeded fault: a new download goes on where the last one ended
DnloadNoRestart(d, n, first) ==
  IF n > PagePackets THEN Reply(AddressError(d), "stall")
  ELSE IF n = 0 THEN Reply([d EXCEPT !.st = "dfuMANIFEST_SYNC"], "zlp")
  ELSE IF d.ep # "idle" THEN [d EXCEPT !.reply = "lost"]
  ELSE [d EXCEPT !.ep = "recv", !.len = n, !.buf = <<>>, !.reply = "none"]

\* handle_dnload; the data are read by the interrupt
Dnload(d, n, first) ==
  LET e == IF first THEN [d EXCEPT !.total = 0] ELSE d
  IN IF n > PagePackets THEN Reply(AddressError(d), "stall")
     ELSE IF n = 0 THEN Reply([e EXCEPT !.st = "dfuMANIFEST_SYNC"], "zlp")
     ELSE IF d.ep # "idle" THEN [e EXCEPT !.reply = "lost"]
     ELSE [e EXCEPT !.ep = "recv", !.len = n, !.buf = <<>>, !.reply = "none"]

-----------------------------------------------------------------------------
(* Upload                                                                   *)

Least(a, b) == IF a < b THEN a ELSE b

\* handle_upload: what the host gets is counted when it has been sent; DFU_RET_STALL
\* is returned as a length, and nobody stalls the endpoint
Upload(d, n, first) ==
  LET e == IF first THEN [d EXCEPT !.total = 0] ELSE d
      m == Least(n, FlashSize - e.total)
      back(f, short) == IF ~first /\ short THEN [f EXCEPT !.st = "dfuIDLE"] ELSE f
  IN IF n > PagePackets THEN back([AddressError(e) EXCEPT !.reply = "lost"], TRUE)
     ELSE IF d.ep # "idle" THEN back([e EXCEPT !.reply = "lost"], TRUE)
     ELSE back([e EXCEPT !.ep = "send", !.up = m, !.reply = "data"], m < n)

-----------------------------------------------------------------------------
(* Requests                                                                 *)

\* handle_getstatus: manifestation is over as soon as it is asked for
GetStatus(d) ==
  Reply([d EXCEPT !.st = IF @ = "dfuMANIFEST_SYNC" THEN "dfuMANIFEST" ELSE @], "data")

\* seeded fault: an error is reported but cannot be left
HandleNoClear(d, req, n) ==
  CASE req = "GETSTATUS" /\ d.st # "dfuMANIFEST" -> GetStatus(d)
    [] req = "GETSTATUS" /\ d.st = "dfuMANIFEST" -> GetStatus([d EXCEPT !.st = "dfuIDLE", !.past = TRUE])
    [] req = "GETSTATE" -> Reply(d, "data")
    [] req = "ABORT" /\ d.st \in {"dfuIDLE", "dfuDNLOAD_IDLE", "dfuUPLOAD_IDLE"} -> Reply([d EXCEPT !.st = "dfuIDLE"], "zlp")
    [] req = "DNLOAD" /\ d.st = "dfuIDLE" /\ n > 0 -> Dnload([d EXCEPT !.st = "dfuDNLOAD_SYNC"], n, TRUE)
    [] req = "DNLOAD" /\ d.st = "dfuDNLOAD_IDLE" -> Dnload([d EXCEPT !.st = "dfuDNLOAD_SYNC"], n, FALSE)
    [] req = "UPLOAD" /\ d.st \in {"dfuIDLE", "dfuUPLOAD_IDLE"} -> Upload([d EXCEPT !.st = "dfuUPLOAD_IDLE"], n, d.st = "dfuIDLE")
    [] OTHER -> Fail(d)

\* USBDFU_DFU_RequestHandler: what is not accepted in a state leads to dfuERROR
Handle(d, req, n) ==
  CASE req = "GETSTATUS" /\ d.st # "dfuMANIFEST" -> GetStatus(d)
    [] req = "GETSTATUS" /\ d.st = "dfuMANIFEST" ->
         GetStatus([d EXCEPT !.st = "dfuIDLE", !.past = TRUE])
    [] req = "GETSTATE" -> Reply(d, "data")
    [] req = "ABORT" /\ d.st \in {"dfuIDLE", "dfuDNLOAD_IDLE", "dfuUPLOAD_IDLE"} ->
         Reply([d EXCEPT !.st = "dfuIDLE"], "zlp")
    [] req = "CLRSTATUS" /\ d.st = "dfuERROR" ->
         Reply([d EXCEPT !.st = "dfuIDLE", !.status = "OK"], "zlp")
    [] req = "DNLOAD" /\ d.st = "dfuIDLE" /\ n > 0 ->
         Dnload([d EXCEPT !.st = "dfuDNLOAD_SYNC"], n, TRUE)
    [] req = "DNLOAD" /\ d.st = "dfuDNLOAD_IDLE" ->
         Dnload([d EXCEPT !.st = "dfuDNLOAD_SYNC"], n, FALSE)
    [] req = "UPLOAD" /\ d.st \in {"dfuIDLE", "dfuUPLOAD_IDLE"} ->
         Upload([d EXCEPT !.st = "dfuUPLOAD_IDLE"], n, d.st = "dfuIDLE")
    [] OTHER -> Fail(d)

\* an answer or an upload has been sent, k packets of it
Sent(d, k) == [d EXCEPT !.ep = "idle", !.total = @ + k, !.up = 0]

\* UDP_EndpointHandler, SETUP: a transfer that has not come to its end is completed,
\* with success and what was transferred so far, before the request is handled
Ended(d, w, k) ==
  IF d.ep = "recv" THEN DnloadCb(d, w) ELSE IF d.ep = "send" THEN Sent(d, k) ELSE d

\* USBDFU_OverrideEnterDFU: whether the application is started.  Its first two words
\* must look like a stack pointer and a reset vector, which others may do too.
StartsApp(flash) ==
  IF flash[0] # Garbage /\ flash[0][2] = 0 THEN {TRUE} ELSE BOOLEAN
=============================================================================
