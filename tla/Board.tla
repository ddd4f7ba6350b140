--------------------------------- MODULE Board ---------------------------------
(***************************************************************************)
(* The board from reset to reset: the bootloader or the application runs,   *)
(* the host downloads applications, detaches, selects configurations, and   *)
(* resets or suspends the bus at any moment.                                *)
(*                                                                         *)
(* The application's main loop (apps/cardem/main.c) is modelled read by read *)
(* and assignment by assignment, because the USB interrupt changes           *)
(* simtrace_config, which is volatile, and the device state between any two  *)
(* of them.  What a mode does is in CardEmu.                                 *)
(***************************************************************************)
EXTENDS Dfu, FiniteSets

CONSTANTS
  MaxImages,  \* bound: downloads the host begins
  Phone       \* CFG_NUM_PHONE, the configuration with a mode of its own

ASSUME BoardAssumption == MaxImages \in Nat /\ Phone \in Nat \ {0}

VARIABLES
  mode,    \* the program that runs: "dfu" or "app"
  d,       \* the bootloader's state, see Dfu
  host,    \* the host's download: on, image number, packets acknowledged, and the
           \* image and length of the last one completed
  usb,     \* deviceState of USBD.c, and the state before a suspension
  cfg,     \* simtrace_config
  last,    \* last_simtrace_config
  inited,  \* history: the configuration whose init was called and exit was not, 0: none
  pc,      \* where the application's main() is
  raced,   \* history: the configuration changed between an init and the assignment
           \* of last_simtrace_config
  moved    \* history: the configuration changed after the read on which the call
           \* that comes next was decided

appVars == <<usb, cfg, last, inited, pc, raced, moved>>
vars == <<mode, d, host, appVars>>

\* The array slot 0 is empty; CFG_NUM_VERSION is out of its bounds.
Configs == {0, Phone, Phone + 1}
NewHost == [on |-> FALSE, image |-> 0, pos |-> 0, done |-> 0, len |-> FlashSize - 1]
AppStart == /\ usb' = [now |-> "powered", before |-> "powered"]
            /\ cfg' = Phone /\ last' = Phone /\ inited' = 0 /\ pc' = "wait"
            /\ raced' = FALSE /\ moved' = FALSE

\* the factory's application is image 0
Init ==
  /\ mode = "app"
  /\ d = Booted([k \in 0..FlashSize - 1 |-> <<0, k>>], FALSE, FALSE)
  /\ host = NewHost
  /\ usb = [now |-> "powered", before |-> "powered"]
  /\ cfg = Phone /\ last = Phone /\ inited = 0 /\ pc = "wait"
  /\ raced = FALSE /\ moved = FALSE

-----------------------------------------------------------------------------
(* Resets                                                                   *)

\* ResetException: into the application unless the bootloader is wanted; .dfudata is
\* relocated, so that nothing of the last session is left
BootInto(m) ==
  /\ mode' = m
  /\ d' = Booted(d.flash, d.bad, d.dirty)
  /\ host' = [host EXCEPT !.on = FALSE]
  /\ AppStart

Boot == \E app \in StartsApp(d.flash) : BootInto(IF app THEN "app" ELSE "dfu")

\* a watchdog reset or the loss of power; a page being written is lost with it
PowerLoss ==
  /\ \/ Boot
     \/ /\ d.ep = "recv" /\ d.alt = "flash" /\ d.total + Len(d.buf) < FlashSize
        /\ LET flash == Stored(d.flash, d.total, d.buf, FALSE)
           IN \E app \in StartsApp(flash) :
                /\ mode' = IF app THEN "app" ELSE "dfu"
                /\ d' = Booted(flash, d.bad, TRUE)
                /\ host' = [host EXCEPT !.on = FALSE]
                /\ AppStart

\* the end of a bus reset in the bootloader (USBD_IrqHandler, USBD_ResetHandler): a
\* pending transfer is dropped without its call-back
BusResetDfu ==
  /\ mode = "dfu"
  /\ IF d.past THEN Boot
     ELSE /\ d' = [d EXCEPT !.ep = "idle", !.len = 0, !.buf = <<>>, !.up = 0, !.reply = "lost"]
          /\ host' = [host EXCEPT !.on = FALSE]
          /\ UNCHANGED <<mode, appVars>>

-----------------------------------------------------------------------------
(* The host and the bootloader                                              *)

\* The host's part in a request: it begins a download, goes on with it or gives it
\* up; it does so too when a request of the download was not answered well.
HostSends(req) ==
  LET good == d.reply \in {"zlp", "data"}
  IN host' = CASE req = "DNLOAD" /\ ~host.on -> [host EXCEPT !.on = TRUE, !.image = @ + 1, !.pos = 0]
               [] req \in {"DNLOAD", "GETSTATUS", "GETSTATE"} /\ host.on -> [host EXCEPT !.on = good]
               [] OTHER -> [host EXCEPT !.on = FALSE]

\* The host begins a download when the bootloader is idle, and goes on with it when
\* the last request was answered well.
HostMay(req, n) ==
  req = "DNLOAD" =>
    IF host.on THEN d.reply \in {"zlp", "data"}
    ELSE d.st = "dfuIDLE" /\ n > 0 /\ host.image < MaxImages

\* the host ends its download with an empty block; the image is complete
Finishes(req, n, e) ==
  req = "DNLOAD" /\ n = 0 /\ host.on /\ e.st = "dfuMANIFEST_SYNC" /\ e.reply = "zlp"

\* a request arrives while the last one may still be going on
Setup(req, n) ==
  /\ mode = "dfu" /\ HostMay(req, n)
  /\ \E w \in Outcome, k \in 0..d.up :
       /\ w # "written" => d.ep = "recv"
       /\ LET e == Handle(Ended(d, w, k), req, n)
          IN IF ~Finishes(req, n, e) THEN d' = e /\ HostSends(req)
             ELSE IF d.alt = "ram" THEN d' = e /\ host' = [host EXCEPT !.on = FALSE]
             ELSE /\ d' = [e EXCEPT !.dirty = FALSE]
                  /\ host' = [host EXCEPT !.on = FALSE, !.done = host.image, !.len = host.pos]
  /\ UNCHANGED <<mode, appVars>>

\* SET_INTERFACE: the host chooses the partition before it begins
SetInterface ==
  /\ mode = "dfu" /\ ~host.on /\ d.ep # "recv" /\ d.st = "dfuIDLE"
  /\ \E a \in Partition : d' = [Reply(Sent(d, d.up), "zlp") EXCEPT !.alt = a]
  /\ UNCHANGED <<mode, host, appVars>>

\* a packet of the page; the last one completes the transfer
Packet ==
  /\ mode = "dfu" /\ d.ep = "recv"
  /\ LET e == [d EXCEPT !.buf = Append(@, <<host.image, host.pos + Len(@)>>)]
     IN IF Len(e.buf) < d.len THEN d' = e /\ UNCHANGED host
        ELSE \E w \in Outcome :
               /\ d' = DnloadCb(e, w)
               /\ host' = IF d'.reply = "zlp" THEN [host EXCEPT !.pos = @ + d.len] ELSE host
  /\ UNCHANGED <<mode, appVars>>

\* the host has taken the answer
AnswerSent ==
  /\ mode = "dfu" /\ d.ep = "send"
  /\ d' = Sent(d, d.up)
  /\ UNCHANGED <<mode, host, appVars>>

\* A host that gave up asks for the state and clears what it finds.
Recover ==
  /\ ~host.on
  /\ d.st # "dfuIDLE"
  /\ Setup(CASE d.st = "dfuERROR" -> "CLRSTATUS"
             [] d.st \in {"dfuMANIFEST_SYNC", "dfuMANIFEST"} -> "GETSTATUS"
             [] OTHER -> "ABORT", 1)

-----------------------------------------------------------------------------
(* The host and the application                                             *)

\* the application takes interrupts: not in the handler of a fault
Alive == mode = "app" /\ pc # "fault"

\* DETACH: the application sets the magic and resets the processor
Detach ==
  /\ Alive /\ usb.now \in {"address", "configured"}
  /\ BootInto("dfu")

\* USBD_SetAddress after a bus reset and USBD_ResetHandler
Enumerate ==
  /\ Alive /\ usb.now # "suspended"
  /\ \E s \in {"default", "address"} : usb' = [usb EXCEPT !.now = s]
  /\ UNCHANGED <<mode, d, host, cfg, last, inited, pc, raced, moved>>

\* SetConfiguration of USBDDriver.c, USBDDriverCallbacks_ConfigurationChanged
SetConfiguration(c) ==
  /\ Alive /\ usb.now \in {"address", "configured"}
  /\ usb' = [usb EXCEPT !.now = IF c = 0 THEN "address" ELSE "configured"]
  /\ cfg' = IF c <= Phone THEN c ELSE cfg
  /\ raced' = (raced \/ (pc = "setlast" /\ cfg' # cfg))
  /\ moved' = (moved \/ (pc \in {"callInit", "run", "callRun"} /\ cfg' # cfg))
  /\ UNCHANGED <<mode, d, host, last, inited, pc>>

\* USBD_SuspendHandler, USBD_ResumeHandler
Suspend ==
  /\ Alive /\ usb.now # "suspended"
  /\ usb' = [now |-> "suspended", before |-> usb.now]
  /\ UNCHANGED <<mode, d, host, cfg, last, inited, pc, raced, moved>>

Resume ==
  /\ Alive /\ usb.now = "suspended"
  /\ usb' = [usb EXCEPT !.now = usb.before]
  /\ UNCHANGED <<mode, d, host, cfg, last, inited, pc, raced, moved>>

\* main() of the application
Main(from, to) == mode = "app" /\ pc = from /\ pc' = to /\ UNCHANGED <<mode, d, host, usb, cfg>>

\* until the device is configured; then configure() of every mode
MainStart ==
  /\ Main("wait", "init")
  /\ usb.now = "configured"
  /\ UNCHANGED <<last, inited, raced, moved>>

\* the board is reset when the device is not configured, or suspended
MainCheckUsb ==
  /\ mode = "app" /\ pc = "loop"
  /\ IF usb.now = "configured"
     THEN pc' = "compare" /\ UNCHANGED <<mode, d, host, usb, cfg, last, inited, raced, moved>>
     ELSE Boot

MainCompare ==
  /\ Main("compare", IF last # cfg THEN "exit" ELSE "run")
  /\ moved' = FALSE
  /\ UNCHANGED <<last, inited, raced>>

\* config_func_ptrs[last_simtrace_config].exit()
MainExit ==
  /\ Main("exit", "init")
  /\ inited' = IF last = 0 THEN inited ELSE 0
  /\ UNCHANGED <<last, raced, moved>>

\* seeded fault: looks whether the old configuration has an init
MainTestInitOld ==
  /\ Main("init", IF last = 0 THEN "setlast" ELSE "callInit")
  /\ moved' = FALSE
  /\ UNCHANGED <<last, inited, raced>>

\* if (config_func_ptrs[simtrace_config].init)
MainTestInit ==
  /\ Main("init", IF cfg = 0 THEN "setlast" ELSE "callInit")
  /\ moved' = FALSE
  /\ UNCHANGED <<last, inited, raced>>

\* config_func_ptrs[simtrace_config].init(), of the configuration read again; to call
\* the null pointer of slot 0 is a fault, which leaves only the watchdog
MainCallInit ==
  /\ Main("callInit", IF cfg = 0 THEN "fault" ELSE "setlast")
  /\ inited' = IF cfg = 0 THEN inited ELSE cfg
  /\ UNCHANGED <<last, raced, moved>>

\* last_simtrace_config = simtrace_config
MainSetLast ==
  /\ Main("setlast", "loop")
  /\ last' = cfg
  /\ UNCHANGED <<inited, raced, moved>>

\* if (config_func_ptrs[simtrace_config].run)
MainTestRun ==
  /\ Main("run", IF cfg = 0 THEN "loop" ELSE "callRun")
  /\ UNCHANGED <<last, inited, raced, moved>>

\* config_func_ptrs[simtrace_config].run(), of the configuration read again: the body
\* of CardEmu's main loop
MainCallRun ==
  /\ Main("callRun", IF cfg = 0 THEN "fault" ELSE "loop")
  /\ UNCHANGED <<last, inited, raced, moved>>

HostDfu ==
  \/ \E req \in Request \ {"DNLOAD", "UPLOAD"} : Setup(req, 0)
  \/ \E n \in 0..PagePackets + 1 : Setup("DNLOAD", n) \/ Setup("UPLOAD", n)
  \/ SetInterface

HostApp ==
  \/ Detach \/ Enumerate \/ Suspend \/ Resume
  \/ \E c \in Configs : SetConfiguration(c)

MainStep ==
  \/ MainStart \/ MainCheckUsb \/ MainCompare \/ MainExit
  \/ MainTestInit \/ MainCallInit \/ MainSetLast \/ MainTestRun \/ MainCallRun

Next ==
  \/ PowerLoss \/ BusResetDfu \/ HostDfu \/ HostApp
  \/ Packet \/ AnswerSent \/ MainStep \/ Recover

Spec == Init /\ [][Next]_vars

\* A host that gave up a download brings the bootloader back to a state it can use.
FairSpec == Spec /\ WF_vars(Recover)

-----------------------------------------------------------------------------
(* Properties                                                               *)

\* No upload and no download goes beyond the end of the partition, and no transfer
\* beyond a page.
TypeOK ==
  /\ mode \in {"dfu", "app"}
  /\ d.st \in DfuState /\ d.status \in {"OK", "errADDRESS"} /\ d.past \in BOOLEAN
  /\ d.total \in 0..FlashSize /\ d.alt \in Partition
  /\ d.ep \in {"idle", "recv", "send"} /\ d.len \in 0..PagePackets
  /\ d.buf \in Seq(Nat \X Nat) /\ Len(d.buf) <= d.len
  /\ d.up \in 0..PagePackets /\ d.total + d.up <= FlashSize /\ d.reply \in Answer
  /\ DOMAIN d.flash = 0..FlashSize - 1 /\ {d.bad, d.dirty} \subseteq BOOLEAN
  /\ host.on \in BOOLEAN /\ {host.image, host.done} \subseteq 0..MaxImages
  /\ {host.pos, host.len} \subseteq 0..FlashSize
  /\ {usb.now, usb.before} \subseteq {"powered", "default", "address", "configured", "suspended"}
  /\ usb.before # "suspended"
  /\ {cfg, last, inited} \subseteq {0, Phone}
  /\ pc \in {"wait", "loop", "compare", "exit", "init", "callInit", "setlast", "run",
            "callRun", "fault"}
  /\ raced \in BOOLEAN /\ moved \in BOOLEAN

\* An application that runs is the image of the last download that completed, each of
\* its packets in its place, unless a later download was interrupted or the flash did
\* not take the data.  It is broken by an offset that survives a download, an upload or
\* a bus reset, by a page written twice, or one acknowledged before it is written.
AppIsWhole ==
  mode = "app" /\ ~d.dirty /\ ~d.bad => \A k \in 0..host.len - 1 : d.flash[k] = <<host.done, k>>

\* While a download goes on, what the host knows to be acknowledged is in the flash, at
\* the offset of the bootloader; except where the comparison's result was lost.
Acknowledged ==
  host.on /\ d.alt = "flash" /\ d.st = "dfuDNLOAD_IDLE" /\ d.reply \in {"zlp", "data"} =>
    d.total = host.pos /\ (~d.bad => \A k \in 0..host.pos - 1 : d.flash[k] = <<host.image, k>>)

\* What apps/dfu/main.c sets out to do: "DFU download flash data written not correct" is
\* answered with a stall, so that an acknowledged page is one that was written.
AckedIsWritten ==
  host.on /\ d.alt = "flash" /\ d.st = "dfuDNLOAD_IDLE" /\ d.reply \in {"zlp", "data"} =>
    \A k \in 0..host.pos - 1 : d.flash[k] = <<host.image, k>>

\* What the main loop calls, in whatever order the host's requests interrupt it: exit()
\* only of the mode whose init() was called, init() only when no mode is initialised,
\* run() only of the mode that is, and never slot 0's null pointer.  The code keeps this
\* only as far as the configuration is still the one it decided on when it reads it again
\* for the call (~moved, from one comparison to the next), and as long as none came
\* between an init and the assignment of last_simtrace_config (raced).
RunsInitialised ==
  /\ pc = "exit" => inited = last \/ raced
  /\ pc = "callInit" => (inited = 0 \/ raced) /\ (cfg # 0 \/ moved)
  /\ pc = "callRun" => moved \/ (cfg # 0 /\ (cfg = inited \/ raced))

\* A host that gave up gets the bootloader back to dfuIDLE, from every state and every
\* error, or the board starts the application.
Recovers == (mode = "dfu" /\ ~host.on) ~> (mode = "app" \/ d.st = "dfuIDLE")
=============================================================================
