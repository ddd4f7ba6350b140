------------------------------ MODULE Board_proofs ------------------------------
(***************************************************************************)
(* Proofs about Board and Dfu, for partitions and pages of any size: the    *)
(* types and the bounds of the partition; that a download acknowledged is   *)
(* in the flash and an application that runs is whole; and that the main    *)
(* loop calls only the mode it should.                                      *)
(*                                                                         *)
(* The argument for the download: while one goes on, the bootloader is in   *)
(* dfuDNLOAD_IDLE whenever the host has a good answer, and its offset is    *)
(* the host's (InStep); while a page is received, its packets are the       *)
(* host's next ones (Receiving).  What the flash holds changes only with    *)
(* dirty set, and dirty is cleared only at the end of a download.           *)
(***************************************************************************)
EXTENDS Board, SequenceTheorems, TLAPS

Cells == (Nat \X Nat) \cup {Garbage}
Flash == [0..FlashSize - 1 -> Cells]
Packets == Seq(Nat \X Nat)

DType == [st : DfuState, status : {"OK", "errADDRESS"}, past : BOOLEAN, total : Nat,
          alt : Partition, ep : {"idle", "recv", "send"}, len : Nat, buf : Packets,
          up : Nat, reply : Answer, flash : Flash, bad : BOOLEAN, dirty : BOOLEAN]

HostType == [on : BOOLEAN, image : 0..MaxImages, pos : 0..FlashSize,
             done : 0..MaxImages, len : 0..FlashSize]

\* The bootloader's state: no transfer leaves the partition or exceeds a page, and
\* there is a buffer only while a page is received.
DOk(e) ==
  /\ e \in DType
  /\ e.total + e.up <= FlashSize /\ e.up <= PagePackets /\ e.len <= PagePackets
  /\ e.ep # "send" => e.up = 0
  /\ e.ep = "recv" => e.reply = "none" /\ Len(e.buf) < e.len
  /\ e.ep # "recv" => e.buf = <<>> /\ e.len = 0

\* Between two transfers.
Calm(e) == DOk(e) /\ e.ep # "recv" /\ e.up = 0

Good(e) == e.reply \in {"zlp", "data"}
Holds(flash, image, len) == \A k \in 0..len - 1 : flash[k] = <<image, k>>
InPlace(e) ==
  e.total = host.pos /\ (e.alt = "flash" /\ ~e.bad => Holds(e.flash, host.image, host.pos))

Receiving ==
  d.ep = "recv" => /\ host.on /\ InPlace(d)
                   /\ \A i \in 1..Len(d.buf) : d.buf[i] = <<host.image, host.pos + i - 1>>
InStep == host.on /\ Good(d) => d.st = "dfuDNLOAD_IDLE" /\ InPlace(d)
NoUpload == host.on => d.up = 0
Whole == ~d.dirty /\ ~d.bad => Holds(d.flash, host.done, host.len)

\* The inductive invariant of the download ...
Download == DOk(d) /\ host \in HostType /\ Receiving /\ InStep /\ NoUpload /\ Whole

\* ... of the application's main loop ...
Configured ==
  /\ ~raced => /\ pc \in {"wait", "init", "callInit"} => inited = 0
               /\ pc = "setlast" => inited = cfg
               /\ pc \in {"loop", "compare", "exit", "run", "callRun"} => inited = last
  /\ ~moved => /\ pc \in {"callInit", "callRun"} => cfg # 0
               /\ pc \in {"run", "callRun"} => cfg = last

\* ... and of both.
AppType ==
  /\ mode \in {"dfu", "app"}
  /\ usb = [now |-> usb.now, before |-> usb.before]
  /\ {usb.now, usb.before} \subseteq {"powered", "default", "address", "configured", "suspended"}
  /\ usb.before # "suspended"
  /\ {cfg, last, inited} \subseteq {0, Phone}
  /\ pc \in {"wait", "loop", "compare", "exit", "init", "callInit", "setlast", "run",
            "callRun", "fault"}
  /\ raced \in BOOLEAN /\ moved \in BOOLEAN

IInv == Download /\ AppType /\ Configured

-----------------------------------------------------------------------------
(* The main loop and the host's part in the application                      *)

LEMMA AppStartInv == ASSUME AppStart, mode' \in {"dfu", "app"} PROVE AppType' /\ Configured'
  BY BoardAssumption DEF AppStart, AppType, Configured

LEMMA MainStepInv ==
  ASSUME AppType, Configured, MainStep, ~MainCheckUsb
  PROVE  AppType' /\ Configured' /\ UNCHANGED <<mode, d, host>>
<1>1. CASE MainStart
  BY <1>1 DEF MainStart, Main, AppType, Configured
<1>2. CASE MainSetLast
  BY <1>2 DEF MainSetLast, Main, AppType, Configured
<1>3. CASE MainCompare
  BY <1>3 DEF MainCompare, Main, AppType, Configured
<1>4. CASE MainExit
  BY <1>4 DEF MainExit, Main, AppType, Configured
<1>5. CASE MainTestInit
  BY <1>5 DEF MainTestInit, Main, AppType, Configured
<1>6. CASE MainCallInit
  BY <1>6 DEF MainCallInit, Main, AppType, Configured
<1>7. CASE MainTestRun
  BY <1>7 DEF MainTestRun, Main, AppType, Configured
<1>8. CASE MainCallRun
  BY <1>8 DEF MainCallRun, Main, AppType, Configured
<1> QED BY <1>1, <1>2, <1>3, <1>4, <1>5, <1>6, <1>7, <1>8 DEF MainStep

LEMMA SetConfigurationInv ==
  ASSUME AppType, Configured, NEW c \in Configs, SetConfiguration(c)
  PROVE  AppType' /\ Configured' /\ UNCHANGED <<mode, d, host>>
<1>1. cfg' \in {0, Phone}
  BY BoardAssumption DEF SetConfiguration, Configs, AppType
<1>2. usb' = [now |-> IF c = 0 THEN "address" ELSE "configured", before |-> usb.before]
  BY DEF SetConfiguration, AppType
<1>3. /\ raced' \in BOOLEAN /\ moved' \in BOOLEAN
      /\ ~raced' => ~raced /\ (pc = "setlast" => cfg' = cfg)
      /\ ~moved' => ~moved /\ (pc \in {"callInit", "run", "callRun"} => cfg' = cfg)
  <2>1. /\ raced' = (raced \/ (pc = "setlast" /\ cfg' # cfg))
        /\ moved' = (moved \/ (pc \in {"callInit", "run", "callRun"} /\ cfg' # cfg))
    BY DEF SetConfiguration
  <2> QED BY <2>1, Zenon
<1>4. UNCHANGED <<mode, d, host, last, inited, pc>>
  BY DEF SetConfiguration
<1>5. AppType'
  BY <1>1, <1>2, <1>3, <1>4 DEF AppType
<1>6. Configured'
  BY <1>3, <1>4 DEF Configured
<1> QED BY <1>4, <1>5, <1>6

LEMMA HostAppInv ==
  ASSUME AppType, Configured, HostApp, ~Detach
  PROVE  AppType' /\ Configured' /\ UNCHANGED <<mode, d, host>>
<1>1. CASE Enumerate
  <2>1. PICK s \in {"default", "address"} : usb' = [usb EXCEPT !.now = s]
    BY <1>1 DEF Enumerate
  <2>2. usb' = [now |-> s, before |-> usb.before]
    BY <2>1 DEF AppType
  <2> QED BY <2>2, <1>1 DEF Enumerate, AppType, Configured
<1>2. CASE Suspend
  BY <1>2 DEF Suspend, AppType, Configured
<1>3. CASE Resume
  <2>1. usb' = [now |-> usb.before, before |-> usb.before]
    BY <1>3 DEF Resume, AppType
  <2> QED BY <2>1, <1>3 DEF Resume, AppType, Configured
<1>4. CASE \E c \in Configs : SetConfiguration(c)
  BY <1>4, SetConfigurationInv
<1> QED BY <1>1, <1>2, <1>3, <1>4 DEF HostApp

-----------------------------------------------------------------------------
(* The bootloader's operators                                               *)

\* What a transfer does to the partition: nothing, or it is marked as written to.
Stores(e, f) ==
  /\ f.alt = e.alt
  /\ f.dirty = TRUE \/ (f.flash = e.flash /\ f.dirty = e.dirty)
  /\ f.bad = FALSE => e.bad = FALSE

\* What a request does: nothing.
Keeps(e, f) == f.alt = e.alt /\ f.flash = e.flash /\ f.dirty = e.dirty /\ f.bad = e.bad

LEMMA PrefixType ==
  ASSUME NEW flash \in Flash, NEW at \in Nat, NEW buf \in Packets, NEW good \in BOOLEAN
  PROVE  Stored(flash, at, buf, good) \in Flash
<1>1. DOMAIN flash = 0..FlashSize - 1
  BY DEF Flash
<1>2. ASSUME NEW k \in 0..FlashSize - 1
      PROVE  (IF k \in at .. at + Len(buf) - 1
              THEN IF good THEN buf[k - at + 1] ELSE Garbage ELSE flash[k]) \in Cells
  <2>1. flash[k] \in Cells /\ Garbage \in Cells
    BY DEF Flash, Cells
  <2>2. ASSUME k \in at .. at + Len(buf) - 1 PROVE buf[k - at + 1] \in Cells
    <3>1. Len(buf) \in Nat /\ k \in Nat
      BY DfuAssumption DEF Packets
    <3>2. k - at + 1 \in 1..Len(buf)
      BY <2>2, <3>1
    <3>3. buf[k - at + 1] \in Nat \X Nat
      BY <3>2 DEF Packets
    <3> QED BY <3>3 DEF Cells
  <2> QED BY <2>1, <2>2
<1> QED BY <1>1, <1>2 DEF Stored, Flash

LEMMA ReplyCalm ==
  ASSUME NEW e, DOk(e), e.ep # "recv", NEW r \in {"zlp", "data", "stall"}
  PROVE  /\ DOk(Reply(e, r)) /\ Reply(e, r).ep # "recv" /\ (e.up = 0 => Reply(e, r).up = 0)
         /\ Keeps(e, Reply(e, r)) /\ Reply(e, r).st = e.st /\ Reply(e, r).total = e.total
         /\ Reply(e, r).reply = (IF e.ep = "idle" THEN r ELSE "lost")
<1>1. CASE e.ep # "idle"
  <2> DEFINE f == [e EXCEPT !.reply = "lost"]
  <2>1. /\ f \in DType /\ f.st = e.st /\ f.total = e.total /\ f.up = e.up /\ f.len = e.len
        /\ f.ep = e.ep /\ f.buf = e.buf /\ f.reply = "lost"
        /\ f.alt = e.alt /\ f.flash = e.flash /\ f.dirty = e.dirty /\ f.bad = e.bad
    BY DEF DOk, DType, Answer
  <2>2. Reply(e, r) = f
    BY <1>1 DEF Reply
  <2> HIDE DEF f
  <2> QED BY <2>1, <2>2, <1>1 DEF DOk, Keeps
<1>2. CASE e.ep = "idle"
  <2> DEFINE f == [e EXCEPT !.reply = r, !.ep = IF r = "stall" THEN "idle" ELSE "send", !.up = 0]
  <2>1. /\ f \in DType /\ f.st = e.st /\ f.total = e.total /\ f.up = 0 /\ f.len = e.len
        /\ f.ep \in {"idle", "send"} /\ f.buf = e.buf /\ f.reply = r
        /\ f.alt = e.alt /\ f.flash = e.flash /\ f.dirty = e.dirty /\ f.bad = e.bad
    BY DEF DOk, DType, Answer
  <2>2. Reply(e, r) = f
    BY <1>2 DEF Reply
  <2>3. e.total <= FlashSize /\ e.total \in Nat /\ e.up \in Nat /\ FlashSize \in Nat /\ PagePackets \in Nat
    BY DfuAssumption DEF DOk, DType
  <2> HIDE DEF f
  <2> QED BY <2>1, <2>2, <2>3, <1>2 DEF DOk, Keeps
<1> QED BY <1>1, <1>2

\* The state and the status change without consequence for the transfers.
Same(e, f) ==
  /\ f \in DType /\ f.total = e.total /\ f.up = e.up /\ f.len = e.len /\ f.ep = e.ep
  /\ f.buf = e.buf /\ f.reply = e.reply
  /\ f.alt = e.alt /\ f.flash = e.flash /\ f.dirty = e.dirty /\ f.bad = e.bad

LEMMA SameOk == ASSUME NEW e, NEW f, DOk(e), Same(e, f) PROVE DOk(f) /\ Keeps(e, f)
  BY DEF Same, DOk, Keeps

\* The end of a page: what is answered, and what became of the flash.
LEMMA DnloadCbFacts ==
  ASSUME NEW e, e \in DType, e.total <= FlashSize, NEW w \in Outcome
  PROVE  LET f == DnloadCb(e, w) IN
         /\ DOk(f) /\ f.ep # "recv" /\ f.up = 0 /\ Stores(e, f) /\ f.reply \in {"zlp", "stall"}
         /\ f.reply = "zlp" =>
              /\ f.st = "dfuDNLOAD_IDLE" /\ f.total = e.total + Len(e.buf) /\ f.total < FlashSize
              /\ e.alt = "flash" /\ f.bad = FALSE =>
                   f.flash = Stored(e.flash, e.total, e.buf, TRUE)
<1> DEFINE g == [e EXCEPT !.ep = "idle"]
           n == Len(e.buf)
<1>1. n \in Nat /\ e.total \in Nat /\ FlashSize \in Nat /\ PagePackets \in Nat
  BY DfuAssumption DEF DType, Packets
<1>2. /\ g \in DType /\ g.total = e.total /\ g.buf = e.buf /\ g.alt = e.alt /\ g.flash = e.flash
      /\ g.bad = e.bad /\ g.dirty = e.dirty /\ g.ep = "idle"
  BY DEF DType
<1> DEFINE hd == HandleDnload(g, w).d
           rc == HandleDnload(g, w).rc
<1> HIDE DEF g
<1>3. /\ hd \in DType /\ hd.total = e.total /\ hd.ep = "idle" /\ Stores(e, hd)
      /\ rc \in {"zlp", "stall"}
      /\ rc = "zlp" => /\ e.total + n < FlashSize
                       /\ e.alt = "flash" /\ hd.bad = FALSE =>
                            hd.flash = Stored(e.flash, e.total, e.buf, TRUE)
  <2>1. CASE e.total + n >= FlashSize
    <3>1. hd = [g EXCEPT !.st = "dfuERROR", !.status = "errADDRESS"] /\ rc = "stall"
      BY <2>1, <1>2 DEF HandleDnload, AddressError
    <3> QED BY <3>1, <1>2 DEF DType, Stores, DfuState
  <2>2. CASE e.total + n < FlashSize /\ e.alt = "ram"
    <3>1. hd = g /\ rc = "zlp"
      BY <2>2, <1>1, <1>2 DEF HandleDnload
    <3> QED BY <3>1, <1>2, <2>2 DEF Stores
  <2>3. CASE e.total + n < FlashSize /\ e.alt # "ram" /\ w = "unlockFails"
    <3>1. hd = g /\ rc = "stall"
      BY <2>3, <1>1, <1>2 DEF HandleDnload
    <3> QED BY <3>1, <1>2 DEF Stores
  <2>4. CASE e.total + n < FlashSize /\ e.alt # "ram" /\ w # "unlockFails"
    <3> DEFINE fl == Stored(e.flash, e.total, e.buf, w = "written")
               b == e.bad \/ w = "differs"
    <3>1. hd = [g EXCEPT !.flash = fl, !.dirty = TRUE, !.bad = b]
          /\ rc = IF w = "writeFails" THEN "stall" ELSE "zlp"
      BY <2>4, <1>1, <1>2 DEF HandleDnload
    <3>2. fl \in Flash
      BY <1>1, PrefixType DEF DType
    <3>3. b \in BOOLEAN /\ (b = FALSE => e.bad = FALSE /\ w # "differs")
      BY DEF DType
    <3>4. w = "written" => fl = Stored(e.flash, e.total, e.buf, TRUE)
      OBVIOUS
    <3> HIDE DEF fl, b
    <3>5. hd \in DType /\ hd.total = g.total /\ hd.ep = g.ep /\ hd.alt = g.alt
          /\ hd.flash = fl /\ hd.dirty = TRUE /\ hd.bad = b
      BY <3>1, <3>2, <3>3, <1>2 DEF DType
    <3> HIDE DEF hd
    <3>6. rc = "zlp" /\ b = FALSE => w = "written"
      BY <3>1, <3>3, <2>4 DEF Outcome
    <3> QED BY <3>1, <3>3, <3>4, <3>5, <3>6, <1>2, <2>4 DEF Stores
  <2>5. e.total + n >= FlashSize \/ e.total + n < FlashSize
    BY <1>1
  <2> QED BY <2>1, <2>2, <2>3, <2>4, <2>5, Zenon
<1> DEFINE f0 == [hd EXCEPT !.buf = <<>>, !.len = 0]
           f1 == [f0 EXCEPT !.st = "dfuERROR"]
           f2 == [f0 EXCEPT !.st = "dfuDNLOAD_IDLE", !.total = @ + n]
<1>4. DnloadCb(e, w) = IF rc = "stall" THEN Reply(f1, "stall") ELSE Reply(f2, "zlp")
  BY DEF DnloadCb, Fail, g
<1> HIDE DEF hd, rc
<1>5. /\ f0 \in DType /\ f0.total = e.total /\ f0.ep = "idle" /\ f0.len = 0 /\ f0.buf = <<>>
      /\ f0.alt = hd.alt /\ f0.flash = hd.flash /\ f0.dirty = hd.dirty /\ f0.bad = hd.bad
  <2>1. <<>> \in Packets
    BY DEF Packets
  <2> QED BY <1>3, <2>1 DEF DType
<1> HIDE DEF f0
<1> DEFINE k(x) == [x EXCEPT !.reply = IF rc = "stall" THEN "stall" ELSE "zlp",
                             !.ep = IF rc = "stall" THEN "idle" ELSE "send", !.up = 0]
<1>6. /\ f1 \in DType /\ f1.ep = "idle" /\ f1.total = e.total /\ f1.len = 0 /\ f1.buf = <<>>
      /\ f1.alt = hd.alt /\ f1.flash = hd.flash /\ f1.dirty = hd.dirty /\ f1.bad = hd.bad
  BY <1>5 DEF DType, DfuState
<1>7. /\ f2 \in DType /\ f2.ep = "idle" /\ f2.total = e.total + n /\ f2.len = 0 /\ f2.buf = <<>>
      /\ f2.alt = hd.alt /\ f2.flash = hd.flash /\ f2.dirty = hd.dirty /\ f2.bad = hd.bad
      /\ f2.st = "dfuDNLOAD_IDLE"
  <2>1. f0.total + n \in Nat /\ f0.total + n = e.total + n
    BY <1>1, <1>5
  <2>2. f2 = [f0 EXCEPT !.st = "dfuDNLOAD_IDLE", !.total = f0.total + n]
    OBVIOUS
  <2> HIDE DEF f2, n
  <2>3. f2 \in DType
    BY <2>1, <2>2, <1>5 DEF DType, DfuState
  <2> QED BY <2>1, <2>2, <2>3, <1>5 DEF DType
<1> HIDE DEF f1, f2
<1>8. CASE rc = "stall"
  <2> DEFINE r == [f1 EXCEPT !.reply = "stall", !.ep = "idle", !.up = 0]
  <2>1. DnloadCb(e, w) = r
    BY <1>4, <1>6, <1>8 DEF Reply
  <2>2. /\ r \in DType /\ r.ep = "idle" /\ r.up = 0 /\ r.reply = "stall" /\ r.total = e.total
        /\ r.len = 0 /\ r.buf = <<>>
        /\ r.alt = hd.alt /\ r.flash = hd.flash /\ r.dirty = hd.dirty /\ r.bad = hd.bad
    BY <1>6 DEF DType, Answer
  <2> HIDE DEF r
  <2> QED BY <2>1, <2>2, <1>1, <1>3 DEF DOk, Stores
<1>9. CASE rc = "zlp"
  <2> DEFINE r == [f2 EXCEPT !.reply = "zlp", !.ep = "send", !.up = 0]
  <2>1. DnloadCb(e, w) = r
    BY <1>4, <1>7, <1>9 DEF Reply
  <2>2. /\ r \in DType /\ r.ep = "send" /\ r.up = 0 /\ r.reply = "zlp" /\ r.total = e.total + n
        /\ r.len = 0 /\ r.buf = <<>> /\ r.st = "dfuDNLOAD_IDLE"
        /\ r.alt = hd.alt /\ r.flash = hd.flash /\ r.dirty = hd.dirty /\ r.bad = hd.bad
    BY <1>7 DEF DType, Answer
  <2> HIDE DEF r, n
  <2>3. Stores(e, r)
    BY <2>2, <1>3 DEF Stores
  <2>4. r.total < FlashSize /\ r.total <= FlashSize /\ r.total \in Nat
    BY <2>2, <1>1, <1>3, <1>9
  <2>5. DOk(r)
    BY <2>2, <2>4, <1>1 DEF DOk
  <2>6. e.alt = "flash" /\ r.bad = FALSE => r.flash = Stored(e.flash, e.total, e.buf, TRUE)
    BY <2>2, <1>3, <1>9
  <2> QED BY <2>1, <2>2, <2>3, <2>4, <2>5, <2>6 DEF n
<1> QED BY <1>3, <1>8, <1>9


\* An answer has been sent.
LEMMA SentFacts ==
  ASSUME NEW e, DOk(e), e.ep # "recv", NEW k \in 0..e.up
  PROVE  LET f == Sent(e, k) IN
         /\ Calm(f) /\ f.ep = "idle" /\ Keeps(e, f)
         /\ f.st = e.st /\ f.total = e.total + k /\ f.reply = e.reply
<1>1. e.total \in Nat /\ e.up \in Nat /\ k \in Nat /\ FlashSize \in Nat /\ PagePackets \in Nat
  BY DfuAssumption DEF DOk, DType
<1> DEFINE t == e.total + k
<1>2. t \in Nat /\ t <= FlashSize
  BY <1>1 DEF DOk
<1>3. Sent(e, k) = [e EXCEPT !.ep = "idle", !.total = t, !.up = 0]
  BY DEF Sent
<1> HIDE DEF t
<1> DEFINE f == [e EXCEPT !.ep = "idle", !.total = t, !.up = 0]
<1>4. /\ f \in DType /\ f.ep = "idle" /\ f.total = t /\ f.up = 0 /\ f.len = e.len /\ f.buf = e.buf
      /\ f.st = e.st /\ f.reply = e.reply
      /\ f.alt = e.alt /\ f.flash = e.flash /\ f.dirty = e.dirty /\ f.bad = e.bad
  BY <1>2 DEF DOk, DType
<1> HIDE DEF f
<1>5. Calm(f) /\ Keeps(e, f)
  BY <1>1, <1>2, <1>4 DEF DOk, Calm, Keeps
<1> QED BY <1>3, <1>4, <1>5 DEF f, t

\* A request ends the transfer that is going on.
LEMMA EndedFacts ==
  ASSUME NEW e, DOk(e), NEW w \in Outcome, NEW k \in 0..e.up
  PROVE  LET f == Ended(e, w, k) IN
         /\ Calm(f) /\ Stores(e, f)
         /\ e.ep # "recv" => /\ f.ep = "idle" /\ Keeps(e, f)
                             /\ f.st = e.st /\ f.total = e.total + k /\ f.reply = e.reply
<1>0. e \in DType /\ e.total \in Nat /\ e.up \in Nat /\ FlashSize \in Nat
  BY DfuAssumption DEF DOk, DType
<1>1. CASE e.ep = "recv"
  <2>1. e.total <= FlashSize
    BY <1>0 DEF DOk
  <2>2. Calm(DnloadCb(e, w)) /\ Stores(e, DnloadCb(e, w))
    BY <1>0, <2>1, DnloadCbFacts DEF Calm
  <2> QED BY <1>1, <2>2 DEF Ended
<1>2. CASE e.ep = "send"
  <2>1. Calm(Sent(e, k)) /\ Keeps(e, Sent(e, k)) /\ Sent(e, k).ep = "idle"
        /\ Sent(e, k).st = e.st /\ Sent(e, k).total = e.total + k /\ Sent(e, k).reply = e.reply
    BY <1>2, SentFacts
  <2>2. Ended(e, w, k) = Sent(e, k)
    BY <1>2 DEF Ended
  <2>3. Stores(e, Sent(e, k))
    BY <2>1 DEF Stores, Keeps
  <2> QED BY <2>1, <2>2, <2>3
<1>3. CASE e.ep = "idle"
  <2>1. Ended(e, w, k) = e /\ e.up = 0 /\ k = 0
    BY <1>0, <1>3 DEF Ended, DOk
  <2> QED BY <2>1, <1>0, <1>3 DEF Calm, Stores, Keeps
<1> QED BY <1>0, <1>1, <1>2, <1>3 DEF DType

\* A block of a download: it is refused, or received, or it is the empty one.
LEMMA DnloadFacts ==
  ASSUME NEW e, Calm(e), NEW n \in Nat, NEW first \in BOOLEAN
  PROVE  LET f == Dnload(e, n, first) IN
         /\ DOk(f) /\ Keeps(e, f) /\ f.up = 0
         /\ f.ep = "recv" => n > 0 /\ f.buf = <<>> /\ f.total = IF first THEN 0 ELSE e.total
         /\ Good(f) => n = 0 /\ f.reply = "zlp" /\ f.st = "dfuMANIFEST_SYNC"
<1>1. e.total \in Nat /\ e.total <= FlashSize /\ FlashSize \in Nat /\ PagePackets \in Nat /\ DOk(e)
  BY DfuAssumption DEF Calm, DOk, DType
<1> DEFINE t == IF first THEN 0 ELSE e.total
           g == IF first THEN [e EXCEPT !.total = 0] ELSE e
<1>2. t \in Nat /\ t <= FlashSize
  BY <1>1
<1>3. /\ g \in DType /\ g.total = t /\ g.ep = e.ep /\ g.up = 0 /\ g.len = e.len /\ g.buf = e.buf
      /\ g.alt = e.alt /\ g.flash = e.flash /\ g.dirty = e.dirty /\ g.bad = e.bad
      /\ g.reply = e.reply
  <2>1. CASE first
    BY <2>1, <1>1 DEF Calm, DOk, DType
  <2>2. CASE ~first
    BY <2>2, <1>1 DEF Calm, DOk, DType
  <2> QED BY <2>1, <2>2
<1>4. Calm(g) /\ Keeps(e, g)
  <2> HIDE DEF g, t
  <2> QED BY <1>1, <1>2, <1>3 DEF Calm, DOk, Keeps
<1>5. CASE n > PagePackets
  <2>1. Same(e, AddressError(e))
    BY <1>1 DEF AddressError, Same, DOk, DType, DfuState
  <2>2. DOk(AddressError(e)) /\ AddressError(e).ep = e.ep /\ AddressError(e).up = e.up /\ Keeps(e, AddressError(e))
    BY <2>1, <1>1, SameOk DEF Same
  <2>3. Dnload(e, n, first) = Reply(AddressError(e), "stall")
    BY <1>5 DEF Dnload
  <2>4. LET f == Reply(AddressError(e), "stall") IN
        DOk(f) /\ f.ep # "recv" /\ f.up = 0 /\ Keeps(AddressError(e), f) /\ f.reply \in {"stall", "lost"}
    BY <2>2, ReplyCalm DEF Calm
  <2> QED BY <2>2, <2>3, <2>4 DEF Keeps, Good
<1>6. CASE n = 0
  <2> DEFINE h == [g EXCEPT !.st = "dfuMANIFEST_SYNC"]
  <2> HIDE DEF g
  <2>1. Same(g, h) /\ h.st = "dfuMANIFEST_SYNC"
    BY <1>3 DEF Same, DType, DfuState
  <2> HIDE DEF h
  <2>2. DOk(h) /\ h.ep = g.ep /\ h.up = g.up /\ Keeps(g, h) /\ h.st = "dfuMANIFEST_SYNC"
    BY <2>1, <1>4, SameOk DEF Same, Calm
  <2> USE DEF h
  <2>3. Dnload(e, n, first) = Reply(h, "zlp")
    BY <1>6, <1>1 DEF Dnload, g
  <2> HIDE DEF h
  <2>4. LET f == Reply(h, "zlp") IN
        /\ DOk(f) /\ f.ep # "recv" /\ f.up = 0 /\ Keeps(h, f) /\ f.reply \in {"zlp", "lost"}
        /\ f.st = "dfuMANIFEST_SYNC"
    BY <2>2, <1>3, <1>4, ReplyCalm DEF Calm
  <2> QED BY <2>2, <2>3, <2>4, <1>4, <1>6 DEF Keeps, Good
<1>7. CASE n \in 1..PagePackets /\ e.ep # "idle"
  <2> DEFINE h == [g EXCEPT !.reply = "lost"]
  <2>1. Dnload(e, n, first) = h
    BY <1>1, <1>7 DEF Dnload
  <2> HIDE DEF g
  <2>2. /\ h \in DType /\ h.total = t /\ h.ep = e.ep /\ h.up = 0 /\ h.len = e.len /\ h.buf = e.buf
        /\ h.alt = e.alt /\ h.flash = e.flash /\ h.dirty = e.dirty /\ h.bad = e.bad
        /\ h.reply = "lost"
    BY <1>3 DEF DType, Answer
  <2> HIDE DEF h, t
  <2> QED BY <2>1, <2>2, <1>1, <1>2 DEF Calm, DOk, Keeps, Good
<1>8. CASE n \in 1..PagePackets /\ e.ep = "idle"
  <2> DEFINE h == [g EXCEPT !.ep = "recv", !.len = n, !.buf = <<>>, !.reply = "none"]
  <2>1. Dnload(e, n, first) = h
    BY <1>1, <1>8 DEF Dnload
  <2> HIDE DEF g
  <2>2. /\ h \in DType /\ h.total = t /\ h.ep = "recv" /\ h.up = 0 /\ h.len = n /\ h.buf = <<>>
        /\ h.alt = e.alt /\ h.flash = e.flash /\ h.dirty = e.dirty /\ h.bad = e.bad
        /\ h.reply = "none"
    <3>1. <<>> \in Packets
      BY DEF Packets
    <3> QED BY <1>3, <3>1 DEF DType, Answer
  <2>3. Len(<<>>) = 0
    OBVIOUS
  <2> HIDE DEF h
  <2>4. DOk(h) /\ Keeps(e, h)
    BY <2>2, <2>3, <1>1, <1>2, <1>8 DEF DOk, Keeps
  <2> QED BY <2>1, <2>2, <2>4, <1>8 DEF Good
<1> QED BY <1>1, <1>5, <1>6, <1>7, <1>8

\* A block of an upload.
LEMMA UploadFacts ==
  ASSUME NEW e, Calm(e), NEW n \in Nat, NEW first \in BOOLEAN
  PROVE  LET f == Upload(e, n, first) IN DOk(f) /\ Keeps(e, f) /\ f.ep # "recv"
<1>1. e.total \in Nat /\ e.total <= FlashSize /\ FlashSize \in Nat /\ PagePackets \in Nat /\ e \in DType
      /\ e.up = 0 /\ e.len = 0 /\ e.buf = <<>> /\ e.ep \in {"idle", "send"} /\ 0 \in Nat /\ 0 <= PagePackets
  BY DfuAssumption DEF Calm, DOk, DType
<1> DEFINE t == IF first THEN 0 ELSE e.total
           g == IF first THEN [e EXCEPT !.total = 0] ELSE e
           m == Least(n, FlashSize - g.total)
           back(f, short) == IF ~first /\ short THEN [f EXCEPT !.st = "dfuIDLE"] ELSE f
<1>2. t \in Nat /\ t <= FlashSize
  BY <1>1
<1>3. /\ g \in DType /\ g.total = t /\ g.ep = e.ep /\ g.up = 0 /\ g.len = 0 /\ g.buf = <<>>
      /\ g.alt = e.alt /\ g.flash = e.flash /\ g.dirty = e.dirty /\ g.bad = e.bad
  <2>1. CASE first
    BY <2>1, <1>1 DEF DType
  <2>2. CASE ~first
    BY <2>2, <1>1 DEF DType
  <2> QED BY <2>1, <2>2
<1> HIDE DEF g, t
<1>4. m \in Nat /\ t + m <= FlashSize /\ m <= n
  BY <1>1, <1>2, <1>3 DEF Least
<1>5. Upload(e, n, first) =
        IF n > PagePackets THEN back([AddressError(g) EXCEPT !.reply = "lost"], TRUE)
        ELSE IF e.ep # "idle" THEN back([g EXCEPT !.reply = "lost"], TRUE)
        ELSE back([g EXCEPT !.ep = "send", !.up = m, !.reply = "data"], m < n)
  BY DEF Upload, g
<1>6. ASSUME NEW f, f \in DType, f.ep \in {"idle", "send"}, f.up <= PagePackets, f.up + t <= FlashSize,
             f.ep = "idle" => f.up = 0,
             f.total = t, f.len = 0, f.buf = <<>>, Keeps(e, f), NEW short \in BOOLEAN
      PROVE  DOk(back(f, short)) /\ Keeps(e, back(f, short)) /\ back(f, short).ep # "recv"
  <2> DEFINE b == [f EXCEPT !.st = "dfuIDLE"]
  <2>1. /\ b \in DType /\ b.ep = f.ep /\ b.up = f.up /\ b.total = f.total /\ b.len = f.len
        /\ b.buf = f.buf
        /\ b.alt = f.alt /\ b.flash = f.flash /\ b.dirty = f.dirty /\ b.bad = f.bad
    BY <1>6 DEF DType, DfuState
  <2>2. f.up \in Nat
    BY <1>6 DEF DType
  <2> HIDE DEF b
  <2>3. DOk(f)
    BY <1>1, <1>2, <1>6, <2>2 DEF DOk
  <2>4. DOk(b) /\ Keeps(e, b)
    BY <1>1, <1>2, <1>6, <2>1, <2>2 DEF DOk, Keeps
  <2>5. back(f, short) \in {f, b}
    BY DEF b
  <2> QED BY <2>1, <2>3, <2>4, <2>5, <1>6
<1> HIDE DEF back
<1>7. CASE n > PagePackets
  <2> DEFINE f == [AddressError(g) EXCEPT !.reply = "lost"]
  <2>1. /\ f \in DType /\ f.ep = e.ep /\ f.up = 0 /\ f.total = t /\ f.len = 0 /\ f.buf = <<>>
        /\ f.alt = e.alt /\ f.flash = e.flash /\ f.dirty = e.dirty /\ f.bad = e.bad
    BY <1>3 DEF AddressError, DType, DfuState, Answer
  <2> HIDE DEF f
  <2>2. Upload(e, n, first) = back(f, TRUE)
    BY <1>5, <1>7 DEF f
  <2>3. Keeps(e, f) /\ f.up + t <= FlashSize
    BY <2>1, <1>2, <1>1 DEF Keeps
  <2> QED BY <2>1, <2>2, <2>3, <1>1, <1>6
<1>8. CASE ~(n > PagePackets) /\ e.ep # "idle"
  <2> DEFINE f == [g EXCEPT !.reply = "lost"]
  <2>1. /\ f \in DType /\ f.ep = e.ep /\ f.up = 0 /\ f.total = t /\ f.len = 0 /\ f.buf = <<>>
        /\ f.alt = e.alt /\ f.flash = e.flash /\ f.dirty = e.dirty /\ f.bad = e.bad
    BY <1>3 DEF DType, Answer
  <2> HIDE DEF f
  <2>2. Upload(e, n, first) = back(f, TRUE)
    BY <1>5, <1>8 DEF f
  <2>3. Keeps(e, f) /\ f.up + t <= FlashSize
    BY <2>1, <1>2, <1>1 DEF Keeps
  <2> QED BY <2>1, <2>2, <2>3, <1>1, <1>6
<1>9. CASE ~(n > PagePackets) /\ e.ep = "idle"
  <2> DEFINE f == [g EXCEPT !.ep = "send", !.up = m, !.reply = "data"]
  <2> HIDE DEF m
  <2>1. /\ f \in DType /\ f.ep = "send" /\ f.up = m /\ f.total = t /\ f.len = 0 /\ f.buf = <<>>
        /\ f.alt = e.alt /\ f.flash = e.flash /\ f.dirty = e.dirty /\ f.bad = e.bad
    BY <1>3, <1>4 DEF DType, Answer
  <2> HIDE DEF f
  <2>2. Upload(e, n, first) = back(f, m < n)
    BY <1>5, <1>9 DEF f
  <2>3. Keeps(e, f) /\ f.up + t <= FlashSize /\ f.up <= PagePackets /\ (m < n) \in BOOLEAN
    BY <2>1, <1>2, <1>1, <1>4, <1>9 DEF Keeps
  <2> QED BY <2>1, <2>2, <2>3, <1>6
<1> QED BY <1>7, <1>8, <1>9


\* A state for a request that changes the state and the status and is answered.
LEMMA AnsweredFacts ==
  ASSUME NEW e, Calm(e), NEW g, Same(e, g), NEW r \in {"zlp", "data", "stall"}
  PROVE  LET f == Reply(g, r) IN
         Calm(f) /\ Keeps(e, f) /\ f.st = g.st /\ f.total = e.total /\ f.reply \in {r, "lost"}
<1>1. DOk(g) /\ Keeps(e, g) /\ g.ep # "recv" /\ g.up = 0 /\ g.total = e.total
  BY SameOk DEF Same, Calm
<1>2. LET f == Reply(g, r) IN
      /\ DOk(f) /\ f.ep # "recv" /\ f.up = 0 /\ Keeps(g, f) /\ f.st = g.st /\ f.total = g.total
      /\ f.reply = (IF g.ep = "idle" THEN r ELSE "lost")
  BY <1>1, ReplyCalm
<1> QED BY <1>1, <1>2 DEF Calm, Keeps

\* What a request can do, between two transfers.
Handled(e, req, n, f) ==
  /\ DOk(f) /\ Keeps(e, f)
  /\ f.ep = "recv" => /\ req = "DNLOAD" /\ n > 0 /\ f.buf = <<>>
                      /\ f.total = (IF e.st = "dfuIDLE" THEN 0 ELSE e.total)
  /\ req # "UPLOAD" => f.up = 0
  /\ req \in {"GETSTATUS", "GETSTATE"} /\ e.st = "dfuDNLOAD_IDLE" => f.st = e.st /\ f.total = e.total
  /\ req = "DNLOAD" /\ Good(f) => n = 0 /\ f.reply = "zlp" /\ f.st = "dfuMANIFEST_SYNC"

LEMMA HandleFacts ==
  ASSUME NEW e, Calm(e), NEW req \in Request, NEW n \in Nat
  PROVE  Handled(e, req, n, Handle(e, req, n))
<1>0. DOk(e) /\ e \in DType /\ e.up = 0
  BY DEF Calm, DOk
<1>1. ASSUME NEW g, Same(e, g), NEW r \in {"zlp", "data", "stall"},
             Handle(e, req, n) = Reply(g, r),
             req = "DNLOAD" => r = "stall",
             req \in {"GETSTATUS", "GETSTATE"} /\ e.st = "dfuDNLOAD_IDLE" => g.st = e.st
      PROVE  Handled(e, req, n, Handle(e, req, n))
  <2>1. LET f == Reply(g, r) IN
        Calm(f) /\ Keeps(e, f) /\ f.st = g.st /\ f.total = e.total /\ f.reply \in {r, "lost"}
    BY <1>1, AnsweredFacts
  <2> DEFINE f == Reply(g, r)
  <2> HIDE DEF f
  <2>2. Calm(f) /\ Keeps(e, f) /\ f.st = g.st /\ f.total = e.total /\ f.reply \in {r, "lost"}
    BY <2>1 DEF f
  <2>3. Handled(e, req, n, f)
    BY <2>2, <1>1 DEF Handled, Calm, Good
  <2> QED BY <2>3, <1>1 DEF f
<1>2. CASE req = "GETSTATUS" /\ e.st # "dfuMANIFEST"
  <2> DEFINE g == [e EXCEPT !.st = IF @ = "dfuMANIFEST_SYNC" THEN "dfuMANIFEST" ELSE @]
  <2>1. Same(e, g) /\ (e.st = "dfuDNLOAD_IDLE" => g.st = e.st)
    BY <1>0 DEF Same, DType, DfuState
  <2>2. Handle(e, req, n) = Reply(g, "data")
    BY <1>2 DEF Handle, GetStatus
  <2> HIDE DEF g
  <2> QED BY <2>1, <2>2, <1>1, <1>2
<1>3. CASE req = "GETSTATUS" /\ e.st = "dfuMANIFEST"
  <2> DEFINE x == [e EXCEPT !.st = "dfuIDLE", !.past = TRUE]
             g == [x EXCEPT !.st = IF @ = "dfuMANIFEST_SYNC" THEN "dfuMANIFEST" ELSE @]
  <2>1. Same(e, g)
    BY <1>0 DEF Same, DType, DfuState
  <2>2. Handle(e, req, n) = Reply(g, "data")
    BY <1>3 DEF Handle, GetStatus
  <2> HIDE DEF g
  <2> QED BY <2>1, <2>2, <1>1, <1>3
<1>4. CASE req = "GETSTATE"
  <2>1. Same(e, e)
    BY <1>0 DEF Same
  <2>2. Handle(e, req, n) = Reply(e, "data")
    BY <1>4 DEF Handle
  <2> QED BY <2>1, <2>2, <1>1, <1>4
<1>5. CASE req = "ABORT" /\ e.st \in {"dfuIDLE", "dfuDNLOAD_IDLE", "dfuUPLOAD_IDLE"}
  <2> DEFINE g == [e EXCEPT !.st = "dfuIDLE"]
  <2>1. Same(e, g)
    BY <1>0 DEF Same, DType, DfuState
  <2>2. Handle(e, req, n) = Reply(g, "zlp")
    BY <1>5 DEF Handle
  <2> HIDE DEF g
  <2> QED BY <2>1, <2>2, <1>1, <1>5
<1>6. CASE req = "CLRSTATUS" /\ e.st = "dfuERROR"
  <2> DEFINE g == [e EXCEPT !.st = "dfuIDLE", !.status = "OK"]
  <2>1. Same(e, g)
    BY <1>0 DEF Same, DType, DfuState
  <2>2. Handle(e, req, n) = Reply(g, "zlp")
    BY <1>6 DEF Handle
  <2> HIDE DEF g
  <2> QED BY <2>1, <2>2, <1>1, <1>6
<1>7. CASE req = "DNLOAD" /\ ((e.st = "dfuIDLE" /\ n > 0) \/ e.st = "dfuDNLOAD_IDLE")
  <2> DEFINE g == [e EXCEPT !.st = "dfuDNLOAD_SYNC"]
             first == e.st = "dfuIDLE"
             f == Dnload(g, n, first)
  <2>1. Same(e, g)
    BY <1>0 DEF Same, DType, DfuState
  <2>2. Handle(e, req, n) = f
    BY <1>7 DEF Handle
  <2> HIDE DEF g
  <2>3. Calm(g) /\ Keeps(e, g) /\ g.total = e.total
    BY <2>1, SameOk DEF Same, Calm
  <2>4. first \in BOOLEAN
    OBVIOUS
  <2>5. /\ DOk(f) /\ Keeps(g, f) /\ f.up = 0
        /\ f.ep = "recv" => n > 0 /\ f.buf = <<>> /\ f.total = IF first THEN 0 ELSE g.total
        /\ Good(f) => n = 0 /\ f.reply = "zlp" /\ f.st = "dfuMANIFEST_SYNC"
    BY <2>3, <2>4, DnloadFacts
  <2> HIDE DEF f
  <2> QED BY <2>2, <2>3, <2>5, <1>7 DEF Handled, Keeps
<1>8. CASE req = "UPLOAD" /\ e.st \in {"dfuIDLE", "dfuUPLOAD_IDLE"}
  <2> DEFINE g == [e EXCEPT !.st = "dfuUPLOAD_IDLE"]
             first == e.st = "dfuIDLE"
             f == Upload(g, n, first)
  <2>1. Same(e, g)
    BY <1>0 DEF Same, DType, DfuState
  <2>2. Handle(e, req, n) = f
    BY <1>8 DEF Handle
  <2> HIDE DEF g
  <2>3. Calm(g) /\ Keeps(e, g)
    BY <2>1, SameOk DEF Same, Calm
  <2>4. first \in BOOLEAN
    OBVIOUS
  <2>5. DOk(f) /\ Keeps(g, f) /\ f.ep # "recv"
    BY <2>3, <2>4, UploadFacts
  <2> HIDE DEF f
  <2> QED BY <2>2, <2>3, <2>5, <1>8 DEF Handled, Keeps
<1>9. CASE /\ req \notin {"GETSTATUS", "GETSTATE"}
           /\ ~(req = "ABORT" /\ e.st \in {"dfuIDLE", "dfuDNLOAD_IDLE", "dfuUPLOAD_IDLE"})
           /\ ~(req = "CLRSTATUS" /\ e.st = "dfuERROR")
           /\ ~(req = "DNLOAD" /\ ((e.st = "dfuIDLE" /\ n > 0) \/ e.st = "dfuDNLOAD_IDLE"))
           /\ ~(req = "UPLOAD" /\ e.st \in {"dfuIDLE", "dfuUPLOAD_IDLE"})
  <2> DEFINE g == [e EXCEPT !.st = "dfuERROR"]
  <2>1. Same(e, g)
    BY <1>0 DEF Same, DType, DfuState
  <2>2. Handle(e, req, n) = Reply(g, "stall")
    BY <1>9 DEF Handle, Fail
  <2> HIDE DEF g
  <2> QED BY <2>1, <2>2, <1>1, <1>9
<1> QED BY <1>2, <1>3, <1>4, <1>5, <1>6, <1>7, <1>8, <1>9 DEF Request

-----------------------------------------------------------------------------
(* The download                                                             *)

LEMMA BootedDownload ==
  ASSUME host \in HostType, NEW flash \in Flash, NEW bad \in BOOLEAN, NEW dirty \in BOOLEAN,
         ~dirty /\ ~bad => Holds(flash, host.done, host.len),
         d' = Booted(flash, bad, dirty), host' = [host EXCEPT !.on = FALSE]
  PROVE  Download'
<1> DEFINE e == Booted(flash, bad, dirty)
<1>1. /\ e \in DType /\ e.total = 0 /\ e.up = 0 /\ e.len = 0 /\ e.buf = <<>> /\ e.ep = "idle"
      /\ e.flash = flash /\ e.bad = bad /\ e.dirty = dirty
  <2>1. <<>> \in Packets
    BY DEF Packets
  <2> QED BY <2>1 DEF Booted, DType, DfuState, Partition, Answer
<1> HIDE DEF e
<1>2. DOk(e)
  BY <1>1, DfuAssumption DEF DOk
<1>3. host' \in HostType /\ host'.on = FALSE /\ host'.done = host.done /\ host'.len = host.len
  BY DEF HostType
<1>4. d' = e
  BY DEF e
<1> QED BY <1>1, <1>2, <1>3, <1>4 DEF Download, Receiving, InStep, NoUpload, Whole

LEMMA BootInv == ASSUME IInv, Boot PROVE IInv'
<1>1. PICK m \in {"dfu", "app"} : BootInto(m)
  BY DEF Boot
<1>2. d.flash \in Flash /\ d.bad \in BOOLEAN /\ d.dirty \in BOOLEAN
  BY DEF IInv, Download, DOk, DType
<1>3. Download'
  BY <1>1, <1>2, BootedDownload DEF IInv, Download, Whole, BootInto
<1> QED BY <1>1, <1>3, AppStartInv DEF BootInto, IInv

LEMMA DetachInv == ASSUME IInv, Detach PROVE IInv'
<1>1. BootInto("dfu")
  BY DEF Detach
<1>2. d.flash \in Flash /\ d.bad \in BOOLEAN /\ d.dirty \in BOOLEAN
  BY DEF IInv, Download, DOk, DType
<1>3. Download'
  BY <1>1, <1>2, BootedDownload DEF IInv, Download, Whole, BootInto
<1> QED BY <1>1, <1>3, AppStartInv DEF BootInto, IInv

LEMMA PowerLossInv == ASSUME IInv, PowerLoss, ~Boot PROVE IInv'
<1> DEFINE flash == Stored(d.flash, d.total, d.buf, FALSE)
<1>1. /\ mode' \in {"dfu", "app"} /\ d' = Booted(flash, d.bad, TRUE)
      /\ host' = [host EXCEPT !.on = FALSE] /\ AppStart
  BY DEF PowerLoss
<1>2. flash \in Flash /\ d.bad \in BOOLEAN
  BY PrefixType DEF IInv, Download, DOk, DType
<1> HIDE DEF flash
<1>3. Download'
  BY <1>1, <1>2, BootedDownload DEF IInv, Download
<1> QED BY <1>1, <1>3, AppStartInv DEF IInv

\* The bus reset drops the transfer: it is enough that the host gives up.
LEMMA BusResetInv == ASSUME IInv, BusResetDfu, ~Boot PROVE IInv'
<1> DEFINE e == [d EXCEPT !.ep = "idle", !.len = 0, !.buf = <<>>, !.up = 0, !.reply = "lost"]
<1>1. d' = e /\ host' = [host EXCEPT !.on = FALSE] /\ UNCHANGED <<mode, appVars>>
  BY DEF BusResetDfu
<1>2. DOk(d) /\ d \in DType /\ d.total \in Nat /\ d.total <= FlashSize
  <2>1. d.total \in Nat /\ d.up \in Nat /\ d.total + d.up <= FlashSize /\ FlashSize \in Nat
    BY DfuAssumption DEF IInv, Download, DOk, DType
  <2> QED BY <2>1 DEF IInv, Download, DOk
<1>3. /\ e \in DType /\ e.total = d.total /\ e.up = 0 /\ e.len = 0 /\ e.buf = <<>> /\ e.ep = "idle"
      /\ e.flash = d.flash /\ e.bad = d.bad /\ e.dirty = d.dirty
  <2>1. <<>> \in Packets
    BY DEF Packets
  <2> QED BY <2>1, <1>2 DEF DType, Answer
<1> HIDE DEF e
<1>4. DOk(e)
  BY <1>2, <1>3, DfuAssumption DEF DOk
<1>5. host' \in HostType /\ host'.on = FALSE /\ host'.done = host.done /\ host'.len = host.len
  BY <1>1 DEF IInv, Download, HostType
<1>6. Download'
  BY <1>1, <1>3, <1>4, <1>5 DEF IInv, Download, Receiving, InStep, NoUpload, Whole
<1> QED BY <1>1, <1>6 DEF IInv, AppType, Configured, appVars

LEMMA SetInterfaceInv == ASSUME IInv, SetInterface PROVE IInv'
<1>1. PICK a \in Partition :
        /\ d' = [Reply(Sent(d, d.up), "zlp") EXCEPT !.alt = a]
        /\ ~host.on /\ d.ep # "recv" /\ UNCHANGED <<mode, host, appVars>>
  BY DEF SetInterface
<1>2. DOk(d) /\ d.up \in 0..d.up
  BY DEF IInv, Download, DOk, DType
<1> DEFINE e == Sent(d, d.up)
           f == Reply(e, "zlp")
<1>3. Calm(e) /\ Keeps(d, e)
  BY <1>1, <1>2, SentFacts
<1> HIDE DEF e
<1>4. DOk(f) /\ f.ep # "recv" /\ Keeps(e, f)
  BY <1>3, ReplyCalm DEF Calm
<1> HIDE DEF f
<1>5. d' = [f EXCEPT !.alt = a]
  BY <1>1 DEF e, f
<1>6. /\ d' \in DType /\ d'.total = f.total /\ d'.up = f.up /\ d'.len = f.len /\ d'.ep = f.ep
      /\ d'.buf = f.buf /\ d'.reply = f.reply
      /\ d'.flash = f.flash /\ d'.bad = f.bad /\ d'.dirty = f.dirty
  BY <1>4, <1>5 DEF DOk, DType
<1>7. DOk(d')
  BY <1>4, <1>6 DEF DOk
<1>8. Download'
  BY <1>1, <1>3, <1>4, <1>6, <1>7 DEF IInv, Download, Receiving, InStep, NoUpload, Whole, Keeps
<1> QED BY <1>1, <1>8 DEF IInv, AppType, Configured, appVars

LEMMA AnswerSentInv == ASSUME IInv, AnswerSent PROVE IInv'
<1>1. d' = Sent(d, d.up) /\ d.ep = "send" /\ UNCHANGED <<mode, host, appVars>>
  BY DEF AnswerSent
<1>2. DOk(d) /\ d.up \in 0..d.up /\ d.total \in Nat /\ d.up \in Nat
  BY DEF IInv, Download, DOk, DType
<1> DEFINE e == Sent(d, d.up)
<1>3. Calm(e) /\ Keeps(d, e) /\ e.st = d.st /\ e.total = d.total + d.up /\ e.reply = d.reply
  BY <1>1, <1>2, SentFacts
<1> HIDE DEF e
<1>4. d' = e /\ (host.on => e.total = d.total)
  BY <1>1, <1>2, <1>3 DEF e, IInv, Download, NoUpload
<1>5. Download'
  BY <1>1, <1>3, <1>4
     DEF IInv, Download, Receiving, InStep, InPlace, NoUpload, Whole, Keeps, Good, Calm
<1> QED BY <1>1, <1>5 DEF IInv, AppType, Configured, appVars

\* A page whose packets are the host's next ones extends what the flash holds.
LEMMA StoredHolds ==
  ASSUME NEW flash \in Flash, NEW at \in Nat, NEW buf \in Packets, NEW image,
         at + Len(buf) <= FlashSize,
         Holds(flash, image, at),
         \A i \in 1..Len(buf) : buf[i] = <<image, at + i - 1>>
  PROVE  Holds(Stored(flash, at, buf, TRUE), image, at + Len(buf))
<1>1. Len(buf) \in Nat /\ DOMAIN flash = 0..FlashSize - 1 /\ FlashSize \in Nat
  BY DfuAssumption DEF Packets, Flash
<1> SUFFICES ASSUME NEW k \in 0..(at + Len(buf)) - 1
             PROVE  Stored(flash, at, buf, TRUE)[k] = <<image, k>>
  BY DEF Holds
<1>2. k \in DOMAIN flash /\ k \in Nat
  BY <1>1
<1>3. Stored(flash, at, buf, TRUE)[k] = IF k \in at .. at + Len(buf) - 1 THEN buf[k - at + 1] ELSE flash[k]
  BY <1>2 DEF Stored
<1>4. CASE k < at
  <2>1. k \notin at .. at + Len(buf) - 1 /\ k \in 0..at - 1
    BY <1>1, <1>4
  <2> QED BY <1>3, <2>1 DEF Holds
<1>5. CASE k >= at
  <2>1. k \in at .. at + Len(buf) - 1 /\ k - at + 1 \in 1..Len(buf) /\ at + (k - at + 1) - 1 = k
    BY <1>1, <1>5
  <2> QED BY <1>3, <2>1
<1>6. k < at \/ k >= at
  BY <1>2
<1> QED BY <1>4, <1>5, <1>6, Zenon

LEMMA PacketInv == ASSUME IInv, Packet PROVE IInv'
<1> DEFINE x == <<host.image, host.pos + Len(d.buf)>>
           b == Append(d.buf, x)
           e == [d EXCEPT !.buf = b]
<1>1. /\ d.ep = "recv" /\ UNCHANGED <<mode, appVars>>
      /\ IF Len(e.buf) < d.len THEN d' = e /\ UNCHANGED host
         ELSE \E w \in Outcome :
                /\ d' = DnloadCb(e, w)
                /\ host' = IF d'.reply = "zlp" THEN [host EXCEPT !.pos = @ + d.len] ELSE host
  BY DEF Packet
<1>2. /\ DOk(d) /\ d \in DType /\ d.buf \in Packets /\ Len(d.buf) \in Nat /\ d.len \in Nat
      /\ Len(d.buf) < d.len /\ d.up = 0 /\ d.reply = "none"
      /\ d.total \in Nat /\ d.total <= FlashSize /\ FlashSize \in Nat /\ d.flash \in Flash
      /\ d.bad \in BOOLEAN /\ d.dirty \in BOOLEAN
  <2>1. DOk(d) /\ d \in DType /\ d.up = 0 /\ d.reply = "none" /\ Len(d.buf) < d.len
    BY <1>1 DEF IInv, Download, DOk
  <2>2. d.buf \in Packets /\ d.len \in Nat /\ d.total \in Nat /\ d.flash \in Flash
        /\ d.bad \in BOOLEAN /\ d.dirty \in BOOLEAN
    BY <2>1 DEF DType
  <2>3. d.total <= FlashSize
    BY <2>1, <2>2, DfuAssumption DEF DOk
  <2> QED BY <2>1, <2>2, <2>3, DfuAssumption DEF Packets
<1>3. /\ host \in HostType /\ host.on /\ d.total = host.pos /\ host.pos \in Nat /\ host.image \in Nat
      /\ d.alt = "flash" /\ ~d.bad => Holds(d.flash, host.image, host.pos)
      /\ \A i \in 1..Len(d.buf) : d.buf[i] = <<host.image, host.pos + i - 1>>
  BY <1>1 DEF IInv, Download, Receiving, InPlace, HostType
<1>4. x \in Nat \X Nat
  BY <1>2, <1>3
<1> HIDE DEF x
<1>5. /\ b \in Packets /\ Len(b) = Len(d.buf) + 1
      /\ \A i \in 1..Len(d.buf) : b[i] = d.buf[i]
      /\ b[Len(d.buf) + 1] = x
  BY <1>2, <1>4, AppendProperties DEF Packets
<1> HIDE DEF b
<1>6. \A i \in 1..Len(b) : b[i] = <<host.image, host.pos + i - 1>>
  <2> SUFFICES ASSUME NEW i \in 1..Len(b) PROVE b[i] = <<host.image, host.pos + i - 1>>
    OBVIOUS
  <2>1. CASE i \in 1..Len(d.buf)
    BY <2>1, <1>3, <1>5
  <2>2. CASE i = Len(d.buf) + 1
    BY <2>2, <1>2, <1>3, <1>5 DEF x
  <2> QED BY <2>1, <2>2, <1>2, <1>5
<1>7. /\ e \in DType /\ e.buf = b /\ e.st = d.st /\ e.total = d.total /\ e.up = 0 /\ e.len = d.len
      /\ e.ep = "recv" /\ e.reply = "none" /\ e.alt = d.alt /\ e.flash = d.flash
      /\ e.bad = d.bad /\ e.dirty = d.dirty
  BY <1>1, <1>2, <1>5 DEF DType
<1> HIDE DEF e
<1>8. CASE Len(e.buf) < d.len
  <2>1. d' = e /\ host' = host
    BY <1>1, <1>8
  <2>2. DOk(e)
    BY <1>2, <1>7, <1>8 DEF DOk
  <2>3. Receiving'
    BY <2>1, <1>3, <1>6, <1>7 DEF Receiving, InPlace
  <2>4. InStep' /\ NoUpload' /\ Whole'
    BY <2>1, <1>7 DEF InStep, Good, NoUpload, Whole, IInv, Download
  <2>5. Download'
    BY <2>1, <2>2, <2>3, <2>4, <1>3 DEF Download
  <2> QED BY <2>5, <1>1 DEF IInv, AppType, Configured, appVars
<1>9. CASE ~(Len(e.buf) < d.len)
  <2>1. PICK w \in Outcome :
          /\ d' = DnloadCb(e, w)
          /\ host' = IF d'.reply = "zlp" THEN [host EXCEPT !.pos = @ + d.len] ELSE host
    BY <1>1, <1>9
  <2> DEFINE f == DnloadCb(e, w)
  <2>2. Len(b) = d.len
    BY <1>2, <1>5, <1>7, <1>9
  <2>3. /\ DOk(f) /\ f.ep # "recv" /\ f.up = 0 /\ Stores(e, f) /\ f.reply \in {"zlp", "stall"}
        /\ f.reply = "zlp" =>
             /\ f.st = "dfuDNLOAD_IDLE" /\ f.total = e.total + Len(e.buf) /\ f.total < FlashSize
             /\ e.alt = "flash" /\ f.bad = FALSE =>
                  f.flash = Stored(e.flash, e.total, e.buf, TRUE)
    BY <1>2, <1>7, DnloadCbFacts
  <2> HIDE DEF f
  <2>4. d' = f
    BY <2>1 DEF f
  <2>5. f.dirty \in BOOLEAN /\ f.bad \in BOOLEAN
    BY <2>3 DEF DOk, DType
  <2>6. Stores(d, f)
    BY <2>3, <1>7 DEF Stores
  <2>7. CASE f.reply = "zlp"
    <3>1. host' = [host EXCEPT !.pos = host.pos + d.len]
      BY <2>1, <2>4, <2>7
    <3>2. f.total = host.pos + d.len /\ f.total < FlashSize /\ host.pos + d.len \in 0..FlashSize
      BY <2>2, <2>3, <2>7, <1>2, <1>3, <1>7
    <3>3. /\ host' \in HostType /\ host'.on /\ host'.pos = host.pos + d.len
          /\ host'.image = host.image /\ host'.done = host.done /\ host'.len = host.len
      BY <3>1, <3>2, <1>3 DEF HostType
    <3>4. ASSUME f.alt = "flash", ~f.bad PROVE Holds(f.flash, host.image, host.pos + d.len)
      <4>1. d.alt = "flash" /\ ~d.bad /\ f.bad = FALSE
        BY <3>4, <2>5, <2>6, <1>2 DEF Stores
      <4>2. f.flash = Stored(d.flash, d.total, b, TRUE)
        BY <4>1, <2>3, <2>7, <1>7
      <4>3. Holds(d.flash, host.image, d.total) /\ d.total + Len(b) <= FlashSize
        BY <4>1, <3>2, <2>2, <1>2, <1>3
      <4>4. \A i \in 1..Len(b) : b[i] = <<host.image, d.total + i - 1>>
        BY <1>3, <1>6
      <4>5. Holds(Stored(d.flash, d.total, b, TRUE), host.image, d.total + Len(b))
        BY <4>3, <4>4, <1>2, <1>5, StoredHolds
      <4> QED BY <4>2, <4>5, <2>2, <1>3
    <3>5. Receiving' /\ NoUpload'
      BY <2>3, <2>4 DEF Receiving, NoUpload
    <3>6. InStep'
      BY <3>2, <3>3, <3>4, <2>3, <2>4, <2>7 DEF InStep, InPlace
    <3>7. Whole'
      BY <3>3, <2>4, <2>5, <2>6 DEF IInv, Download, Whole, Stores
    <3>8. Download'
      BY <3>3, <3>5, <3>6, <3>7, <2>3, <2>4 DEF Download
    <3> QED BY <3>8, <1>1 DEF IInv, AppType, Configured, appVars
  <2>8. CASE f.reply = "stall"
    <3>1. host' = host
      BY <2>1, <2>4, <2>8
    <3>2. Receiving' /\ NoUpload' /\ InStep'
      BY <2>3, <2>4, <2>8 DEF Receiving, NoUpload, InStep, Good
    <3>3. Whole'
      BY <3>1, <2>4, <2>5, <2>6 DEF IInv, Download, Whole, Stores
    <3>4. Download'
      BY <3>1, <3>2, <3>3, <2>3, <2>4, <1>3 DEF Download
    <3> QED BY <3>4, <1>1 DEF IInv, AppType, Configured, appVars
  <2> QED BY <2>3, <2>7, <2>8
<1> QED BY <1>8, <1>9

LEMMA SetupInv ==
  ASSUME IInv, NEW req \in Request, NEW n \in Nat, Setup(req, n)
  PROVE  IInv'
<1>1. PICK w \in Outcome, k \in 0..d.up :
        LET e == Handle(Ended(d, w, k), req, n)
        IN IF ~Finishes(req, n, e) THEN d' = e /\ HostSends(req)
           ELSE IF d.alt = "ram" THEN d' = e /\ host' = [host EXCEPT !.on = FALSE]
           ELSE /\ d' = [e EXCEPT !.dirty = FALSE]
                /\ host' = [host EXCEPT !.on = FALSE, !.done = host.image, !.len = host.pos]
  BY DEF Setup
<1>2. HostMay(req, n) /\ UNCHANGED <<mode, appVars>>
  BY DEF Setup
<1>3. /\ DOk(d) /\ d \in DType /\ host \in HostType /\ host.pos \in 0..FlashSize /\ host.image \in 0..MaxImages
      /\ host.on \in BOOLEAN /\ d.total \in Nat /\ d.up \in Nat
  BY DEF IInv, Download, DOk, DType, HostType
<1> DEFINE g == Ended(d, w, k)
           f == Handle(g, req, n)
<1>4. /\ Calm(g) /\ Stores(d, g)
      /\ d.ep # "recv" => /\ g.ep = "idle" /\ Keeps(d, g)
                          /\ g.st = d.st /\ g.total = d.total + k /\ g.reply = d.reply
  BY <1>3, EndedFacts
<1> HIDE DEF g
<1>5. Handled(g, req, n, f)
  BY <1>4, HandleFacts
<1>6. IF ~Finishes(req, n, f) THEN d' = f /\ HostSends(req)
      ELSE IF d.alt = "ram" THEN d' = f /\ host' = [host EXCEPT !.on = FALSE]
      ELSE /\ d' = [f EXCEPT !.dirty = FALSE]
           /\ host' = [host EXCEPT !.on = FALSE, !.done = host.image, !.len = host.pos]
  BY <1>1 DEF g
<1> HIDE DEF f
<1>7. DOk(f) /\ f \in DType /\ f.dirty \in BOOLEAN /\ f.bad \in BOOLEAN /\ Stores(d, f)
  <2>1. DOk(f) /\ Keeps(g, f)
    BY <1>5 DEF Handled
  <2> QED BY <2>1, <1>4 DEF DOk, DType, Stores, Keeps
\* The host goes on with a good answer: it and the bootloader are in step.
<1>8. ASSUME host.on, Good(d)
      PROVE  /\ d.ep # "recv" /\ g.st = "dfuDNLOAD_IDLE" /\ g.total = host.pos /\ Keeps(d, f)
             /\ f.alt = "flash" /\ ~f.bad => Holds(f.flash, host.image, host.pos)
  <2>1. d.st = "dfuDNLOAD_IDLE" /\ InPlace(d) /\ d.up = 0
    BY <1>8 DEF IInv, Download, InStep, NoUpload
  <2>2. d.ep # "recv"
    BY <1>8 DEF IInv, Download, DOk, Good
  <2>3. g.st = d.st /\ g.total = d.total /\ Keeps(d, g)
    BY <2>1, <2>2, <1>3, <1>4
  <2>4. Keeps(d, f)
    BY <2>3, <1>5 DEF Handled, Keeps
  <2> QED BY <2>1, <2>2, <2>3, <2>4 DEF InPlace, Keeps
<1>9. SUFFICES Download'
  BY <1>2 DEF IInv, AppType, Configured, appVars
<1>10. CASE Finishes(req, n, f)
  <2>1. req = "DNLOAD" /\ n = 0 /\ host.on /\ f.reply = "zlp"
    BY <1>10 DEF Finishes
  <2>2. Good(d)
    BY <2>1, <1>2 DEF HostMay, Good
  <2>3. f.ep # "recv" /\ f.up = 0
    BY <2>1, <1>5 DEF Handled
  <2>4. CASE d.alt = "ram"
    <3>1. d' = f /\ host' = [host EXCEPT !.on = FALSE]
      BY <2>4, <1>6, <1>10
    <3>2. host' \in HostType /\ ~host'.on /\ host'.done = host.done /\ host'.len = host.len
      BY <3>1, <1>3 DEF HostType
    <3>3. Whole'
      BY <3>1, <3>2, <1>7 DEF IInv, Download, Whole, Stores
    <3> QED BY <3>1, <3>2, <3>3, <2>3, <1>7 DEF Download, Receiving, InStep, NoUpload
  <2>5. CASE d.alt # "ram"
    <3>1. d' = [f EXCEPT !.dirty = FALSE]
          /\ host' = [host EXCEPT !.on = FALSE, !.done = host.image, !.len = host.pos]
      BY <2>5, <1>6, <1>10
    <3>2. /\ host' \in HostType /\ ~host'.on /\ host'.done = host.image /\ host'.len = host.pos
      BY <3>1, <1>3 DEF HostType
    <3>3. /\ d' \in DType /\ d'.total = f.total /\ d'.up = f.up /\ d'.len = f.len /\ d'.ep = f.ep
          /\ d'.buf = f.buf /\ d'.reply = f.reply /\ d'.flash = f.flash /\ d'.bad = f.bad
      BY <3>1, <1>7 DEF DType
    <3>4. DOk(d')
      BY <3>3, <1>7 DEF DOk
    <3>5. f.alt = "flash"
      BY <2>1, <2>2, <2>5, <1>3, <1>8 DEF DType, Partition, Keeps
    <3>6. Whole'
      BY <3>2, <3>3, <3>5, <2>1, <2>2, <1>8 DEF Whole
    <3> QED BY <3>2, <3>3, <3>4, <3>6, <2>3 DEF Download, Receiving, InStep, NoUpload
  <2> QED BY <2>4, <2>5
<1>11. CASE ~Finishes(req, n, f)
  <2>1. d' = f /\ HostSends(req)
    BY <1>6, <1>11
  <2>2. Len(<<>>) = 0
    OBVIOUS
  \* the host gives up, or asks for something else
  <2>3. ASSUME host' = [host EXCEPT !.on = FALSE], f.ep # "recv"
        PROVE  Download'
    <3>1. host' \in HostType /\ ~host'.on /\ host'.done = host.done /\ host'.len = host.len
      BY <2>3, <1>3 DEF HostType
    <3>2. Whole'
      BY <3>1, <2>1, <1>7 DEF IInv, Download, Whole, Stores
    <3> QED BY <3>1, <3>2, <2>1, <2>3, <1>7 DEF Download, Receiving, InStep, NoUpload
  \* a download begins
  <2>4. CASE req = "DNLOAD" /\ ~host.on
    <3>1. host' = [host EXCEPT !.on = TRUE, !.image = host.image + 1, !.pos = 0]
      BY <2>1, <2>4 DEF HostSends
    <3>2. d.st = "dfuIDLE" /\ n > 0 /\ host.image < MaxImages
      BY <2>4, <1>2 DEF HostMay
    <3>3. d.ep # "recv"
      BY <2>4 DEF IInv, Download, Receiving
    <3>4. g.st = "dfuIDLE"
      BY <3>2, <3>3, <1>4
    <3>5. f.up = 0 /\ ~Good(f) /\ (f.ep = "recv" => f.buf = <<>> /\ f.total = 0)
      BY <3>2, <3>4, <2>4, <1>5 DEF Handled
    <3>6. host.image + 1 \in 0..MaxImages /\ 0 \in 0..FlashSize
      BY <3>2, <1>3, BoardAssumption, DfuAssumption
    <3>7. /\ host' \in HostType /\ host'.on /\ host'.pos = 0
          /\ host'.done = host.done /\ host'.len = host.len
      BY <3>1, <3>6, <1>3 DEF HostType
    <3>8. Whole'
      BY <3>7, <2>1, <1>7 DEF IInv, Download, Whole, Stores
    <3>9. Receiving'
      BY <3>5, <3>7, <2>1, <2>2 DEF Receiving, InPlace, Holds
    <3> QED BY <3>5, <3>7, <3>8, <3>9, <2>1, <1>7 DEF Download, InStep, NoUpload
  \* a download goes on
  <2>5. CASE req = "DNLOAD" /\ host.on
    <3>1. Good(d)
      BY <2>5, <1>2 DEF HostMay, Good
    <3>2. host' = [host EXCEPT !.on = TRUE]
      BY <2>1, <2>5, <3>1 DEF HostSends, Good
    <3>3. host' = host
      BY <3>2, <2>5, <1>3 DEF HostType
    <3>4. ~Good(f)
      BY <2>5, <1>5, <1>11 DEF Handled, Finishes
    <3>5. f.up = 0 /\ (f.ep = "recv" => f.buf = <<>> /\ f.total = g.total)
      BY <2>5, <3>1, <1>5, <1>8 DEF Handled
    <3>6. Receiving'
      BY <3>1, <3>3, <3>5, <2>1, <2>2, <2>5, <1>8 DEF Receiving, InPlace
    <3>7. Whole'
      BY <3>3, <2>1, <1>7 DEF IInv, Download, Whole, Stores
    <3> QED BY <3>3, <3>4, <3>5, <3>6, <3>7, <2>1, <1>3, <1>7 DEF Download, InStep, NoUpload
  \* the host asks how it went
  <2>6. CASE req \in {"GETSTATUS", "GETSTATE"} /\ host.on
    <3>1. host' = [host EXCEPT !.on = Good(d)]
      BY <2>1, <2>6 DEF HostSends, Good
    <3>2. f.up = 0 /\ f.ep # "recv"
      BY <2>6, <1>5 DEF Handled
    <3>3. CASE Good(d)
      <4>1. host' = host
        BY <3>1, <3>3, <2>6, <1>3 DEF HostType
      <4>2. f.st = "dfuDNLOAD_IDLE" /\ f.total = host.pos
        BY <3>3, <2>6, <1>5, <1>8 DEF Handled
      <4>3. InStep'
        BY <4>1, <4>2, <3>3, <2>1, <2>6, <1>8 DEF InStep, InPlace
      <4>4. Whole'
        BY <4>1, <2>1, <1>7 DEF IInv, Download, Whole, Stores
      <4> QED BY <4>1, <4>3, <4>4, <3>2, <2>1, <1>3, <1>7 DEF Download, Receiving, NoUpload
    <3>4. CASE ~Good(d)
      <4>1. host' = [host EXCEPT !.on = FALSE]
        <5>1. Good(d) = FALSE
          <6>1. Good(d) \in BOOLEAN
            BY DEF Good
          <6> QED BY <3>4, <6>1
        <5> QED BY <3>1, <5>1
      <4> QED BY <4>1, <3>2, <2>3
    <3> QED BY <3>3, <3>4
  <2>7. CASE req # "DNLOAD" /\ ~(req \in {"GETSTATUS", "GETSTATE"} /\ host.on)
    <3>1. host' = [host EXCEPT !.on = FALSE]
      BY <2>1, <2>7 DEF HostSends
    <3>2. f.ep # "recv"
      BY <2>7, <1>5 DEF Handled
    <3> QED BY <3>1, <3>2, <2>3
  <2> QED BY <2>4, <2>5, <2>6, <2>7
<1> QED BY <1>10, <1>11

-----------------------------------------------------------------------------
(* The invariant                                                            *)

LEMMA InitInv == Init => IInv
<1> SUFFICES ASSUME Init PROVE IInv
  OBVIOUS
<1> DEFINE flash == [k \in 0..FlashSize - 1 |-> <<0, k>>]
<1>1. flash \in Flash
  BY DfuAssumption DEF Flash, Cells
<1>2. Holds(flash, 0, FlashSize - 1)
  <2>1. \A k \in 0..(FlashSize - 1) - 1 : k \in 0..FlashSize - 1
    BY DfuAssumption
  <2> QED BY <2>1 DEF Holds
<1> HIDE DEF flash
<1>3. /\ d = Booted(flash, FALSE, FALSE) /\ host = NewHost
  BY DEF Init, flash
<1>4. /\ d \in DType /\ d.total = 0 /\ d.up = 0 /\ d.len = 0 /\ d.buf = <<>> /\ d.ep = "idle"
      /\ d.flash = flash /\ d.bad = FALSE /\ d.dirty = FALSE
  <2>1. <<>> \in Packets
    BY DEF Packets
  <2> QED BY <2>1, <1>1, <1>3 DEF Booted, DType, DfuState, Partition, Answer
<1>5. DOk(d)
  BY <1>4, DfuAssumption DEF DOk
<1>6. host \in HostType /\ host.on = FALSE /\ host.done = 0 /\ host.len = FlashSize - 1
  BY <1>3, DfuAssumption, BoardAssumption DEF NewHost, HostType
<1>7. Download
  BY <1>2, <1>4, <1>5, <1>6 DEF Download, Receiving, InStep, NoUpload, Whole
<1>8. AppType /\ Configured
  BY DEF Init, AppType, Configured
<1> QED BY <1>7, <1>8 DEF IInv

LEMMA NextInv == IInv /\ [Next]_vars => IInv'
<1> SUFFICES ASSUME IInv, [Next]_vars PROVE IInv'
  OBVIOUS
<1>0. ASSUME AppType', Configured', UNCHANGED <<mode, d, host>> PROVE IInv'
  BY <1>0 DEF IInv, Download, Receiving, InStep, NoUpload, Whole, InPlace
<1>1. CASE UNCHANGED vars
  BY <1>1, <1>0 DEF vars, appVars, IInv, AppType, Configured
<1>2. CASE PowerLoss
  BY <1>2, BootInv, PowerLossInv
<1>3. CASE BusResetDfu
  BY <1>3, BootInv, BusResetInv
<1>4. CASE HostDfu
  <2>1. \A m \in 0..PagePackets + 1 : m \in Nat
    BY DfuAssumption
  <2> QED BY <1>4, <2>1, SetupInv, SetInterfaceInv DEF HostDfu, Request
<1>5. CASE HostApp
  BY <1>5, <1>0, DetachInv, HostAppInv DEF IInv
<1>6. CASE Packet
  BY <1>6, PacketInv
<1>7. CASE AnswerSent
  BY <1>7, AnswerSentInv
<1>8. CASE MainStep
  <2>1. CASE MainCheckUsb /\ usb.now # "configured"
    BY <2>1, BootInv DEF MainCheckUsb
  <2>2. CASE MainCheckUsb /\ usb.now = "configured"
    BY <2>2, <1>0 DEF MainCheckUsb, IInv, AppType, Configured
  <2>3. CASE ~MainCheckUsb
    BY <2>3, <1>8, <1>0, MainStepInv DEF IInv
  <2> QED BY <2>1, <2>2, <2>3
<1>9. CASE Recover
  <2>1. PICK req \in Request : Setup(req, 1)
    BY <1>9 DEF Recover, Request
  <2> QED BY <2>1, SetupInv
<1> QED BY <1>1, <1>2, <1>3, <1>4, <1>5, <1>6, <1>7, <1>8, <1>9 DEF Next

\* IInv is an invariant of the specification.
THEOREM Invariant == Spec => []IInv
<1> QED BY InitInv, NextInv, PTL DEF Spec

\* No upload and no download leaves the partition, and no transfer exceeds a page,
\* whatever the host asks for and whenever it interrupts a transfer.
THEOREM TypeCorrect == Spec => []TypeOK
<1>1. IInv => TypeOK
  <2> SUFFICES ASSUME IInv PROVE TypeOK
    OBVIOUS
  <2>1. DOk(d) /\ d \in DType /\ host \in HostType /\ AppType
    BY DEF IInv, Download, DOk
  <2>2. /\ d.total \in Nat /\ d.up \in Nat /\ d.len \in Nat /\ d.buf \in Packets
        /\ d.flash \in Flash /\ FlashSize \in Nat /\ PagePackets \in Nat
    BY <2>1, DfuAssumption DEF DType
  <2>3. d.total \in 0..FlashSize /\ d.up \in 0..PagePackets /\ d.len \in 0..PagePackets
        /\ d.total + d.up <= FlashSize
    BY <2>1, <2>2 DEF DOk
  <2>4. Len(d.buf) <= d.len
    <3>1. CASE d.ep = "recv"
      BY <3>1, <2>1, <2>2 DEF DOk, Packets
    <3>2. CASE d.ep # "recv"
      <4>1. Len(<<>>) = 0
        OBVIOUS
      <4> QED BY <4>1, <3>2, <2>1 DEF DOk
    <3> QED BY <3>1, <3>2
  <2>5. DOMAIN d.flash = 0..FlashSize - 1
    BY <2>2 DEF Flash
  <2>6. /\ d.st \in DfuState /\ d.status \in {"OK", "errADDRESS"} /\ d.past \in BOOLEAN
        /\ d.alt \in Partition /\ d.ep \in {"idle", "recv", "send"} /\ d.reply \in Answer
        /\ {d.bad, d.dirty} \subseteq BOOLEAN
    BY <2>1 DEF DType
  <2>7. /\ host.on \in BOOLEAN /\ {host.image, host.done} \subseteq 0..MaxImages
        /\ {host.pos, host.len} \subseteq 0..FlashSize
    BY <2>1 DEF HostType
  <2> QED BY <2>1, <2>2, <2>3, <2>4, <2>5, <2>6, <2>7 DEF TypeOK, AppType, Packets
<1> QED BY <1>1, Invariant, PTL

\* An application that runs is the image of the last complete download, through
\* interrupted requests, uploads, bus resets and losses of power.
THEOREM ApplicationWhole == Spec => []AppIsWhole
<1>1. IInv => AppIsWhole
  BY DEF IInv, Download, Whole, Holds, AppIsWhole
<1> QED BY <1>1, Invariant, PTL

\* What the host knows to be acknowledged is in the flash.
THEOREM AcknowledgedHeld == Spec => []Acknowledged
<1>1. IInv => Acknowledged
  BY DEF IInv, Download, InStep, InPlace, Good, Holds, Acknowledged
<1> QED BY <1>1, Invariant, PTL

\* As far as the configuration is the one the main loop decided on, it calls only what
\* is there, and runs, initialises and ends only the mode it should (main() of
\* apps/cardem/main.c), whatever the host requests and whenever.
THEOREM RunsTheInitialised == Spec => []RunsInitialised
<1>1. IInv => RunsInitialised
  BY DEF IInv, Configured, RunsInitialised
<1> QED BY <1>1, Invariant, PTL
=============================================================================
