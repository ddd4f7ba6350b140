SPECIFICATION FairSpec
CONSTANTS
  Bufs = {b1, b2, b3}
  InEp = inEp
  IntEp = intEp
  OutEp = outEp
  NoBuf = noBuf
  UsbMaxQlen = 1
  QlenMod = 2
  Sizes = {"short", "one", "many"}
INVARIANTS OneOwner InProgressIsTransfer QueueLenIsLength MessagesTerminated
PROPERTIES KeepsOrder TransfersEnd
