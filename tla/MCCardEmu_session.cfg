SPECIFICATION Spec
CONSTANTS
  P3s <- NoP3s
  PtsOptions <- OnePtsOption
  Atrs <- ShortAtr
  TxMsgs <- NoMsgs
  Commands = {"SET_ATR", "SIM_SELECT", "STATUS", "CONFIG"}
  MaxTxQ = 1
  MaxAtrOut = 0
  RbLen = 2
  UsbMaxQlen = 1
  PoolTight = TRUE
INVARIANT UartMatchesState
