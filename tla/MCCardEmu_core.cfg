SPECIFICATION Spec
CONSTANTS
  P3s <- MCP3s
  PtsOptions <- NoPtsOptions
  Atrs <- OneAtr
  TxMsgs <- HostMsgs
  Commands = {"TX_DATA", "SIM_SELECT"}
  MaxTxQ = 1
  MaxAtrOut = 2
  RbLen = 3
  UsbMaxQlen = 1
  PoolTight = FALSE
INVARIANTS UartMatchesState NoLostWakeup WaitingTimeGuarded ResetEmptiesQueue ActivationComplete
PROPERTY AtrEndsWhole
