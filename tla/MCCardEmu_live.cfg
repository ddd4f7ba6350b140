SPECIFICATION FairSpec
CONSTANTS
  P3s <- OneP3
  PtsOptions <- NoPtsOptions
  Atrs <- OneAtr
  TxMsgs <- ShortMsgs
  Commands = {"TX_DATA", "SIM_SELECT"}
  MaxTxQ = 1
  MaxAtrOut = 2
  RbLen = 2
  UsbMaxQlen = 1
  PoolTight = FALSE
PROPERTIES AnswerCompletes AtrCompletes
