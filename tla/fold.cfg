CONSTANTS
  Event <- MCEvent
  TxTime <- MCTxTime
  ValidTime <- MCValidTime
  AttrId <- MCAttrId
  BuiltInOne <- MCBuiltInOne
SPECIFICATION Spec
INVARIANTS TypeOK VisibleAsSpecified ValueIgnoresArrival RowsAreValues
PROPERTIES HistoryStable ChangesAreLocal
CHECK_DEADLOCK FALSE
