SPECIFICATION StatusSpec
CONSTANTS
  Txns = {t1, t2, t3}
  Types <- MCTypes
  CafFiles <- MCCafFiles
  MaxLoads = 4
  NoTxn = NoTxn
INVARIANTS FoliosAccounted NeverReissued StockReportsHold
PROPERTY NeverGivenBack
