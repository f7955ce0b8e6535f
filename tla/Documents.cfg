SPECIFICATION Spec
CONSTANTS
  Batches <- MCBatches
  QtyUnit = 2
  MaxFolio = 4
  MaxDay = 2
  Absent = Absent
CHECK_DEADLOCK FALSE
INVARIANTS TotalsAgree GrossStaysClose LateRefusals StoredIsPrintable ReportIsExact
