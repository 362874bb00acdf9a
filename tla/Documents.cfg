SPECIFICATION Spec

CONSTANTS
  InvoiceLines <- MCInvoiceLines
  OrderLines <- MCOrderLines
  MaxLines = 3

CHECK_DEADLOCK FALSE

INVARIANTS
  TypeOK
  TotalsNearlyAgree
  NeverMixes
  RefundMatchesCharge
  EventsTellTheStory
