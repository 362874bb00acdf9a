---------------------------- MODULE MCDocuments ----------------------------
(* Lines for Documents: quantities and prices at which rounding happens, and  *)
(* some that the validation refuses.                                          *)
EXTENDS Documents

MCInvoiceLines ==
  [qty : {0, 50, 100, 300}, price : {-1, 1, 33}, rate : {-1, 0, 700, 5000, 10000}]

MCOrderLines ==
  [qty : {-1, 1, 3},
   price : [amount : {0, 15, 334}, currency : {"USD", "usd", "EUR"}]]
=============================================================================
