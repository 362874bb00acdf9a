-------------------------- MODULE InvoiceLifecycle --------------------------
(***************************************************************************)
(* What the invoice aggregate promises, whatever serves it: an invoice is  *)
(* drafted line by line, issued once with at least one line, and paid once *)
(* for exactly the lines it was issued with.  Billing is shown to implement*)
(* this specification when it serves one request at a time; with requests  *)
(* in flight together it does not (see README.md).                         *)
(***************************************************************************)
EXTENDS FiniteSets

CONSTANTS Invoices, Lines

VARIABLES
  status,  \* status[i]: where invoice i is in its life
  lines,   \* lines[i]: the lines of invoice i
  bill,    \* bill[i]: the lines announced when i was issued, {} before
  paid     \* paid[i]: the amounts that were collected and booked for i

lvars == <<status, lines, bill, paid>>

Life == {"absent", "draft", "issued", "paid"}

LInit ==
  /\ status = [i \in Invoices |-> "absent"]
  /\ lines = [i \in Invoices |-> {}]
  /\ bill = [i \in Invoices |-> {}]
  /\ paid = [i \in Invoices |-> {}]

Create(i) ==
  /\ status[i] = "absent"
  /\ status' = [status EXCEPT ![i] = "draft"]
  /\ UNCHANGED <<lines, bill, paid>>

AddLine(i, l) ==
  /\ status[i] = "draft"
  /\ l \notin lines[i]
  /\ lines' = [lines EXCEPT ![i] = @ \cup {l}]
  /\ UNCHANGED <<status, bill, paid>>

Issue(i) ==
  /\ status[i] = "draft"
  /\ lines[i] # {}
  /\ status' = [status EXCEPT ![i] = "issued"]
  /\ bill' = [bill EXCEPT ![i] = lines[i]]
  /\ UNCHANGED <<lines, paid>>

Pay(i) ==
  /\ status[i] = "issued"
  /\ status' = [status EXCEPT ![i] = "paid"]
  /\ paid' = [paid EXCEPT ![i] = {bill[i]}]
  /\ UNCHANGED <<lines, bill>>

LNext ==
  \E i \in Invoices :
    \/ Create(i) \/ Issue(i) \/ Pay(i)
    \/ \E l \in Lines : AddLine(i, l)

LSpec == LInit /\ [][LNext]_lvars
=============================================================================
