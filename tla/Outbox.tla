------------------------------- MODULE Outbox -------------------------------
(***************************************************************************)
(* The outbox of "evals/run 1/test": the table, the dispatcher loop each   *)
(* process runs, the message bus, and the handlers that mail the customer. *)
(*                                                                         *)
(* dispatch_once works through a batch in ONE transaction: the rows are    *)
(* read once, without a lock, and the marks are written together when it   *)
(* commits.  Only the columns a mark changed are written.                  *)
(***************************************************************************)
EXTENDS FiniteSets, Integers

CONSTANTS
  Entries,        \* the rows, named by the order of their created_at
  Dispatchers,    \* the processes that run the loop
  Poison,         \* the rows whose event can never be handled: an unknown
                  \* event_type, an address the email provider refuses
  BatchSize,      \* OutboxConfig.BATCH_SIZE
  LogCallRaises,  \* does log.info("bus.publish", event=...) raise?  structlog's
                  \* first parameter is called event, so it does
  DbFails,        \* may a statement of the dispatcher's transaction fail?
  MaxAttempts,    \* bound: the attempts column is counted up to here
  MaxFaults,      \* bound: cancellations and crashes
  None

ASSUME OutboxAssumption ==
  /\ Entries \subseteq Nat /\ IsFiniteSet(Entries)
  /\ Poison \subseteq Entries
  /\ BatchSize \in Nat /\ MaxAttempts \in Nat /\ MaxFaults \in Nat
  /\ LogCallRaises \in BOOLEAN /\ DbFails \in BOOLEAN

\* "no row" is not a row.
ASSUME NoneAssumption ==
  None \notin [processed : BOOLEAN, error : BOOLEAN, attempts : 0..MaxAttempts]

VARIABLES
  row,     \* row[e]: the row of outbox_entries, None before it is committed
  mail,    \* the events whose email the provider accepted (under a key of the
           \* event's own, so a second call for it is accepted without effect)
  pc,      \* pc[d]: where dispatcher d is
  seen,    \* seen[d][e]: the row as d's transaction loaded it, None if it did not
  todo,    \* todo[d]: the entries of the batch still to be handled
  mark,    \* mark[d][e]: how d marked e in memory
  faults   \* how often a dispatcher was stopped

vars == <<row, mail, pc, seen, todo, mark, faults>>
work == <<seen, todo, mark>>

Row == [processed : BOOLEAN, error : BOOLEAN, attempts : 0..MaxAttempts]

TypeOK ==
  /\ row \in [Entries -> Row \cup {None}]
  /\ mail \subseteq Entries
  /\ pc \in [Dispatchers -> {"off", "idle", "handle", "send", "dead"}]
  /\ seen \in [Dispatchers -> [Entries -> Row \cup {None}]]
  /\ todo \in [Dispatchers -> SUBSET Entries]
  /\ mark \in [Dispatchers -> [Entries -> {"none", "processed", "failed"}]]
  /\ faults \in 0..MaxFaults

NoRows  == [e \in Entries |-> None]
NoMarks == [e \in Entries |-> "none"]

Init ==
  /\ row = NoRows
  /\ mail = {}
  /\ pc = [d \in Dispatchers |-> "off"]
  /\ seen = [d \in Dispatchers |-> NoRows]
  /\ todo = [d \in Dispatchers |-> {}]
  /\ mark = [d \in Dispatchers |-> NoMarks]
  /\ faults = 0

----------------------------------------------------------------------------
(* The writers: a commit of BillingService.  created_at is taken before the *)
(* commit, so a row may appear after a later one.                           *)

\* The attempts column has no default.
AddEvent_NoDefault(e) ==
  /\ row[e] = None
  /\ row' = [row EXCEPT ![e] = [processed |-> FALSE, error |-> FALSE, attempts |-> None]]
  /\ UNCHANGED <<mail, pc, work, faults>>

AddEvent(e) ==
  /\ row[e] = None
  /\ row' = [row EXCEPT ![e] = [processed |-> FALSE, error |-> FALSE, attempts |-> 0]]
  /\ UNCHANGED <<mail, pc, work, faults>>

----------------------------------------------------------------------------
(* The loop. *)

Forget(d) ==
  /\ seen' = [seen EXCEPT ![d] = NoRows]
  /\ todo' = [todo EXCEPT ![d] = {}]
  /\ mark' = [mark EXCEPT ![d] = NoMarks]

\* The lifespan starts the loop, and starts it again after a restart.
Start(d) ==
  /\ pc[d] = "off"
  /\ pc' = [pc EXCEPT ![d] = "idle"]
  /\ UNCHANGED <<row, mail, work, faults>>

Unprocessed == {e \in Entries : row[e] # None /\ ~row[e].processed}

\* Only the entries that never failed.
Batch_Fresh ==
  LET fresh == {e \in Unprocessed : ~row[e].error}
  IN  {e \in fresh : Cardinality({f \in fresh : f < e}) < BatchSize}

\* The oldest unprocessed entries, BatchSize of them.
Batch == {e \in Unprocessed : Cardinality({f \in Unprocessed : f < e}) < BatchSize}

\* list_unprocessed.  An empty batch leaves nothing to do until the next poll.
Load(d) ==
  /\ pc[d] = "idle"
  /\ Batch # {}
  /\ seen' = [seen EXCEPT ![d] = [e \in Entries |-> IF e \in Batch THEN row[e] ELSE None]]
  /\ todo' = [todo EXCEPT ![d] = Batch]
  /\ pc' = [pc EXCEPT ![d] = "handle"]
  /\ UNCHANGED <<row, mail, mark, faults>>

Current(d, e) == e \in todo[d] /\ \A f \in todo[d] : e <= f

Marked(d, e, how) ==
  /\ mark' = [mark EXCEPT ![d][e] = how]
  /\ todo' = [todo EXCEPT ![d] = @ \ {e}]
  /\ pc' = [pc EXCEPT ![d] = "handle"]

\* The entry is marked when the handler is called, not when it returns.
Publish_MarkFirst(d, e) ==
  /\ pc[d] = "handle"
  /\ Current(d, e)
  /\ mark' = [mark EXCEPT ![d][e] = "processed"]
  /\ todo' = [todo EXCEPT ![d] = @ \ {e}]
  /\ UNCHANGED <<row, mail, pc, seen, faults>>

\* publish: the log call, then the handler, which looks up the customer and
\* calls the email provider.  What raises before the call marks the entry
\* failed; cancellation is not caught (see Stop).
Publish(d, e) ==
  /\ pc[d] = "handle"
  /\ Current(d, e)
  /\ \/ Marked(d, e, "failed")
     \/ /\ ~LogCallRaises
        /\ pc' = [pc EXCEPT ![d] = "send"]
        /\ UNCHANGED <<todo, mark>>
  /\ UNCHANGED <<row, mail, seen, faults>>

\* External: the email provider accepts the request of a dispatcher.
EmailAccepts(e) ==
  /\ \E d \in Dispatchers : pc[d] = "send" /\ Current(d, e)
  /\ e \notin Poison \cup mail
  /\ mail' = mail \cup {e}
  /\ UNCHANGED <<row, pc, work, faults>>

\* The email client returns: the provider accepted, and the reply arrived.
Handled(d, e) ==
  /\ pc[d] = "send"
  /\ Current(d, e)
  /\ e \in mail
  /\ Marked(d, e, "processed")
  /\ UNCHANGED <<row, mail, seen, faults>>

\* The email client raises, after the provider accepted or not.
HandlerFails(d, e) ==
  /\ pc[d] = "send"
  /\ Current(d, e)
  /\ Marked(d, e, "failed")
  /\ UNCHANGED <<row, mail, seen, faults>>

Up(n) == IF n < MaxAttempts THEN n + 1 ELSE MaxAttempts

\* The whole row is written, as it was loaded and marked.
Flushed_WholeRow(r, s, how) ==
  CASE how = "none"      -> r
    [] how = "processed" -> [s EXCEPT !.processed = TRUE, !.error = FALSE]
    [] how = "failed"    -> [s EXCEPT !.attempts = Up(@), !.error = TRUE]

\* A row r after the flush of an entry loaded as s and marked how: a column is
\* written when the mark left it different from what was loaded.  The error is only
\* whether there is a message: another failure rewrites its text.
Flushed(r, s, how) ==
  CASE how = "none"      -> r
    [] how = "processed" -> [r EXCEPT !.processed = TRUE, !.error = IF s.error THEN FALSE ELSE @]
    [] how = "failed"    -> [r EXCEPT !.attempts = Up(s.attempts), !.error = IF s.error THEN @ ELSE TRUE]

\* The transaction commits, and the loop sleeps until the next poll.
Commit(d) ==
  /\ pc[d] = "handle"
  /\ todo[d] = {}
  /\ row' = [e \in Entries |-> Flushed(row[e], seen[d][e], mark[d][e])]
  /\ pc' = [pc EXCEPT ![d] = "idle"]
  /\ Forget(d)
  /\ UNCHANGED <<mail, faults>>

\* Shutdown cancels the task wherever it is, a crash stops it: CancelledError is
\* not an Exception, so no entry is marked and the transaction is rolled back.
Stop(d) ==
  /\ pc[d] # "off"
  /\ faults < MaxFaults
  /\ faults' = faults + 1
  /\ pc' = [pc EXCEPT ![d] = "off"]
  /\ Forget(d)
  /\ UNCHANGED <<row, mail>>

\* A statement of the dispatcher's own transaction fails: dispatch_once raises,
\* run_outbox_loop does not catch it, and the task is over.
LoopDies(d) ==
  /\ DbFails
  /\ \/ pc[d] = "idle"
     \/ pc[d] = "handle" /\ todo[d] = {}
  /\ pc' = [pc EXCEPT ![d] = "dead"]
  /\ Forget(d)
  /\ UNCHANGED <<row, mail, faults>>

Dispatch(d) ==
  \/ Load(d) \/ Commit(d)
  \/ \E e \in Entries : Publish(d, e) \/ Handled(d, e) \/ HandlerFails(d, e)

Next ==
  \/ \E e \in Entries : AddEvent(e) \/ EmailAccepts(e)
  \/ \E d \in Dispatchers : Start(d) \/ Dispatch(d) \/ Stop(d) \/ LoopDies(d)

Spec == Init /\ [][Next]_vars

\* Reaching the email provider for e: the lookup succeeds and the call leaves.
Calls(d, e) == Publish(d, e) /\ pc'[d] = "send"

\* The loop runs and is started again.  An email provider, and the lookup before
\* it, that are tried again and again do not fail forever.
FairSpec ==
  /\ Spec
  /\ \A d \in Dispatchers : WF_vars(Start(d)) /\ WF_vars(Dispatch(d))
  /\ \A e \in Entries :
       /\ SF_vars(EmailAccepts(e))
       /\ \A d \in Dispatchers : SF_vars(Calls(d, e)) /\ SF_vars(Handled(d, e))

----------------------------------------------------------------------------
(* Properties. *)

Processed(e) == row[e] # None /\ row[e].processed

\* No event is set aside before its email was accepted, whatever stopped, failed
\* or ran twice on the way.
ProcessedWasMailed == \A e \in Entries : Processed(e) => e \in mail

\* The outbox delivers: it implements Delivery.
Stage ==
  [e \in Entries |-> IF row[e] = None THEN "absent"
                     ELSE IF row[e].processed THEN "done"
                     ELSE IF e \in mail THEN "mailed" ELSE "recorded"]

Deliver == INSTANCE Delivery WITH stage <- Stage

DeliversAtLeastOnce == Deliver!DSpec

\* Every recorded event that can be handled is mailed in the end.
EventuallyMailed ==
  \A e \in Entries \ Poison : row[e] # None ~> e \in mail

\* And set aside, so that it stops being mailed.
EventuallyProcessed ==
  \A e \in Entries \ Poison : row[e] # None ~> Processed(e)
=============================================================================
