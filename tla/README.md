# Verification of the invoice collection services

The repository is a collection of engineering skills for Python services, with
two generated services beside it that were built from one prompt: the *test app*
(`src/evals/run 1/test`, built with the skills) and the *control app*
(`src/evals/run 1/control`, built without). The skills carry example modules of
their own. This directory holds TLA+ models of the parts with behaviour, the TLC
runs that check them and the theorems TLAPS proves about them. Code is quoted by
its path below `src/`; `app/` stands for `evals/run 1/test/app/`.

## The system

### Components, their state and their operations

| Component | State | Operations | Hard because |
|---|---|---|---|
| Billing (`app/services/billing.py`, `models`, `repos`, `deps/db.py`) | tables customers, invoices, invoice_lines, payment_attempts; one session per request with what it loaded | create customer / invoice, add line, issue, collect payment | requests interleave between round trips on stale reads; the payment spans two transactions and a call |
| Outbox (`app/outbox`, `common/message_bus.py`, `handlers`) | table outbox_entries; the batch and marks of each process's loop | add event (by Billing), dispatch a batch, publish, mail | no row locks, one transaction per batch, cancellation, poison rows |
| HTTP clients (`app/clients`, `skills/python-external-client/examples`) | tries of a call, requests and replies on the way | request with retries, map errors | late requests, lost replies, what an error means |
| Totals (`app/models/invoice.py`, control `totals.py`, skill `money.py`) | none | rounding of lines and sums, cents | rounding at different places, two currencies |
| Lifespan and pool (`app/setup.py`, `app/db`; skill `setup.py`, `db.py`, `llm_dispatch.py`) | resources open, the exit stack, the dispatcher task, connections | start with retries, stop | partial start, cancellation, connections held while waiting for one |
| Control app (`evals/run 1/control/app`) | the same tables, an events table | the same operations in one service class, reads | e-mail before commit, commit race, answers read by two statements |
| Orders and checkout (skills) | an order, its events; the order table | add line, place, cancel, refund, pull events | a charge inside a transaction that may fail, stale writes |
| Skill outbox (`skills/python-message-bus-outbox/references/outbox.md`) | outbox rows with back-off and attempts | claim, dispatch, record failure | the lock of a claimed row, give-up after MAX_ATTEMPTS |
| Installer (`install.sh`) | links and copies under a destination | install, uninstall | repeated runs |
| API, schemas, config, logging, value objects | none | validate, map errors | – |

Billing writes events into the outbox in the transaction of the change they
announce. The dispatcher of every process polls the table, publishes each event
on the bus, and a handler looks up the customer and calls the e-mail provider.
`collect_payment` calls the payment provider between two transactions. All
processes share one database; the two providers are outside.

### What makes each part correct

* Billing: one call to the provider per invoice and key; a succeeded attempt was
  charged for its own amount; no charge without an attempt, nor for less than an issue
  announced; one InvoicePaid per success; the domain rules of `evals/README.md` (lines 44-57).
* Control app: no issue announced unmailed, no draft owed, nothing marked paid that
  was not charged, one call per invoice and key.
* Outbox: no event set aside before it was mailed, none mailed never.
* Clients: an answer tells what the provider did; retries do not repeat effects.
* Control app answers: what a client is shown of an invoice or an attempt holds.
* Checkout: nothing is stored uncharged or says refunded unpaid, and answers hold.
* Totals: the ways of rounding drift apart by a bounded part of a cent per line; no
  currencies are mixed; an order's events tell its history.
* Lifespan: whatever fails while starting, a stopped process has closed what it
  opened; nobody uses what is closed; the dispatcher never waits for itself.

## The modules

| Module | Models | Kind |
|---|---|---|
| `Billing` | the service, the aggregate, the repositories, the database, the payment provider (external) | detailed |
| `InvoiceLifecycle` | what the aggregate promises | abstract, implemented by `Billing` with one request at a time |
| `Control` | the service of the control app, its database, the e-mail and payment providers (external) | detailed |
| `Outbox` | table, dispatchers, bus, handlers, the e-mail provider (external) | detailed |
| `Delivery` | what the outbox promises for an event | abstract, implemented by `Outbox` |
| `HttpCall` | one call of the payment, e-mail or OpenAI client with its retries, the provider (external) | detailed |
| `OneCall` | what a service may rely on in a call | abstract, implemented by `HttpCall` |
| `Checkout` | the checkout service, the order aggregate and repository, Stripe (external) | detailed |
| `Amounts` | the arithmetic of totals and of Money, in both applications and the skills | operators |
| `Documents` | an invoice or an order written line by line, the order's events | detailed |
| `Lifespan` | a process from start to stop, with its pool and its dispatcher's task | detailed |
| `BillingProofs`, `ControlProofs`, `OutboxProofs`, `HttpCallProofs`, `CheckoutProofs`, `DocumentsProofs`, `LifespanProofs` | the theorems about the module of that name | proofs |
| `BillingSerialProofs` | the theorems about `Billing` with one request at a time | proofs |
| `MCBilling`, `MCControl`, `MCOutbox`, `MCCheckout`, `MCDocuments` | symmetry and inputs for TLC | model checking |

### Billing

A request `r` is one HTTP call; `pc[r]` is its next round trip and `session[r]`
what it was asked for and what its session has loaded. One action is one round
trip to the database or the provider, with everything the code does before the
next `await` that can be interrupted:

| Code | Action |
|---|---|
| `get_or_raise` (invoice row, then `selectinload` of the lines) | `LoadInvoice`, `LoadLines` (with the guards of `add_line` and `issue` on what was loaded) |
| commit of `add_invoice_line`, of `issue_invoice` | `AddLine`, `Issue` |
| SELECT of the attempt and `start_payment_attempt` | `Lookup` |
| INSERT of the pending attempt, unique constraint, commit | `InsertAttempt` |
| `PaymentProviderClient.collect_payment` | `CallProvider`, `ProviderExecutes` (external), `ReturnFromProvider` |
| `except PaymentProviderException`, a declined payment | `FailAttempt` |
| the transaction of a succeeded payment | `Settle` |
| a process that stops, a lost connection | `Abort` |

A session keeps what it has read: `session.get` returns the object of the
identity map, and `expire_on_commit` is off. So `Settle` tests the status of the
first read. The UPDATE is by primary key; nothing locks a row. Lines, attempts
and events are named by the request that creates them, and an amount is the set
of lines it adds up: two amounts are the same when they are of the same lines.
The provider's record is kept per idempotency key, since the header carries
nothing else; a key it has seen for another invoice is assumed to be refused, as
providers do that compare the body of a repeated key.

### Control

The same operations in one service class, with round trips as in `Billing`. What
differs is in the actions: `issue_invoice` calls the e-mail provider between its
reads and its commit (`SendLetter`, `EmailAccepts`, `ReturnFromEmail`, `Issue`);
the payment provider is called once, every HTTP error fails the attempt, a reply
without a status counts as failed and one that says "processing" leaves the
attempt open (`ReturnFromProvider`); nothing looks at the invoice again when a
payment settles (`Settle`). `After` holds the guards of the operations on
what was loaded. The rows of `events` are written and read by nobody. A loser of
the commit race finds the winner's attempt, but its rollback has expired the
invoice whose status it then reads, which raises (`InsertAttempt`). Payments of
one invoice with different keys race here as they do in `Billing`, so the
properties of the run are those that hold all the same.

`answer[r]` is what the client of `r` was shown. `add_line` and `issue` load the
invoice once more after their commit (`Reload`, `ReloadLines`), in the session
that has loaded it already: `populate_existing` is what makes the answer fresh.
Row and lines are two statements under READ COMMITTED, so other requests may
commit in between. A payment answers with the status of the invoice it loaded at
the start: a repetition may be told "succeeded" of an invoice that reads "issued".

### Outbox

`row` is the table; `seen`, `todo` and `mark` are what the transaction of a
dispatcher has loaded, has still to handle, and has marked in memory. `Load`
is the SELECT; `Publish`, `Handled` and `HandlerFails` are the handler up to its
call, its return and its failure; `Commit` writes only the columns the marks
changed, as SQLAlchemy's unit of work does (`Flushed`), on rows another
dispatcher may have written in between. `Stop` is shutdown (cancellation is not an
`Exception`, so the entry is not marked) or a crash; `LoopDies` a failed
statement of the dispatcher's own transaction: `run_outbox_loop` does not catch
it, the task is over and later events stay unprocessed until a restart. In
`outbox_shared` it may happen at any time, in `outbox_live` it does not.

Three constants name what the environment may do: `Poison`, the rows that can
never be handled, `DbFails`, and `LogCallRaises`. The last is how the code
stands: `log.info("bus.publish", event=...)` gives structlog's first parameter
twice and raises, so nothing is ever mailed (run `outbox_log_call`). The other
runs are about the dispatcher with that call repaired; what they find would
otherwise be hidden behind it.

### HttpCall

`client` is which of the three clients calls. `Send`, `Receive`, `Lose` (any
transport error) and `Cancel` are the client; `Responds` and `ExecutesLate` the
provider. A request given up may be executed late; its reply goes nowhere.
`MayRetry` holds the two retry rules and `Tries` the two ways of counting
`MAX_RETRIES`. Two failures are raised at the first try, since no rule retries
them: a redirect, which `raise_for_status` refuses, and a body that httpx cannot
decode, of a request that may have been executed. `OneCall` is the assumption `Billing` makes in
`ReturnFromProvider`: a stated outcome is true, an exception says nothing.

### Checkout

A call `c` is one call of the service with its own session and transaction;
`session[c]` is the order that session holds, which is written when the
transaction ends. `PlaceOrder` is the code before the first `await`: the order is
built, placed and its charge sent. `ChargeReturns`, `Insert` (the flush of
`OrderRepo.add`, where a customer who does not exist is found out after the
charge) and `Commit` follow. `CancelOrder` and `RefundOrder` load the order;
`Commit` writes what the session changed (`Written`), whatever the row has become.
Stripe is external: it executes a request once, perhaps after the call is gone,
and is reached through the client of `HttpCall`, so that a return is true and an
exception says nothing. A refund names its charge and its amount itself; the
amount is left out.

`DefaultAtInsert` is how the code stands: `mapped_column(default=...)` is applied by
the INSERT, `Order.new(...)` has the status `None`, and `place_order` refuses every
order (run `checkout_refused`). As with the bus's log call, the run `checkout` is
about the service with that default repaired.

### Amounts and Documents

`Amounts` has the code's decimals as integers that count a fixed part of a cent,
small enough that nothing but the stated rounding (`HalfUp`, `Truncated`) loses a
digit. `Documents` writes a document line by line and states its properties of the
totals of the lines so far; the same state machine is the pure `Order` with
`events`, of which `published` is what `pull_events` has handed over. `Place` sets
the status before it computes the total for the event, as the code does.

### Lifespan

`stack` is the `AsyncExitStack`, `state` what `app.state` has, `open` the engines and
clients not yet closed. A start is a sequence of steps, each of which may fail; the
skill's pool is tried `MaxRetries` + 1 times. `held` is who holds a connection of the
pool: a request's transaction, the dispatcher's batch, and the lookup of its
handler. The dispatcher dies when it cannot load a batch. `Stop` waits for the
requests; unwinding cancels and awaits the task first, because it was pushed last.
The pool must have two connections (`LifespanAssumption`; 15 by default): with
one the handler waits for its own batch until the pool's time-out, batch after
batch, and nothing is ever mailed.

## The runs

All runs end within a minute or so on two workers.

| Run | Shows | Bounds |
|---|---|---|
| `billing_concurrent` | `SucceededIsCharged`, `ChargeHasAttempt`, `OneCallPerKey`, `ChargedWasIssued`, `PaidEventPerSuccess`, `AttemptIsFinal` with any interleaving, crashes and lost replies | 2 invoices, 2 keys, 5 requests, all in flight together: a line, an issue and three payments, enough for every race of payments; 124,796 states |
| `billing_serial` | the domain rules `NotPaidTwice` and `FollowsLifecycle` (the refinement: an issued invoice is frozen, and paid once, what was announced) | the same with 6 requests one at a time (`MaxInFlight = 1`): a line, an issue, and four more operations in any order; 46,663 states |
| `control_concurrent` | `IssuedWasMailed`, `DraftIsUnbilled`, `BooksBalance` (nothing paid uncharged, nothing charged unaccounted for), `OneCallPerKey`, `AnswersHold` of the control service | 2 invoices, 2 keys, 4 requests, all in flight together: a line, an issue and two payments, or one and a read; 697,796 states |
| `outbox_shared` | `ProcessedWasMailed`, `DeliversAtLeastOnce` (the refinement) | 3 rows, one of them poison, 2 dispatchers, batches of 2, one crash, failing statements; 657,819 states |
| `outbox_live` | `EventuallyProcessed` | 3 rows, one poison, batches of 2, one dispatcher, one restart; 6,521 states |
| `http_call` | `ActsOnce`, `GivesUpLast`, `AnswersTruly` (the refinement), `EveryCallEnds` | `MAX_RETRIES` 3: three tries, four for the OpenAI client; 731 states |
| `checkout` | `StoredIsTrue` (stored is charged, refunded is paid back), `AnswerHolds`, `QueryAgrees`, `CancellationKept` | 4 calls: two orders, a cancellation and a refund; baskets of no line, a gift, and two of one total; 577,077 states |
| `documents` | `TotalsNearlyAgree`, `NeverMixes`, `RefundMatchesCharge`, `EventsTellTheStory` | up to 3 lines, of quantities, prices and rates at which rounding goes up, down and nowhere, and some that are refused; 110,381 states |
| `lifespan` | `StopsClean`, `OneEngine`, `NoUseAfterClose`, `HandlerGetsOn`, `StartsAndStops` | both applications, 3 requests for a pool of 2, 3 retries; 196 states, all there are |

Three more runs show a disagreement between the code and what the repository says
of it; each is a finding of `PROJECT.json`:

| Run | What the code does |
|---|---|
| `billing_paid_twice` | two payments of one invoice with different keys, in flight together, both charge and both settle |
| `outbox_log_call` | the bus raises before any handler; nothing is mailed |
| `checkout_refused` | a new order is not a draft before its INSERT; every checkout is refused as already placed |

Further divergences that were met while modelling have no run of their own:

* `FollowsLifecycle` does not hold with requests in flight together, not even without
  payments: `add_invoice_line` tests the status it read (`app/services/billing.py:53`)
  and a line is committed to an invoice issued in the meantime, against
  `evals/README.md:49`. To see it, check the property with `BillingConcurrent.cfg`. The
  control app does the same (`services.py:91`). Two issues together both publish
  InvoiceIssued, and the later one sets an invoice paid in the meantime back to issued
  (`app/services/billing.py:72`). What is left is `ChargedWasIssued`: a payment may ask
  for more than an issue announced, never for less.
* In the control app the total may differ by one cent from subtotal plus tax, since the
  three are rounded apart (`evals/run 1/control/app/totals.py:22`), against
  `evals/README.md:55`: half a piece at 0.01, taxed at rate 1, has a subtotal and a tax
  of 0.01 each and a total of 0.01. `TotalsNearlyAgree` says that it is never more than
  that; with 0 for its bound of 1 the run `documents` shows the case.
* The checkout skill may charge a customer for no order, when the flush or the commit
  fails after the charge, and again when the call is repeated: the charge carries no
  idempotency key (`skills/python-service-and-schema-cohesion/examples/checkout_service.py:31`).
  Two refunds of one order are both paid (line 48 there), and a refund that loaded the
  order before it was cancelled overwrites the reason
  (`skills/python-aggregate-and-repo/examples/order_repo.py:21`). `StoredIsTrue` and `AnswerHolds` promise the converse
  only, and `CancellationKept` allows exactly this overwriting.
* A charge whose reply is lost, or whose request dies, never makes the invoice paid,
  and an attempt left pending by a 4xx or an unreadable body stays so: nobody asks the
  provider again (`app/services/billing.py:101`).
* In the control app the payment that loses the commit race ends in an unhandled error
  (`services.py:179`), a request whose `pc` is `"raised"` without an attempt.
* As many rows that always fail as the batch is long keep newer events from being
  looked at (`app/outbox/repo.py:20`): `EventuallyProcessed` fails with `Poison = {1, 2}` in
  `OutboxLive.cfg`.

Why the bounds are enough: a violation of the safety properties needs at most one
line, one issue and the two payments that race; a further request adds only
another payer. One key used on two invoices takes six requests (a line, an issue
and a payment for each), which `billing_serial` has; in flight together it is
covered by the theorems. In the outbox,
two dispatchers and a batch smaller than the table give every overlap of batches,
and the attempts are counted up to a bound (`MaxAttempts`): no guard reads them and
no property depends on the count.

Rounding errors add up by line, so that three lines show whatever a line can do and
that the bound grows with them; three requests and the dispatcher exhaust a pool of
two in every way.

Symmetry (`MCBilling`, `MCControl`, `MCOutbox`, `MCCheckout`) is used in the safety
runs only: requests, keys, calls and dispatchers appear in no formula by name. Deadlock is not checked: each
instance is a finite set of requests, rows or tries, and the system may stop when
they are used up.

### Fairness

* `Lifespan!FairSpec`: the event loop runs what is ready; connection attempts,
  requests and calls of the e-mail provider end by their time-outs (weak fairness of
  the start, of unwinding, of each request's end and of the handler). The pool serves
  its waiters in turn, so a handler that could be given a connection again and again
  is given one (strong fairness of `TakeSecond`). The pool's own time-out is not
  relied upon, nor is the dispatcher's loop as such.
* `Outbox!FairSpec`: the loop runs and is started again (a process manager
  restarts the service). Strong fairness of the call, its acceptance and its
  return says that neither the provider nor the lookup before it fails each time
  they are tried. This is an assumption about the environment, stated for the rows
  outside `Poison`.
* `HttpCall!FairSpec`: the client sends what is ready and its time-out ends every
  wait. The provider is not assumed to answer. The time-out for reading is per chunk: a
  reply that trickles in for ever is outside the model.

## The proofs

The theorems hold for every value of the constants: any number of invoices, keys,
requests, lines, rows, dispatchers, retries, connections. Every safety invariant, action
property and refinement that a passing run checks is stated by one. Each module has
an inductive invariant `IInv`, of which the type invariant is a part.

**Billing** (`BillingProofs`). The safety properties are not inductive: that a
settled attempt was charged depends on what the request knew when it called. The
invariant `IInv` says for every place of `collect_payment` what a request holds
and what is already true because of it (its attempt is the pending one of its
key, the call has left, the provider's record agrees with the reply it read, the
invoice was announced before, for no more than the lines it loaded), and that attempts are unique per invoice and
key. Proved from it: `TypeCorrect`, `SucceededAreCharged`, `ChargesHaveAttempts`,
`OneCall`, `ChargedWereIssued`, `PaidEvents_Succeeded`, `AttemptsAreFinal`. The
assumptions are that `None` is none of the records or keys and that the bound is a
number.

**Billing, one request at a time** (`BillingSerialProofs`). That a paid invoice has one
payment, and that the service implements `InvoiceLifecycle`, is false when requests
overlap (run `billing_paid_twice`), so these theorems assume `MaxInFlight = 1`, as
the repository's tests do by awaiting each request. `SerialInv` says what is gained by it: nobody
else is in flight, so what a session loaded is what the database holds, a stored
line belongs to a request that has ended, an announced total is still the total, and
only a paid invoice has a payment. `PaidOnce` follows, and `LifecycleFollowed`: the
commit of `AddLine`, `Issue` and `Settle` is a step of the abstract invoice, and every
other step leaves its bill and its payment alone. The bill is a count of lines, so
that a line added counts one more.

**Control** (`ControlProofs`). This application sends its mail inside the request, before
the commit, and reads the invoice again after it. `IInv` says that what a session has
loaded is no news (lines only grow, and a row that says issued or paid has its
event), that a request's letter was accepted before it writes the issue, that a key names at most one
attempt and a charge under it is that attempt's, and that what was answered is still
shown. From it, with any number of requests in flight: `TypeCorrect`,
`IssuedWereMailed`, `DraftsAreUnbilled`, `BooksAgree`, `OneCall`, `AnswersAreTrue`.
`NothingIsUndone` is the action property the invariant's steps share: events, mails
and calls stay, lines stay, an issued invoice does not go back, an attempt is settled
once.

**Outbox** (`OutboxProofs`). A dispatcher's mark "processed" implies that the event
was mailed, and a row a transaction has seen exists and never becomes unprocessed
again. From it: `TypeCorrect`, `ProcessedWereMailed`, and `Delivers`: every step is
a step of `Delivery` or leaves its state alone, in particular a commit that sets
aside several events at once, some of which another dispatcher has set aside.

**HttpCall** (`HttpCallProofs`). The requests executed, given up and waited for add
up to at most the tries; a key was executed once if anything was; a reply that
states an outcome states the one there was. From it: `TypeCorrect`,
`KeyedActOnce`, and `CallsOnce` (`HttpCall` implements `OneCall`). `LastGivesUp` is an
action property: it follows from the rules by which each reply is retried or raised.

**Checkout** (`CheckoutProofs`). None of the properties is inductive: that an order is
stored charged depends on what its call held when it went from Stripe to the flush.
The invariant says for a call that places that its session's row is the one it asked
Stripe to charge, and was charged once it is past the await; for one that cancels or
refunds, that the row it loaded was charged for the same lines, is stored still, and
stays cancelled if it was. From it: `TypeCorrect`, `StoredTrue`, `AnswersStayTrue`,
`CancellationsKept`, `QueriesAgree`. What a total is, a sum over the lines, is not used,
only that it depends on the lines alone.

**Documents** (`DocumentsProofs`). The totals are recursive functions of the lines: the
order's total a function on 1..n, the invoices' a fold over a set. The library's
induction theorems take an operator as a parameter, so induction is on a set of
numbers (`SetInduction`, from the well-foundedness of `<`). With it: the recursive functions exist
and have the form they are defined by, the order's total is the sum of its amounts if the
currencies are equal and a mismatch otherwise, and the sum of two functions that differ
by at most `b` everywhere differs by at most `b` for each line. One line's drift comes
from the definition of the roundings. `TotalsAgree` adds these up, for any integers as
quantities, prices and rates; `CurrenciesNeverMix`, `RefundsMatch` and `StoryIsTold`
(the events repeat the order's history) are about any order. `LinesAssumption` says
that lines are records of integers and that an order's currency is one of three: two
that differ, and one that differs from another only by its case, which is all that
`Money` distinguishes.

**Lifespan** (`LifespanProofs`). The stack is a prefix of the steps of the start, and what is open
is what the stack closes, but for the engine being connected and the one that
escapes. Who holds a connection follows from where the dispatcher is, and the
dispatcher lives only while its callback is on the stack. From it, for every number of
retries, connections and requests: `TypeCorrect`, `OnlyOneEngine`,
`NoneUsedAfterClose`, `StopsAreClean`. The assumption is `LifespanAssumption`.

Only model-checked: the liveness properties under fairness (`EventuallyProcessed`,
`EveryCallEnds`, `HandlerGetsOn`, `StartsAndStops`), which are out of the
prover's reach.

## Not modelled

* The datetimes: timestamp columns have no time zone and receive aware values,
  which asyncpg refuses for such columns (the message-bus skill notes it). `Billing`
  assumes that the writes succeed, as they do with a driver that converts.
* Customers beyond their existence (the unique e-mail is a plain 409), currencies,
  descriptions, wording of errors and logs, input validation.
* The connection pool of httpx, the length of waits. A connection pool and the tables
  are separate modules: `Billing` and `Outbox` assume that a connection is had.
* Exceptions raised by a cleanup itself.
* The order of the mails: `created_at` is taken before the commit and two processes
  dispatch side by side (`app/outbox/model.py:23`), so that the mail of a payment may go
  out before that of the issue. `Outbox` lets rows appear out of order, and nothing in
  the repository promises otherwise.
* The skill outbox and the installer: prose and a script, without a program to check.
* A provider that executes one key twice.
* The parts listed `not_modelled` in `PROJECT.json`, see the plan.

## Plan

Done: all modules listed above, and the proofs of every safety property and refinement.
Worth doing next, in this order:

1. `Collection`: Billing and Outbox composed over one table, so that every payment is
   announced, and mailed as what was charged.
2. An abstract specification for `Control`, to say how much less it promises than
   `InvoiceLifecycle`: its mail leaves before the commit that issues.
