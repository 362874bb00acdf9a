------------------------------ MODULE Lifespan ------------------------------
(***************************************************************************)
(* One process from its start to its end: the lifespan that opens the      *)
(* resources of an application one after the other and closes them in      *)
(* reverse, with the connection pool its requests and its dispatcher share.*)
(*                                                                         *)
(* Two applications: "test" is app/setup.py and app/db of the test app,    *)
(* "skill" is setup.py and db.py of the python-fastapi-sa-app-setup skill. *)
(* They differ in how the database's engine is opened, and only the test   *)
(* app runs a dispatcher, which holds a connection while the handler it    *)
(* calls takes a second one.  What the dispatcher does to the rows of the  *)
(* outbox is the module Outbox.                                            *)
(***************************************************************************)
EXTENDS FiniteSets, Integers, SequencesExt

CONSTANTS
  Requests,    \* HTTP requests, each for a transaction, which needs a connection
  MaxRetries,  \* max_retries of provide_async_db_pool
  Capacity     \* POOL_SIZE + POOL_OVERFLOW

ASSUME LifespanAssumption ==
  /\ MaxRetries \in Nat
  /\ Capacity \in Nat \ {0, 1}   \* 15 by default; see HandlerGetsOn
  /\ Requests \cap {"batch", "lookup"} = {}

VARIABLES
  app,        \* which application
  pc,         \* where its lifespan stands
  attempt,    \* engines created
  open,       \* the engines and clients that are open
  state,      \* the resources app.state refers to
  stack,      \* the callbacks of the AsyncExitStack, the last pushed last
  ok,         \* no exception has reached the lifespan
  cancelled,  \* the lifespan's own task was cancelled
  task,       \* where the dispatcher's task stands
  stopTask,   \* it has been cancelled
  held        \* who holds a connection of the pool

lifespan == <<pc, attempt, open, state, stack, ok, cancelled>>
pool == <<task, stopTask, held>>
vars == <<app, lifespan, pool>>

Clients == {"payment", "email", "stripe", "llm"}

\* What a lifespan initialises, in this order.
Steps ==
  IF app = "test" THEN <<"db", "payment", "email", "task">>
                  ELSE <<"db", "stripe", "llm">>

Engine(n) == <<"engine", n>>
Engines == {Engine(n) : n \in 1..(MaxRetries + 1)}
Client(c) == <<c, 1>>
Callback == Clients \cup {"db", "task"}

\* The engine the application uses is the last one created.
Resource(name) == IF name = "db" THEN Engine(attempt) ELSE Client(name)

Over == {"none", "ended", "dead"}
Alive == {"sleep", "batch", "lookup", "query", "mail"}

TypeOK ==
  /\ app \in {"test", "skill"}
  /\ pc \in {"starting", "connecting", "serving", "stopping", "stopped"}
  /\ attempt \in 0..(MaxRetries + 1)
  /\ open \subseteq Engines \cup {Client(c) : c \in Clients}
  /\ state \subseteq Clients \cup {"db"}
  /\ stack \in Seq(Callback) /\ Len(stack) <= Len(Steps)
  /\ ok \in BOOLEAN /\ cancelled \in BOOLEAN /\ stopTask \in BOOLEAN
  /\ task \in Over \cup Alive
  /\ held \subseteq Requests \cup {"batch", "lookup"}
  /\ Cardinality(held) <= Capacity

Init ==
  /\ app \in {"test", "skill"}
  /\ pc = "starting" /\ attempt = 0
  /\ open = {} /\ state = {} /\ stack = <<>>
  /\ ok = TRUE /\ cancelled = FALSE
  /\ task = "none" /\ stopTask = FALSE /\ held = {}

----------------------------------------------------------------------------
(* Start. *)

\* Every step so far has pushed its callback.
Initialises(name) ==
  /\ pc = "starting"
  /\ Len(stack) < Len(Steps)
  /\ Steps[Len(stack) + 1] = name

\* The resource is stored in app.state and its cleanup is pushed.
Registers(name) ==
  /\ state' = state \cup {name}
  /\ stack' = Append(stack, name)

\* An exception leaves the lifespan before its yield: the stack unwinds.
GivesUp == pc' = "stopping" /\ ok' = FALSE

CreateEngine ==
  /\ Initialises("db")
  /\ attempt' = attempt + 1
  /\ open' = open \cup {Engine(attempt + 1)}
  /\ pc' = "connecting"
  /\ UNCHANGED <<app, state, stack, ok, cancelled, pool>>

\* The health check, or create_all, went through.
Connected ==
  /\ pc = "connecting"
  /\ Registers("db")
  /\ pc' = "starting"
  /\ UNCHANGED <<app, attempt, open, ok, cancelled, pool>>

\* The pool of a failed attempt stays open.
ConnectFails_Leaks ==
  /\ pc = "connecting"
  /\ IF app = "skill" /\ attempt <= MaxRetries
     THEN pc' = "starting" /\ UNCHANGED ok
     ELSE GivesUp
  /\ UNCHANGED <<app, attempt, open, state, stack, cancelled, pool>>

\* The skill disposes of the engine and tries again; the test app tries once
\* and leaves the engine to nobody.
ConnectFails ==
  /\ pc = "connecting"
  /\ IF app = "skill"
     THEN /\ open' = open \ {Engine(attempt)}
          /\ IF attempt <= MaxRetries
             THEN pc' = "starting" /\ UNCHANGED ok
             ELSE GivesUp
     ELSE GivesUp /\ UNCHANGED open
  /\ UNCHANGED <<app, attempt, state, stack, cancelled, pool>>

InitClient(c) ==
  /\ Initialises(c)
  /\ open' = open \cup {Client(c)}
  /\ Registers(c)
  /\ UNCHANGED <<app, pc, attempt, ok, cancelled, pool>>

\* A configuration the client refuses: an unknown provider, a bad address.
InitFails(c) ==
  /\ Initialises(c)
  /\ GivesUp
  /\ UNCHANGED <<app, attempt, open, state, stack, cancelled, pool>>

\* OUTBOX_ENABLED; without it the lifespan yields at once.
StartTask ==
  /\ Initialises("task")
  /\ \/ /\ task' = "sleep"
        /\ stack' = Append(stack, "task")
        /\ UNCHANGED pc
     \/ pc' = "serving" /\ UNCHANGED <<task, stack>>
  /\ UNCHANGED <<app, attempt, open, state, ok, cancelled, stopTask, held>>

Serve ==
  /\ pc = "starting"
  /\ Len(stack) = Len(Steps)
  /\ pc' = "serving"
  /\ UNCHANGED <<app, attempt, open, state, stack, ok, cancelled, pool>>

\* While it waits for the database or between two attempts: CancelledError is
\* not an Exception, nothing disposes of the engine.
CancelStart ==
  /\ pc = "connecting" \/ (Initialises("db") /\ attempt > 0)
  /\ GivesUp
  /\ cancelled' = TRUE
  /\ UNCHANGED <<app, attempt, open, state, stack, pool>>

----------------------------------------------------------------------------
(* The pool. *)

Full == Cardinality(held) >= Capacity

\* A pool without max_overflow.
BeginRequest_Unbounded(r) ==
  /\ pc = "serving"
  /\ r \notin held
  /\ held' = held \cup {r}
  /\ UNCHANGED <<app, lifespan, task, stopTask>>

\* External: the server, which runs requests between start and stop.
BeginRequest(r) ==
  /\ pc = "serving"
  /\ r \notin held
  /\ ~Full
  /\ held' = held \cup {r}
  /\ UNCHANGED <<app, lifespan, task, stopTask>>

\* The transaction ends, or get_session closes the session however the request ends.
EndRequest(r) ==
  /\ r \in held
  /\ held' = held \ {r}
  /\ UNCHANGED <<app, lifespan, task, stopTask>>

----------------------------------------------------------------------------
(* The dispatcher's task; it goes on until it is cancelled. *)

Step(from, to) ==
  /\ task = from /\ ~stopTask
  /\ task' = to
  /\ UNCHANGED <<app, lifespan, stopTask>>

\* dispatch_once opens its session and loads a batch.
LoadBatch == Step("sleep", "batch") /\ ~Full /\ held' = held \cup {"batch"}

\* Outside the try: the pool's time-out, or a statement that fails.
LoopDies ==
  /\ \/ Step("sleep", "dead") /\ Full
     \/ Step("batch", "dead")
  /\ held' = held \ {"batch"}

Publish == Step("batch", "lookup") /\ UNCHANGED held

\* The handler's session takes its connection, or waits for it.
TakeSecond == Step("lookup", "query") /\ ~Full /\ held' = held \cup {"lookup"}

\* TimeoutError inside the try: the entry is marked failed.
LookupTimesOut == Step("lookup", "batch") /\ Full /\ UNCHANGED held

\* A lookup that fails leaves its session open.
CustomerFound_KeepsSession ==
  \/ Step("query", "mail") /\ held' = held \ {"lookup"}
  \/ Step("query", "batch") /\ UNCHANGED held

\* The handler closes its session before it calls the provider.
CustomerFound ==
  /\ Step("query", "mail") \/ Step("query", "batch")
  /\ held' = held \ {"lookup"}

MailEnds == Step("mail", "batch") /\ UNCHANGED held

CommitBatch == Step("batch", "sleep") /\ held' = held \ {"batch"}

----------------------------------------------------------------------------
(* Stop. *)

\* External: the server stops when its requests have ended.
Stop ==
  /\ pc = "serving"
  /\ held \cap Requests = {}
  /\ pc' = "stopping"
  /\ UNCHANGED <<app, attempt, open, state, stack, ok, cancelled, pool>>

Unwinds(name) ==
  /\ pc = "stopping"
  /\ stack # <<>>
  /\ name = Last(stack)
  /\ stack' = Front(stack)

CancelTask ==
  /\ pc = "stopping"
  /\ stack # <<>> /\ Last(stack) = "task"
  /\ ~stopTask
  /\ stopTask' = TRUE
  /\ UNCHANGED <<app, lifespan, task, held>>

\* A cancelled handler is an entry that failed, and the loop goes on.
TaskEnds_Swallowed ==
  /\ stopTask
  /\ task \in {"sleep", "batch"}
  /\ task' = "ended"
  /\ held' = held \ {"batch", "lookup"}
  /\ UNCHANGED <<app, lifespan, stopTask>>

\* Nothing in the task catches CancelledError; its sessions are closed.
TaskEnds ==
  /\ stopTask
  /\ task \in Alive
  /\ task' = "ended"
  /\ held' = held \ {"batch", "lookup"}
  /\ UNCHANGED <<app, lifespan, stopTask>>

\* task.cancel() alone.
TaskAwaited_NotAwaited ==
  /\ Unwinds("task")
  /\ stopTask
  /\ ok' = (ok /\ task # "dead")
  /\ UNCHANGED <<app, pc, attempt, open, state, cancelled, pool>>

\* The exception of a task that died ends the unwinding.
TaskAwaited_Aborts ==
  /\ pc = "stopping" /\ stack # <<>> /\ Last(stack) = "task"
  /\ stopTask
  /\ task \in Over
  /\ stack' = IF task = "dead" THEN <<>> ELSE Front(stack)
  /\ ok' = (ok /\ task # "dead")
  /\ UNCHANGED <<app, pc, attempt, open, state, cancelled, pool>>

\* _cancel_task returns when the task is over; the exception of a task that
\* died goes on through the stack, whose other callbacks run all the same.
TaskAwaited ==
  /\ Unwinds("task")
  /\ stopTask
  /\ task \in Over
  /\ ok' = (ok /\ task # "dead")
  /\ UNCHANGED <<app, pc, attempt, open, state, cancelled, pool>>

\* app.state keeps its attributes.
Cleanup(name) ==
  /\ Unwinds(name)
  /\ open' = open \ {Resource(name)}
  /\ UNCHANGED <<app, pc, attempt, state, ok, cancelled, pool>>

CloseDbPool    == Cleanup("db")
CloseClient(c) == Cleanup(c)

Stopped ==
  /\ pc = "stopping"
  /\ stack = <<>>
  /\ pc' = "stopped"
  /\ UNCHANGED <<app, attempt, open, state, stack, ok, cancelled, pool>>

----------------------------------------------------------------------------
Start ==
  \/ CreateEngine \/ Connected \/ ConnectFails \/ StartTask \/ Serve \/ CancelStart
  \/ \E c \in Clients : InitClient(c) \/ InitFails(c)

Dispatch ==
  \/ LoadBatch \/ LoopDies \/ Publish \/ TakeSecond \/ LookupTimesOut
  \/ CustomerFound \/ MailEnds \/ CommitBatch

Unwind ==
  \/ CancelTask \/ TaskEnds \/ TaskAwaited \/ CloseDbPool \/ Stopped
  \/ \E c \in Clients : CloseClient(c)

Next ==
  \/ Start \/ Dispatch \/ Stop \/ Unwind
  \/ \E r \in Requests : BeginRequest(r) \/ EndRequest(r)

Spec == Init /\ [][Next]_vars

\* The event loop runs what is ready: a connection attempt, a request and a call of
\* the e-mail provider end by their time-outs, and the pool serves who waits in
\* turn, so that a connection which becomes free again and again is given to the
\* handler.  The pool's own time-out is not relied upon.
FairSpec ==
  /\ Spec
  /\ WF_vars(Start) /\ WF_vars(Unwind)
  /\ \A r \in Requests : WF_vars(EndRequest(r))
  /\ SF_vars(TakeSecond)
  /\ WF_vars(CustomerFound) /\ WF_vars(MailEnds)

----------------------------------------------------------------------------
(* Properties. *)

\* A process that has stopped has closed everything, whichever step failed and
\* even if its dispatcher had died.  Two engines escape: one that was being
\* connected when the start was cancelled, and the test app's when create_all
\* fails (db/__init__.py:26), which is not yet registered; both starts are seen to fail.
StopsClean ==
  pc = "stopped" /\ open # {} =>
    /\ ~ok
    /\ open = {Engine(attempt)} /\ "db" \notin state
    /\ app = "test" \/ cancelled

\* Retries do not pile up engines, and none outlives a start that failed by itself.
OneEngine ==
  /\ Cardinality(open \cap Engines) <= 1
  /\ pc = "starting" /\ "db" \notin state => open = {}

\* Nobody uses what is closed: as long as a connection is held the pool is open,
\* and the e-mail client is open as long as a handler calls it, shutdown included.
NoUseAfterClose ==
  /\ held # {} => Engine(attempt) \in open /\ "db" \in state
  /\ task \in Alive => {Engine(attempt), Client("email")} \subseteq open

\* The dispatcher never waits for itself alone: its handler gets its connection or
\* fails for another reason, without the pool's time-out being relied upon, unless it
\* is cancelled.  With a pool of one connection it would wait, until the time-out, for
\* the connection its own batch holds.
HandlerGetsOn == task = "lookup" ~> task # "lookup"

\* A start ends, in service or stopped; and a stop ends, although it waits for a
\* dispatcher that may be in the middle of a batch.
StartsAndStops ==
  /\ pc \in {"starting", "connecting"} ~> pc \in {"serving", "stopped"}
  /\ pc = "stopping" ~> pc = "stopped"
=============================================================================
