--------------------------- MODULE LifespanProofs --------------------------
(***************************************************************************)
(* Theorems about Lifespan, for both applications, any number of retries,  *)
(* any pool of two connections or more and any requests.                   *)
(***************************************************************************)
EXTENDS Lifespan, FiniteSetTheorems, SequenceTheorems, TLAPS

\* The callback of a step is on the stack.
On(name) == \E n \in 1..Len(stack) : stack[n] = name

\* The stack holds the callbacks of the first steps, in their order.
StackInv == \A n \in 1..Len(stack) : stack[n] = Steps[n]

\* Where the lifespan stands says how far the stack has grown.
PlaceInv ==
  /\ pc = "connecting" => stack = <<>> /\ Engine(attempt) \in open
  /\ pc = "starting" /\ stack = <<>> => attempt <= MaxRetries /\ (app = "test" => attempt = 0)
  /\ pc \in {"starting", "connecting"} /\ stack = <<>> => "db" \notin state
  /\ pc = "serving" => Len(stack) >= 3
  /\ pc = "stopped" => stack = <<>>

\* An engine nobody will dispose of.
Escaped == /\ pc \in {"stopping", "stopped"} /\ stack = <<>>
           /\ ~ok /\ "db" \notin state
           /\ app = "test" \/ cancelled

\* What is open is what the stack will close, but for the engine that is being
\* connected and the one that escaped.
OpenInv ==
  /\ \A c \in Clients : Client(c) \in open <=> On(c)
  /\ \A n \in 1..(MaxRetries + 1) : Engine(n) \in open => n = attempt
  /\ stack # <<>> => Engine(attempt) \in open /\ "db" \in state
  /\ stack = <<>> /\ Engine(attempt) \in open => pc = "connecting" \/ Escaped

\* Who holds a connection, and when.
PoolInv ==
  /\ IsFiniteSet(held)
  /\ task \in Alive => Len(stack) = 4
  /\ "batch" \in held => task \in {"batch", "lookup", "query", "mail"}
  /\ "lookup" \in held => task = "query"
  /\ held \cap Requests # {} => pc = "serving"

IInv == TypeOK /\ StackInv /\ PlaceInv /\ OpenInv /\ PoolInv

----------------------------------------------------------------------------
(* The steps of the two applications, and the stack that follows them. *)

LEMMA StepsForm ==
  /\ app = "test" => /\ Len(Steps) = 4
                     /\ Steps[1] = "db" /\ Steps[2] = "payment"
                     /\ Steps[3] = "email" /\ Steps[4] = "task"
  /\ app = "skill" => /\ Len(Steps) = 3
                      /\ Steps[1] = "db" /\ Steps[2] = "stripe" /\ Steps[3] = "llm"
<1>1. CASE app = "test"
  <2>1. Steps = <<"db", "payment", "email", "task">>
    BY <1>1 DEF Steps
  <2> QED
    BY <1>1, <2>1
<1>2. CASE app # "test"
  <2>1. Steps = <<"db", "stripe", "llm">>
    BY <1>2 DEF Steps
  <2> QED
    BY <1>2, <2>1
<1> QED
  BY <1>1, <1>2

\* The database comes first, and what a lifespan initialises it initialises once.
LEMMA StepsDiffer ==
  ASSUME app \in {"test", "skill"}
  PROVE  /\ Len(Steps) \in {3, 4} /\ Steps[1] = "db"
         /\ \A m, n \in 1..Len(Steps) : Steps[m] = Steps[n] => m = n
         /\ \A n \in 1..Len(Steps) : /\ Steps[n] \in Callback
                                     /\ Steps[n] = "task" => n = 4
<1>1. ASSUME NEW n \in 1..3 PROVE n = 1 \/ n = 2 \/ n = 3
  OBVIOUS
<1>2. ASSUME NEW n \in 1..4 PROVE n = 1 \/ n = 2 \/ n = 3 \/ n = 4
  OBVIOUS
<1> QED
  BY <1>1, <1>2, StepsForm DEF Callback, Clients

LEMMA Push ==
  ASSUME TypeOK, StackInv, app' = app, NEW name, Initialises(name), stack' = Append(stack, name)
  PROVE  /\ StackInv' /\ stack' \in Seq(Callback)
         /\ Len(stack') = Len(stack) + 1 /\ Len(stack') <= Len(Steps)
         /\ \A x : On(x)' <=> On(x) \/ x = name
<1>1. Steps' = Steps /\ Len(Steps) \in Nat
  BY StepsDiffer DEF Steps, TypeOK
<1>2. stack \in Seq(Callback) /\ Len(stack) \in Nat /\ Len(stack) + 1 \in 1..Len(Steps)
  BY <1>1 DEF TypeOK, Initialises
<1>3. name = Steps[Len(stack) + 1] /\ name \in Callback
  BY <1>2, StepsDiffer DEF Initialises, TypeOK
<1>4. /\ stack' \in Seq(Callback) /\ Len(stack') = Len(stack) + 1
      /\ stack'[Len(stack) + 1] = name
      /\ \A n \in 1..Len(stack) : stack'[n] = stack[n]
  BY <1>2, <1>3
<1>5. \A n \in 1..Len(stack') : n \in 1..Len(stack) \/ n = Len(stack) + 1
  BY <1>2, <1>4
<1>6. StackInv'
  BY <1>1, <1>3, <1>4, <1>5 DEF StackInv
<1>7. ASSUME NEW x PROVE On(x)' <=> On(x) \/ x = name
  <2>1. 1..Len(stack) \subseteq 1..Len(stack') /\ Len(stack) + 1 \in 1..Len(stack')
    BY <1>2, <1>4
  <2> QED
    BY <1>4, <1>5, <2>1 DEF On
<1> QED
  BY <1>2, <1>4, <1>6, <1>7

LEMMA Pop ==
  ASSUME TypeOK, StackInv, app' = app, stack # <<>>, stack' = Front(stack)
  PROVE  /\ StackInv' /\ stack' \in Seq(Callback)
         /\ Len(stack') = Len(stack) - 1 /\ Len(stack) \in 1..Len(Steps)
         /\ Last(stack) = Steps[Len(stack)]
         /\ \A x : On(x)' <=> On(x) /\ x # Last(stack)
<1>1. Steps' = Steps /\ Len(Steps) \in Nat
  BY StepsDiffer DEF Steps, TypeOK
<1>2. stack \in Seq(Callback) /\ Len(stack) \in Nat \ {0} /\ Len(stack) \in 1..Len(Steps)
  BY <1>1 DEF TypeOK
<1>3. /\ stack' \in Seq(Callback) /\ Len(stack') = Len(stack) - 1
      /\ \A n \in 1..(Len(stack) - 1) : stack'[n] = stack[n]
  <2> DEFINE k == Len(stack) - 1
  <2>1. stack' = SubSeq(stack, 1, k)
    BY DEF Front
  <2>2. k \in Nat /\ 1 \in Int /\ \A n \in 1..k : stack[n] \in Callback
    BY <1>2
  <2> HIDE DEF k
  <2>3. /\ SubSeq(stack, 1, k) \in Seq(Callback)
        /\ Len(SubSeq(stack, 1, k)) = IF 1 <= k THEN k - 1 + 1 ELSE 0
        /\ \A n \in 1..(k - 1 + 1) : SubSeq(stack, 1, k)[n] = stack[1 + n - 1]
    BY <2>2, SubSeqProperties
  <2>4. stack' \in Seq(Callback) /\ Len(stack') = k /\ \A n \in 1..k : stack'[n] = stack[n]
    BY <2>1, <2>2, <2>3
  <2> QED
    BY <2>4 DEF k
<1>4. Last(stack) = stack[Len(stack)] /\ Last(stack) = Steps[Len(stack)]
  BY <1>2 DEF Last, StackInv
<1>5. \A n \in 1..Len(stack) : n \in 1..Len(stack') \/ n = Len(stack)
  BY <1>2, <1>3
<1>6. 1..Len(stack') \subseteq 1..Len(stack) /\ Len(stack) \notin 1..Len(stack')
  BY <1>2, <1>3
<1>7. StackInv'
  BY <1>1, <1>3, <1>6 DEF StackInv
<1>8. ASSUME NEW n \in 1..Len(stack') PROVE stack[n] # Last(stack)
  <2>1. n \in 1..Len(Steps) /\ n # Len(stack) /\ stack[n] = Steps[n]
    BY <1>2, <1>3, <1>6 DEF StackInv
  <2> QED
    BY <1>2, <1>4, <2>1, StepsDiffer DEF TypeOK
<1>9. ASSUME NEW x PROVE On(x)' <=> On(x) /\ x # Last(stack)
  BY <1>3, <1>4, <1>5, <1>6, <1>8 DEF On
<1> QED
  BY <1>2, <1>3, <1>4, <1>7, <1>9

\* The names of the resources are told apart.
LEMMA Names ==
  /\ \A c \in Clients : c # "db" /\ c # "task" /\ Client(c) \notin Engines /\ Resource(c) = Client(c)
  /\ \A c, d \in Clients : Client(c) = Client(d) => c = d
  /\ \A m, n : Engine(m) = Engine(n) => m = n
  /\ \A n, c : c \in Clients => Engine(n) # Client(c)
  /\ Resource("db") = Engine(attempt)
<1>1. \A a, b, c, d : <<a, b>> = <<c, d>> => a = c /\ b = d
  OBVIOUS
<1> QED
  BY <1>1 DEF Clients, Client, Engines, Engine, Resource

LEMMA InitIInv == Init => IInv
<1> SUFFICES ASSUME Init PROVE IInv
  OBVIOUS
<1>1. stack = <<>> /\ stack \in Seq(Callback) /\ Len(stack) = 0
  BY DEF Init
<1>2. Cardinality(held) = 0 /\ IsFiniteSet(held)
  BY FS_EmptySet DEF Init
<1>3. Len(Steps) \in {3, 4}
  BY StepsDiffer DEF Init
<1>4. TypeOK
  <2>1. 0 \in 0..(MaxRetries + 1) /\ 0 <= Capacity /\ Len(stack) <= Len(Steps)
    BY <1>1, <1>3, LifespanAssumption
  <2> QED
    BY <1>1, <1>2, <2>1 DEF Init, TypeOK, Over
<1>5. \A x : ~On(x)
  BY <1>1 DEF On
<1>6. StackInv /\ PlaceInv /\ PoolInv
  BY <1>1, <1>2, LifespanAssumption DEF Init, StackInv, PlaceInv, PoolInv, Alive
<1>7. OpenInv
  BY <1>5 DEF Init, OpenInv
<1> QED
  BY <1>4, <1>6, <1>7 DEF IInv

----------------------------------------------------------------------------
(* The steps of the pool, which leave the lifespan alone. *)

LEMMA LifespanKept ==
  ASSUME IInv, UNCHANGED <<app, lifespan>>
  PROVE  StackInv' /\ PlaceInv' /\ OpenInv'
<1>1. UNCHANGED <<app, pc, attempt, open, state, stack, ok, cancelled>>
  BY DEF lifespan
<1> QED
  BY <1>1 DEF IInv, StackInv, PlaceInv, OpenInv, On, Escaped, Steps

\* A connection is taken only from a pool that is not full.
LEMMA Takes ==
  ASSUME TypeOK, IsFiniteSet(held), ~Full, NEW x
  PROVE  IsFiniteSet(held \cup {x}) /\ Cardinality(held \cup {x}) <= Capacity
<1>1. Cardinality(held) \in Nat /\ Capacity \in Nat
  BY FS_CardinalityType, LifespanAssumption
<1>2. Cardinality(held) + 1 <= Capacity
  BY <1>1 DEF Full
<1>3. /\ IsFiniteSet(held \cup {x})
      /\ \/ Cardinality(held \cup {x}) = Cardinality(held)
         \/ Cardinality(held \cup {x}) = Cardinality(held) + 1
  BY FS_AddElement
<1> QED
  BY <1>1, <1>2, <1>3

LEMMA GivesBack ==
  ASSUME TypeOK, IsFiniteSet(held), NEW X \in SUBSET held
  PROVE  IsFiniteSet(X) /\ Cardinality(X) <= Capacity
<1>1. IsFiniteSet(X) /\ Cardinality(X) <= Cardinality(held)
  BY FS_Subset
<1>2. /\ Cardinality(X) \in Nat /\ Cardinality(held) \in Nat /\ Capacity \in Nat
      /\ Cardinality(held) <= Capacity
  BY <1>1, FS_CardinalityType, LifespanAssumption DEF TypeOK
<1> QED
  BY <1>1, <1>2

\* What is left to show of such a step.
LEMMA PoolStep ==
  ASSUME IInv, UNCHANGED <<app, lifespan>>,
         task' \in Over \cup Alive, stopTask' \in BOOLEAN,
         held' \subseteq Requests \cup {"batch", "lookup"},
         IsFiniteSet(held'), Cardinality(held') <= Capacity,
         task' \in Alive => task \in Alive,
         "batch" \in held' => task' \in {"batch", "lookup", "query", "mail"},
         "lookup" \in held' => task' = "query",
         held' \cap Requests # {} => pc = "serving"
  PROVE  IInv'
<1>1. StackInv' /\ PlaceInv' /\ OpenInv'
  BY LifespanKept
<1>2. UNCHANGED <<app, pc, attempt, open, state, stack, ok, cancelled>> /\ Steps' = Steps
  BY DEF lifespan, Steps
<1>3. TypeOK'
  BY <1>2 DEF IInv, TypeOK
<1>4. PoolInv'
  BY <1>2 DEF IInv, PoolInv
<1> QED
  BY <1>1, <1>3, <1>4 DEF IInv

LEMMA DispatchNext == IInv /\ Dispatch => IInv'
<1> SUFFICES ASSUME IInv, Dispatch PROVE IInv'
  OBVIOUS
<1>0. /\ TypeOK /\ PoolInv /\ IsFiniteSet(held) /\ Cardinality(held) <= Capacity
      /\ Requests \cap {"batch", "lookup"} = {}
  BY LifespanAssumption DEF IInv, TypeOK, PoolInv
<1> USE DEF Step, Alive, Over
<1>1. CASE LoadBatch
  <2>1. IsFiniteSet(held') /\ Cardinality(held') <= Capacity
    BY <1>0, <1>1, Takes DEF LoadBatch
  <2> QED
    BY <1>0, <1>1, <2>1, PoolStep DEF LoadBatch, TypeOK, PoolInv
<1>2. CASE LoopDies
  <2>1. IsFiniteSet(held') /\ Cardinality(held') <= Capacity
    BY <1>0, <1>2, GivesBack DEF LoopDies
  <2> QED
    BY <1>0, <1>2, <2>1, PoolStep DEF LoopDies, TypeOK, PoolInv
<1>3. CASE Publish \/ LookupTimesOut \/ MailEnds
  BY <1>0, <1>3, PoolStep DEF Publish, LookupTimesOut, MailEnds, TypeOK, PoolInv
<1>4. CASE TakeSecond
  <2>1. IsFiniteSet(held') /\ Cardinality(held') <= Capacity
    BY <1>0, <1>4, Takes DEF TakeSecond
  <2> QED
    BY <1>0, <1>4, <2>1, PoolStep DEF TakeSecond, TypeOK, PoolInv
<1>5. CASE CustomerFound \/ CommitBatch
  <2>1. IsFiniteSet(held') /\ Cardinality(held') <= Capacity
    BY <1>0, <1>5, GivesBack DEF CustomerFound, CommitBatch
  <2> QED
    BY <1>0, <1>5, <2>1, PoolStep DEF CustomerFound, CommitBatch, TypeOK, PoolInv
<1> QED
  BY <1>1, <1>2, <1>3, <1>4, <1>5 DEF Dispatch

LEMMA RequestNext ==
  ASSUME IInv, NEW r \in Requests, BeginRequest(r) \/ EndRequest(r)
  PROVE  IInv'
<1>0. /\ TypeOK /\ PoolInv /\ IsFiniteSet(held) /\ Cardinality(held) <= Capacity
      /\ r \notin {"batch", "lookup"}
  BY LifespanAssumption DEF IInv, TypeOK, PoolInv
<1>1. CASE BeginRequest(r)
  <2>1. IsFiniteSet(held') /\ Cardinality(held') <= Capacity
    BY <1>0, <1>1, Takes DEF BeginRequest
  <2> QED
    BY <1>0, <1>1, <2>1, PoolStep DEF BeginRequest, TypeOK, PoolInv
<1>2. CASE EndRequest(r)
  <2>1. IsFiniteSet(held') /\ Cardinality(held') <= Capacity
    BY <1>0, <1>2, GivesBack DEF EndRequest
  <2> QED
    BY <1>0, <1>2, <2>1, PoolStep DEF EndRequest, TypeOK, PoolInv
<1> QED
  BY <1>1, <1>2

LEMMA TaskNext == IInv /\ (CancelTask \/ TaskEnds) => IInv'
<1> SUFFICES ASSUME IInv, CancelTask \/ TaskEnds PROVE IInv'
  OBVIOUS
<1>0. TypeOK /\ PoolInv /\ IsFiniteSet(held) /\ Cardinality(held) <= Capacity
  BY DEF IInv, TypeOK, PoolInv
<1>1. CASE CancelTask
  BY <1>0, <1>1, PoolStep DEF CancelTask, TypeOK, PoolInv
<1>2. CASE TaskEnds
  <2>1. IsFiniteSet(held') /\ Cardinality(held') <= Capacity
    BY <1>0, <1>2, GivesBack DEF TaskEnds
  <2> QED
    BY <1>0, <1>2, <2>1, PoolStep DEF TaskEnds, TypeOK, PoolInv, Over, Alive
<1> QED
  BY <1>1, <1>2

----------------------------------------------------------------------------
(* The steps of the lifespan. *)

\* What the next initialisation says of the stack.
LEMMA Grown ==
  ASSUME IInv
  PROVE  /\ app \in {"test", "skill"} /\ Len(stack) \in Nat /\ Len(stack) <= 4
         /\ stack = <<>> <=> Len(stack) = 0
         /\ stack = <<>> => \A x : ~On(x)
         /\ stack # <<>> => On("db")
         /\ Initialises("db") => stack = <<>>
         /\ \A c \in Clients : Initialises(c) => stack # <<>> /\ ~On(c)
         /\ Initialises("task") => Len(stack) = 3
<1>1. /\ app \in {"test", "skill"} /\ stack \in Seq(Callback) /\ Len(stack) \in Nat
      /\ Len(stack) <= Len(Steps) /\ Len(Steps) \in {3, 4}
  BY StepsDiffer DEF IInv, TypeOK
<1>2. stack = <<>> <=> Len(stack) = 0
  BY <1>1
<1>3. \A n \in 1..Len(stack) : stack[n] = Steps[n] /\ n \in 1..Len(Steps)
  BY <1>1 DEF IInv, StackInv
<1>4. stack # <<>> => On("db")
  <2> SUFFICES ASSUME stack # <<>> PROVE On("db")
    OBVIOUS
  <2>1. 1 \in 1..Len(stack)
    BY <1>1, <1>2
  <2> QED
    BY <1>1, <1>3, <2>1, StepsDiffer DEF On
<1>5. ASSUME NEW name, Initialises(name)
      PROVE  Len(stack) + 1 \in 1..Len(Steps) /\ Steps[Len(stack) + 1] = name
  BY <1>1, <1>5 DEF Initialises
<1>6. ASSUME Initialises("db") PROVE stack = <<>>
  <2>1. Steps[1] = "db" /\ 1 \in 1..Len(Steps)
    BY <1>1, StepsDiffer
  <2>2. Len(stack) + 1 = 1
    BY <1>1, <1>5, <1>6, <2>1, StepsDiffer
  <2> QED
    BY <1>1, <1>2, <2>2
<1>7. ASSUME NEW c \in Clients, Initialises(c) PROVE stack # <<>> /\ ~On(c)
  <2>1. stack # <<>>
    BY <1>1, <1>2, <1>5, <1>7, StepsDiffer, Names
  <2>2. ASSUME NEW n \in 1..Len(stack), stack[n] = c PROVE FALSE
    <3>1. Steps[n] = Steps[Len(stack) + 1] /\ n \in 1..Len(Steps)
      BY <1>3, <1>5, <1>7, <2>2
    <3>2. n = Len(stack) + 1
      BY <1>1, <1>5, <1>7, <3>1, StepsDiffer
    <3> QED
      BY <1>1, <3>2
  <2> QED
    BY <2>1, <2>2 DEF On
<1>8. ASSUME Initialises("task") PROVE Len(stack) = 3
  <2>1. Len(stack) + 1 = 4
    BY <1>1, <1>5, <1>8, StepsDiffer
  <2>2. \A m \in Nat : m + 1 = 4 => m = 3
    OBVIOUS
  <2> QED
    BY <1>1, <2>1, <2>2
<1>9. stack = <<>> => \A x : ~On(x)
  BY <1>2 DEF On
<1>10. Len(stack) <= 4
  <2>1. \A m \in Nat, n \in {3, 4} : m <= n => m <= 4
    OBVIOUS
  <2> QED
    BY <1>1, <2>1
<1> QED
  BY <1>1, <1>2, <1>4, <1>6, <1>7, <1>8, <1>9, <1>10

LEMMA CreateEngineNext == IInv /\ CreateEngine => IInv'
<1> SUFFICES ASSUME IInv, CreateEngine PROVE IInv'
  OBVIOUS
<1>0. /\ TypeOK /\ StackInv /\ PlaceInv /\ OpenInv /\ PoolInv
      /\ stack = <<>> /\ \A x : ~On(x)
  BY Grown DEF IInv, CreateEngine
<1>1. /\ pc = "starting" /\ pc' = "connecting" /\ attempt' = attempt + 1
      /\ open' = open \cup {Engine(attempt + 1)}
      /\ UNCHANGED <<app, state, stack, ok, cancelled, task, stopTask, held>>
  BY DEF CreateEngine, Initialises, pool
<1>2. attempt \in Nat /\ MaxRetries \in Nat /\ attempt <= MaxRetries /\ "db" \notin state
  BY <1>0, <1>1, LifespanAssumption DEF TypeOK, PlaceInv
<1>3. \A n \in 1..(MaxRetries + 1) : Engine(n) \notin open
  BY <1>0, <1>1 DEF OpenInv, Escaped
<1>4. attempt + 1 \in 1..(MaxRetries + 1) /\ attempt + 1 \in 0..(MaxRetries + 1)
  BY <1>2
<1>5. Steps' = Steps /\ \A x : On(x)' <=> On(x)
  BY <1>1 DEF Steps, On
<1>6. TypeOK'
  <2>1. Engine(attempt + 1) \in Engines
    BY <1>4 DEF Engines
  <2>2. open' \subseteq Engines \cup {Client(c) : c \in Clients}
    BY <1>0, <1>1, <2>1 DEF TypeOK
  <2> QED
    BY <1>0, <1>1, <1>4, <1>5, <2>2 DEF TypeOK
<1>7. StackInv' /\ PoolInv'
  BY <1>0, <1>1, <1>5 DEF StackInv, PoolInv
<1>8. PlaceInv'
  BY <1>0, <1>1, <1>2 DEF PlaceInv
<1>9. OpenInv'
  <2>1. \A c \in Clients : Client(c) \in open' <=> Client(c) \in open
    BY <1>1, Names
  <2>2. \A n \in 1..(MaxRetries + 1) : Engine(n) \in open' => n = attempt'
    BY <1>1, <1>3, Names
  <2> QED
    BY <1>0, <1>1, <1>5, <2>1, <2>2 DEF OpenInv
<1> QED
  BY <1>6, <1>7, <1>8, <1>9 DEF IInv

LEMMA ConnectedNext == IInv /\ Connected => IInv'
<1> SUFFICES ASSUME IInv, Connected PROVE IInv'
  OBVIOUS
<1>0. /\ TypeOK /\ StackInv /\ PlaceInv /\ OpenInv /\ PoolInv
      /\ stack = <<>> /\ Len(stack) = 0 /\ \A x : ~On(x) /\ Engine(attempt) \in open
  BY Grown DEF IInv, Connected, PlaceInv
<1>1. /\ pc = "connecting" /\ pc' = "starting" /\ state' = state \cup {"db"}
      /\ stack' = Append(stack, "db")
      /\ UNCHANGED <<app, attempt, open, ok, cancelled, task, stopTask, held>>
  BY DEF Connected, Registers, pool
<1>2. /\ StackInv' /\ stack' = <<"db">> /\ Len(stack') = 1 /\ stack' \in Seq(Callback)
      /\ \A x : On(x)' <=> x = "db"
  <2>1. stack' = <<"db">> /\ stack'[1] = "db" /\ Len(stack') = 1
    BY <1>0, <1>1
  <2>2. \A n \in 1..Len(stack') : n = 1
    BY <2>1
  <2>3. Steps'[1] = "db"
    BY <1>0, <1>1, StepsDiffer DEF Steps, TypeOK
  <2>4. \A x : On(x)' <=> x = "db"
    BY <2>1, <2>2 DEF On
  <2>5. stack' \in Seq(Callback)
    BY <2>1 DEF Callback
  <2> QED
    BY <2>1, <2>2, <2>3, <2>4, <2>5 DEF StackInv
<1>3. TypeOK'
  <2>1. Steps' = Steps /\ Len(stack') <= Len(Steps)
    BY <1>0, <1>1, <1>2, StepsDiffer DEF Steps, TypeOK
  <2> QED
    BY <1>0, <1>1, <1>2, <2>1 DEF TypeOK
<1>4. PlaceInv' /\ PoolInv'
  <2>1. stack' # <<>> /\ ~(task \in Alive)
    BY <1>0, <1>2 DEF PoolInv
  <2> QED
    BY <1>0, <1>1, <2>1 DEF PlaceInv, PoolInv
<1>5. OpenInv'
  <2>1. \A c \in Clients : Client(c) \notin open /\ c # "db"
    BY <1>0, Names DEF OpenInv
  <2>2. stack' # <<>>
    BY <1>2
  <2> QED
    BY <1>0, <1>1, <1>2, <2>1, <2>2 DEF OpenInv
<1> QED
  BY <1>2, <1>3, <1>4, <1>5 DEF IInv

LEMMA InitClientNext ==
  ASSUME IInv, NEW c \in Clients, InitClient(c)
  PROVE  IInv'
<1>0. /\ TypeOK /\ StackInv /\ PlaceInv /\ OpenInv /\ PoolInv
      /\ stack # <<>> /\ ~On(c) /\ Len(stack) \in Nat /\ Len(stack) # 0
  BY Grown DEF IInv, InitClient
<1>1. /\ pc = "starting" /\ open' = open \cup {Client(c)} /\ state' = state \cup {c}
      /\ Initialises(c) /\ stack' = Append(stack, c)
      /\ UNCHANGED <<app, pc, attempt, ok, cancelled, task, stopTask, held>>
  BY DEF InitClient, Registers, Initialises, pool
<1>2. /\ StackInv' /\ stack' \in Seq(Callback)
      /\ Len(stack') = Len(stack) + 1 /\ Len(stack') <= Len(Steps)
      /\ \A x : On(x)' <=> On(x) \/ x = c
  BY <1>0, <1>1, Push
<1>3. stack' # <<>> /\ Steps' = Steps
  BY <1>0, <1>1, <1>2 DEF Steps
<1>4. TypeOK'
  BY <1>0, <1>1, <1>2, <1>3 DEF TypeOK
<1>5. ~(task \in Alive)
  <2>1. Len(Steps) \in {3, 4} /\ Len(stack) + 1 <= Len(Steps)
    BY <1>0, <1>2, StepsDiffer DEF TypeOK
  <2>2. \A m \in Nat, n \in {3, 4} : m + 1 <= n => m # 4
    OBVIOUS
  <2> QED
    BY <1>0, <2>1, <2>2 DEF PoolInv
<1>6. PlaceInv' /\ PoolInv'
  BY <1>0, <1>1, <1>3, <1>5 DEF PlaceInv, PoolInv
<1>7. OpenInv'
  <2>1. \A d \in Clients : Client(d) \in open' <=> Client(d) \in open \/ d = c
    BY <1>1, Names
  <2>2. \A n : Engine(n) \in open' <=> Engine(n) \in open
    BY <1>1, Names
  <2> QED
    BY <1>0, <1>1, <1>2, <1>3, <2>1, <2>2 DEF OpenInv
<1> QED
  BY <1>2, <1>4, <1>6, <1>7 DEF IInv

\* A step that only moves the lifespan on, or gives up.
LEMMA MovesOn ==
  ASSUME IInv, UNCHANGED <<app, attempt, open, state, stack, pool>>,
         pc' \in {"starting", "connecting", "serving", "stopping", "stopped"},
         ok' \in BOOLEAN, cancelled' \in BOOLEAN,
         PlaceInv',
         stack = <<>> /\ Engine(attempt) \in open => pc' = "connecting" \/ Escaped',
         held \cap Requests # {} => pc' = "serving"
  PROVE  IInv'
<1>1. /\ TypeOK /\ StackInv /\ OpenInv /\ PoolInv /\ Steps' = Steps
      /\ UNCHANGED <<task, stopTask, held>> /\ \A x : On(x)' <=> On(x)
  BY DEF IInv, Steps, pool, On
<1>2. TypeOK' /\ StackInv' /\ PoolInv'
  BY <1>1 DEF TypeOK, StackInv, PoolInv
<1>3. OpenInv'
  BY <1>1 DEF OpenInv
<1> QED
  BY <1>2, <1>3 DEF IInv

LEMMA ServeNext == IInv /\ Serve => IInv'
<1> SUFFICES ASSUME IInv, Serve PROVE IInv'
  OBVIOUS
<1>0. TypeOK /\ PlaceInv /\ OpenInv /\ PoolInv /\ Len(stack) \in {3, 4} /\ stack # <<>>
  BY Grown, StepsDiffer DEF IInv, Serve
<1>1. Len(stack) >= 3
  <2>1. \A n \in {3, 4} : n >= 3
    OBVIOUS
  <2> QED
    BY <1>0, <2>1
<1>2. UNCHANGED <<app, attempt, open, state, stack, ok, cancelled, held>> /\ pc' = "serving"
  BY DEF Serve, pool
<1> QED
  BY <1>0, <1>1, <1>2, MovesOn DEF Serve, TypeOK, PlaceInv

\* The places before the yield, where the start may give up.
LEMMA GivesUpNext ==
  ASSUME IInv, pc \in {"starting", "connecting"}, GivesUp,
         UNCHANGED <<app, attempt, open, state, stack, pool>>, cancelled' \in BOOLEAN,
         pc = "connecting" => app = "test" \/ cancelled'
  PROVE  IInv'
<1>0. TypeOK /\ PlaceInv /\ OpenInv /\ PoolInv
  BY DEF IInv
<1>1. pc' = "stopping" /\ ok' = FALSE
  BY DEF GivesUp
<1>2. PlaceInv'
  BY <1>1 DEF PlaceInv
<1>3. stack = <<>> /\ Engine(attempt) \in open => Escaped'
  BY <1>0, <1>1 DEF OpenInv, PlaceInv, Escaped
<1>4. held \cap Requests = {}
  BY <1>0 DEF PoolInv
<1> QED
  BY <1>1, <1>2, <1>3, <1>4, MovesOn

LEMMA GiveUpsNext ==
  ASSUME IInv, CancelStart \/ \E c \in Clients : InitFails(c)
  PROVE  IInv'
<1>1. CASE CancelStart
  BY <1>1, GivesUpNext DEF CancelStart, Initialises
<1>2. CASE \E c \in Clients : InitFails(c)
  BY <1>2, GivesUpNext DEF InitFails, Initialises, IInv, TypeOK
<1> QED
  BY <1>1, <1>2

LEMMA ConnectFailsNext == IInv /\ ConnectFails => IInv'
<1> SUFFICES ASSUME IInv, ConnectFails PROVE IInv'
  OBVIOUS
<1>0. /\ TypeOK /\ StackInv /\ PlaceInv /\ OpenInv /\ PoolInv /\ pc = "connecting"
      /\ stack = <<>> /\ "db" \notin state /\ \A x : ~On(x)
  BY Grown DEF IInv, ConnectFails, PlaceInv
<1>1. CASE app = "test"
  BY <1>0, <1>1, GivesUpNext DEF ConnectFails, TypeOK
<1>2. CASE app # "test"
  <2>1. /\ app = "skill" /\ open' = open \ {Engine(attempt)}
        /\ \/ attempt <= MaxRetries /\ pc' = "starting" /\ ok' = ok
           \/ pc' = "stopping" /\ ok' = FALSE
        /\ UNCHANGED <<app, attempt, state, stack, cancelled, task, stopTask, held>>
    BY <1>0, <1>2 DEF ConnectFails, TypeOK, GivesUp, pool
  <2>2. Steps' = Steps /\ \A x : On(x)' <=> On(x)
    BY <2>1 DEF Steps, On
  <2>3. TypeOK' /\ StackInv' /\ PoolInv'
    BY <1>0, <2>1, <2>2 DEF TypeOK, StackInv, PoolInv
  <2>4. PlaceInv'
    BY <1>0, <2>1 DEF PlaceInv
  <2>5. OpenInv'
    <3>1. \A c \in Clients : Client(c) \in open' <=> Client(c) \in open
      BY <2>1, Names
    <3> QED
      BY <1>0, <2>1, <2>2, <3>1 DEF OpenInv
  <2> QED
    BY <2>3, <2>4, <2>5 DEF IInv
<1> QED
  BY <1>1, <1>2

LEMMA StartTaskNext == IInv /\ StartTask => IInv'
<1> SUFFICES ASSUME IInv, StartTask PROVE IInv'
  OBVIOUS
<1>0. /\ TypeOK /\ StackInv /\ PlaceInv /\ OpenInv /\ PoolInv /\ Len(stack) = 3
      /\ stack # <<>> /\ pc = "starting" /\ Initialises("task")
  BY Grown DEF IInv, StartTask, Initialises
<1>1. UNCHANGED <<app, attempt, open, state, ok, cancelled, stopTask, held>>
  BY DEF StartTask
<1>2. "batch" \notin held /\ "lookup" \notin held /\ held \cap Requests = {}
  BY <1>0 DEF PoolInv, Alive
<1>3. CASE pc' = "serving" /\ UNCHANGED <<task, stack>>
  BY <1>0, <1>1, <1>2, <1>3, MovesOn DEF pool, TypeOK, PlaceInv
<1>4. CASE task' = "sleep" /\ stack' = Append(stack, "task") /\ UNCHANGED pc
  <2>1. /\ StackInv' /\ stack' \in Seq(Callback)
        /\ Len(stack') = Len(stack) + 1 /\ Len(stack') <= Len(Steps)
        /\ \A x : On(x)' <=> On(x) \/ x = "task"
    BY <1>0, <1>1, <1>4, Push
  <2>2. Len(stack') = 4 /\ stack' # <<>> /\ Steps' = Steps
    BY <1>0, <1>1, <2>1 DEF Steps
  <2>3. TypeOK'
    BY <1>0, <1>1, <1>4, <2>1, <2>2 DEF TypeOK, Alive
  <2>4. PlaceInv' /\ PoolInv'
    BY <1>0, <1>1, <1>2, <1>4, <2>2 DEF PlaceInv, PoolInv
  <2>5. OpenInv'
    BY <1>0, <1>1, <1>4, <2>1, <2>2, Names DEF OpenInv
  <2> QED
    BY <2>1, <2>3, <2>4, <2>5 DEF IInv
<1> QED
  BY <1>3, <1>4 DEF StartTask

LEMMA StopNext == IInv /\ Stop => IInv'
<1> SUFFICES ASSUME IInv, Stop PROVE IInv'
  OBVIOUS
<1>0. TypeOK /\ PlaceInv /\ OpenInv /\ PoolInv /\ pc = "serving" /\ Len(stack) >= 3 /\ stack # <<>>
  BY Grown DEF IInv, Stop, PlaceInv
<1> QED
  BY <1>0, MovesOn DEF Stop, TypeOK, PlaceInv

LEMMA StoppedNext == IInv /\ Stopped => IInv'
<1> SUFFICES ASSUME IInv, Stopped PROVE IInv'
  OBVIOUS
<1>0. TypeOK /\ PlaceInv /\ OpenInv /\ PoolInv
  BY DEF IInv
<1>1. PlaceInv'
  BY DEF Stopped, PlaceInv
<1>2. Engine(attempt) \in open => Escaped'
  BY <1>0 DEF Stopped, OpenInv, Escaped
<1> QED
  BY <1>0, <1>1, <1>2, MovesOn DEF Stopped, TypeOK, PoolInv

\* The callback that runs next, and whether another is under it.
LEMMA Unwound ==
  ASSUME IInv, NEW name, Unwinds(name), app' = app
  PROVE  /\ pc = "stopping" /\ held \cap Requests = {}
         /\ stack # <<>> /\ name = Last(stack) /\ On(name)
         /\ name = "db" <=> stack' = <<>>
         /\ name # "task" => ~(task \in Alive)
         /\ name = "task" => Len(stack') = 3
         /\ StackInv' /\ stack' \in Seq(Callback)
         /\ Len(stack') \in Nat /\ Len(stack') <= Len(Steps')
         /\ Len(stack') # 4
         /\ \A x : On(x)' <=> On(x) /\ x # name
<1>0. /\ TypeOK /\ StackInv /\ PoolInv /\ pc = "stopping" /\ stack # <<>>
      /\ name = Last(stack) /\ stack' = Front(stack)
      /\ Steps' = Steps /\ Len(Steps) \in {3, 4} /\ On("db")
  BY StepsDiffer, Grown DEF IInv, Unwinds, TypeOK, Steps
<1>1. /\ StackInv' /\ stack' \in Seq(Callback)
      /\ Len(stack') = Len(stack) - 1 /\ Len(stack) \in 1..Len(Steps)
      /\ name = Steps[Len(stack)]
      /\ \A x : On(x)' <=> On(x) /\ x # name
  BY <1>0, Pop
<1>2. ASSUME NEW m \in {3, 4}, NEW n \in 1..m, NEW k, k = n - 1
      PROVE  k \in Nat /\ k <= m /\ k # 4 /\ (k = 0 <=> n = 1) /\ (n = 4 => k = 3)
  BY <1>2
<1>3. /\ Len(stack') \in Nat /\ Len(stack') <= Len(Steps) /\ Len(stack') # 4
      /\ Len(stack') = 0 <=> Len(stack) = 1
      /\ Len(stack) = 4 => Len(stack') = 3
  BY <1>0, <1>1, <1>2
<1>4. /\ name = "db" <=> Len(stack) = 1
      /\ name = "task" => Len(stack) = 4
      /\ Len(stack) = 4 => name = "task"
  <2>1. Steps[1] = "db" /\ 1 \in 1..Len(Steps)
    BY <1>0, StepsDiffer DEF TypeOK
  <2>2. name = "db" <=> Len(stack) = 1
    BY <1>0, <1>1, <2>1, StepsDiffer DEF TypeOK
  <2>3. Len(stack) = 4 => Len(Steps) = 4
    <3>1. \A m \in {3, 4} : \A n \in 1..m : n = 4 => m = 4
      OBVIOUS
    <3> QED
      BY <1>0, <1>1, <3>1
  <2>4. Len(Steps) = 4 => Steps[4] = "task"
    BY <1>0, StepsForm DEF TypeOK
  <2> QED
    BY <1>0, <1>1, <2>2, <2>3, <2>4, StepsDiffer DEF TypeOK
<1>5. stack' = <<>> <=> Len(stack') = 0
  BY <1>1
<1>6. On(name)
  <2>1. Len(stack) \in 1..Len(stack) /\ stack[Len(stack)] = name
    BY <1>0, <1>1 DEF Last
  <2> QED
    BY <2>1 DEF On
<1> QED
  BY <1>0, <1>1, <1>3, <1>4, <1>5, <1>6 DEF PoolInv

LEMMA TaskAwaitedNext == IInv /\ TaskAwaited => IInv'
<1> SUFFICES ASSUME IInv, TaskAwaited PROVE IInv'
  OBVIOUS
<1>0. TypeOK /\ PlaceInv /\ OpenInv /\ PoolInv /\ task \in Over
  BY DEF IInv, TaskAwaited
<1>1. /\ UNCHANGED <<app, pc, attempt, open, state, cancelled, task, stopTask, held>>
      /\ ok' \in BOOLEAN /\ Unwinds("task")
  BY <1>0 DEF TaskAwaited, pool, TypeOK
<1>2. /\ pc = "stopping" /\ stack # <<>> /\ stack' # <<>>
      /\ StackInv' /\ stack' \in Seq(Callback) /\ Len(stack') <= Len(Steps')
      /\ \A x : On(x)' <=> On(x) /\ x # "task"
  BY <1>1, Unwound
<1>3. TypeOK'
  BY <1>0, <1>1, <1>2 DEF TypeOK
<1>4. PlaceInv' /\ PoolInv'
  BY <1>0, <1>1, <1>2 DEF PlaceInv, PoolInv, Over, Alive
<1>5. OpenInv'
  BY <1>0, <1>1, <1>2, Names DEF OpenInv
<1> QED
  BY <1>2, <1>3, <1>4, <1>5 DEF IInv

LEMMA CleanupNext ==
  ASSUME IInv, NEW name \in Clients \cup {"db"}, Cleanup(name)
  PROVE  IInv'
<1>0. TypeOK /\ PlaceInv /\ OpenInv /\ PoolInv
  BY DEF IInv
<1>1. /\ UNCHANGED <<app, pc, attempt, state, ok, cancelled, task, stopTask, held>>
      /\ open' = open \ {Resource(name)} /\ Unwinds(name) /\ name # "task"
  BY Names DEF Cleanup, pool
<1>2. /\ pc = "stopping" /\ stack # <<>>
      /\ name = "db" <=> stack' = <<>>
      /\ ~(task \in Alive)
      /\ StackInv' /\ stack' \in Seq(Callback) /\ Len(stack') <= Len(Steps')
      /\ \A x : On(x)' <=> On(x) /\ x # name
  BY <1>1, Unwound
<1>3. TypeOK'
  BY <1>0, <1>1, <1>2 DEF TypeOK
<1>4. PlaceInv' /\ PoolInv'
  BY <1>0, <1>1, <1>2 DEF PlaceInv, PoolInv
<1>5. OpenInv'
  <2>1. \A c \in Clients : Client(c) \in open' <=> Client(c) \in open /\ c # name
    BY <1>1, Names
  <2>2. \A n : Engine(n) \in open' <=> Engine(n) \in open /\ ~(name = "db" /\ n = attempt)
    BY <1>1, Names
  <2> QED
    BY <1>0, <1>1, <1>2, <2>1, <2>2 DEF OpenInv
<1> QED
  BY <1>2, <1>3, <1>4, <1>5 DEF IInv

LEMMA StepInv == IInv /\ [Next]_vars => IInv'
<1> SUFFICES ASSUME IInv, [Next]_vars PROVE IInv'
  OBVIOUS
<1>1. CASE Start
  BY <1>1, CreateEngineNext, ConnectedNext, ConnectFailsNext, StartTaskNext, ServeNext,
     GiveUpsNext, InitClientNext DEF Start
<1>2. CASE Dispatch
  BY <1>2, DispatchNext
<1>3. CASE Stop
  BY <1>3, StopNext
<1>4. CASE Unwind
  BY <1>4, TaskNext, TaskAwaitedNext, CleanupNext, StoppedNext DEF Unwind, CloseDbPool, CloseClient
<1>5. CASE \E r \in Requests : BeginRequest(r) \/ EndRequest(r)
  BY <1>5, RequestNext
<1>6. CASE UNCHANGED vars
  <2>1. UNCHANGED <<app, lifespan, task, stopTask, held>>
    BY <1>6 DEF vars, pool
  <2>2. TypeOK /\ PoolInv
    BY DEF IInv
  <2>3. UNCHANGED <<app, pc, attempt, open, state, stack, ok, cancelled>>
    BY <2>1 DEF lifespan
  <2> QED
    BY <2>1, <2>2, <2>3, PoolStep DEF TypeOK, PoolInv
<1> QED
  BY <1>1, <1>2, <1>3, <1>4, <1>5, <1>6 DEF Next

----------------------------------------------------------------------------
(* The theorems. *)

\* The invariant is inductive: it holds of every state of the process.
THEOREM Inductive == Spec => []IInv
  BY InitIInv, StepInv, PTL DEF Spec

\* The state is well-typed; the pool never lends more than it has.
THEOREM TypeCorrect == Spec => []TypeOK
<1>1. IInv => TypeOK
  BY DEF IInv
<1> QED
  BY <1>1, Inductive, PTL

\* Retries of the start do not pile up engines, and none outlives a start that
\* failed by itself.
THEOREM OnlyOneEngine == Spec => []OneEngine
<1>1. IInv => OneEngine
  <2> SUFFICES ASSUME IInv PROVE OneEngine
    OBVIOUS
  <2>1. open \cap Engines \subseteq {Engine(attempt)}
    BY DEF IInv, OpenInv, Engines
  <2>2. Cardinality(open \cap Engines) <= 1
    <3>1. IsFiniteSet({Engine(attempt)}) /\ Cardinality({Engine(attempt)}) = 1
      BY FS_Singleton
    <3> QED
      BY <2>1, <3>1, FS_Subset
  <2>3. ASSUME pc = "starting", "db" \notin state PROVE open = {}
    <3>1. stack = <<>> /\ \A x : ~On(x)
      BY <2>3, Grown DEF IInv, OpenInv
    <3>2. Engine(attempt) \notin open
      BY <2>3, <3>1 DEF IInv, OpenInv, Escaped
    <3> QED
      BY <2>1, <3>1, <3>2 DEF IInv, OpenInv, TypeOK
  <2> QED
    BY <2>2, <2>3 DEF OneEngine
<1> QED
  BY <1>1, Inductive, PTL

\* A connection is held only while the pool is open, and the dispatcher's task
\* runs only while the pool and the e-mail client are, shutdown included.
THEOREM NoneUsedAfterClose == Spec => []NoUseAfterClose
<1>1. IInv => NoUseAfterClose
  <2> SUFFICES ASSUME IInv PROVE NoUseAfterClose
    OBVIOUS
  <2>0. TypeOK /\ StackInv /\ PlaceInv /\ OpenInv /\ PoolInv /\ Len(stack) \in Nat
    BY Grown DEF IInv
  <2>1. ASSUME stack # <<>> PROVE Engine(attempt) \in open /\ "db" \in state
    BY <2>0, <2>1 DEF OpenInv
  <2>2. ASSUME task \in Alive PROVE stack # <<>> /\ Client("email") \in open
    <3>1. Len(stack) = 4 /\ stack # <<>>
      BY <2>0, <2>2 DEF PoolInv
    <3>2. app = "test"
      <4>1. \A n \in {3} : ~(4 <= n)
        OBVIOUS
      <4> QED
        BY <2>0, <3>1, <4>1, StepsForm DEF TypeOK
    <3>3. 3 \in 1..Len(stack) /\ stack[3] = "email"
      BY <2>0, <3>1, <3>2, StepsForm DEF StackInv
    <3>4. On("email") /\ "email" \in Clients
      BY <3>3 DEF On, Clients
    <3> QED
      BY <2>0, <3>1, <3>4 DEF OpenInv
  <2>3. ASSUME held # {} PROVE stack # <<>>
    <3>1. CASE held \cap Requests # {}
      BY <2>0, <3>1, Grown DEF PoolInv, PlaceInv
    <3>2. CASE held \cap {"batch", "lookup"} # {}
      BY <2>0, <2>2, <3>2 DEF PoolInv, Alive
    <3> QED
      BY <2>0, <2>3, <3>1, <3>2 DEF TypeOK
  <2> QED
    BY <2>1, <2>2, <2>3 DEF NoUseAfterClose
<1> QED
  BY <1>1, Inductive, PTL

\* A process that has stopped left nothing open but an engine that was never
\* registered: the test app's when create_all fails, or a cancelled start's.
THEOREM StopsAreClean == Spec => []StopsClean
<1>1. IInv => StopsClean
  <2> SUFFICES ASSUME IInv, pc = "stopped", open # {}
               PROVE  ~ok /\ open = {Engine(attempt)} /\ "db" \notin state /\ (app = "test" \/ cancelled)
    BY DEF StopsClean
  <2>1. stack = <<>> /\ \A x : ~On(x)
    BY Grown DEF IInv, PlaceInv
  <2>2. open = {Engine(attempt)}
    BY <2>1 DEF IInv, OpenInv, TypeOK, Engines
  <2> QED
    BY <2>1, <2>2 DEF IInv, OpenInv, Escaped
<1> QED
  BY <1>1, Inductive, PTL
=============================================================================
