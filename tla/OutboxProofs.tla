---------------------------- MODULE OutboxProofs ----------------------------
(***************************************************************************)
(* Theorems about Outbox: any rows, any number of dispatchers over the same *)
(* table, any batch size, with crashes, cancellations and failed statements.*)
(***************************************************************************)
EXTENDS Outbox, TLAPS

\* What a dispatcher holds: it marks only what it loaded, it loaded only
\* committed rows, and it marks processed only what was mailed.
DispatcherInv(d) ==
  \A e \in Entries :
    /\ e \in todo[d] => seen[d][e] # None
    /\ mark[d][e] # "none" => seen[d][e] # None
    /\ seen[d][e] # None => row[e] # None
    /\ mark[d][e] = "processed" => e \in mail
    /\ pc[d] \notin {"handle", "send"} => mark[d][e] = "none"

IInv ==
  /\ TypeOK
  /\ \A d \in Dispatchers : DispatcherInv(d)
  /\ \A e \in mail : row[e] # None
  /\ ProcessedWasMailed

LEMMA InitIInv == Init => IInv
  BY OutboxAssumption DEF Init, IInv, TypeOK, DispatcherInv, ProcessedWasMailed, Processed,
     NoRows, NoMarks, Row

\* What the flush of a committed row gives.
LEMMA FlushedRow ==
  ASSUME NEW r \in Row, NEW s \in Row \cup {None}, NEW how \in {"none", "processed", "failed"},
         how # "none" => s # None
  PROVE  /\ Flushed(r, s, how) \in Row
         /\ Flushed(r, s, how).processed <=> (r.processed \/ how = "processed")
<1> USE NoneAssumption, OutboxAssumption
<1>1. CASE how = "none"
  BY <1>1 DEF Flushed
<1>2. CASE how = "processed"
  BY <1>2 DEF Flushed, Row
<1>3. CASE how = "failed"
  <2>1. s \in Row
    BY <1>3
  <2>2. Up(s.attempts) \in 0..MaxAttempts
    BY <2>1 DEF Up, Row
  <2>3. Flushed(r, s, how) =
          [r EXCEPT !.attempts = Up(s.attempts), !.error = IF s.error THEN r.error ELSE TRUE]
    BY <1>3 DEF Flushed, Row
  <2> QED
    BY <1>3, <2>2, <2>3 DEF Row
<1> QED
  BY <1>1, <1>2, <1>3

LEMMA CommitRow ==
  ASSUME IInv, NEW d \in Dispatchers, Commit(d), NEW e \in Entries
  PROVE  /\ row[e] = None => row'[e] = None
         /\ row[e] # None =>
              /\ row'[e] \in Row /\ row'[e] # None
              /\ row'[e].processed <=> (row[e].processed \/ mark[d][e] = "processed")
<1>1. row'[e] = Flushed(row[e], seen[d][e], mark[d][e])
  BY DEF Commit
<1>2. /\ row[e] \in Row \cup {None} /\ seen[d][e] \in Row \cup {None}
      /\ mark[d][e] \in {"none", "processed", "failed"}
      /\ mark[d][e] # "none" => seen[d][e] # None
      /\ seen[d][e] # None => row[e] # None
  BY DEF IInv, TypeOK, DispatcherInv
<1>3. CASE row[e] = None
  BY <1>1, <1>2, <1>3 DEF Flushed
<1>4. CASE row[e] # None
  BY <1>1, <1>2, <1>4, FlushedRow, NoneAssumption DEF Row
<1> QED
  BY <1>3, <1>4

LEMMA Step == IInv /\ [Next]_vars => IInv'
<1> SUFFICES ASSUME IInv, [Next]_vars PROVE IInv'
  OBVIOUS
<1> USE NoneAssumption, OutboxAssumption
    DEF IInv, TypeOK, DispatcherInv, ProcessedWasMailed, Processed, work
<1>1. ASSUME NEW e \in Entries, AddEvent(e) PROVE IInv'
  <2>1. [processed |-> FALSE, error |-> FALSE, attempts |-> 0] \in Row
    BY DEF Row
  <2> QED
    BY <1>1, <2>1 DEF AddEvent, Row
<1>2. ASSUME NEW e \in Entries, EmailAccepts(e) PROVE IInv'
  BY <1>2 DEF EmailAccepts, Current
<1>3. ASSUME NEW d \in Dispatchers, Start(d) PROVE IInv'
  BY <1>3 DEF Start
<1>4. ASSUME NEW d \in Dispatchers, Load(d) PROVE IInv'
  <2>1. Batch \subseteq {e \in Entries : row[e] # None}
    BY DEF Batch, Unprocessed
  <2>2. TypeOK'
    BY <1>4, <2>1 DEF Load
  <2>3. ASSUME NEW x \in Dispatchers PROVE DispatcherInv(x)'
    <3>1. CASE x # d
      BY <1>4, <3>1 DEF Load
    <3>2. CASE x = d
      <4>1. /\ todo'[d] = Batch /\ mark'[d] = mark[d]
            /\ seen'[d] = [e \in Entries |-> IF e \in Batch THEN row[e] ELSE None]
        BY <1>4 DEF Load
      <4>2. \A e \in Entries : mark[d][e] = "none"
        BY <1>4 DEF Load
      <4> QED
        BY <1>4, <2>1, <3>2, <4>1, <4>2 DEF Load
    <3> QED
      BY <3>1, <3>2
  <2> QED
    BY <1>4, <2>2, <2>3 DEF Load
<1>5. ASSUME NEW d \in Dispatchers, NEW e \in Entries,
             Publish(d, e) \/ Handled(d, e) \/ HandlerFails(d, e)
      PROVE IInv'
  <2>1. /\ e \in todo[d] /\ UNCHANGED <<row, mail, seen, faults>>
        /\ \/ Marked(d, e, "failed")
           \/ Marked(d, e, "processed") /\ e \in mail
           \/ pc' = [pc EXCEPT ![d] = "send"] /\ UNCHANGED <<todo, mark>>
    BY <1>5 DEF Publish, Handled, HandlerFails, Current
  <2>2. TypeOK'
    <3>1. mark' \in [Dispatchers -> [Entries -> {"none", "processed", "failed"}]]
      <4>1. ASSUME NEW how \in {"failed", "processed"}, Marked(d, e, how)
            PROVE  mark' = [mark EXCEPT ![d] = [mark[d] EXCEPT ![e] = how]]
        BY <4>1 DEF Marked
      <4>2. ASSUME NEW how \in {"failed", "processed"}
            PROVE  [mark[d] EXCEPT ![e] = how] \in [Entries -> {"none", "processed", "failed"}]
        OBVIOUS
      <4> QED
        BY <2>1, <4>1, <4>2
    <3>2. todo' \in [Dispatchers -> SUBSET Entries]
      BY <2>1 DEF Marked
    <3>3. pc' \in [Dispatchers -> {"off", "idle", "handle", "send", "dead"}]
      BY <2>1 DEF Marked
    <3> QED
      BY <2>1, <3>1, <3>2, <3>3
  <2>3. ASSUME NEW x \in Dispatchers PROVE DispatcherInv(x)'
    <3>1. \A f \in Entries : f \in todo'[x] => f \in todo[x]
      <4>1. todo' = todo \/ todo' = [todo EXCEPT ![d] = todo[d] \ {e}]
        BY <2>1 DEF Marked
      <4>2. todo'[x] = todo[x] \/ todo'[x] = todo[x] \ {e}
        BY <4>1
      <4> QED
        BY <4>2
    <3>2. \A f \in Entries :
            mark'[x][f] = mark[x][f] \/ (x = d /\ f = e /\ (mark'[x][f] = "processed" => e \in mail))
      <4>1. ASSUME NEW how \in {"failed", "processed"}, Marked(d, e, how), NEW f \in Entries
            PROVE  mark'[x][f] = IF x = d /\ f = e THEN how ELSE mark[x][f]
        BY <4>1 DEF Marked
      <4> QED
        BY <2>1, <4>1
    <3>3. x # d => pc'[x] = pc[x]
      BY <2>1 DEF Marked
    <3>4. pc'[d] \in {"handle", "send"}
      BY <2>1 DEF Marked
    <3> QED
      BY <2>1, <3>1, <3>2, <3>3, <3>4
  <2> QED
    BY <2>1, <2>2, <2>3
<1>6. ASSUME NEW d \in Dispatchers, Commit(d) PROVE IInv'
  <2>1. TypeOK'
    <3>1. row' \in [Entries -> Row \cup {None}]
      <4>1. \A e \in Entries : row'[e] \in Row \cup {None}
        BY <1>6, CommitRow
      <4> QED
        BY <1>6, <4>1 DEF Commit
    <3> QED
      BY <1>6, <3>1 DEF Commit, Forget, NoRows, NoMarks
  <2>2. ASSUME NEW x \in Dispatchers PROVE DispatcherInv(x)'
    <3>1. x # d => pc'[x] = pc[x]
      BY <1>6 DEF Commit
    <3>2. \A e \in Entries :
            IF x = d THEN e \notin todo'[x] /\ mark'[x][e] = "none" /\ seen'[x][e] = None
            ELSE todo'[x] = todo[x] /\ mark'[x] = mark[x] /\ seen'[x] = seen[x]
      BY <1>6 DEF Commit, Forget, NoRows, NoMarks
    <3>3. mail' = mail /\ \A e \in Entries : row[e] # None => row'[e] # None
      BY <1>6, CommitRow DEF Commit
    <3> QED
      BY <3>1, <3>2, <3>3
  <2>3. mail' = mail
    BY <1>6 DEF Commit
  <2>4. \A e \in mail' : row'[e] # None
    BY <1>6, <2>3, CommitRow
  <2>5. ASSUME NEW e \in Entries, row'[e] # None, row'[e].processed PROVE e \in mail'
    BY <1>6, <2>3, <2>5, CommitRow
  <2> QED
    BY <2>1, <2>2, <2>4, <2>5
<1>7. ASSUME NEW d \in Dispatchers, Stop(d) \/ LoopDies(d) PROVE IInv'
  <2>1. Forget(d) /\ UNCHANGED <<row, mail>>
    BY <1>7 DEF Stop, LoopDies
  <2>2. TypeOK'
    <3>1. pc' \in [Dispatchers -> {"off", "idle", "handle", "send", "dead"}]
      BY <1>7 DEF Stop, LoopDies
    <3>2. faults' \in 0..MaxFaults
      BY <1>7 DEF Stop, LoopDies
    <3> QED
      BY <2>1, <3>1, <3>2 DEF Forget, NoRows, NoMarks
  <2>3. ASSUME NEW x \in Dispatchers PROVE DispatcherInv(x)'
    <3>1. x # d => pc'[x] = pc[x]
      BY <1>7 DEF Stop, LoopDies
    <3>2. \A e \in Entries :
            IF x = d THEN e \notin todo'[x] /\ mark'[x][e] = "none" /\ seen'[x][e] = None
            ELSE todo'[x] = todo[x] /\ mark'[x] = mark[x] /\ seen'[x] = seen[x]
      BY <2>1 DEF Forget, NoRows, NoMarks
    <3> QED
      BY <2>1, <3>1, <3>2
  <2> QED
    BY <2>1, <2>2, <2>3
<1>8. CASE UNCHANGED vars
  BY <1>8 DEF vars
<1> QED
  BY <1>1, <1>2, <1>3, <1>4, <1>5, <1>6, <1>7, <1>8 DEF Next, Dispatch

\* What a dispatcher has marked and seen agrees with the table and with what was mailed.
THEOREM Inductive == Spec => []IInv
  BY InitIInv, Step, PTL DEF Spec

\* The state is well-typed.
THEOREM TypeCorrect == Spec => []TypeOK
<1>1. IInv => TypeOK
  BY DEF IInv
<1> QED
  BY <1>1, Inductive, PTL

\* No event is set aside before its email was accepted.
THEOREM ProcessedWereMailed == Spec => []ProcessedWasMailed
<1>1. IInv => ProcessedWasMailed
  BY DEF IInv
<1> QED
  BY <1>1, Inductive, PTL

----------------------------------------------------------------------------
(* Outbox implements Delivery. *)

LEMMA StageIs ==
  ASSUME NEW e \in Entries
  PROVE  Stage[e] = IF row[e] = None THEN "absent"
                    ELSE IF row[e].processed THEN "done"
                    ELSE IF e \in mail THEN "mailed" ELSE "recorded"
  BY DEF Stage

LEMMA InitStage == Init => Deliver!DInit
  BY DEF Init, NoRows, Deliver!DInit, Stage

LEMMA StepStage == IInv /\ [Next]_vars => [Deliver!DNext]_Stage
<1> SUFFICES ASSUME IInv, [Next]_vars PROVE Deliver!DNext \/ Stage' = Stage
  OBVIOUS
<1> USE NoneAssumption, OutboxAssumption
<1>0. /\ TypeOK /\ ProcessedWasMailed
      /\ \A d \in Dispatchers : DispatcherInv(d)
      /\ \A e \in mail : row[e] # None
  BY DEF IInv
<1>1. ASSUME NEW e \in Entries, AddEvent(e) PROVE Deliver!Record(e)
  <2>1. e \notin mail
    BY <1>0, <1>1 DEF AddEvent
  <2>2. /\ row'[e] = [processed |-> FALSE, error |-> FALSE, attempts |-> 0]
        /\ row'[e] # None /\ ~row'[e].processed
    <3>1. [processed |-> FALSE, error |-> FALSE, attempts |-> 0] \in Row
      BY DEF Row
    <3>2. row'[e] = [processed |-> FALSE, error |-> FALSE, attempts |-> 0]
      BY <1>0, <1>1 DEF AddEvent, TypeOK
    <3> QED
      BY <3>1, <3>2 DEF Row
  <2>3. \A f \in Entries : f # e => row'[f] = row[f]
    BY <1>0, <1>1 DEF AddEvent, TypeOK
  <2>4. mail' = mail
    BY <1>1 DEF AddEvent
  <2>5. Stage[e] = "absent"
    BY <1>1 DEF AddEvent, Stage
  <2> QED
    BY <2>1, <2>2, <2>3, <2>4, <2>5 DEF Deliver!Record, Deliver!Move, Stage
<1>2. ASSUME NEW e \in Entries, EmailAccepts(e) PROVE Deliver!Mail(e)
  <2>1. row[e] # None /\ ~row[e].processed /\ e \notin mail
    <3>1. PICK d \in Dispatchers : e \in todo[d]
      BY <1>2 DEF EmailAccepts, Current
    <3> QED
      BY <1>0, <1>2, <3>1 DEF EmailAccepts, DispatcherInv, ProcessedWasMailed, Processed
  <2>2. row' = row /\ mail' = mail \cup {e}
    BY <1>2 DEF EmailAccepts
  <2> QED
    BY <2>1, <2>2 DEF Deliver!Mail, Deliver!Move, Stage
<1>3. ASSUME NEW d \in Dispatchers, Commit(d) PROVE Deliver!SetAside
  <2> DEFINE E == {e \in Entries : mark[d][e] = "processed" /\ ~row[e].processed}
  <2>1. \A e \in E : row[e] # None /\ e \in mail
    BY <1>0 DEF DispatcherInv
  <2>2. \A e \in E : Stage[e] = "mailed"
    BY <2>1 DEF Stage
  <2>3. mail' = mail
    BY <1>3 DEF Commit
  <2>4. ASSUME NEW e \in Entries
        PROVE  Stage'[e] = IF e \in E THEN "done" ELSE Stage[e]
    <3>1. CASE row[e] = None
      <4>1. row'[e] = None /\ e \notin E
        BY <1>3, <2>1, <3>1, CommitRow
      <4> QED
        BY <3>1, <4>1 DEF Stage
    <3>2. CASE row[e] # None
      <4>1. /\ row'[e] # None
            /\ row'[e].processed <=> (row[e].processed \/ mark[d][e] = "processed")
        BY <1>3, <3>2, CommitRow
      <4> QED
        BY <2>3, <3>2, <4>1 DEF Stage
    <3> QED
      BY <3>1, <3>2
  <2>5. Stage' = [e \in Entries |-> IF e \in E THEN "done" ELSE Stage[e]]
    BY <2>4 DEF Stage
  <2> QED
    BY <2>2, <2>5 DEF Deliver!SetAside
<1>4. ASSUME NEW d \in Dispatchers,
             \/ Start(d) \/ Load(d) \/ Stop(d) \/ LoopDies(d)
             \/ \E e \in Entries : Publish(d, e) \/ Handled(d, e) \/ HandlerFails(d, e)
      PROVE Stage' = Stage
  <2>1. row' = row /\ mail' = mail
    BY <1>4 DEF Start, Load, Stop, LoopDies, Publish, Handled, HandlerFails
  <2> QED
    BY <2>1 DEF Stage
<1>5. CASE UNCHANGED vars
  BY <1>5 DEF vars, Stage
<1> QED
  BY <1>1, <1>2, <1>3, <1>4, <1>5 DEF Next, Dispatch, Deliver!DNext

\* Every event is recorded, mailed at least once, and then set aside for good.
THEOREM Delivers == Spec => DeliversAtLeastOnce
  BY InitStage, StepStage, Inductive, PTL DEF Spec, DeliversAtLeastOnce, Deliver!DSpec
=============================================================================
