-------------------------- MODULE InstanceTxProofs --------------------------
(***************************************************************************)
(* What the row locks give, for any graph and any number of tokens and     *)
(* processes.  From the moment a transaction has looked at the status      *)
(* under the lock on instance_projections until it commits, the status is  *)
(* the one it saw (Holding): a terminal instance is final.  A token's      *)
(* position, task and timer are replaced together (Seen): TokensHaveWork   *)
(* and HistoryMatchesStatus.  And the rows a transaction acts on are its   *)
(* own (Owned): where no path comes back to a node, LeavesOnce.            *)
(***************************************************************************)
EXTENDS InstanceTx, FiniteSetTheorems, TLAPS

FireStatements == {"fireTimer", "fireGuard", "fireSequence", "fireProjection", "fireTask", "fireFailed"}

KeyedStatements ==
  FireStatements \cup {"completeTask", "completeProjection", "completeTimers", "completeEvent",
                       "completeError"}

\* What p has seen of the status still holds, and p holds the projection row.
Holding(p) ==
  /\ pc[p] \in {"completeTimers", "completeEvent", "completeError", "fireTask", "errorEvent"}
       => lock[Projection] = p /\ status = "active"
  /\ pc[p] = "cancelEvent" => lock[Projection] = p /\ status \in {"active", "error"}

\* p works on a task or a timer, and a timer that is fired exists.
Keyed(p) ==
  /\ pc[p] \in KeyedStatements => key[p] \in Key
  /\ pc[p] \in FireStatements => timer[key[p]] # "none"

\* Only nodes that have a timer ever have a timer row.
TimerNodes == \A k \in Key : timer[k] # "none" => HasTimer(k[2])

IInv == TypeOK /\ TimerNodes /\ \A p \in Proc : Holding(p) /\ Keyed(p)

TxType ==
  /\ lock \in [Row -> Proc \cup {NoOne}]
  /\ pc \in [Proc -> Statement]
  /\ key \in [Proc -> Key \cup {NoKey}]
  /\ todo \in [Proc -> SUBSET Row]
  /\ open \in [Proc -> SUBSET Key]

DbType ==
  /\ status \in {"active", "completed", "cancelled", "error"}
  /\ at \in [Token -> Node \cup {Done, Cancelled}]
  /\ task \in [Key -> RowStatus] /\ timer \in [Key -> RowStatus]
  /\ fireErrors \in [Key -> 0..MaxFireRetries]
  /\ log \in Seq(Event)

\* The type invariant, split into the transactions' and the tables' parts.
LEMMA TypeParts == TypeOK <=> TxType /\ DbType
  BY DEF TypeOK, TxType, DbType

\* The same of the next state.
LEMMA TypePartsPrimed == TypeOK' <=> TxType' /\ DbType'
  BY DEF TypeOK, TxType, DbType

\* The rows of the model are where the statements look for them.
LEMMA Rows == /\ Projection \in Row
              /\ \A k \in Key : TaskRow(k) \in Row /\ TimerRow(k) \in Row
  BY DEF Row

-----------------------------------------------------------------------------
(* The locks: no step takes or frees a row of another transaction. *)

\* What a step of p leaves to the other processes.
Alone(p) ==
  \A q \in Proc : q # p =>
    /\ pc'[q] = pc[q] /\ key'[q] = key[q]
    /\ \A r \in Row : lock[r] = q => lock'[r] = q

\* A transaction begins.
LEMMA BeginTx ==
  ASSUME IInv, NEW p \in Proc, NEW s \in Statement, NEW k \in Key \cup {NoKey}, Begin(p, s, k),
         todo' \in [Proc -> SUBSET Row]
  PROVE  TxType' /\ Alone(p) /\ pc'[p] = s /\ key'[p] = k /\ UNCHANGED <<db, lock>>
  <1>1. pc' \in [Proc -> Statement] /\ key' \in [Proc -> Key \cup {NoKey}]
    BY DEF IInv, TypeOK, Begin
  <1>2. TxType'
    BY <1>1 DEF IInv, TypeOK, TxType, Begin
  <1>3. Alone(p) /\ pc'[p] = s /\ key'[p] = k
    BY DEF IInv, TypeOK, Alone, Begin
  <1> QED
    BY <1>2, <1>3 DEF Begin

\* A statement ends and its rows are locked.
LEMMA ProceedTx ==
  ASSUME IInv, NEW p \in Proc, NEW s \in Statement, Free(p), Proceed(p, s),
         todo' \in [Proc -> SUBSET Row], UNCHANGED open
  PROVE  /\ TxType' /\ Alone(p) /\ pc'[p] = s /\ UNCHANGED key
         /\ \A r \in Row : r \in Wants(p) \/ lock[r] = p => lock'[r] = p
  <1>1. lock' = [r \in Row |-> IF r \in Wants(p) THEN p ELSE lock[r]]
    BY DEF Proceed
  <1>2. TxType'
    <2>1. lock' \in [Row -> Proc \cup {NoOne}]
      BY <1>1 DEF IInv, TypeOK
    <2>2. pc' \in [Proc -> Statement]
      BY DEF IInv, TypeOK, Proceed
    <2> QED
      BY <2>1, <2>2 DEF IInv, TypeOK, TxType, Proceed
  <1>3. \A r \in Row : r \in Wants(p) => lock[r] \in {NoOne, p}
    BY DEF Free
  <1>4. \A q \in Proc : q # p => \A r \in Row : lock[r] = q => lock'[r] = q
    BY <1>1, <1>3, GraphAssumption
  <1>5. Alone(p) /\ pc'[p] = s /\ UNCHANGED key
    BY <1>4 DEF Alone, Proceed, IInv, TypeOK
  <1> QED
    BY <1>1, <1>2, <1>5

\* A transaction ends and its rows are released.
LEMMA LeaveTx ==
  ASSUME IInv, NEW p \in Proc, NEW s \in Statement, Leave(p, s)
  PROVE  TxType' /\ Alone(p) /\ pc'[p] = s /\ (s # "idle" => UNCHANGED key)
  <1>1. TxType'
    BY SMT DEF IInv, TypeOK, TxType, Leave
  <1>2. Alone(p) /\ pc'[p] = s /\ (s # "idle" => UNCHANGED key)
    BY SMT DEF IInv, TypeOK, Alone, Leave
  <1> QED
    BY <1>1, <1>2

\* A multi-row statement takes one of its rows.
LEMMA TakeRowTx ==
  ASSUME IInv, NEW p \in Proc, NEW r \in Row, TakeRow(p, r), UNCHANGED <<pc, key>>,
         open' \in [Proc -> SUBSET Key]
  PROVE  TxType' /\ Alone(p) /\ \A x \in Row : lock[x] = p => lock'[x] = p
  <1>1. lock' = [lock EXCEPT ![r] = p] /\ todo' = [todo EXCEPT ![p] = @ \ {r}]
        /\ lock[r] \in {NoOne, p}
    BY DEF TakeRow, Free
  <1>2. TxType'
    BY <1>1, SMT DEF IInv, TypeOK, TxType
  <1>3. \A q \in Proc : \A x \in Row : lock[x] = q => lock'[x] = q
    BY <1>1, GraphAssumption DEF IInv, TypeOK
  <1> QED
    BY <1>2, <1>3 DEF Alone

-----------------------------------------------------------------------------

\* A step of p keeps what the others rely on, if p changes the status only with
\* the projection row free or its own.
LEMMA OthersKept ==
  ASSUME IInv, NEW p \in Proc, Alone(p), NEW q \in Proc, q # p,
         status' = status \/ lock[Projection] \in {NoOne, p},
         \A k \in Key : timer[k] # "none" => timer'[k] # "none"
  PROVE  (Holding(q) /\ Keyed(q))'
  <1>1. pc'[q] = pc[q] /\ key'[q] = key[q]
    BY DEF Alone
  <1>2. lock[Projection] = q => lock'[Projection] = q /\ status' = status
    BY Rows, GraphAssumption DEF Alone
  <1>3. Holding(q) /\ Keyed(q)
    BY DEF IInv
  <1>4. Holding(q)'
    BY <1>1, <1>2, <1>3 DEF Holding
  <1>5. Keyed(q)'
    BY <1>1, <1>3 DEF Keyed, KeyedStatements
  <1> QED
    BY <1>4, <1>5

\* A statement that writes nothing yet.
LEMMA QuietStep ==
  ASSUME IInv, NEW p \in Proc, TxType', Alone(p), UNCHANGED db, (Holding(p) /\ Keyed(p))'
  PROVE  IInv'
  <1>1. TypeOK' /\ TimerNodes'
    BY TypeParts, TypePartsPrimed DEF IInv, db, DbType, TimerNodes
  <1>2. \A q \in Proc : (Holding(q) /\ Keyed(q))'
    BY OthersKept DEF db
  <1> QED
    BY <1>1, <1>2 DEF IInv

\* A rollback leaves the tables alone.
LEMMA RollbackIInv ==
  ASSUME IInv, NEW p \in Proc, Rollback(p)
  PROVE  IInv' /\ UNCHANGED db
  <1>1. TxType' /\ Alone(p) /\ pc'[p] = "idle" /\ UNCHANGED db
    BY LeaveTx DEF Rollback, End, Statement
  <1> QED
    BY <1>1, QuietStep DEF Holding, Keyed, KeyedStatements, FireStatements

\* fire_timer/2 ends in an error.
LEMMA FailFireIInv ==
  ASSUME IInv, NEW p \in Proc, FailFire(p), pc[p] \in FireStatements
  PROVE  IInv' /\ UNCHANGED db
  <1>1. TxType' /\ Alone(p) /\ pc'[p] = "fireFailed" /\ UNCHANGED <<db, key>>
    BY LeaveTx DEF FailFire, Statement
  <1>2. Keyed(p)'
    BY <1>1 DEF IInv, Keyed, KeyedStatements, FireStatements, db
  <1> QED
    BY <1>1, <1>2, QuietStep DEF Holding

\* A statement that goes on to one that relies on nothing.
LEMMA ProceedIInv ==
  ASSUME IInv, NEW p \in Proc, NEW s \in Statement, Free(p), Proceed(p, s),
         UNCHANGED <<db, todo, open>>,
         pc[p] \in KeyedStatements \/ s \notin KeyedStatements,
         pc[p] \in FireStatements \/ s \notin FireStatements,
         s \in {"completeTimers", "completeEvent", "completeError", "fireTask", "errorEvent"}
           => lock'[Projection] = p /\ status = "active",
         s = "cancelEvent" => lock'[Projection] = p /\ status \in {"active", "error"}
  PROVE  IInv'
  <1>1. todo' \in [Proc -> SUBSET Row]
    BY DEF IInv, TypeOK
  <1>2. TxType' /\ Alone(p) /\ pc'[p] = s /\ UNCHANGED key
    BY <1>1, ProceedTx
  <1>3. Holding(p)' /\ Keyed(p)'
    BY <1>2 DEF Holding, Keyed, IInv, db
  <1> QED
    BY <1>2, <1>3, QuietStep
-----------------------------------------------------------------------------
(* The steps of one process that write nothing *)

\* Any transaction begins.
LEMMA BeginIInv ==
  ASSUME IInv, NEW p \in Proc,
         BeginComplete(p) \/ BeginCancel(p) \/ BeginFire(p) \/ BeginError(p)
  PROVE  IInv' /\ UNCHANGED db
  <1>1. CASE BeginComplete(p)
    <2>1. PICK k \in Key : Begin(p, "completeTask", k) /\ UNCHANGED todo
      BY <1>1 DEF BeginComplete
    <2>2. TxType' /\ Alone(p) /\ pc'[p] = "completeTask" /\ key'[p] = k /\ UNCHANGED db
      BY <2>1, BeginTx DEF Statement, IInv, TypeOK
    <2> QED
      BY <2>2, QuietStep DEF Holding, Keyed, FireStatements
  <1>2. CASE BeginCancel(p)
    <2>1. todo' \in [Proc -> SUBSET Row]
      <3>1. {TaskRow(k) : k \in PendingTasks} \in SUBSET Row
        BY Rows DEF PendingTasks
      <3> QED
        BY <1>2, <3>1 DEF BeginCancel, IInv, TypeOK
    <2>2. TxType' /\ Alone(p) /\ pc'[p] = "cancelTasks" /\ UNCHANGED db
      BY <1>2, <2>1, BeginTx DEF BeginCancel, Statement
    <2> QED
      BY <2>2, QuietStep DEF Holding, Keyed, KeyedStatements, FireStatements
  <1>3. CASE BeginFire(p)
    <2>1. PICK k \in PendingTimers : Begin(p, "fireTimer", k) /\ UNCHANGED todo
      BY <1>3 DEF BeginFire
    <2>2. k \in Key /\ timer[k] # "none"
      BY DEF PendingTimers
    <2>3. TxType' /\ Alone(p) /\ pc'[p] = "fireTimer" /\ key'[p] = k /\ UNCHANGED db
      BY <2>1, <2>2, BeginTx DEF Statement, IInv, TypeOK
    <2> QED
      BY <2>2, <2>3, QuietStep DEF Holding, Keyed, db
  <1>4. CASE BeginError(p)
    <2>1. TxType' /\ Alone(p) /\ pc'[p] = "errorProjection" /\ UNCHANGED db
      BY <1>4, BeginTx DEF BeginError, Statement, IInv, TypeOK
    <2> QED
      BY <2>1, QuietStep DEF Holding, Keyed, KeyedStatements, FireStatements
  <1> QED
    BY <1>1, <1>2, <1>3, <1>4

\* Who is about to look at the status wants the projection row.
LEMMA WantsProjection ==
  ASSUME NEW p \in Proc,
         pc[p] \in {"completeProjection", "cancelProjection", "fireProjection", "errorProjection"}
  PROVE  Wants(p) = {Projection}
  BY DEF Wants

\* A step of a multi-row statement: one more row, or none left.
LEMMA TakeIInv ==
  ASSUME IInv, NEW p \in Proc, NEW r \in Row, TakeRow(p, r), UNCHANGED <<db, pc, key>>,
         open' \in [Proc -> SUBSET Key]
  PROVE  IInv'
  <1>1. TxType' /\ Alone(p) /\ \A x \in Row : lock[x] = p => lock'[x] = p
    BY TakeRowTx
  <1>2. Holding(p)' /\ Keyed(p)'
    BY <1>1, Rows DEF IInv, Holding, Keyed, db
  <1> QED
    BY <1>1, <1>2, QuietStep

\* A statement that only takes locks.
LEMMA NextStatementIInv ==
  ASSUME IInv, NEW p \in Proc, NEW s \in Statement, pc' = [pc EXCEPT ![p] = s],
         todo' \in [Proc -> SUBSET Row], UNCHANGED <<db, lock, key, open>>,
         \/ s \in {"cancelTimers", "cancelProjection"}
         \/ s = "completeEvent" /\ pc[p] = "completeTimers"
  PROVE  IInv'
  <1>1. pc'[p] = s /\ Alone(p)
    BY DEF IInv, TypeOK, Alone
  <1>2. TxType'
    BY DEF IInv, TypeOK, TxType
  <1>3. Holding(p)' /\ Keyed(p)'
    BY <1>1 DEF IInv, Holding, Keyed, KeyedStatements, FireStatements, db
  <1> QED
    BY <1>1, <1>2, <1>3, QuietStep

\* The statements of complete_task/3 before its writes.
LEMMA CompleteQuietIInv ==
  ASSUME IInv, NEW p \in Proc, CompleteTask(p) \/ CompleteProjection(p) \/ CompleteTimers(p)
  PROVE  IInv' /\ UNCHANGED db
  <1>1. CASE CompleteTask(p)
    BY <1>1, RollbackIInv, ProceedIInv DEF CompleteTask, Statement, KeyedStatements, FireStatements
  <1>2. CASE CompleteProjection(p)
    <2>1. pc[p] = "completeProjection" /\ Free(p) /\ Wants(p) = {Projection}
      BY <1>2, WantsProjection DEF CompleteProjection
    <2>2. CASE Rollback(p)
      BY <2>2, RollbackIInv
    <2>3. CASE ~ Rollback(p)
      <3>1. /\ status = "active" /\ UNCHANGED <<db, open>>
            /\ \/ /\ Proceed(p, "completeTimers")
                  /\ todo' = [todo EXCEPT ![p] = {TimerRow(k) : k \in PendingTimers \cap {key[p]}}]
               \/ Proceed(p, "completeError") /\ UNCHANGED todo
        BY <1>2, <2>3 DEF CompleteProjection
      <3>2. todo' \in [Proc -> SUBSET Row]
        <4>1. {TimerRow(k) : k \in PendingTimers \cap {key[p]}} \in SUBSET Row
          BY Rows DEF PendingTimers
        <4> QED
          BY <3>1, <4>1 DEF IInv, TypeOK
      <3>3. PICK s \in {"completeTimers", "completeError"} : Proceed(p, s)
        BY <3>1
      <3>4. TxType' /\ Alone(p) /\ pc'[p] = s /\ UNCHANGED key /\ lock'[Projection] = p
        BY <2>1, <3>1, <3>2, <3>3, ProceedTx, Rows DEF Statement
      <3>5. Holding(p)' /\ Keyed(p)'
        BY <2>1, <3>1, <3>4 DEF IInv, Holding, Keyed, KeyedStatements, FireStatements, db
      <3> QED
        BY <3>1, <3>4, <3>5, QuietStep
    <2> QED
      BY <2>2, <2>3
  <1>3. CASE CompleteTimers(p)
    <2>1. ASSUME NEW r \in todo[p], TakeRow(p, r), UNCHANGED <<db, pc, key, open>>
          PROVE  IInv' /\ UNCHANGED db
      <3>1. r \in Row /\ open' \in [Proc -> SUBSET Key]
        BY <2>1 DEF IInv, TypeOK
      <3> QED
        BY <2>1, <3>1, TakeIInv
    <2>2. CASE pc' = [pc EXCEPT ![p] = "completeEvent"] /\ UNCHANGED <<db, lock, key, todo, open>>
      <3>1. pc[p] = "completeTimers" /\ todo' \in [Proc -> SUBSET Row]
        BY <1>3, <2>2 DEF CompleteTimers, IInv, TypeOK
      <3> QED
        BY <2>2, <3>1, NextStatementIInv DEF Statement
    <2> QED
      BY <1>3, <2>1, <2>2 DEF CompleteTimers
  <1> QED
    BY <1>1, <1>2, <1>3

\* The statements of cancel_instance/3 before its writes.
LEMMA CancelQuietIInv ==
  ASSUME IInv, NEW p \in Proc, CancelTasks(p) \/ CancelTimers(p) \/ CancelProjection(p)
  PROVE  IInv' /\ UNCHANGED db
  <1>1. CASE CancelTasks(p)
    <2>1. ASSUME NEW k \in Key, TakeRow(p, TaskRow(k)), UNCHANGED <<db, pc, key>>,
                 open' = [open EXCEPT ![p] = @ \cup ({k} \cap PendingTasks)]
          PROVE  IInv' /\ UNCHANGED db
      <3>1. TaskRow(k) \in Row /\ open' \in [Proc -> SUBSET Key]
        BY <2>1, Rows DEF IInv, TypeOK
      <3> QED
        BY <2>1, <3>1, TakeIInv
    <2>2. CASE /\ pc' = [pc EXCEPT ![p] = "cancelTimers"]
               /\ todo' = [todo EXCEPT ![p] = {TimerRow(k) : k \in PendingTimers}]
               /\ UNCHANGED <<db, lock, key, open>>
      <3>1. {TimerRow(k) : k \in PendingTimers} \in SUBSET Row
        BY Rows DEF PendingTimers
      <3>2. todo' \in [Proc -> SUBSET Row]
        BY <2>2, <3>1 DEF IInv, TypeOK
      <3> QED
        BY <2>2, <3>2, NextStatementIInv DEF Statement
    <2> QED
      BY <1>1, <2>1, <2>2 DEF CancelTasks
  <1>2. CASE CancelTimers(p)
    <2>1. ASSUME NEW r \in todo[p], TakeRow(p, r), UNCHANGED <<db, pc, key, open>>
          PROVE  IInv' /\ UNCHANGED db
      <3>1. r \in Row /\ open' \in [Proc -> SUBSET Key]
        BY <2>1 DEF IInv, TypeOK
      <3> QED
        BY <2>1, <3>1, TakeIInv
    <2>2. CASE pc' = [pc EXCEPT ![p] = "cancelProjection"]
               /\ UNCHANGED <<db, lock, key, todo, open>>
      <3>1. todo' \in [Proc -> SUBSET Row]
        BY <2>2 DEF IInv, TypeOK
      <3> QED
        BY <2>2, <3>1, NextStatementIInv DEF Statement
    <2> QED
      BY <1>2, <2>1, <2>2 DEF CancelTimers
  <1>3. CASE CancelProjection(p)
    <2>1. pc[p] = "cancelProjection" /\ Free(p) /\ Wants(p) = {Projection}
      BY <1>3, WantsProjection DEF CancelProjection
    <2>2. CASE Rollback(p)
      BY <2>2, RollbackIInv
    <2>3. CASE ~ Rollback(p)
      <3>1. /\ status \in {"active", "error"} /\ Proceed(p, "cancelEvent")
            /\ UNCHANGED <<db, todo, open>>
        BY <1>3, <2>3 DEF CancelProjection
      <3>2. lock'[Projection] = p
        BY <2>1, <3>1, Rows DEF Proceed
      <3> QED
        BY <2>1, <3>1, <3>2, ProceedIInv DEF Statement, KeyedStatements, FireStatements
    <2> QED
      BY <2>2, <2>3
  <1> QED
    BY <1>1, <1>2, <1>3

\* The statements of fire_timer/2 before its writes.
LEMMA FireQuietIInv ==
  ASSUME IInv, NEW p \in Proc, FireTimer(p) \/ FireGuard(p) \/ FireSequence(p)
  PROVE  IInv' /\ UNCHANGED db
  <1>1. CASE FireTimer(p)
    BY <1>1, RollbackIInv, ProceedIInv DEF FireTimer, Statement, KeyedStatements, FireStatements
  <1>2. CASE FireGuard(p)
    <2>1. Free(p)
      BY <1>2 DEF FireGuard, Free, Wants
    <2> QED
      BY <1>2, <2>1, FailFireIInv, ProceedIInv
      DEF FireGuard, Statement, KeyedStatements, FireStatements
  <1>3. CASE FireSequence(p)
    BY <1>3, ProceedIInv DEF FireSequence, Statement, KeyedStatements, FireStatements
  <1> QED
    BY <1>1, <1>2, <1>3

\* set_instance_error/3 locks the projection and looks at its status.
LEMMA ErrorProjectionIInv ==
  ASSUME IInv, NEW p \in Proc, ErrorProjection(p)
  PROVE  IInv' /\ UNCHANGED db
  <1>1. pc[p] = "errorProjection" /\ Free(p) /\ Wants(p) = {Projection}
    BY WantsProjection DEF ErrorProjection
  <1>2. CASE Rollback(p)
    BY <1>2, RollbackIInv
  <1>3. CASE ~ Rollback(p)
    <2>1. status = "active" /\ Proceed(p, "errorEvent") /\ UNCHANGED <<db, todo, open>>
      BY <1>3 DEF ErrorProjection
    <2>2. lock'[Projection] = p
      BY <1>1, <2>1, Rows DEF Proceed
    <2> QED
      BY <1>1, <2>1, <2>2, ProceedIInv DEF Statement, KeyedStatements, FireStatements
  <1> QED
    BY <1>2, <1>3
-----------------------------------------------------------------------------
(* The steps that commit.  What TerminalIsFinal allows a step to do: *)

Final ==
  /\ status \in Terminal => UNCHANGED <<status, at, log>>
  /\ status = "error" => status' \in {"error", "cancelled"}

\* A step that leaves the tables alone ends nothing and reopens nothing.
LEMMA QuietIsFinal == TypeOK /\ UNCHANGED db => Final
  BY DEF TypeOK, Final, db

\* A transaction that commits with the projection row free or its own.
LEMMA CommitStep ==
  ASSUME IInv, NEW p \in Proc, End(p), DbType', TimerNodes',
         status' = status \/ lock[Projection] \in {NoOne, p},
         \A k \in Key : timer[k] # "none" => timer'[k] # "none"
  PROVE  IInv'
  <1>1. TxType' /\ Alone(p) /\ pc'[p] = "idle"
    BY LeaveTx DEF End, Statement
  <1>2. Holding(p)' /\ Keyed(p)'
    BY <1>1 DEF Holding, Keyed, KeyedStatements, FireStatements
  <1>3. \A q \in Proc : Holding(q)' /\ Keyed(q)'
    BY <1>1, <1>2, OthersKept
  <1> QED
    BY <1>1, <1>3, TypePartsPrimed DEF IInv

\* A task or timer is a token at a node.
LEMMA KeyParts == \A k \in Key : k[1] \in Token /\ k[2] \in Node /\ k = <<k[1], k[2]>>
  BY DEF Key

\* A history that gets one more event.
LEMMA LogType ==
  ASSUME IInv, NEW k \in Key \cup {NoKey},
         NEW type \in {"TASK_COMPLETED", "TIMER_FIRED", "EXECUTION_ERROR", "INSTANCE_CANCELLED"},
         Append1(type, k)
  PROVE  log' \in Seq(Event)
  BY SMT DEF IInv, TypeOK, Append1, Event

\* A token that moves.
LEMMA MoveType ==
  ASSUME IInv, NEW u \in Token, NEW n \in Node \cup {Done}, Move(u, n)
  PROVE  /\ at' \in [Token -> Node \cup {Done, Cancelled}]
         /\ status' \in {"active", "completed", "cancelled", "error"}
  <1>1. at' \in [Token -> Node \cup {Done, Cancelled}]
    BY DEF IInv, TypeOK, Move
  <1>2. status' \in {"active", "completed", "cancelled", "error"}
    BY DEF IInv, TypeOK, Move
  <1> QED
    BY <1>1, <1>2

\* The rows that come with a token's new position.
LEMMA ActivatedType ==
  ASSUME NEW u \in Token, NEW n \in Node \cup {Done}, NEW tasks \in [Key -> RowStatus]
  PROVE  Activated(u, n, tasks) \in [Key -> RowStatus]
  <1>1. CASE n # Done /\ Kind[n] = "human"
    <2>1. <<u, n>> \in Key /\ "pending" \in RowStatus
      BY <1>1 DEF Key, RowStatus
    <2> QED
      BY <1>1, <2>1 DEF Activated
  <1>2. CASE ~ (n # Done /\ Kind[n] = "human")
    BY <1>2 DEF Activated
  <1> QED
    BY <1>1, <1>2

\* The task and the timer a token finds where it arrives.
LEMMA ArmedType ==
  ASSUME NEW u \in Token, NEW n \in Node \cup {Done}, NEW timers \in [Key -> RowStatus],
         \A k \in Key : timers[k] # "none" => HasTimer(k[2])
  PROVE  /\ Armed(u, n, timers) \in [Key -> RowStatus]
         /\ \A k \in Key : Armed(u, n, timers)[k] # "none" => HasTimer(k[2])
         /\ \A k \in Key : timers[k] # "none" => Armed(u, n, timers)[k] # "none"
  <1>1. CASE n # Done /\ HasTimer(n)
    <2>1. <<u, n>> \in Key /\ "pending" \in RowStatus /\ <<u, n>>[2] = n
      BY <1>1 DEF Key, RowStatus
    <2>2. Armed(u, n, timers) = [timers EXCEPT ![<<u, n>>] = "pending"]
      BY <1>1 DEF Armed
    <2>3. Armed(u, n, timers) \in [Key -> RowStatus]
      BY <2>1, <2>2
    <2>4. \A k \in Key : Armed(u, n, timers)[k] = IF k = <<u, n>> THEN "pending" ELSE timers[k]
      BY <2>1, <2>2
    <2> QED
      BY <1>1, <2>1, <2>3, <2>4
  <1>2. CASE ~ (n # Done /\ HasTimer(n))
    BY <1>2 DEF Armed
  <1> QED
    BY <1>1, <1>2

\* A timer row that changes its status.
LEMMA SetTimer ==
  ASSUME IInv, NEW k \in Key, NEW s \in RowStatus \ {"none"}, timer[k] # "none"
  PROVE  /\ [timer EXCEPT ![k] = s] \in [Key -> RowStatus]
         /\ \A x \in Key : [timer EXCEPT ![k] = s][x] # "none" => HasTimer(x[2])
         /\ \A x \in Key : timer[x] # "none" => [timer EXCEPT ![k] = s][x] # "none"
  <1>1. timer \in [Key -> RowStatus] /\ TimerNodes
    BY DEF IInv, TypeOK
  <1>2. [timer EXCEPT ![k] = s] \in [Key -> RowStatus]
    BY <1>1
  <1>3. \A x \in Key : [timer EXCEPT ![k] = s][x] = IF x = k THEN s ELSE timer[x]
    BY <1>1
  <1> QED
    BY <1>1, <1>2, <1>3 DEF TimerNodes

\* complete_task/3 commits: the instance was active and is still locked.
LEMMA CompleteEventIInv ==
  ASSUME IInv, NEW p \in Proc, CompleteEvent(p)
  PROVE  IInv' /\ Final
  <1> DEFINE k == key[p]
             u == key[p][1]
             n == Succ[key[p][2]]
             timers == IF timer[k] = "pending" THEN [timer EXCEPT ![k] = "cancelled"] ELSE timer
  <1>1. /\ pc[p] = "completeEvent" /\ Move(u, n) /\ End(p) /\ UNCHANGED fireErrors
        /\ task' = Activated(u, n, [task EXCEPT ![k] = "completed"])
        /\ timer' = Armed(u, n, timers)
        /\ Append1("TASK_COMPLETED", k)
    BY DEF CompleteEvent
  <1>2. k \in Key /\ lock[Projection] = p /\ status = "active"
    BY <1>1 DEF IInv, Holding, Keyed, KeyedStatements
  <1>3. u \in Token /\ n \in Node \cup {Done}
    BY <1>2, KeyParts, GraphAssumption
  <1>4. task' \in [Key -> RowStatus]
    <2>1. [task EXCEPT ![k] = "completed"] \in [Key -> RowStatus]
      BY <1>2 DEF IInv, TypeOK, RowStatus
    <2> QED
      BY <1>1, <1>3, <2>1, ActivatedType
  <1>5. /\ timers \in [Key -> RowStatus]
        /\ \A x \in Key : timers[x] # "none" => HasTimer(x[2])
        /\ \A x \in Key : timer[x] # "none" => timers[x] # "none"
    <2>1. CASE timer[k] = "pending"
      BY <2>1, <1>2, SetTimer DEF RowStatus
    <2>2. CASE timer[k] # "pending"
      BY <2>2 DEF IInv, TypeOK, TimerNodes
    <2> QED
      BY <2>1, <2>2
  <1> HIDE DEF n, timers
  <1>6. /\ timer' \in [Key -> RowStatus] /\ TimerNodes'
        /\ \A x \in Key : timer[x] # "none" => timer'[x] # "none"
    BY <1>1, <1>3, <1>5, ArmedType DEF TimerNodes
  <1>7. DbType'
    BY <1>1, <1>2, <1>3, <1>4, <1>6, MoveType, LogType DEF DbType, IInv, TypeOK
  <1> QED
    BY <1>1, <1>2, <1>6, <1>7, CommitStep DEF Final, Terminal

\* An execution error commits: the instance was active and is still locked.
LEMMA ErrorIInv ==
  ASSUME IInv, NEW p \in Proc, CompleteError(p) \/ ErrorEvent(p)
  PROVE  IInv' /\ Final
  <1>1. /\ pc[p] \in {"completeError", "errorEvent"} /\ End(p)
        /\ status' = "error" /\ UNCHANGED <<at, task, timer, fireErrors>>
        /\ \E k \in Key \cup {NoKey} : Append1("EXECUTION_ERROR", k)
    BY DEF CompleteError, ErrorEvent, IInv, Keyed, KeyedStatements
  <1>2. lock[Projection] = p /\ status = "active"
    BY <1>1 DEF IInv, Holding
  <1>3. DbType' /\ TimerNodes'
    BY <1>1, LogType DEF DbType, TimerNodes, IInv, TypeOK
  <1> QED
    BY <1>1, <1>2, <1>3, CommitStep DEF Final, Terminal

\* cancel_instance/3 commits: the instance was active or in error and is still locked.
LEMMA CancelEventIInv ==
  ASSUME IInv, NEW p \in Proc, CancelEvent(p)
  PROVE  IInv' /\ Final
  <1>1. /\ pc[p] = "cancelEvent" /\ End(p) /\ status' = "cancelled" /\ UNCHANGED fireErrors
        /\ task' = [k \in Key |-> IF k \in open[p] THEN "cancelled" ELSE task[k]]
        /\ timer' = [k \in Key |-> IF lock[TimerRow(k)] = p /\ timer[k] = "pending"
                                   THEN "cancelled" ELSE timer[k]]
        /\ at' = [u \in Token |-> IF at[u] = Done THEN Done ELSE Cancelled]
        /\ Append1("INSTANCE_CANCELLED", NoKey)
    BY DEF CancelEvent
  <1>2. lock[Projection] = p /\ status \in {"active", "error"}
    BY <1>1 DEF IInv, Holding
  <1>3. task' \in [Key -> RowStatus] /\ at' \in [Token -> Node \cup {Done, Cancelled}]
    BY <1>1 DEF IInv, TypeOK, RowStatus
  <1>4. /\ timer' \in [Key -> RowStatus] /\ TimerNodes'
        /\ \A k \in Key : timer[k] # "none" => timer'[k] # "none"
    BY <1>1 DEF IInv, TypeOK, TimerNodes, RowStatus
  <1>5. DbType'
    BY <1>1, <1>3, <1>4, LogType DEF DbType, IInv, TypeOK
  <1> QED
    BY <1>1, <1>2, <1>4, <1>5, CommitStep DEF Final, Terminal

\* What firing a timer does to the database, when nobody else has the projection.
LEMMA FireAdvanceIInv ==
  ASSUME IInv, NEW p \in Proc, FireAdvance(p), pc[p] \in {"fireProjection", "fireTask"},
         lock[Projection] \in {NoOne, p}, status = "active"
  PROVE  IInv' /\ Final
  <1> DEFINE k == key[p]
             u == key[p][1]
             n == IF Kind[key[p][2]] = "timer" THEN Succ[key[p][2]] ELSE EscalatesTo[key[p][2]]
             tasks == IF task[k] = "pending" THEN [task EXCEPT ![k] = "cancelled"] ELSE task
             timers == [timer EXCEPT ![k] = "fired"]
  <1>1. /\ Move(u, n) /\ End(p) /\ UNCHANGED fireErrors
        /\ task' = Activated(u, n, tasks) /\ timer' = Armed(u, n, timers)
        /\ Append1("TIMER_FIRED", k)
    BY DEF FireAdvance
  <1>2. k \in Key /\ timer[k] # "none"
    BY DEF IInv, Keyed, KeyedStatements, FireStatements
  <1>3. u \in Token /\ k[2] \in Node
    BY <1>2, KeyParts
  <1>4. HasTimer(k[2])
    BY <1>2 DEF IInv, TimerNodes
  <1>5. n \in Node \cup {Done}
    BY <1>3, <1>4, GraphAssumption DEF HasTimer
  <1>6. tasks \in [Key -> RowStatus]
    BY <1>2 DEF IInv, TypeOK, RowStatus
  <1>7. /\ timers \in [Key -> RowStatus]
        /\ \A x \in Key : timers[x] # "none" => HasTimer(x[2])
        /\ \A x \in Key : timer[x] # "none" => timers[x] # "none"
    BY <1>2, SetTimer DEF RowStatus
  <1> HIDE DEF n, tasks, timers
  <1>8. task' \in [Key -> RowStatus]
    BY <1>1, <1>3, <1>5, <1>6, ActivatedType
  <1>9. /\ timer' \in [Key -> RowStatus] /\ TimerNodes'
        /\ \A x \in Key : timer[x] # "none" => timer'[x] # "none"
    BY <1>1, <1>3, <1>5, <1>7, ArmedType DEF TimerNodes
  <1>10. DbType'
    BY <1>1, <1>2, <1>3, <1>5, <1>8, <1>9, MoveType, LogType DEF DbType, IInv, TypeOK
  <1> QED
    BY <1>1, <1>9, <1>10, CommitStep DEF Final, Terminal

\* A stale escalation is recorded.
LEMMA FireStaleIInv ==
  ASSUME IInv, NEW p \in Proc, FireStale(p), pc[p] = "fireProjection", status = "active"
  PROVE  IInv' /\ Final
  <1>1. key[p] \in Key /\ timer[key[p]] # "none"
    BY DEF IInv, Keyed, KeyedStatements, FireStatements
  <1>2. /\ timer' = [timer EXCEPT ![key[p]] = "fired"] /\ End(p)
        /\ UNCHANGED <<status, at, task, fireErrors>> /\ Append1("TIMER_FIRED", key[p])
    BY DEF FireStale
  <1>3. /\ timer' \in [Key -> RowStatus] /\ TimerNodes'
        /\ \A x \in Key : timer[x] # "none" => timer'[x] # "none"
    BY <1>1, <1>2, SetTimer DEF RowStatus, TimerNodes
  <1>4. DbType'
    BY <1>1, <1>2, <1>3, LogType DEF DbType, IInv, TypeOK
  <1> QED
    BY <1>2, <1>3, <1>4, CommitStep DEF Final, Terminal

\* fire_timer/2 with the projection in hand: an instance that is not active stays as it is.
LEMMA FireProjectionIInv ==
  ASSUME IInv, NEW p \in Proc, FireProjection(p)
  PROVE  IInv' /\ Final
  <1>1. /\ pc[p] = "fireProjection" /\ Free(p) /\ Wants(p) = {Projection}
        /\ lock[Projection] \in {NoOne, p}
    BY WantsProjection DEF FireProjection, Free
  <1>2. CASE Rollback(p) \/ FailFire(p)
    BY <1>1, <1>2, RollbackIInv, FailFireIInv, QuietIsFinal DEF FireStatements, IInv
  <1>3. CASE ~ (Rollback(p) \/ FailFire(p))
    <2>1. /\ status = "active"
          /\ \/ Proceed(p, "fireTask") /\ UNCHANGED <<db, todo, open>>
             \/ FireAdvance(p)
             \/ FireStale(p)
      BY <1>3 DEF FireProjection
    <2>2. CASE Proceed(p, "fireTask") /\ UNCHANGED <<db, todo, open>>
      <3>1. lock'[Projection] = p
        BY <1>1, <2>2, Rows DEF Proceed
      <3>2. IInv'
        BY <1>1, <2>1, <2>2, <3>1, ProceedIInv DEF Statement, KeyedStatements, FireStatements
      <3> QED
        BY <2>2, <3>2, QuietIsFinal DEF IInv
    <2> QED
      BY <1>1, <2>1, <2>2, FireAdvanceIInv, FireStaleIInv
  <1> QED
    BY <1>2, <1>3

\* fire_timer/2 commits its advance: the instance was active and is still locked.
LEMMA FireTaskIInv ==
  ASSUME IInv, NEW p \in Proc, FireTask(p)
  PROVE  IInv' /\ Final
  <1>1. pc[p] = "fireTask" /\ FireAdvance(p)
    BY DEF FireTask
  <1>2. lock[Projection] = p /\ status = "active"
    BY <1>1 DEF IInv, Holding
  <1> QED
    BY <1>1, <1>2, FireAdvanceIInv

\* A failed attempt is counted, and touches nothing but the timer.
LEMMA FireFailedIInv ==
  ASSUME IInv, NEW p \in Proc, FireFailed(p)
  PROVE  IInv' /\ Final
  <1> DEFINE errors == NextErrors(fireErrors[key[p]])
  <1>1. /\ pc[p] = "fireFailed" /\ End(p)
        /\ fireErrors' = [fireErrors EXCEPT ![key[p]] = errors]
        /\ timer' = IF errors >= MaxFireRetries
                    THEN [timer EXCEPT ![key[p]] = "failed"] ELSE timer
        /\ UNCHANGED <<status, at, task, log>>
    BY DEF FireFailed
  <1>2. key[p] \in Key /\ timer[key[p]] # "none"
    BY <1>1 DEF IInv, Keyed, KeyedStatements, FireStatements
  <1>3. errors \in 0..MaxFireRetries
    <2>1. fireErrors[key[p]] \in 0..MaxFireRetries
      BY <1>2 DEF IInv, TypeOK
    <2> QED
      BY <2>1, GraphAssumption, SMT DEF NextErrors
  <1>4. fireErrors' \in [Key -> 0..MaxFireRetries]
    BY <1>1, <1>2, <1>3 DEF IInv, TypeOK
  <1>5. /\ timer' \in [Key -> RowStatus] /\ TimerNodes'
        /\ \A x \in Key : timer[x] # "none" => timer'[x] # "none"
    <2>1. CASE timer' = timer
      BY <2>1 DEF IInv, TypeOK, TimerNodes
    <2>2. CASE timer' = [timer EXCEPT ![key[p]] = "failed"]
      BY <2>2, <1>2, SetTimer DEF RowStatus, TimerNodes
    <2> QED
      BY <1>1, <2>1, <2>2
  <1>6. DbType'
    BY <1>1, <1>4, <1>5 DEF DbType, IInv, TypeOK
  <1>7. Final
    BY <1>1 DEF Final, IInv, TypeOK
  <1> QED
    BY <1>1, <1>5, <1>6, <1>7, CommitStep

-----------------------------------------------------------------------------

\* An instance that has just started.
LEMMA InitIInv == Init => IInv
  <1> SUFFICES ASSUME Init PROVE IInv
    OBVIOUS
  <1>1. at = Start /\ Start \in [Token -> Node \cup {Done, Cancelled}]
    BY GraphAssumption DEF Init
  <1>2. task \in [Key -> RowStatus] /\ timer \in [Key -> RowStatus] /\ TimerNodes
    BY DEF Init, RowStatus, TimerNodes
  <1>3. fireErrors \in [Key -> 0..MaxFireRetries]
    BY GraphAssumption, SMT DEF Init
  <1>4. log \in Seq(Event)
    BY SMT DEF Init
  <1>5. TxType
    BY DEF Init, TxType, Statement
  <1>6. TypeOK
    BY <1>1, <1>2, <1>3, <1>4, <1>5, TypeParts DEF Init, DbType
  <1>7. \A p \in Proc : Holding(p) /\ Keyed(p)
    BY DEF Init, Holding, Keyed, KeyedStatements, FireStatements
  <1> QED
    BY <1>2, <1>6, <1>7 DEF IInv

\* Every step keeps the invariant and respects the end of an instance.
LEMMA StepIInv ==
  ASSUME IInv, [Next]_vars
  PROVE  IInv' /\ (Final \/ UNCHANGED vars)
  <1>1. CASE UNCHANGED vars
    BY <1>1
    DEF vars, db, tx, IInv, TypeOK, TimerNodes, Holding, Keyed
  <1>2. ASSUME NEW p \in Proc, Step(p)
        PROVE  IInv' /\ Final
    <2>1. CASE CompleteTask(p) \/ CompleteProjection(p) \/ CompleteTimers(p)
      BY <2>1, CompleteQuietIInv, QuietIsFinal DEF IInv
    <2>2. CASE CancelTasks(p) \/ CancelTimers(p) \/ CancelProjection(p)
      BY <2>2, CancelQuietIInv, QuietIsFinal DEF IInv
    <2>3. CASE FireTimer(p) \/ FireGuard(p) \/ FireSequence(p)
      BY <2>3, FireQuietIInv, QuietIsFinal DEF IInv
    <2>4. CASE ErrorProjection(p)
      BY <2>4, ErrorProjectionIInv, QuietIsFinal DEF IInv
    <2> QED
      BY <1>2, <2>1, <2>2, <2>3, <2>4, CompleteEventIInv, ErrorIInv, CancelEventIInv,
         FireProjectionIInv, FireTaskIInv, FireFailedIInv DEF Step
  <1>3. ASSUME NEW p \in Proc,
               BeginComplete(p) \/ BeginCancel(p) \/ BeginFire(p) \/ BeginError(p)
        PROVE  IInv' /\ Final
    BY <1>3, BeginIInv, QuietIsFinal DEF IInv
  <1>4. ASSUME NEW p \in Proc, DeadlockAbort(p) \/ Crash(p)
        PROVE  IInv' /\ Final
    <2>1. Rollback(p) \/ (FailFire(p) /\ pc[p] \in FireStatements)
      BY <1>4 DEF DeadlockAbort, Crash, Firing, FireStatements
    <2> QED
      BY <2>1, RollbackIInv, FailFireIInv, QuietIsFinal DEF IInv
  <1> QED
    BY <1>1, <1>2, <1>3, <1>4 DEF Next

\* IInv holds in every state of the specification.
THEOREM Invariance == Spec => []IInv
  <1>1. IInv /\ [Next]_vars => IInv'
    BY StepIInv
  <1> QED
    BY <1>1, InitIInv, PTL DEF Spec

\* The variables keep their types for any graph and any number of processes.
THEOREM TypeCorrect == Spec => []TypeOK
  BY Invariance, PTL DEF IInv

\* A terminal instance keeps its status, its tokens and its history, and one in
\* error can only be cancelled, whatever transactions were under way.
THEOREM FinalTheorem == Spec => TerminalIsFinal
  <1>1. IInv /\ [Next]_vars =>
          [/\ status \in Terminal => UNCHANGED <<status, at, log>>
           /\ status = "error" => status' \in {"error", "cancelled"}]_vars
    BY StepIInv DEF Final
  <1> QED
    BY <1>1, Invariance, PTL DEF Spec, TerminalIsFinal

-----------------------------------------------------------------------------
(* What moves the tokens of an instance, and what its history says of it.  The *)
(* two transactions that move a token have looked at its position under the     *)
(* projection row's lock (Seen), so that the position, the task and the timer   *)
(* they replace belong together.                                                *)

\* The body of TokensHaveWork.
Working ==
  /\ \A k \in Key : task[k] = "pending" <=> at[k[1]] = k[2] /\ Kind[k[2]] = "human"
  /\ \A k \in Key : timer[k] = "pending" => at[k[1]] = k[2]
  /\ \A t \in Token : at[t] \in Node /\ Kind[at[t]] = "timer"
                        => timer[<<t, at[t]>>] \in {"pending", "failed"}

\* Only human nodes ever have a task row.
TaskNodes == \A k \in Key : task[k] # "none" => Kind[k[2]] = "human"

\* What the events say of the status.
History ==
  /\ \A i \in DOMAIN log : log[i].type = "INSTANCE_CANCELLED" => i = Len(log)
  /\ status = "cancelled" <=> log # <<>> /\ log[Len(log)].type = "INSTANCE_CANCELLED"
  /\ status \in {"error", "cancelled"} \/ \A i \in DOMAIN log : log[i].type # "EXECUTION_ERROR"

Completing == {"completeTask", "completeProjection", "completeTimers", "completeEvent", "completeError"}

\* p completes a task of a human node; past its look at the position, the token is still there;
\* the tasks a cancellation has found are of human nodes.
Seen(p) ==
  /\ pc[p] \in Completing => Kind[key[p][2]] = "human"
  /\ pc[p] \in {"completeTimers", "completeEvent", "fireTask"} => at[key[p][1]] = key[p][2]
  /\ \A k \in open[p] : Kind[k[2]] = "human"

Tables ==
  /\ TaskNodes /\ History
  /\ status \in {"active", "completed"} => Working
  /\ status = "completed" => \A t \in Token : at[t] = Done

WInv == IInv /\ Tables /\ \A p \in Proc : Seen(p)

-----------------------------------------------------------------------------
(* What a step of p leaves to the other processes, without the locks. *)

Apart(p) ==
  \A q \in Proc : q # p => pc'[q] = pc[q] /\ key'[q] = key[q] /\ open'[q] = open[q]

\* Nobody else has seen the position of a token that moves.
LEMMA SeenKept ==
  ASSUME WInv, NEW p \in Proc, Apart(p), NEW q \in Proc, q # p,
         at' = at \/ lock[Projection] \in {NoOne, p}
  PROVE  Seen(q)'
  <1>1. Seen(q) /\ Holding(q)
    BY DEF WInv, IInv
  <1>2. pc'[q] = pc[q] /\ key'[q] = key[q] /\ open'[q] = open[q]
    BY DEF Apart
  <1>3. pc[q] \in {"completeTimers", "completeEvent", "fireTask"} => at' = at
    BY <1>1, GraphAssumption DEF Holding
  <1> QED
    BY <1>1, <1>2, <1>3 DEF Seen

\* A step that leaves the tables alone.
LEMMA QuietWInv ==
  ASSUME WInv, IInv', NEW p \in Proc, Apart(p), UNCHANGED db, Seen(p)'
  PROVE  WInv'
  <1>1. \A q \in Proc : Seen(q)'
    BY SeenKept DEF db
  <1>2. Tables'
    BY DEF WInv, Tables, TaskNodes, History, Working, db
  <1> QED
    BY <1>1, <1>2 DEF WInv

\* A transaction that commits.
LEMMA CommitWInv ==
  ASSUME WInv, IInv', NEW p \in Proc, NEW s \in {"idle", "fireFailed"}, Leave(p, s),
         at' = at \/ lock[Projection] \in {NoOne, p}, Tables'
  PROVE  WInv'
  <1>1. Apart(p) /\ pc'[p] = s /\ open'[p] = {}
    BY DEF Leave, Apart, WInv, IInv, TypeOK
  <1>2. Seen(p)'
    BY <1>1 DEF Seen, Completing
  <1> QED
    BY <1>1, <1>2, SeenKept DEF WInv

\* A rollback, or the end of an attempt to fire.
LEMMA LeaveWInv ==
  ASSUME WInv, IInv', NEW p \in Proc, NEW s \in {"idle", "fireFailed"}, Leave(p, s), UNCHANGED db
  PROVE  WInv'
  <1>1. Tables'
    BY DEF WInv, Tables, TaskNodes, History, Working, db
  <1> QED
    BY <1>1, CommitWInv DEF db

\* A statement that goes on to the next one with the same key.
LEMMA GoOnWInv ==
  ASSUME WInv, IInv', NEW p \in Proc, NEW s \in Statement, pc' = [pc EXCEPT ![p] = s],
         UNCHANGED <<db, key, open>>,
         s \in Completing => pc[p] \in Completing,
         s \in {"completeTimers", "completeEvent", "fireTask"} => at[key[p][1]] = key[p][2]
  PROVE  WInv'
  <1>1. Apart(p) /\ pc'[p] = s
    BY DEF Apart, WInv, IInv, TypeOK
  <1>2. Seen(p)'
    BY <1>1 DEF WInv, Seen, db
  <1> QED
    BY <1>1, <1>2, QuietWInv

-----------------------------------------------------------------------------
(* The steps that write nothing. *)

\* Any transaction begins.
LEMMA BeginWInv ==
  ASSUME WInv, NEW p \in Proc,
         BeginComplete(p) \/ BeginCancel(p) \/ BeginFire(p) \/ BeginError(p)
  PROVE  WInv'
  <1>1. IInv' /\ UNCHANGED db
    BY BeginIInv DEF WInv
  <1>2. PICK s \in {"completeTask", "cancelTasks", "fireTimer", "errorProjection"}, k \in Key \cup {NoKey} :
          Begin(p, s, k) /\ (s = "completeTask" => task[k] # "none" /\ k \in Key)
    BY DEF BeginComplete, BeginCancel, BeginFire, BeginError, PendingTimers
  <1>3. Apart(p) /\ pc'[p] = s /\ key'[p] = k /\ open' = open
    BY <1>2 DEF Begin, Apart, WInv, IInv, TypeOK
  <1>4. Seen(p)'
    BY <1>2, <1>3 DEF Seen, Completing, WInv, Tables, TaskNodes
  <1> QED
    BY <1>1, <1>3, <1>4, QuietWInv

\* complete_task/3 before its writes: the position it saw is the task's.
LEMMA CompleteQuietWInv ==
  ASSUME WInv, NEW p \in Proc, CompleteTask(p) \/ CompleteProjection(p) \/ CompleteTimers(p)
  PROVE  WInv'
  <1>1. IInv' /\ UNCHANGED db
    BY CompleteQuietIInv DEF WInv
  <1>2. CASE CompleteTask(p)
    BY <1>1, <1>2, LeaveWInv, GoOnWInv
    DEF CompleteTask, Proceed, Rollback, End, Statement, Completing
  <1>3. CASE CompleteProjection(p)
    BY <1>1, <1>3, LeaveWInv, GoOnWInv
    DEF CompleteProjection, Proceed, Rollback, End, Statement, Completing
  <1>4. CASE CompleteTimers(p)
    <2>1. pc[p] = "completeTimers" /\ at[key[p][1]] = key[p][2] /\ pc \in [Proc -> Statement]
      BY <1>4 DEF CompleteTimers, WInv, Seen, IInv, TypeOK
    <2>2. \/ UNCHANGED <<pc, key, open>>
          \/ pc' = [pc EXCEPT ![p] = "completeEvent"] /\ UNCHANGED <<key, open>>
      BY <1>4 DEF CompleteTimers
    <2>3. CASE UNCHANGED <<pc, key, open>>
      <3>1. Apart(p) /\ Seen(p)'
        BY <2>3, <1>1 DEF Apart, WInv, Seen, db
      <3> QED
        BY <1>1, <3>1, QuietWInv
    <2> QED
      BY <1>1, <2>1, <2>2, <2>3, GoOnWInv DEF Statement, Completing
  <1> QED
    BY <1>2, <1>3, <1>4

\* cancel_instance/3 before its writes: what it finds open is a task.
LEMMA CancelQuietWInv ==
  ASSUME WInv, NEW p \in Proc, CancelTasks(p) \/ CancelTimers(p) \/ CancelProjection(p)
  PROVE  WInv'
  <1>1. IInv' /\ UNCHANGED db
    BY CancelQuietIInv DEF WInv
  <1>2. CASE Rollback(p)
    BY <1>1, <1>2, LeaveWInv DEF Rollback, End
  <1>3. CASE ~ Rollback(p)
    <2>1. /\ \/ pc' = pc
             \/ \E s \in {"cancelTimers", "cancelProjection", "cancelEvent"} : pc' = [pc EXCEPT ![p] = s]
          /\ key' = key
          /\ open' = open \/ \E k \in PendingTasks : open' = [open EXCEPT ![p] = @ \cup {k}]
      <3>1. CASE CancelTasks(p)
        <4>1. ASSUME NEW k \in Key, open' = [open EXCEPT ![p] = @ \cup ({k} \cap PendingTasks)]
              PROVE  open' = open \/ \E x \in PendingTasks : open' = [open EXCEPT ![p] = @ \cup {x}]
          <5>1. CASE k \in PendingTasks
            <6>1. {k} \cap PendingTasks = {k}
              BY <5>1
            <6> QED
              BY <4>1, <5>1, <6>1
          <5>2. CASE k \notin PendingTasks
            <6>1. open[p] \cup ({k} \cap PendingTasks) = open[p]
              BY <5>2
            <6> QED
              BY <4>1, <6>1 DEF WInv, IInv, TypeOK
          <5> QED
            BY <5>1, <5>2
        <4> QED
          BY <3>1, <4>1 DEF CancelTasks
      <3>2. CASE CancelTimers(p)
        BY <3>2 DEF CancelTimers
      <3>3. CASE CancelProjection(p)
        BY <1>3, <3>3 DEF CancelProjection, Proceed
      <3> QED
        BY <3>1, <3>2, <3>3
    <2>2. pc[p] \in {"cancelTasks", "cancelTimers", "cancelProjection"}
      BY DEF CancelTasks, CancelTimers, CancelProjection
    <2>3. Apart(p) /\ pc'[p] \in {"cancelTasks", "cancelTimers", "cancelProjection", "cancelEvent"}
      BY <2>1, <2>2 DEF Apart, WInv, IInv, TypeOK
    <2>4. \A k \in open'[p] : k \in open[p] \/ k \in PendingTasks
      BY <2>1 DEF WInv, IInv, TypeOK
    <2>5. \A k \in PendingTasks : Kind[k[2]] = "human"
      BY DEF PendingTasks, WInv, Tables, TaskNodes
    <2>6. Seen(p)'
      BY <2>3, <2>4, <2>5 DEF Seen, Completing, WInv
    <2> QED
      BY <1>1, <2>3, <2>6, QuietWInv
  <1> QED
    BY <1>2, <1>3

\* fire_timer/2 and set_instance_error/3 before their writes.
LEMMA FireQuietWInv ==
  ASSUME WInv, NEW p \in Proc, FireTimer(p) \/ FireGuard(p) \/ FireSequence(p) \/ ErrorProjection(p)
  PROVE  WInv'
  <1>1. IInv' /\ UNCHANGED db
    BY FireQuietIInv, ErrorProjectionIInv DEF WInv
  <1>2. \/ \E s \in {"idle", "fireFailed"} : Leave(p, s)
        \/ \E s \in {"fireGuard", "fireSequence", "fireProjection", "errorEvent"} : Proceed(p, s) /\ UNCHANGED open
    BY DEF FireTimer, FireGuard, FireSequence, ErrorProjection, Rollback, End, FailFire
  <1> QED
    BY <1>1, <1>2, LeaveWInv, GoOnWInv DEF Proceed, Statement, Completing

-----------------------------------------------------------------------------
(* The steps that commit. *)

\* One more event, of a transaction that found the instance active or in error.
LEMMA HistoryGrows ==
  ASSUME WInv, NEW k \in Key \cup {NoKey},
         NEW type \in {"TASK_COMPLETED", "TIMER_FIRED", "EXECUTION_ERROR", "INSTANCE_CANCELLED"},
         Append1(type, k), status \in {"active", "error"},
         type = "INSTANCE_CANCELLED" <=> status' = "cancelled",
         type = "EXECUTION_ERROR" => status' = "error",
         status = "error" => status' \in {"error", "cancelled"}
  PROVE  History'
  <1> DEFINE e == [type |-> type, key |-> k]
  <1>1. log \in Seq(Event) /\ e \in Event /\ log' = Append(log, e)
    BY DEF WInv, IInv, TypeOK, Append1, Event
  <1>2. History
    BY DEF WInv, Tables
  <1>3. \A i \in DOMAIN log : log[i].type # "INSTANCE_CANCELLED"
    BY <1>1, <1>2 DEF History
  <1>4. /\ Len(log') = Len(log) + 1 /\ log'[Len(log')] = e /\ log' # <<>>
        /\ \A i \in DOMAIN log' : i = Len(log') \/ (i \in DOMAIN log /\ log'[i] = log[i])
    BY <1>1
  <1>5. e.type = type
    OBVIOUS
  <1> HIDE DEF e
  <1> QED
    BY <1>2, <1>3, <1>4, <1>5 DEF History

\* A token that leaves the node where its task and its timer are finds its next ones.
LEMMA MoveWorks ==
  ASSUME WInv, status = "active", NEW u \in Token, NEW m \in Node, at[u] = m,
         NEW n \in Node \cup {Done}, Move(u, n),
         NEW tasks \in [Key -> RowStatus], NEW timers \in [Key -> RowStatus],
         \A x \in Key : x # <<u, m>> => tasks[x] = task[x] /\ timers[x] = timer[x],
         tasks[<<u, m>>] # "pending", timers[<<u, m>>] # "pending",
         tasks[<<u, m>>] # "none" => Kind[m] = "human",
         task' = Activated(u, n, tasks), timer' = Armed(u, n, timers)
  PROVE  /\ TaskNodes' /\ Working' /\ status' \in {"active", "completed"}
         /\ status' = "completed" => \A t \in Token : at'[t] = Done
  <1>1. /\ \A x \in Key : x[1] \in Token /\ x[2] \in Node /\ x = <<x[1], x[2]>>
        /\ Done \notin Node /\ <<u, m>> \in Key
    BY KeyParts, GraphAssumption DEF Key
  <1>2. /\ at'[u] = n /\ \A t \in Token : t # u => at'[t] = at[t]
        /\ status' = IF \A t \in Token : at'[t] = Done THEN "completed" ELSE status
    BY DEF Move, WInv, IInv, TypeOK
  <1>3. \A x \in Key : task'[x] = IF x = <<u, n>> /\ n # Done /\ Kind[n] = "human" THEN "pending" ELSE tasks[x]
    BY <1>1 DEF Activated
  <1>4. \A x \in Key : timer'[x] = IF x = <<u, n>> /\ n # Done /\ HasTimer(n) THEN "pending" ELSE timers[x]
    BY <1>1 DEF Armed
  <1>5. Working /\ TaskNodes
    BY DEF WInv, Tables
  <1>6. ASSUME NEW x \in Key
        PROVE  task'[x] = "pending" <=> at'[x[1]] = x[2] /\ Kind[x[2]] = "human"
    <2>1. CASE x[1] = u
      BY <2>1, <1>1, <1>2, <1>3, <1>5 DEF Working
    <2>2. CASE x[1] # u
      BY <2>2, <1>1, <1>2, <1>3, <1>5 DEF Working
    <2> QED
      BY <2>1, <2>2
  <1>7. ASSUME NEW x \in Key, timer'[x] = "pending" PROVE at'[x[1]] = x[2]
    <2>1. CASE x[1] = u
      BY <2>1, <1>1, <1>2, <1>4, <1>5, <1>7 DEF Working
    <2>2. CASE x[1] # u
      BY <2>2, <1>1, <1>2, <1>4, <1>5, <1>7 DEF Working
    <2> QED
      BY <2>1, <2>2
  <1>8. ASSUME NEW t \in Token, at'[t] \in Node, Kind[at'[t]] = "timer"
        PROVE  timer'[<<t, at'[t]>>] \in {"pending", "failed"}
    <2>1. <<t, at'[t]>> \in Key
      BY <1>8 DEF Key
    <2>2. CASE t = u
      BY <2>1, <2>2, <1>1, <1>2, <1>4, <1>8 DEF HasTimer
    <2>3. CASE t # u
      BY <2>1, <2>3, <1>2, <1>4, <1>5, <1>8 DEF Working
    <2> QED
      BY <2>2, <2>3
  <1>9. TaskNodes'
    BY <1>1, <1>3, <1>5 DEF TaskNodes
  <1> QED
    BY <1>2, <1>6, <1>7, <1>8, <1>9 DEF Working

\* complete_task/3 commits.
LEMMA CompleteEventWInv ==
  ASSUME WInv, NEW p \in Proc, CompleteEvent(p)
  PROVE  WInv'
  <1> DEFINE k == key[p]
             u == key[p][1]
             m == key[p][2]
             n == Succ[key[p][2]]
             tasks == [task EXCEPT ![k] = "completed"]
             timers == IF timer[k] = "pending" THEN [timer EXCEPT ![k] = "cancelled"] ELSE timer
  <1>1. /\ pc[p] = "completeEvent" /\ Move(u, n) /\ Leave(p, "idle")
        /\ task' = Activated(u, n, tasks) /\ timer' = Armed(u, n, timers)
        /\ Append1("TASK_COMPLETED", k)
    BY DEF CompleteEvent, End
  <1>2. k \in Key /\ lock[Projection] = p /\ status = "active"
    BY <1>1 DEF WInv, IInv, Holding, Keyed, KeyedStatements
  <1>3. u \in Token /\ m \in Node /\ n \in Node \cup {Done} /\ k = <<u, m>>
    BY <1>2, KeyParts, GraphAssumption
  <1>4. at[u] = m /\ Kind[m] = "human"
    BY <1>1 DEF WInv, Seen, Completing
  <1>5. /\ tasks \in [Key -> RowStatus] /\ tasks[k] = "completed"
        /\ \A x \in Key : x # k => tasks[x] = task[x]
    BY <1>2 DEF WInv, IInv, TypeOK, RowStatus
  <1>6. /\ timers \in [Key -> RowStatus] /\ timers[k] # "pending"
        /\ \A x \in Key : x # k => timers[x] = timer[x]
    BY <1>2 DEF WInv, IInv, TypeOK, RowStatus
  <1> HIDE DEF k, u, m, n, tasks, timers
  <1>7. /\ TaskNodes' /\ Working' /\ status' \in {"active", "completed"}
        /\ status' = "completed" => \A t \in Token : at'[t] = Done
    BY <1>1, <1>2, <1>3, <1>4, <1>5, <1>6, MoveWorks
  <1>8. History'
    BY <1>1, <1>2, <1>7, HistoryGrows
  <1>9. Tables' /\ IInv'
    BY <1>7, <1>8, CompleteEventIInv DEF Tables, WInv
  <1> QED
    BY <1>1, <1>2, <1>9, CommitWInv

\* fire_timer/2 advances the token.
LEMMA FireAdvanceWInv ==
  ASSUME WInv, NEW p \in Proc, FireAdvance(p), pc[p] \in {"fireProjection", "fireTask"},
         lock[Projection] \in {NoOne, p}, status = "active", at[key[p][1]] = key[p][2]
  PROVE  WInv'
  <1> DEFINE k == key[p]
             u == key[p][1]
             m == key[p][2]
             n == IF Kind[key[p][2]] = "timer" THEN Succ[key[p][2]] ELSE EscalatesTo[key[p][2]]
             tasks == IF task[k] = "pending" THEN [task EXCEPT ![k] = "cancelled"] ELSE task
             timers == [timer EXCEPT ![k] = "fired"]
  <1>1. /\ Move(u, n) /\ Leave(p, "idle")
        /\ task' = Activated(u, n, tasks) /\ timer' = Armed(u, n, timers)
        /\ Append1("TIMER_FIRED", k)
    BY DEF FireAdvance, End
  <1>2. k \in Key /\ HasTimer(k[2])
    BY DEF WInv, IInv, TimerNodes, Keyed, KeyedStatements, FireStatements
  <1>3. u \in Token /\ m \in Node /\ k = <<u, m>>
    BY <1>2, KeyParts
  <1>4. n \in Node \cup {Done}
    BY <1>2, <1>3, GraphAssumption DEF HasTimer
  <1>5. /\ tasks \in [Key -> RowStatus] /\ tasks[k] # "pending"
        /\ \A x \in Key : x # k => tasks[x] = task[x]
        /\ tasks[k] # "none" => task[k] # "none"
    BY <1>2 DEF WInv, IInv, TypeOK, RowStatus
  <1>6. /\ timers \in [Key -> RowStatus] /\ timers[k] # "pending"
        /\ \A x \in Key : x # k => timers[x] = timer[x]
    BY <1>2 DEF WInv, IInv, TypeOK, RowStatus
  <1>7. tasks[k] # "none" => Kind[m] = "human"
    BY <1>2, <1>5 DEF WInv, Tables, TaskNodes
  <1>8. at[u] = m
    OBVIOUS
  <1>9. IInv'
    BY FireAdvanceIInv DEF WInv
  <1> HIDE DEF k, u, m, n, tasks, timers
  <1>10. /\ TaskNodes' /\ Working' /\ status' \in {"active", "completed"}
         /\ status' = "completed" => \A t \in Token : at'[t] = Done
    BY <1>1, <1>3, <1>4, <1>5, <1>6, <1>7, <1>8, MoveWorks
  <1>11. History'
    BY <1>1, <1>2, <1>10, HistoryGrows
  <1>12. Tables'
    BY <1>10, <1>11 DEF Tables
  <1> QED
    BY <1>1, <1>9, <1>12, CommitWInv

\* An execution error, and a cancellation, end the active instance.
LEMMA ErrorWInv ==
  ASSUME WInv, NEW p \in Proc, CompleteError(p) \/ ErrorEvent(p) \/ CancelEvent(p)
  PROVE  WInv'
  <1>1. CASE CompleteError(p) \/ ErrorEvent(p)
    <2>1. /\ pc[p] \in {"completeError", "errorEvent"} /\ Leave(p, "idle")
          /\ status' = "error" /\ UNCHANGED <<at, task, timer>>
          /\ \E k \in Key \cup {NoKey} : Append1("EXECUTION_ERROR", k)
      BY <1>1 DEF CompleteError, ErrorEvent, End, WInv, IInv, Keyed, KeyedStatements
    <2>2. status = "active"
      BY <2>1 DEF WInv, IInv, Holding
    <2>3. History'
      BY <2>1, <2>2, HistoryGrows
    <2>4. Tables' /\ IInv'
      BY <1>1, <2>1, <2>3, ErrorIInv DEF Tables, TaskNodes, WInv
    <2> QED
      BY <2>1, <2>4, CommitWInv
  <1>2. CASE CancelEvent(p)
    <2>1. /\ pc[p] = "cancelEvent" /\ Leave(p, "idle") /\ status' = "cancelled"
          /\ task' = [k \in Key |-> IF k \in open[p] THEN "cancelled" ELSE task[k]]
          /\ Append1("INSTANCE_CANCELLED", NoKey)
      BY <1>2 DEF CancelEvent, End
    <2>2. lock[Projection] = p /\ status \in {"active", "error"}
      BY <2>1 DEF WInv, IInv, Holding
    <2>3. History'
      BY <2>1, <2>2, HistoryGrows
    <2>4. TaskNodes'
      BY <2>1 DEF TaskNodes, WInv, Tables, Seen
    <2>5. Tables' /\ IInv'
      BY <1>2, <2>1, <2>3, <2>4, CancelEventIInv DEF Tables, WInv
    <2> QED
      BY <2>1, <2>2, <2>5, CommitWInv
  <1> QED
    BY <1>1, <1>2

\* A stale escalation is recorded: its token is at another node.
LEMMA FireStaleWInv ==
  ASSUME WInv, NEW p \in Proc, FireStale(p), pc[p] = "fireProjection", status = "active",
         at[key[p][1]] # key[p][2]
  PROVE  WInv'
  <1> DEFINE k == key[p]
  <1>1. k \in Key /\ k = <<k[1], k[2]>>
    BY KeyParts DEF WInv, IInv, Keyed, KeyedStatements, FireStatements
  <1>2. /\ timer' = [timer EXCEPT ![k] = "fired"] /\ Leave(p, "idle")
        /\ UNCHANGED <<status, at, task>> /\ Append1("TIMER_FIRED", k)
    BY DEF FireStale, End
  <1>3. IInv'
    BY FireStaleIInv DEF WInv
  <1>4. \A x \in Key : timer'[x] = IF x = k THEN "fired" ELSE timer[x]
    BY <1>1, <1>2 DEF WInv, IInv, TypeOK
  <1>5. \A t \in Token : at[t] \in Node => <<t, at[t]>> \in Key /\ <<t, at[t]>> # k
    BY <1>1 DEF Key
  <1> HIDE DEF k
  <1>6. History'
    BY <1>1, <1>2, HistoryGrows
  <1>7. Working /\ TaskNodes
    BY DEF WInv, Tables
  <1>8. Working' /\ TaskNodes'
    BY <1>2, <1>4, <1>5, <1>7 DEF Working, TaskNodes
  <1>9. Tables'
    BY <1>2, <1>6, <1>8 DEF Tables
  <1> QED
    BY <1>2, <1>3, <1>9, CommitWInv

\* fire_timer/2 with the projection in hand: it has just looked at the position.
LEMMA FireProjectionWInv ==
  ASSUME WInv, NEW p \in Proc, FireProjection(p)
  PROVE  WInv'
  <1>1. pc[p] = "fireProjection" /\ Free(p) /\ lock[Projection] \in {NoOne, p} /\ IInv'
    BY WantsProjection, FireProjectionIInv DEF FireProjection, Free, WInv
  <1>2. CASE Rollback(p) \/ FailFire(p)
    BY <1>1, <1>2, LeaveWInv DEF Rollback, FailFire, End
  <1>3. CASE ~ (Rollback(p) \/ FailFire(p))
    <2>1. /\ status = "active"
          /\ \/ /\ at[key[p][1]] = key[p][2]
                /\ Proceed(p, "fireTask") /\ UNCHANGED <<db, todo, open>>
             \/ at[key[p][1]] = key[p][2] /\ FireAdvance(p)
             \/ at[key[p][1]] # key[p][2] /\ FireStale(p)
      BY <1>3 DEF FireProjection
    <2>2. CASE /\ at[key[p][1]] = key[p][2]
               /\ Proceed(p, "fireTask") /\ UNCHANGED <<db, todo, open>>
      BY <1>1, <2>2, GoOnWInv DEF Proceed, Statement, Completing
    <2> QED
      BY <1>1, <2>1, <2>2, FireAdvanceWInv, FireStaleWInv
  <1> QED
    BY <1>2, <1>3

\* fire_timer/2 commits its advance: the token is where it was seen.
LEMMA FireTaskWInv ==
  ASSUME WInv, NEW p \in Proc, FireTask(p)
  PROVE  WInv'
  <1>1. pc[p] = "fireTask" /\ FireAdvance(p)
    BY DEF FireTask
  <1>2. lock[Projection] = p /\ status = "active" /\ at[key[p][1]] = key[p][2]
    BY <1>1 DEF WInv, IInv, Holding, Seen
  <1> QED
    BY <1>1, <1>2, FireAdvanceWInv

\* A failed attempt may dead-letter its timer, which is then no longer pending.
LEMMA FireFailedWInv ==
  ASSUME WInv, NEW p \in Proc, FireFailed(p)
  PROVE  WInv'
  <1>1. /\ pc[p] = "fireFailed" /\ Leave(p, "idle")
        /\ timer' = timer \/ timer' = [timer EXCEPT ![key[p]] = "failed"]
        /\ UNCHANGED <<status, at, task, log>>
    BY DEF FireFailed, End
  <1>2. key[p] \in Key /\ IInv'
    BY <1>1, FireFailedIInv DEF WInv, IInv, Keyed, KeyedStatements, FireStatements
  <1>3. \A x \in Key : timer'[x] \in {timer[x], "failed"}
    BY <1>1, <1>2 DEF WInv, IInv, TypeOK
  <1>4. Working => Working'
    <2>1. \A t \in Token : at[t] \in Node => <<t, at[t]>> \in Key
      BY DEF Key
    <2> QED
      BY <1>1, <1>3, <2>1 DEF Working
  <1>5. Tables'
    BY <1>1, <1>4 DEF WInv, Tables, TaskNodes, History
  <1> QED
    BY <1>1, <1>2, <1>5, CommitWInv

-----------------------------------------------------------------------------

\* An instance that has just started has a task or a timer for each token.
LEMMA InitWInv == Init => WInv
  <1> SUFFICES ASSUME Init PROVE WInv
    OBVIOUS
  <1>1. IInv
    BY InitIInv
  <1>2. /\ task = [k \in Key |-> IF at[k[1]] = k[2] /\ Kind[k[2]] = "human" THEN "pending" ELSE "none"]
        /\ timer = [k \in Key |-> IF at[k[1]] = k[2] /\ HasTimer(k[2]) THEN "pending" ELSE "none"]
        /\ status = "active" /\ log = <<>>
    BY DEF Init
  <1>3. Working
    <2>1. ASSUME NEW t \in Token, at[t] \in Node, Kind[at[t]] = "timer"
          PROVE  timer[<<t, at[t]>>] = "pending"
      BY <1>2, <2>1 DEF Key, HasTimer
    <2> QED
      BY <1>2, <2>1 DEF Working
  <1>4. TaskNodes /\ History
    BY <1>2 DEF TaskNodes, History
  <1>5. \A p \in Proc : Seen(p)
    BY DEF Init, Seen, Completing
  <1> QED
    BY <1>1, <1>2, <1>3, <1>4, <1>5 DEF WInv, Tables

\* Every step keeps the invariant.
LEMMA StepWInv ==
  ASSUME WInv, [Next]_vars
  PROVE  WInv'
  <1>1. CASE UNCHANGED vars
    <2>1. IInv'
      BY StepIInv DEF WInv
    <2> QED
      BY <1>1, <2>1 DEF vars, db, tx, WInv, Tables, TaskNodes, History, Working, Seen
  <1>2. ASSUME NEW p \in Proc, Step(p) PROVE WInv'
    BY <1>2, CompleteQuietWInv, CancelQuietWInv, FireQuietWInv, CompleteEventWInv, ErrorWInv,
       FireProjectionWInv, FireTaskWInv, FireFailedWInv DEF Step
  <1>3. ASSUME NEW p \in Proc, DeadlockAbort(p) \/ Crash(p) PROVE WInv'
    <2>1. (Leave(p, "idle") \/ Leave(p, "fireFailed")) /\ UNCHANGED db
      BY <1>3 DEF DeadlockAbort, Crash, Rollback, FailFire, End
    <2>2. IInv'
      BY <1>3, StepIInv DEF WInv, Next
    <2> QED
      BY <2>1, <2>2, LeaveWInv
  <1> QED
    BY <1>1, <1>2, <1>3, BeginWInv DEF Next

\* WInv holds in every state of the specification.
THEOREM WorkInvariance == Spec => []WInv
  <1>1. WInv /\ [Next]_vars => WInv'
    BY StepWInv
  <1> QED
    BY <1>1, InitWInv, PTL DEF Spec

\* While an instance is active every token has what will move it on, and nothing else asks
\* for work: the guard of escalate, complete and fire under the projection's lock suffices.
THEOREM WorkTheorem == Spec => []TokensHaveWork
  <1>1. WInv => TokensHaveWork
    BY DEF WInv, Tables, Working, TokensHaveWork
  <1> QED
    BY <1>1, WorkInvariance, PTL

\* The status of an instance is the one its history implies.
THEOREM HistoryTheorem == Spec => []HistoryMatchesStatus
  <1>1. ASSUME WInv PROVE HistoryMatchesStatus
    <2>1. ASSUME status = "completed" PROVE PendingTasks = {} /\ PendingTimers = {}
      <3>1. Working /\ \A t \in Token : at[t] = Done
        BY <1>1, <2>1 DEF WInv, Tables
      <3>2. \A k \in Key : at[k[1]] # k[2]
        BY <3>1, KeyParts, GraphAssumption
      <3> QED
        BY <3>1, <3>2 DEF Working, PendingTasks, PendingTimers
    <2> QED
      BY <1>1, <2>1 DEF WInv, Tables, History, HistoryMatchesStatus
  <1> QED
    BY <1>1, WorkInvariance, PTL

-----------------------------------------------------------------------------
(* The rows a transaction acts on are its own.  complete_task/3 holds the task *)
(* it completes and, from completeEvent on, the timer beside it; fire_timer/2  *)
(* holds its timer, still pending; a cancellation holds the tasks it found.    *)

Owned(p) ==
  /\ pc[p] \in {"completeProjection", "completeTimers", "completeEvent"} => lock[TaskRow(key[p])] = p
  /\ pc[p] = "completeTimers" /\ timer[key[p]] = "pending"
       => lock[TimerRow(key[p])] = p \/ TimerRow(key[p]) \in todo[p]
  /\ pc[p] = "completeEvent" /\ timer[key[p]] = "pending" => lock[TimerRow(key[p])] = p
  /\ Firing(p) => lock[TimerRow(key[p])] = p /\ timer[key[p]] = "pending"
  /\ \A k \in open[p] : lock[TaskRow(k)] = p /\ task[k] # "completed"

OInv == WInv /\ \A p \in Proc : Owned(p)

\* What a step of p may do to the rows that another transaction has locked.
Respects(p) ==
  \A k \in Key :
    /\ lock[TimerRow(k)] \notin {NoOne, p} => (timer[k] = "pending" => timer'[k] = "pending")
    /\ lock[Projection] \notin {NoOne, p} => (timer'[k] = "pending" => timer[k] = "pending")
    /\ lock[TaskRow(k)] \notin {NoOne, p} => (task[k] # "completed" => task'[k] # "completed")

\* What a step of p leaves to the other processes.
Separate(p) ==
  Alone(p) /\ \A q \in Proc : q # p => todo'[q] = todo[q] /\ open'[q] = open[q]

\* Whose row it is decides what a statement may rely on.
LEMMA OwnedKept ==
  ASSUME OInv, NEW p \in Proc, Separate(p), Respects(p), NEW q \in Proc, q # p
  PROVE  Owned(q)'
  <1>1. /\ pc'[q] = pc[q] /\ key'[q] = key[q] /\ todo'[q] = todo[q] /\ open'[q] = open[q]
        /\ \A r \in Row : lock[r] = q => lock'[r] = q
        /\ q \notin {NoOne, p}
    BY GraphAssumption DEF Separate, Alone
  <1>2. Owned(q) /\ Holding(q) /\ Keyed(q) /\ open[q] \subseteq Key
    BY DEF OInv, WInv, IInv, TypeOK
  <1>3. pc[q] \in {"completeProjection", "completeTimers", "completeEvent"} => lock'[TaskRow(key[q])] = q
    BY <1>1, <1>2, Rows DEF Owned, Keyed, KeyedStatements
  <1>4. ASSUME pc[q] = "completeTimers", timer'[key[q]] = "pending"
        PROVE  lock'[TimerRow(key[q])] = q \/ TimerRow(key[q]) \in todo[q]
    <2>1. key[q] \in Key /\ lock[Projection] = q
      BY <1>2, <1>4 DEF Keyed, KeyedStatements, Holding
    <2>2. timer[key[q]] = "pending"
      BY <1>1, <1>4, <2>1 DEF Respects
    <2> QED
      BY <1>1, <1>2, <1>4, <2>1, <2>2, Rows DEF Owned
  <1>5. ASSUME pc[q] = "completeEvent", timer'[key[q]] = "pending"
        PROVE  lock'[TimerRow(key[q])] = q
    <2>1. key[q] \in Key /\ lock[Projection] = q
      BY <1>2, <1>5 DEF Keyed, KeyedStatements, Holding
    <2>2. timer[key[q]] = "pending"
      BY <1>1, <1>5, <2>1 DEF Respects
    <2> QED
      BY <1>1, <1>2, <1>5, <2>1, <2>2, Rows DEF Owned
  <1>6. Firing(q) => lock'[TimerRow(key[q])] = q /\ timer'[key[q]] = "pending"
    BY <1>1, <1>2, Rows DEF Owned, Keyed, KeyedStatements, FireStatements, Firing, Respects
  <1>7. \A k \in open[q] : lock'[TaskRow(k)] = q /\ task'[k] # "completed"
    BY <1>1, <1>2, Rows DEF Owned, Respects
  <1> QED
    BY <1>1, <1>3, <1>4, <1>5, <1>6, <1>7 DEF Owned, Firing

\* A step of p that keeps the tables, or changes only rows that are free or its own.
LEMMA StepOInv ==
  ASSUME OInv, WInv', NEW p \in Proc, Separate(p), UNCHANGED db \/ Respects(p), Owned(p)'
  PROVE  OInv'
  <1>1. Respects(p)
    BY DEF Respects, db
  <1> QED
    BY <1>1, OwnedKept DEF OInv

\* A transaction that begins relies on nothing.
LEMMA BeginOInv ==
  ASSUME OInv, WInv', NEW p \in Proc,
         BeginComplete(p) \/ BeginCancel(p) \/ BeginFire(p) \/ BeginError(p)
  PROVE  OInv'
  <1>1. PICK s \in {"completeTask", "cancelTasks", "fireTimer", "errorProjection"}, k \in Key \cup {NoKey} :
          Begin(p, s, k)
    BY DEF BeginComplete, BeginCancel, BeginFire, BeginError, PendingTimers
  <1>2. pc[p] = "idle" /\ pc'[p] = s /\ UNCHANGED <<db, lock, open>>
    BY <1>1 DEF Begin, OInv, WInv, IInv, TypeOK
  <1>3. Separate(p)
    BY <1>1 DEF BeginComplete, BeginCancel, BeginFire, BeginError, Begin, Separate, Alone,
                OInv, WInv, IInv, TypeOK
  <1>4. Owned(p)'
    BY <1>2 DEF Owned, Firing, OInv, db
  <1> QED
    BY <1>2, <1>3, <1>4, StepOInv

\* COMMIT and ROLLBACK leave nothing to rely on.
LEMMA LeaveOInv ==
  ASSUME OInv, WInv', NEW p \in Proc, NEW s \in {"idle", "fireFailed"}, Leave(p, s),
         UNCHANGED db \/ Respects(p)
  PROVE  OInv'
  <1>1. Alone(p) /\ pc'[p] = s
    BY LeaveTx DEF OInv, WInv, Statement
  <1>2. open'[p] = {} /\ Separate(p)
    BY <1>1 DEF Leave, Separate, OInv, WInv, IInv, TypeOK
  <1>3. Owned(p)'
    BY <1>1, <1>2 DEF Owned, Firing
  <1> QED
    BY <1>2, <1>3, StepOInv

\* A statement that ends with its row locked.
LEMMA ProceedOInv ==
  ASSUME OInv, WInv', NEW p \in Proc, NEW s \in Statement, Free(p), Proceed(p, s),
         UNCHANGED <<db, todo, open>>, s \notin {"completeTimers", "completeEvent"},
         s = "completeProjection" => pc[p] = "completeTask",
         s \in {"fireSequence", "fireProjection", "fireTask"} => Firing(p),
         s = "fireGuard" => pc[p] = "fireTimer" /\ timer[key[p]] = "pending"
  PROVE  OInv'
  <1>1. /\ Alone(p) /\ pc'[p] = s /\ key' = key
        /\ \A r \in Row : r \in Wants(p) \/ lock[r] = p => lock'[r] = p
    BY ProceedTx DEF OInv, WInv, IInv, TypeOK
  <1>2. Separate(p)
    BY <1>1 DEF Separate
  <1>3. Owned(p) /\ Keyed(p) /\ open[p] \subseteq Key
    BY DEF OInv, WInv, IInv, TypeOK
  <1>4. s = "completeProjection" => lock'[TaskRow(key[p])] = p
    BY <1>1, <1>3, Rows DEF Wants, Keyed, KeyedStatements
  <1>5. s \in {"fireGuard", "fireSequence", "fireProjection", "fireTask"}
          => lock'[TimerRow(key[p])] = p /\ timer[key[p]] = "pending"
    BY <1>1, <1>3, Rows DEF Wants, Keyed, KeyedStatements, FireStatements, Owned, Firing
  <1>6. \A k \in open[p] : lock'[TaskRow(k)] = p /\ task[k] # "completed"
    BY <1>1, <1>3, Rows DEF Owned
  <1>7. Owned(p)'
    BY <1>1, <1>4, <1>5, <1>6 DEF Owned, Firing, db
  <1> QED
    BY <1>2, <1>7, StepOInv

\* With the row r a statement of p may find one more open task.
Opens(p, r) ==
  /\ open' \in [Proc -> SUBSET Key] /\ \A q \in Proc : q # p => open'[q] = open[q]
  /\ \A k \in open'[p] : k \in open[p] \/ (r = TaskRow(k) /\ task[k] = "pending")

\* A multi-row statement that takes a row keeps those it has.
LEMMA TakeOInv ==
  ASSUME OInv, WInv', NEW p \in Proc, NEW r \in Row, TakeRow(p, r), UNCHANGED <<db, pc, key>>,
         Opens(p, r)
  PROVE  OInv'
  <1> USE DEF Opens
  <1>1. Alone(p) /\ \A x \in Row : lock[x] = p => lock'[x] = p
    BY TakeRowTx DEF OInv, WInv
  <1>2. lock'[r] = p /\ todo'[p] = todo[p] \ {r} /\ \A q \in Proc : q # p => todo'[q] = todo[q]
    BY DEF TakeRow, OInv, WInv, IInv, TypeOK
  <1>3. Separate(p)
    BY <1>1, <1>2 DEF Separate
  <1>4. Owned(p) /\ Keyed(p) /\ open[p] \subseteq Key
    BY DEF OInv, WInv, IInv, TypeOK
  <1>5. \A k \in open'[p] : lock'[TaskRow(k)] = p /\ task[k] # "completed"
    BY <1>1, <1>2, <1>4, Rows DEF Owned
  <1>6. Owned(p)'
    BY <1>1, <1>2, <1>4, <1>5, Rows DEF Owned, Firing, Keyed, KeyedStatements, FireStatements, db
  <1> QED
    BY <1>3, <1>6, StepOInv

\* A statement with no row left to take goes on to the next.
LEMMA NextStatementOInv ==
  ASSUME OInv, WInv', NEW p \in Proc, NEW s \in {"cancelTimers", "cancelProjection", "completeEvent"},
         pc' = [pc EXCEPT ![p] = s], UNCHANGED <<db, lock, key, open>>,
         \A q \in Proc : q # p => todo'[q] = todo[q],
         s = "completeEvent" => pc[p] = "completeTimers" /\ todo[p] = {}
  PROVE  OInv'
  <1>1. Separate(p) /\ pc'[p] = s
    BY DEF Separate, Alone, OInv, WInv, IInv, TypeOK
  <1>2. Owned(p)'
    BY <1>1 DEF Owned, Firing, OInv, db
  <1> QED
    BY <1>1, <1>2, StepOInv

\* complete_task/3 finds the timer to cancel, if there is one, under the projection's lock.
LEMMA CompleteProjectionOInv ==
  ASSUME OInv, WInv', NEW p \in Proc, CompleteProjection(p)
  PROVE  OInv'
  <1>1. pc[p] = "completeProjection" /\ Free(p)
    BY DEF CompleteProjection
  <1>2. CASE Rollback(p)
    BY <1>2, LeaveOInv DEF Rollback, End
  <1>3. CASE Proceed(p, "completeError") /\ UNCHANGED <<db, todo, open>>
    BY <1>1, <1>3, ProceedOInv DEF Statement
  <1>4. CASE /\ Proceed(p, "completeTimers") /\ UNCHANGED <<db, open>>
             /\ todo' = [todo EXCEPT ![p] = {TimerRow(k) : k \in PendingTimers \cap {key[p]}}]
    <2>1. {TimerRow(k) : k \in PendingTimers \cap {key[p]}} \in SUBSET Row
      BY Rows DEF PendingTimers
    <2>2. todo' \in [Proc -> SUBSET Row]
      BY <1>4, <2>1 DEF OInv, WInv, IInv, TypeOK
    <2>3. /\ Alone(p) /\ pc'[p] = "completeTimers" /\ key' = key
          /\ \A r \in Row : lock[r] = p => lock'[r] = p
      BY <1>1, <1>4, <2>2, ProceedTx DEF Statement, OInv, WInv, IInv, TypeOK
    <2>4. Separate(p)
      BY <1>4, <2>3 DEF Separate, OInv, WInv, IInv, TypeOK
    <2>5. key[p] \in Key /\ Owned(p) /\ open[p] \subseteq Key
      BY <1>1 DEF OInv, WInv, IInv, TypeOK, Keyed, KeyedStatements
    <2>6. timer[key[p]] = "pending" => TimerRow(key[p]) \in todo'[p]
      BY <1>4, <2>5 DEF PendingTimers, OInv, WInv, IInv, TypeOK
    <2>7. Owned(p)'
      BY <1>1, <1>4, <2>3, <2>5, <2>6, Rows DEF Owned, Firing, db
    <2> QED
      BY <1>4, <2>4, <2>7, StepOInv
  <1> QED
    BY <1>2, <1>3, <1>4 DEF CompleteProjection

\* The other statements that write nothing.
LEMMA QuietOInv ==
  ASSUME OInv, WInv', NEW p \in Proc,
         \/ CompleteTask(p) \/ CompleteTimers(p)
         \/ CancelTasks(p) \/ CancelTimers(p) \/ CancelProjection(p)
         \/ FireTimer(p) \/ FireGuard(p) \/ FireSequence(p) \/ ErrorProjection(p)
  PROVE  OInv'
  <1>1. CASE CompleteTask(p) \/ CancelProjection(p) \/ FireTimer(p) \/ ErrorProjection(p)
    BY <1>1, LeaveOInv, ProceedOInv
    DEF CompleteTask, CancelProjection, FireTimer, ErrorProjection, Rollback, End, Statement
  <1>2. CASE FireGuard(p) \/ FireSequence(p)
    <2>1. Free(p) /\ Firing(p)
      BY <1>2 DEF FireGuard, FireSequence, Free, Wants, Firing
    <2> QED
      BY <1>2, <2>1, LeaveOInv, ProceedOInv DEF FireGuard, FireSequence, FailFire, Statement
  <1>3. CASE CompleteTimers(p) \/ CancelTimers(p)
    <2>1. ASSUME NEW r \in todo[p], TakeRow(p, r), UNCHANGED <<db, pc, key, open>> PROVE OInv'
      <3>1. r \in Row /\ Opens(p, r) /\ UNCHANGED <<db, pc, key>>
        BY <2>1 DEF Opens, OInv, WInv, IInv, TypeOK
      <3> QED
        BY <2>1, <3>1, TakeOInv
    <2> QED
      BY <1>3, <2>1, NextStatementOInv DEF CompleteTimers, CancelTimers
  <1>4. CASE CancelTasks(p)
    <2>1. ASSUME NEW k \in Key, TakeRow(p, TaskRow(k)), UNCHANGED <<db, pc, key>>,
                 open' = [open EXCEPT ![p] = @ \cup ({k} \cap PendingTasks)]
          PROVE  OInv'
      <3>1. TaskRow(k) \in Row /\ open' \in [Proc -> SUBSET Key]
        BY <2>1, Rows DEF OInv, WInv, IInv, TypeOK
      <3>2. open'[p] = open[p] \cup ({k} \cap PendingTasks) /\ \A q \in Proc : q # p => open'[q] = open[q]
        BY <2>1 DEF OInv, WInv, IInv, TypeOK
      <3>3. \A x \in open'[p] : x \in open[p] \/ (TaskRow(k) = TaskRow(x) /\ task[x] = "pending")
        BY <3>2 DEF PendingTasks
      <3>4. Opens(p, TaskRow(k))
        BY <3>1, <3>2, <3>3 DEF Opens
      <3> QED
        BY <2>1, <3>1, <3>4, TakeOInv
    <2>2. CASE /\ pc' = [pc EXCEPT ![p] = "cancelTimers"]
               /\ todo' = [todo EXCEPT ![p] = {TimerRow(k) : k \in PendingTimers}]
               /\ UNCHANGED <<db, lock, key, open>>
      <3>1. \A q \in Proc : q # p => todo'[q] = todo[q]
        BY <2>2 DEF OInv, WInv, IInv, TypeOK
      <3> QED
        BY <2>2, <3>1, NextStatementOInv
    <2> QED
      BY <1>4, <2>1, <2>2 DEF CancelTasks
  <1> QED
    BY <1>1, <1>2, <1>3, <1>4

\* The task that a token finds where it arrives.
LEMMA ActivatedAt ==
  ASSUME NEW u \in Token, NEW n \in Node \cup {Done}, NEW tasks \in [Key -> RowStatus], NEW x \in Key
  PROVE  Activated(u, n, tasks)[x]
           = IF x = <<u, n>> /\ n # Done /\ Kind[n] = "human" THEN "pending" ELSE tasks[x]
  BY GraphAssumption DEF Activated, Key

\* The timer that a token finds where it arrives.
LEMMA ArmedAt ==
  ASSUME NEW u \in Token, NEW n \in Node \cup {Done}, NEW timers \in [Key -> RowStatus], NEW x \in Key
  PROVE  Armed(u, n, timers)[x] = IF x = <<u, n>> /\ n # Done /\ HasTimer(n) THEN "pending" ELSE timers[x]
  BY GraphAssumption DEF Armed, Key

\* What the commit of complete_task/3 does to the tables.
LEMMA CompleteEventAt ==
  ASSUME OInv, NEW p \in Proc, CompleteEvent(p)
  PROVE  LET k == key[p]
             n == Succ[key[p][2]]
         IN  /\ Leave(p, "idle") /\ Append1("TASK_COMPLETED", k) /\ Move(k[1], n)
             /\ k \in Key /\ n \in Node \cup {Done} /\ at[k[1]] = k[2]
             /\ status = "active" /\ lock[Projection] = p /\ lock[TaskRow(k)] = p
             /\ timer[k] = "pending" => lock[TimerRow(k)] = p
             /\ \A x \in Key :
                  /\ task'[x] = IF x = <<k[1], n>> /\ n # Done /\ Kind[n] = "human" THEN "pending"
                                ELSE IF x = k THEN "completed" ELSE task[x]
                  /\ timer'[x] = IF x = <<k[1], n>> /\ n # Done /\ HasTimer(n) THEN "pending"
                                 ELSE IF x = k /\ timer[k] = "pending" THEN "cancelled" ELSE timer[x]
  <1> DEFINE k == key[p]
             n == Succ[key[p][2]]
             tasks == [task EXCEPT ![k] = "completed"]
             timers == IF timer[k] = "pending" THEN [timer EXCEPT ![k] = "cancelled"] ELSE timer
  <1>1. /\ pc[p] = "completeEvent" /\ Move(k[1], n) /\ Leave(p, "idle")
        /\ task' = Activated(k[1], n, tasks) /\ timer' = Armed(k[1], n, timers)
        /\ Append1("TASK_COMPLETED", k)
    BY DEF CompleteEvent, End
  <1>2. k \in Key /\ lock[Projection] = p /\ status = "active" /\ at[k[1]] = k[2]
    BY <1>1 DEF OInv, WInv, IInv, Holding, Keyed, KeyedStatements, Seen
  <1>3. lock[TaskRow(k)] = p /\ (timer[k] = "pending" => lock[TimerRow(k)] = p)
    BY <1>1 DEF OInv, Owned
  <1>4. k[1] \in Token /\ n \in Node \cup {Done}
    BY <1>2, KeyParts, GraphAssumption
  <1>5. /\ tasks \in [Key -> RowStatus]
        /\ \A x \in Key : tasks[x] = IF x = k THEN "completed" ELSE task[x]
    BY <1>2 DEF OInv, WInv, IInv, TypeOK, RowStatus
  <1>6. /\ timers \in [Key -> RowStatus]
        /\ \A x \in Key : timers[x] = IF x = k /\ timer[k] = "pending" THEN "cancelled" ELSE timer[x]
    BY <1>2 DEF OInv, WInv, IInv, TypeOK, RowStatus
  <1> HIDE DEF tasks, timers
  <1>7. \A x \in Key : /\ task'[x] = IF x = <<k[1], n>> /\ n # Done /\ Kind[n] = "human" THEN "pending"
                                     ELSE tasks[x]
                       /\ timer'[x] = IF x = <<k[1], n>> /\ n # Done /\ HasTimer(n) THEN "pending"
                                      ELSE timers[x]
    BY <1>1, <1>4, <1>5, <1>6, ActivatedAt, ArmedAt
  <1> QED
    BY <1>1, <1>2, <1>3, <1>4, <1>5, <1>6, <1>7

\* What the commit of fire_timer/2 does to the tables.
LEMMA FireAdvanceAt ==
  ASSUME OInv, NEW p \in Proc, FireAdvance(p), Firing(p)
  PROVE  LET k == key[p]
             n == IF Kind[key[p][2]] = "timer" THEN Succ[key[p][2]] ELSE EscalatesTo[key[p][2]]
         IN  /\ Leave(p, "idle") /\ Append1("TIMER_FIRED", k) /\ Move(k[1], n)
             /\ k \in Key /\ HasTimer(k[2]) /\ n \in Node \cup {Done}
             /\ lock[TimerRow(k)] = p
             /\ \A x \in Key :
                  /\ task'[x] = IF x = <<k[1], n>> /\ n # Done /\ Kind[n] = "human" THEN "pending"
                                ELSE IF x = k /\ task[k] = "pending" THEN "cancelled" ELSE task[x]
                  /\ timer'[x] = IF x = <<k[1], n>> /\ n # Done /\ HasTimer(n) THEN "pending"
                                 ELSE IF x = k THEN "fired" ELSE timer[x]
  <1> DEFINE k == key[p]
             n == IF Kind[key[p][2]] = "timer" THEN Succ[key[p][2]] ELSE EscalatesTo[key[p][2]]
             tasks == IF task[k] = "pending" THEN [task EXCEPT ![k] = "cancelled"] ELSE task
             timers == [timer EXCEPT ![k] = "fired"]
  <1>1. /\ Move(k[1], n) /\ Leave(p, "idle") /\ Append1("TIMER_FIRED", k)
        /\ task' = Activated(k[1], n, tasks) /\ timer' = Armed(k[1], n, timers)
    BY DEF FireAdvance, End
  <1>2. k \in Key /\ HasTimer(k[2]) /\ lock[TimerRow(k)] = p
    BY DEF OInv, WInv, IInv, TimerNodes, Keyed, KeyedStatements, FireStatements, Firing, Owned
  <1>3. k[1] \in Token /\ n \in Node \cup {Done}
    BY <1>2, KeyParts, GraphAssumption DEF HasTimer
  <1>4. /\ tasks \in [Key -> RowStatus]
        /\ \A x \in Key : tasks[x] = IF x = k /\ task[k] = "pending" THEN "cancelled" ELSE task[x]
    BY <1>2 DEF OInv, WInv, IInv, TypeOK, RowStatus
  <1>5. /\ timers \in [Key -> RowStatus]
        /\ \A x \in Key : timers[x] = IF x = k THEN "fired" ELSE timer[x]
    BY <1>2 DEF OInv, WInv, IInv, TypeOK, RowStatus
  <1> HIDE DEF tasks, timers, n
  <1>6. \A x \in Key : /\ task'[x] = IF x = <<k[1], n>> /\ n # Done /\ Kind[n] = "human" THEN "pending"
                                     ELSE tasks[x]
                       /\ timer'[x] = IF x = <<k[1], n>> /\ n # Done /\ HasTimer(n) THEN "pending"
                                      ELSE timers[x]
    BY <1>1, <1>3, <1>4, <1>5, ActivatedAt, ArmedAt
  <1> QED
    BY <1>1, <1>2, <1>3, <1>4, <1>5, <1>6 DEF n

\* fire_timer/2 never finds its token gone: the timer it holds is still pending, and a
\* pending timer is beside its token.
LEMMA NeverStale ==
  ASSUME OInv, NEW p \in Proc, pc[p] = "fireProjection", status = "active"
  PROVE  at[key[p][1]] = key[p][2]
  BY DEF OInv, WInv, IInv, Tables, Working, Owned, Firing, Keyed, KeyedStatements, FireStatements

\* The commits.
LEMMA CommitOInv ==
  ASSUME OInv, WInv', NEW p \in Proc,
         \/ CompleteEvent(p) \/ CompleteError(p) \/ CancelEvent(p) \/ ErrorEvent(p)
         \/ FireProjection(p) \/ FireTask(p) \/ FireFailed(p)
  PROVE  OInv'
  <1>0. \A x \in Key : TaskRow(x) \in Row /\ TimerRow(x) \in Row
    BY Rows
  <1>1. CASE CompleteEvent(p)
    <2>1. Respects(p) /\ Leave(p, "idle")
      BY <1>1, CompleteEventAt DEF Respects
    <2> QED
      BY <2>1, LeaveOInv
  <1>2. CASE CompleteError(p) \/ ErrorEvent(p)
    <2>1. Leave(p, "idle") /\ UNCHANGED <<task, timer>>
      BY <1>2 DEF CompleteError, ErrorEvent, End
    <2> QED
      BY <2>1, LeaveOInv DEF Respects
  <1>3. CASE CancelEvent(p)
    <2>1. /\ Leave(p, "idle")
          /\ task' = [k \in Key |-> IF k \in open[p] THEN "cancelled" ELSE task[k]]
          /\ timer' = [k \in Key |-> IF lock[TimerRow(k)] = p /\ timer[k] = "pending"
                                     THEN "cancelled" ELSE timer[k]]
      BY <1>3 DEF CancelEvent, End
    <2>2. Respects(p)
      BY <2>1 DEF Respects
    <2> QED
      BY <2>1, <2>2, LeaveOInv
  <1>4. ASSUME FireAdvance(p), Firing(p), lock[Projection] \in {NoOne, p} PROVE OInv'
    <2>1. Respects(p) /\ Leave(p, "idle")
      BY <1>4, FireAdvanceAt DEF Respects
    <2> QED
      BY <2>1, LeaveOInv
  <1>5. CASE FireProjection(p)
    <2>1. pc[p] = "fireProjection" /\ Free(p) /\ lock[Projection] \in {NoOne, p} /\ Firing(p)
      BY <1>5, WantsProjection DEF FireProjection, Free, Firing
    <2>2. CASE Rollback(p) \/ FailFire(p)
      BY <2>2, LeaveOInv DEF Rollback, FailFire, End
    <2>3. CASE FireAdvance(p)
      BY <2>1, <2>3, <1>4
    <2>4. CASE Proceed(p, "fireTask") /\ UNCHANGED <<db, todo, open>>
      BY <2>1, <2>4, ProceedOInv DEF Statement
    <2>5. CASE status = "active" /\ at[key[p][1]] # key[p][2]
      BY <2>1, <2>5, NeverStale
    <2> QED
      BY <1>5, <2>2, <2>3, <2>4, <2>5 DEF FireProjection
  <1>6. CASE FireTask(p)
    <2>1. Firing(p) /\ FireAdvance(p) /\ lock[Projection] = p
      BY <1>6 DEF FireTask, Firing, OInv, WInv, IInv, Holding
    <2> QED
      BY <2>1, <1>4
  <1>7. CASE FireFailed(p)
    <2>1. /\ pc[p] = "fireFailed" /\ Free(p) /\ Leave(p, "idle") /\ task' = task
          /\ timer' = timer \/ timer' = [timer EXCEPT ![key[p]] = "failed"]
      BY <1>7 DEF FireFailed, End
    <2>2. key[p] \in Key /\ lock[TimerRow(key[p])] \in {NoOne, p}
      BY <2>1 DEF OInv, WInv, IInv, Keyed, KeyedStatements, FireStatements, Free, Wants
    <2>3. \A x \in Key : timer'[x] = timer[x] \/ (x = key[p] /\ timer'[x] = "failed")
      BY <2>1, <2>2 DEF OInv, WInv, IInv, TypeOK
    <2>4. Respects(p)
      BY <2>1, <2>2, <2>3 DEF Respects
    <2> QED
      BY <2>1, <2>4, LeaveOInv
  <1> QED
    BY <1>1, <1>2, <1>3, <1>5, <1>6, <1>7

\* Every step keeps the invariant.
LEMMA StepOwned ==
  ASSUME OInv, [Next]_vars
  PROVE  OInv'
  <1>1. WInv'
    BY StepWInv DEF OInv
  <1>2. CASE UNCHANGED vars
    BY <1>1, <1>2 DEF vars, db, tx, OInv, Owned, Firing
  <1>3. ASSUME NEW p \in Proc, Step(p) PROVE OInv'
    BY <1>1, <1>3, QuietOInv, CompleteProjectionOInv, CommitOInv DEF Step
  <1>4. ASSUME NEW p \in Proc, DeadlockAbort(p) \/ Crash(p) PROVE OInv'
    <2>1. (Leave(p, "idle") \/ Leave(p, "fireFailed")) /\ UNCHANGED db
      BY <1>4 DEF DeadlockAbort, Crash, Rollback, FailFire, End
    <2> QED
      BY <1>1, <2>1, LeaveOInv
  <1> QED
    BY <1>1, <1>2, <1>3, <1>4, BeginOInv DEF Next

\* A transaction holds what it acts on until it ends.
THEOREM OwnedInvariance == Spec => []OInv
  <1>1. Init => OInv
    BY InitWInv DEF Init, OInv, Owned, Firing
  <1>2. OInv /\ [Next]_vars => OInv'
    BY StepOwned
  <1> QED
    BY <1>1, <1>2, PTL DEF Spec

-----------------------------------------------------------------------------
(* A token leaves a node once.  The rows of a loop are new ones in the code,  *)
(* one for each visit, and one key here: the graph has no loop (Ranked).      *)

LeavingTypes == {"TASK_COMPLETED", "TIMER_FIRED"}

\* The nodes of the graph can be numbered along its edges.
Ranked(rank) ==
  /\ rank \in [Node -> Nat]
  /\ \A n \in Node : Succ[n] \in Node => rank[n] < rank[Succ[n]]
  /\ \A n \in DOMAIN EscalatesTo : EscalatesTo[n] \in Node => rank[n] < rank[EscalatesTo[n]]

\* The token of an event that left a node is beyond that node.
Passed(rank, k) == at[k[1]] \in Node => rank[k[2]] < rank[at[k[1]]]

Ledger(rank) ==
  /\ \A i \in DOMAIN log : log[i].type \in LeavingTypes => log[i].key \in Key /\ Passed(rank, log[i].key)
  /\ \A i, j \in DOMAIN log :
       log[i].type \in LeavingTypes /\ log[j].type \in LeavingTypes /\ log[i].key = log[j].key => i = j
  /\ \A k \in Key : task[k] = "completed" <=> \E i \in DOMAIN log : log[i] = [type |-> "TASK_COMPLETED", key |-> k]

\* The history has one more event.
Recorded(type, k) ==
  \E new : /\ new \notin DOMAIN log /\ DOMAIN log' = DOMAIN log \cup {new}
          /\ log'[new] = [type |-> type, key |-> k]
          /\ log'[new].type = type /\ log'[new].key = k
          /\ \A i \in DOMAIN log : log'[i] = log[i]

\* What an append does.
LEMMA LogGrows ==
  ASSUME OInv, NEW type \in {"TASK_COMPLETED", "TIMER_FIRED", "EXECUTION_ERROR", "INSTANCE_CANCELLED"},
         NEW k \in Key \cup {NoKey}, Append1(type, k)
  PROVE  Recorded(type, k)
  <1>1. log \in Seq(Event) /\ [type |-> type, key |-> k] \in Event
    BY DEF OInv, WInv, IInv, TypeOK, Event
  <1>2. Len(log) + 1 \notin DOMAIN log
    BY <1>1
  <1>3. DOMAIN log' = DOMAIN log \cup {Len(log) + 1} /\ log'[Len(log) + 1] = [type |-> type, key |-> k]
    BY <1>1 DEF Append1
  <1>4. \A i \in DOMAIN log : log'[i] = log[i]
    BY <1>1 DEF Append1
  <1>5. log'[Len(log) + 1].type = type /\ log'[Len(log) + 1].key = k
    BY <1>3
  <1> QED
    BY <1>2, <1>3, <1>4, <1>5 DEF Recorded

\* A step that moves no token to a node, completes no task and records no leaving.
LEMMA LedgerStays ==
  ASSUME OInv, NEW rank, Ledger(rank),
         \/ log' = log
         \/ \E type \in {"EXECUTION_ERROR", "INSTANCE_CANCELLED"}, k \in Key \cup {NoKey} :
              Append1(type, k),
         \A t \in Token : at'[t] = at[t] \/ at'[t] \notin Node,
         \A k \in Key : task'[k] = "completed" <=> task[k] = "completed"
  PROVE  Ledger(rank)'
  <1>1. /\ \A i \in DOMAIN log : i \in DOMAIN log' /\ log'[i] = log[i]
        /\ \A i \in DOMAIN log' : i \in DOMAIN log \/ log'[i].type \notin LeavingTypes
    <2>1. CASE log' = log
      BY <2>1
    <2>2. CASE log' # log
      <3>1. PICK type \in {"EXECUTION_ERROR", "INSTANCE_CANCELLED"}, k \in Key \cup {NoKey} : Append1(type, k)
        BY <2>2
      <3>2. PICK new : /\ DOMAIN log' = DOMAIN log \cup {new} /\ log'[new].type = type
                       /\ \A i \in DOMAIN log : log'[i] = log[i]
        <4>1. Recorded(type, k)
          BY <3>1, LogGrows
        <4> QED
          BY <4>1 DEF Recorded
      <3> QED
        BY <3>2 DEF LeavingTypes
    <2> QED
      BY <2>1, <2>2
  <1>2. \A k \in Key : Passed(rank, k) => Passed(rank, k)'
    BY KeyParts DEF Passed
  <1>3. \A k \in Key : (\E i \in DOMAIN log' : log'[i] = [type |-> "TASK_COMPLETED", key |-> k])
                         <=> \E i \in DOMAIN log : log[i] = [type |-> "TASK_COMPLETED", key |-> k]
    BY <1>1 DEF LeavingTypes
  <1> QED
    BY <1>1, <1>2, <1>3 DEF Ledger

\* A token leaves the node it is at, and its leaving is recorded.
LEMMA LedgerMoves ==
  ASSUME OInv, NEW rank, Ranked(rank), Ledger(rank), NEW k \in Key, at[k[1]] = k[2],
         NEW n \in Node \cup {Done}, n \in Node => rank[k[2]] < rank[n],
         NEW type \in LeavingTypes, Append1(type, k), Move(k[1], n),
         \A x \in Key : task'[x] = "completed"
           <=> (task[x] = "completed" \/ (x = k /\ type = "TASK_COMPLETED"))
               /\ ~ (x = <<k[1], n>> /\ Kind[n] = "human")
  PROVE  Ledger(rank)'
  <1>1. \A x \in Key : x[1] \in Token /\ x[2] \in Node /\ x = <<x[1], x[2]>>
    BY KeyParts
  <1>2. \A x \in Key : rank[x[2]] \in Nat
    BY <1>1 DEF Ranked
  <1>3. n \in Node => rank[n] \in Nat
    BY DEF Ranked
  <1>4. at'[k[1]] = n /\ \A t \in Token : t # k[1] => at'[t] = at[t]
    BY <1>1 DEF Move, OInv, WInv, IInv, TypeOK
  <1>5. PICK new : /\ new \notin DOMAIN log /\ DOMAIN log' = DOMAIN log \cup {new}
                   /\ log'[new] = [type |-> type, key |-> k]
                   /\ log'[new].type = type /\ log'[new].key = k
                   /\ \A i \in DOMAIN log : log'[i] = log[i]
    <2>1. Recorded(type, k)
      BY LogGrows DEF LeavingTypes
    <2> QED
      BY <2>1 DEF Recorded
  <1>6. \A x \in Key : Passed(rank, x) => Passed(rank, x)'
    BY <1>1, <1>2, <1>3, <1>4 DEF Passed
  <1>7. Passed(rank, k)'
    BY <1>4 DEF Passed
  <1>8. ~ Passed(rank, k)
    BY <1>1, <1>2 DEF Passed
  <1>9. \A i \in DOMAIN log : log[i].type \in LeavingTypes => log[i].key # k
    BY <1>8 DEF Ledger
  <1>10. ASSUME NEW x \in Key
         PROVE  task'[x] = "completed" <=> \E i \in DOMAIN log' : log'[i] = [type |-> "TASK_COMPLETED", key |-> x]
    <2>1. (\E i \in DOMAIN log' : log'[i] = [type |-> "TASK_COMPLETED", key |-> x])
            <=> task[x] = "completed" \/ (x = k /\ type = "TASK_COMPLETED")
      <3>1. log'[new] = [type |-> "TASK_COMPLETED", key |-> x] <=> x = k /\ type = "TASK_COMPLETED"
        BY <1>5
      <3> QED
        BY <3>1, <1>5 DEF Ledger
    <2>2. ASSUME x = <<k[1], n>>, Kind[n] = "human" PROVE task[x] # "completed" /\ x # k
      <3>1. n \in Node /\ x[1] = k[1] /\ x[2] = n
        BY <1>1, <2>2
      <3>2. ~ Passed(rank, x)
        BY <1>1, <1>2, <1>3, <3>1 DEF Passed
      <3>3. \A i \in DOMAIN log : log[i] # [type |-> "TASK_COMPLETED", key |-> x]
        BY <3>2 DEF Ledger, LeavingTypes
      <3>4. x # k
        BY <1>2, <3>1
      <3> QED
        BY <3>3, <3>4 DEF Ledger
    <2> QED
      BY <2>1, <2>2
  <1> QED
    BY <1>5, <1>6, <1>7, <1>9, <1>10 DEF Ledger

\* Every step keeps the ledger.
LEMMA StepLedger ==
  ASSUME OInv, NEW rank, Ranked(rank), Ledger(rank), [Next]_vars
  PROVE  Ledger(rank)'
  <1>1. ASSUME UNCHANGED <<at, task, log>> PROVE Ledger(rank)'
    BY <1>1 DEF Ledger, Passed
  <1>2. ASSUME UNCHANGED db PROVE Ledger(rank)'
    BY <1>1, <1>2 DEF db
  <1>3. ASSUME NEW p \in Proc, CompleteEvent(p) PROVE Ledger(rank)'
    <2>1. key[p][2] \in Node
      BY <1>3, CompleteEventAt, KeyParts
    <2>2. Succ[key[p][2]] \in Node => rank[key[p][2]] < rank[Succ[key[p][2]]]
      BY <2>1 DEF Ranked
    <2>3. \A x \in Key : task'[x] = "completed"
            <=> (task[x] = "completed" \/ x = key[p])
                /\ ~ (x = <<key[p][1], Succ[key[p][2]]>> /\ Kind[Succ[key[p][2]]] = "human")
      BY <1>3, CompleteEventAt, KeyParts, GraphAssumption
    <2> QED
      BY <1>3, <2>2, <2>3, CompleteEventAt, LedgerMoves DEF LeavingTypes
  <1>4. ASSUME NEW p \in Proc, FireAdvance(p), Firing(p), at[key[p][1]] = key[p][2] PROVE Ledger(rank)'
    <2> DEFINE n == IF Kind[key[p][2]] = "timer" THEN Succ[key[p][2]] ELSE EscalatesTo[key[p][2]]
    <2>1. key[p][2] \in Node /\ HasTimer(key[p][2]) /\ n \in Node \cup {Done} /\ key[p] \in Key
      BY <1>4, FireAdvanceAt, KeyParts
    <2>2. n \in Node => rank[key[p][2]] < rank[n]
      BY <2>1 DEF Ranked, HasTimer
    <2>3. Append1("TIMER_FIRED", key[p]) /\ Move(key[p][1], n)
      BY <1>4, FireAdvanceAt
    <2>4. \A x \in Key : task'[x] = IF x = <<key[p][1], n>> /\ n # Done /\ Kind[n] = "human" THEN "pending"
                                    ELSE IF x = key[p] /\ task[key[p]] = "pending" THEN "cancelled" ELSE task[x]
      BY <1>4, FireAdvanceAt
    <2> HIDE DEF n
    <2>5. \A x \in Key : task'[x] = "completed"
            <=> task[x] = "completed" /\ ~ (x = <<key[p][1], n>> /\ Kind[n] = "human")
      BY <2>4, KeyParts, GraphAssumption
    <2> QED
      BY <1>4, <2>1, <2>2, <2>3, <2>5, LedgerMoves DEF LeavingTypes
  <1>5. ASSUME NEW p \in Proc, CompleteError(p) \/ ErrorEvent(p) PROVE Ledger(rank)'
    <2>1. UNCHANGED <<at, task>> /\ \E k \in Key \cup {NoKey} : Append1("EXECUTION_ERROR", k)
      BY <1>5 DEF CompleteError, ErrorEvent, OInv, WInv, IInv, Keyed, KeyedStatements
    <2> QED
      BY <2>1, LedgerStays
  <1>6. ASSUME NEW p \in Proc, CancelEvent(p) PROVE Ledger(rank)'
    <2>1. /\ task' = [k \in Key |-> IF k \in open[p] THEN "cancelled" ELSE task[k]]
          /\ at' = [t \in Token |-> IF at[t] = Done THEN Done ELSE Cancelled]
          /\ Append1("INSTANCE_CANCELLED", NoKey)
      BY <1>6 DEF CancelEvent
    <2>2. \A k \in open[p] : task[k] # "completed"
      BY DEF OInv, Owned
    <2>3. \A k \in Key : task'[k] = "completed" <=> task[k] = "completed"
      BY <2>1, <2>2
    <2>4. \A t \in Token : at'[t] = at[t] \/ at'[t] \notin Node
      BY <2>1, GraphAssumption
    <2> QED
      BY <2>1, <2>3, <2>4, LedgerStays
  <1>7. ASSUME NEW p \in Proc, FireProjection(p) PROVE Ledger(rank)'
    <2>1. pc[p] = "fireProjection" /\ Firing(p)
      BY <1>7 DEF FireProjection, Firing
    <2>2. UNCHANGED db \/ (status = "active" /\ (FireAdvance(p) \/ at[key[p][1]] # key[p][2]))
      BY <1>7 DEF FireProjection, Rollback, FailFire
    <2> QED
      BY <1>2, <1>4, <2>1, <2>2, NeverStale
  <1>8. ASSUME NEW p \in Proc, FireTask(p) PROVE Ledger(rank)'
    <2>1. FireAdvance(p) /\ Firing(p) /\ at[key[p][1]] = key[p][2]
      BY <1>8 DEF FireTask, Firing, OInv, WInv, Seen
    <2> QED
      BY <2>1, <1>4
  <1>9. ASSUME NEW p \in Proc, FireFailed(p) PROVE Ledger(rank)'
    BY <1>1, <1>9 DEF FireFailed
  <1>10. ASSUME NEW p \in Proc, Step(p) PROVE Ledger(rank)'
    <2>1. CASE CompleteTask(p) \/ CompleteProjection(p) \/ CompleteTimers(p)
      BY <1>2, <2>1, CompleteQuietIInv DEF OInv, WInv
    <2>2. CASE CancelTasks(p) \/ CancelTimers(p) \/ CancelProjection(p)
      BY <1>2, <2>2, CancelQuietIInv DEF OInv, WInv
    <2>3. CASE FireTimer(p) \/ FireGuard(p) \/ FireSequence(p) \/ ErrorProjection(p)
      BY <1>2, <2>3, FireQuietIInv, ErrorProjectionIInv DEF OInv, WInv
    <2> QED
      BY <1>3, <1>5, <1>6, <1>7, <1>8, <1>9, <1>10, <2>1, <2>2, <2>3 DEF Step
  <1>11. ASSUME NEW p \in Proc, BeginComplete(p) \/ BeginCancel(p) \/ BeginFire(p) \/ BeginError(p)
         PROVE  Ledger(rank)'
    BY <1>2, <1>11, BeginIInv DEF OInv, WInv
  <1>12. ASSUME NEW p \in Proc, DeadlockAbort(p) \/ Crash(p) PROVE Ledger(rank)'
    BY <1>2, <1>12 DEF DeadlockAbort, Crash, Rollback, FailFire
  <1>13. CASE UNCHANGED vars
    BY <1>2, <1>13 DEF vars
  <1> QED
    BY <1>10, <1>11, <1>12, <1>13 DEF Next

\* A history that leaves no node twice has at most one such event for a key.
LEMMA LedgerIsOnce ==
  ASSUME NEW rank, Ledger(rank)
  PROVE  LeavesOnce
  <1>1. ASSUME NEW k \in Key
        PROVE  Cardinality({i \in DOMAIN log : log[i].key = k
                              /\ log[i].type \in {"TASK_COMPLETED", "TIMER_FIRED"}}) <= 1
    <2> DEFINE S == {i \in DOMAIN log : log[i].key = k /\ log[i].type \in {"TASK_COMPLETED", "TIMER_FIRED"}}
    <2>1. \A i, j \in S : i = j
      BY DEF Ledger, LeavingTypes
    <2>2. S = {} \/ \E i : S = {i}
      BY <2>1
    <2> HIDE DEF S
    <2>3. Cardinality(S) = 0 \/ Cardinality(S) = 1
      BY <2>2, FS_EmptySet, FS_Singleton
    <2>4. Cardinality(S) <= 1
      BY <2>3
    <2> QED
      BY <2>4 DEF S
  <1> QED
    BY <1>1 DEF LeavesOnce, Ledger

\* In a graph without loops a token leaves a node once, completed or escalated, whoever
\* completes the task, fires the timer or cancels the instance at the same time, and the
\* task rows say what the history says.
THEOREM LeavesOnceTheorem ==
  ASSUME NEW rank, Ranked(rank)
  PROVE  Spec => []LeavesOnce
  <1>1. Init => Ledger(rank)
    BY DEF Init, Ledger
  <1>2. OInv /\ Ledger(rank) /\ [Next]_vars => Ledger(rank)'
    BY StepLedger
  <1>3. Ledger(rank) => LeavesOnce
    BY LedgerIsOnce
  <1> QED
    BY <1>1, <1>2, <1>3, OwnedInvariance, PTL DEF Spec
=============================================================================
