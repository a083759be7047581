----------------------------- MODULE InstanceTx -----------------------------
(***************************************************************************)
(* The database transactions that work on one running process instance     *)
(* (src/lib/letflow/engine.ex, scheduler.ex, engine/execution_error.ex):   *)
(* complete_task/3, cancel_instance/3, the scheduler's fire_timer/2 and    *)
(* set_instance_error/3, interleaved statement by statement under          *)
(* Postgres's READ COMMITTED isolation.                                    *)
(*                                                                         *)
(* A step of a transaction is one statement that can wait for a row lock.  *)
(* A statement sees what was committed when it ran; one that waited for a  *)
(* row looks at it again when it gets it.  What a transaction writes       *)
(* becomes visible, and its locks are released, at its commit.             *)
(*                                                                         *)
(* Tokens move through a graph of human tasks and timer nodes; a human     *)
(* node may carry an escalation timer.  Gateways, sub-processes, variables *)
(* and reminder timers are left out.                                       *)
(***************************************************************************)
EXTENDS Integers, Sequences, FiniteSets

CONSTANTS Proc,            \* request handlers and scheduler sweep tasks
          Token, Node,
          Start,           \* node of each token when the instance has started
          Kind,            \* "human" or "timer"
          Succ,            \* where a token goes when its node is done
          EscalatesTo,     \* human nodes with an escalation timer -> target
          MaxFireRetries,  \* Scheduler.max_fire_retries/0
          Done, Cancelled, \* where a token that is no longer live is
          NoOne, NoKey

Key == Token \X Node    \* a task, or a timer, of a token at a node

ASSUME GraphAssumption ==
  /\ Start \in [Token -> Node]
  /\ Kind \in [Node -> {"human", "timer"}]
  /\ Succ \in [Node -> Node \cup {Done}]
  /\ DOMAIN EscalatesTo \subseteq {n \in Node : Kind[n] = "human"}
  /\ \A n \in DOMAIN EscalatesTo : EscalatesTo[n] \in Node \cup {Done}
  /\ {Done, Cancelled} \cap Node = {} /\ Done # Cancelled
  /\ NoOne \notin Proc /\ NoKey \notin Key
  /\ MaxFireRetries \in Nat \ {0}

TaskRow(k)  == <<"tasks", k>>
TimerRow(k) == <<"timers", k>>
Projection  == <<"instance_projections">>
Sequence    == <<"instance_sequences">>

Row == {TaskRow(k) : k \in Key} \cup {TimerRow(k) : k \in Key} \cup {Projection, Sequence}

VARIABLES status,      \* instance_projections.status
          at,          \* the node each token is at
          task,        \* status of each task row, "none" before it is inserted
          timer,       \* likewise for timers
          fireErrors,  \* timers.fire_error_count
          log,         \* the instance's events, by sequence number
          lock,        \* the transaction that holds each row
          pc,          \* the statement each process is about to run
          key,         \* the task or timer it works on
          todo,        \* rows its statement has found and not locked yet
          open         \* the tasks a cancellation has found open

db   == <<status, at, task, timer, fireErrors, log>>
tx   == <<lock, pc, key, todo, open>>
vars == <<db, tx>>

HasTimer(n) == Kind[n] = "timer" \/ n \in DOMAIN EscalatesTo

Init ==
  /\ status = "active"
  /\ at = Start
  /\ task = [k \in Key |-> IF at[k[1]] = k[2] /\ Kind[k[2]] = "human" THEN "pending" ELSE "none"]
  /\ timer = [k \in Key |-> IF at[k[1]] = k[2] /\ HasTimer(k[2]) THEN "pending" ELSE "none"]
  /\ fireErrors = [k \in Key |-> 0]
  /\ log = <<>>
  /\ lock = [r \in Row |-> NoOne]
  /\ pc = [p \in Proc |-> "idle"]
  /\ key = [p \in Proc |-> NoKey]
  /\ todo = [p \in Proc |-> {}]
  /\ open = [p \in Proc |-> {}]

-----------------------------------------------------------------------------
(* Transactions and row locks *)

\* The row a process needs next: the one it waits for when another holds it.
Wants(p) ==
  CASE pc[p] \in {"completeTask", "fireTask"} -> {TaskRow(key[p])}
    [] pc[p] \in {"fireTimer", "fireFailed"} -> {TimerRow(key[p])}
    [] pc[p] \in {"completeProjection", "cancelProjection", "fireProjection", "errorProjection"}
         -> {Projection}
    [] pc[p] \in {"completeEvent", "completeError", "cancelEvent", "fireSequence", "errorEvent"}
         -> {Sequence}
    [] pc[p] \in {"completeTimers", "cancelTasks", "cancelTimers"} /\ todo[p] # {}
         -> {CHOOSE r \in todo[p] : TRUE}
    [] OTHER -> {}

Free(p) == \A r \in Wants(p) : lock[r] \in {NoOne, p}

Begin(p, statement, k) ==
  /\ pc[p] = "idle"
  /\ pc' = [pc EXCEPT ![p] = statement]
  /\ key' = [key EXCEPT ![p] = k]
  /\ UNCHANGED <<db, lock, open>>

\* The process goes on to another statement with the rows it wanted locked.
Proceed(p, statement) ==
  /\ pc' = [pc EXCEPT ![p] = statement]
  /\ lock' = [r \in Row |-> IF r \in Wants(p) THEN p ELSE lock[r]]
  /\ UNCHANGED key

\* COMMIT or ROLLBACK.
Leave(p, statement) ==
  /\ pc' = [pc EXCEPT ![p] = statement]
  /\ lock' = [r \in Row |-> IF lock[r] = p THEN NoOne ELSE lock[r]]
  /\ todo' = [todo EXCEPT ![p] = {}]
  /\ open' = [open EXCEPT ![p] = {}]
  /\ key' = IF statement = "idle" THEN [key EXCEPT ![p] = NoKey] ELSE key

End(p) == Leave(p, "idle")

\* A connection that goes back to the pool in the middle of a transaction.
RollbackLater(p) ==
  /\ pc' = [pc EXCEPT ![p] = "idle"]
  /\ key' = [key EXCEPT ![p] = NoKey]
  /\ todo' = [todo EXCEPT ![p] = {}]
  /\ open' = [open EXCEPT ![p] = {}]
  /\ UNCHANGED <<db, lock>>

Rollback(p) == End(p) /\ UNCHANGED db

\* fire_timer/2 ended in an error: attempt_fire/2 goes on to record the failure.
FailFire(p) == Leave(p, "fireFailed") /\ UNCHANGED db

\* A multi-row statement takes the next row it found; if the row is no longer
\* pending by then it is not part of the result.
TakeRow(p, r) ==
  /\ Wants(p) = {r} /\ Free(p)
  /\ lock' = [lock EXCEPT ![r] = p]
  /\ todo' = [todo EXCEPT ![p] = @ \ {r}]

PendingTasks  == {k \in Key : task[k] = "pending"}
PendingTimers == {k \in Key : timer[k] = "pending"}

Append1(type, k) == log' = Append(log, [type |-> type, key |-> k])

\* EventStore's active_instance_guard/2
Accepting == status \in {"active", "error"}

-----------------------------------------------------------------------------
(* Moving a token: what a transition, the task activation and the            *)
(* reconciliation of the projection write.                                   *)

Move(t, n) ==
  /\ at' = [at EXCEPT ![t] = n]
  /\ status' = IF \A u \in Token : at'[u] = Done THEN "completed" ELSE status

\* tasks and timers with the row of a token's new position inserted
Activated(t, n, tasks) ==
  IF n # Done /\ Kind[n] = "human" THEN [tasks EXCEPT ![<<t, n>>] = "pending"] ELSE tasks
Armed(t, n, timers) ==
  IF n # Done /\ HasTimer(n) THEN [timers EXCEPT ![<<t, n>>] = "pending"] ELSE timers

-----------------------------------------------------------------------------
(* complete_task/3 *)

BeginComplete(p) ==
  /\ \E k \in Key : task[k] # "none" /\ Begin(p, "completeTask", k)
  /\ UNCHANGED todo

\* fetch_and_lock_task/3
CompleteTask(p) ==
  /\ pc[p] = "completeTask" /\ Free(p)
  /\ IF task[key[p]] = "pending"
     THEN Proceed(p, "completeProjection") /\ UNCHANGED <<db, todo, open>>
     ELSE Rollback(p)

\* fetch_and_lock_instance_projection/3, the snapshot, the guards, the merge and
\* the transition; any of the last three may turn out an execution error.  Then
\* the statement that finds the timers to cancel.
CompleteProjection(p) ==
  /\ pc[p] = "completeProjection" /\ Free(p)
  /\ IF status = "active" /\ at[key[p][1]] = key[p][2]
     THEN /\ \/ /\ Proceed(p, "completeTimers")
                /\ todo' = [todo EXCEPT ![p] = {TimerRow(k) : k \in PendingTimers \cap {key[p]}}]
             \/ Proceed(p, "completeError") /\ UNCHANGED todo
          /\ UNCHANGED <<db, open>>
     ELSE Rollback(p)

\* cancel_pending_escalation_timers: waits for a timer that is being fired
CompleteTimers(p) ==
  /\ pc[p] = "completeTimers"
  /\ \/ /\ \E r \in todo[p] : TakeRow(p, r)
        /\ UNCHANGED <<db, pc, key, open>>
     \/ /\ todo[p] = {}
        /\ pc' = [pc EXCEPT ![p] = "completeEvent"]
        /\ UNCHANGED <<db, lock, key, todo, open>>

\* A tail that leaves the escalation timer of the task armed.
CompleteEventTimerLeft(p) ==
  /\ pc[p] = "completeEvent" /\ Free(p)
  /\ LET t == key[p][1]
         n == Succ[key[p][2]]
     IN  /\ Move(t, n)
         /\ task' = Activated(t, n, [task EXCEPT ![key[p]] = "completed"])
         /\ timer' = Armed(t, n, timer)
  /\ Append1("TASK_COMPLETED", key[p])
  /\ End(p)
  /\ UNCHANGED fireErrors

\* The rest of the tail: tokens, tasks, timers, the task row, TASK_COMPLETED and
\* the projection.  The sequence row is its last lock.
CompleteEvent(p) ==
  /\ pc[p] = "completeEvent" /\ Free(p)
  /\ LET t == key[p][1]
         n == Succ[key[p][2]]
     IN  /\ Move(t, n)
         /\ task' = Activated(t, n, [task EXCEPT ![key[p]] = "completed"])
         /\ timer' = Armed(t, n, IF timer[key[p]] = "pending"
                                 THEN [timer EXCEPT ![key[p]] = "cancelled"] ELSE timer)
  /\ Append1("TASK_COMPLETED", key[p])
  /\ End(p)
  /\ UNCHANGED fireErrors

\* ExecutionError.append_multi/3: the task stays pending and the token in place.
CompleteError(p) ==
  /\ pc[p] = "completeError" /\ Free(p)
  /\ status' = "error"
  /\ Append1("EXECUTION_ERROR", key[p])
  /\ End(p)
  /\ UNCHANGED <<at, task, timer, fireErrors>>

-----------------------------------------------------------------------------
(* cancel_instance/3 *)

\* fetch_and_lock_open_tasks/3 finds the tasks pending now.
BeginCancel(p) ==
  /\ Begin(p, "cancelTasks", NoKey)
  /\ todo' = [todo EXCEPT ![p] = {TaskRow(k) : k \in PendingTasks}]

\* fetch_and_lock_open_tasks/3 locks them; then cancel_pending_timers/5 finds
\* the timers pending at that moment.
CancelTasks(p) ==
  /\ pc[p] = "cancelTasks"
  /\ \/ /\ \E k \in Key :
             /\ TakeRow(p, TaskRow(k))
             /\ open' = [open EXCEPT ![p] = @ \cup ({k} \cap PendingTasks)]
        /\ UNCHANGED <<db, pc, key>>
     \/ /\ todo[p] = {}
        /\ pc' = [pc EXCEPT ![p] = "cancelTimers"]
        /\ todo' = [todo EXCEPT ![p] = {TimerRow(k) : k \in PendingTimers}]
        /\ UNCHANGED <<db, lock, key, open>>

CancelTimers(p) ==
  /\ pc[p] = "cancelTimers"
  /\ \/ /\ \E r \in todo[p] : TakeRow(p, r)
        /\ UNCHANGED <<db, pc, key, open>>
     \/ /\ todo[p] = {}
        /\ pc' = [pc EXCEPT ![p] = "cancelProjection"]
        /\ UNCHANGED <<db, lock, key, todo, open>>

\* fetch_and_lock_instance_projection_for_cancel/3 without check_cancel_eligibility/1
CancelProjectionAlways(p) ==
  /\ pc[p] = "cancelProjection" /\ Free(p)
  /\ Proceed(p, "cancelEvent") /\ UNCHANGED <<db, todo, open>>

\* fetch_and_lock_instance_projection_for_cancel/3, check_cancel_eligibility/1
CancelProjection(p) ==
  /\ pc[p] = "cancelProjection" /\ Free(p)
  /\ IF status \in {"active", "error"}
     THEN Proceed(p, "cancelEvent") /\ UNCHANGED <<db, todo, open>>
     ELSE Rollback(p)

\* cancel_task_rows/4, the live tokens, INSTANCE_CANCELLED, the projection.  The
\* timers it cancels are those it locked that were still pending.
CancelEvent(p) ==
  /\ pc[p] = "cancelEvent" /\ Free(p)
  /\ status' = "cancelled"
  /\ task' = [k \in Key |-> IF k \in open[p] THEN "cancelled" ELSE task[k]]
  /\ timer' = [k \in Key |-> IF lock[TimerRow(k)] = p /\ timer[k] = "pending"
                             THEN "cancelled" ELSE timer[k]]
  /\ at' = [t \in Token |-> IF at[t] = Done THEN Done ELSE Cancelled]
  /\ Append1("INSTANCE_CANCELLED", NoKey)
  /\ End(p)
  /\ UNCHANGED fireErrors

-----------------------------------------------------------------------------
(* Scheduler: attempt_fire/2 of a timer claim_due/2 returned *)

BeginFire(p) ==
  /\ \E k \in PendingTimers : Begin(p, "fireTimer", k)
  /\ UNCHANGED todo

\* A timer fired because it was pending when the poller claimed it.
FireTimerUnchecked(p) ==
  /\ pc[p] = "fireTimer" /\ Free(p)
  /\ Proceed(p, "fireGuard") /\ UNCHANGED <<db, todo, open>>

\* fetch_and_lock_timer/2: a timer no longer pending is :already_final
FireTimer(p) ==
  /\ pc[p] = "fireTimer" /\ Free(p)
  /\ IF timer[key[p]] = "pending"
     THEN Proceed(p, "fireGuard") /\ UNCHANGED <<db, todo, open>>
     ELSE Rollback(p)

\* append_timer_fired_event/4 begins: active_instance_guard/2 reads the status
\* without a lock; a refusal is an error of fire_timer/2 like any other.
FireGuard(p) ==
  /\ pc[p] = "fireGuard"
  /\ IF Accepting
     THEN Proceed(p, "fireSequence") /\ UNCHANGED <<db, todo, open>>
     ELSE FailFire(p)

\* assign_sequence/4
FireSequence(p) ==
  /\ pc[p] = "fireSequence" /\ Free(p)
  /\ Proceed(p, "fireProjection") /\ UNCHANGED <<db, todo, open>>

\* The token leaves the timer's node; the task it waited in, if any, is cancelled.
FireAdvance(p) ==
  LET t == key[p][1]
      n == IF Kind[key[p][2]] = "timer" THEN Succ[key[p][2]] ELSE EscalatesTo[key[p][2]]
  IN  /\ Move(t, n)
      /\ task' = Activated(t, n, IF task[key[p]] = "pending"
                                 THEN [task EXCEPT ![key[p]] = "cancelled"] ELSE task)
      /\ timer' = Armed(t, n, [timer EXCEPT ![key[p]] = "fired"])
      /\ Append1("TIMER_FIRED", key[p])
      /\ End(p)
      /\ UNCHANGED fireErrors

\* escalation_timer_stale?/2: the timer counts as fired and moves nothing.
FireStale(p) ==
  /\ timer' = [timer EXCEPT ![key[p]] = "fired"]
  /\ Append1("TIMER_FIRED", key[p])
  /\ End(p)
  /\ UNCHANGED <<status, at, task, fireErrors>>

\* update_projection/2 takes the projection row, whatever its status; then
\* fetch_and_lock_instance_projection/3 looks at the status, and an instance that
\* is not active ends the attempt with nothing recorded.  The advance may fail on
\* the graph or the activation; a task to cancel is locked first.
FireProjection(p) ==
  /\ pc[p] = "fireProjection" /\ Free(p)
  /\ LET position == at[key[p][1]]
         node     == key[p][2]
     IN  IF status # "active" THEN Rollback(p)
         ELSE \/ FailFire(p)
              \/ /\ position = node
                 /\ IF task[key[p]] = "pending"
                    THEN Proceed(p, "fireTask") /\ UNCHANGED <<db, todo, open>>
                    ELSE FireAdvance(p)
              \/ position \in Node \ {node} /\ Kind[node] = "human" /\ FireStale(p)

\* persist_escalation_timer_fired_advance/7: :original_task_row and the rest
FireTask(p) ==
  /\ pc[p] = "fireTask" /\ Free(p)
  /\ FireAdvance(p)

\* A count of failures that is never looked at.
NextErrorsUnbounded(n) == n + 1

\* fire_error_count; the count past the limit is never told apart from it.
NextErrors(n) == IF n < MaxFireRetries THEN n + 1 ELSE n

\* record_fire_failure/2, a transaction of its own: whatever the timer's status
\* is by then, the count goes up, and at the limit the timer is dead-lettered.
FireFailed(p) ==
  /\ pc[p] = "fireFailed" /\ Free(p)
  /\ LET errors == NextErrors(fireErrors[key[p]])
     IN  /\ fireErrors' = [fireErrors EXCEPT ![key[p]] = errors]
         /\ timer' = IF errors >= MaxFireRetries
                     THEN [timer EXCEPT ![key[p]] = "failed"] ELSE timer
  /\ End(p)
  /\ UNCHANGED <<status, at, task, log>>

-----------------------------------------------------------------------------
(* set_instance_error/3 *)

BeginError(p) == Begin(p, "errorProjection", NoKey) /\ UNCHANGED todo

ErrorProjectionUnchecked(p) ==
  /\ pc[p] = "errorProjection" /\ Free(p)
  /\ Proceed(p, "errorEvent") /\ UNCHANGED <<db, todo, open>>

\* ExecutionError's lock and eligibility: refused when terminal or in error
ErrorProjection(p) ==
  /\ pc[p] = "errorProjection" /\ Free(p)
  /\ IF status = "active"
     THEN Proceed(p, "errorEvent") /\ UNCHANGED <<db, todo, open>>
     ELSE Rollback(p)

ErrorEvent(p) ==
  /\ pc[p] = "errorEvent" /\ Free(p)
  /\ status' = "error"
  /\ Append1("EXECUTION_ERROR", NoKey)
  /\ End(p)
  /\ UNCHANGED <<at, task, timer, fireErrors>>

-----------------------------------------------------------------------------
(* The database and the processes *)

BlockedBy(p) ==
  IF Free(p) THEN NoOne ELSE lock[CHOOSE r \in Wants(p) : TRUE]

\* The transactions p waits for, one after the other, lead back to p.
InCycle(p) ==
  LET chain[i \in 0..Cardinality(Proc)] ==
        IF i = 0 THEN p
        ELSE IF chain[i - 1] = NoOne THEN NoOne ELSE BlockedBy(chain[i - 1])
  IN  \E i \in 1..Cardinality(Proc) : chain[i] = p

Firing(p) == pc[p] \in {"fireGuard", "fireSequence", "fireProjection", "fireTask"}

\* Postgres aborts one transaction of a cycle.  Only fire_timer/2's error is
\* acted upon; everyone else reports it to the caller.
DeadlockAbort(p) ==
  /\ InCycle(p)
  /\ IF Firing(p) THEN FailFire(p) ELSE Rollback(p)

\* The process or its connection dies (a sweep task killed at its timeout, a
\* node that goes down): its transaction is rolled back.
Crash(p) == pc[p] # "idle" /\ Rollback(p)

Step(p) ==
  \/ CompleteTask(p) \/ CompleteProjection(p) \/ CompleteTimers(p)
  \/ CompleteEvent(p) \/ CompleteError(p)
  \/ CancelTasks(p) \/ CancelTimers(p) \/ CancelProjection(p) \/ CancelEvent(p)
  \/ FireTimer(p) \/ FireGuard(p) \/ FireSequence(p) \/ FireProjection(p)
  \/ FireTask(p) \/ FireFailed(p)
  \/ ErrorProjection(p) \/ ErrorEvent(p)

Next == \E p \in Proc :
  \/ BeginComplete(p) \/ BeginCancel(p) \/ BeginFire(p) \/ BeginError(p)
  \/ Step(p) \/ DeadlockAbort(p) \/ Crash(p)

Spec == Init /\ [][Next]_vars

(***************************************************************************)
(* A process that can run its next statement does; Postgres queues the     *)
(* waiters of a row, so one that can have the row again and again gets it, *)
(* and it resolves every cycle (deadlock_timeout).                         *)
(***************************************************************************)
FairSpec == Spec /\ \A p \in Proc : SF_vars(Step(p)) /\ WF_vars(DeadlockAbort(p))

-----------------------------------------------------------------------------
(* Properties *)

RowStatus == {"none", "pending", "completed", "cancelled", "fired", "failed"}

Statement ==
  {"idle", "completeTask", "completeProjection", "completeTimers", "completeEvent",
   "completeError", "cancelTasks", "cancelTimers", "cancelProjection", "cancelEvent",
   "fireTimer", "fireGuard", "fireSequence", "fireProjection", "fireTask", "fireFailed",
   "errorProjection", "errorEvent"}

Event == [type : {"TASK_COMPLETED", "TIMER_FIRED", "EXECUTION_ERROR", "INSTANCE_CANCELLED"},
          key : Key \cup {NoKey}]

TypeOK ==
  /\ status \in {"active", "completed", "cancelled", "error"}
  /\ at \in [Token -> Node \cup {Done, Cancelled}]
  /\ task \in [Key -> RowStatus] /\ timer \in [Key -> RowStatus]
  /\ fireErrors \in [Key -> 0..MaxFireRetries]
  /\ log \in Seq(Event)
  /\ lock \in [Row -> Proc \cup {NoOne}]
  /\ pc \in [Proc -> Statement]
  /\ key \in [Proc -> Key \cup {NoKey}]
  /\ todo \in [Proc -> SUBSET Row]
  /\ open \in [Proc -> SUBSET Key]

Terminal == {"completed", "cancelled"}

\* A terminal instance stays as it ended, its tokens where they ended and its
\* history closed, whatever was under way when it ended; and an instance in error
\* can only be cancelled.
TerminalIsFinal ==
  [][/\ status \in Terminal => UNCHANGED <<status, at, log>>
     /\ status = "error" => status' \in {"error", "cancelled"}]_vars

\* While an instance is active every token has what will move it on, and nothing
\* else asks for work: a pending task exactly where a token is at a human node; a
\* timer exactly where one is at a timer node, unless it was dead-lettered; an
\* escalation timer only beside the pending task it escalates.
TokensHaveWork ==
  status = "active" =>
    /\ \A k \in Key : task[k] = "pending" <=> at[k[1]] = k[2] /\ Kind[k[2]] = "human"
    /\ \A k \in Key : timer[k] = "pending" => at[k[1]] = k[2]
    /\ \A t \in Token : at[t] \in Node /\ Kind[at[t]] = "timer"
                          => timer[<<t, at[t]>>] \in {"pending", "failed"}

\* A token leaves a node once: it is never both escalated and completed, and no
\* two callers complete the same task; the task rows say what the history says.
LeavesOnce ==
  \A k \in Key :
    /\ Cardinality({i \in DOMAIN log : log[i].key = k
                      /\ log[i].type \in {"TASK_COMPLETED", "TIMER_FIRED"}}) <= 1
    /\ task[k] = "completed" <=> \E i \in DOMAIN log : log[i] = [type |-> "TASK_COMPLETED", key |-> k]

\* The status of an instance is the one its history implies: cancelled exactly
\* when the last event says so, and completed only with every token at its end and
\* no task or timer left to act on it.
HistoryMatchesStatus ==
  /\ \A i \in DOMAIN log : log[i].type = "INSTANCE_CANCELLED" => i = Len(log)
  /\ status = "cancelled" <=> log # <<>> /\ log[Len(log)].type = "INSTANCE_CANCELLED"
  /\ status \in {"error", "cancelled"} \/ \A i \in DOMAIN log : log[i].type # "EXECUTION_ERROR"
  /\ status = "completed" => /\ \A t \in Token : at[t] = Done
                             /\ PendingTasks = {} /\ PendingTimers = {}

\* Every transaction ends: what it waits for is released, or it is aborted.
TransactionsEnd == \A p \in Proc : pc[p] # "idle" ~> pc[p] = "idle"

\* The documented effect of cancel_instance/3: it cancels every pending task.
\* The code does not keep it (README, Disagreements): no run checks it.
NoOrphanTask == status = "cancelled" => PendingTasks = {}

\* The documented purpose of the lock order: no transactions wait for each other.
\* The code does not keep it (README, Disagreements): no run checks it.
NoDeadlock == \A p \in Proc : ~InCycle(p)
=============================================================================
