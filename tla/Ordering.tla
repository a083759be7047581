------------------------------ MODULE Ordering ------------------------------
(***************************************************************************)
(* Letflow.Ordering (src/lib/letflow/ordering/): completions of effects    *)
(* are applied in the order of their numbers, correlation by correlation.  *)
(* The poller of every node runs one claim-and-apply cycle and one sweep   *)
(* of the gaps per tick.  A step is one statement of a transaction; locks  *)
(* are released, and what was written is seen, at the commit.              *)
(***************************************************************************)
EXTENDS Integers, Sequences, FiniteSets

CONSTANTS Consumer, Sweeper,  \* nodes that run the one and the other
          Completion,         \* pairs of a correlation and a sequence_no
          MaxFailures,        \* bound on tasks killed and statements refused
          NoOne, NoRow

ASSUME CompletionAssumption ==
  /\ Completion \subseteq Nat \X Nat  \* correlations stand for strings, in their order
  /\ NoOne \notin Consumer \cup Sweeper /\ Consumer \cap Sweeper = {}
  /\ NoRow \notin Completion
  /\ MaxFailures \in Nat

Correlation == {c[1] : c \in Completion}
RowsOf(corr) == {c \in Completion : c[1] = corr}

VARIABLES status,    \* of each row of effect_completions; "none" before it is inserted
          overdue,   \* the rows older than gap_timeout_seconds
          cursor,    \* correlation_cursors.applied_seq, 0 while there is no row
          events,    \* the effect_applied events, in their order
          dlq,       \* the numbers named by each ordering_gap entry, with its correlation
          rowLock, corrLock, platformLock,  \* row; advisory lock; platform sequence row
          pc, job,   \* the statement of each consumer, and its completion
          position,  \* applied_seq as try_apply read it
          eligible,  \* the correlations a sweeper has still to sweep
          sweeping,  \* the one whose transaction it is in, 0 when in none
          targets,   \* the rows its UPDATE has found and not reached yet
          reached,   \* the rows its UPDATE has set, not committed
          failures   \* tasks killed and statements refused so far

tables   == <<status, overdue, cursor, events, dlq>>
locks    == <<rowLock, corrLock, platformLock>>
consumer == <<pc, job, position>>
sweeper  == <<eligible, sweeping, targets, reached>>
vars     == <<tables, locks, consumer, sweeper, failures>>

NoCorrelation == -1

Init ==
  /\ status = [c \in Completion |-> "none"] /\ overdue = {}
  /\ cursor = [corr \in Correlation |-> 0]
  /\ events = <<>> /\ dlq = <<>>
  /\ rowLock = [c \in Completion |-> NoOne]
  /\ corrLock = [corr \in Correlation |-> NoOne]
  /\ platformLock = NoOne
  /\ pc = [p \in Consumer |-> "idle"]
  /\ job = [p \in Consumer |-> NoRow]
  /\ position = [p \in Consumer |-> 0]
  /\ eligible = [s \in Sweeper |-> {}]
  /\ sweeping = [s \in Sweeper |-> NoCorrelation]
  /\ targets = [s \in Sweeper |-> {}] /\ reached = [s \in Sweeper |-> {}]
  /\ failures = 0

Fail == failures < MaxFailures /\ failures' = failures + 1

PendingRows == {c \in Completion : status[c] = "pending"}

\* insert_completion/2; a conflict changes nothing.
InsertCompletion(c) ==
  /\ status[c] = "none"
  /\ status' = [status EXCEPT ![c] = "pending"]
  /\ UNCHANGED <<overdue, cursor, events, dlq, locks, consumer, sweeper, failures>>

\* created_at falls behind gap_timeout_seconds.
Age(c) ==
  /\ status[c] = "pending" /\ c \notin overdue
  /\ overdue' = overdue \cup {c}
  /\ UNCHANGED <<status, cursor, events, dlq, locks, consumer, sweeper, failures>>

-----------------------------------------------------------------------------
(* Consumer: claim/1, then try_apply/2 in a transaction of its own *)

Go(p, statement) == pc' = [pc EXCEPT ![p] = statement]

\* COMMIT or ROLLBACK of a consumer's transaction.
Release(p) ==
  /\ rowLock' = [c \in Completion |-> IF rowLock[c] = p THEN NoOne ELSE rowLock[c]]
  /\ corrLock' = [corr \in Correlation |-> IF corrLock[corr] = p THEN NoOne ELSE corrLock[corr]]
  /\ platformLock' = IF platformLock = p THEN NoOne ELSE platformLock

Quit(p) ==
  /\ Release(p) /\ Go(p, "idle")
  /\ job' = [job EXCEPT ![p] = NoRow]
  /\ position' = [position EXCEPT ![p] = 0]

Rollback(p) == Quit(p) /\ UNCHANGED <<tables, sweeper>>

\* ORDER BY correlation_id, sequence_no
Before(c, d) == c[1] < d[1] \/ (c[1] = d[1] /\ c[2] <= d[2])

Lowest(c, rows) == c \in rows /\ \A d \in rows : Before(c, d)

Unlocked(rows) == {c \in rows : rowLock[c] = NoOne}

\* claim/1: FOR UPDATE SKIP LOCKED, LIMIT 1
Claim(p) ==
  /\ pc[p] = "idle"
  /\ \E c \in Completion :
       /\ Lowest(c, Unlocked(PendingRows))
       /\ rowLock' = [rowLock EXCEPT ![c] = p]
       /\ job' = [job EXCEPT ![p] = c]
  /\ Go(p, "claimed")
  /\ UNCHANGED <<tables, corrLock, platformLock, position, sweeper>>

\* The transaction of claim/1 ends, and with it the lock on what it claimed.
EndClaim(p) ==
  /\ pc[p] = "claimed"
  /\ Release(p) /\ Go(p, "relock")
  /\ UNCHANGED <<tables, job, position, sweeper>>

\* M1: the row again, if it is still pending and nobody has it
Relock(p) ==
  /\ pc[p] = "relock"
  /\ IF job[p] \in Unlocked(PendingRows)
     THEN /\ rowLock' = [rowLock EXCEPT ![job[p]] = p]
          /\ Go(p, "advisory")
          /\ UNCHANGED <<tables, corrLock, platformLock, job, position, sweeper>>
     ELSE Rollback(p)

\* M2: pg_try_advisory_xact_lock.  Each correlation has a key of its own here.
AdvisoryLock(p) ==
  /\ pc[p] = "advisory"
  /\ LET corr == job[p][1]
     IN  IF corrLock[corr] = NoOne
         THEN /\ corrLock' = [corrLock EXCEPT ![corr] = p]
              /\ Go(p, "cursor")
              /\ UNCHANGED <<tables, rowLock, platformLock, job, position, sweeper>>
         ELSE Rollback(p)

\* M4 without the check of M5.
ReadCursorUnchecked(p) ==
  /\ pc[p] = "cursor"
  /\ position' = [position EXCEPT ![p] = cursor[job[p][1]]]
  /\ Go(p, "event")
  /\ UNCHANGED <<tables, locks, job, sweeper>>

\* M3, M4, M5: only the next number goes on.
ReadCursor(p) ==
  /\ pc[p] = "cursor"
  /\ IF job[p][2] = cursor[job[p][1]] + 1
     THEN /\ position' = [position EXCEPT ![p] = cursor[job[p][1]]]
          /\ Go(p, "event")
          /\ UNCHANGED <<tables, locks, job, sweeper>>
     ELSE Rollback(p)

\* M6: append_platform_event/2 takes the sequence row of the platform instance,
\* which every consumer of the tenant needs, and keeps it to the commit.
AppendEvent(p) ==
  /\ pc[p] = "event" /\ platformLock = NoOne
  /\ platformLock' = p
  /\ Go(p, "apply")
  /\ UNCHANGED <<tables, rowLock, corrLock, job, position, sweeper>>

\* A cursor moved past the completion.
AdvancedTooFar(p) == job[p][2] + 1

\* advance_conditional/3: applied_seq becomes the expected value plus one
Advanced(p) == position[p] + 1

\* M7, M8 and the commit: either update finding no row rolls everything back.
Apply(p) ==
  /\ pc[p] = "apply"
  /\ LET c == job[p]
     IN  IF status[c] = "pending" /\ cursor[c[1]] = position[p]
         THEN /\ status' = [status EXCEPT ![c] = "applied"]
              /\ cursor' = [cursor EXCEPT ![c[1]] = Advanced(p)]
              /\ events' = Append(events, c)
              /\ Quit(p)
              /\ UNCHANGED <<overdue, dlq, sweeper>>
         ELSE Rollback(p)

\* The task of the tick is killed, or the connection or the append fails.
CrashConsumer(p) == pc[p] # "idle" /\ Fail /\ Rollback(p)

-----------------------------------------------------------------------------
(* Sweeper *)

\* An eligibility that leaves a gap of one number alone.
GapWide(corr) ==
  LET rows == PendingRows \cap RowsOf(corr)
  IN  rows \cap overdue # {} /\ \A c \in rows : c[2] > cursor[corr] + 2

\* The HAVING clause: the lowest pending number is not the next one, and the
\* oldest pending row is overdue.
Gap(corr) ==
  LET rows == PendingRows \cap RowsOf(corr)
  IN  rows \cap overdue # {} /\ \A c \in rows : c[2] > cursor[corr] + 1

\* find_eligible_correlations/3, a query of its own
FindEligible(s) ==
  /\ eligible[s] = {} /\ sweeping[s] = NoCorrelation
  /\ \E corr \in Correlation : Gap(corr)
  /\ eligible' = [eligible EXCEPT ![s] = {corr \in Correlation : Gap(corr)}]
  /\ UNCHANGED <<tables, locks, consumer, sweeping, targets, reached>>

\* sweep_correlation/2: the UPDATE finds what is pending now, whatever the query
\* above has seen.
SweepCorrelation(s) ==
  /\ sweeping[s] = NoCorrelation
  /\ \E corr \in eligible[s] :
       /\ sweeping' = [sweeping EXCEPT ![s] = corr]
       /\ eligible' = [eligible EXCEPT ![s] = @ \ {corr}]
       /\ targets' = [targets EXCEPT ![s] = PendingRows \cap RowsOf(corr)]
  /\ UNCHANGED <<tables, locks, consumer, reached>>

\* The UPDATE takes its rows in the order of the partial index, waiting for one
\* that is locked; one that is no longer pending by then is not updated.
SweepRow(s) ==
  /\ \E c \in targets[s] :
       /\ Lowest(c, targets[s]) /\ rowLock[c] = NoOne
       /\ targets' = [targets EXCEPT ![s] = @ \ {c}]
       /\ IF status[c] = "pending"
          THEN /\ reached' = [reached EXCEPT ![s] = @ \cup {c}]
               /\ rowLock' = [rowLock EXCEPT ![c] = s]
          ELSE UNCHANGED <<reached, rowLock>>
  /\ UNCHANGED <<tables, corrLock, platformLock, consumer, eligible, sweeping>>

\* The transaction ends: the sweeper goes on to its next correlation.
EndSweep(s) ==
  /\ rowLock' = [c \in Completion |-> IF rowLock[c] = s THEN NoOne ELSE rowLock[c]]
  /\ sweeping' = [sweeping EXCEPT ![s] = NoCorrelation]
  /\ targets' = [targets EXCEPT ![s] = {}] /\ reached' = [reached EXCEPT ![s] = {}]
  /\ UNCHANGED <<corrLock, platformLock, consumer>>

\* An entry that names every row of the correlation that is not applied.
SweepCommitNamesAll(s) ==
  /\ sweeping[s] # NoCorrelation /\ targets[s] = {}
  /\ status' = [c \in Completion |-> IF c \in reached[s] THEN "dead" ELSE status[c]]
  /\ dlq' = IF reached[s] = {} THEN dlq
            ELSE Append(dlq, {c \in RowsOf(sweeping[s]) : status[c] \in {"pending", "dead"}})
  /\ EndSweep(s)
  /\ UNCHANGED <<overdue, cursor, events, eligible>>

\* Dlq.enqueue/2 of the rows that RETURNING gave, if any, and the commit
SweepCommit(s) ==
  /\ sweeping[s] # NoCorrelation /\ targets[s] = {}
  /\ status' = [c \in Completion |-> IF c \in reached[s] THEN "dead" ELSE status[c]]
  /\ dlq' = IF reached[s] = {} THEN dlq ELSE Append(dlq, reached[s])
  /\ EndSweep(s)
  /\ UNCHANGED <<overdue, cursor, events, eligible>>

\* Dlq.enqueue/2 fails: its transaction is rolled back, the others go on.
SweepFails(s) ==
  /\ sweeping[s] # NoCorrelation /\ targets[s] = {} /\ reached[s] # {}
  /\ Fail /\ EndSweep(s)
  /\ UNCHANGED <<tables, eligible>>

\* The task of the tick is killed.
CrashSweeper(s) ==
  /\ eligible[s] # {} \/ sweeping[s] # NoCorrelation
  /\ eligible' = [eligible EXCEPT ![s] = {}]
  /\ Fail /\ EndSweep(s)
  /\ UNCHANGED tables

-----------------------------------------------------------------------------

ConsumerStep(p) ==
  /\ \/ Claim(p) \/ EndClaim(p) \/ Relock(p) \/ AdvisoryLock(p) \/ ReadCursor(p)
     \/ AppendEvent(p) \/ Apply(p)
  /\ UNCHANGED failures

SweeperStep(s) ==
  /\ FindEligible(s) \/ SweepCorrelation(s) \/ SweepRow(s) \/ SweepCommit(s)
  /\ UNCHANGED failures

Next ==
  \/ \E c \in Completion : InsertCompletion(c) \/ Age(c)
  \/ \E p \in Consumer : ConsumerStep(p)
  \/ \E s \in Sweeper : SweeperStep(s)
  \/ \E p \in Consumer : CrashConsumer(p)
  \/ \E s \in Sweeper : SweepFails(s) \/ CrashSweeper(s)

Spec == Init /\ [][Next]_vars

(***************************************************************************)
(* Time passes, and the sweep runs on some node.  Postgres queues those    *)
(* who wait for a row: a sweep that can have it again and again gets it.   *)
(* That a node consumes for ever is not assumed here but in LastNode.      *)
(***************************************************************************)
FairSpec ==
  /\ Spec
  /\ WF_vars(\E c \in Completion : Age(c))
  /\ \A s \in Sweeper : SF_vars(SweeperStep(s))

-----------------------------------------------------------------------------
(* Properties *)

TypeOK ==
  /\ status \in [Completion -> {"none", "pending", "applied", "dead"}]
  /\ overdue \subseteq Completion
  /\ DOMAIN cursor = Correlation
  /\ \A corr \in Correlation : cursor[corr] \in {0} \cup {c[2] : c \in RowsOf(corr)}
  /\ events \in Seq(Completion)
  /\ dlq \in Seq(SUBSET Completion)
  /\ rowLock \in [Completion -> Consumer \cup Sweeper \cup {NoOne}]
  /\ corrLock \in [Correlation -> Consumer \cup {NoOne}]
  /\ platformLock \in Consumer \cup {NoOne}
  /\ pc \in [Consumer -> {"idle", "claimed", "relock", "advisory", "cursor", "event", "apply"}]
  /\ job \in [Consumer -> Completion \cup {NoRow}]
  /\ position \in [Consumer -> Nat]
  /\ eligible \in [Sweeper -> SUBSET Correlation]
  /\ sweeping \in [Sweeper -> Correlation \cup {NoCorrelation}]
  /\ targets \in [Sweeper -> SUBSET Completion]
  /\ reached \in [Sweeper -> SUBSET Completion]
  /\ failures \in 0..MaxFailures

\* The completions of a correlation that are applied are those up to its cursor,
\* and their events say so once each and in order, whoever else consumes, sweeps
\* or stops in between.
AppliedInOrder ==
  /\ \A corr \in Correlation :
       {c[2] : c \in {d \in RowsOf(corr) : status[d] = "applied"}} = 1..cursor[corr]
  /\ {events[i] : i \in DOMAIN events} = {c \in Completion : status[c] = "applied"}
  /\ \A i, j \in DOMAIN events :
       i < j /\ events[i][1] = events[j][1] => events[i][2] < events[j][2]

\* Every completion that is given up is named by one entry of the dead letter
\* queue, and no entry names one that was or may still be applied.
DeadIsReported ==
  /\ \A c \in Completion : status[c] = "dead" <=> \E i \in DOMAIN dlq : c \in dlq[i]
  /\ \A i, j \in DOMAIN dlq : dlq[i] \cap dlq[j] # {} => i = j

\* Node p goes on ticking for ever, and from some moment on it alone does.
LastNode(p) ==
  /\ WF_vars(ConsumerStep(p))
  /\ <>[](\A q \in Consumer \ {p} : pc[q] = "idle")

\* A completion with number 0 is accepted, never the next one and never above it: as long as it
\* is pending it is what every claim takes before the completions that follow it.
HeldUpByZero(c) == \E d \in PendingRows : d[2] = 0 /\ Before(d, c)

\* No completion waits for ever, whatever gaps there are before it or before the
\* correlations that are claimed first: from any state that several nodes have left
\* behind, one that goes on ticking has it applied or given up, unless a number 0 holds it
\* up.  (Two whose cycles overlap for ever can refuse each other for ever: claim/1 and
\* try_apply/2 skip what is locked and begin again.  A completion arrives once, so what is
\* not pending from some moment on never waits again.)
PendingResolves ==
  \A p \in Consumer : LastNode(p) => <>[](\A c \in PendingRows : HeldUpByZero(c))

\* The same without the exception.
\* The code does not keep it (README, Disagreements): no run checks it.
ZeroResolves == \A p \in Consumer : LastNode(p) => <>[](PendingRows = {})

\* What the documents say of the sweep: a correlation whose lowest pending number
\* is the next one is merely slow and is not swept.
\* The code does not keep it (README, Disagreements): no run checks it.
OnlyGapsAreSwept ==
  [][\A c \in Completion :
       status[c] = "pending" /\ status'[c] = "dead" =>
         \A d \in PendingRows \cap RowsOf(c[1]) : d[2] > cursor[d[1]] + 1]_vars
=============================================================================
