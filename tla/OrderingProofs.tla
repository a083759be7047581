--------------------------- MODULE OrderingProofs ---------------------------
(***************************************************************************)
(* Proofs about Ordering: with any number of nodes, completions and        *)
(* failures, completions are applied in order and once, and those given up *)
(* are reported once.                                                      *)
(***************************************************************************)
EXTENDS Ordering, TLAPS

\* A consumer past its M1 has the row of its completion, which is still pending:
\* until it ends no other transaction can change it.
Applying(p) ==
  /\ pc[p] # "idle" => job[p] \in Completion
  /\ pc[p] \in {"advisory", "cursor", "event", "apply"} =>
       rowLock[job[p]] = p /\ status[job[p]] = "pending"
  /\ pc[p] \in {"event", "apply"} => job[p][2] = position[p] + 1

\* What an UPDATE has reached is locked by it and still pending.
Reaching(s) == \A c \in reached[s] : rowLock[c] = s /\ status[c] = "pending"

\* AppliedInOrder, row by row.
Ordered ==
  /\ \A c \in Completion : status[c] = "applied" <=> 0 < c[2] /\ c[2] <= cursor[c[1]]
  /\ \A corr \in Correlation : \A n \in 1..cursor[corr] : <<corr, n>> \in Completion
  /\ \A i \in DOMAIN events : status[events[i]] = "applied"
  /\ \A c \in Completion : status[c] = "applied" => \E i \in DOMAIN events : events[i] = c
  /\ \A i, j \in DOMAIN events :
       i < j /\ events[i][1] = events[j][1] => events[i][2] < events[j][2]

IInv ==
  /\ TypeOK
  /\ \A p \in Consumer : Applying(p)
  /\ \A s \in Sweeper : Reaching(s)
  /\ Ordered
  /\ DeadIsReported

-----------------------------------------------------------------------------

\* A completion is a pair of a correlation and a number.
LEMMA Pairs ==
  ASSUME NEW c \in Completion
  PROVE  /\ c[1] \in Nat /\ c[2] \in Nat /\ c = <<c[1], c[2]>>
         /\ c[1] \in Correlation /\ c \in RowsOf(c[1])
  <1>1. c \in Nat \X Nat
    BY CompletionAssumption
  <1>2. c[1] \in Correlation /\ c \in RowsOf(c[1])
    BY DEF Correlation, RowsOf
  <1> QED
    BY <1>1, <1>2, SMT

\* The rows of a correlation have it as their first part.
LEMMA Rows ==
  ASSUME NEW corr, NEW c \in RowsOf(corr)
  PROVE  c \in Completion /\ c[1] = corr
  BY DEF RowsOf

\* A cursor is a number.
LEMMA CursorNat ==
  ASSUME TypeOK, NEW corr \in Correlation
  PROVE  cursor[corr] \in Nat
  <1>1. cursor[corr] \in {0} \cup {c[2] : c \in RowsOf(corr)}
    BY DEF TypeOK
  <1> QED
    BY <1>1, Pairs, Rows, SMT

\* Nothing has been inserted.
LEMMA InitIInv == Init => IInv
  <1> SUFFICES ASSUME Init PROVE IInv
    OBVIOUS
  <1> USE CompletionAssumption DEF Init
  <1>1. TypeOK
    <2>1. events \in Seq(Completion) /\ dlq \in Seq(SUBSET Completion)
      BY SMT
    <2>2. \A corr \in Correlation : cursor[corr] \in {0} \cup {c[2] : c \in RowsOf(corr)}
      BY SMT
    <2> QED
      BY <2>1, <2>2 DEF TypeOK
  <1>2. \A p \in Consumer : Applying(p)
    BY DEF Applying
  <1>3. \A s \in Sweeper : Reaching(s)
    BY DEF Reaching
  <1>4. Ordered
    <2>1. \A c \in Completion : ~(0 < c[2] /\ c[2] <= cursor[c[1]])
      BY Pairs, SMT
    <2>2. \A corr \in Correlation : cursor[corr] = 0
      OBVIOUS
    <2>3. DOMAIN events = {}
      BY SMT
    <2> QED
      BY <2>1, <2>2, <2>3, SMT DEF Ordered
  <1>5. DeadIsReported
    <2>1. DOMAIN dlq = {}
      BY SMT
    <2> QED
      BY <2>1 DEF DeadIsReported
  <1> QED
    BY <1>1, <1>2, <1>3, <1>4, <1>5 DEF IInv

-----------------------------------------------------------------------------
(* What steps leave alone *)

\* Ordered looks at the rows that are applied only.
LEMMA OrderedKept ==
  ASSUME TypeOK, Ordered, UNCHANGED <<cursor, events>>,
         \A c \in Completion : status'[c] = "applied" <=> status[c] = "applied"
  PROVE  Ordered'
  <1>1. \A i \in DOMAIN events : events[i] \in Completion
    BY SMT DEF TypeOK
  <1> QED
    BY <1>1, SMT DEF Ordered

\* DeadIsReported looks at the rows that are dead only.
LEMMA ReportedKept ==
  ASSUME DeadIsReported, UNCHANGED dlq,
         \A c \in Completion : status'[c] = "dead" <=> status[c] = "dead"
  PROVE  DeadIsReported'
  BY DEF DeadIsReported

\* A statement of a consumer that takes or gives back locks of its own only, and
\* writes nothing that is seen.
LEMMA ConsumerStatement ==
  ASSUME IInv, NEW p \in Consumer, TypeOK', Applying(p)', UNCHANGED <<tables, sweeper>>,
         \A q \in Consumer \ {p} :
           pc'[q] = pc[q] /\ job'[q] = job[q] /\ position'[q] = position[q],
         \A c \in Completion : rowLock[c] \in {p, NoOne} \/ rowLock'[c] = rowLock[c]
  PROVE  IInv'
  <1>1. \A q \in Consumer : Applying(q)'
    <2> SUFFICES ASSUME NEW q \in Consumer \ {p} PROVE Applying(q)'
      OBVIOUS
    <2>1. Applying(q) /\ q # NoOne
      BY CompletionAssumption DEF IInv
    <2> QED
      BY <2>1 DEF Applying, tables
  <1>2. \A s \in Sweeper : Reaching(s)'
    <2> SUFFICES ASSUME NEW s \in Sweeper, NEW c \in reached[s]
                 PROVE  rowLock'[c] = s /\ status'[c] = "pending"
      BY DEF Reaching, sweeper
    <2>1. rowLock[c] = s /\ status[c] = "pending"
      BY DEF IInv, Reaching
    <2>2. c \in Completion /\ s # NoOne /\ s # p
      BY CompletionAssumption DEF IInv, TypeOK
    <2> QED
      BY <2>1, <2>2 DEF tables
  <1>3. Ordered' /\ DeadIsReported'
    BY OrderedKept, ReportedKept DEF IInv, tables
  <1> QED
    BY <1>1, <1>2, <1>3 DEF IInv

\* The same of a sweeper.
LEMMA SweeperStatement ==
  ASSUME IInv, NEW s \in Sweeper, TypeOK', Reaching(s)', UNCHANGED <<tables, consumer>>,
         \A r \in Sweeper \ {s} : reached'[r] = reached[r],
         \A c \in Completion : rowLock[c] \in {s, NoOne} \/ rowLock'[c] = rowLock[c]
  PROVE  IInv'
  <1>1. \A q \in Consumer : Applying(q)'
    <2> SUFFICES ASSUME NEW q \in Consumer PROVE Applying(q)'
      OBVIOUS
    <2>1. Applying(q) /\ q # NoOne /\ q # s
      BY CompletionAssumption DEF IInv
    <2> QED
      BY <2>1 DEF Applying, tables, consumer
  <1>2. \A r \in Sweeper : Reaching(r)'
    <2> SUFFICES ASSUME NEW r \in Sweeper \ {s}, NEW c \in reached[r]
                 PROVE  rowLock'[c] = r /\ status'[c] = "pending"
      BY DEF Reaching
    <2>1. rowLock[c] = r /\ status[c] = "pending"
      BY DEF IInv, Reaching
    <2>2. c \in Completion /\ r # NoOne
      BY CompletionAssumption DEF IInv, TypeOK
    <2> QED
      BY <2>1, <2>2 DEF tables
  <1>3. Ordered' /\ DeadIsReported'
    BY OrderedKept, ReportedKept DEF IInv, tables
  <1> QED
    BY <1>1, <1>2, <1>3 DEF IInv

-----------------------------------------------------------------------------
(* Consumers *)

\* COMMIT and ROLLBACK keep types, and touch no lock of others.
LEMMA ReleaseTypes ==
  ASSUME TypeOK, NEW p \in Consumer, Release(p)
  PROVE  /\ rowLock' \in [Completion -> Consumer \cup Sweeper \cup {NoOne}]
         /\ corrLock' \in [Correlation -> Consumer \cup {NoOne}]
         /\ platformLock' \in Consumer \cup {NoOne}
         /\ \A c \in Completion : rowLock[c] \in {p, NoOne} \/ rowLock'[c] = rowLock[c]
  BY SMT DEF TypeOK, Release

\* The end of a transaction, whatever it has written.
LEMMA QuitTypes ==
  ASSUME TypeOK, NEW p \in Consumer, Quit(p)
  PROVE  /\ pc' \in [Consumer -> {"idle", "claimed", "relock", "advisory", "cursor", "event", "apply"}]
         /\ job' \in [Consumer -> Completion \cup {NoRow}]
         /\ position' \in [Consumer -> Nat]
         /\ pc'[p] = "idle"
         /\ \A q \in Consumer \ {p} :
              pc'[q] = pc[q] /\ job'[q] = job[q] /\ position'[q] = position[q]
  BY SMT DEF TypeOK, Quit, Go

\* A rollback leaves nothing behind.
LEMMA RollbackIInv ==
  ASSUME IInv, NEW p \in Consumer, Rollback(p), failures' \in 0..MaxFailures
  PROVE  IInv'
  <1>1. TypeOK /\ Quit(p) /\ Release(p) /\ UNCHANGED <<tables, sweeper>>
    BY DEF IInv, Rollback, Quit
  <1>2. TypeOK'
    BY <1>1, ReleaseTypes, QuitTypes DEF TypeOK, tables, sweeper
  <1>3. Applying(p)'
    BY <1>1, QuitTypes DEF Applying
  <1> QED
    BY <1>1, <1>2, <1>3, ReleaseTypes, QuitTypes, ConsumerStatement

\* Every statement of a consumer but the commit of an application.
LEMMA ConsumerIInv ==
  ASSUME IInv, NEW p \in Consumer, UNCHANGED failures,
         \/ Claim(p) \/ EndClaim(p) \/ Relock(p) \/ AdvisoryLock(p) \/ ReadCursor(p)
         \/ AppendEvent(p)
  PROVE  IInv'
  <1> USE DEF Go
  <1>0. TypeOK /\ Applying(p)
    BY DEF IInv
  <1>1. CASE Claim(p)
    <2>1. PICK c \in Completion :
            /\ c \in Unlocked(PendingRows)
            /\ rowLock' = [rowLock EXCEPT ![c] = p] /\ job' = [job EXCEPT ![p] = c]
      BY <1>1 DEF Claim, Lowest
    <2>2. rowLock[c] = NoOne
      BY <2>1 DEF Unlocked
    <2>3. TypeOK'
      BY <1>0, <1>1, <2>1 DEF TypeOK, Claim, tables, sweeper
    <2>4. Applying(p)'
      BY <1>0, <1>1, <2>1 DEF TypeOK, Applying, Claim
    <2> QED
      BY <1>0, <1>1, <2>1, <2>2, <2>3, <2>4, ConsumerStatement DEF TypeOK, Claim
  <1>2. CASE EndClaim(p)
    <2>1. TypeOK'
      BY <1>0, <1>2, ReleaseTypes DEF TypeOK, EndClaim, tables, sweeper
    <2>2. Applying(p)'
      BY <1>0, <1>2 DEF TypeOK, Applying, EndClaim
    <2> QED
      BY <1>0, <1>2, <2>1, <2>2, ReleaseTypes, ConsumerStatement DEF TypeOK, EndClaim
  <1>3. ASSUME Rollback(p) PROVE IInv'
    BY <1>0, <1>3, RollbackIInv DEF TypeOK
  <1>4. CASE Relock(p) /\ ~Rollback(p)
    <2>1. /\ job[p] \in Completion /\ rowLock[job[p]] = NoOne /\ status[job[p]] = "pending"
          /\ rowLock' = [rowLock EXCEPT ![job[p]] = p] /\ pc' = [pc EXCEPT ![p] = "advisory"]
          /\ UNCHANGED <<tables, corrLock, platformLock, job, position, sweeper>>
      BY <1>0, <1>4 DEF Relock, Unlocked, PendingRows, Applying
    <2>2. TypeOK'
      BY <1>0, <2>1 DEF TypeOK, tables, sweeper
    <2>3. Applying(p)'
      BY <1>0, <2>1 DEF TypeOK, Applying, tables
    <2> QED
      BY <1>0, <2>1, <2>2, <2>3, ConsumerStatement DEF TypeOK
  <1>5. CASE AdvisoryLock(p) /\ ~Rollback(p)
    <2>1. /\ job[p] \in Completion
          /\ corrLock' = [corrLock EXCEPT ![job[p][1]] = p] /\ pc' = [pc EXCEPT ![p] = "cursor"]
          /\ pc[p] = "advisory"
          /\ UNCHANGED <<tables, rowLock, platformLock, job, position, sweeper>>
      BY <1>0, <1>5 DEF AdvisoryLock, Applying
    <2>2. TypeOK'
      BY <1>0, <2>1 DEF TypeOK, tables, sweeper
    <2>3. Applying(p)'
      BY <1>0, <2>1 DEF TypeOK, Applying, tables
    <2> QED
      BY <1>0, <2>1, <2>2, <2>3, ConsumerStatement DEF TypeOK
  <1>6. CASE ReadCursor(p) /\ ~Rollback(p)
    <2>1. /\ job[p] \in Completion /\ pc[p] = "cursor"
          /\ job[p][2] = cursor[job[p][1]] + 1
          /\ position' = [position EXCEPT ![p] = cursor[job[p][1]]]
          /\ pc' = [pc EXCEPT ![p] = "event"]
          /\ UNCHANGED <<tables, locks, job, sweeper>>
      BY <1>0, <1>6 DEF ReadCursor, Applying
    <2>2. cursor[job[p][1]] \in Nat
      BY <1>0, <2>1, CursorNat, Pairs
    <2>3. TypeOK'
      BY <1>0, <2>1, <2>2 DEF TypeOK, tables, locks, sweeper
    <2>4. Applying(p)'
      BY <1>0, <2>1 DEF TypeOK, Applying, tables, locks
    <2> QED
      BY <1>0, <2>1, <2>3, <2>4, ConsumerStatement DEF TypeOK, locks
  <1>7. CASE AppendEvent(p)
    <2>1. TypeOK'
      BY <1>0, <1>7 DEF TypeOK, AppendEvent, tables, sweeper
    <2>2. Applying(p)'
      BY <1>0, <1>7 DEF TypeOK, Applying, AppendEvent, tables
    <2> QED
      BY <1>0, <1>7, <2>1, <2>2, ConsumerStatement DEF TypeOK, AppendEvent
  <1> QED
    BY <1>1, <1>2, <1>3, <1>4, <1>5, <1>6, <1>7

\* The commit of an application: the row is the next one and is still p's.
LEMMA ApplyIInv ==
  ASSUME IInv, NEW p \in Consumer, UNCHANGED failures, Apply(p)
  PROVE  IInv'
  <1> DEFINE c == job[p]
  <1>0. TypeOK /\ Applying(p) /\ pc[p] = "apply"
    BY DEF IInv, Apply
  <1>1. CASE Rollback(p)
    BY <1>0, <1>1, RollbackIInv DEF TypeOK
  <1>2. CASE ~Rollback(p)
    <2>1. /\ status[c] = "pending" /\ cursor[c[1]] = position[p]
          /\ status' = [status EXCEPT ![c] = "applied"]
          /\ cursor' = [cursor EXCEPT ![c[1]] = position[p] + 1]
          /\ events' = Append(events, c)
          /\ Quit(p) /\ Release(p)
          /\ UNCHANGED <<overdue, dlq, sweeper>>
      BY <1>2 DEF Apply, Advanced, Quit
    <2>2. c \in Completion /\ rowLock[c] = p /\ c[2] = position[p] + 1
      BY <1>0 DEF Applying
    <2>3. c[1] \in Correlation /\ c \in RowsOf(c[1]) /\ c = <<c[1], c[2]>>
      BY <2>2, Pairs
    <2>4. position[p] \in Nat
      BY <1>0 DEF TypeOK
    <2>5. DOMAIN cursor = Correlation
      BY <1>0 DEF TypeOK
    <2>6. TypeOK'
      <3>1. \A corr \in Correlation : cursor'[corr] \in {0} \cup {d[2] : d \in RowsOf(corr)}
        <4> SUFFICES ASSUME NEW corr \in Correlation
                     PROVE  cursor'[corr] \in {0} \cup {d[2] : d \in RowsOf(corr)}
          OBVIOUS
        <4>1. CASE corr = c[1]
          BY <2>1, <2>2, <2>3, <2>5, <4>1
        <4>2. CASE corr # c[1]
          BY <1>0, <2>1, <2>5, <4>2 DEF TypeOK
        <4> QED
          BY <4>1, <4>2
      <3>2. events' \in Seq(Completion)
        BY <1>0, <2>1, <2>2, SMT DEF TypeOK
      <3>3. status' \in [Completion -> {"none", "pending", "applied", "dead"}]
            /\ DOMAIN cursor' = Correlation
        BY <1>0, <2>1, <2>5 DEF TypeOK
      <3> QED
        BY <1>0, <2>1, <3>1, <3>2, <3>3, ReleaseTypes, QuitTypes DEF TypeOK, sweeper
    <2>7. \A q \in Consumer : Applying(q)'
      <3> SUFFICES ASSUME NEW q \in Consumer PROVE Applying(q)'
        OBVIOUS
      <3>1. CASE q = p
        BY <1>0, <2>1, <3>1, QuitTypes DEF Applying
      <3>2. CASE q # p
        <4>1. pc'[q] = pc[q] /\ job'[q] = job[q] /\ position'[q] = position[q]
          BY <1>0, <2>1, <3>2, QuitTypes
        <4>2. Applying(q) /\ q # NoOne
          BY CompletionAssumption DEF IInv
        <4>3. ASSUME NEW d \in Completion, rowLock[d] = q
              PROVE  rowLock'[d] = q /\ status'[d] = status[d]
          BY <1>0, <2>1, <2>2, <3>2, <4>2, <4>3, ReleaseTypes DEF TypeOK
        <4> QED
          BY <4>1, <4>2, <4>3 DEF Applying
      <3> QED
        BY <3>1, <3>2
    <2>8. \A s \in Sweeper : Reaching(s)'
      <3> SUFFICES ASSUME NEW s \in Sweeper, NEW d \in reached[s]
                   PROVE  rowLock'[d] = s /\ status'[d] = "pending"
        BY <2>1 DEF Reaching, sweeper
      <3>1. rowLock[d] = s /\ status[d] = "pending"
        BY DEF IInv, Reaching
      <3>2. d \in Completion /\ s # NoOne /\ s # p
        BY <1>0, CompletionAssumption DEF TypeOK
      <3> QED
        BY <1>0, <2>1, <2>2, <3>1, <3>2, ReleaseTypes DEF TypeOK
    <2>9. Ordered'
      <3>0. Ordered
        BY DEF IInv
      <3>1. \A d \in Completion : status'[d] = "applied" <=> 0 < d[2] /\ d[2] <= cursor'[d[1]]
        <4> SUFFICES ASSUME NEW d \in Completion
                     PROVE  status'[d] = "applied" <=> 0 < d[2] /\ d[2] <= cursor'[d[1]]
          OBVIOUS
        <4>1. d[1] \in Correlation /\ d[2] \in Nat /\ d = <<d[1], d[2]>>
          BY Pairs
        <4>2. status[d] = "applied" <=> 0 < d[2] /\ d[2] <= cursor[d[1]]
          BY <3>0 DEF Ordered
        <4>3. CASE d[1] # c[1]
          <5>1. cursor'[d[1]] = cursor[d[1]] /\ status'[d] = status[d]
            BY <1>0, <2>1, <2>2, <2>5, <4>1, <4>3 DEF TypeOK
          <5> QED
            BY <4>2, <5>1
        <4>4. CASE d[1] = c[1] /\ d[2] = c[2]
          <5>1. d = c
            BY <2>3, <4>1, <4>4
          <5>2. status'[c] = "applied" /\ cursor'[c[1]] = c[2] /\ c[2] \in Nat /\ 0 < c[2]
            BY <1>0, <2>1, <2>2, <2>3, <2>4, <2>5 DEF TypeOK
          <5> QED
            BY <5>1, <5>2
        <4>5. CASE d[1] = c[1] /\ d[2] # c[2]
          <5>1. status'[d] = status[d] /\ cursor'[d[1]] = c[2]
            BY <1>0, <2>1, <2>2, <2>3, <2>5, <4>5 DEF TypeOK
          <5>2. cursor[d[1]] = position[p]
            BY <2>1, <4>5
          <5> QED
            BY <2>2, <2>4, <4>1, <4>2, <4>5, <5>1, <5>2, SMT
        <4> QED
          BY <4>3, <4>4, <4>5
      <3>2. \A corr \in Correlation : \A n \in 1..cursor'[corr] : <<corr, n>> \in Completion
        <4> SUFFICES ASSUME NEW corr \in Correlation, NEW n \in 1..cursor'[corr]
                     PROVE  <<corr, n>> \in Completion
          OBVIOUS
        <4>1. CASE corr # c[1]
          BY <2>1, <2>5, <3>0, <4>1 DEF Ordered
        <4>2. CASE corr = c[1]
          <5>1. cursor'[corr] = cursor[corr] + 1 /\ cursor[corr] \in Nat /\ c = <<corr, cursor[corr] + 1>>
            BY <2>1, <2>2, <2>3, <2>4, <2>5, <4>2
          <5>2. n \in 1..cursor[corr] \/ n = cursor[corr] + 1
            BY <5>1, SMT
          <5> QED
            BY <2>2, <3>0, <5>1, <5>2 DEF Ordered
        <4> QED
          BY <4>1, <4>2
      <3>3. /\ Len(events') = Len(events) + 1 /\ Len(events) \in Nat
            /\ events'[Len(events) + 1] = c
            /\ \A i \in DOMAIN events : events'[i] = events[i] /\ i \in DOMAIN events'
            /\ DOMAIN events = 1..Len(events) /\ DOMAIN events' = 1..(Len(events) + 1)
        BY <1>0, <2>1, <2>2, SMT DEF TypeOK
      <3>4. \A i \in DOMAIN events : events[i] \in Completion /\ status[events[i]] = "applied"
        BY <1>0, <3>0, SMT DEF TypeOK, Ordered
      <3>5. \A d \in Completion \ {c} : status'[d] = status[d]
        BY <1>0, <2>1 DEF TypeOK
      <3>6. status'[c] = "applied"
        BY <1>0, <2>1, <2>2 DEF TypeOK
      <3>7. \A i \in DOMAIN events' : status'[events'[i]] = "applied"
        <4>1. \A i \in DOMAIN events' : i \in DOMAIN events \/ i = Len(events) + 1
          BY <3>3, SMT
        <4> QED
          BY <2>1, <3>3, <3>4, <3>5, <3>6, <4>1
      <3>8. \A d \in Completion : status'[d] = "applied" => \E i \in DOMAIN events' : events'[i] = d
        <4> SUFFICES ASSUME NEW d \in Completion, status'[d] = "applied"
                     PROVE  \E i \in DOMAIN events' : events'[i] = d
          OBVIOUS
        <4>1. CASE d = c
          BY <3>3, <4>1, SMT
        <4>2. CASE d # c
          BY <3>0, <3>3, <3>5, <4>2 DEF Ordered
        <4> QED
          BY <4>1, <4>2
      <3>9. \A i, j \in DOMAIN events' :
              i < j /\ events'[i][1] = events'[j][1] => events'[i][2] < events'[j][2]
        <4> SUFFICES ASSUME NEW i \in DOMAIN events', NEW j \in DOMAIN events',
                            i < j, events'[i][1] = events'[j][1]
                     PROVE  events'[i][2] < events'[j][2]
          OBVIOUS
        <4>1. i \in DOMAIN events
          BY <3>3, SMT
        <4>2. CASE j \in DOMAIN events
          BY <3>0, <3>3, <4>1, <4>2 DEF Ordered
        <4>3. CASE j = Len(events) + 1
          <5>1. events'[i] = events[i] /\ events'[j] = c
            BY <3>3, <4>1, <4>3
          <5>2. events[i] \in Completion /\ events[i][2] <= cursor[events[i][1]]
            BY <3>0, <3>4, <4>1 DEF Ordered
          <5>3. events[i][2] \in Nat /\ events[i][2] <= position[p]
            BY <2>1, <5>1, <5>2, Pairs
          <5> QED
            BY <2>2, <2>4, <5>1, <5>3, SMT
        <4> QED
          BY <3>3, <4>2, <4>3, SMT
      <3> QED
        BY <3>1, <3>2, <3>7, <3>8, <3>9 DEF Ordered
    <2>10. DeadIsReported'
      <3>1. \A d \in Completion : status'[d] = "dead" <=> status[d] = "dead"
        BY <1>0, <2>1, <2>2 DEF TypeOK
      <3> QED
        BY <2>1, <3>1, ReportedKept DEF IInv
    <2> QED
      BY <2>6, <2>7, <2>8, <2>9, <2>10 DEF IInv
  <1> QED
    BY <1>1, <1>2

-----------------------------------------------------------------------------
(* Sweepers *)

\* The end of a sweep, whatever it has written.
LEMMA EndSweepTypes ==
  ASSUME TypeOK, NEW s \in Sweeper, EndSweep(s)
  PROVE  /\ rowLock' \in [Completion -> Consumer \cup Sweeper \cup {NoOne}]
         /\ sweeping' \in [Sweeper -> Correlation \cup {NoCorrelation}]
         /\ targets' \in [Sweeper -> SUBSET Completion]
         /\ reached' \in [Sweeper -> SUBSET Completion]
         /\ reached'[s] = {}
         /\ \A r \in Sweeper \ {s} : reached'[r] = reached[r]
         /\ \A c \in Completion : rowLock[c] \in {s, NoOne} \/ rowLock'[c] = rowLock[c]
         /\ UNCHANGED <<corrLock, platformLock, consumer>>
  BY DEF TypeOK, EndSweep

\* Every statement of a sweeper but its commit, its failures included.
LEMMA SweeperIInv ==
  ASSUME IInv, NEW s \in Sweeper, failures' \in 0..MaxFailures,
         \/ FindEligible(s) \/ SweepCorrelation(s) \/ SweepRow(s)
         \/ SweepFails(s) \/ CrashSweeper(s)
  PROVE  IInv'
  <1>0. TypeOK /\ Reaching(s)
    BY DEF IInv
  <1>1. CASE FindEligible(s)
    <2>1. TypeOK'
      BY <1>0, <1>1 DEF TypeOK, FindEligible, tables, locks, consumer
    <2>2. Reaching(s)'
      BY <1>0, <1>1 DEF Reaching, FindEligible, tables, locks
    <2> QED
      BY <1>1, <2>1, <2>2, SweeperStatement DEF FindEligible, locks
  <1>2. CASE SweepCorrelation(s)
    <2>1. PendingRows \subseteq Completion
      BY DEF PendingRows
    <2>2. TypeOK'
      BY <1>0, <1>2, <2>1 DEF TypeOK, SweepCorrelation, tables, locks, consumer
    <2>3. Reaching(s)'
      BY <1>0, <1>2 DEF Reaching, SweepCorrelation, tables, locks
    <2> QED
      BY <1>2, <2>2, <2>3, SweeperStatement DEF SweepCorrelation, locks
  <1>3. CASE SweepRow(s)
    <2>1. PICK c \in targets[s] :
            /\ rowLock[c] = NoOne
            /\ targets' = [targets EXCEPT ![s] = @ \ {c}]
            /\ IF status[c] = "pending"
               THEN /\ reached' = [reached EXCEPT ![s] = @ \cup {c}]
                    /\ rowLock' = [rowLock EXCEPT ![c] = s]
               ELSE UNCHANGED <<reached, rowLock>>
      BY <1>3 DEF SweepRow
    <2>2. c \in Completion
      BY <1>0 DEF TypeOK
    <2>3. UNCHANGED <<tables, corrLock, platformLock, consumer, eligible, sweeping>>
      BY <1>3 DEF SweepRow
    <2>4. TypeOK'
      <3>0. /\ reached \in [Sweeper -> SUBSET Completion]
            /\ rowLock \in [Completion -> Consumer \cup Sweeper \cup {NoOne}]
        BY <1>0 DEF TypeOK
      <3>1. targets' \in [Sweeper -> SUBSET Completion]
        BY <1>0, <2>1 DEF TypeOK
      <3>2. reached' \in [Sweeper -> SUBSET Completion]
        <4>1. reached[s] \cup {c} \in SUBSET Completion
          BY <2>2, <3>0
        <4>2. CASE status[c] = "pending"
          BY <2>1, <3>0, <4>1, <4>2
        <4>3. CASE status[c] # "pending"
          BY <2>1, <3>0, <4>3
        <4> QED
          BY <4>2, <4>3
      <3>3. rowLock' \in [Completion -> Consumer \cup Sweeper \cup {NoOne}]
        BY <2>1, <2>2, <3>0
      <3>4. UNCHANGED <<status, overdue, cursor, events, dlq, corrLock, platformLock,
                        pc, job, position, eligible, sweeping>>
        BY <2>3 DEF tables, consumer
      <3> QED
        BY <1>0, <3>1, <3>2, <3>3, <3>4 DEF TypeOK
    <2>5. Reaching(s)'
      BY <1>0, <2>1, <2>2, <2>3 DEF TypeOK, Reaching, tables
    <2> QED
      BY <1>0, <2>1, <2>2, <2>3, <2>4, <2>5, SweeperStatement DEF TypeOK
  <1>4. CASE SweepFails(s)
    <2>1. EndSweep(s) /\ UNCHANGED <<tables, eligible>>
      BY <1>4 DEF SweepFails
    <2>2. TypeOK'
      BY <1>0, <2>1, EndSweepTypes DEF TypeOK, tables, consumer
    <2>3. Reaching(s)'
      BY <1>0, <2>1, EndSweepTypes DEF Reaching
    <2> QED
      BY <1>0, <2>1, <2>2, <2>3, EndSweepTypes, SweeperStatement
  <1>5. CASE CrashSweeper(s)
    <2>1. EndSweep(s) /\ UNCHANGED tables /\ eligible' = [eligible EXCEPT ![s] = {}]
      BY <1>5 DEF CrashSweeper
    <2>2. TypeOK'
      BY <1>0, <2>1, EndSweepTypes DEF TypeOK, tables, consumer
    <2>3. Reaching(s)'
      BY <1>0, <2>1, EndSweepTypes DEF Reaching
    <2> QED
      BY <1>0, <2>1, <2>2, <2>3, EndSweepTypes, SweeperStatement
  <1> QED
    BY <1>1, <1>2, <1>3, <1>4, <1>5

\* The commit of a sweep: what it has reached is pending, so in no entry yet.
LEMMA SweepCommitIInv ==
  ASSUME IInv, NEW s \in Sweeper, UNCHANGED failures, SweepCommit(s)
  PROVE  IInv'
  <1> DEFINE rows == reached[s]
  <1>0. TypeOK /\ Reaching(s) /\ rows \subseteq Completion
    BY DEF IInv, TypeOK
  <1>1. /\ status' = [c \in Completion |-> IF c \in rows THEN "dead" ELSE status[c]]
        /\ dlq' = IF rows = {} THEN dlq ELSE Append(dlq, rows)
        /\ EndSweep(s) /\ UNCHANGED <<overdue, cursor, events, eligible>>
    BY DEF SweepCommit
  <1>2. \A c \in rows : rowLock[c] = s /\ status[c] = "pending"
    BY <1>0 DEF Reaching
  <1>3. dlq' \in Seq(SUBSET Completion)
    BY <1>0, <1>1, SMT DEF TypeOK
  <1>4. TypeOK'
    BY <1>0, <1>1, <1>3, EndSweepTypes DEF TypeOK, consumer
  <1>5. \A q \in Consumer : Applying(q)'
    <2> SUFFICES ASSUME NEW q \in Consumer PROVE Applying(q)'
      OBVIOUS
    <2>1. Applying(q) /\ q # NoOne /\ q # s
      BY CompletionAssumption DEF IInv
    <2>2. ASSUME NEW d \in Completion, rowLock[d] = q
          PROVE  rowLock'[d] = q /\ status'[d] = status[d]
      BY <1>0, <1>1, <1>2, <2>1, <2>2, EndSweepTypes
    <2>3. pc'[q] = pc[q] /\ job'[q] = job[q] /\ position'[q] = position[q]
      BY <1>0, <1>1, EndSweepTypes DEF consumer
    <2> QED
      BY <2>1, <2>2, <2>3 DEF Applying
  <1>6. \A r \in Sweeper : Reaching(r)'
    <2> SUFFICES ASSUME NEW r \in Sweeper, NEW d \in reached'[r]
                 PROVE  rowLock'[d] = r /\ status'[d] = "pending"
      BY DEF Reaching
    <2>1. r # s /\ d \in reached[r]
      BY <1>0, <1>1, EndSweepTypes
    <2>2. rowLock[d] = r /\ status[d] = "pending" /\ d \in Completion /\ r # NoOne
      BY <2>1, CompletionAssumption DEF IInv, TypeOK, Reaching
    <2> QED
      BY <1>0, <1>1, <1>2, <2>1, <2>2, EndSweepTypes
  <1>7. Ordered'
    BY <1>0, <1>1, <1>2, OrderedKept DEF IInv
  <1>8. DeadIsReported'
    <2>0. DeadIsReported
      BY DEF IInv
    <2>1. CASE rows = {}
      BY <1>1, <2>1, <2>0, ReportedKept DEF TypeOK
    <2>2. CASE rows # {}
      <3>1. /\ Len(dlq) \in Nat /\ DOMAIN dlq = 1..Len(dlq)
            /\ DOMAIN dlq' = 1..(Len(dlq) + 1)
            /\ dlq'[Len(dlq) + 1] = rows
            /\ \A i \in DOMAIN dlq : dlq'[i] = dlq[i] /\ i \in DOMAIN dlq'
        BY <1>0, <1>1, <2>2, SMT DEF TypeOK
      <3>2. \A i \in DOMAIN dlq' : i \in DOMAIN dlq \/ i = Len(dlq) + 1
        BY <3>1, SMT
      <3>3. \A i \in DOMAIN dlq : dlq[i] \cap rows = {}
        BY <1>0, <1>2, <2>0 DEF DeadIsReported
      <3>4. \A c \in Completion : status'[c] = "dead" <=> c \in rows \/ status[c] = "dead"
        BY <1>1
      <3>5. Len(dlq) + 1 \in DOMAIN dlq'
        BY <3>1, SMT
      <3>6. \A c \in Completion : status'[c] = "dead" <=> \E i \in DOMAIN dlq' : c \in dlq'[i]
        BY <2>0, <3>1, <3>2, <3>4, <3>5 DEF DeadIsReported
      <3>7. \A i, j \in DOMAIN dlq' : dlq'[i] \cap dlq'[j] # {} => i = j
        BY <2>0, <3>1, <3>2, <3>3 DEF DeadIsReported
      <3> QED
        BY <3>6, <3>7 DEF DeadIsReported
    <2> QED
      BY <2>1, <2>2
  <1> QED
    BY <1>4, <1>5, <1>6, <1>7, <1>8 DEF IInv

-----------------------------------------------------------------------------
(* The specification *)

\* A row that is inserted, or grows old, is in nobody's transaction.
LEMMA ArrivalIInv ==
  ASSUME IInv, NEW c \in Completion, InsertCompletion(c) \/ Age(c)
  PROVE  IInv'
  <1>0. TypeOK
    BY DEF IInv
  <1>1. /\ UNCHANGED <<cursor, events, dlq, locks, consumer, sweeper, failures>>
        /\ \A d \in Completion : status'[d] # status[d] => status[d] = "none" /\ status'[d] = "pending"
        /\ TypeOK'
    BY <1>0 DEF InsertCompletion, Age, TypeOK, locks, consumer, sweeper
  <1>2. \A q \in Consumer : Applying(q)'
    <2> SUFFICES ASSUME NEW q \in Consumer PROVE Applying(q)'
      OBVIOUS
    <2>1. Applying(q)
      BY DEF IInv
    <2> QED
      BY <1>1, <2>1 DEF Applying, consumer, locks
  <1>3. \A s \in Sweeper : Reaching(s)'
    <2> SUFFICES ASSUME NEW s \in Sweeper PROVE Reaching(s)'
      OBVIOUS
    <2>1. Reaching(s) /\ reached[s] \subseteq Completion
      BY <1>0 DEF IInv, TypeOK
    <2> QED
      BY <1>1, <2>1 DEF Reaching, sweeper, locks
  <1>4. Ordered' /\ DeadIsReported'
    BY <1>0, <1>1, OrderedKept, ReportedKept DEF IInv
  <1> QED
    BY <1>1, <1>2, <1>3, <1>4 DEF IInv

\* Every step keeps the invariant.
LEMMA NextIInv == IInv /\ [Next]_vars => IInv'
  <1> SUFFICES ASSUME IInv, [Next]_vars PROVE IInv'
    OBVIOUS
  <1>0. failures \in 0..MaxFailures /\ MaxFailures \in Nat
    BY CompletionAssumption DEF IInv, TypeOK
  <1>1. ASSUME NEW c \in Completion, InsertCompletion(c) \/ Age(c) PROVE IInv'
    BY <1>1, ArrivalIInv
  <1>2. ASSUME NEW p \in Consumer, ConsumerStep(p) PROVE IInv'
    BY <1>2, ConsumerIInv, ApplyIInv DEF ConsumerStep
  <1>3. ASSUME NEW s \in Sweeper, SweeperStep(s) PROVE IInv'
    BY <1>0, <1>3, SweeperIInv, SweepCommitIInv DEF SweeperStep
  <1>4. ASSUME Fail PROVE failures' \in 0..MaxFailures
    BY <1>0, <1>4, SMT DEF Fail
  <1>5. ASSUME NEW p \in Consumer, CrashConsumer(p) PROVE IInv'
    BY <1>4, <1>5, RollbackIInv DEF CrashConsumer
  <1>6. ASSUME NEW s \in Sweeper, SweepFails(s) \/ CrashSweeper(s) PROVE IInv'
    BY <1>4, <1>6, SweeperIInv DEF SweepFails, CrashSweeper
  <1>7. CASE UNCHANGED vars
    BY <1>7 DEF vars, tables, locks, consumer, sweeper, IInv, TypeOK, Applying, Reaching, Ordered,
                DeadIsReported
  <1> QED
    BY <1>1, <1>2, <1>3, <1>5, <1>6, <1>7 DEF Next

\* Row by row, Ordered is AppliedInOrder.
LEMMA OrderedMeansInOrder ==
  ASSUME TypeOK, Ordered
  PROVE  AppliedInOrder
  <1>1. ASSUME NEW corr \in Correlation
        PROVE  {c[2] : c \in {d \in RowsOf(corr) : status[d] = "applied"}} = 1..cursor[corr]
    <2>1. ASSUME NEW c \in RowsOf(corr), status[c] = "applied"
          PROVE  c[2] \in 1..cursor[corr]
      <3>1. c[2] \in Nat /\ 0 < c[2] /\ c[2] <= cursor[corr]
        BY <2>1, Pairs, Rows DEF Ordered
      <3> QED
        BY <3>1, CursorNat, SMT
    <2>2. ASSUME NEW n \in 1..cursor[corr]
          PROVE  \E c \in RowsOf(corr) : status[c] = "applied" /\ c[2] = n
      <3>1. <<corr, n>> \in Completion /\ <<corr, n>>[1] = corr /\ <<corr, n>>[2] = n
        BY DEF Ordered
      <3>2. 0 < n /\ n <= cursor[corr]
        BY CursorNat, SMT
      <3> QED
        BY <3>1, <3>2 DEF Ordered, RowsOf
    <2> QED
      BY <2>1, <2>2
  <1>2. {events[i] : i \in DOMAIN events} = {c \in Completion : status[c] = "applied"}
    <2>1. \A i \in DOMAIN events : events[i] \in Completion
      BY SMT DEF TypeOK
    <2> QED
      BY <2>1 DEF Ordered
  <1> QED
    BY <1>1, <1>2 DEF AppliedInOrder, Ordered

\* The invariant of every reachable state: what a transaction has locked nobody
\* else changes, and the applied rows are those up to the cursors.
THEOREM Invariance == Spec => []IInv
  BY InitIInv, NextIInv, PTL DEF Spec

\* The variables keep their types (all modules of ordering/).
THEOREM TypeCorrect == Spec => []TypeOK
  <1>1. IInv => TypeOK
    BY DEF IInv
  <1> QED
    BY <1>1, Invariance, PTL

\* Completions of a correlation are applied in the order of their numbers, each
\* once, however many nodes consume and sweep (consumer.ex, try_apply/2).
THEOREM InOrderTheorem == Spec => []AppliedInOrder
  <1>1. IInv => AppliedInOrder
    BY OrderedMeansInOrder DEF IInv
  <1> QED
    BY <1>1, Invariance, PTL

\* A completion is dead exactly when one dead letter entry names it (sweeper.ex,
\* sweep_correlation/2).
THEOREM ReportedTheorem == Spec => []DeadIsReported
  <1>1. IInv => DeadIsReported
    BY DEF IInv
  <1> QED
    BY <1>1, Invariance, PTL
=============================================================================
