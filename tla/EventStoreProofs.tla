-------------------------- MODULE EventStoreProofs --------------------------
(***************************************************************************)
(* What EventStore promises, for any number of processes, archivers,       *)
(* instances and keys.  The inductive invariant says what a transaction    *)
(* that has got so far may rely on until it commits (Numbering, Claiming,  *)
(* Drawing), and what an archive run may rely on (Archiving).  EventReaders *)
(* adds those who read: the last part is about what a read returns.        *)
(***************************************************************************)
EXTENDS EventReaders, TLAPS

\* Who appends has an event to append.
Drafting == \A p \in Proc : pc[p] # "idle" => draft[p] \in Event

\* The row of instance_sequences is held from assign_sequence/3 to the commit, and
\* the number drawn stays the next one.
Numbering ==
  \A p \in Proc : pc[p] \in {"claim", "insert", "commit"} =>
    /\ sequenceLock[draft[p].instance] = p
    /\ draft[p].seq = sequences[draft[p].instance] + 1

\* The key is held from claim_idempotency/3 to the commit, and nobody else has it.
Claiming ==
  \A p \in Proc : pc[p] \in {"insert", "commit"} =>
    /\ claimLock[draft[p].key] = p
    /\ draft[p].key \notin claims

\* The global_seq drawn is nobody else's and, being drawn with the row of the
\* instance held, is the highest of the instance.
Drawing ==
  /\ \A e \in Committed : e.global <= nextGlobal
  /\ \A p \in Proc : pc[p] = "commit" =>
       /\ draft[p].global <= nextGlobal
       /\ \A e \in Committed :
            /\ e.global # draft[p].global
            /\ e.instance = draft[p].instance => e.global < draft[p].global
       /\ \A q \in Proc : pc[q] = "commit" /\ q # p => draft[p].global # draft[q].global

\* The numbers of an instance are 1 to sequences[i].
Numbered ==
  /\ \A e \in Committed : 1 <= e.seq /\ e.seq <= sequences[e.instance]
  /\ \A i \in Instance : \A n \in 1..sequences[i] :
       \E e \in Committed : e.instance = i /\ e.seq = n

NumberedOnce ==
  \A e, f \in Committed : e.instance = f.instance /\ e.seq = f.seq => e = f

\* An archive run has taken its targets from the log; those it could not copy
\* were archived already, and it deletes none before all are archived.
Archiving ==
  \A a \in Archiver :
    /\ targets[a] \subseteq Committed /\ found[a] \subseteq Committed
    /\ phase[a] = "copy" => targets[a] \subseteq found[a] \cup archived
    /\ phase[a] = "delete" => targets[a] \subseteq archived

PayloadsKept == \A e \in live : e.key \in Oversized => e.global \in payloads

IInv ==
  /\ TypeOK
  /\ Drafting /\ Numbering /\ Claiming /\ Drawing
  /\ Numbered /\ NumberedOnce
  /\ OneEventPerKey /\ OrdersAgree
  /\ Archiving /\ PayloadsKept

-----------------------------------------------------------------------------

\* The empty store.
LEMMA InitIInv == Init => IInv
  BY ConstantsAssumption, SMT
  DEF Init, IInv, TypeOK, Drafting, Numbering, Claiming, Drawing, Numbered, NumberedOnce,
      OneEventPerKey, OrdersAgree, Archiving, PayloadsKept, Committed, Draft, NoDraft

\* An event is a draft of which nothing is missing.
LEMMA EventIsDraft == Event \subseteq Draft /\ NoDraft \in Draft
  BY SMT DEF Event, Draft, NoDraft

\* COMMIT and ROLLBACK keep the types of what they release.
LEMMA ReleaseTypes ==
  ASSUME TypeOK, NEW p \in Proc, Release(p)
  PROVE  /\ pc' \in [Proc -> {"idle", "guard", "sequence", "claim", "insert", "commit"}]
         /\ draft' \in [Proc -> Draft]
         /\ sequenceLock' \in [Instance -> Proc \cup {None}]
         /\ claimLock' \in [IdemKey -> Proc \cup {None}]
  BY EventIsDraft, SMT DEF TypeOK, Release

\* COMMIT and ROLLBACK take nothing from another transaction.
LEMMA ReleaseKeepsOthers ==
  ASSUME IInv, NEW p \in Proc, Release(p), NEW q \in Proc, pc'[q] # "idle"
  PROVE  /\ q # p /\ pc'[q] = pc[q] /\ draft'[q] = draft[q] /\ draft[q] \in Event
         /\ sequenceLock[draft[q].instance] = q => sequenceLock'[draft[q].instance] = q
         /\ claimLock[draft[q].key] = q => claimLock'[draft[q].key] = q
  <1>1. q # p /\ pc'[q] = pc[q] /\ draft'[q] = draft[q]
    BY SMT DEF IInv, TypeOK, Release
  <1>2. draft[q] \in Event
    BY <1>1 DEF IInv, Drafting
  <1>3. draft[q].instance \in Instance /\ draft[q].key \in IdemKey
    BY <1>2 DEF Event
  <1> QED
    BY <1>1, <1>2, <1>3, SMT DEF Release

\* A rollback leaves no trace but the global_seq it drew.
LEMMA RollbackIInv ==
  ASSUME IInv, NEW p \in Proc, Rollback(p)
  PROVE  IInv'
  <1> USE DEF IInv
  <1>1. UNCHANGED <<tables, nextGlobal, archive>> /\ Release(p)
    BY DEF Rollback
  <1>2. Committed' = Committed
    BY <1>1 DEF tables, Committed
  <1>3. TypeOK'
    BY <1>1, ReleaseTypes, SMT DEF TypeOK, tables, archive
  <1>4. Drafting'
    BY <1>1, ReleaseKeepsOthers DEF Drafting
  <1>5. Numbering'
    BY <1>1, ReleaseKeepsOthers, SMT DEF Numbering, tables
  <1>6. Claiming'
    BY <1>1, ReleaseKeepsOthers, SMT DEF Claiming, tables
  <1>7. Drawing'
    <2>1. \A q \in Proc : pc'[q] = "commit" => pc[q] = "commit" /\ draft'[q] = draft[q]
      BY <1>1, ReleaseKeepsOthers
    <2> QED
      BY <1>1, <1>2, <2>1, SMT DEF Drawing
  <1>8. (Numbered /\ NumberedOnce /\ OneEventPerKey /\ OrdersAgree)'
    BY <1>1, <1>2 DEF Numbered, NumberedOnce, OneEventPerKey, OrdersAgree, tables
  <1>9. (Archiving /\ PayloadsKept)'
    BY <1>1, <1>2 DEF Archiving, PayloadsKept, tables, archive
  <1> QED
    BY <1>3, <1>4, <1>5, <1>6, <1>7, <1>8, <1>9

\* A caller asks for an event.
LEMMA BeginAppendIInv ==
  ASSUME IInv, NEW p \in Proc, NEW i \in Instance, NEW k \in IdemKey, BeginAppend(p, i, k)
  PROVE  IInv'
  <1> USE DEF IInv
  <1>1. /\ UNCHANGED <<tables, nextGlobal, locks, archive>>
        /\ pc' = [pc EXCEPT ![p] = "guard"]
        /\ draft' = [draft EXCEPT ![p] = [key |-> k, instance |-> i, seq |-> 0, global |-> 0]]
    BY DEF BeginAppend
  <1>2. [key |-> k, instance |-> i, seq |-> 0, global |-> 0] \in Event
    BY SMT DEF Event
  <1>3. TypeOK'
    BY <1>1, <1>2, EventIsDraft, SMT DEF TypeOK, tables, locks, archive
  <1>4. \A q \in Proc : /\ q # p => pc'[q] = pc[q] /\ draft'[q] = draft[q]
                        /\ pc'[p] = "guard" /\ draft'[p] \in Event
    BY <1>1, <1>2, SMT DEF TypeOK
  <1>5. Committed' = Committed
    BY <1>1 DEF tables, Committed
  <1>6. (Drafting /\ Numbering /\ Claiming)'
    BY <1>1, <1>4, SMT DEF Drafting, Numbering, Claiming, tables, locks
  <1>7. Drawing'
    BY <1>1, <1>4, <1>5, SMT DEF Drawing
  <1>8. (Numbered /\ NumberedOnce /\ OneEventPerKey /\ OrdersAgree /\ Archiving /\ PayloadsKept)'
    BY <1>1, <1>5
    DEF Numbered, NumberedOnce, OneEventPerKey, OrdersAgree, Archiving, PayloadsKept, tables,
        archive
  <1> QED
    BY <1>3, <1>6, <1>7, <1>8

\* The guard refuses or lets the append go on.
LEMMA ActiveInstanceGuardIInv ==
  ASSUME IInv, NEW p \in Proc, ActiveInstanceGuard(p)
  PROVE  IInv'
  <1>1. CASE Rollback(p)
    BY <1>1, RollbackIInv
  <1>2. CASE /\ pc[p] = "guard" /\ pc' = [pc EXCEPT ![p] = "sequence"]
             /\ UNCHANGED <<tables, nextGlobal, locks, draft, archive>>
    <2> USE DEF IInv
    <2>1. TypeOK'
      BY <1>2, SMT DEF TypeOK, tables, locks, archive
    <2>2. \A q \in Proc : q # p => pc'[q] = pc[q]
      BY <1>2 DEF TypeOK
    <2>3. pc[p] = "guard" /\ pc'[p] = "sequence"
      BY <1>2 DEF TypeOK
    <2>4. Committed' = Committed
      BY <1>2 DEF tables, Committed
    <2>5. (Drafting /\ Numbering /\ Claiming)'
      BY <1>2, <2>2, <2>3, SMT DEF Drafting, Numbering, Claiming, tables, locks
    <2>6. Drawing'
      BY <1>2, <2>2, <2>3, <2>4, SMT DEF Drawing
    <2>7. (Numbered /\ NumberedOnce /\ OneEventPerKey /\ OrdersAgree /\ Archiving /\ PayloadsKept)'
      BY <1>2, <2>4
      DEF Numbered, NumberedOnce, OneEventPerKey, OrdersAgree, Archiving, PayloadsKept, tables,
          archive
    <2> QED
      BY <2>1, <2>5, <2>6, <2>7
  <1> QED
    BY <1>1, <1>2 DEF ActiveInstanceGuard

\* The number is taken with the row, which nobody else holds.
LEMMA AssignSequenceIInv ==
  ASSUME IInv, NEW p \in Proc, AssignSequence(p)
  PROVE  IInv'
  <1> USE DEF IInv
  <1> DEFINE i == draft[p].instance
  <1>1. /\ UNCHANGED <<tables, nextGlobal, claimLock, archive>>
        /\ pc[p] = "sequence" /\ pc' = [pc EXCEPT ![p] = "claim"]
        /\ sequenceLock[i] = None /\ sequenceLock' = [sequenceLock EXCEPT ![i] = p]
        /\ draft' = [draft EXCEPT ![p].seq = sequences[i] + 1]
    BY DEF AssignSequence
  <1>2. draft[p] \in Event
    BY <1>1 DEF Drafting
  <1>3. draft[p].instance \in Instance /\ sequences[i] + 1 \in Nat
    BY <1>2, SMT DEF Event, TypeOK, tables
  <1>4. /\ draft'[p] = [draft[p] EXCEPT !.seq = sequences[i] + 1]
        /\ pc'[p] = "claim"
        /\ \A q \in Proc : q # p => pc'[q] = pc[q] /\ draft'[q] = draft[q]
    BY <1>1, SMT DEF TypeOK
  <1>5. draft'[p] \in Event /\ draft'[p].instance = i /\ draft'[p].seq = sequences[i] + 1
    BY <1>2, <1>3, <1>4, SMT DEF Event
  <1>6. sequenceLock' \in [Instance -> Proc \cup {None}] /\ sequenceLock'[i] = p
    BY <1>1, <1>3, SMT DEF TypeOK
  <1>7. TypeOK'
    <2>1. draft' \in [Proc -> Draft]
      BY <1>1, <1>5, EventIsDraft, SMT DEF TypeOK
    <2> QED
      BY <1>1, <1>6, <2>1, SMT DEF TypeOK, tables, archive
  <1>8. Drafting'
    BY <1>4, <1>5 DEF Drafting
  <1>9. Numbering'
    <2> SUFFICES ASSUME NEW q \in Proc, pc'[q] \in {"claim", "insert", "commit"}
                 PROVE  /\ sequenceLock'[draft'[q].instance] = q
                        /\ draft'[q].seq = sequences'[draft'[q].instance] + 1
      BY DEF Numbering
    <2>1. CASE q = p
      BY <2>1, <1>1, <1>5, <1>6 DEF tables
    <2>2. CASE q # p
      <3>1. sequenceLock[draft[q].instance] = q /\ draft[q].instance \in Instance
        BY <2>2, <1>4, SMT DEF Numbering, Drafting, Event
      <3>2. draft[q].instance # i
        BY <3>1, <1>1, ConstantsAssumption
      <3> QED
        BY <2>2, <3>1, <3>2, <1>1, <1>4, SMT DEF Numbering, tables, TypeOK
    <2> QED
      BY <2>1, <2>2
  <1>10. Claiming'
    BY <1>1, <1>4, SMT DEF Claiming, tables
  <1>11. Committed' = Committed
    BY <1>1 DEF tables, Committed
  <1>12. Drawing'
    BY <1>1, <1>4, <1>11, SMT DEF Drawing
  <1>13. (Numbered /\ NumberedOnce /\ OneEventPerKey /\ OrdersAgree /\ Archiving /\ PayloadsKept)'
    BY <1>1, <1>11
    DEF Numbered, NumberedOnce, OneEventPerKey, OrdersAgree, Archiving, PayloadsKept, tables,
        archive
  <1> QED
    BY <1>7, <1>8, <1>9, <1>10, <1>12, <1>13

\* The key is taken when it is neither committed nor another transaction's.
LEMMA ClaimIdempotencyIInv ==
  ASSUME IInv, NEW p \in Proc, ClaimIdempotency(p)
  PROVE  IInv'
  <1>1. CASE Rollback(p)
    BY <1>1, RollbackIInv
  <1>2. CASE ~ Rollback(p)
    <2> USE DEF IInv
    <2> DEFINE k == draft[p].key
    <2>1. /\ UNCHANGED <<tables, nextGlobal, sequenceLock, draft, archive>>
          /\ pc[p] = "claim" /\ pc' = [pc EXCEPT ![p] = "insert"]
          /\ claimLock[k] = None /\ claimLock' = [claimLock EXCEPT ![k] = p]
          /\ k \notin claims
      BY <1>2 DEF ClaimIdempotency
    <2>2. k \in IdemKey
      BY <2>1, SMT DEF Drafting, Event
    <2>3. pc'[p] = "insert" /\ \A q \in Proc : q # p => pc'[q] = pc[q]
      BY <2>1 DEF TypeOK
    <2>4. TypeOK'
      BY <2>1, <2>2, SMT DEF TypeOK, tables, archive
    <2>5. (Drafting /\ Numbering)'
      BY <2>1, <2>3, SMT DEF Drafting, Numbering, tables
    <2>6. Claiming'
      <3> SUFFICES ASSUME NEW q \in Proc, pc'[q] \in {"insert", "commit"}
                   PROVE  claimLock'[draft'[q].key] = q /\ draft'[q].key \notin claims'
        BY DEF Claiming
      <3>1. CASE q = p
        BY <3>1, <2>1, <2>2, SMT DEF TypeOK, tables
      <3>2. CASE q # p
        <4>1. claimLock[draft[q].key] = q /\ draft[q].key \notin claims /\ draft[q].key \in IdemKey
          BY <3>2, <2>3, SMT DEF Claiming, Drafting, Event
        <4> QED
          BY <4>1, <2>1, ConstantsAssumption, SMT DEF TypeOK, tables
      <3> QED
        BY <3>1, <3>2
    <2>7. Committed' = Committed
      BY <2>1 DEF tables, Committed
    <2>8. Drawing'
      BY <2>1, <2>3, <2>7, SMT DEF Drawing
    <2>9. (Numbered /\ NumberedOnce /\ OneEventPerKey /\ OrdersAgree /\ Archiving /\ PayloadsKept)'
      BY <2>1, <2>7
      DEF Numbered, NumberedOnce, OneEventPerKey, OrdersAgree, Archiving, PayloadsKept, tables,
          archive
    <2> QED
      BY <2>4, <2>5, <2>6, <2>8, <2>9
  <1> QED
    BY <1>1, <1>2

\* The number drawn is above every one drawn before.
LEMMA InsertEventIInv ==
  ASSUME IInv, NEW p \in Proc, InsertEvent(p)
  PROVE  IInv'
  <1> USE DEF IInv
  <1>1. /\ UNCHANGED <<tables, locks, archive>>
        /\ pc[p] = "insert" /\ pc' = [pc EXCEPT ![p] = "commit"]
        /\ nextGlobal' = nextGlobal + 1 /\ nextGlobal \in Nat
        /\ draft' = [draft EXCEPT ![p].global = nextGlobal']
    BY DEF InsertEvent, TypeOK
  <1>2. draft[p] \in Event
    BY <1>1 DEF Drafting
  <1>3. /\ draft'[p] = [draft[p] EXCEPT !.global = nextGlobal + 1]
        /\ pc'[p] = "commit"
        /\ \A q \in Proc : q # p => pc'[q] = pc[q] /\ draft'[q] = draft[q]
    BY <1>1, SMT DEF TypeOK
  <1>4. /\ draft'[p] \in Event
        /\ draft'[p].instance = draft[p].instance /\ draft'[p].key = draft[p].key
        /\ draft'[p].seq = draft[p].seq /\ draft'[p].global = nextGlobal + 1
    BY <1>1, <1>2, <1>3, SMT DEF Event
  <1>5. TypeOK'
    <2>1. draft' \in [Proc -> Draft]
      BY <1>1, <1>4, EventIsDraft, SMT DEF TypeOK
    <2> QED
      BY <1>1, <2>1, SMT DEF TypeOK, tables, locks, archive
  <1>6. (Drafting /\ Numbering /\ Claiming)'
    BY <1>1, <1>3, <1>4, SMT DEF Drafting, Numbering, Claiming, tables, locks
  <1>7. Committed' = Committed /\ Committed \subseteq Event
    BY <1>1 DEF tables, Committed, TypeOK
  <1>8. Drawing'
    <2>1. \A e \in Committed : e.global <= nextGlobal /\ e.global \in Nat
      BY <1>7, SMT DEF Drawing, Event
    <2>2. \A q \in Proc : pc[q] = "commit" => draft[q].global <= nextGlobal /\ draft[q].global \in Nat
      BY SMT DEF Drawing, Drafting, Event
    <2>3. \A e \in Committed' : e.global <= nextGlobal'
      BY <1>1, <1>7, <2>1, SMT
    <2>4. ASSUME NEW q \in Proc, pc'[q] = "commit"
          PROVE  /\ draft'[q].global <= nextGlobal'
                 /\ \A e \in Committed' :
                      /\ e.global # draft'[q].global
                      /\ e.instance = draft'[q].instance => e.global < draft'[q].global
                 /\ \A r \in Proc : pc'[r] = "commit" /\ r # q => draft'[q].global # draft'[r].global
      <3>1. CASE q = p
        BY <3>1, <1>1, <1>3, <1>4, <1>7, <2>1, <2>2, SMT
      <3>2. CASE q # p
        BY <3>2, <2>4, <1>1, <1>3, <1>4, <1>7, <2>1, <2>2, SMT DEF Drawing
      <3> QED
        BY <3>1, <3>2
    <2> QED
      BY <2>3, <2>4 DEF Drawing
  <1>9. (Numbered /\ NumberedOnce /\ OneEventPerKey /\ OrdersAgree /\ Archiving /\ PayloadsKept)'
    BY <1>1, <1>7
    DEF Numbered, NumberedOnce, OneEventPerKey, OrdersAgree, Archiving, PayloadsKept, tables,
        archive
  <1> QED
    BY <1>5, <1>6, <1>8, <1>9

\* COMMIT adds the next event of its instance, the only one of its key.
LEMMA CommitIInv ==
  ASSUME IInv, NEW p \in Proc, Commit(p)
  PROVE  IInv' /\ Committed \subseteq Committed'
  <1> USE DEF IInv
  <1> DEFINE d == draft[p]
  <1>1. /\ UNCHANGED <<archived, terminal, nextGlobal, archive>>
        /\ pc[p] = "commit" /\ Release(p)
        /\ live' = live \cup {d}
        /\ payloads' = IF d.key \in Oversized THEN payloads \cup {d.global} ELSE payloads
        /\ claims' = claims \cup {d.key}
        /\ sequences' = [sequences EXCEPT ![d.instance] = d.seq]
    BY DEF Commit
  <1>2. d \in Event
    BY <1>1 DEF Drafting
  <1>3. d.instance \in Instance /\ d.key \in IdemKey /\ d.seq \in Nat /\ d.global \in Nat
    BY <1>2, SMT DEF Event
  <1>4. /\ sequenceLock[d.instance] = p /\ d.seq = sequences[d.instance] + 1
        /\ claimLock[d.key] = p /\ d.key \notin claims
    BY <1>1 DEF Numbering, Claiming
  <1>5. Committed' = Committed \cup {d} /\ Committed \subseteq Event
    BY <1>1 DEF Committed, TypeOK
  <1>6. \A e \in Event : /\ e.instance \in Instance /\ e.key \in IdemKey
                         /\ e.seq \in Nat /\ e.global \in Nat
    BY SMT DEF Event
  <1>7. TypeOK'
    <2>1. sequences' \in [Instance -> Nat]
      BY <1>1, <1>3, SMT DEF TypeOK
    <2>2. payloads' \subseteq Nat
      BY <1>1, <1>3 DEF TypeOK
    <2>3. claims' \subseteq IdemKey /\ live' \subseteq Event
      BY <1>1, <1>2, <1>3 DEF TypeOK
    <2> QED
      BY <1>1, <2>1, <2>2, <2>3, ReleaseTypes, SMT DEF TypeOK, archive
  <1>8. \A q \in Proc : pc'[q] # "idle" => /\ q # p /\ pc'[q] = pc[q] /\ draft'[q] = draft[q]
                                            /\ draft[q] \in Event
    BY <1>1, ReleaseKeepsOthers
  <1>9. Drafting'
    BY <1>8 DEF Drafting
  <1>10. \A q \in Proc : pc'[q] \in {"claim", "insert", "commit"} => draft[q].instance # d.instance
    BY <1>4, <1>8 DEF Numbering
  <1>11. Numbering'
    <2> SUFFICES ASSUME NEW q \in Proc, pc'[q] \in {"claim", "insert", "commit"}
                 PROVE  /\ sequenceLock'[draft'[q].instance] = q
                        /\ draft'[q].seq = sequences'[draft'[q].instance] + 1
      BY DEF Numbering
    <2>1. pc'[q] = pc[q] /\ draft'[q] = draft[q] /\ draft[q].instance \in Instance
      BY <1>6, <1>8
    <2>2. sequenceLock'[draft'[q].instance] = q
      BY <1>1, <2>1, ReleaseKeepsOthers DEF Numbering
    <2>3. sequences'[draft[q].instance] = sequences[draft[q].instance]
      BY <1>1, <1>10, <2>1 DEF TypeOK
    <2> QED
      BY <2>1, <2>2, <2>3 DEF Numbering
  <1>12. Claiming'
    <2> SUFFICES ASSUME NEW q \in Proc, pc'[q] \in {"insert", "commit"}
                 PROVE  claimLock'[draft'[q].key] = q /\ draft'[q].key \notin claims'
      BY DEF Claiming
    <2>1. pc'[q] = pc[q] /\ draft'[q] = draft[q] /\ q # p
      BY <1>8
    <2>2. claimLock'[draft'[q].key] = q
      BY <1>1, <2>1, ReleaseKeepsOthers DEF Claiming
    <2>3. draft[q].key # d.key
      BY <1>4, <2>1 DEF Claiming
    <2> QED
      BY <1>1, <2>1, <2>2, <2>3 DEF Claiming
  <1>13. \A e \in Committed : e.global # d.global /\ (e.instance = d.instance => e.global < d.global)
    BY <1>1 DEF Drawing
  <1>14. Drawing'
    <2>1. \A e \in Committed' : e.global <= nextGlobal'
      BY <1>1, <1>5 DEF Drawing
    <2>2. ASSUME NEW q \in Proc, pc'[q] = "commit"
          PROVE  /\ draft'[q].global <= nextGlobal'
                 /\ \A e \in Committed' :
                      /\ e.global # draft'[q].global
                      /\ e.instance = draft'[q].instance => e.global < draft'[q].global
                 /\ \A r \in Proc : pc'[r] = "commit" /\ r # q => draft'[q].global # draft'[r].global
      <3>1. pc[q] = "commit" /\ draft'[q] = draft[q] /\ q # p
        BY <2>2, <1>8
      <3>2. draft[q].instance # d.instance
        BY <2>2, <1>10
      <3>3. draft[q].global # d.global
        BY <1>1, <3>1 DEF Drawing
      <3> QED
        BY <1>1, <1>5, <1>8, <3>1, <3>2, <3>3 DEF Drawing
    <2> QED
      BY <2>1, <2>2 DEF Drawing
  <1>15. Numbered'
    <2>1. sequences'[d.instance] = d.seq
          /\ \A i \in Instance : i # d.instance => sequences'[i] = sequences[i]
      BY <1>1, <1>3 DEF TypeOK
    <2>2. sequences \in [Instance -> Nat]
      BY DEF TypeOK
    <2>3. \A e \in Committed' : 1 <= e.seq /\ e.seq <= sequences'[e.instance]
      BY <1>3, <1>4, <1>5, <1>6, <2>1, <2>2, SMT DEF Numbered
    <2>4. ASSUME NEW i \in Instance, NEW n \in 1..sequences'[i]
          PROVE  \E e \in Committed' : e.instance = i /\ e.seq = n
      <3>1. CASE i = d.instance /\ n = d.seq
        BY <3>1, <1>5
      <3>2. CASE ~ (i = d.instance /\ n = d.seq)
        <4>1. n \in 1..sequences[i]
          BY <3>2, <1>3, <1>4, <2>1, <2>2, SMT
        <4> QED
          BY <4>1, <1>5 DEF Numbered
      <3> QED
        BY <3>1, <3>2
    <2> QED
      BY <2>3, <2>4 DEF Numbered
  <1>16. \A e \in Committed : e.instance = d.instance => e.seq < d.seq
    BY <1>4, <1>5, <1>6, SMT DEF Numbered, TypeOK
  <1>17. NumberedOnce'
    BY <1>3, <1>5, <1>6, <1>16, SMT DEF NumberedOnce
  <1>18. OneEventPerKey'
    <2>1. claims = {e.key : e \in Committed}
      BY DEF OneEventPerKey
    <2>2. claims' = {e.key : e \in Committed'}
      BY <2>1, <1>1, <1>5
    <2>3. \A e, f \in Committed' : e.key = f.key => e = f
      BY <2>1, <1>4, <1>5 DEF OneEventPerKey
    <2> QED
      BY <2>2, <2>3 DEF OneEventPerKey
  <1>19. OrdersAgree'
    <2> SUFFICES ASSUME NEW e \in Committed', NEW f \in Committed'
                 PROVE  /\ e.global = f.global => e = f
                        /\ e.instance = f.instance => (e.seq < f.seq <=> e.global < f.global)
      BY DEF OrdersAgree
    <2>1. CASE e \in Committed /\ f \in Committed
      BY <2>1 DEF OrdersAgree
    <2>2. CASE e = d /\ f = d
      BY <2>2, <1>3, SMT
    <2>3. CASE e = d /\ f \in Committed
      BY <2>3, <1>3, <1>5, <1>6, <1>13, <1>16, SMT
    <2>4. CASE f = d /\ e \in Committed
      BY <2>4, <1>3, <1>5, <1>6, <1>13, <1>16, SMT
    <2> QED
      BY <1>5, <2>1, <2>2, <2>3, <2>4
  <1>20. Archiving'
    BY <1>1, <1>5 DEF Archiving, archive
  <1>21. PayloadsKept'
    BY <1>1 DEF PayloadsKept
  <1> QED
    BY <1>5, <1>7, <1>9, <1>11, <1>12, <1>14, <1>15, <1>17, <1>18, <1>19, <1>20, <1>21
\* A step that leaves the transactions and the log as they are.
LEMMA LogUnchanged ==
  ASSUME IInv, UNCHANGED <<claims, sequences, nextGlobal, locks, append>>, Committed' = Committed
  PROVE  (Drafting /\ Numbering /\ Claiming /\ Drawing /\ Numbered /\ NumberedOnce
          /\ OneEventPerKey /\ OrdersAgree)'
  <1>1. (Drafting /\ Numbering /\ Claiming /\ Drawing)'
    BY DEF IInv, Drafting, Numbering, Claiming, Drawing, locks, append
  <1>2. (Numbered /\ NumberedOnce /\ OneEventPerKey /\ OrdersAgree)'
    BY DEF IInv, Numbered, NumberedOnce, OneEventPerKey, OrdersAgree
  <1> QED
    BY <1>1, <1>2

\* The end of an instance.
LEMMA TerminateIInv ==
  ASSUME IInv, NEW i \in Instance, Terminate(i)
  PROVE  IInv' /\ Committed' = Committed
  <1>1. Committed' = Committed /\ UNCHANGED <<claims, sequences, nextGlobal, locks, append>>
    BY DEF Terminate, Committed
  <1>2. TypeOK'
    BY SMT DEF Terminate, IInv, TypeOK, locks, append, archive
  <1>3. Archiving' /\ PayloadsKept'
    BY <1>1 DEF Terminate, IInv, Archiving, PayloadsKept, archive
  <1> QED
    BY <1>1, <1>2, <1>3, LogUnchanged DEF IInv

\* The choice of an archive run's targets.
LEMMA BeginArchiveIInv ==
  ASSUME IInv, NEW a \in Archiver, BeginArchive(a)
  PROVE  IInv' /\ Committed' = Committed
  <1> USE DEF IInv
  <1>1. PICK due \in SUBSET live \ {{}} :
          /\ targets' = [targets EXCEPT ![a] = due]
          /\ phase' = [phase EXCEPT ![a] = "events"]
          /\ UNCHANGED <<tables, nextGlobal, locks, append, found>>
    BY DEF BeginArchive
  <1>2. Committed' = Committed /\ due \subseteq Committed /\ due \subseteq Event
    BY <1>1 DEF Committed, tables, TypeOK
  <1>3. TypeOK'
    BY <1>1, <1>2, SMT DEF TypeOK, tables, locks, append
  <1>4. Archiving'
    BY <1>1, <1>2, SMT DEF Archiving, TypeOK, tables
  <1>5. PayloadsKept'
    BY <1>1 DEF PayloadsKept, tables
  <1> QED
    BY <1>1, <1>2, <1>3, <1>4, <1>5, LogUnchanged DEF tables

\* The first query of the first archive transaction.
LEMMA ArchiveFindEventsIInv ==
  ASSUME IInv, NEW a \in Archiver, ArchiveFindEvents(a)
  PROVE  IInv' /\ Committed' = Committed
  <1> USE DEF IInv
  <1>1. /\ found' = [found EXCEPT ![a] = targets[a] \cap live]
        /\ phase' = [phase EXCEPT ![a] = "copy"]
        /\ UNCHANGED <<tables, nextGlobal, locks, append, targets>>
    BY DEF ArchiveFindEvents
  <1>2. Committed' = Committed /\ archived' = archived
    BY <1>1 DEF Committed, tables
  <1>3. targets[a] \cap live \in SUBSET Event
    BY DEF TypeOK
  <1>4. TypeOK'
    BY <1>1, <1>3, SMT DEF TypeOK, tables, locks, append
  <1>5. targets[a] \subseteq (targets[a] \cap live) \cup archived
    BY DEF Archiving, Committed
  <1>6. Archiving'
    BY <1>1, <1>2, <1>5 DEF Archiving, TypeOK
  <1>7. PayloadsKept'
    BY <1>1 DEF PayloadsKept, tables
  <1> QED
    BY <1>1, <1>2, <1>4, <1>6, <1>7, LogUnchanged DEF tables

\* The copy into the archive adds no event that was not committed.
LEMMA ArchiveCopyIInv ==
  ASSUME IInv, NEW a \in Archiver, ArchiveCopy(a)
  PROVE  IInv' /\ Committed' = Committed
  <1> USE DEF IInv
  <1>1. /\ found' = [found EXCEPT ![a] = {}]
        /\ UNCHANGED <<live, payloads, claims, sequences, terminal, nextGlobal, locks, append>>
        /\ phase[a] = "copy"
        /\ \/ /\ archived' = archived \cup found[a]
              /\ phase' = [phase EXCEPT ![a] = "delete"] /\ UNCHANGED targets
           \/ /\ phase' = [phase EXCEPT ![a] = "idle"]
              /\ targets' = [targets EXCEPT ![a] = {}] /\ UNCHANGED archived
    BY DEF ArchiveCopy
  <1>2. found[a] \subseteq Committed /\ found[a] \in SUBSET Event
    BY DEF Archiving, TypeOK
  <1>3. Committed' = Committed /\ archived \subseteq archived'
    BY <1>1, <1>2 DEF Committed
  <1>4. TypeOK'
    <2>1. archived' \subseteq Event /\ live' \subseteq Event /\ payloads' \subseteq Nat
      BY <1>1, <1>2 DEF TypeOK
    <2>2. /\ phase' \in [Archiver -> {"idle", "events", "copy", "delete"}]
          /\ targets' \in [Archiver -> SUBSET Event] /\ found' \in [Archiver -> SUBSET Event]
      BY <1>1, SMT DEF TypeOK
    <2> QED
      BY <1>1, <2>1, <2>2 DEF TypeOK, locks, append
  <1>5. Archiving'
    <2> SUFFICES ASSUME NEW b \in Archiver
                 PROVE  /\ targets'[b] \subseteq Committed' /\ found'[b] \subseteq Committed'
                        /\ phase'[b] = "copy" => targets'[b] \subseteq found'[b] \cup archived'
                        /\ phase'[b] = "delete" => targets'[b] \subseteq archived'
      BY DEF Archiving
    <2>1. CASE b # a
      BY <2>1, <1>1, <1>3 DEF Archiving, TypeOK
    <2>2. CASE b = a
      BY <2>2, <1>1, <1>3 DEF Archiving, TypeOK
    <2> QED
      BY <2>1, <2>2
  <1>6. PayloadsKept'
    BY <1>1 DEF PayloadsKept
  <1> QED
    BY <1>1, <1>3, <1>4, <1>5, <1>6, LogUnchanged

\* The payloads that go are those of events that go: no other event has their number.
LEMMA ArchiveDeleteIInv ==
  ASSUME IInv, NEW a \in Archiver, ArchiveDelete(a)
  PROVE  IInv' /\ Committed' = Committed
  <1> USE DEF IInv
  <1>1. /\ UNCHANGED <<archived, claims, sequences, terminal, nextGlobal, locks, append, found>>
        /\ phase[a] = "delete" /\ phase' = [phase EXCEPT ![a] = "idle"]
        /\ payloads' = payloads \ {e.global : e \in targets[a]}
        /\ live' = live \ (targets[a] \cap archived)
        /\ targets' = [targets EXCEPT ![a] = {}]
    BY DEF ArchiveDelete
  <1>2. targets[a] \subseteq archived
    BY <1>1 DEF Archiving
  <1>3. Committed' = Committed
    BY <1>1 DEF Committed
  <1>4. TypeOK'
    <2>1. live' \subseteq Event /\ payloads' \subseteq Nat
      BY <1>1 DEF TypeOK
    <2>2. /\ phase' \in [Archiver -> {"idle", "events", "copy", "delete"}]
          /\ targets' \in [Archiver -> SUBSET Event]
      BY <1>1, SMT DEF TypeOK
    <2> QED
      BY <1>1, <2>1, <2>2 DEF TypeOK, locks, append
  <1>5. Archiving'
    BY <1>1, <1>3 DEF Archiving, TypeOK
  <1>6. PayloadsKept'
    <2> SUFFICES ASSUME NEW e \in live', e.key \in Oversized
                 PROVE  e.global \in payloads'
      BY DEF PayloadsKept
    <2>1. e \in live /\ e \notin targets[a] /\ e.global \in payloads
      BY <1>1, <1>2 DEF PayloadsKept
    <2>2. \A t \in targets[a] : t.global # e.global
      BY <1>2, <2>1 DEF OrdersAgree, Committed
    <2> QED
      BY <1>1, <2>1, <2>2
  <1> QED
    BY <1>1, <1>3, <1>4, <1>5, <1>6, LogUnchanged

\* A node that stops between the archive transactions.
LEMMA ArchiveCrashIInv ==
  ASSUME IInv, NEW a \in Archiver, ArchiveCrash(a)
  PROVE  IInv' /\ Committed' = Committed
  <1> USE DEF IInv
  <1>1. /\ UNCHANGED <<tables, nextGlobal, locks, append>>
        /\ phase' = [phase EXCEPT ![a] = "idle"]
        /\ targets' = [targets EXCEPT ![a] = {}] /\ found' = [found EXCEPT ![a] = {}]
    BY DEF ArchiveCrash
  <1>2. Committed' = Committed
    BY <1>1 DEF Committed, tables
  <1>3. TypeOK'
    BY <1>1, SMT DEF TypeOK, tables, locks, append
  <1>4. Archiving' /\ PayloadsKept'
    BY <1>1, <1>2 DEF Archiving, PayloadsKept, TypeOK, tables
  <1> QED
    BY <1>1, <1>2, <1>3, <1>4, LogUnchanged DEF tables

-----------------------------------------------------------------------------

\* Every step keeps the invariant and every event: either of the two tables has it.
LEMMA StepIInv ==
  ASSUME IInv, [Next]_vars
  PROVE  IInv' /\ Committed \subseteq Committed'
  <1>1. CASE UNCHANGED vars
    <2>1. Committed' = Committed /\ UNCHANGED <<claims, sequences, nextGlobal, locks, append>>
      BY <1>1 DEF vars, tables, Committed
    <2>2. TypeOK' /\ Archiving' /\ PayloadsKept'
      BY <1>1, <2>1
      DEF vars, tables, locks, append, archive, IInv, TypeOK, Archiving, PayloadsKept
    <2> QED
      BY <2>1, <2>2, LogUnchanged DEF IInv
  <1>2. ASSUME NEW p \in Proc, \/ \E i \in Instance, k \in IdemKey : BeginAppend(p, i, k)
                               \/ ActiveInstanceGuard(p) \/ AssignSequence(p)
                               \/ ClaimIdempotency(p) \/ InsertEvent(p) \/ Abort(p)
        PROVE  IInv' /\ Committed \subseteq Committed'
    <2>1. IInv'
      BY <1>2, BeginAppendIInv, ActiveInstanceGuardIInv, AssignSequenceIInv, ClaimIdempotencyIInv,
         InsertEventIInv, RollbackIInv DEF Abort
    <2>2. UNCHANGED tables
      BY <1>2 DEF BeginAppend, ActiveInstanceGuard, AssignSequence, ClaimIdempotency, InsertEvent,
                  Abort, Rollback
    <2> QED
      BY <2>1, <2>2 DEF tables, Committed
  <1>3. ASSUME NEW a \in Archiver, \/ BeginArchive(a) \/ ArchiveFindEvents(a) \/ ArchiveCopy(a)
                                   \/ ArchiveDelete(a) \/ ArchiveCrash(a)
        PROVE  IInv' /\ Committed \subseteq Committed'
    BY <1>3, BeginArchiveIInv, ArchiveFindEventsIInv, ArchiveCopyIInv, ArchiveDeleteIInv,
       ArchiveCrashIInv
  <1> QED
    BY <1>1, <1>2, <1>3, CommitIInv, TerminateIInv DEF Next, AppendStep

\* IInv holds in every state of the specification.
THEOREM Invariance == Spec => []IInv
  <1>1. IInv /\ [Next]_vars => IInv'
    BY StepIInv
  <1> QED
    BY <1>1, InitIInv, PTL DEF Spec

\* The variables keep their types for any number of processes, archivers and events.
THEOREM TypeCorrect == Spec => []TypeOK
  BY Invariance, PTL DEF IInv

\* An instance's events are numbered 1, 2, ... without a hole or a repetition,
\* whatever interleaving of appends, rollbacks and archive runs produced them.
THEOREM SequenceTheorem == Spec => []SequenceContiguous
  <1>1. IInv => SequenceContiguous
    <2> SUFFICES ASSUME IInv, NEW i \in Instance
                 PROVE  /\ {e.seq : e \in EventsOf(i, Committed)} = 1..sequences[i]
                        /\ \A e, f \in EventsOf(i, Committed) : e.seq = f.seq => e = f
      BY DEF SequenceContiguous
    <2>1. \A e \in EventsOf(i, Committed) :
             e \in Committed /\ e.instance = i /\ e.seq \in 1..sequences[i]
      BY SMT DEF EventsOf, IInv, Numbered, TypeOK, Committed, Event
    <2>2. \A n \in 1..sequences[i] : \E e \in EventsOf(i, Committed) : e.seq = n
      BY DEF EventsOf, IInv, Numbered
    <2> QED
      BY <2>1, <2>2 DEF IInv, NumberedOnce
  <1> QED
    BY <1>1, Invariance, PTL

\* An idempotency key yields at most one event, live or archived, and is never
\* spent without its event.
THEOREM IdempotencyTheorem == Spec => []OneEventPerKey
  BY Invariance, PTL DEF IInv

\* global_seq orders the events of an instance as their own numbers do.
THEOREM OrdersTheorem == Spec => []OrdersAgree
  BY Invariance, PTL DEF IInv

\* No step loses a committed event or the payload of a live one.
THEOREM NothingIsLostTheorem == Spec => NothingIsLost
  <1>1. IInv /\ [Next]_vars =>
          [/\ Committed \subseteq Committed'
           /\ \A e \in live' : e.key \in Oversized => e.global \in payloads']_vars
    <2> SUFFICES ASSUME IInv, [Next]_vars
                 PROVE  /\ Committed \subseteq Committed'
                        /\ \A e \in live' : e.key \in Oversized => e.global \in payloads'
      OBVIOUS
    <2> QED
      BY StepIInv DEF IInv, PayloadsKept
  <1> QED
    BY <1>1, Invariance, PTL DEF Spec, NothingIsLost
-----------------------------------------------------------------------------
(* The readers *)

\* Nothing leaves the archive.
LEMMA ArchiveGrows == [Next]_vars => archived \subseteq archived'
  BY DEF Next, AppendStep, vars, tables, BeginAppend, ActiveInstanceGuard, AssignSequence,
         ClaimIdempotency, InsertEvent, Commit, Abort, Rollback, Terminate, BeginArchive,
         ArchiveFindEvents, ArchiveCopy, ArchiveDelete, ArchiveCrash

\* Readers read: whoever runs beside the store, it takes no step of theirs, so all that is
\* proved of EventStore holds with them.
THEOREM ReadersOnlyRead == ReadersSpec => Spec
  <1>1. ReadersInit => Init
    BY DEF ReadersInit
  <1>2. [ReadersNext]_readersVars => [Next]_vars
    BY DEF ReadersNext, Reader, ReadGlobal, ReadLive, ReadArchive, ReadPayloads, ReplayArchive,
           ReplayLive, ReplayPayloads, readersVars
  <1> QED
    BY <1>1, <1>2, PTL DEF ReadersSpec, Spec

\* What a read that has asked the live table lacks is in the archive, and stays there until
\* it is asked: the order of its two queries.
Gathered ==
  /\ step = "readArchive" => began \subseteq fromLive \cup EventsOf(reading, archived)
  /\ step \in {"readPayloads", "read"} => began \subseteq fromLive \cup fromArchive

\* A step of the store takes nothing from what is gathered.
LEMMA StoreKeepsGathered ==
  ASSUME Gathered, [Next]_vars, UNCHANGED read
  PROVE  Gathered'
  <1>1. archived \subseteq archived'
    BY ArchiveGrows
  <1>2. EventsOf(reading, archived) \subseteq EventsOf(reading', archived')
    BY <1>1 DEF EventsOf, read
  <1> QED
    BY <1>2 DEF Gathered, read

\* The first query of a read finds all that is not archived.
LEMMA ReadLiveGathers ==
  ASSUME NEW i \in Instance, ReadLive(i)
  PROVE  Gathered'
  <1>1. /\ step' = "readArchive" /\ reading' = i /\ archived' = archived
        /\ began' = EventsOf(i, live \cup archived) /\ fromLive' = EventsOf(i, live)
    BY DEF ReadLive, Committed, vars, tables
  <1>2. EventsOf(i, live \cup archived) = EventsOf(i, live) \cup EventsOf(i, archived)
    BY DEF EventsOf
  <1> QED
    BY <1>1, <1>2 DEF Gathered

\* Every step of a reader keeps what is gathered.
LEMMA ReaderKeepsGathered ==
  ASSUME Gathered, Reader
  PROVE  Gathered'
  <1>1. CASE \E i \in Instance : ReadLive(i)
    BY <1>1, ReadLiveGathers
  <1>2. CASE ReadArchive
    BY <1>2 DEF ReadArchive, Gathered
  <1>3. CASE ReadPayloads
    BY <1>3 DEF ReadPayloads, Gathered
  <1>4. CASE \/ \E i \in Instance : ReplayArchive(i)
             \/ ReplayLive \/ ReplayPayloads
    <2>1. step' \notin {"readArchive", "readPayloads", "read"}
      BY <1>4 DEF ReplayArchive, ReplayLive, ReplayPayloads
    <2> QED
      BY <2>1 DEF Gathered
  <1> QED
    BY <1>1, <1>2, <1>3, <1>4 DEF Reader

\* A read began with all the events of its instance up to some number.
BeganWhole == \A e \in began : 1..e.seq \subseteq {f.seq : f \in began}

\* What its queries returned is of its instance, and committed.
FromCommitted == Returned \subseteq EventsOf(reading, Committed)

\* The events of an instance that are committed have the numbers up to that of any of them.
LEMMA CommittedWhole ==
  ASSUME IInv, NEW i \in Instance, NEW e \in EventsOf(i, Committed)
  PROVE  1..e.seq \subseteq {f.seq : f \in EventsOf(i, Committed)}
  <1>1. e \in Committed /\ e.instance = i /\ e.seq <= sequences[i]
    BY DEF EventsOf, IInv, Numbered
  <1>2. e.seq \in Nat /\ sequences[i] \in Nat
    BY <1>1 DEF IInv, TypeOK, Committed, Event
  <1>3. SUFFICES ASSUME NEW n \in 1..e.seq
                 PROVE  \E f \in EventsOf(i, Committed) : f.seq = n
    OBVIOUS
  <1>4. n \in 1..sequences[i]
    BY <1>1, <1>2
  <1> QED
    BY <1>4 DEF EventsOf, IInv, Numbered

\* The first query of a read or of a replay sees what is committed.
LEMMA FirstQuerySound ==
  ASSUME IInv, NEW i \in Instance, ReadLive(i) \/ ReplayArchive(i)
  PROVE  BeganWhole' /\ FromCommitted'
  <1>1. /\ reading' = i /\ began' = EventsOf(i, Committed) /\ Committed' = Committed
        /\ Returned' = EventsOf(i, live) \/ Returned' = EventsOf(i, archived)
    BY DEF ReadLive, ReplayArchive, Returned, Committed, vars, tables
  <1>2. BeganWhole'
    BY <1>1, CommittedWhole DEF BeganWhole
  <1>3. FromCommitted'
    BY <1>1 DEF FromCommitted, EventsOf, Committed
  <1> QED
    BY <1>2, <1>3

\* Every step of a reader keeps what a read began with and what it returned sound.
LEMMA ReaderKeepsSound ==
  ASSUME IInv, BeganWhole, FromCommitted, Reader
  PROVE  BeganWhole' /\ FromCommitted'
  <1>1. CASE \E i \in Instance : ReadLive(i) \/ ReplayArchive(i)
    BY <1>1, FirstQuerySound
  <1>2. CASE ReadArchive \/ ReplayLive
    <2>1. /\ UNCHANGED <<began, reading>> /\ Committed' = Committed
          /\ Returned' \subseteq Returned \cup EventsOf(reading, Committed)
      BY <1>2 DEF ReadArchive, ReplayLive, Returned, Committed, EventsOf, vars, tables
    <2> QED
      BY <2>1 DEF BeganWhole, FromCommitted
  <1>3. CASE ReadPayloads \/ ReplayPayloads
    <2>1. UNCHANGED <<began, reading>> /\ Committed' = Committed /\ Returned' = Returned
      BY <1>3 DEF ReadPayloads, ReplayPayloads, Returned, Committed, vars, tables
    <2> QED
      BY <2>1 DEF BeganWhole, FromCommitted
  <1> QED
    BY <1>1, <1>2, <1>3 DEF Reader

ReadInv == Gathered /\ BeganWhole /\ FromCommitted

\* Beside the store, a step keeps ReadInv.
LEMMA ReadersStep ==
  ASSUME IInv, ReadInv, [ReadersNext]_readersVars
  PROVE  ReadInv'
  <1> USE DEF ReadInv
  <1>1. CASE [Next]_vars /\ UNCHANGED read
    <2>1. Gathered'
      BY <1>1, StoreKeepsGathered
    <2>2. Committed \subseteq Committed'
      BY <1>1, StepIInv
    <2>3. Returned' = Returned /\ reading' = reading /\ began' = began
      BY <1>1 DEF read, Returned
    <2> QED
      BY <2>1, <2>2, <2>3 DEF BeganWhole, FromCommitted, EventsOf
  <1>2. CASE Reader
    BY <1>2, ReaderKeepsGathered, ReaderKeepsSound
  <1> QED
    BY <1>1, <1>2 DEF ReadersNext, ReadGlobal, readersVars

\* What is returned has one event to a number, since the store has.
LEMMA ReadInvSuffices == IInv /\ ReadInv => ReadIsComplete
  <1> SUFFICES ASSUME IInv, ReadInv, step = "read"
               PROVE  ReadIsComplete
    BY DEF ReadIsComplete
  <1> USE DEF ReadInv
  <1>1. began \subseteq Returned /\ Returned \subseteq EventsOf(reading, Committed)
    BY DEF Gathered, FromCommitted, Returned
  <1>2. \A e \in began : 1..e.seq \subseteq {f.seq : f \in Returned}
    BY <1>1 DEF BeganWhole
  <1>3. \A e, f \in Returned : e.seq = f.seq => e = f
    BY <1>1 DEF EventsOf, IInv, NumberedOnce
  <1> QED
    BY <1>1, <1>2, <1>3 DEF ReadIsComplete

\* A read of one instance beside any number of appends and archive runs, which may move
\* events between its queries, returns all that was committed when it began, no hole below
\* any of it, nothing else's, and one event to a number.
THEOREM ReadTheorem == ReadersSpec => []ReadIsComplete
  <1>1. ReadersInit => ReadInv
    BY DEF ReadersInit, ReadInv, Gathered, BeganWhole, FromCommitted, Returned
  <1>2. IInv /\ ReadInv /\ [ReadersNext]_readersVars => ReadInv'
    BY ReadersStep
  <1> QED
    BY <1>1, <1>2, ReadInvSuffices, ReadersOnlyRead, Invariance, PTL DEF ReadersSpec
=============================================================================
