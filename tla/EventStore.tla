----------------------------- MODULE EventStore -----------------------------
(***************************************************************************)
(* Letflow.EventStore (src/lib/letflow/event_store.ex) in one tenant       *)
(* schema: append/2 as the database transaction it is, statement by        *)
(* statement, run by any number of processes on any number of instances;   *)
(* archive/1 in its two transactions.  EventReaders adds those who read.   *)
(*                                                                         *)
(* What a transaction writes is seen at its commit, except the values it   *)
(* draws from the global_seq sequence, which are never given back.         *)
(***************************************************************************)
EXTENDS Integers, FiniteSets

CONSTANTS Proc, Archiver,  \* processes that append; nodes that archive
          Instance,
          IdemKey,         \* idempotency keys; one event asked for per key
          Oversized,       \* the keys whose payload is kept beside the event
          MaxGlobal,       \* bound on the global_seq values drawn
          None

ASSUME ConstantsAssumption ==
  /\ Oversized \subseteq IdemKey
  /\ MaxGlobal \in Nat
  /\ None \notin Proc /\ None \notin Instance /\ None \notin IdemKey

\* An event; global identifies it (uuids and timestamps are left out).
Event == [key : IdemKey, instance : Instance, seq : Nat, global : Nat]

VARIABLES live, archived,     \* events, events_archive
          payloads,           \* event_payload_store: global_seq of its events
          claims,             \* the committed keys of idempotency_records
          sequences,          \* instance_sequences.next_seq - 1
          terminal,           \* instances whose projection is terminal
          nextGlobal,         \* last value drawn from global_seq
          sequenceLock,       \* the transaction that holds a sequence row
          claimLock,          \* the one that has inserted a key, uncommitted
          pc, draft,          \* append/2 of each process
          phase, targets, found   \* archive/1 of each archiver

tables  == <<live, archived, payloads, claims, sequences, terminal>>
locks   == <<sequenceLock, claimLock>>
append  == <<pc, draft>>
archive == <<phase, targets, found>>
vars    == <<tables, nextGlobal, locks, append, archive>>

Committed == live \cup archived

EventsOf(i, events) == {e \in events : e.instance = i}

\* The draft of a process that appends nothing.
NoDraft == [key |-> None, instance |-> None, seq |-> 0, global |-> 0]

Init ==
  /\ live = {} /\ archived = {} /\ payloads = {} /\ claims = {}
  /\ sequences = [i \in Instance |-> 0]
  /\ terminal = {}
  /\ nextGlobal = 0
  /\ sequenceLock = [i \in Instance |-> None]
  /\ claimLock = [k \in IdemKey |-> None]
  /\ pc = [p \in Proc |-> "idle"]
  /\ draft = [p \in Proc |-> NoDraft]
  /\ phase = [a \in Archiver |-> "idle"]
  /\ targets = [a \in Archiver |-> {}] /\ found = [a \in Archiver |-> {}]

-----------------------------------------------------------------------------
(* append/2 *)

BeginAppend(p, i, k) ==
  /\ pc[p] = "idle"
  /\ pc' = [pc EXCEPT ![p] = "guard"]
  /\ draft' = [draft EXCEPT ![p] = [key |-> k, instance |-> i, seq |-> 0, global |-> 0]]
  /\ UNCHANGED <<tables, nextGlobal, locks, archive>>

\* COMMIT or ROLLBACK: the rows are released, the process goes back to its caller.
Release(p) ==
  /\ sequenceLock' = [i \in Instance |-> IF sequenceLock[i] = p THEN None ELSE sequenceLock[i]]
  /\ claimLock' = [k \in IdemKey |-> IF claimLock[k] = p THEN None ELSE claimLock[k]]
  /\ pc' = [pc EXCEPT ![p] = "idle"]
  /\ draft' = [draft EXCEPT ![p] = NoDraft]

Rollback(p) == Release(p) /\ UNCHANGED <<tables, nextGlobal, archive>>

\* active_instance_guard/3 reads the projection without a lock.
ActiveInstanceGuard(p) ==
  /\ pc[p] = "guard"
  /\ IF draft[p].instance \in terminal THEN Rollback(p)
     ELSE /\ pc' = [pc EXCEPT ![p] = "sequence"]
          /\ UNCHANGED <<tables, nextGlobal, locks, draft, archive>>

\* assign_sequence/3 that finds no row of a new instance to take.
AssignSequenceNoRow(p) ==
  /\ pc[p] = "sequence"
  /\ sequenceLock[draft[p].instance] = None
  /\ sequenceLock' = [sequenceLock EXCEPT ![draft[p].instance] = p]
  /\ draft' = [draft EXCEPT ![p].seq =
       IF sequences[draft[p].instance] = 0 THEN None ELSE sequences[draft[p].instance] + 1]
  /\ pc' = [pc EXCEPT ![p] = "claim"]
  /\ UNCHANGED <<tables, nextGlobal, claimLock, archive>>

\* assign_sequence/3 without FOR UPDATE: the number is read, not reserved.
AssignSequenceUnlocked(p) ==
  /\ pc[p] = "sequence"
  /\ draft' = [draft EXCEPT ![p].seq = sequences[draft[p].instance] + 1]
  /\ pc' = [pc EXCEPT ![p] = "claim"]
  /\ UNCHANGED <<tables, nextGlobal, locks, archive>>

\* assign_sequence/3: the row is inserted if it is not there and taken FOR UPDATE;
\* its new value is seen at the commit.
AssignSequence(p) ==
  /\ pc[p] = "sequence"
  /\ sequenceLock[draft[p].instance] = None
  /\ sequenceLock' = [sequenceLock EXCEPT ![draft[p].instance] = p]
  /\ draft' = [draft EXCEPT ![p].seq = sequences[draft[p].instance] + 1]
  /\ pc' = [pc EXCEPT ![p] = "claim"]
  /\ UNCHANGED <<tables, nextGlobal, claimLock, archive>>

\* A claim that looks for the key first and inserts it later.
ClaimIdempotencyUnlocked(p) ==
  /\ pc[p] = "claim"
  /\ IF draft[p].key \in claims THEN Rollback(p)
     ELSE /\ pc' = [pc EXCEPT ![p] = "insert"]
          /\ UNCHANGED <<tables, nextGlobal, locks, draft, archive>>

\* claim_idempotency/3: an insert of a key that another transaction has inserted
\* waits for its outcome; a committed key makes this append a duplicate, and the
\* sequence number it took is rolled back (resolve_duplicate/3: the caller is told
\* of the first event while it is live, of a lookup failure once it is archived).
ClaimIdempotency(p) ==
  /\ pc[p] = "claim"
  /\ claimLock[draft[p].key] = None
  /\ IF draft[p].key \in claims THEN Rollback(p)
     ELSE /\ claimLock' = [claimLock EXCEPT ![draft[p].key] = p]
          /\ pc' = [pc EXCEPT ![p] = "insert"]
          /\ UNCHANGED <<tables, nextGlobal, sequenceLock, draft, archive>>

\* insert_event/3: the column default draws the next global_seq.
InsertEvent(p) ==
  /\ pc[p] = "insert" /\ nextGlobal < MaxGlobal
  /\ nextGlobal' = nextGlobal + 1
  /\ draft' = [draft EXCEPT ![p].global = nextGlobal']
  /\ pc' = [pc EXCEPT ![p] = "commit"]
  /\ UNCHANGED <<tables, locks, archive>>

\* A commit that leaves next_seq for later.
CommitSequenceLater(p) ==
  /\ pc[p] = "commit"
  /\ live' = live \cup {draft[p]}
  /\ payloads' = IF draft[p].key \in Oversized THEN payloads \cup {draft[p].global} ELSE payloads
  /\ claims' = claims \cup {draft[p].key}
  /\ Release(p)
  /\ UNCHANGED <<archived, sequences, terminal, nextGlobal, archive>>

\* store_oversized_payload/3, update_projection/3 and COMMIT
Commit(p) ==
  /\ pc[p] = "commit"
  /\ live' = live \cup {draft[p]}
  /\ payloads' = IF draft[p].key \in Oversized THEN payloads \cup {draft[p].global} ELSE payloads
  /\ claims' = claims \cup {draft[p].key}
  /\ sequences' = [sequences EXCEPT ![draft[p].instance] = draft[p].seq]
  /\ Release(p)
  /\ UNCHANGED <<archived, terminal, nextGlobal, archive>>

\* The process, its connection or the caller's transaction fails.
Abort(p) == pc[p] # "idle" /\ Rollback(p)

\* The engine ends an instance: its last event's commit holds the sequence row.
Terminate(i) ==
  /\ i \notin terminal /\ sequenceLock[i] = None
  /\ terminal' = terminal \cup {i}
  /\ UNCHANGED <<live, archived, payloads, claims, sequences, nextGlobal, locks, append,
                 archive>>

-----------------------------------------------------------------------------
(* archive/1 *)

\* compute_archive_target_event_ids/2: whatever the retention policies make
\* eligible; they look at events only, never at instances.
BeginArchive(a) ==
  /\ phase[a] = "idle"
  /\ \E due \in SUBSET live \ {{}} : targets' = [targets EXCEPT ![a] = due]
  /\ phase' = [phase EXCEPT ![a] = "events"]
  /\ UNCHANGED <<tables, nextGlobal, locks, append, found>>

\* archive_phase1_insert/2, first query
ArchiveFindEvents(a) ==
  /\ phase[a] = "events"
  /\ found' = [found EXCEPT ![a] = targets[a] \cap live]
  /\ phase' = [phase EXCEPT ![a] = "copy"]
  /\ UNCHANGED <<tables, nextGlobal, locks, append, targets>>

\* archive_phase1_insert/2: the payloads, the insert (on conflict nothing) and the
\* commit; an event whose payload another run has removed by now ends the run.
ArchiveCopy(a) ==
  /\ phase[a] = "copy"
  /\ IF \A e \in found[a] : e.key \in Oversized => e.global \in payloads
     THEN /\ archived' = archived \cup found[a]
          /\ phase' = [phase EXCEPT ![a] = "delete"]
          /\ UNCHANGED targets
     ELSE /\ phase' = [phase EXCEPT ![a] = "idle"]
          /\ targets' = [targets EXCEPT ![a] = {}]
          /\ UNCHANGED archived
  /\ found' = [found EXCEPT ![a] = {}]
  /\ UNCHANGED <<live, payloads, claims, sequences, terminal, nextGlobal, locks, append>>

\* A delete whose payloads go in a transaction of their own, first.
ArchiveDeletePayloadsFirst(a) ==
  /\ phase[a] = "delete"
  /\ IF {e.global : e \in targets[a]} \cap payloads # {}
     THEN /\ payloads' = payloads \ {e.global : e \in targets[a]}
          /\ UNCHANGED <<live, phase, targets>>
     ELSE /\ live' = live \ (targets[a] \cap archived)
          /\ phase' = [phase EXCEPT ![a] = "idle"]
          /\ targets' = [targets EXCEPT ![a] = {}]
          /\ UNCHANGED payloads
  /\ UNCHANGED <<archived, claims, sequences, terminal, nextGlobal, locks, append, found>>

\* archive_phase2_delete/2: the payloads of every target, the targets that are in
\* the archive, in one transaction.
ArchiveDelete(a) ==
  /\ phase[a] = "delete"
  /\ payloads' = payloads \ {e.global : e \in targets[a]}
  /\ live' = live \ (targets[a] \cap archived)
  /\ phase' = [phase EXCEPT ![a] = "idle"]
  /\ targets' = [targets EXCEPT ![a] = {}]
  /\ UNCHANGED <<archived, claims, sequences, terminal, nextGlobal, locks, append, found>>

\* The node stops between the two transactions, or in one of them.
ArchiveCrash(a) ==
  /\ phase[a] # "idle"
  /\ phase' = [phase EXCEPT ![a] = "idle"]
  /\ targets' = [targets EXCEPT ![a] = {}]
  /\ found' = [found EXCEPT ![a] = {}]
  /\ UNCHANGED <<tables, nextGlobal, locks, append>>

-----------------------------------------------------------------------------

AppendStep(p) ==
  ActiveInstanceGuard(p) \/ AssignSequence(p) \/ ClaimIdempotency(p) \/ InsertEvent(p) \/ Commit(p)

Next ==
  \/ \E p \in Proc :
       \/ \E i \in Instance, k \in IdemKey : BeginAppend(p, i, k)
       \/ AppendStep(p)
       \/ Abort(p)
  \/ \E i \in Instance : Terminate(i)
  \/ \E a \in Archiver :
       \/ BeginArchive(a) \/ ArchiveFindEvents(a) \/ ArchiveCopy(a) \/ ArchiveDelete(a)
       \/ ArchiveCrash(a)

Spec == Init /\ [][Next]_vars

-----------------------------------------------------------------------------
(* Properties *)

Draft == [key : IdemKey \cup {None}, instance : Instance \cup {None}, seq : Nat, global : Nat]

TypeOK ==
  /\ live \subseteq Event /\ archived \subseteq Event
  /\ payloads \subseteq Nat
  /\ claims \subseteq IdemKey
  /\ sequences \in [Instance -> Nat]
  /\ terminal \subseteq Instance
  /\ nextGlobal \in Nat
  /\ sequenceLock \in [Instance -> Proc \cup {None}]
  /\ claimLock \in [IdemKey -> Proc \cup {None}]
  /\ pc \in [Proc -> {"idle", "guard", "sequence", "claim", "insert", "commit"}]
  /\ draft \in [Proc -> Draft]
  /\ phase \in [Archiver -> {"idle", "events", "copy", "delete"}]
  /\ targets \in [Archiver -> SUBSET Event] /\ found \in [Archiver -> SUBSET Event]

\* The events of an instance, wherever they are kept, are numbered 1, 2, ... up to
\* the row of instance_sequences, each number once: no rollback, duplicate, crash
\* or archive run leaves a hole or a second event with a number.
SequenceContiguous ==
  \A i \in Instance :
    /\ {e.seq : e \in EventsOf(i, Committed)} = 1..sequences[i]
    /\ \A e, f \in EventsOf(i, Committed) : e.seq = f.seq => e = f

\* An idempotency key yields one event in the whole tenant, however many processes
\* use it at once, for whatever instances, before and after its event is archived.
OneEventPerKey ==
  /\ claims = {e.key : e \in Committed}
  /\ \A e, f \in Committed : e.key = f.key => e = f

\* The tenant-wide order agrees with the order within each instance: read_global/1
\* never shows an instance's events out of their own order.
OrdersAgree ==
  \A e, f \in Committed :
    /\ e.global = f.global => e = f
    /\ e.instance = f.instance => (e.seq < f.seq <=> e.global < f.global)

\* A committed event is never lost, nor is the payload that a live event points to:
\* archive/1 may stop between its transactions or run twice at once.
NothingIsLost ==
  [][/\ Committed \subseteq Committed'
     /\ \A e \in live' : e.key \in Oversized => e.global \in payloads']_vars
=============================================================================
