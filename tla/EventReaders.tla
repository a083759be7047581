---------------------------- MODULE EventReaders ----------------------------
(***************************************************************************)
(* Those who read the store of EventStore while it is written and          *)
(* archived: read/2 (src/lib/letflow/event_store.ex) and read_full_log/3,  *)
(* the read a reconstruction replays (engine/reconstruction.ex), each in   *)
(* its three queries, and a consumer that pages through read_global/1.     *)
(* Every query sees what is committed when it runs (READ COMMITTED).       *)
(***************************************************************************)
EXTENDS EventStore

VARIABLES reading,               \* the instance that is read
          step,                  \* the next query of the read, or its result
          began,                 \* what was committed when the read began
          fromLive, fromArchive, \* what its queries returned
          cursor                 \* after_global_seq of the consumer

read == <<reading, step, began, fromLive, fromArchive>>
readersVars == <<vars, read, cursor>>

Finished == {"none", "read", "replay", "failed"}

ReadersInit ==
  /\ Init
  /\ reading = None /\ step = "none"
  /\ began = {} /\ fromLive = {} /\ fromArchive = {}
  /\ cursor = 0

\* resolve_payloads/2 and its copy in reconstruction.ex: an event of the live table
\* may point to a payload that is gone by now.
Resolved == \A e \in fromLive : e.key \in Oversized => e.global \in payloads

-----------------------------------------------------------------------------
(* read/2 *)

\* query_instance_events/3, first query
ReadLive(i) ==
  /\ step \in Finished
  /\ reading' = i /\ step' = "readArchive"
  /\ began' = EventsOf(i, Committed)
  /\ fromLive' = EventsOf(i, live) /\ fromArchive' = {}
  /\ UNCHANGED <<vars, cursor>>

\* query_instance_events/3 when the archive is not asked
ReadLiveOnly ==
  /\ step = "readArchive" /\ step' = "readPayloads"
  /\ UNCHANGED <<vars, reading, began, fromLive, fromArchive, cursor>>

\* query_instance_events/3, second query.  The merge appends one result to the other
\* and sorts, so an event that is in both is returned twice.
ReadArchive ==
  /\ step = "readArchive" /\ step' = "readPayloads"
  /\ fromArchive' = EventsOf(reading, archived)
  /\ UNCHANGED <<vars, reading, began, fromLive, cursor>>

ReadPayloads ==
  /\ step = "readPayloads"
  /\ step' = IF Resolved THEN "read" ELSE "failed"
  /\ UNCHANGED <<vars, reading, began, fromLive, fromArchive, cursor>>

-----------------------------------------------------------------------------
(* read_full_log/3, which reconstruct_instance/2 replays *)

ReplayArchive(i) ==
  /\ step \in Finished
  /\ reading' = i /\ step' = "replayLive"
  /\ began' = EventsOf(i, Committed)
  /\ fromArchive' = EventsOf(i, archived) /\ fromLive' = {}
  /\ UNCHANGED <<vars, cursor>>

ReplayLive ==
  /\ step = "replayLive" /\ step' = "replayPayloads"
  /\ fromLive' = EventsOf(reading, live)
  /\ UNCHANGED <<vars, reading, began, fromArchive, cursor>>

\* find_duplicate_sequence_number/1: an event met in both tables fails the replay.
ReplayPayloads ==
  /\ step = "replayPayloads"
  /\ step' = IF Resolved /\ fromLive \cap fromArchive = {} THEN "replay" ELSE "failed"
  /\ UNCHANGED <<vars, reading, began, fromLive, fromArchive, cursor>>

-----------------------------------------------------------------------------

\* A page of read_global/1, cut anywhere by its limit; the consumer goes on from
\* the last event of the page.
ReadGlobal ==
  /\ \E e \in live : e.global > cursor /\ cursor' = e.global
  /\ UNCHANGED <<vars, read>>

Reader ==
  \/ \E i \in Instance : ReadLive(i) \/ ReplayArchive(i)
  \/ ReadArchive \/ ReadPayloads
  \/ ReplayLive \/ ReplayPayloads

ReadersNext ==
  \/ Next /\ UNCHANGED <<read, cursor>>
  \/ Reader
  \/ ReadGlobal

ReadersSpec == ReadersInit /\ [][ReadersNext]_readersVars

-----------------------------------------------------------------------------

Returned == fromLive \cup fromArchive

\* What one unpaged read/2 returns, though archive runs move events from one table to
\* the other between its queries: every event of the instance that was committed when
\* it began, so no hole below any of them; nothing that is not the instance's or is not
\* committed; never two events with one number.  (The live table first, the archive
\* second is what makes the first so.)
ReadIsComplete ==
  step = "read" =>
    /\ began \subseteq Returned /\ Returned \subseteq EventsOf(reading, Committed)
    /\ \A e \in began : 1..e.seq \subseteq {f.seq : f \in Returned}
    /\ \A e, f \in Returned : e.seq = f.seq => e = f

\* What read/2 returns has each event once.
\* The code does not keep it (README, Disagreements): no run checks it.
ReadOnce == step = "read" => fromLive \cap fromArchive = {}

\* What reconstruct_instance/2 replays has every event of the instance that was
\* committed when it began (reconstruction.ex: the archive first is "the safer
\* order").
\* The code does not keep it (README, Disagreements): no run checks it.
ReplayIsComplete == step = "replay" => began \subseteq fromLive \cup fromArchive

\* What a cursor on read_global/1 is taken to promise: no event appears behind a
\* position that a page has already passed.
\* The code does not keep it (README, Disagreements): no run checks it.
NothingBehindTheCursor == [][\A e \in live' \ live : e.global > cursor]_readersVars
=============================================================================
