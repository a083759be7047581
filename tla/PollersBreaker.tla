--------------------------- MODULE PollersBreaker ---------------------------
(***************************************************************************)
(* Letflow.Supervisor.PollersBreaker                                       *)
(* (src/lib/letflow/supervisor/pollers_breaker.ex): the circuit breaker    *)
(* that alone restarts Letflow.Supervisor.Pollers, whose child spec is     *)
(* :temporary.  Time is counted in seconds.  The breaker handles what is   *)
(* in its mailbox within the second it arrives in, in an order that is not *)
(* fixed; Pollers may fail any number of times in a second.  The breaker is *)
(* a permanent child of Letflow.Supervisor (src/lib/letflow/application.ex),*)
(* as Infrastructure and Http are: one restart more than max_restarts of   *)
(* them within max_seconds stops the whole application.                    *)
(***************************************************************************)
EXTENDS Integers, Sequences

CONSTANTS Window,    \* @observation_window_ms, in seconds
          Backoff,   \* @backoff_schedule_ms, in seconds
          MaxRestarts, \* max_restarts of Letflow.Supervisor
          MaxSeconds,  \* its max_seconds
          MaxWindows   \* bound: Pollers exits while fewer timers are running

ASSUME DurationsAssumption ==
  /\ Window \in Nat \ {0}
  /\ Backoff \in Seq(Nat \ {0}) /\ Backoff # <<>>
  /\ MaxRestarts \in Nat \ {0} /\ MaxSeconds \in Nat
  /\ MaxWindows \in Nat

VARIABLES state, trips,   \* :state and :consecutive_trips
          watching,       \* observation_timer_ref # nil
          monitored,      \* pollers_monitor_ref # nil
          down,           \* a :DOWN with that ref is in the mailbox
          probeIn,        \* seconds to :half_open_probe, -1 when none is due
          windows,        \* seconds to each :observation_window_elapsed, oldest first
          up,             \* Pollers is running
          upFor,          \* for how many seconds, up to Window
          running,        \* Letflow.Supervisor is, and with it the breaker
          ages            \* seconds since its last MaxRestarts restarts of a child, latest first

windowVars == <<watching, windows>>
budgetVars == <<running, ages>>
breakerVars == <<state, trips, windowVars, monitored, down, probeIn, up, upFor, budgetVars>>

NoProbe == -1

\* An age that no longer counts.
LongAgo == [i \in 1 .. MaxRestarts |-> MaxSeconds + 1]

BreakerInit ==
  /\ state = "closed" /\ trips = 0 /\ watching = FALSE
  /\ monitored = TRUE /\ down = FALSE
  /\ probeIn = NoProbe /\ windows = <<>>
  /\ up = TRUE /\ upFor = 0
  /\ running = TRUE /\ ages = LongAgo

-----------------------------------------------------------------------------

(* The supervisor above, and the breaker's own end *)

\* A restart more than max_restarts within max_seconds: the application stops.
Exhausted == ages[MaxRestarts] <= MaxSeconds

ApplicationStops ==
  /\ running' = FALSE /\ up' = FALSE /\ upFor' = 0 /\ ages' = LongAgo
  /\ state' = "closed" /\ trips' = 0 /\ watching' = FALSE
  /\ monitored' = FALSE /\ down' = FALSE
  /\ probeIn' = NoProbe /\ windows' = <<>>

Spent == [i \in 1 .. MaxRestarts |-> IF i = 1 THEN 0 ELSE ages[i - 1]]

\* The breaker exits, and its timers with it.  Its supervisor starts it again, if the budget
\* allows: init/1 monitors Pollers, or the name nil when it is not registered, which is :DOWN
\* at once.
BreakerExits ==
  IF Exhausted
  THEN ApplicationStops
  ELSE /\ ages' = Spent
       /\ state' = "closed" /\ trips' = 0 /\ watching' = FALSE
       /\ monitored' = TRUE /\ down' = ~up
       /\ probeIn' = NoProbe /\ windows' = <<>>
       /\ UNCHANGED <<running, up, upFor>>

-----------------------------------------------------------------------------

\* restart_pollers/0 and start_observation_timer/0, when Pollers starts.  An answer
\* {:error, {:already_started, pid}}, of the Pollers whose exit the supervisor has not seen
\* yet, is here a start that an exit follows.
RestartPollers ==
  /\ up' = TRUE /\ upFor' = 0 /\ monitored' = TRUE /\ down' = FALSE
  /\ watching' = TRUE
  /\ windows' = Append(windows, Window)
  /\ UNCHANGED budgetVars

\* Any other {:error, reason} of the start has no clause in restart_pollers/0.
RestartRaises == BreakerExits

\* backoff_for/1: past the end of the schedule, its last interval.
BackoffFor(n) == Backoff[IF n < Len(Backoff) THEN n ELSE Len(Backoff)]

\* A counter of trips that is not kept within the schedule.
NextTripUnbounded == trips + 1

\* consecutive_trips counts on for ever; backoff_for/1, its only reader, tells
\* apart no values past the length of the schedule.
NextTrip == IF trips < Len(Backoff) THEN trips + 1 ELSE trips

\* trip_to_open/1 that schedules no probe.
TripWithoutProbe ==
  /\ state' = "open"
  /\ trips' = NextTrip
  /\ probeIn' = NoProbe
  /\ monitored' = FALSE /\ down' = FALSE /\ watching' = FALSE
  /\ UNCHANGED <<windows, up, upFor, budgetVars>>

\* trip_to_open/1: the running observation timer is forgotten, not cancelled.
TripToOpen ==
  /\ state' = "open"
  /\ trips' = NextTrip
  /\ probeIn' = BackoffFor(trips')
  /\ monitored' = FALSE /\ down' = FALSE /\ watching' = FALSE
  /\ UNCHANGED <<windows, up, upFor, budgetVars>>

FirstDown ==
  /\ state = "closed" /\ ~watching
  /\ \/ RestartPollers /\ UNCHANGED <<state, trips, probeIn>>
     \/ RestartRaises

RepeatedDown ==
  /\ state = "half_open" \/ (state = "closed" /\ watching)
  /\ TripToOpen

\* handle_info({:DOWN, ...}).  While :open no monitor is kept, so the clause
\* for that state has nothing to handle (WatchOrBackoff).
HandlePollersDown == down /\ (FirstDown \/ RepeatedDown)

\* Variant: the breaker forgets to leave :open.
ProbeStaysOpen ==
  \/ probeIn' = NoProbe /\ RestartPollers /\ UNCHANGED <<state, trips>>
  \/ RestartRaises

\* The probe of an open breaker.
Probe ==
  \/ state' = "half_open" /\ probeIn' = NoProbe /\ RestartPollers /\ UNCHANGED trips
  \/ RestartRaises

\* handle_info(:half_open_probe); outside :open it is ignored, and none is ever
\* due there.
HalfOpenProbe ==
  /\ probeIn = 0
  /\ IF state = "open"
     THEN Probe
     ELSE probeIn' = NoProbe
          /\ UNCHANGED <<state, trips, windowVars, monitored, down, up, upFor, budgetVars>>

\* handle_info(:observation_window_elapsed): the message does not say which
\* window it ends.
ObservationWindowElapsed ==
  /\ windows # <<>> /\ Head(windows) = 0
  /\ windows' = Tail(windows)
  /\ watching' = FALSE
  /\ IF state = "half_open"
     THEN state' = "closed" /\ trips' = 0
     ELSE UNCHANGED <<state, trips>>
  /\ UNCHANGED <<monitored, down, probeIn, up, upFor, budgetVars>>

-----------------------------------------------------------------------------
(* Pollers, the clock and the breaker's own supervisor *)

\* Pollers exhausts its own restart budget and exits.
PollersExit ==
  /\ up /\ Len(windows) < MaxWindows
  /\ up' = FALSE /\ upFor' = 0
  /\ down' = monitored
  /\ UNCHANGED <<state, trips, windowVars, monitored, probeIn, budgetVars>>

\* The breaker exits for a reason of its own.
BreakerRestart == running /\ BreakerExits

\* Infrastructure or Http exits: its restart is one of the same budget.
SiblingRestart ==
  /\ running
  /\ IF Exhausted
     THEN ApplicationStops
     ELSE /\ ages' = Spent
          /\ UNCHANGED <<state, trips, windowVars, monitored, down, probeIn, up, upFor, running>>

\* Somebody starts the application again.
ApplicationStart ==
  /\ ~running /\ running' = TRUE /\ up' = TRUE /\ monitored' = TRUE
  /\ UNCHANGED <<state, trips, windowVars, down, probeIn, upFor, ages>>

Tick ==
  /\ running /\ ~down /\ probeIn # 0 /\ \A i \in DOMAIN windows : windows[i] > 0
  /\ probeIn' = IF probeIn = NoProbe THEN NoProbe ELSE probeIn - 1
  /\ windows' = [i \in DOMAIN windows |-> windows[i] - 1]
  /\ upFor' = IF up /\ upFor < Window THEN upFor + 1 ELSE upFor
  /\ ages' = [i \in 1 .. MaxRestarts |-> IF ages[i] <= MaxSeconds THEN ages[i] + 1 ELSE ages[i]]
  /\ UNCHANGED <<state, trips, watching, monitored, down, up, running>>

Breaker == HandlePollersDown \/ HalfOpenProbe \/ ObservationWindowElapsed

BreakerNext ==
  \/ Breaker \/ PollersExit \/ BreakerRestart \/ SiblingRestart \/ ApplicationStart \/ Tick

BreakerSpec == BreakerInit /\ [][BreakerNext]_breakerVars

\* The clock runs, the breaker handles its mailbox; nobody is obliged to fail or to exit, and
\* nobody to start the application again.
BreakerFairSpec == BreakerSpec /\ WF_breakerVars(Tick) /\ WF_breakerVars(HandlePollersDown)
                 /\ WF_breakerVars(HalfOpenProbe) /\ WF_breakerVars(ObservationWindowElapsed)

-----------------------------------------------------------------------------

BreakerTypeOK ==
  /\ state \in {"closed", "open", "half_open"}
  /\ trips \in 0..Len(Backoff)
  /\ watching \in BOOLEAN /\ monitored \in BOOLEAN /\ down \in BOOLEAN /\ up \in BOOLEAN
  /\ probeIn \in Int
  /\ windows \in Seq(0..Window)
  /\ upFor \in 0..Window
  /\ running \in BOOLEAN /\ ages \in [1 .. MaxRestarts -> 0 .. MaxSeconds + 1]

\* As long as the application runs, something will bring Pollers back, whatever has happened:
\* it is running and watched, or its :DOWN is waiting, or the breaker is :open with one probe
\* due, no later than the backoff of the trip; and it never runs while :open.  An application
\* that has stopped runs no Pollers and no timer.
WatchOrBackoff ==
  /\ BreakerTypeOK
  /\ IF ~running
     THEN state = "closed" /\ ~up /\ ~monitored /\ ~down /\ probeIn = NoProbe /\ windows = <<>>
     ELSE IF state = "open"
     THEN ~up /\ ~monitored /\ probeIn \in 0..BackoffFor(trips)
     ELSE monitored /\ down = ~up /\ probeIn = NoProbe

\* Pollers that is down is started again, or the application stops, which it does when its
\* permanent children, the breaker whose starts of Pollers are refused among them, exit more
\* often than their supervisor allows.
PollersComeBack == ~up ~> (up \/ ~running)

\* The documented promise to the supervisor above: what the breaker does about Pollers "consumes
\* exactly ZERO" of its budget, "for any fault pattern" (moduledoc).  The code does not keep it, since
\* a start that is refused ends the breaker (README, Disagreements): no run checks it.
PollersSpendNothing == [][Breaker => UNCHANGED budgetVars]_breakerVars

\* The documented meaning of the observation window: it ends, which closes a
\* half-open breaker and makes the next exit a first one again, only when the
\* Pollers it watches has run for the whole of it (moduledoc, "State machine").
\* The code does not keep it (README, Disagreements): no run checks it.
WindowObservedInFull ==
  [][ObservationWindowElapsed /\ watching => upFor = Window]_breakerVars
=============================================================================
