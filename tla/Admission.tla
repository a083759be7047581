------------------------------ MODULE Admission ------------------------------
(***************************************************************************)
(* Letflow.Admission (src/lib/letflow/admission.ex): the server that hands *)
(* out admission slots against one global budget and a fair share of it    *)
(* per tenant.  The HTTP plugs and the scheduler's poller use an instance  *)
(* that does not monitor its callers; tenant scripts use one that does     *)
(* (MonitorCallers).  One server step is one GenServer callback; callers   *)
(* are processes that call, hold, release and may be killed at any point,  *)
(* between the call and its answer too.                                    *)
(***************************************************************************)
EXTENDS Integers, FiniteSets

CONSTANTS Holder,            \* processes that acquire slots
          Slug,              \* tenant schemas
          Ref,               \* reference() values, recycled once forgotten
          PoolSize,          \* Repo pool_size
          ReservedHeadroom,  \* connections kept away from admission
          MonitorCallers,    \* the :monitor_callers option
          MaxGeneration,     \* bound on deactivations of one tenant
          MaxHeld,           \* bound on the Ref structs a caller keeps
          Global, NoCall     \* the :global pool; "no call outstanding"

ASSUME ConstantsAssumption ==
  /\ PoolSize \in Nat /\ ReservedHeadroom \in Nat /\ MaxGeneration \in Nat
  /\ MaxHeld \in Nat
  /\ MonitorCallers \in BOOLEAN
  /\ IsFiniteSet(Slug)
  /\ Global \notin Slug /\ NoCall \notin Slug /\ NoCall # Global

VARIABLES globalInUse, tenants, generations, refs, monitors,  \* server state
          downs,                       \* slots whose :DOWN is in the mailbox
          alive, held, request         \* the callers

server  == <<globalInUse, tenants, generations, refs, monitors>>
callers == <<alive, held, request>>
vars    == <<server, downs, callers>>

Pool == Slug \cup {Global}

GlobalCap == IF PoolSize - ReservedHeadroom > 1 THEN PoolSize - ReservedHeadroom ELSE 1

Put(f, x, v)  == [y \in DOMAIN f \cup {x} |-> IF y = x THEN v ELSE f[y]]
Remove(f, xs) == [y \in DOMAIN f \ xs |-> f[y]]

Empty == [x \in {} |-> x]

\* A share computed with one tenant too few.
PerTenantCapOffByOne(ts) ==
  LET share == GlobalCap \div (IF Cardinality(DOMAIN ts) > 1
                               THEN Cardinality(DOMAIN ts) - 1 ELSE 1)
  IN  IF share > 1 THEN share ELSE 1

(***************************************************************************)
(* The share of the budget a tenant may use while the tenants of ts are    *)
(* tracked: max(div(global_cap, map_size(tenants)), 1).                    *)
(***************************************************************************)
PerTenantCap(ts) ==
  LET share == GlobalCap \div Cardinality(DOMAIN ts)
  IN  IF share > 1 THEN share ELSE 1

EnsureTracked(s) ==
  IF s \in DOMAIN tenants THEN tenants
  ELSE Put(tenants, s, [inUse |-> 0, generation |-> generations[s]])

Init ==
  /\ globalInUse = 0 /\ tenants = Empty /\ refs = Empty /\ monitors = Empty
  /\ generations = [s \in Slug |-> 0]
  /\ downs = {}
  /\ alive = [h \in Holder |-> TRUE]
  /\ held = [h \in Holder |-> {}]
  /\ request = [h \in Holder |-> NoCall]

\* A reference no one remembers: make_ref() never returns one that is in use.
Fresh(r) == r \notin DOMAIN refs /\ \A h \in Holder : r \notin held[h]

-----------------------------------------------------------------------------
(* The server's callbacks *)

\* Monitoring as if the caller were always alive.
MonitorLivingCaller(h, r) ==
  /\ monitors' = IF MonitorCallers THEN Put(monitors, r, h) ELSE monitors
  /\ UNCHANGED downs

\* A server that relies on its callers' own clean-up.
NoMonitor(h, r) == UNCHANGED <<monitors, downs>>

\* maybe_monitor/3
MonitorCaller(h, r) ==
  /\ monitors' = IF MonitorCallers THEN Put(monitors, r, h) ELSE monitors
  \* monitoring a process that is already dead yields its :DOWN at once
  /\ downs' = IF MonitorCallers /\ ~alive[h] THEN downs \cup {r} ELSE downs

Reply(h, rs) ==
  /\ request' = [request EXCEPT ![h] = NoCall]
  /\ held' = IF alive[h] THEN [held EXCEPT ![h] = @ \cup rs] ELSE held
  /\ UNCHANGED alive

\* handle_call({:try_acquire, :global})
TryAcquireGlobal(h) ==
  /\ request[h] = Global
  /\ \/ /\ globalInUse < GlobalCap
        /\ \E r \in Ref :
             /\ Fresh(r)
             /\ globalInUse' = globalInUse + 1
             /\ refs' = Put(refs, r, [pool |-> Global, generation |-> 0])
             /\ MonitorCaller(h, r)
             /\ Reply(h, {r})
        /\ UNCHANGED <<tenants, generations>>
     \/ /\ globalInUse >= GlobalCap
        /\ Reply(h, {})
        /\ UNCHANGED <<server, downs>>

\* handle_call({:try_acquire, {:tenant, schema}}): the tenant is tracked, and
\* so counted in everyone's share, whatever the decision is.
TryAcquireTenant(h, s) ==
  /\ request[h] = s
  /\ LET ts    == EnsureTracked(s)
         entry == ts[s]
         fits  == globalInUse < GlobalCap /\ entry.inUse < PerTenantCap(ts)
     IN \/ /\ fits
           /\ \E r \in Ref :
                /\ Fresh(r)
                /\ globalInUse' = globalInUse + 1
                /\ tenants' = Put(ts, s, [entry EXCEPT !.inUse = @ + 1])
                /\ refs' = Put(refs, r, [pool |-> s, generation |-> entry.generation])
                /\ MonitorCaller(h, r)
                /\ Reply(h, {r})
           /\ UNCHANGED generations
        \/ /\ ~fits
           /\ tenants' = ts
           /\ Reply(h, {})
           /\ UNCHANGED <<globalInUse, generations, refs, monitors, downs>>

\* Giving the slot back to whatever epoch the tenant is in now.
ReleaseTenantAnyEpoch(slot) ==
  IF slot.pool \in DOMAIN tenants
  THEN [tenants EXCEPT ![slot.pool].inUse = @ - 1]
  ELSE tenants

\* release_tenant/3: only the epoch the slot was taken in gets it back.
ReleaseTenant(slot) ==
  IF slot.pool \in DOMAIN tenants /\ tenants[slot.pool].generation = slot.generation
  THEN [tenants EXCEPT ![slot.pool].inUse = @ - 1]
  ELSE tenants

\* release_id/2 without the unknown-id clause: a second release frees again.
ReleaseIdTwice(r) ==
  /\ monitors' = Remove(monitors, {r})
  /\ downs' = downs \ {r}
  /\ globalInUse' = globalInUse - 1
  /\ tenants' = IF r \in DOMAIN refs THEN ReleaseTenant(refs[r]) ELSE tenants
  /\ refs' = Remove(refs, {r})
  /\ UNCHANGED generations

\* release_id/2: drop and flush the monitor, then free the slot if it is known.
ReleaseId(r) ==
  /\ monitors' = Remove(monitors, {r})
  /\ downs' = downs \ {r}
  /\ IF r \in DOMAIN refs
     THEN /\ globalInUse' = globalInUse - 1
          /\ tenants' = ReleaseTenant(refs[r])
          /\ refs' = Remove(refs, {r})
     ELSE UNCHANGED <<globalInUse, tenants, refs>>
  /\ UNCHANGED generations

\* handle_call({:release, ref}); the caller may keep the struct and call again,
\* as the plug's clean-up of a request that already released does.
Release(h, r) ==
  /\ alive[h] /\ request[h] = NoCall /\ r \in held[h]
  /\ ReleaseId(r)
  /\ \E kept \in SUBSET {r} : held' = [held EXCEPT ![h] = (@ \ {r}) \cup kept]
  /\ UNCHANGED <<alive, request>>

\* handle_info({:DOWN, ...}): a :DOWN of a monitor the server does not know is
\* dropped.  Every entry of downs is a monitor the server knows (NoOrphanSlot).
Down(r) ==
  /\ r \in downs
  /\ ReleaseId(r)
  /\ UNCHANGED callers

\* handle_call({:forget_tenant, schema}), called when a tenant is deactivated.
ForgetTenant(s) ==
  /\ generations[s] < MaxGeneration
  /\ tenants' = Remove(tenants, {s})
  /\ generations' = [generations EXCEPT ![s] = @ + 1]
  /\ UNCHANGED <<globalInUse, refs, monitors, downs, callers>>

-----------------------------------------------------------------------------
(* The callers and the supervisor *)

Call(h, pool) ==
  /\ alive[h] /\ request[h] = NoCall
  /\ Cardinality(held[h]) < MaxHeld
  /\ request' = [request EXCEPT ![h] = pool]
  /\ UNCHANGED <<server, downs, alive, held>>

\* A caller is killed (a sweep that timed out, a watchdog, a lost connection):
\* no `after` of its own runs; its monitors fire.
Kill(h) ==
  /\ alive[h]
  /\ alive' = [alive EXCEPT ![h] = FALSE]
  /\ held' = [held EXCEPT ![h] = {}]
  /\ downs' = downs \cup {r \in DOMAIN monitors : monitors[r] = h}
  /\ UNCHANGED <<server, request>>

\* A new process; it is not sent the messages of the one before.
Spawn(h) ==
  /\ ~alive[h] /\ request[h] = NoCall
  /\ alive' = [alive EXCEPT ![h] = TRUE]
  /\ UNCHANGED <<server, downs, held, request>>

\* The server crashes and its supervisor starts it again from init/1; calls it
\* had not answered exit their callers.
Restart ==
  /\ globalInUse' = 0 /\ tenants' = Empty /\ refs' = Empty /\ monitors' = Empty
  /\ generations' = [s \in Slug |-> 0]
  /\ downs' = {}
  /\ request' = [h \in Holder |-> NoCall]
  /\ alive' = [h \in Holder |-> alive[h] /\ request[h] = NoCall]
  /\ held' = [h \in Holder |-> IF request[h] = NoCall THEN held[h] ELSE {}]

-----------------------------------------------------------------------------

Next ==
  \/ \E h \in Holder :
       \/ TryAcquireGlobal(h)
       \/ \E s \in Slug : TryAcquireTenant(h, s)
       \/ \E r \in Ref : Release(h, r)
       \/ \E pool \in Pool : Call(h, pool)
       \/ Kill(h)
       \/ Spawn(h)
  \/ \E r \in Ref : Down(r)
  \/ \E s \in Slug : ForgetTenant(s)
  \/ Restart

(***************************************************************************)
(* The server keeps serving its mailbox, and the work a slot admits ends   *)
(* while its holder lives: both are what the callers' own code does (a     *)
(* request ends, a sweep ends or is killed after sweep_task_timeout_ms).   *)
(* No holder is obliged to die and the server is not obliged to crash.     *)
(***************************************************************************)
Fairness ==
  /\ \A h \in Holder : WF_vars(TryAcquireGlobal(h) \/ \E s \in Slug : TryAcquireTenant(h, s))
  /\ \A r \in Ref : WF_vars(Down(r))
  /\ \A h \in Holder, r \in Ref : WF_vars(Release(h, r) /\ r \notin held'[h])

Spec == Init /\ [][Next]_vars
FairSpec == Spec /\ Fairness

-----------------------------------------------------------------------------
(* Properties *)

TypeOK ==
  /\ globalInUse \in Nat
  /\ DOMAIN tenants \subseteq Slug
  /\ \A s \in DOMAIN tenants : tenants[s] \in [inUse : Nat, generation : Nat]
  /\ generations \in [Slug -> Nat]
  /\ DOMAIN refs \subseteq Ref
  /\ \A r \in DOMAIN refs : refs[r] \in [pool : Pool, generation : Nat]
  /\ DOMAIN monitors \subseteq Ref
  /\ \A r \in DOMAIN monitors : monitors[r] \in Holder
  /\ downs \subseteq Ref
  /\ alive \in [Holder -> BOOLEAN]
  /\ held \in [Holder -> SUBSET Ref]
  /\ request \in [Holder -> Pool \cup {NoCall}]

\* The slots of the tenant's present epoch.
SlotsOf(s) ==
  {r \in DOMAIN refs : refs[r].pool = s /\ refs[r].generation = tenants[s].generation}

\* The counters are the live slots, no more and no fewer, and stay within the
\* budget, through double releases, evictions and reactivations of a tenant and
\* restarts of the server (admission.ex, release_id/2 and release_tenant/3).
Accounting ==
  /\ globalInUse = Cardinality(DOMAIN refs)
  /\ globalInUse <= GlobalCap
  /\ \A s \in DOMAIN tenants : tenants[s].inUse = Cardinality(SlotsOf(s))

\* A step that gives a tenant one more slot leaves it within the share computed
\* from the tenants tracked at that moment, the caller's own included; a tenant
\* above a share that shrank since gets nothing (per_tenant_cap/1).
FairShareAtGrant ==
  [][\A s \in DOMAIN tenants' :
        s \in DOMAIN tenants /\ tenants'[s].inUse > tenants[s].inUse
          => tenants'[s].inUse <= GlobalCap \div Cardinality(DOMAIN tenants')
             \/ tenants'[s].inUse = 1]_vars

\* With monitoring, every slot the server counts is watched, and is either held
\* by the live process it was given to or about to be freed by a :DOWN; a
\* monitor outlives no slot (maybe_monitor/3, drop_monitor/2).
NoOrphanSlot ==
  MonitorCallers =>
    /\ DOMAIN monitors = DOMAIN refs
    /\ downs \subseteq DOMAIN refs
    /\ \A r \in DOMAIN refs : r \in downs \/ r \in held[monitors[r]]

\* A slot that was granted is freed in the end, whether its holder finishes,
\* is killed while it works, or is killed before the answer reaches it.
SlotReclaimed == \A r \in Ref : r \in DOMAIN refs ~> r \notin DOMAIN refs
=============================================================================
