------------------------------ MODULE NodeProofs ------------------------------
(***************************************************************************)
(* The two processes of a node that others rely on, each by itself.        *)
(*                                                                         *)
(* The accounting of Letflow.Admission, for any budget and any number of   *)
(* callers, tenants and references.  A counter is a cardinality, so what   *)
(* is inductive is that a slot of an epoch that is over is never counted   *)
(* again (Epochs): a tenant that is tracked anew starts with no slots.     *)
(*                                                                         *)
(* WatchOrBackoff of the pollers' breaker for any window and any schedule  *)
(* of backoffs.  What it does not say, and the clock needs, is that an     *)
(* open breaker has tripped: backoff_for/1 has no interval for a count of  *)
(* zero.                                                                   *)
(***************************************************************************)
EXTENDS Admission, PollersBreaker, FiniteSetTheorems, SequenceTheorems, TLAPS

-----------------------------------------------------------------------------
(* Admission *)

\* The slots of tenant s taken in its epoch g.
SlotsIn(rs, s, g) == {r \in DOMAIN rs : rs[r].pool = s /\ rs[r].generation = g}

Epochs ==
  /\ \A s \in DOMAIN tenants : tenants[s].generation = generations[s]
  /\ \A r \in DOMAIN refs : refs[r].pool \in Slug =>
       /\ refs[r].generation <= generations[refs[r].pool]
       /\ refs[r].pool \notin DOMAIN tenants
            => refs[r].generation < generations[refs[r].pool]

Finite == IsFiniteSet(DOMAIN refs)

\* Accounting, the share of the budget apart.
Counted ==
  /\ globalInUse = Cardinality(DOMAIN refs)
  /\ globalInUse <= GlobalCap
  /\ \A s \in DOMAIN tenants :
       tenants[s].inUse = Cardinality(SlotsIn(refs, s, tenants[s].generation))

IInv == TypeOK /\ Finite /\ Epochs /\ Counted /\ NoOrphanSlot

-----------------------------------------------------------------------------

\* The global cap is at least one slot.
LEMMA CapType == GlobalCap \in Nat /\ GlobalCap >= 1
  BY ConstantsAssumption, SMT DEF GlobalCap

\* What Put changes and what it keeps.
LEMMA PutFacts ==
  ASSUME NEW f, NEW x, NEW v
  PROVE  /\ DOMAIN Put(f, x, v) = DOMAIN f \cup {x}
         /\ Put(f, x, v)[x] = v
         /\ \A y \in DOMAIN f : y # x => Put(f, x, v)[y] = f[y]
  BY DEF Put

\* What Remove keeps.
LEMMA RemoveFacts ==
  ASSUME NEW f, NEW xs
  PROVE  /\ DOMAIN Remove(f, xs) = DOMAIN f \ xs
         /\ \A y \in DOMAIN f \ xs : Remove(f, xs)[y] = f[y]
  BY DEF Remove

\* The slots of an epoch are as countable as the slots.
LEMMA SlotsFinite ==
  ASSUME NEW rs, IsFiniteSet(DOMAIN rs), NEW s, NEW g
  PROVE  IsFiniteSet(SlotsIn(rs, s, g)) /\ Cardinality(SlotsIn(rs, s, g)) \in Nat
  BY FS_Subset, FS_CardinalityType DEF SlotsIn

\* A slot more, or less, of an epoch.
LEMMA SlotsAfterPut ==
  ASSUME NEW rs, IsFiniteSet(DOMAIN rs), NEW r, r \notin DOMAIN rs, NEW slot, NEW s, NEW g
  PROVE  Cardinality(SlotsIn(Put(rs, r, slot), s, g)) =
           Cardinality(SlotsIn(rs, s, g))
             + (IF slot.pool = s /\ slot.generation = g THEN 1 ELSE 0)
  <1>1. /\ DOMAIN Put(rs, r, slot) = DOMAIN rs \cup {r}
        /\ Put(rs, r, slot)[r] = slot
        /\ \A y \in DOMAIN rs : Put(rs, r, slot)[y] = rs[y]
    BY DEF Put
  <1>2. IsFiniteSet(SlotsIn(rs, s, g)) /\ Cardinality(SlotsIn(rs, s, g)) \in Nat
    BY SlotsFinite
  <1>3. CASE slot.pool = s /\ slot.generation = g
    <2>1. SlotsIn(Put(rs, r, slot), s, g) = SlotsIn(rs, s, g) \cup {r}
      BY <1>1, <1>3 DEF SlotsIn
    <2>2. r \notin SlotsIn(rs, s, g)
      BY DEF SlotsIn
    <2>3. Cardinality(SlotsIn(rs, s, g) \cup {r}) = Cardinality(SlotsIn(rs, s, g)) + 1
      BY <1>2, <2>2, FS_AddElement
    <2> QED
      BY <1>3, <2>1, <2>3
  <1>4. CASE ~ (slot.pool = s /\ slot.generation = g)
    <2>1. SlotsIn(Put(rs, r, slot), s, g) = SlotsIn(rs, s, g)
      BY <1>1, <1>4 DEF SlotsIn
    <2> QED
      BY <1>2, <1>4, <2>1
  <1> QED
    BY <1>3, <1>4

\* A slot less: only its own epoch counts one fewer.
LEMMA SlotsAfterRemove ==
  ASSUME NEW rs, IsFiniteSet(DOMAIN rs), NEW r \in DOMAIN rs, NEW s, NEW g
  PROVE  Cardinality(SlotsIn(Remove(rs, {r}), s, g)) =
           Cardinality(SlotsIn(rs, s, g))
             - (IF rs[r].pool = s /\ rs[r].generation = g THEN 1 ELSE 0)
  <1>1. /\ DOMAIN Remove(rs, {r}) = DOMAIN rs \ {r}
        /\ \A y \in DOMAIN rs \ {r} : Remove(rs, {r})[y] = rs[y]
    BY RemoveFacts
  <1>2. IsFiniteSet(SlotsIn(rs, s, g)) /\ Cardinality(SlotsIn(rs, s, g)) \in Nat
    BY SlotsFinite
  <1>3. CASE rs[r].pool = s /\ rs[r].generation = g
    <2>1. SlotsIn(Remove(rs, {r}), s, g) = SlotsIn(rs, s, g) \ {r}
      BY <1>1 DEF SlotsIn
    <2>2. r \in SlotsIn(rs, s, g)
      BY <1>3 DEF SlotsIn
    <2>3. Cardinality(SlotsIn(rs, s, g) \ {r}) = Cardinality(SlotsIn(rs, s, g)) - 1
      BY <1>2, <2>2, FS_RemoveElement
    <2> QED
      BY <1>3, <2>1, <2>3
  <1>4. CASE ~ (rs[r].pool = s /\ rs[r].generation = g)
    <2>1. SlotsIn(Remove(rs, {r}), s, g) = SlotsIn(rs, s, g)
      BY <1>1, <1>4 DEF SlotsIn
    <2> QED
      BY <1>2, <1>4, <2>1
  <1> QED
    BY <1>3, <1>4

\* A server that has just started counts nothing.
LEMMA InitIInv == Init => IInv
  <1> SUFFICES ASSUME Init PROVE IInv
    OBVIOUS
  <1>1. DOMAIN tenants = {} /\ DOMAIN refs = {} /\ DOMAIN monitors = {}
    BY DEF Init, Empty
  <1>2. TypeOK
    BY <1>1 DEF Init, TypeOK
  <1>3. Finite /\ Counted
    BY <1>1, FS_EmptySet, CapType, SMT DEF Finite, Counted, Init
  <1>4. Epochs /\ NoOrphanSlot
    BY <1>1 DEF Epochs, NoOrphanSlot, Init
  <1> QED
    BY <1>2, <1>3, <1>4 DEF IInv

\* The inductive form of Accounting implies the one the run checks.
LEMMA AccountingFollows == IInv => Accounting
  BY DEF IInv, Counted, Accounting, SlotsOf, SlotsIn

\* An answer keeps the callers' types and takes no slot from anyone.
LEMMA ReplyType ==
  ASSUME TypeOK, NEW h \in Holder, NEW rs \in SUBSET Ref, Reply(h, rs)
  PROVE  /\ alive' \in [Holder -> BOOLEAN]
         /\ held' \in [Holder -> SUBSET Ref]
         /\ request' \in [Holder -> Pool \cup {NoCall}]
         /\ \A x \in Holder : held[x] \subseteq held'[x]
         /\ alive[h] => rs \subseteq held'[h]
  BY DEF TypeOK, Reply

\* What EnsureTracked(s) is for: s has an entry, of its present epoch, and every
\* entry counts the slots of its epoch.
Tracked(ts, s) ==
  /\ DOMAIN ts = DOMAIN tenants \cup {s}
  /\ \A x \in DOMAIN ts : /\ ts[x] \in [inUse : Nat, generation : Nat]
                          /\ ts[x].generation = generations[x]
                          /\ ts[x].inUse = Cardinality(SlotsIn(refs, x, ts[x].generation))
  /\ \A x \in DOMAIN tenants : ts[x] = tenants[x]

\* A new entry has the present epoch, in which no slot has been taken.
LEMMA TrackedFacts ==
  ASSUME IInv, NEW s \in Slug
  PROVE  Tracked(EnsureTracked(s), s)
  <1> SUFFICES ASSUME NEW ts, ts = EnsureTracked(s)
               PROVE  /\ DOMAIN ts = DOMAIN tenants \cup {s}
                      /\ \A x \in DOMAIN ts :
                           /\ ts[x] \in [inUse : Nat, generation : Nat]
                           /\ ts[x].generation = generations[x]
                           /\ ts[x].inUse = Cardinality(SlotsIn(refs, x, ts[x].generation))
                      /\ \A x \in DOMAIN tenants : ts[x] = tenants[x]
    BY DEF Tracked
  <1> DEFINE new == [inUse |-> 0, generation |-> generations[s]]
  <1>1. CASE s \in DOMAIN tenants
    BY <1>1 DEF EnsureTracked, IInv, TypeOK, Epochs, Counted
  <1>2. CASE s \notin DOMAIN tenants
    <2>1. /\ DOMAIN ts = DOMAIN tenants \cup {s} /\ ts[s] = new
          /\ \A x \in DOMAIN tenants : ts[x] = tenants[x]
      BY <1>2 DEF EnsureTracked, Put
    <2>2. new \in [inUse : Nat, generation : Nat] /\ new.generation = generations[s] /\ new.inUse = 0
      BY DEF IInv, TypeOK
    <2>3. SlotsIn(refs, s, generations[s]) = {}
      <3>1. \A r \in DOMAIN refs : refs[r].pool = s =>
              refs[r].generation < generations[s] /\ refs[r].generation \in Nat
        BY <1>2 DEF IInv, TypeOK, Epochs
      <3>2. generations[s] \in Nat
        BY DEF IInv, TypeOK
      <3> QED
        BY <3>1, <3>2, SMT DEF SlotsIn
    <2>4. Cardinality(SlotsIn(refs, s, generations[s])) = 0
      BY <2>3, FS_EmptySet
    <2>5. \A x \in DOMAIN tenants :
            /\ tenants[x] \in [inUse : Nat, generation : Nat]
            /\ tenants[x].generation = generations[x]
            /\ tenants[x].inUse = Cardinality(SlotsIn(refs, x, tenants[x].generation))
      BY DEF IInv, TypeOK, Epochs, Counted
    <2> QED
      BY <2>1, <2>2, <2>4, <2>5
  <1> QED
    BY <1>1, <1>2
-----------------------------------------------------------------------------
(* Granting *)

\* A new slot: it is watched, and its caller holds it or its :DOWN is on its way.
LEMMA GrantRefs ==
  ASSUME IInv, NEW h \in Holder, NEW r \in Ref, Fresh(r),
         NEW slot \in [pool : Pool, generation : Nat],
         refs' = Put(refs, r, slot), MonitorCaller(h, r), Reply(h, {r})
  PROVE  /\ r \notin DOMAIN refs
         /\ DOMAIN refs' \subseteq Ref
         /\ \A x \in DOMAIN refs' : refs'[x] \in [pool : Pool, generation : Nat]
         /\ DOMAIN monitors' \subseteq Ref /\ \A x \in DOMAIN monitors' : monitors'[x] \in Holder
         /\ downs' \subseteq Ref
         /\ Finite' /\ Cardinality(DOMAIN refs') = Cardinality(DOMAIN refs) + 1
         /\ NoOrphanSlot'
  <1>1. r \notin DOMAIN refs /\ \A x \in Holder : r \notin held[x]
    BY DEF Fresh
  <1>2. /\ DOMAIN refs' = DOMAIN refs \cup {r} /\ refs'[r] = slot
        /\ \A x \in DOMAIN refs : refs'[x] = refs[x]
    BY <1>1 DEF Put
  <1>3. /\ DOMAIN refs' \subseteq Ref
        /\ \A x \in DOMAIN refs' : refs'[x] \in [pool : Pool, generation : Nat]
    BY <1>2 DEF IInv, TypeOK
  <1>4. /\ DOMAIN monitors' \subseteq Ref /\ \A x \in DOMAIN monitors' : monitors'[x] \in Holder
        /\ MonitorCallers => /\ DOMAIN monitors' = DOMAIN monitors \cup {r} /\ monitors'[r] = h
                             /\ \A x \in DOMAIN monitors : x # r => monitors'[x] = monitors[x]
    BY DEF MonitorCaller, Put, IInv, TypeOK
  <1>5. downs' \subseteq Ref
    BY DEF MonitorCaller, IInv, TypeOK
  <1>6. Finite' /\ Cardinality(DOMAIN refs') = Cardinality(DOMAIN refs) + 1
    BY <1>1, <1>2, FS_AddElement DEF IInv, Finite
  <1>7. NoOrphanSlot'
    <2> SUFFICES ASSUME MonitorCallers
                 PROVE  /\ DOMAIN monitors' = DOMAIN refs' /\ downs' \subseteq DOMAIN refs'
                        /\ \A x \in DOMAIN refs' : x \in downs' \/ x \in held'[monitors'[x]]
      BY DEF NoOrphanSlot
    <2>1. /\ DOMAIN monitors = DOMAIN refs /\ downs \subseteq DOMAIN refs
          /\ \A x \in DOMAIN refs : x \in downs \/ x \in held[monitors[x]]
      BY DEF IInv, NoOrphanSlot
    <2>2. /\ DOMAIN monitors' = DOMAIN refs'
          /\ downs' = IF ~alive[h] THEN downs \cup {r} ELSE downs
      BY <1>2, <1>4, <2>1 DEF MonitorCaller
    <2>3. /\ \A x \in Holder : held[x] \subseteq held'[x]
          /\ alive[h] => r \in held'[h]
      BY ReplyType DEF IInv
    <2>4. \A x \in DOMAIN refs : x # r /\ monitors'[x] = monitors[x] /\ monitors[x] \in Holder
      BY <1>1, <1>4, <2>1 DEF IInv, TypeOK
    <2> QED
      BY <1>2, <1>4, <2>1, <2>2, <2>3, <2>4
  <1> QED
    BY <1>1, <1>3, <1>4, <1>5, <1>6, <1>7

\* try_acquire(:global) counts its slot for no tenant.
LEMMA TryAcquireGlobalIInv ==
  ASSUME IInv, NEW h \in Holder, TryAcquireGlobal(h)
  PROVE  IInv' /\ UNCHANGED tenants
  <1>1. CASE Reply(h, {}) /\ UNCHANGED <<server, downs>>
    <2>1. TypeOK'
      BY <1>1, ReplyType DEF IInv, TypeOK, server
    <2>2. (Finite /\ Epochs /\ Counted)'
      BY <1>1 DEF IInv, Finite, Epochs, Counted, server
    <2>3. NoOrphanSlot'
      BY <1>1, ReplyType DEF IInv, NoOrphanSlot, server, TypeOK
    <2> QED
      BY <1>1, <2>1, <2>2, <2>3 DEF IInv, server
  <1>2. ASSUME globalInUse < GlobalCap, NEW r \in Ref, Fresh(r), globalInUse' = globalInUse + 1,
               refs' = Put(refs, r, [pool |-> Global, generation |-> 0]),
               MonitorCaller(h, r), Reply(h, {r}), UNCHANGED <<tenants, generations>>
        PROVE  IInv' /\ UNCHANGED tenants
    <2> DEFINE slot == [pool |-> Global, generation |-> 0]
    <2>1. slot \in [pool : Pool, generation : Nat] /\ slot.pool = Global /\ Global \notin Slug
      BY ConstantsAssumption DEF Pool
    <2> HIDE DEF slot
    <2>2. refs' = Put(refs, r, slot)
      BY <1>2 DEF slot
    <2>3. r \notin DOMAIN refs /\ Finite' /\ NoOrphanSlot'
          /\ Cardinality(DOMAIN refs') = Cardinality(DOMAIN refs) + 1
      BY <1>2, <2>1, <2>2, GrantRefs
    <2>4. TypeOK'
      <3>1. globalInUse' \in Nat
        BY <1>2, SMT DEF IInv, TypeOK
      <3> QED
        BY <1>2, <2>1, <2>2, <3>1, GrantRefs, ReplyType DEF IInv, TypeOK
    <2>5. Epochs'
      <3>1. /\ DOMAIN refs' = DOMAIN refs \cup {r} /\ refs'[r] = slot
            /\ \A x \in DOMAIN refs : refs'[x] = refs[x]
        BY <2>2, <2>3 DEF Put
      <3> QED
        BY <1>2, <2>1, <3>1 DEF IInv, Epochs
    <2>6. Counted'
      <3>1. globalInUse' = Cardinality(DOMAIN refs') /\ globalInUse' <= GlobalCap
        BY <1>2, <2>3, CapType, SMT DEF IInv, Counted, TypeOK
      <3>2. ASSUME NEW s \in DOMAIN tenants
            PROVE  tenants[s].inUse = Cardinality(SlotsIn(refs', s, tenants[s].generation))
        <4>1. s # Global /\ tenants[s].inUse \in Nat
          BY <2>1 DEF IInv, TypeOK
        <4>2. Cardinality(SlotsIn(refs', s, tenants[s].generation)) =
                Cardinality(SlotsIn(refs, s, tenants[s].generation)) + 0
          BY <2>1, <2>2, <2>3, <4>1, SlotsAfterPut DEF IInv, Finite
        <4> QED
          BY <4>1, <4>2 DEF IInv, Counted
      <3> QED
        BY <1>2, <3>1, <3>2 DEF Counted
    <2> QED
      BY <1>2, <2>3, <2>4, <2>5, <2>6 DEF IInv
  <1> QED
    BY <1>1, <1>2 DEF TryAcquireGlobal

\* A share that is granted, as FairShareAtGrant states it.
Fair ==
  \A s \in DOMAIN tenants' :
    s \in DOMAIN tenants /\ tenants'[s].inUse > tenants[s].inUse
      => tenants'[s].inUse <= GlobalCap \div Cardinality(DOMAIN tenants')
         \/ tenants'[s].inUse = 1

\* try_acquire({:tenant, schema}): the new slot is of the tenant's present epoch, and
\* within its share.
LEMMA TryAcquireTenantIInv ==
  ASSUME IInv, NEW h \in Holder, NEW s \in Slug, TryAcquireTenant(h, s)
  PROVE  IInv' /\ Fair
  <1> DEFINE ts == EnsureTracked(s)
  <1>1. /\ DOMAIN ts = DOMAIN tenants \cup {s} /\ DOMAIN ts \subseteq Slug
        /\ \A x \in DOMAIN ts : /\ ts[x] \in [inUse : Nat, generation : Nat]
                                /\ ts[x].generation = generations[x]
                                /\ ts[x].inUse = Cardinality(SlotsIn(refs, x, ts[x].generation))
        /\ \A x \in DOMAIN tenants : ts[x] = tenants[x]
    <2>1. Tracked(ts, s)
      BY TrackedFacts
    <2> HIDE DEF ts
    <2>2. DOMAIN tenants \subseteq Slug
      BY DEF IInv, TypeOK
    <2> QED
      BY <2>1, <2>2 DEF Tracked
  <1> HIDE DEF ts
  <1>2. CASE /\ tenants' = ts /\ Reply(h, {})
             /\ UNCHANGED <<globalInUse, generations, refs, monitors, downs>>
    <2>1. TypeOK'
      BY <1>1, <1>2, ReplyType DEF IInv, TypeOK
    <2>2. (Finite /\ Epochs /\ Counted)'
      BY <1>1, <1>2 DEF IInv, Finite, Epochs, Counted
    <2>3. NoOrphanSlot'
      BY <1>2, ReplyType DEF IInv, NoOrphanSlot, TypeOK
    <2>4. Fair
      <3>1. \A x \in DOMAIN tenants : tenants'[x].inUse = tenants[x].inUse /\ tenants[x].inUse \in Nat
        BY <1>1, <1>2 DEF IInv, TypeOK
      <3> QED
        BY <3>1, SMT DEF Fair
    <2> QED
      BY <2>1, <2>2, <2>3, <2>4 DEF IInv
  <1>3. ASSUME globalInUse < GlobalCap, ts[s].inUse < PerTenantCap(ts),
               NEW r \in Ref, Fresh(r), globalInUse' = globalInUse + 1,
               tenants' = Put(ts, s, [ts[s] EXCEPT !.inUse = @ + 1]),
               refs' = Put(refs, r, [pool |-> s, generation |-> ts[s].generation]),
               MonitorCaller(h, r), Reply(h, {r}), UNCHANGED generations
        PROVE  IInv' /\ Fair
    <2> DEFINE slot == [pool |-> s, generation |-> ts[s].generation]
               new  == [ts[s] EXCEPT !.inUse = @ + 1]
    <2>1. /\ slot \in [pool : Pool, generation : Nat]
          /\ slot.pool = s /\ slot.generation = generations[s]
      BY <1>1 DEF Pool
    <2>2. /\ new \in [inUse : Nat, generation : Nat]
          /\ new.inUse = ts[s].inUse + 1 /\ new.generation = generations[s]
      BY <1>1, SMT
    <2>3. refs' = Put(refs, r, slot) /\ tenants' = Put(ts, s, new)
      BY <1>3
    <2> HIDE DEF slot, new
    <2>4. r \notin DOMAIN refs /\ Finite' /\ NoOrphanSlot'
          /\ Cardinality(DOMAIN refs') = Cardinality(DOMAIN refs) + 1
      BY <1>3, <2>1, <2>3, GrantRefs
    <2>5. /\ DOMAIN tenants' = DOMAIN tenants \cup {s} /\ tenants'[s] = new
          /\ \A x \in DOMAIN tenants : x # s => tenants'[x] = tenants[x]
      BY <1>1, <2>3 DEF Put
    <2>6. /\ DOMAIN refs' = DOMAIN refs \cup {r} /\ refs'[r] = slot
          /\ \A x \in DOMAIN refs : refs'[x] = refs[x]
      BY <2>3, <2>4 DEF Put
    <2>7. TypeOK'
      <3>1. globalInUse' \in Nat
        BY <1>3, SMT DEF IInv, TypeOK
      <3>2. /\ DOMAIN tenants' \subseteq Slug
            /\ \A x \in DOMAIN tenants' : tenants'[x] \in [inUse : Nat, generation : Nat]
        BY <2>2, <2>5 DEF IInv, TypeOK
      <3>3. generations' \in [Slug -> Nat]
        BY <1>3 DEF IInv, TypeOK
      <3> QED
        BY <1>3, <2>1, <2>3, <3>1, <3>2, <3>3, GrantRefs, ReplyType DEF IInv, TypeOK
    <2>8. Epochs'
      <3>1. \A x \in DOMAIN tenants' : tenants'[x].generation = generations'[x]
        BY <1>3, <2>2, <2>5 DEF IInv, Epochs
      <3>2. ASSUME NEW x \in DOMAIN refs', refs'[x].pool \in Slug
            PROVE  /\ refs'[x].generation <= generations'[refs'[x].pool]
                   /\ refs'[x].pool \notin DOMAIN tenants'
                        => refs'[x].generation < generations'[refs'[x].pool]
        <4>1. CASE x = r
          <5>1. generations[s] <= generations[s]
            BY SMT DEF IInv, TypeOK
          <5> QED
            BY <4>1, <5>1, <1>3, <2>1, <2>5, <2>6
        <4>2. CASE x # r
          BY <4>2, <3>2, <1>3, <2>5, <2>6 DEF IInv, Epochs
        <4> QED
          BY <4>1, <4>2
      <3> QED
        BY <3>1, <3>2 DEF Epochs
    <2>9. Counted'
      <3>1. globalInUse' = Cardinality(DOMAIN refs') /\ globalInUse' <= GlobalCap
        BY <1>3, <2>4, CapType, SMT DEF IInv, Counted, TypeOK
      <3>2. ASSUME NEW x \in DOMAIN tenants'
            PROVE  tenants'[x].inUse = Cardinality(SlotsIn(refs', x, tenants'[x].generation))
        <4>1. Cardinality(SlotsIn(refs', x, tenants'[x].generation)) =
                Cardinality(SlotsIn(refs, x, tenants'[x].generation))
                  + (IF slot.pool = x /\ slot.generation = tenants'[x].generation THEN 1 ELSE 0)
          BY <2>3, <2>4, SlotsAfterPut DEF IInv, Finite
        <4>2. CASE x = s
          BY <4>1, <4>2, <1>1, <2>1, <2>2, <2>5
        <4>3. CASE x # s
          <5>1. x \in DOMAIN tenants /\ tenants'[x] = tenants[x] /\ tenants[x].inUse \in Nat
            BY <4>3, <2>5 DEF IInv, TypeOK
          <5>2. Cardinality(SlotsIn(refs', x, tenants[x].generation)) =
                  Cardinality(SlotsIn(refs, x, tenants[x].generation)) + 0
            BY <4>1, <4>3, <5>1, <2>1
          <5> QED
            BY <5>1, <5>2 DEF IInv, Counted
        <4> QED
          BY <4>2, <4>3
      <3> QED
        BY <3>1, <3>2 DEF Counted
    <2>10. Fair
      <3>1. DOMAIN tenants' = DOMAIN ts
        BY <1>1, <2>5
      <3>2. new.inUse <= GlobalCap \div Cardinality(DOMAIN ts) \/ new.inUse = 1
        <4>1. ts[s].inUse \in Nat
          BY <1>1
        <4>2. Cardinality(DOMAIN ts) \in Nat /\ Cardinality(DOMAIN ts) > 0
          <5>1. IsFiniteSet(DOMAIN ts)
            BY <1>1, ConstantsAssumption, FS_Subset
          <5>2. s \in DOMAIN ts
            BY <1>1
          <5>3. Cardinality(DOMAIN ts) \in Nat /\ Cardinality(DOMAIN ts) # 0
            BY <5>1, <5>2, FS_CardinalityType, FS_EmptySet
          <5> QED
            BY <5>3, SMT
        <4>3. GlobalCap \div Cardinality(DOMAIN ts) \in Int
          BY <4>2, CapType, SMT
        <4> QED
          BY <1>3, <2>2, <4>1, <4>3, SMT DEF PerTenantCap
      <3>3. \A x \in DOMAIN tenants : tenants[x].inUse \in Nat
        BY DEF IInv, TypeOK
      <3>4. ASSUME NEW x \in DOMAIN tenants', x \in DOMAIN tenants,
                   tenants'[x].inUse > tenants[x].inUse
            PROVE  tenants'[x].inUse <= GlobalCap \div Cardinality(DOMAIN tenants')
                   \/ tenants'[x].inUse = 1
        <4>1. x = s
          <5> SUFFICES ASSUME x # s PROVE FALSE
            OBVIOUS
          <5>1. tenants'[x].inUse = tenants[x].inUse
            BY <3>4, <2>5
          <5> QED
            BY <3>3, <3>4, <5>1, SMT
        <4> QED
          BY <4>1, <3>1, <3>2, <2>5
      <3> QED
        BY <3>4 DEF Fair
    <2> QED
      BY <2>4, <2>7, <2>8, <2>9, <2>10 DEF IInv
  <1> QED
    BY <1>2, <1>3 DEF TryAcquireTenant, ts
-----------------------------------------------------------------------------
(* Freeing, forgetting, and what happens to the callers *)

\* A slot that is freed twice is freed once, and one of an epoch that is over is
\* not given to the present one.
LEMMA ReleaseIdFacts ==
  ASSUME IInv, NEW r \in Ref, ReleaseId(r)
  PROVE  /\ (Finite /\ Epochs /\ Counted)' /\ Fair
         /\ globalInUse' \in Nat /\ UNCHANGED generations
         /\ DOMAIN tenants' \subseteq Slug
         /\ \A s \in DOMAIN tenants' : tenants'[s] \in [inUse : Nat, generation : Nat]
         /\ DOMAIN refs' = DOMAIN refs \ {r} /\ \A x \in DOMAIN refs' : refs'[x] = refs[x]
         /\ DOMAIN monitors' = DOMAIN monitors \ {r}
         /\ \A x \in DOMAIN monitors' : monitors'[x] = monitors[x]
         /\ downs' = downs \ {r}
  <1>1. /\ DOMAIN monitors' = DOMAIN monitors \ {r}
        /\ \A x \in DOMAIN monitors' : monitors'[x] = monitors[x]
        /\ downs' = downs \ {r} /\ UNCHANGED generations
    BY DEF ReleaseId, Remove
  <1>2. CASE r \notin DOMAIN refs
    <2>1. UNCHANGED <<globalInUse, tenants, refs>> /\ DOMAIN refs' = DOMAIN refs \ {r}
      BY <1>2 DEF ReleaseId
    <2>2. (Finite /\ Epochs /\ Counted)'
      BY <1>1, <2>1 DEF IInv, Finite, Epochs, Counted
    <2>3. Fair
      <3>1. \A s \in DOMAIN tenants : tenants'[s].inUse = tenants[s].inUse /\ tenants[s].inUse \in Nat
        BY <2>1 DEF IInv, TypeOK
      <3> QED
        BY <3>1, SMT DEF Fair
    <2> QED
      BY <1>1, <2>1, <2>2, <2>3 DEF IInv, TypeOK
  <1>3. CASE r \in DOMAIN refs
    <2>1. globalInUse' = globalInUse - 1 /\ tenants' = ReleaseTenant(refs[r])
          /\ refs' = Remove(refs, {r})
      BY <1>3 DEF ReleaseId
    <2>2. DOMAIN refs' = DOMAIN refs \ {r} /\ \A x \in DOMAIN refs' : refs'[x] = refs[x]
      BY <2>1 DEF Remove
    <2>3. Finite' /\ Cardinality(DOMAIN refs') = Cardinality(DOMAIN refs) - 1
      BY <1>3, <2>2, FS_RemoveElement DEF IInv, Finite
    <2>4. globalInUse' = Cardinality(DOMAIN refs') /\ globalInUse' <= GlobalCap
          /\ globalInUse' \in Nat
      <3>1. Cardinality(DOMAIN refs') \in Nat
        BY <2>3, FS_CardinalityType DEF Finite
      <3> QED
        BY <2>1, <2>3, <3>1, CapType, SMT DEF IInv, Counted, TypeOK
    <2>5. ASSUME NEW s \in DOMAIN tenants
          PROVE  /\ tenants[s] \in [inUse : Nat, generation : Nat]
                 /\ tenants[s].inUse = Cardinality(SlotsIn(refs, s, tenants[s].generation))
                 /\ Cardinality(SlotsIn(refs', s, tenants[s].generation)) \in Nat
                 /\ Cardinality(SlotsIn(refs', s, tenants[s].generation)) =
                      tenants[s].inUse - (IF refs[r].pool = s /\ refs[r].generation = tenants[s].generation
                                          THEN 1 ELSE 0)
      BY <1>3, <2>1, <2>3, SlotsAfterRemove, SlotsFinite DEF IInv, TypeOK, Counted, Finite
    <2>6. /\ DOMAIN tenants' = DOMAIN tenants
          /\ \A s \in DOMAIN tenants :
               /\ tenants'[s] \in [inUse : Nat, generation : Nat]
               /\ tenants'[s].generation = tenants[s].generation
               /\ tenants'[s].inUse = Cardinality(SlotsIn(refs', s, tenants[s].generation))
               /\ tenants'[s].inUse <= tenants[s].inUse
      <3> DEFINE p == refs[r].pool
      <3>1. CASE p \in DOMAIN tenants /\ tenants[p].generation = refs[r].generation
        <4>1. tenants' = [tenants EXCEPT ![p].inUse = @ - 1]
          BY <2>1, <3>1 DEF ReleaseTenant
        <4>2. /\ DOMAIN tenants' = DOMAIN tenants
              /\ \A s \in DOMAIN tenants : s # p => tenants'[s] = tenants[s]
              /\ tenants'[p] = [tenants[p] EXCEPT !.inUse = @ - 1]
          BY <4>1, <3>1
        <4>3. Cardinality(SlotsIn(refs', p, tenants[p].generation)) = tenants[p].inUse - 1
              /\ Cardinality(SlotsIn(refs', p, tenants[p].generation)) \in Nat
              /\ tenants[p] \in [inUse : Nat, generation : Nat]
          BY <2>5, <3>1
        <4>4. /\ tenants'[p].inUse = tenants[p].inUse - 1
              /\ tenants'[p].generation = tenants[p].generation
              /\ tenants'[p] \in [inUse : Nat, generation : Nat]
              /\ tenants'[p].inUse <= tenants[p].inUse
          BY <4>2, <4>3, SMT
        <4>5. ASSUME NEW s \in DOMAIN tenants, s # p
              PROVE  /\ Cardinality(SlotsIn(refs', s, tenants[s].generation)) = tenants[s].inUse
                     /\ tenants[s] \in [inUse : Nat, generation : Nat]
                     /\ tenants[s].inUse <= tenants[s].inUse
          BY <2>5, <4>5, SMT
        <4> QED
          BY <4>2, <4>3, <4>4, <4>5
      <3>2. CASE ~ (p \in DOMAIN tenants /\ tenants[p].generation = refs[r].generation)
        <4>1. tenants' = tenants
          BY <2>1, <3>2 DEF ReleaseTenant
        <4>2. ASSUME NEW s \in DOMAIN tenants
              PROVE  /\ Cardinality(SlotsIn(refs', s, tenants[s].generation)) = tenants[s].inUse
                     /\ tenants[s] \in [inUse : Nat, generation : Nat]
                     /\ tenants[s].inUse <= tenants[s].inUse
          BY <2>5, <3>2, SMT
        <4> QED
          BY <4>1, <4>2
      <3> QED
        BY <3>1, <3>2
    <2>7. Epochs'
      BY <1>1, <2>2, <2>6 DEF IInv, Epochs
    <2>8. Counted'
      BY <2>4, <2>6 DEF Counted
    <2>9. Fair
      <3>1. \A s \in DOMAIN tenants : /\ tenants'[s].inUse <= tenants[s].inUse
                                      /\ tenants'[s].inUse \in Nat /\ tenants[s].inUse \in Nat
        BY <2>6 DEF IInv, TypeOK
      <3> QED
        BY <3>1, SMT DEF Fair
    <2> QED
      BY <1>1, <2>2, <2>3, <2>4, <2>6, <2>7, <2>8, <2>9 DEF IInv, TypeOK
  <1> QED
    BY <1>2, <1>3

\* A slot is freed by its holder or by a :DOWN: no other slot loses its holder.
LEMMA FreedIInv ==
  ASSUME IInv, NEW r \in Ref, ReleaseId(r), UNCHANGED <<alive, request>>,
         held' \in [Holder -> SUBSET Ref], \A x \in Holder : held[x] \ {r} \subseteq held'[x]
  PROVE  IInv' /\ Fair
  <1>1. TypeOK'
    BY ReleaseIdFacts DEF IInv, TypeOK
  <1>2. NoOrphanSlot'
    <2> SUFFICES ASSUME MonitorCallers
                 PROVE  /\ DOMAIN monitors' = DOMAIN refs' /\ downs' \subseteq DOMAIN refs'
                        /\ \A x \in DOMAIN refs' : x \in downs' \/ x \in held'[monitors'[x]]
      BY DEF NoOrphanSlot
    <2>1. /\ DOMAIN monitors = DOMAIN refs /\ downs \subseteq DOMAIN refs
          /\ \A x \in DOMAIN refs : /\ x \in downs \/ x \in held[monitors[x]]
                                    /\ monitors[x] \in Holder
      BY DEF IInv, NoOrphanSlot, TypeOK
    <2>2. /\ DOMAIN refs' = DOMAIN refs \ {r} /\ DOMAIN monitors' = DOMAIN monitors \ {r}
          /\ \A x \in DOMAIN monitors' : monitors'[x] = monitors[x]
          /\ downs' = downs \ {r}
      BY ReleaseIdFacts
    <2> QED
      BY <2>1, <2>2
  <1> QED
    BY <1>1, <1>2, ReleaseIdFacts DEF IInv

\* release/1, whether or not the caller keeps the struct.
LEMMA ReleaseIInv ==
  ASSUME IInv, NEW h \in Holder, NEW r \in Ref, Release(h, r)
  PROVE  IInv' /\ Fair
  <1>1. held' \in [Holder -> SUBSET Ref] /\ \A x \in Holder : held[x] \ {r} \subseteq held'[x]
    BY DEF Release, IInv, TypeOK
  <1> QED
    BY <1>1, FreedIInv DEF Release

\* The :DOWN of a monitored caller.
LEMMA DownIInv ==
  ASSUME IInv, NEW r \in Ref, Down(r)
  PROVE  IInv' /\ Fair
  <1>1. held' \in [Holder -> SUBSET Ref] /\ \A x \in Holder : held[x] \ {r} \subseteq held'[x]
    BY DEF Down, callers, IInv, TypeOK
  <1> QED
    BY <1>1, FreedIInv DEF Down, callers

\* forget_tenant/1: what the tenant still holds belongs to an epoch that is over.
LEMMA ForgetTenantIInv ==
  ASSUME IInv, NEW s \in Slug, ForgetTenant(s)
  PROVE  IInv' /\ Fair
  <1>1. /\ DOMAIN tenants' = DOMAIN tenants \ {s}
        /\ \A x \in DOMAIN tenants' : tenants'[x] = tenants[x]
        /\ generations' = [generations EXCEPT ![s] = @ + 1]
        /\ UNCHANGED <<globalInUse, refs, monitors, downs, callers>>
    BY DEF ForgetTenant, Remove
  <1>2. /\ generations' \in [Slug -> Nat] /\ generations'[s] = generations[s] + 1
        /\ generations[s] \in Nat
        /\ \A x \in Slug : x # s => generations'[x] = generations[x]
    <2>1. generations \in [Slug -> Nat] /\ generations[s] + 1 \in Nat
      BY SMT DEF IInv, TypeOK
    <2> QED
      BY <1>1, <2>1
  <1>3. TypeOK'
    BY <1>1, <1>2 DEF IInv, TypeOK, callers
  <1>4. Finite' /\ Counted' /\ NoOrphanSlot'
    BY <1>1 DEF IInv, Finite, Counted, NoOrphanSlot, callers
  <1>5. Epochs'
    <2>1. \A x \in DOMAIN tenants' : tenants'[x].generation = generations'[x]
      BY <1>1, <1>2 DEF IInv, Epochs, TypeOK
    <2>2. ASSUME NEW x \in DOMAIN refs', refs'[x].pool \in Slug
          PROVE  /\ refs'[x].generation <= generations'[refs'[x].pool]
                 /\ refs'[x].pool \notin DOMAIN tenants'
                      => refs'[x].generation < generations'[refs'[x].pool]
      <3>1. /\ refs'[x] = refs[x] /\ x \in DOMAIN refs /\ refs[x].generation \in Nat
            /\ refs[x].generation <= generations[refs[x].pool]
            /\ refs[x].pool \notin DOMAIN tenants
                 => refs[x].generation < generations[refs[x].pool]
        BY <1>1, <2>2 DEF IInv, Epochs, TypeOK
      <3>2. CASE refs[x].pool = s
        BY <3>1, <3>2, <1>2, SMT
      <3>3. CASE refs[x].pool # s
        BY <3>1, <3>3, <2>2, <1>1, <1>2
      <3> QED
        BY <3>2, <3>3
    <2> QED
      BY <2>1, <2>2 DEF Epochs
  <1>6. Fair
    <2>1. \A x \in DOMAIN tenants' : tenants'[x].inUse = tenants[x].inUse /\ tenants[x].inUse \in Nat
      BY <1>1 DEF IInv, TypeOK
    <2> QED
      BY <2>1, SMT DEF Fair
  <1> QED
    BY <1>3, <1>4, <1>5, <1>6 DEF IInv

\* The callers' own steps leave the server alone.
LEMMA CallersIInv ==
  ASSUME IInv, NEW h \in Holder,
         (\E pool \in Pool : Call(h, pool)) \/ Kill(h) \/ Spawn(h)
  PROVE  IInv' /\ UNCHANGED tenants
  <1>1. UNCHANGED server
    BY DEF Call, Kill, Spawn, server
  <1>2. (Finite /\ Epochs /\ Counted)' /\ UNCHANGED tenants
    BY <1>1 DEF IInv, Finite, Epochs, Counted, server
  <1>3. CASE (\E pool \in Pool : Call(h, pool)) \/ Spawn(h)
    <2>1. TypeOK'
      BY <1>1, <1>3 DEF IInv, TypeOK, Call, Spawn, server
    <2>2. NoOrphanSlot'
      BY <1>1, <1>3 DEF IInv, NoOrphanSlot, Call, Spawn, server
    <2> QED
      BY <1>2, <2>1, <2>2 DEF IInv
  <1>4. CASE Kill(h)
    <2>1. /\ alive' = [alive EXCEPT ![h] = FALSE] /\ held' = [held EXCEPT ![h] = {}]
          /\ downs' = downs \cup {r \in DOMAIN monitors : monitors[r] = h}
          /\ UNCHANGED request
      BY <1>4 DEF Kill
    <2>2. TypeOK'
      <3>1. downs' \subseteq Ref /\ alive' \in [Holder -> BOOLEAN]
            /\ held' \in [Holder -> SUBSET Ref]
        BY <2>1 DEF IInv, TypeOK
      <3> QED
        BY <1>1, <2>1, <3>1 DEF IInv, TypeOK, server
    <2>3. NoOrphanSlot'
      BY <1>1, <2>1 DEF IInv, NoOrphanSlot, TypeOK, server
    <2> QED
      BY <1>2, <2>2, <2>3 DEF IInv
  <1> QED
    BY <1>3, <1>4

\* A restarted server starts as init/1 leaves it.
LEMMA RestartIInv ==
  ASSUME IInv, Restart
  PROVE  IInv' /\ Fair
  <1>1. /\ DOMAIN tenants' = {} /\ DOMAIN refs' = {} /\ DOMAIN monitors' = {}
        /\ globalInUse' = 0 /\ downs' = {} /\ generations' = [s \in Slug |-> 0]
    BY DEF Restart, Empty
  <1>2. TypeOK'
    BY <1>1 DEF IInv, TypeOK, Restart
  <1>3. Finite' /\ Counted'
    BY <1>1, FS_EmptySet, CapType, SMT DEF Finite, Counted
  <1>4. Epochs' /\ NoOrphanSlot' /\ Fair
    BY <1>1 DEF Epochs, NoOrphanSlot, Fair
  <1> QED
    BY <1>2, <1>3, <1>4 DEF IInv

-----------------------------------------------------------------------------

\* A step that leaves the tenants alone grants nothing to them.
LEMMA SameTenantsFair == TypeOK /\ UNCHANGED tenants => Fair
  <1> SUFFICES ASSUME TypeOK, UNCHANGED tenants PROVE Fair
    OBVIOUS
  <1>1. \A s \in DOMAIN tenants : tenants'[s].inUse = tenants[s].inUse /\ tenants[s].inUse \in Nat
    BY DEF TypeOK
  <1> QED
    BY <1>1, SMT DEF Fair

\* Every step keeps the invariant and grants no more than a share.
LEMMA StepIInv ==
  ASSUME IInv, [Next]_vars
  PROVE  IInv' /\ Fair
  <1>1. CASE UNCHANGED vars
    BY <1>1, SameTenantsFair
    DEF vars, server, callers, IInv, TypeOK, Finite, Epochs, Counted, NoOrphanSlot
  <1>2. ASSUME NEW h \in Holder,
               \/ TryAcquireGlobal(h) \/ (\E pool \in Pool : Call(h, pool)) \/ Kill(h) \/ Spawn(h)
        PROVE  IInv' /\ Fair
    BY <1>2, TryAcquireGlobalIInv, CallersIInv, SameTenantsFair DEF IInv
  <1> QED
    BY <1>1, <1>2, TryAcquireTenantIInv, ReleaseIInv, DownIInv, ForgetTenantIInv, RestartIInv
    DEF Next

\* IInv holds in every state of the specification.
THEOREM Invariance == Spec => []IInv
  <1>1. IInv /\ [Next]_vars => IInv'
    BY StepIInv
  <1> QED
    BY <1>1, InitIInv, PTL DEF Spec

\* The variables keep their types for any number of callers, tenants and slots.
THEOREM TypeCorrect == Spec => []TypeOK
  BY Invariance, PTL DEF IInv

\* The counters are the live slots and stay within the budget, whatever releases
\* are repeated, tenants forgotten and tracked again, callers killed and servers
\* restarted.
THEOREM AccountingTheorem == Spec => []Accounting
  BY Invariance, AccountingFollows, PTL

\* With monitored callers no slot is left to a process that is gone.
THEOREM NoOrphanTheorem == Spec => []NoOrphanSlot
  BY Invariance, PTL DEF IInv

\* Every slot granted to a tenant is within the share of that moment.
THEOREM FairShareTheorem == Spec => FairShareAtGrant
  <1>1. IInv /\ [Next]_vars =>
          [\A s \in DOMAIN tenants' :
             s \in DOMAIN tenants /\ tenants'[s].inUse > tenants[s].inUse
               => tenants'[s].inUse <= GlobalCap \div Cardinality(DOMAIN tenants')
                  \/ tenants'[s].inUse = 1]_vars
    BY StepIInv DEF Fair
  <1> QED
    BY <1>1, Invariance, PTL DEF Spec, FairShareAtGrant

-----------------------------------------------------------------------------
(* The breaker of the pollers *)

\* The body of WatchOrBackoff.
Covered ==
  IF ~running
  THEN state = "closed" /\ ~up /\ ~monitored /\ ~down /\ probeIn = NoProbe /\ windows = <<>>
  ELSE IF state = "open"
  THEN ~up /\ ~monitored /\ probeIn \in 0..BackoffFor(trips)
  ELSE monitored /\ down = ~up /\ probeIn = NoProbe

Tripped == state = "open" => trips # 0

BreakerIInv == WatchOrBackoff /\ Tripped

\* A backoff of the schedule, whatever the count of trips.
LEMMA BackoffPositive ==
  ASSUME NEW n \in Nat \ {0}
  PROVE  BackoffFor(n) \in Nat \ {0}
  <1>1. Backoff \in Seq(Nat \ {0}) /\ Len(Backoff) \in Nat \ {0}
    BY DurationsAssumption
  <1>2. (IF n < Len(Backoff) THEN n ELSE Len(Backoff)) \in 1..Len(Backoff)
    BY <1>1
  <1> QED
    BY <1>1, <1>2 DEF BackoffFor

\* One more trip, within the schedule.
LEMMA NextTripType ==
  ASSUME BreakerTypeOK
  PROVE  NextTrip \in 0..Len(Backoff) /\ NextTrip \in Nat \ {0}
  <1>1. Len(Backoff) \in Nat \ {0}
    BY DurationsAssumption
  <1> QED
    BY <1>1 DEF BreakerTypeOK, NextTrip

\* One more restart is counted.
LEMMA SpentType ==
  ASSUME BreakerTypeOK
  PROVE  Spent \in [1 .. MaxRestarts -> 0 .. MaxSeconds + 1]
  <1>1. MaxRestarts \in Nat \ {0} /\ MaxSeconds \in Nat
    BY DurationsAssumption
  <1>2. \A i \in 1 .. MaxRestarts : i # 1 => ages[i - 1] \in 0 .. MaxSeconds + 1
    BY <1>1 DEF BreakerTypeOK
  <1> QED
    BY <1>1, <1>2 DEF Spent

\* Everything stops with the application.
LEMMA StopKeeps ==
  ASSUME ApplicationStops
  PROVE  BreakerTypeOK' /\ Covered' /\ Tripped'
  <1>1. Window \in Nat /\ Len(Backoff) \in Nat /\ MaxSeconds \in Nat
    BY DurationsAssumption
  <1>2. windows' \in Seq(0..Window) /\ probeIn' \in Int /\ trips' \in 0..Len(Backoff) /\ upFor' \in 0..Window
    BY <1>1 DEF ApplicationStops, NoProbe
  <1>3. ages' \in [1 .. MaxRestarts -> 0 .. MaxSeconds + 1]
    BY <1>1 DEF ApplicationStops, LongAgo
  <1> QED
    BY <1>2, <1>3 DEF ApplicationStops, BreakerTypeOK, Covered, Tripped

\* The breaker that exits is there again and watches, or the application has stopped.
LEMMA ExitKeeps ==
  ASSUME BreakerTypeOK, running, BreakerExits
  PROVE  BreakerTypeOK' /\ Covered' /\ Tripped'
  <1>1. CASE Exhausted
    BY <1>1, StopKeeps DEF BreakerExits
  <1>2. CASE ~Exhausted
    <2>1. Window \in Nat /\ Len(Backoff) \in Nat
      BY DurationsAssumption
    <2>2. windows' \in Seq(0..Window) /\ probeIn' \in Int /\ trips' \in 0..Len(Backoff)
      BY <1>2, <2>1 DEF BreakerExits, NoProbe
    <2>3. down' \in BOOLEAN /\ ages' \in [1 .. MaxRestarts -> 0 .. MaxSeconds + 1]
      BY <1>2, SpentType DEF BreakerExits, BreakerTypeOK
    <2>4. BreakerTypeOK'
      BY <1>2, <2>2, <2>3 DEF BreakerExits, BreakerTypeOK
    <2>5. Covered' /\ Tripped'
      BY <1>2 DEF BreakerExits, Covered, Tripped
    <2> QED
      BY <2>4, <2>5
  <1> QED
    BY <1>1, <1>2

\* Pollers is started and watched for a whole window.
LEMMA RestartPollersKeeps ==
  ASSUME BreakerTypeOK, running, RestartPollers, state' \in {"closed", "half_open"}, UNCHANGED trips, probeIn' = NoProbe
  PROVE  BreakerTypeOK' /\ Covered' /\ Tripped'
  <1>1. Window \in 0..Window
    BY DurationsAssumption
  <1>2. windows' \in Seq(0..Window)
    BY <1>1 DEF BreakerTypeOK, RestartPollers
  <1>3. upFor' \in 0..Window /\ probeIn' \in Int
    BY DurationsAssumption DEF RestartPollers, NoProbe
  <1> QED
    BY <1>2, <1>3 DEF BreakerTypeOK, RestartPollers, budgetVars, Covered, Tripped

\* Pollers exits while it is watched, never in the :open state.
LEMMA DownKeeps ==
  ASSUME BreakerIInv, HandlePollersDown
  PROVE  BreakerTypeOK' /\ Covered' /\ Tripped'
  <1>1. BreakerTypeOK /\ running /\ down /\ (state # "open" => ~up /\ probeIn = NoProbe)
    BY DEF BreakerIInv, WatchOrBackoff, HandlePollersDown, BreakerTypeOK
  <1>2. CASE FirstDown
    BY <1>1, <1>2, RestartPollersKeeps, ExitKeeps DEF FirstDown, RestartRaises
  <1>3. CASE RepeatedDown
    <2>1. /\ state' = "open" /\ trips' = NextTrip /\ probeIn' = BackoffFor(trips')
          /\ monitored' = FALSE /\ down' = FALSE /\ watching' = FALSE
          /\ UNCHANGED <<windows, up, upFor, running, ages>>
      BY <1>3 DEF RepeatedDown, TripToOpen, budgetVars
    <2>2. ~up
      BY <1>1, <1>3 DEF RepeatedDown
    <2>3. trips' \in 0..Len(Backoff) /\ BackoffFor(trips') \in Nat \ {0}
      BY <1>1, <2>1, NextTripType, BackoffPositive
    <2>4. probeIn' \in 0..BackoffFor(trips') /\ probeIn' \in Int
      BY <2>1, <2>3
    <2>5. BreakerTypeOK'
      BY <1>1, <2>1, <2>3, <2>4 DEF BreakerTypeOK
    <2>6. trips' # 0
      BY <1>1, <2>1, NextTripType
    <2> QED
      BY <1>1, <2>1, <2>2, <2>4, <2>5, <2>6 DEF Covered, Tripped
  <1> QED
    BY <1>2, <1>3 DEF HandlePollersDown

\* A probe that is due finds the breaker open.
LEMMA ProbeKeeps ==
  ASSUME BreakerIInv, HalfOpenProbe
  PROVE  BreakerTypeOK' /\ Covered' /\ Tripped'
  <1>1. state = "open" /\ running /\ BreakerTypeOK
    BY DEF BreakerIInv, WatchOrBackoff, HalfOpenProbe, NoProbe
  <1>2. Probe
    BY <1>1 DEF HalfOpenProbe
  <1> QED
    BY <1>1, <1>2, RestartPollersKeeps, ExitKeeps DEF Probe, RestartRaises

\* A window that ends, its own or an earlier one.
LEMMA ElapsedKeeps ==
  ASSUME BreakerIInv, ObservationWindowElapsed
  PROVE  BreakerTypeOK' /\ Covered' /\ Tripped'
  <1>1. windows' \in Seq(0..Window)
    BY DEF BreakerIInv, WatchOrBackoff, BreakerTypeOK, ObservationWindowElapsed
  <1>2. trips' \in 0..Len(Backoff)
    BY DurationsAssumption DEF BreakerIInv, WatchOrBackoff, BreakerTypeOK, ObservationWindowElapsed
  <1>3. BreakerTypeOK'
    BY <1>1, <1>2 DEF BreakerIInv, WatchOrBackoff, BreakerTypeOK, ObservationWindowElapsed, budgetVars
  <1>4. Covered' /\ Tripped'
    BY DEF BreakerIInv, WatchOrBackoff, ObservationWindowElapsed, Covered, Tripped, BackoffFor, budgetVars
  <1> QED
    BY <1>3, <1>4

\* A second passes: no timer that runs was due.
LEMMA TickKeeps ==
  ASSUME BreakerIInv, Tick
  PROVE  BreakerTypeOK' /\ Covered' /\ Tripped'
  <1>1. BreakerTypeOK /\ Window \in Nat \ {0}
    BY DurationsAssumption DEF BreakerIInv, WatchOrBackoff
  <1>2. windows' \in Seq(0..Window)
    <2>1. windows \in Seq(0..Window) /\ windows' = [i \in DOMAIN windows |-> windows[i] - 1]
          /\ \A i \in DOMAIN windows : windows[i] > 0
      BY <1>1 DEF BreakerTypeOK, Tick
    <2>2. DOMAIN windows = 1..Len(windows) /\ Len(windows) \in Nat
      BY <2>1
    <2>3. \A i \in DOMAIN windows : windows[i] \in 0..Window /\ windows[i] - 1 \in 0..Window
      BY <1>1, <2>1
    <2>4. windows' \in [1..Len(windows) -> 0..Window]
      BY <2>1, <2>2, <2>3
    <2> QED
      BY <2>2, <2>4, SeqDef
  <1>3. upFor' \in 0..Window
    BY <1>1 DEF BreakerTypeOK, Tick
  <1>4. probeIn' \in Int
    BY <1>1 DEF BreakerTypeOK, Tick, NoProbe
  <1>5. ages' \in [1 .. MaxRestarts -> 0 .. MaxSeconds + 1]
    <2>1. ages \in [1 .. MaxRestarts -> 0 .. MaxSeconds + 1] /\ MaxSeconds \in Nat
      BY <1>1, DurationsAssumption DEF BreakerTypeOK
    <2>2. \A i \in 1 .. MaxRestarts :
            (IF ages[i] <= MaxSeconds THEN ages[i] + 1 ELSE ages[i]) \in 0 .. MaxSeconds + 1
      BY <2>1
    <2> QED
      BY <2>2 DEF Tick
  <1>6. BreakerTypeOK'
    BY <1>1, <1>2, <1>3, <1>4, <1>5 DEF BreakerTypeOK, Tick
  <1>7. Covered' /\ Tripped'
    <2>1. CASE state = "open"
      <3>1. running /\ ~up /\ ~monitored /\ probeIn \in 0..BackoffFor(trips) /\ probeIn # 0 /\ trips # 0
        BY <2>1 DEF BreakerIInv, WatchOrBackoff, Tripped, Tick
      <3>2. BackoffFor(trips) \in Nat
        BY <1>1, <3>1, BackoffPositive, DurationsAssumption DEF BreakerTypeOK
      <3>3. probeIn' = probeIn - 1 /\ UNCHANGED <<state, trips, up, monitored, running>>
        BY <3>1, <3>2 DEF Tick, NoProbe
      <3>4. probeIn' \in 0..BackoffFor(trips')
        BY <3>1, <3>2, <3>3
      <3> QED
        BY <2>1, <3>1, <3>3, <3>4 DEF Covered, Tripped
    <2>2. CASE state # "open"
      BY <2>2 DEF BreakerIInv, WatchOrBackoff, Tick, Covered, Tripped
    <2> QED
      BY <2>1, <2>2
  <1> QED
    BY <1>6, <1>7

\* Pollers exits, other children are restarted, and the application is started again.
LEMMA OutsideKeeps ==
  ASSUME BreakerIInv, PollersExit \/ BreakerRestart \/ SiblingRestart \/ ApplicationStart
  PROVE  BreakerTypeOK' /\ Covered' /\ Tripped'
  <1>1. BreakerTypeOK /\ Window \in Nat
    BY DurationsAssumption DEF BreakerIInv, WatchOrBackoff
  <1>2. CASE PollersExit
    <2>1. BreakerTypeOK'
      <3>1. upFor' \in 0..Window
        BY <1>1, <1>2 DEF PollersExit
      <3>2. up' \in BOOLEAN /\ down' \in BOOLEAN
        BY <1>1, <1>2, Zenon DEF PollersExit, BreakerTypeOK
      <3>3. UNCHANGED <<state, trips, watching, monitored, probeIn, windows, running, ages>>
        BY <1>2 DEF PollersExit, windowVars, budgetVars
      <3> QED
        BY <1>1, <3>1, <3>2, <3>3 DEF BreakerTypeOK
    <2>2. running /\ state # "open" /\ monitored
      BY <1>2 DEF BreakerIInv, WatchOrBackoff, PollersExit
    <2> QED
      BY <1>2, <2>1, <2>2 DEF BreakerIInv, WatchOrBackoff, PollersExit, Covered, Tripped, windowVars, budgetVars
  <1>3. CASE BreakerRestart
    BY <1>1, <1>3, ExitKeeps DEF BreakerRestart
  <1>4. CASE SiblingRestart
    <2>1. CASE Exhausted
      BY <1>4, <2>1, StopKeeps DEF SiblingRestart
    <2>2. CASE ~Exhausted
      <3>1. /\ ages' = Spent
            /\ UNCHANGED <<state, trips, watching, windows, monitored, down, probeIn, up, upFor, running>>
        BY <1>4, <2>2 DEF SiblingRestart, windowVars
      <3>2. BreakerTypeOK'
        BY <1>1, <3>1, SpentType DEF BreakerTypeOK
      <3>3. running /\ Covered /\ Tripped
        BY <1>4 DEF SiblingRestart, BreakerIInv, WatchOrBackoff, Covered
      <3>4. Covered' /\ Tripped'
        BY <3>1, <3>3 DEF Covered, Tripped, BackoffFor
      <3> QED
        BY <3>2, <3>4
    <2> QED
      BY <2>1, <2>2
  <1>5. CASE ApplicationStart
    <2>1. BreakerTypeOK'
      BY <1>1, <1>5 DEF ApplicationStart, BreakerTypeOK, windowVars
    <2>2. state = "closed" /\ down = FALSE /\ probeIn = NoProbe
      BY <1>1, <1>5 DEF BreakerIInv, WatchOrBackoff, ApplicationStart, BreakerTypeOK
    <2>3. /\ state' = "closed" /\ down' = FALSE /\ probeIn' = NoProbe
          /\ running' = TRUE /\ up' = TRUE /\ monitored' = TRUE
      BY <1>5, <2>2 DEF ApplicationStart
    <2>4. down' = ~up'
      BY <2>3
    <2> QED
      BY <2>1, <2>3, <2>4 DEF Covered, Tripped
  <1> QED
    BY <1>2, <1>3, <1>4, <1>5

\* The strengthened invariant holds.
THEOREM BreakerInvariance == BreakerSpec => []BreakerIInv
  <1>1. ASSUME BreakerInit PROVE BreakerIInv
    <2>1. Window \in Nat /\ Len(Backoff) \in Nat /\ MaxSeconds \in Nat
      BY DurationsAssumption
    <2>2. windows \in Seq(0..Window) /\ probeIn \in Int
      BY <1>1 DEF BreakerInit, NoProbe
    <2>3. trips \in 0..Len(Backoff) /\ upFor \in 0..Window
      BY <1>1, <2>1 DEF BreakerInit
    <2>4. ages \in [1 .. MaxRestarts -> 0 .. MaxSeconds + 1]
      BY <1>1, <2>1 DEF BreakerInit, LongAgo
    <2>5. BreakerTypeOK
      BY <1>1, <2>2, <2>3, <2>4 DEF BreakerInit, BreakerTypeOK
    <2> QED
      BY <1>1, <2>5 DEF BreakerInit, BreakerIInv, WatchOrBackoff, Tripped
  <1>2. ASSUME BreakerIInv, [BreakerNext]_breakerVars PROVE BreakerIInv'
    <2>1. CASE UNCHANGED breakerVars
      BY <1>2, <2>1 DEF breakerVars, windowVars, budgetVars, BreakerIInv, WatchOrBackoff, Tripped,
                        BreakerTypeOK, BackoffFor
    <2>2. CASE BreakerNext
      <3>1. BreakerTypeOK' /\ Covered' /\ Tripped'
        BY <1>2, <2>2, DownKeeps, ProbeKeeps, ElapsedKeeps, TickKeeps, OutsideKeeps DEF BreakerNext, Breaker
      <3> QED
        BY <3>1 DEF BreakerIInv, WatchOrBackoff, Covered
    <2> QED
      BY <1>2, <2>1, <2>2
  <1> QED
    BY <1>1, <1>2, PTL DEF BreakerSpec

\* As long as the application runs, something will bring Pollers back: it is running and watched,
\* or its :DOWN waits, or one probe is due no later than the backoff of the trip.
THEOREM WatchTheorem == BreakerSpec => []WatchOrBackoff
  <1>1. BreakerIInv => WatchOrBackoff
    BY DEF BreakerIInv
  <1> QED
    BY <1>1, BreakerInvariance, PTL

\* The variables keep their types, for any durations.
THEOREM BreakerTypeCorrect == BreakerSpec => []BreakerTypeOK
  <1>1. WatchOrBackoff => BreakerTypeOK
    BY DEF WatchOrBackoff
  <1> QED
    BY <1>1, WatchTheorem, PTL
=============================================================================
