-------------------- MODULE RepositoryCoordination_proofs --------------------
(***************************************************************************)
(* Proofs about RepositoryCoordination, for any nodes, paths and bounds:   *)
(* the migration and the fences, the admissions of the gate, the leases    *)
(* that are kept, and the refinement of ScopedLocks.                       *)
(***************************************************************************)
EXTENDS RepositoryCoordination, TLAPS

-----------------------------------------------------------------------------
(* The inductive invariant *)

\* The registry is the empty one that a barrier names, or is past it.
Sealed(leg, reg) ==
    /\ leg.seed <= reg.sha
    /\ reg.sha = leg.seed => reg.leases = {}

\* A V2 commit that n built from a descriptor: its release of its own lease, an
\* acquisition, or the barrier.
LegacyFollows(n, leg, reg, c) ==
    /\ c.sha = leg.sha + 1
    /\ \/ leg.state = "ACTIVE" /\ leg.writer = n /\ c.state = "RELEASED"
       \/ leg.state = "RELEASED" /\ c.state = "ACTIVE"
       \/ leg.state = "RELEASED" /\ c.state = "MIGRATED_TO_V3"
          /\ Sealed(c, reg)

NewLease(reg, writer, s) ==
    [fence |-> reg.generation + 1, writer |-> writer, scope |-> s, state |-> "ACTIVE"]

\* The five ways a registry follows another: it is opened under the barrier, or
\* keeps its migration and gets a lease, loses one of n's, or has one that is a
\* step further in its recovery or replaced.
Opens(leg, reg, c) ==
    /\ reg.tombstone = 0 /\ reg.sha = leg.seed
    /\ MigrationBound(leg, c)
    /\ reg.leases = {} /\ c.leases = {} /\ c.stale = reg.stale

Keeps(reg, c) == c.tombstone = reg.tombstone /\ c.seed = reg.seed

Adds(n, reg, c) ==
    \E s \in Scope :
      /\ \A l \in reg.leases : ~Overlap(l.scope, s)
      /\ c.leases = reg.leases \cup {NewLease(reg, n, s)}
      /\ c.stale = reg.stale

Drops(n, reg, c) ==
    \E l \in reg.leases :
      /\ l.writer = n
      /\ c.leases = reg.leases \ {l}
      /\ c.stale = reg.stale \cup {l.fence}

Recovers(reg, expired, c) ==
    \E l \in reg.leases, state \in RecoveryStates :
      /\ l.state = "ACTIVE" => l.fence \in expired
      /\ c.leases = (reg.leases \ {l}) \cup {[l EXCEPT !.state = state]}
      /\ c.stale = reg.stale

Replaces(reg, c) ==
    \E l \in reg.leases, writer \in Node :
      /\ l.state = "RECLAIMABLE"
      /\ c.leases = (reg.leases \ {l}) \cup {NewLease(reg, writer, l.scope)}
      /\ c.stale = reg.stale \cup {l.fence}

RegistryFollows(n, leg, reg, expired, c) ==
    /\ c.sha = reg.sha + 1
    /\ c.generation = reg.generation + 1
    /\ RegistryValid(c)
    /\ \/ Opens(leg, reg, c)
       \/ /\ Keeps(reg, c)
          /\ \/ Adds(n, reg, c)
             \/ Drops(n, reg, c)
             \/ Recovers(reg, expired, c)
             \/ Replaces(reg, c)

\* A tombstone is never the number 0 that stands for none, and the barrier at
\* the head of the V2 ref, if any, is that of the registry or of a past one.
Heads ==
    /\ legacy.sha # 0
    /\ legacy.state = "MIGRATED_TO_V3" => Sealed(legacy, registry)

\* A V2 descriptor that was read is the present one or an earlier one, and a
\* barrier that was read is still there.
SeenIsPast ==
    \A n \in Node : seen[n] # None =>
      /\ seen[n].sha <= legacy.sha
      /\ seen[n].sha = legacy.sha => seen[n] = legacy
      /\ seen[n].state = "MIGRATED_TO_V3" => seen[n] = legacy

\* A prepared commit is stale, or follows the present head of its ref.
PreparedFollows ==
    \A n \in Node : spec[n] # None =>
      LET c == spec[n].commit
      IN  /\ spec[n].ref = "legacy" =>
               /\ c.sha <= legacy.sha + 1
               /\ c.sha = legacy.sha + 1 => LegacyFollows(n, legacy, registry, c)
          /\ spec[n].ref = "registry" =>
               /\ c.sha <= registry.sha + 1
               /\ c.sha = registry.sha + 1 =>
                    RegistryFollows(n, legacy, registry, lapsed, c)

IInv ==
    /\ TypeOK
    /\ Heads
    /\ SeenIsPast
    /\ PreparedFollows
    /\ RegistryValid(registry)
    /\ OneRegime
    /\ NoFenceForgotten

-----------------------------------------------------------------------------
(* What a node prepares *)

\* What it means that a node prepares a commit.
LEMMA Preparing ==
    ASSUME TypeOK, NEW n \in Node, NEW ref \in {"legacy", "registry"}, NEW c,
           Prepare(n, ref, c),
           [ref |-> ref, commit |-> c] \in Prepared
    PROVE  /\ spec' \in [Node -> Prepared \cup {None}]
           /\ spec'[n].ref = ref /\ spec'[n].commit = c
           /\ \A m \in Node \ {n} : spec'[m] = spec[m]
<1>1. /\ spec \in [Node -> Prepared \cup {None}]
      /\ spec' = [spec EXCEPT ![n] = [ref |-> ref, commit |-> c]]
  BY DEF TypeOK, Prepare
<1>2. spec'[n] = [ref |-> ref, commit |-> c]
  BY <1>1
<1>3. QED
  BY <1>1, <1>2

\* A V2 commit is stale or follows the head: the descriptor it was built from
\* is the present one if it has its number.
LEMMA LegacyBuilds ==
    ASSUME IInv, NEW n \in Node,
           LegacyAcquire(n) \/ LegacyRelease(n) \/ BuildMigrationFreeze(n)
    PROVE  /\ \E c \in Legacy :
                /\ Prepare(n, "legacy", c)
                /\ c.sha <= legacy.sha + 1
                /\ c.sha = legacy.sha + 1 => LegacyFollows(n, legacy, registry, c)
           /\ UNCHANGED <<legacy, registry, seen, lapsed, granted>>
<1>1. seen[n] # None /\ seen[n] \in Legacy /\ seen[n].sha \in Nat /\ legacy.sha \in Nat
  BY DEF IInv, TypeOK, Legacy, LegacyAcquire, LegacyRelease, BuildMigrationFreeze
<1>2. /\ seen[n].sha <= legacy.sha
      /\ seen[n].sha = legacy.sha => seen[n] = legacy
  BY <1>1 DEF IInv, SeenIsPast
<1>3. CASE LegacyAcquire(n)
  <2> DEFINE c == [seen[n] EXCEPT !.sha = @ + 1, !.state = "ACTIVE",
                                  !.fence = @ + 1, !.writer = n]
  <2>1. c \in Legacy /\ c.sha = seen[n].sha + 1 /\ c.state = "ACTIVE"
    <3>1. seen[n].sha + 1 \in Nat /\ seen[n].fence + 1 \in Nat
      BY <1>1 DEF Legacy
    <3>2. c \in Legacy
      BY <1>1, <3>1, Zenon DEF Legacy
    <3>3. c.sha = seen[n].sha + 1 /\ c.state = "ACTIVE"
      BY <1>1 DEF Legacy
    <3>4. QED
      BY <3>2, <3>3
  <2>2. Prepare(n, "legacy", c) /\ seen[n].state = "RELEASED"
    BY <1>3 DEF LegacyAcquire
  <2>3. c.sha = legacy.sha + 1 => LegacyFollows(n, legacy, registry, c)
    BY <1>1, <1>2, <2>1, <2>2 DEF LegacyFollows
  <2>4. c.sha <= legacy.sha + 1
    BY <1>1, <1>2, <2>1
  <2>5. UNCHANGED <<legacy, registry, seen, lapsed, granted>>
    BY <1>3 DEF LegacyAcquire
  <2>6. QED
    BY <2>1, <2>2, <2>3, <2>4, <2>5
<1>4. CASE LegacyRelease(n)
  <2> DEFINE c == [seen[n] EXCEPT !.sha = @ + 1, !.state = "RELEASED"]
  <2>1. c \in Legacy /\ c.sha = seen[n].sha + 1 /\ c.state = "RELEASED"
    <3>1. seen[n].sha + 1 \in Nat
      BY <1>1
    <3>2. c \in Legacy
      BY <1>1, <3>1, Zenon DEF Legacy
    <3>3. c.sha = seen[n].sha + 1 /\ c.state = "RELEASED"
      BY <1>1 DEF Legacy
    <3>4. QED
      BY <3>2, <3>3
  <2>2. Prepare(n, "legacy", c) /\ seen[n].state = "ACTIVE" /\ seen[n].writer = n
    BY <1>4 DEF LegacyRelease
  <2>3. c.sha = legacy.sha + 1 => LegacyFollows(n, legacy, registry, c)
    BY <1>1, <1>2, <2>1, <2>2 DEF LegacyFollows
  <2>4. c.sha <= legacy.sha + 1
    BY <1>1, <1>2, <2>1
  <2>5. UNCHANGED <<legacy, registry, seen, lapsed, granted>>
    BY <1>4 DEF LegacyRelease
  <2>6. QED
    BY <2>1, <2>2, <2>3, <2>4, <2>5
<1>5. CASE BuildMigrationFreeze(n)
  <2> DEFINE c == [seen[n] EXCEPT !.sha = @ + 1, !.fence = @ + 1,
                      !.state = "MIGRATED_TO_V3", !.seed = registry.sha]
  <2>1. registry.sha \in Nat /\ registry.leases = {}
    BY <1>5 DEF IInv, TypeOK, Registry, BuildMigrationFreeze, Openable
  <2>2. /\ c \in Legacy /\ c.sha = seen[n].sha + 1
        /\ c.state = "MIGRATED_TO_V3" /\ Sealed(c, registry)
    <3>1. seen[n].sha + 1 \in Nat /\ seen[n].fence + 1 \in Nat /\ registry.sha \in Nat
      BY <1>1, <2>1 DEF Legacy
    <3>2. c \in Legacy
      BY <1>1, <3>1, Zenon DEF Legacy
    <3>3. c.sha = seen[n].sha + 1 /\ c.state = "MIGRATED_TO_V3" /\ c.seed = registry.sha
      BY <1>1 DEF Legacy
    <3>4. QED
      BY <2>1, <3>2, <3>3 DEF Sealed
  <2>3. Prepare(n, "legacy", c) /\ seen[n].state = "RELEASED"
    BY <1>5 DEF BuildMigrationFreeze, Freezable
  <2>4. c.sha = legacy.sha + 1 => LegacyFollows(n, legacy, registry, c)
    BY <1>1, <1>2, <2>2, <2>3 DEF LegacyFollows
  <2>5. c.sha <= legacy.sha + 1
    BY <1>1, <1>2, <2>2
  <2>6. UNCHANGED <<legacy, registry, seen, lapsed, granted>>
    BY <1>5 DEF BuildMigrationFreeze
  <2>7. QED
    BY <2>2, <2>3, <2>4, <2>5, <2>6
<1>6. QED
  BY <1>3, <1>4, <1>5

\* A registry that follows the present one has its type and its migration.
LEMMA NextRegistryFacts ==
    ASSUME TypeOK, NEW leases \in SUBSET Lease, NEW stale \in SUBSET Nat
    PROVE  LET c == NextRegistry(leases, stale)
           IN  /\ c \in Registry
               /\ c.sha = registry.sha + 1 /\ c.generation = registry.generation + 1
               /\ c.leases = leases /\ c.stale = stale
               /\ c.tombstone = registry.tombstone /\ c.seed = registry.seed
<1> DEFINE c == NextRegistry(leases, stale)
<1>1. registry \in Registry /\ registry.sha + 1 \in Nat /\ registry.generation + 1 \in Nat
  BY DEF TypeOK, Registry
<1>2. c \in Registry
  BY <1>1, Zenon DEF Registry, NextRegistry
<1>3. /\ c.sha = registry.sha + 1 /\ c.generation = registry.generation + 1
      /\ c.leases = leases /\ c.stale = stale
      /\ c.tombstone = registry.tombstone /\ c.seed = registry.seed
  BY <1>1 DEF Registry, NextRegistry
<1>4. QED
  BY <1>2, <1>3

\* A lease has its type when it is granted or goes through its recovery.
LEMMA LeaseType ==
    ASSUME TypeOK
    PROVE  /\ \A writer \in Node, s \in Scope : NewLease(registry, writer, s) \in Lease
           /\ \A l \in registry.leases :
                /\ l \in Lease /\ l.fence \in Nat /\ l.scope \in Scope
                /\ \A state \in RecoveryStates : [l EXCEPT !.state = state] \in Lease
           /\ registry.leases \subseteq Lease /\ registry.stale \subseteq Nat
<1>1. /\ registry.leases \subseteq Lease /\ registry.stale \subseteq Nat
      /\ registry.generation \in Nat
  BY DEF TypeOK, Registry
<1>2. \A writer \in Node, s \in Scope : NewLease(registry, writer, s) \in Lease
  BY <1>1 DEF NewLease, Lease, RecoveryStates
<1>3. \A l \in registry.leases :
        /\ l \in Lease /\ l.fence \in Nat /\ l.scope \in Scope
        /\ \A state \in RecoveryStates : [l EXCEPT !.state = state] \in Lease
  BY <1>1 DEF Lease
<1>4. QED
  BY <1>1, <1>2, <1>3

\* A registry commit follows the registry it was built beside: the cutover
\* because its barrier is still there and names this registry, the others, also
\* those of the early writers, because they keep its migration.
LEMMA RegistryBuilds ==
    ASSUME IInv, NEW n \in Node,
           \/ BuildRegistryCutover(n)
           \/ \E s \in Scope : BuildLease(n, s) \/ EarlyLease(n, s)
           \/ \E l \in registry.leases :
                \/ BuildRelease(n, l)
                \/ EarlyRelease(n, l)
                \/ TransitionRecovery(n, l)
                \/ \E writer \in Node : ReclaimLease(n, l, writer)
    PROVE  /\ \E c \in Registry :
                /\ Prepare(n, "registry", c)
                /\ RegistryFollows(n, legacy, registry, lapsed, c)
           /\ UNCHANGED <<legacy, registry, seen, lapsed, granted>>
<1>1. TypeOK /\ OneRegime /\ SeenIsPast /\ Heads
  BY DEF IInv
<1>2. CASE BuildRegistryCutover(n)
  <2> DEFINE c == [NextRegistry({}, registry.stale) EXCEPT
                     !.tombstone = seen[n].sha, !.seed = seen[n].seed]
  <2>1. /\ seen[n] # None /\ seen[n].state = "MIGRATED_TO_V3"
        /\ registry.leases = {} /\ ~Migrated
        /\ SeedCurrent(seen[n])
        /\ PrepareRegistry(n, c)
        /\ UNCHANGED <<legacy, registry, seen, lapsed, granted>>
    BY <1>2 DEF BuildRegistryCutover, Openable
  <2>2. seen[n] = legacy /\ legacy \in Legacy /\ legacy.sha \in Nat /\ legacy.seed \in Nat
    BY <1>1, <2>1 DEF SeenIsPast, TypeOK, Legacy
  <2>3. /\ c \in Registry
        /\ c.sha = registry.sha + 1 /\ c.generation = registry.generation + 1
        /\ c.leases = {} /\ c.stale = registry.stale
        /\ c.tombstone = legacy.sha /\ c.seed = legacy.seed
    <3> DEFINE next == NextRegistry({}, registry.stale)
    <3>1. /\ next \in Registry
          /\ next.sha = registry.sha + 1 /\ next.generation = registry.generation + 1
          /\ next.leases = {} /\ next.stale = registry.stale
      BY <1>1, NextRegistryFacts, LeaseType
    <3>2. c = [next EXCEPT !.tombstone = legacy.sha, !.seed = legacy.seed]
      BY <2>2
    <3> HIDE DEF next, c
    <3>3. c \in Registry
      BY <2>2, <3>1, <3>2, Zenon DEF Registry
    <3>4. QED
      BY <3>1, <3>2, <3>3 DEF Registry
  <2>4. MigrationBound(legacy, c)
    BY <1>1, <2>1, <2>2, <2>3 DEF MigrationBound, Heads
  <2>5. RegistryFollows(n, legacy, registry, lapsed, c)
    BY <2>1, <2>2, <2>3, <2>4
    DEF RegistryFollows, PrepareRegistry, Opens, SeedCurrent, Migrated
  <2>6. QED
    BY <2>1, <2>3, <2>5 DEF PrepareRegistry
<1>3. ASSUME NEW s \in Scope, BuildLease(n, s) \/ EarlyLease(n, s)
      PROVE  /\ \E c \in Registry :
                  /\ Prepare(n, "registry", c)
                  /\ RegistryFollows(n, legacy, registry, lapsed, c)
             /\ UNCHANGED <<legacy, registry, seen, lapsed, granted>>
  <2> DEFINE c == NextRegistry(registry.leases \cup {NewLease(registry, n, s)}, registry.stale)
  <2>1. /\ \A l \in registry.leases : ~Overlap(l.scope, s)
        /\ PrepareRegistry(n, c)
        /\ UNCHANGED <<legacy, registry, seen, lapsed, granted>>
    BY <1>3 DEF BuildLease, EarlyLease, Acquire, CanAcquire, NewLease
  <2>2. /\ c \in Registry
        /\ c.sha = registry.sha + 1 /\ c.generation = registry.generation + 1
        /\ c.leases = registry.leases \cup {NewLease(registry, n, s)}
        /\ c.stale = registry.stale
        /\ c.tombstone = registry.tombstone /\ c.seed = registry.seed
    BY <1>1, NextRegistryFacts, LeaseType
  <2>3. RegistryFollows(n, legacy, registry, lapsed, c)
    BY <2>1, <2>2 DEF RegistryFollows, PrepareRegistry, Keeps, Adds
  <2>4. QED
    BY <2>1, <2>2, <2>3 DEF PrepareRegistry
<1>4. ASSUME NEW l \in registry.leases, BuildRelease(n, l) \/ EarlyRelease(n, l)
      PROVE  /\ \E c \in Registry :
                  /\ Prepare(n, "registry", c)
                  /\ RegistryFollows(n, legacy, registry, lapsed, c)
             /\ UNCHANGED <<legacy, registry, seen, lapsed, granted>>
  <2> DEFINE c == NextRegistry(registry.leases \ {l}, registry.stale \cup {l.fence})
  <2>1. /\ l.writer = n
        /\ PrepareRegistry(n, c)
        /\ UNCHANGED <<legacy, registry, seen, lapsed, granted>>
    BY <1>4 DEF BuildRelease, EarlyRelease, Release
  <2>2. /\ c \in Registry
        /\ c.sha = registry.sha + 1 /\ c.generation = registry.generation + 1
        /\ c.leases = registry.leases \ {l}
        /\ c.stale = registry.stale \cup {l.fence}
        /\ c.tombstone = registry.tombstone /\ c.seed = registry.seed
    BY <1>1, NextRegistryFacts, LeaseType
  <2>3. RegistryFollows(n, legacy, registry, lapsed, c)
    BY <2>1, <2>2 DEF RegistryFollows, PrepareRegistry, Keeps, Drops
  <2>4. QED
    BY <2>1, <2>2, <2>3 DEF PrepareRegistry
<1>5. ASSUME NEW l \in registry.leases, TransitionRecovery(n, l)
      PROVE  /\ \E c \in Registry :
                  /\ Prepare(n, "registry", c)
                  /\ RegistryFollows(n, legacy, registry, lapsed, c)
             /\ UNCHANGED <<legacy, registry, seen, lapsed, granted>>
  <2> DEFINE c == NextRegistry((registry.leases \ {l}) \cup
                                 {[l EXCEPT !.state = NextState[l.state]]},
                               registry.stale)
  <2>1. /\ TransitionAllowed(n, l)
        /\ PrepareRegistry(n, c)
        /\ UNCHANGED <<legacy, registry, seen, lapsed, granted>>
    BY <1>5 DEF TransitionRecovery
  <2>2. NextState[l.state] \in RecoveryStates
    BY <1>1, <2>1, LeaseType DEF TransitionAllowed, NextState, RecoveryStates, Lease
  <2>3. /\ c \in Registry
        /\ c.sha = registry.sha + 1 /\ c.generation = registry.generation + 1
        /\ c.leases = (registry.leases \ {l}) \cup {[l EXCEPT !.state = NextState[l.state]]}
        /\ c.stale = registry.stale
        /\ c.tombstone = registry.tombstone /\ c.seed = registry.seed
    <3>1. [l EXCEPT !.state = NextState[l.state]] \in Lease
      BY <1>1, <2>2, LeaseType
    <3>2. QED
      BY <1>1, <3>1, NextRegistryFacts, LeaseType
  <2>4. Recovers(registry, lapsed, c)
    BY <2>1, <2>2, <2>3 DEF Recovers, TransitionAllowed
  <2>5. QED
    BY <2>1, <2>3, <2>4 DEF PrepareRegistry, RegistryFollows, Keeps
<1>6. ASSUME NEW l \in registry.leases, NEW writer \in Node, ReclaimLease(n, l, writer)
      PROVE  /\ \E c \in Registry :
                  /\ Prepare(n, "registry", c)
                  /\ RegistryFollows(n, legacy, registry, lapsed, c)
             /\ UNCHANGED <<legacy, registry, seen, lapsed, granted>>
  <2> DEFINE c == NextRegistry((registry.leases \ {l}) \cup
                                 {NewLease(registry, writer, l.scope)},
                               registry.stale \cup {l.fence})
  <2>1. /\ l.state = "RECLAIMABLE"
        /\ PrepareRegistry(n, c)
        /\ UNCHANGED <<legacy, registry, seen, lapsed, granted>>
    BY <1>6 DEF ReclaimLease, NewLease
  <2>2. /\ c \in Registry
        /\ c.sha = registry.sha + 1 /\ c.generation = registry.generation + 1
        /\ c.leases = (registry.leases \ {l}) \cup {NewLease(registry, writer, l.scope)}
        /\ c.stale = registry.stale \cup {l.fence}
        /\ c.tombstone = registry.tombstone /\ c.seed = registry.seed
    BY <1>1, NextRegistryFacts, LeaseType
  <2>3. RegistryFollows(n, legacy, registry, lapsed, c)
    BY <2>1, <2>2 DEF RegistryFollows, PrepareRegistry, Keeps, Replaces
  <2>4. QED
    BY <2>1, <2>2, <2>3 DEF PrepareRegistry
<1>7. QED
  BY <1>2, <1>3, <1>4, <1>5, <1>6

-----------------------------------------------------------------------------
(* The invariant holds initially, and every step keeps it *)

LEMMA InitInvariant == Init => IInv
<1> SUFFICES ASSUME Init PROVE IInv
  OBVIOUS
<1> USE DEF Init
<1>1. TypeOK
  <2>1. legacy \in Legacy
    BY DEF Legacy
  <2>2. registry \in Registry
    BY DEF Registry
  <2>3. QED
    BY <2>1, <2>2 DEF TypeOK
<1>2. Heads
  BY DEF Heads
<1>3. SeenIsPast /\ PreparedFollows
  BY DEF SeenIsPast, PreparedFollows
<1>4. RegistryValid(registry) /\ OneRegime /\ NoFenceForgotten
  BY DEF RegistryValid, OneRegime, NoFenceForgotten, Fences, Migrated
<1>5. QED
  BY <1>1, <1>2, <1>3, <1>4 DEF IInv

\* What a registry that follows the present one does with the fences: none is
\* forgotten, and a new one is the new generation.
LEMMA FencesFollow ==
    ASSUME TypeOK, NEW n \in Node, NEW c, RegistryFollows(n, legacy, registry, lapsed, c)
    PROVE  /\ Fences(registry.leases) \cup registry.stale \subseteq Fences(c.leases) \cup c.stale
           /\ \A f \in Fences(c.leases) : f \in Fences(registry.leases) \/ f = c.generation
<1>1. c.generation = registry.generation + 1
  BY DEF RegistryFollows
<1>2. CASE Opens(legacy, registry, c)
  BY <1>2 DEF Opens, Fences
<1>3. CASE Adds(n, registry, c)
  BY <1>1, <1>3 DEF Adds, Fences, NewLease
<1>4. CASE Drops(n, registry, c)
  BY <1>4 DEF Drops, Fences
<1>5. CASE Recovers(registry, lapsed, c)
  <2>1. PICK l \in registry.leases, state \in RecoveryStates :
          /\ c.leases = (registry.leases \ {l}) \cup {[l EXCEPT !.state = state]}
          /\ c.stale = registry.stale
    BY <1>5 DEF Recovers
  <2>2. [l EXCEPT !.state = state].fence = l.fence
    BY LeaseType DEF Lease
  <2>3. QED
    BY <2>1, <2>2 DEF Fences
<1>6. CASE Replaces(registry, c)
  BY <1>1, <1>6 DEF Replaces, Fences, NewLease
<1>7. QED
  BY <1>2, <1>3, <1>4, <1>5, <1>6 DEF RegistryFollows

\* Preparing a V2 commit keeps the invariant.
LEMMA LegacyPrepared ==
    ASSUME IInv, NEW n \in Node, NEW c \in Legacy, Prepare(n, "legacy", c),
           c.sha <= legacy.sha + 1,
           c.sha = legacy.sha + 1 => LegacyFollows(n, legacy, registry, c),
           UNCHANGED <<legacy, registry, seen, lapsed, granted>>
    PROVE  IInv'
<1>1. /\ spec' \in [Node -> Prepared \cup {None}]
      /\ spec'[n].ref = "legacy" /\ spec'[n].commit = c
      /\ \A m \in Node \ {n} : spec'[m] = spec[m]
  BY Preparing DEF IInv, Prepared
<1>2. TypeOK'
  BY <1>1 DEF IInv, TypeOK
<1>3. PreparedFollows'
  <2>1. SUFFICES ASSUME NEW m \in Node, spec'[m] # None
                 PROVE  LET d == spec'[m].commit
                        IN  /\ spec'[m].ref = "legacy" =>
                                 /\ d.sha <= legacy.sha + 1
                                 /\ d.sha = legacy.sha + 1 =>
                                      LegacyFollows(m, legacy, registry, d)
                            /\ spec'[m].ref = "registry" =>
                                 /\ d.sha <= registry.sha + 1
                                 /\ d.sha = registry.sha + 1 =>
                                      RegistryFollows(m, legacy, registry, lapsed, d)
    BY DEF PreparedFollows
  <2>2. CASE m = n
    BY <1>1, <2>2
  <2>3. CASE m # n
    BY <1>1, <2>1, <2>3 DEF IInv, PreparedFollows
  <2>4. QED
    BY <2>2, <2>3
<1>4. Heads' /\ SeenIsPast' /\ RegistryValid(registry)' /\ OneRegime' /\ NoFenceForgotten'
  BY DEF IInv, Heads, SeenIsPast, OneRegime, NoFenceForgotten, Migrated
<1>5. QED
  BY <1>2, <1>3, <1>4 DEF IInv

\* Preparing a registry commit keeps the invariant.
LEMMA RegistryPrepared ==
    ASSUME IInv, NEW n \in Node, NEW c \in Registry, Prepare(n, "registry", c),
           RegistryFollows(n, legacy, registry, lapsed, c),
           UNCHANGED <<legacy, registry, seen, lapsed, granted>>
    PROVE  IInv'
<1>1. /\ spec' \in [Node -> Prepared \cup {None}]
      /\ spec'[n].ref = "registry" /\ spec'[n].commit = c
      /\ \A m \in Node \ {n} : spec'[m] = spec[m]
  BY Preparing DEF IInv, Prepared
<1>2. TypeOK'
  BY <1>1 DEF IInv, TypeOK
<1>3. c.sha <= registry.sha + 1
  BY DEF IInv, TypeOK, Registry, RegistryFollows
<1>4. PreparedFollows'
  <2>1. SUFFICES ASSUME NEW m \in Node, spec'[m] # None
                 PROVE  LET d == spec'[m].commit
                        IN  /\ spec'[m].ref = "legacy" =>
                                 /\ d.sha <= legacy.sha + 1
                                 /\ d.sha = legacy.sha + 1 =>
                                      LegacyFollows(m, legacy, registry, d)
                            /\ spec'[m].ref = "registry" =>
                                 /\ d.sha <= registry.sha + 1
                                 /\ d.sha = registry.sha + 1 =>
                                      RegistryFollows(m, legacy, registry, lapsed, d)
    BY DEF PreparedFollows
  <2>2. CASE m = n
    BY <1>1, <1>3, <2>2
  <2>3. CASE m # n
    BY <1>1, <2>1, <2>3 DEF IInv, PreparedFollows
  <2>4. QED
    BY <2>2, <2>3
<1>5. Heads' /\ SeenIsPast' /\ RegistryValid(registry)' /\ OneRegime' /\ NoFenceForgotten'
  BY DEF IInv, Heads, SeenIsPast, OneRegime, NoFenceForgotten, Migrated
<1>6. QED
  BY <1>2, <1>4, <1>5 DEF IInv

\* What a node publishes: the commit it prepared, in the ref it was built for.
LEMMA Publishing ==
    ASSUME TypeOK, NEW n \in Node, Publish(n)
    PROVE  /\ spec[n] # None /\ spec' \in [Node -> Prepared \cup {None}]
           /\ spec'[n] = None
           /\ \A m \in Node \ {n} : spec'[m] = spec[m]
           /\ UNCHANGED <<seen, lapsed>>
           /\ \/ /\ spec[n].ref = "legacy" /\ spec[n].commit \in Legacy
                 /\ spec[n].commit.sha = legacy.sha + 1
                 /\ legacy' = spec[n].commit /\ UNCHANGED <<registry, granted>>
              \/ /\ spec[n].ref = "registry" /\ spec[n].commit \in Registry
                 /\ spec[n].commit.sha = registry.sha + 1
                 /\ registry' = spec[n].commit /\ UNCHANGED legacy
                 /\ granted' = granted \cup Fences(registry'.leases)
<1>1. /\ spec[n] # None
      /\ spec' = [spec EXCEPT ![n] = None]
      /\ UNCHANGED <<seen, lapsed>>
      /\ CurrentParent(n) /\ Apply(n)
  BY DEF Publish
<1>2. /\ spec' \in [Node -> Prepared \cup {None}]
      /\ spec'[n] = None
      /\ \A m \in Node \ {n} : spec'[m] = spec[m]
  BY <1>1 DEF TypeOK
<1>3. \/ spec[n].ref = "legacy" /\ spec[n].commit \in Legacy
      \/ spec[n].ref = "registry" /\ spec[n].commit \in Registry
  BY <1>1 DEF TypeOK, Prepared
<1>4. QED
  BY <1>1, <1>2, <1>3 DEF CurrentParent, Head, Apply

\* A published V2 commit is one step of the V2 ref.  No opening of the registry
\* is prepared beside it, since there is no barrier yet.
LEMMA LegacyPublished ==
    ASSUME IInv, NEW n \in Node, Publish(n), spec[n].ref = "legacy"
    PROVE  IInv'
<1> DEFINE c == spec[n].commit
<1>1. /\ spec[n] # None /\ spec' \in [Node -> Prepared \cup {None}]
      /\ spec'[n] = None
      /\ \A m \in Node \ {n} : spec'[m] = spec[m]
      /\ c \in Legacy /\ c.sha = legacy.sha + 1 /\ legacy' = c
      /\ UNCHANGED <<registry, granted, seen, lapsed>>
  BY Publishing DEF IInv
<1>2. legacy.sha \in Nat /\ \A m \in Node : seen[m] # None => seen[m].sha \in Nat
  BY DEF IInv, TypeOK, Legacy
<1>3. LegacyFollows(n, legacy, registry, c)
  BY <1>1 DEF IInv, PreparedFollows
<1>4. legacy.state # "MIGRATED_TO_V3" /\ ~Migrated
  BY <1>3 DEF LegacyFollows, IInv, OneRegime, MigrationBound
<1>5. TypeOK'
  BY <1>1 DEF IInv, TypeOK
<1>6. Heads'
  BY <1>1, <1>2, <1>3 DEF IInv, Heads, Migrated, LegacyFollows
<1>7. SeenIsPast'
  BY <1>1, <1>2, <1>4 DEF IInv, SeenIsPast
<1>8. PreparedFollows'
  <2>1. SUFFICES ASSUME NEW m \in Node, spec'[m] # None
                 PROVE  LET d == spec'[m].commit
                        IN  /\ spec'[m].ref = "legacy" =>
                                 d.sha < legacy'.sha + 1 /\ d.sha \in Nat
                            /\ spec'[m].ref = "registry" =>
                                 /\ d.sha <= registry.sha + 1
                                 /\ d.sha = registry.sha + 1 =>
                                      RegistryFollows(m, legacy', registry', lapsed', d)
    BY <1>1, <1>2 DEF PreparedFollows
  <2>2. m # n /\ spec'[m] = spec[m] /\ spec[m] \in Prepared
    BY <1>1, <2>1 DEF IInv, TypeOK
  <2>3. ASSUME spec[m].ref = "legacy"
        PROVE  spec[m].commit.sha < legacy'.sha + 1 /\ spec[m].commit.sha \in Nat
    <3>1. spec[m].commit.sha \in Nat
      BY <2>2, <2>3 DEF Prepared, Legacy
    <3>2. spec[m].commit.sha <= legacy.sha + 1
      BY <2>1, <2>2, <2>3 DEF IInv, PreparedFollows
    <3>3. QED
      BY <1>1, <1>2, <3>1, <3>2
  <2>4. ASSUME NEW d, RegistryFollows(m, legacy, registry, lapsed, d)
        PROVE  RegistryFollows(m, legacy', registry', lapsed', d)
    <3>1. ~Opens(legacy, registry, d)
      BY <1>4 DEF Opens, MigrationBound
    <3>2. Recovers(registry, lapsed, d) => Recovers(registry', lapsed', d)
      BY <1>1 DEF Recovers
    <3>3. QED
      BY <1>1, <2>4, <3>1, <3>2 DEF RegistryFollows
  <2>5. QED
    BY <2>1, <2>2, <2>3, <2>4 DEF IInv, PreparedFollows
<1>9. RegistryValid(registry)' /\ OneRegime' /\ NoFenceForgotten'
  BY <1>1, <1>4 DEF IInv, OneRegime, NoFenceForgotten, Migrated
<1>10. QED
  BY <1>5, <1>6, <1>7, <1>8, <1>9 DEF IInv

\* A published registry commit is one step of the registry, under the barrier.
LEMMA RegistryPublished ==
    ASSUME IInv, NEW n \in Node, Publish(n), spec[n].ref = "registry"
    PROVE  IInv'
<1> DEFINE c == spec[n].commit
<1>1. /\ spec[n] # None /\ spec' \in [Node -> Prepared \cup {None}]
      /\ spec'[n] = None
      /\ \A m \in Node \ {n} : spec'[m] = spec[m]
      /\ c \in Registry /\ c.sha = registry.sha + 1 /\ registry' = c
      /\ granted' = granted \cup Fences(c.leases)
      /\ UNCHANGED <<legacy, seen, lapsed>>
  BY Publishing DEF IInv
<1>2. RegistryFollows(n, legacy, registry, lapsed, c)
  BY <1>1 DEF IInv, PreparedFollows
<1>3. /\ registry.sha \in Nat /\ registry.generation \in Nat
      /\ c.generation = registry.generation + 1
      /\ c.leases \in SUBSET Lease
  BY <1>1, <1>2 DEF IInv, TypeOK, Registry, RegistryFollows
<1>4. TypeOK'
  <2>1. Fences(c.leases) \subseteq Nat
    BY <1>3 DEF Fences, Lease
  <2>2. QED
    BY <1>1, <2>1 DEF IInv, TypeOK
<1>5. OneRegime'
  <2>1. CASE Opens(legacy, registry, c)
    BY <1>1, <2>1 DEF OneRegime, Opens
  <2>2. CASE Keeps(registry, c)
    BY <1>1, <2>2 DEF IInv, OneRegime, Keeps, Migrated, MigrationBound
  <2>3. QED
    BY <1>2, <2>1, <2>2 DEF RegistryFollows
<1>6. Heads'
  BY <1>1, <1>3 DEF IInv, TypeOK, Legacy, Heads, Sealed
<1>7. SeenIsPast'
  BY <1>1 DEF IInv, SeenIsPast
<1>8. PreparedFollows'
  <2>1. SUFFICES ASSUME NEW m \in Node, spec'[m] # None
                 PROVE  LET d == spec'[m].commit
                        IN  /\ spec'[m].ref = "legacy" =>
                                 /\ d.sha <= legacy.sha + 1
                                 /\ d.sha = legacy.sha + 1 =>
                                      LegacyFollows(m, legacy', registry', d)
                            /\ spec'[m].ref = "registry" =>
                                 d.sha < c.sha + 1 /\ d.sha \in Nat
    BY <1>1, <1>3 DEF PreparedFollows
  <2>2. m # n /\ spec'[m] = spec[m] /\ spec[m] \in Prepared
    BY <1>1, <2>1 DEF IInv, TypeOK
  <2>3. ASSUME spec[m].ref = "registry"
        PROVE  spec[m].commit.sha < c.sha + 1 /\ spec[m].commit.sha \in Nat
    <3>1. spec[m].commit.sha \in Nat
      BY <2>2, <2>3 DEF Prepared, Registry
    <3>2. spec[m].commit.sha <= registry.sha + 1
      BY <2>1, <2>2, <2>3 DEF IInv, PreparedFollows
    <3>3. QED
      BY <1>1, <1>3, <3>1, <3>2
  <2>4. ASSUME NEW d \in Legacy, LegacyFollows(m, legacy, registry, d)
        PROVE  LegacyFollows(m, legacy', registry', d)
    <3>1. d.seed \in Nat
      BY DEF Legacy
    <3>2. Sealed(d, registry) => Sealed(d, registry)'
      BY <1>1, <1>3, <3>1 DEF Sealed
    <3>3. QED
      BY <1>1, <2>4, <3>2 DEF LegacyFollows
  <2>5. spec[m].ref = "legacy" => spec[m].commit \in Legacy
    BY <2>2 DEF Prepared
  <2>6. QED
    BY <2>1, <2>2, <2>3, <2>4, <2>5 DEF IInv, PreparedFollows
<1>9. RegistryValid(registry)'
  BY <1>1, <1>2 DEF RegistryFollows, RegistryValid
<1>10. NoFenceForgotten'
  <2>1. /\ Fences(registry.leases) \cup registry.stale \subseteq Fences(c.leases) \cup c.stale
        /\ \A f \in Fences(c.leases) : f \in Fences(registry.leases) \/ f = c.generation
    BY <1>2, FencesFollow DEF IInv
  <2>2. /\ granted \subseteq Fences(registry.leases) \cup registry.stale
        /\ Fences(registry.leases) \subseteq granted
        /\ granted \subseteq Nat
        /\ \A f \in granted : f <= registry.generation
    BY DEF IInv, NoFenceForgotten, TypeOK
  <2>3. granted' = Fences(c.leases) \cup (c.stale \cap granted')
    BY <1>1, <2>1, <2>2
  <2>4. Fences(c.leases) \cap c.stale = {}
    BY <1>2 DEF RegistryFollows, RegistryValid
  <2>5. \A f \in granted' : f <= c.generation
    BY <1>1, <1>3, <2>1, <2>2
  <2>6. QED
    BY <1>1, <2>3, <2>4, <2>5 DEF NoFenceForgotten
<1>11. QED
  BY <1>4, <1>5, <1>6, <1>7, <1>8, <1>9, <1>10 DEF IInv

\* The environment and the reads: nothing in the refs changes.
LEMMA OtherSteps ==
    ASSUME IInv,
           \/ \E l \in registry.leases : Lapse(l)
           \/ \E n \in Node : ReadLegacy(n) \/ Lose(n)
           \/ UNCHANGED vars
    PROVE  IInv'
<1>1. UNCHANGED <<legacy, registry, granted>>
  BY DEF Lapse, ReadLegacy, Lose, vars
<1>2. lapsed \subseteq lapsed' /\ lapsed' \subseteq Nat
  BY LeaseType DEF Lapse, ReadLegacy, Lose, vars, IInv, TypeOK
<1>3. /\ seen' \in [Node -> Legacy \cup {None}]
      /\ \A n \in Node : seen'[n] \in {seen[n], legacy, None}
  BY DEF Lapse, ReadLegacy, Lose, vars, IInv, TypeOK
<1>4. /\ spec' \in [Node -> Prepared \cup {None}]
      /\ \A n \in Node : spec'[n] \in {spec[n], None}
  BY DEF Lapse, ReadLegacy, Lose, vars, IInv, TypeOK
<1>5. TypeOK'
  BY <1>1, <1>2, <1>3, <1>4 DEF IInv, TypeOK
<1>6. SeenIsPast'
  BY <1>1, <1>3 DEF IInv, TypeOK, Legacy, SeenIsPast
<1>7. ASSUME NEW n \in Node, NEW c, RegistryFollows(n, legacy, registry, lapsed, c)
      PROVE  RegistryFollows(n, legacy', registry', lapsed', c)
  <2>1. Recovers(registry, lapsed, c) => Recovers(registry', lapsed', c)
    BY <1>1, <1>2 DEF Recovers
  <2>2. QED
    BY <1>1, <1>7, <2>1 DEF RegistryFollows
<1>8. PreparedFollows'
  BY <1>1, <1>4, <1>7 DEF IInv, PreparedFollows
<1>9. Heads' /\ RegistryValid(registry)' /\ OneRegime' /\ NoFenceForgotten'
  BY <1>1 DEF IInv, Heads, OneRegime, NoFenceForgotten, Migrated
<1>10. QED
  BY <1>5, <1>6, <1>8, <1>9 DEF IInv

LEMMA StepInvariant == IInv /\ [Next]_vars => IInv'
<1> SUFFICES ASSUME IInv, [Next]_vars PROVE IInv'
  OBVIOUS
<1>1. ASSUME NEW n \in Node,
             LegacyAcquire(n) \/ LegacyRelease(n) \/ BuildMigrationFreeze(n)
      PROVE  IInv'
  BY <1>1, LegacyBuilds, LegacyPrepared
<1>2. ASSUME NEW n \in Node,
             \/ BuildRegistryCutover(n)
             \/ \E s \in Scope : BuildLease(n, s) \/ EarlyLease(n, s)
             \/ \E l \in registry.leases :
                  \/ BuildRelease(n, l)
                  \/ EarlyRelease(n, l)
                  \/ TransitionRecovery(n, l)
                  \/ \E writer \in Node : ReclaimLease(n, l, writer)
      PROVE  IInv'
  BY <1>2, RegistryBuilds, RegistryPrepared
<1>3. ASSUME NEW n \in Node, Publish(n) PROVE IInv'
  BY <1>3, Publishing, LegacyPublished, RegistryPublished DEF IInv
<1>4. CASE \/ \E l \in registry.leases : Lapse(l)
           \/ \E n \in Node : ReadLegacy(n) \/ Lose(n)
           \/ UNCHANGED vars
  BY <1>4, OtherSteps
<1>5. QED
  BY <1>1, <1>2, <1>3, <1>4 DEF Next

LEMMA Invariant == Spec => []IInv
BY InitInvariant, StepInvariant, PTL DEF Spec

-----------------------------------------------------------------------------
(* The theorems *)

\* Every reachable state is well typed, for any nodes, paths and bounds.
THEOREM TypeCorrect == Spec => []TypeOK
<1>1. IInv => TypeOK
  BY DEF IInv
<1>2. QED
  BY <1>1, Invariant, PTL

\* There is never a scoped lease beside a live V2 lease, and the barrier that
\* the registry was opened under stays, whatever was prepared before it.
THEOREM OneRegimeAlways == Spec => []OneRegime
<1>1. IInv => OneRegime
  BY DEF IInv
<1>2. QED
  BY <1>1, Invariant, PTL

\* A migration that stopped between its two publications can be resumed.
THEOREM AlwaysResumable == Spec => []FrozenResumable
<1>1. IInv => FrozenResumable
  BY DEF IInv, Heads, Sealed, FrozenResumable
<1>2. QED
  BY <1>1, Invariant, PTL

\* Every fence ever granted is live or retired, and never granted again.
THEOREM FencesNeverForgotten == Spec => []NoFenceForgotten
<1>1. IInv => NoFenceForgotten
  BY DEF IInv
<1>2. QED
  BY <1>1, Invariant, PTL

\* An admission that the gate computes from a V2 descriptor read earlier holds
\* when it is given: after the cutover only under the barrier and a scoped claim,
\* never under a stale fence, and, but for an exact V2 claim before the cutover,
\* never over the lease of another, the early ones included.
THEOREM AdmissionsAlwaysHold == Spec => []AdmissionHolds
<1>1. ASSUME IInv, NEW n \in Node, NEW pr \in PullRequest, Admits(seen[n], pr)
      PROVE  /\ Migrated => legacy.state = "MIGRATED_TO_V3" /\ pr.claim = "scoped"
             /\ pr.claim = "scoped" => FenceCurrent(pr.fence)
             /\ \/ ~Migrated /\ LegacyClaimVerified(seen[n], pr)
                \/ \A l \in registry.leases : Overlap(l.scope, pr.paths) =>
                     pr.claim = "scoped" /\ l.fence = pr.fence /\ l.writer = pr.writer
  <2>1. CASE ~Migrated /\ LegacyClaimVerified(seen[n], pr)
    BY <2>1 DEF LegacyClaimVerified
  <2>2. CASE ScopedVerdict(pr)
    <3> DEFINE own == {l \in registry.leases : pr.claim = "scoped" /\ l.fence = pr.fence}
    <3>1. /\ pr.claim = "scoped" =>
               \E l \in own : l.state = "ACTIVE" /\ l.writer = pr.writer
          /\ pr.claim # "scoped" => ~Migrated
          /\ \A l \in registry.leases \ own : ~Overlap(l.scope, pr.paths)
      BY <2>2 DEF ScopedVerdict
    <3>2. \A l, k \in own : l = k
      BY <1>1 DEF IInv, RegistryValid
    <3>3. Migrated => legacy.state = "MIGRATED_TO_V3" /\ pr.claim = "scoped"
      BY <1>1, <3>1 DEF IInv, OneRegime, MigrationBound
    <3>4. pr.claim = "scoped" => FenceCurrent(pr.fence)
      BY <1>1, <3>1 DEF FenceCurrent, IInv, RegistryValid, Fences
    <3>5. \A l \in registry.leases : Overlap(l.scope, pr.paths) =>
            pr.claim = "scoped" /\ l.fence = pr.fence /\ l.writer = pr.writer
      BY <3>1, <3>2
    <3>6. QED
      BY <3>3, <3>4, <3>5
  <2>3. QED
    BY <1>1, <2>1, <2>2 DEF Admits
<1>2. IInv => AdmissionHolds
  BY <1>1 DEF AdmissionHolds
<1>3. QED
  BY <1>2, Invariant, PTL

\* The two ways the refs change: by a V2 commit that follows the head, or by a
\* registry commit that does.
LEMMA Changes ==
    ASSUME IInv, [Next]_vars
    PROVE  \/ UNCHANGED <<legacy, registry>>
           \/ \E n \in Node :
                /\ spec[n] # None /\ spec'[n] = None
                /\ \/ /\ UNCHANGED registry
                      /\ LegacyFollows(n, legacy, registry, legacy')
                   \/ /\ UNCHANGED legacy
                      /\ RegistryFollows(n, legacy, registry, lapsed, registry')
                      /\ registry' \in Registry
<1>1. ASSUME NEW n \in Node, Publish(n)
      PROVE  /\ spec[n] # None /\ spec'[n] = None
             /\ \/ UNCHANGED registry /\ LegacyFollows(n, legacy, registry, legacy')
                \/ /\ UNCHANGED legacy
                   /\ RegistryFollows(n, legacy, registry, lapsed, registry')
                   /\ registry' \in Registry
  BY <1>1, Publishing DEF IInv, PreparedFollows
<1>2. ASSUME NEW n \in Node,
             LegacyAcquire(n) \/ LegacyRelease(n) \/ BuildMigrationFreeze(n)
      PROVE  UNCHANGED <<legacy, registry>>
  BY <1>2, LegacyBuilds
<1>3. ASSUME NEW n \in Node,
             \/ BuildRegistryCutover(n)
             \/ \E s \in Scope : BuildLease(n, s) \/ EarlyLease(n, s)
             \/ \E l \in registry.leases :
                  \/ BuildRelease(n, l)
                  \/ EarlyRelease(n, l)
                  \/ TransitionRecovery(n, l)
                  \/ \E writer \in Node : ReclaimLease(n, l, writer)
      PROVE  UNCHANGED <<legacy, registry>>
  BY <1>3, RegistryBuilds
<1>4. CASE \/ \E l \in registry.leases : Lapse(l)
           \/ \E n \in Node : ReadLegacy(n) \/ Lose(n)
           \/ UNCHANGED vars
  BY <1>4 DEF Lapse, ReadLegacy, Lose, vars
<1>5. QED
  BY <1>1, <1>2, <1>3, <1>4 DEF Next

\* The registry is opened under the barrier that is then at the head of the V2
\* ref, and from the empty registry head which that barrier names.
THEOREM CutoverAlwaysFromSeed == Spec => CutoverFromSeed
<1> DEFINE FromSeed == ~Migrated /\ Migrated' =>
                         /\ legacy.state = "MIGRATED_TO_V3" /\ UNCHANGED legacy
                         /\ registry.sha = legacy.seed
                         /\ registry.leases = {} /\ registry'.leases = {}
<1>1. ASSUME IInv, [Next]_vars PROVE FromSeed
  <2>1. SUFFICES ASSUME ~Migrated, Migrated' PROVE FromSeed
    OBVIOUS
  <2>2. PICK n \in Node : /\ UNCHANGED legacy
                          /\ RegistryFollows(n, legacy, registry, lapsed, registry')
    BY <1>1, <2>1, Changes DEF Migrated
  <2>3. ~Keeps(registry, registry')
    BY <2>1 DEF Keeps, Migrated
  <2>4. QED
    BY <2>2, <2>3 DEF RegistryFollows, Opens, MigrationBound
<1>2. QED
  BY <1>1, Invariant, PTL DEF Spec, CutoverFromSeed

\* A live V2 lease, and a live and unexpired scoped one, is ended by its own
\* writer only.
THEOREM UnexpiredAlwaysKept == Spec => UnexpiredIsKept
<1> DEFINE Kept == /\ \A l \in registry.leases :
                        l.state = "ACTIVE" /\ l.fence \notin lapsed /\ l \notin registry'.leases
                          => spec[l.writer] # None /\ spec'[l.writer] = None
                   /\ legacy.state = "ACTIVE" /\ legacy' # legacy
                          => spec[legacy.writer] # None /\ spec'[legacy.writer] = None
<1>1. ASSUME IInv, [Next]_vars PROVE Kept
  <2>1. CASE UNCHANGED <<legacy, registry>>
    BY <2>1
  <2>2. ASSUME NEW n \in Node, spec[n] # None, spec'[n] = None,
               UNCHANGED registry, LegacyFollows(n, legacy, registry, legacy')
        PROVE  Kept
    BY <2>2 DEF LegacyFollows
  <2>3. ASSUME NEW n \in Node, spec[n] # None, spec'[n] = None,
               UNCHANGED legacy, RegistryFollows(n, legacy, registry, lapsed, registry')
        PROVE  Kept
    <3>1. SUFFICES ASSUME NEW l \in registry.leases, l.state = "ACTIVE",
                          l.fence \notin lapsed, l \notin registry'.leases
                   PROVE  l.writer = n
      BY <2>3
    <3>2. Drops(n, registry, registry')
      BY <2>3, <3>1 DEF RegistryFollows, Opens, Adds, Recovers, Replaces
    <3>3. QED
      BY <3>1, <3>2 DEF Drops
  <2>4. QED
    BY <1>1, <2>1, <2>2, <2>3, Changes
<1>2. QED
  BY <1>1, Invariant, PTL DEF Spec, UnexpiredIsKept

-----------------------------------------------------------------------------
(* The refinement of ScopedLocks *)

LockOf(l) == [fence |-> l.fence, scope |-> l.scope]

Held(leases) == {LockOf(l) : l \in leases}

\* Two leases of a valid registry are two locks.
LEMMA LocksDiffer ==
    ASSUME RegistryValid(registry)
    PROVE  \A l, k \in registry.leases : l # k => LockOf(l) # LockOf(k)
<1>1. \A l, k \in registry.leases : l # k => l.fence # k.fence
  BY DEF RegistryValid
<1>2. \A l : LockOf(l).fence = l.fence
  BY DEF LockOf
<1>3. QED
  BY <1>1, <1>2

\* Every commit of the registry is one operation on the locks: the opening and
\* the steps of a recovery skip a fence, a lease is acquired, a release
\* releases, and a reclaim takes over.
LEMMA LocksStep ==
    ASSUME IInv, NEW n \in Node, RegistryFollows(n, legacy, registry, lapsed, registry')
    PROVE  Locks!Next
<1> DEFINE held == Held(registry.leases)
           last == registry.generation
           Bar == {[fence |-> k.fence, scope |-> k.scope] : k \in registry.leases}
<1>1. /\ registry.leases \subseteq Lease /\ last \in Nat
      /\ registry'.generation = last + 1
  BY DEF IInv, TypeOK, Registry, RegistryFollows
<1>2. CASE Held(registry'.leases) = held
  BY <1>1, <1>2 DEF Locks!Next, Locks!Skip, Held, LockOf
<1>3. CASE Opens(legacy, registry, registry')
  BY <1>2, <1>3 DEF Opens
<1>4. CASE Recovers(registry, lapsed, registry')
  <2>1. PICK l \in registry.leases, state \in RecoveryStates :
          registry'.leases = (registry.leases \ {l}) \cup {[l EXCEPT !.state = state]}
    BY <1>4 DEF Recovers
  <2>2. LockOf([l EXCEPT !.state = state]) = LockOf(l)
    BY <1>1 DEF LockOf, Lease
  <2>3. Held(registry'.leases) = held
    BY <2>1, <2>2 DEF Held
  <2>4. QED
    BY <1>2, <2>3
<1>5. CASE Adds(n, registry, registry')
  <2>1. PICK s \in Scope :
          /\ \A l \in registry.leases : ~Overlap(l.scope, s)
          /\ registry'.leases = registry.leases \cup {NewLease(registry, n, s)}
    BY <1>5 DEF Adds
  <2> DEFINE h == [fence |-> last + 1, scope |-> s]
  <2>2. h = LockOf(NewLease(registry, n, s)) /\ h.fence = last + 1 /\ h.scope = s
    BY DEF LockOf, NewLease
  <2>3. Held(registry'.leases) = held \cup {h}
    BY <2>1, <2>2 DEF Held
  <2>4. h \in Locks!Lock
    BY <1>1 DEF Locks!Lock, Scope
  <2>5. \A other \in held : other.scope \cap h.scope = {}
    BY <2>1, <2>2 DEF Held, LockOf, Overlap
  <2>6. CASE h \in held
    BY <1>2, <2>3, <2>6
  <2>7. CASE h \notin held
    <3>1. Locks!Acquire(h)
      BY <1>1, <2>2, <2>3, <2>4, <2>5 DEF Locks!Acquire, Held, LockOf
    <3>2. h \in Held(registry'.leases) \ held
      BY <2>3, <2>7
    <3>3. h \in Bar' \ Bar
      BY <3>2 DEF Held, LockOf
    <3> HIDE DEF h
    <3>4. QED
      BY <3>1, <3>3 DEF Locks!Next, Locks!Acquire
  <2>8. QED
    BY <2>6, <2>7
<1>6. CASE Drops(n, registry, registry')
  <2>1. PICK l \in registry.leases : registry'.leases = registry.leases \ {l}
    BY <1>6 DEF Drops
  <2>2. Held(registry'.leases) = held \ {LockOf(l)}
    BY <2>1, LocksDiffer DEF IInv, Held
  <2>3. Locks!Release(LockOf(l))
    BY <1>1, <2>1, <2>2 DEF Locks!Release, Held, LockOf
  <2>4. LockOf(l) \in held
    BY <2>1 DEF Held
  <2>5. QED
    BY <2>3, <2>4 DEF Locks!Next, Held, LockOf
<1>7. CASE Replaces(registry, registry')
  <2>1. PICK l \in registry.leases, writer \in Node :
          registry'.leases = (registry.leases \ {l}) \cup
                               {NewLease(registry, writer, l.scope)}
    BY <1>7 DEF Replaces
  <2> DEFINE h == LockOf(l)
             new == LockOf(NewLease(registry, writer, l.scope))
  <2>2. new = [h EXCEPT !.fence = last + 1] /\ new.fence = last + 1
    BY DEF LockOf, NewLease
  <2>3. Held(registry'.leases) = (held \ {h}) \cup {new}
    BY <2>1, LocksDiffer DEF IInv, Held
  <2>4. h \in held
    BY <2>1 DEF Held
  <2>5. CASE new \in held
    <3>1. PICK k \in registry.leases : new = LockOf(k)
      BY <2>5 DEF Held
    <3>2. k.fence = last + 1
      BY <2>2, <3>1 DEF LockOf
    <3>3. k.fence \in granted
      BY DEF IInv, NoFenceForgotten, Fences
    <3>4. k.fence <= last
      BY <3>3 DEF IInv, NoFenceForgotten
    <3>5. QED
      BY <1>1, <3>2, <3>4
  <2>6. CASE new \notin held
    <3>1. Locks!TakeOver(h, new.fence)
      BY <1>1, <2>2, <2>3, <2>4 DEF Locks!TakeOver, Held, LockOf
    <3>2. new \in Held(registry'.leases) \ held
      BY <2>3, <2>6
    <3>3. h \in Bar /\ new \in Bar' \ Bar
      BY <2>4, <3>2 DEF Held, LockOf
    <3> HIDE DEF h, new
    <3>4. QED
      BY <3>1, <3>3 DEF Locks!Next, Locks!TakeOver
  <2>7. QED
    BY <2>5, <2>6
<1>8. QED
  BY <1>3, <1>4, <1>5, <1>6, <1>7 DEF RegistryFollows

\* Published one by one from stale reads, the commits of the registry act as
\* atomic operations on exclusive locks under growing fences.
THEOREM Refinement == Spec => ImplementsScopedLocks
<1>1. Init => Locks!Init
  BY DEF Init, Locks!Init
<1>2. IInv /\ [Next]_vars => [Locks!Next]_Locks!vars
  <2>1. SUFFICES ASSUME IInv, [Next]_vars, ~UNCHANGED Locks!vars
                 PROVE  Locks!Next
    OBVIOUS
  <2>2. registry' # registry
    BY <2>1 DEF Locks!vars
  <2>3. PICK n \in Node : RegistryFollows(n, legacy, registry, lapsed, registry')
    BY <2>1, <2>2, Changes
  <2>4. QED
    BY <2>1, <2>3, LocksStep
<1>3. QED
  BY <1>1, <1>2, Invariant, PTL DEF Spec, ImplementsScopedLocks, Locks!Spec

=============================================================================
