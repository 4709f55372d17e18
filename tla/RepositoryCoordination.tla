------------------------ MODULE RepositoryCoordination ------------------------
(***************************************************************************)
(* Leases on the paths of the repository (proofos_omega).  Two git refs    *)
(* carry one descriptor each: the V2 ref one repository-wide lease, the V3 *)
(* ref a registry of scoped leases.  Every change is a commit whose parent *)
(* is the head its builder read, published without force: it is applied if *)
(* the ref still has that head, and lost if it does not.  A migration      *)
(* freezes the V2 ref for ever and then opens the registry; the two refs   *)
(* are never read or written together.  Until then writers of the          *)
(* compatibility phase keep leases in the registry beside the V2 lease.    *)
(*                                                                         *)
(* A set of paths stands for a write set and for what it covers.  The head *)
(* of a ref is the number of its commits.  A lease is known by its fence;  *)
(* the fields that identify its work are copied into a claim and compared  *)
(* for equality, and are left out with the source head and its tree.       *)
(***************************************************************************)
EXTENDS Naturals, FiniteSets

CONSTANTS
    Node,            \* writers, and actors of the recovery
    Path,            \* paths of the repository
    GlobalPath,      \* repository_global_paths
    None,            \* nothing read, nothing prepared, no writer
    MaxLegacy,       \* bound: commits of the V2 ref
    MaxEarly,        \* bound: generation up to which leases are taken early
    MaxGeneration    \* bound: generation of the registry

ASSUME CoordinationAssumption ==
    /\ GlobalPath \subseteq Path
    /\ None \notin Node
    /\ MaxLegacy \in Nat
    /\ MaxEarly \in Nat
    /\ MaxGeneration \in Nat

VARIABLES
    legacy,          \* descriptor at the head of the V2 ref
    registry,        \* descriptor at the head of the V3 ref
    seen,            \* the V2 descriptor each node has read
    spec,            \* the commit each node has prepared
    lapsed,          \* fences of registry leases that have expired
    granted          \* ghost: fences of all leases ever granted

vars == <<legacy, registry, seen, spec, lapsed, granted>>

-----------------------------------------------------------------------------
(* Values *)

\* normalize_write_set: a lease on a global path covers the whole repository.
Scope == {s \in SUBSET Path \ {{}} : s \cap GlobalPath # {} => s = Path}

RecoveryStates == {"ACTIVE", "SUSPECT", "ORPHANED", "RECLAIMABLE"}

Lease == [fence : Nat, writer : Node, scope : Scope, state : RecoveryStates]

\* The seed is the registry head a tombstone is bound to.
Legacy == [sha : Nat, state : {"ACTIVE", "RELEASED", "MIGRATED_TO_V3"},
           fence : Nat, writer : Node \cup {None}, seed : Nat]

\* The tombstone and the seed of a completed migration (0: none).
Registry == [sha : Nat, generation : Nat, leases : SUBSET Lease,
             stale : SUBSET Nat, tombstone : Nat, seed : Nat]

Prepared == [ref : {"legacy"}, commit : Legacy] \cup
         [ref : {"registry"}, commit : Registry]

Fences(leases) == {l.fence : l \in leases}

Overlap(a, b) == a \cap b # {}

Migrated == registry.tombstone # 0

-----------------------------------------------------------------------------
(* Validation *)

\* migration_tombstone_findings and migration_binding_findings are empty.
MigrationBound(leg, reg) ==
    /\ reg.tombstone # 0
    /\ leg.state = "MIGRATED_TO_V3"
    /\ reg.tombstone = leg.sha
    /\ reg.seed = leg.seed

\* _registry_findings is empty.
RegistryValid(reg) ==
    /\ Fences(reg.leases) \cap reg.stale = {}
    /\ \A l, k \in reg.leases : l # k => l.fence # k.fence /\ ~Overlap(l.scope, k.scope)

\* A registry that follows the present one.
NextRegistry(leases, stale) ==
    [registry EXCEPT !.sha = @ + 1, !.generation = @ + 1,
                     !.leases = leases, !.stale = stale]

-----------------------------------------------------------------------------
(* Publication *)

Prepare(n, ref, commit) ==
    /\ spec[n] = None
    /\ spec' = [spec EXCEPT ![n] = [ref |-> ref, commit |-> commit]]

PrepareRegistry(n, reg) ==
    /\ reg.generation <= MaxGeneration
    /\ RegistryValid(reg)
    /\ Prepare(n, "registry", reg)

\* The commit's parent is its predecessor in the ref it was built from.
Head(ref) == IF ref = "legacy" THEN legacy.sha ELSE registry.sha

\* Plausible bug: the ref is updated by force.
CurrentParent_Forced(n) == TRUE

CurrentParent(n) == spec[n].commit.sha = Head(spec[n].ref) + 1

Apply(n) ==
    IF spec[n].ref = "legacy"
    THEN legacy' = spec[n].commit /\ UNCHANGED <<registry, granted>>
    ELSE /\ registry' = spec[n].commit
         /\ granted' = granted \cup Fences(registry'.leases)
         /\ UNCHANGED legacy

\* A non-forced push of a prepared commit.
Publish(n) ==
    /\ spec[n] # None
    /\ CurrentParent(n)
    /\ Apply(n)
    /\ spec' = [spec EXCEPT ![n] = None]
    /\ UNCHANGED <<seen, lapsed>>

\* A push that another one overtook fails and changes nothing; a node that
\* stops forgets what it read and prepared.
Lose(n) ==
    /\ spec[n] # None \/ seen[n] # None
    /\ spec' = [spec EXCEPT ![n] = None]
    /\ seen' = [seen EXCEPT ![n] = None]
    /\ UNCHANGED <<legacy, registry, lapsed, granted>>

\* Every builder, and the hosted gate, reads the V2 ref first and the V3 ref
\* in a later step.
ReadLegacy(n) ==
    /\ spec[n] = None
    /\ seen' = [seen EXCEPT ![n] = legacy]
    /\ UNCHANGED <<legacy, registry, spec, lapsed, granted>>

-----------------------------------------------------------------------------
(* The V2 ref *)

\* An issuer older than the migration acquires from a terminal predecessor.
LegacyAcquire(n) ==
    /\ seen[n] # None /\ seen[n].state = "RELEASED"
    /\ seen[n].sha < MaxLegacy
    /\ Prepare(n, "legacy", [seen[n] EXCEPT !.sha = @ + 1, !.state = "ACTIVE",
                                            !.fence = @ + 1, !.writer = n])
    /\ UNCHANGED <<legacy, registry, seen, lapsed, granted>>

\* Its owner releases it.
LegacyRelease(n) ==
    /\ seen[n] # None /\ seen[n].state = "ACTIVE" /\ seen[n].writer = n
    /\ seen[n].sha < MaxLegacy
    /\ Prepare(n, "legacy", [seen[n] EXCEPT !.sha = @ + 1, !.state = "RELEASED"])
    /\ UNCHANGED <<legacy, registry, seen, lapsed, granted>>

-----------------------------------------------------------------------------
(* The migration *)

\* Plausible bug: whatever is not ACTIVE is taken for terminal.
Freezable_NotActive(leg) == leg.state # "ACTIVE"

\* Only an explicit terminal descriptor is retired.
Freezable(leg) == leg.state = "RELEASED"

\* Plausible bug: leases of the registry are carried over.
Openable_Leased == ~Migrated

Openable == registry.leases = {} /\ ~Migrated

\* The barrier replaces a terminal V2 descriptor and names the registry head
\* it was built beside, which must be empty and unmigrated.
BuildMigrationFreeze(n) ==
    /\ seen[n] # None /\ Freezable(seen[n])
    /\ Openable
    /\ Prepare(n, "legacy", [seen[n] EXCEPT !.sha = @ + 1, !.fence = @ + 1,
                               !.state = "MIGRATED_TO_V3", !.seed = registry.sha])
    /\ UNCHANGED <<legacy, registry, seen, lapsed, granted>>

\* Plausible bug: a registry that moved since the barrier is opened as well.
SeedCurrent_AnyHead(leg) == TRUE

SeedCurrent(leg) == registry.sha = leg.seed

\* The registry is opened under the barrier, from the head the barrier names.
BuildRegistryCutover(n) ==
    /\ seen[n] # None /\ seen[n].state = "MIGRATED_TO_V3"
    /\ SeedCurrent(seen[n])
    /\ Openable
    /\ PrepareRegistry(n, [NextRegistry({}, registry.stale) EXCEPT
                             !.tombstone = seen[n].sha, !.seed = seen[n].seed])
    /\ UNCHANGED <<legacy, registry, seen, lapsed, granted>>

-----------------------------------------------------------------------------
(* Leases of the registry *)

\* _admitted_registry: the barrier and its registry are bound to each other.
Admitted(n) == seen[n] # None /\ MigrationBound(seen[n], registry)

\* can_acquire: every lease keeps its paths, whatever its state or expiry.
CanAcquire(s) == \A l \in registry.leases : ~Overlap(l.scope, s)

Acquire(n, s) ==
    /\ CanAcquire(s)
    /\ PrepareRegistry(n,
         NextRegistry(registry.leases \cup
                        {[fence |-> registry.generation + 1, writer |-> n,
                          scope |-> s, state |-> "ACTIVE"]},
                      registry.stale))
    /\ UNCHANGED <<legacy, registry, seen, lapsed, granted>>

\* Plausible bug: a release does not retire its fence.
Release_FenceKept(n, l) ==
    /\ l.writer = n
    /\ PrepareRegistry(n, NextRegistry(registry.leases \ {l}, registry.stale))
    /\ UNCHANGED <<legacy, registry, seen, lapsed, granted>>

\* The owner retires its lease, in whatever state, and its fence with it.
Release(n, l) ==
    /\ l.writer = n
    /\ PrepareRegistry(n, NextRegistry(registry.leases \ {l},
                                       registry.stale \cup {l.fence}))
    /\ UNCHANGED <<legacy, registry, seen, lapsed, granted>>

BuildLease(n, s) == Admitted(n) /\ Acquire(n, s)

BuildRelease(n, l) == Admitted(n) /\ Release(n, l)

\* Before the cutover, in DUAL_COMPATIBILITY, other writers commit leases under
\* the rules of the registry alone: they look at no V2 descriptor and no barrier.
EarlyLease(n, s) ==
    /\ ~Migrated
    /\ registry.generation < MaxEarly
    /\ Acquire(n, s)

EarlyRelease(n, l) == ~Migrated /\ Release(n, l)

\* Plausible bug: the last state of a recovery has another name.
NextState_Reclaimed == [ACTIVE |-> "SUSPECT", SUSPECT |-> "ORPHANED", ORPHANED |-> "RECLAIMED"]

NextState == [ACTIVE |-> "SUSPECT", SUSPECT |-> "ORPHANED", ORPHANED |-> "RECLAIMABLE"]

\* Plausible bug: a lease can be suspected before it has expired.
TransitionAllowed_Unexpired(n, l) ==
    /\ l.state # "RECLAIMABLE"
    /\ l.state = "ORPHANED" => n # l.writer

\* Expiry starts a recovery, and another node than the writer ends it.
TransitionAllowed(n, l) ==
    /\ l.state # "RECLAIMABLE"
    /\ l.state = "ACTIVE" => l.fence \in lapsed
    /\ l.state = "ORPHANED" => n # l.writer

TransitionRecovery(n, l) ==
    /\ TransitionAllowed(n, l)
    /\ PrepareRegistry(n,
         NextRegistry((registry.leases \ {l}) \cup
                        {[l EXCEPT !.state = NextState[l.state]]},
                      registry.stale))
    /\ UNCHANGED <<legacy, registry, seen, lapsed, granted>>

\* A reclaimable lease is replaced, on the same paths, by an active one under
\* the next fence.
ReclaimLease(n, l, writer) ==
    /\ l.state = "RECLAIMABLE"
    /\ n # l.writer
    /\ PrepareRegistry(n,
         NextRegistry((registry.leases \ {l}) \cup
                        {[fence |-> registry.generation + 1, writer |-> writer,
                          scope |-> l.scope, state |-> "ACTIVE"]},
                      registry.stale \cup {l.fence}))
    /\ UNCHANGED <<legacy, registry, seen, lapsed, granted>>

\* validate_fence passes.
FenceCurrent(fence) ==
    /\ fence \notin registry.stale
    /\ \E l \in registry.leases : l.fence = fence /\ l.state = "ACTIVE"

\* A lease reaches its expiry; nothing in the refs changes.
Lapse(l) ==
    /\ l.fence \notin lapsed
    /\ lapsed' = lapsed \cup {l.fence}
    /\ UNCHANGED <<legacy, registry, seen, spec, granted>>

-----------------------------------------------------------------------------
(* The hosted gate of a pull request *)

\* A pull request claims nothing, the V2 commit of its lease, or a scoped lease.
PullRequest ==
    [claim : {"none"}, paths : SUBSET Path] \cup
    [claim : {"legacy"}, paths : SUBSET Path, sha : 0 .. MaxLegacy + 1, writer : Node] \cup
    [claim : {"scoped"}, paths : SUBSET Path, fence : 0 .. MaxGeneration, writer : Node]

\* evaluate_coordination verifies the claim of an active V2 lease.  (It also
\* refuses an expired one.)
LegacyClaimVerified(leg, pr) ==
    /\ leg.state = "ACTIVE"
    /\ pr.claim = "legacy"
    /\ pr.sha = leg.sha
    /\ pr.writer = leg.writer

\* evaluate: the paths are within an active, unexpired lease of the claimant,
\* or unclaimed before the migration, and in no lease of another.
ScopedVerdict(pr) ==
    LET own == {l \in registry.leases : pr.claim = "scoped" /\ l.fence = pr.fence}
    IN  /\ IF pr.claim = "scoped"
           THEN \E l \in own : /\ l.state = "ACTIVE" /\ l.fence \notin lapsed
                               /\ l.writer = pr.writer
                               /\ pr.paths \subseteq l.scope
           ELSE ~Migrated
        /\ \A l \in registry.leases \ own : ~Overlap(l.scope, pr.paths)

\* Plausible bug: an exact V2 claim passes before the migration is looked at.
Admits_LegacyFirst(leg, pr) ==
    \/ LegacyClaimVerified(leg, pr)
    \/ /\ Migrated \/ leg.state = "MIGRATED_TO_V3" => MigrationBound(leg, registry)
       /\ Migrated \/ leg.state = "RELEASED"
       /\ ScopedVerdict(pr)

\* evaluate_hosted_pull_request_v3 of a V2 descriptor read earlier and the
\* registry as it is now.
Admits(leg, pr) ==
    IF Migrated \/ leg.state = "MIGRATED_TO_V3"
    THEN MigrationBound(leg, registry) /\ ScopedVerdict(pr)
    ELSE \/ LegacyClaimVerified(leg, pr)
         \/ leg.state = "RELEASED" /\ ScopedVerdict(pr)

-----------------------------------------------------------------------------
(* The system *)

\* A released V2 lease beside an empty registry, both at their first commit.
Init ==
    /\ legacy = [sha |-> 1, state |-> "RELEASED", fence |-> 1, writer |-> None,
                 seed |-> 0]
    /\ registry = [sha |-> 1, generation |-> 1, leases |-> {}, stale |-> {},
                   tombstone |-> 0, seed |-> 0]
    /\ seen = [n \in Node |-> None]
    /\ spec = [n \in Node |-> None]
    /\ lapsed = {}
    /\ granted = {}

Next ==
    \/ \E l \in registry.leases : Lapse(l)
    \/ \E n \in Node :
         \/ ReadLegacy(n)
         \/ LegacyAcquire(n)
         \/ LegacyRelease(n)
         \/ BuildMigrationFreeze(n)
         \/ BuildRegistryCutover(n)
         \/ \E s \in Scope : BuildLease(n, s) \/ EarlyLease(n, s)
         \/ \E l \in registry.leases :
              \/ BuildRelease(n, l)
              \/ EarlyRelease(n, l)
              \/ TransitionRecovery(n, l)
              \/ \E writer \in Node : ReclaimLease(n, l, writer)
         \/ Publish(n)
         \/ Lose(n)

Spec == Init /\ [][Next]_vars

-----------------------------------------------------------------------------
(* Properties *)

\* Every variable has the type of the descriptor or read it stands for.
TypeOK ==
    /\ legacy \in Legacy
    /\ registry \in Registry
    /\ seen \in [Node -> Legacy \cup {None}]
    /\ spec \in [Node -> Prepared \cup {None}]
    /\ lapsed \subseteq Nat
    /\ granted \subseteq Nat

\* "After cutover every lease uses V3": what the registry was opened under stays
\* at the head of the V2 ref, whatever was prepared for that ref before, so that
\* no V2 lease comes back beside the scoped ones.
OneRegime == Migrated => MigrationBound(legacy, registry)

\* INTERRUPTED migration, "NO_ISSUANCE_RESUME_SAME_CUTOVER": between the two
\* publications the registry is either the empty one the barrier names, from
\* which the same cutover can be built again, or has moved on for good.
FrozenResumable ==
    legacy.state = "MIGRATED_TO_V3" /\ ~Migrated =>
      /\ legacy.seed <= registry.sha
      /\ registry.sha = legacy.seed => registry.leases = {}

\* "Any changed seed/head fails closed; no silent rebind": the registry is opened
\* under the barrier that is at the head of the V2 ref, from the very head it
\* names and without a lease in it, also when early writers raced the cutover.
CutoverFromSeed ==
    [][~Migrated /\ Migrated' =>
         /\ legacy.state = "MIGRATED_TO_V3" /\ UNCHANGED legacy
         /\ registry.sha = legacy.seed
         /\ registry.leases = {} /\ registry'.leases = {}]_vars

\* "FAIL_PERMANENTLY" for a stale fence: every fence ever granted is that of a
\* live lease or retired, never both, and no later lease can get it again.
NoFenceForgotten ==
    /\ granted = Fences(registry.leases) \cup (registry.stale \cap granted)
    /\ Fences(registry.leases) \cap registry.stale = {}
    /\ \A f \in granted : f <= registry.generation

\* An admission given for two reads at different times holds when it is given.
\* After the cutover it is a scoped one under the barrier, whatever V2 descriptor
\* was read; a scoped one has the current fence; and but for an exact V2 claim
\* before the cutover, it shares no path with the lease of another.
AdmissionHolds ==
    \A n \in Node : seen[n] # None =>
      \A pr \in PullRequest : Admits(seen[n], pr) =>
        /\ Migrated => legacy.state = "MIGRATED_TO_V3" /\ pr.claim = "scoped"
        /\ pr.claim = "scoped" => FenceCurrent(pr.fence)
        /\ \/ ~Migrated /\ LegacyClaimVerified(seen[n], pr)
           \/ \A l \in registry.leases : Overlap(l.scope, pr.paths) =>
                pr.claim = "scoped" /\ l.fence = pr.fence /\ l.writer = pr.writer

\* A live V2 lease, and a live and unexpired scoped one, is ended by its own
\* writer only: by no migration, recovery or stale commit of another node.
UnexpiredIsKept ==
    [][/\ \A l \in registry.leases :
            l.state = "ACTIVE" /\ l.fence \notin lapsed /\ l \notin registry'.leases
              => spec[l.writer] # None /\ spec'[l.writer] = None
       /\ legacy.state = "ACTIVE" /\ legacy' # legacy
              => spec[legacy.writer] # None /\ spec'[legacy.writer] = None]_vars

\* The registry is a set of scoped locks.
Locks == INSTANCE ScopedLocks WITH
           held <- {[fence |-> l.fence, scope |-> l.scope] : l \in registry.leases},
           last <- registry.generation

\* Published one by one from stale reads, the commits of the registry still act
\* as atomic operations on exclusive locks under growing fences.
ImplementsScopedLocks == Locks!Spec

=============================================================================
