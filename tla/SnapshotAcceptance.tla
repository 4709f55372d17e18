-------------------------- MODULE SnapshotAcceptance --------------------------
(***************************************************************************)
(* Acceptance of live authority snapshots, versions V3 to V6: every worker *)
(* process holds one snapshot issued by the provider, and the processes    *)
(* share an append-only acceptance ledger under one file lock.  An owner-  *)
(* reserved action runs under the newest accepted snapshot only.           *)
(*                                                                         *)
(* A snapshot is the record of what its hash covers and the decisions read;*)
(* two snapshots have the same hash when they are the same record.  The    *)
(* end of its validity is the first of its own expiry and the staleness of *)
(* its domain observations.  AuthorityActions has the body of an action in *)
(* detail; here it is one place between two checks of the ledger.          *)
(***************************************************************************)
EXTENDS Naturals, Sequences

CONSTANTS
    Worker,        \* processes that open the same state directory
    Id,            \* snapshot identities
    SourceHead,    \* heads of the provider's source ledger
    None,          \* no snapshot, no lock holder
    Lifetime,      \* ticks a snapshot is valid for
    MaxClock,      \* bound: ticks of the clock
    MaxCrashes,    \* bound: process crashes in a behaviour
    MaxCommits     \* bound: actions committed in a behaviour

ASSUME SnapshotBounds ==
    /\ Lifetime \in Nat \ {0}
    /\ MaxClock \in Nat
    /\ MaxCrashes \in Nat
    /\ MaxCommits \in Nat

ASSUME NoneIsNoValue == None \notin Worker

VARIABLES
    clock,         \* provider time
    entries,       \* the acceptance ledger: accepted snapshots, oldest first
    torn,          \* whether its last line is incomplete
    ledgerLock,    \* holder of the acceptance lock
    coordinator,   \* holder of the action lock (V9)
    pc,            \* where each process is
    held,          \* the snapshot each process was opened with
    call,          \* the time a process read when it was called, and the
                   \* acceptance its action is bound to (0: none)
    committed,     \* committed actions: the snapshot and acceptance they name
    crashes        \* number of crashes so far

vars == <<clock, entries, torn, ledgerLock, coordinator, pc, held, call,
          committed, crashes>>

-----------------------------------------------------------------------------
(* Values *)

Snapshot == [id : Id, head : SourceHead, generated : 0 .. MaxClock]

Place == {"down", "idle", "accepting", "called", "coordinated", "accepted",
          "body", "checked"}

NoCall == [now |-> 0, sequence |-> 0]

Latest == entries[Len(entries)]

\* validate_domain: neither from the future nor expired at the given time.
ValidAt(s, now) == s.generated <= now /\ now <= s.generated + Lifetime

-----------------------------------------------------------------------------
(* The decision on a candidate *)

\* Plausible bug: any earlier acceptance makes a replay idempotent.
Idempotent_Anywhere(s) == \E k \in DOMAIN entries : entries[k] = s

\* An exact replay is idempotent while its snapshot is the latest.
Idempotent(s) == entries # <<>> /\ Latest = s

\* Plausible bug: the source heads are not compared.
Advances_AnyHead(s) ==
    /\ \A k \in DOMAIN entries : entries[k].id # s.id
    /\ entries # <<>> => s.generated > Latest.generated

\* A new snapshot: unknown identity, later than the latest one, and no return
\* to a source head that another one superseded.
Advances(s) ==
    /\ \A k \in DOMAIN entries : entries[k].id # s.id
    /\ entries # <<>> =>
         /\ s.generated > Latest.generated
         /\ \/ s.head = Latest.head
            \/ \A k \in DOMAIN entries : entries[k].head # s.head

\* _preview_current of a snapshot at a time.
Acceptable(s, now) == ValidAt(s, now) /\ (Idempotent(s) \/ Advances(s))

\* _latest_locked_acceptance does not raise.
LatestAccepted(w) ==
    /\ ~torn
    /\ ValidAt(held[w], call[w].now)
    /\ Idempotent(held[w])

-----------------------------------------------------------------------------
(* A process *)

\* The constructor loads the ledger under its lock and raises when it is torn.
Open(w, s) ==
    /\ pc[w] = "down"
    /\ ledgerLock = None
    /\ ~torn
    /\ pc' = [pc EXCEPT ![w] = "idle"]
    /\ held' = [held EXCEPT ![w] = s]
    /\ UNCHANGED <<clock, entries, torn, ledgerLock, coordinator, call,
                   committed, crashes>>

\* Plausible bug: the time a process works with runs ahead of the provider's.
Called_Ahead(w, place) ==
    /\ pc[w] = "idle"
    /\ pc' = [pc EXCEPT ![w] = place]
    /\ call' = [call EXCEPT ![w].now = clock + 1]
    /\ UNCHANGED <<clock, entries, torn, ledgerLock, coordinator, held,
                   committed, crashes>>

\* A caller accepts the snapshot ("accepting") or runs an action ("called");
\* the time is read before any lock is waited for.
Called(w, place) ==
    /\ pc[w] = "idle"
    /\ pc' = [pc EXCEPT ![w] = place]
    /\ call' = [call EXCEPT ![w].now = clock]
    /\ UNCHANGED <<clock, entries, torn, ledgerLock, coordinator, held,
                   committed, crashes>>

\* An action first takes the coordination lock.
Coordinate(w) ==
    /\ pc[w] = "called"
    /\ coordinator = None
    /\ Len(committed) < MaxCommits
    /\ coordinator' = w
    /\ pc' = [pc EXCEPT ![w] = "coordinated"]
    /\ UNCHANGED <<clock, entries, torn, ledgerLock, held, call, committed,
                   crashes>>

\* The append of the ledger, and where the process goes on.
AppendAcceptance(w) ==
    /\ pc[w] \in {"accepting", "coordinated"}
    /\ ~torn
    /\ Acceptable(held[w], call[w].now)
    /\ entries' = IF Idempotent(held[w]) THEN entries
                                         ELSE Append(entries, held[w])
    /\ pc' = [pc EXCEPT ![w] = IF @ = "coordinated" THEN "accepted" ELSE "idle"]
    /\ call' = [call EXCEPT ![w] = IF pc[w] = "coordinated" THEN @ ELSE NoCall]
    /\ UNCHANGED <<clock, torn, ledgerLock, coordinator, held, committed,
                   crashes>>

\* Plausible bug: the decision is not serialized with a running action.
Accept_Unlocked(w) == AppendAcceptance(w)

\* accept: refresh, decision and append under the lock of the ledger.
Accept(w) == ledgerLock = None /\ AppendAcceptance(w)

\* The lock was released in between: the snapshot must still be the latest.
\* From here the action holds the ledger to its end.
Bind(w) ==
    /\ pc[w] = "accepted"
    /\ ledgerLock = None
    /\ LatestAccepted(w)
    /\ ledgerLock' = w
    /\ pc' = [pc EXCEPT ![w] = "body"]
    /\ call' = [call EXCEPT ![w].sequence = Len(entries)]
    /\ UNCHANGED <<clock, entries, torn, coordinator, held, committed, crashes>>

\* After the body the latest acceptance must be the one the action is bound to.
Recheck(w) ==
    /\ pc[w] = "body"
    /\ LatestAccepted(w)
    /\ call[w].sequence = Len(entries)
    /\ pc' = [pc EXCEPT ![w] = "checked"]
    /\ UNCHANGED <<clock, entries, torn, ledgerLock, coordinator, held, call,
                   committed, crashes>>

ReleaseLocks(w) ==
    /\ ledgerLock' = IF ledgerLock = w THEN None ELSE ledgerLock
    /\ coordinator' = IF coordinator = w THEN None ELSE coordinator
    /\ call' = [call EXCEPT ![w] = NoCall]

\* ACTION_COMMITTED names the snapshot and its acceptance.
Commit(w) ==
    /\ pc[w] = "checked"
    /\ committed' = Append(committed, [snapshot |-> held[w],
                                       sequence |-> call[w].sequence])
    /\ pc' = [pc EXCEPT ![w] = "idle"]
    /\ ReleaseLocks(w)
    /\ UNCHANGED <<clock, entries, torn, held, crashes>>

\* A decision against the snapshot, or any exception of the body, raises to
\* the caller; the locks are released and nothing is committed.
Refuse(w) ==
    /\ \/ /\ pc[w] \in {"accepting", "coordinated"}
          /\ ledgerLock = None
          /\ torn \/ ~Acceptable(held[w], call[w].now)
       \/ /\ pc[w] = "accepted"
          /\ ledgerLock = None
          /\ ~LatestAccepted(w)
       \/ pc[w] \in {"body", "checked"}
    /\ pc' = [pc EXCEPT ![w] = "idle"]
    /\ ReleaseLocks(w)
    /\ UNCHANGED <<clock, entries, torn, held, committed, crashes>>

\* A process stops; the locks of the operating system go with it.  One that is
\* appending can leave the line incomplete.
Crash(w) ==
    /\ crashes < MaxCrashes
    /\ pc[w] # "down"
    /\ \E tears \in BOOLEAN :
         /\ tears => /\ pc[w] \in {"accepting", "coordinated"}
                     /\ ledgerLock = None
                     /\ Acceptable(held[w], call[w].now)
                     /\ ~Idempotent(held[w])
         /\ torn' = (torn \/ tears)
    /\ pc' = [pc EXCEPT ![w] = "down"]
    /\ held' = [held EXCEPT ![w] = None]
    /\ ReleaseLocks(w)
    /\ crashes' = crashes + 1
    /\ UNCHANGED <<clock, entries, committed>>

\* An idle process is stopped and can be opened with another snapshot.
Close(w) ==
    /\ pc[w] = "idle"
    /\ pc' = [pc EXCEPT ![w] = "down"]
    /\ held' = [held EXCEPT ![w] = None]
    /\ UNCHANGED <<clock, entries, torn, ledgerLock, coordinator, call,
                   committed, crashes>>

Tick ==
    /\ clock < MaxClock
    /\ clock' = clock + 1
    /\ UNCHANGED <<entries, torn, ledgerLock, coordinator, pc, held, call,
                   committed, crashes>>

-----------------------------------------------------------------------------
(* The system *)

Init ==
    /\ clock = 0
    /\ entries = <<>>
    /\ torn = FALSE
    /\ ledgerLock = None
    /\ coordinator = None
    /\ pc = [w \in Worker |-> "down"]
    /\ held = [w \in Worker |-> None]
    /\ call = [w \in Worker |-> NoCall]
    /\ committed = <<>>
    /\ crashes = 0

Next ==
    \/ Tick
    \/ \E w \in Worker :
         \/ \E s \in Snapshot : Open(w, s)
         \/ Called(w, "accepting")
         \/ Called(w, "called")
         \/ Coordinate(w)
         \/ Accept(w)
         \/ Bind(w)
         \/ Recheck(w)
         \/ Commit(w)
         \/ Refuse(w)
         \/ Crash(w)
         \/ Close(w)

Spec == Init /\ [][Next]_vars

-----------------------------------------------------------------------------
(* Properties *)

\* Every variable has the type of the file or field it stands for.
TypeOK ==
    /\ clock \in 0 .. MaxClock
    /\ entries \in Seq(Snapshot)
    /\ torn \in BOOLEAN
    /\ ledgerLock \in Worker \cup {None}
    /\ coordinator \in Worker \cup {None}
    /\ pc \in [Worker -> Place]
    /\ held \in [Worker -> Snapshot \cup {None}]
    /\ call \in [Worker -> [now : 0 .. MaxClock, sequence : Nat]]
    /\ committed \in Seq([snapshot : Snapshot, sequence : Nat])
    /\ crashes \in 0 .. MaxCrashes

\* V4, "fail-closed when a superseded source-ledger head is reintroduced": the
\* acceptances of one source head follow each other without another head in
\* between, and every acceptance was generated after the one before it.
LedgerOnlyAdvances ==
    \A i, j \in DOMAIN entries :
      i < j =>
        /\ entries[i].generated < entries[j].generated
        /\ entries[i].id # entries[j].id
        /\ entries[i].head = entries[j].head =>
             \A k \in i .. j : entries[k].head = entries[i].head

\* V5, EXACT_LATEST_ACCEPTED_SNAPSHOT: when an action commits, the acceptance
\* it names is still the last one of the ledger, and of its own snapshot,
\* whatever other processes accepted while it ran.
CommitsUnderLatest ==
    [][committed' # committed =>
         LET action == committed'[Len(committed')]
         IN  /\ action.sequence = Len(entries)
             /\ action.snapshot = Latest]_vars

\* "A superseded candidate does not grant live authority": the authority the
\* actions committed under never goes back to an older snapshot or acceptance.
AuthorityNeverGoesBack ==
    \A i, j \in DOMAIN committed :
      i < j => /\ committed[i].sequence <= committed[j].sequence
               /\ committed[i].snapshot.generated <= committed[j].snapshot.generated

=============================================================================
