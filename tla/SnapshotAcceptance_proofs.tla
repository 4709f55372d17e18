---------------------- MODULE SnapshotAcceptance_proofs ----------------------
(***************************************************************************)
(* Proofs about SnapshotAcceptance, for any processes, identities, source  *)
(* heads, lifetime and bounds.                                             *)
(***************************************************************************)
EXTENDS SnapshotAcceptance, TLAPS

-----------------------------------------------------------------------------
(* The inductive invariant *)

\* A process that is open holds a snapshot.
HoldsSnapshot == \A w \in Worker : pc[w] # "down" => held[w] \in Snapshot

\* A process between the two checks of its action has the ledger for itself,
\* and the acceptance it is bound to is the latest one, of its own snapshot.
BoundToLatest ==
    \A w \in Worker : pc[w] \in {"body", "checked"} =>
      /\ ledgerLock = w
      /\ entries # <<>>
      /\ held[w] = Latest
      /\ call[w].sequence = Len(entries)

\* A committed action names an acceptance of the ledger and its snapshot.
CommittedAccepted ==
    \A i \in DOMAIN committed :
      /\ committed[i].sequence \in DOMAIN entries
      /\ committed[i].snapshot = entries[committed[i].sequence]

IInv ==
    /\ TypeOK
    /\ HoldsSnapshot
    /\ BoundToLatest
    /\ CommittedAccepted
    /\ LedgerOnlyAdvances
    /\ AuthorityNeverGoesBack

-----------------------------------------------------------------------------
(* Types *)

LEMMA SnapshotType ==
    ASSUME NEW s \in Snapshot
    PROVE  s.id \in Id /\ s.head \in SourceHead /\ s.generated \in Nat
BY SnapshotBounds DEF Snapshot

\* The types of an appended sequence.
LEMMA AppendFacts ==
    ASSUME NEW T, NEW s \in Seq(T), NEW e \in T
    PROVE  /\ Append(s, e) \in Seq(T)
           /\ Append(s, e) # <<>>
           /\ Len(Append(s, e)) = Len(s) + 1
           /\ DOMAIN Append(s, e) = 1 .. Len(s) + 1
           /\ \A i \in 1 .. Len(s) : Append(s, e)[i] = s[i]
           /\ Append(s, e)[Len(s) + 1] = e
OBVIOUS

\* Releasing locks keeps their types, and the locks others hold.
LEMMA ReleaseType ==
    ASSUME TypeOK, NEW w \in Worker, ReleaseLocks(w)
    PROVE  /\ ledgerLock' \in Worker \cup {None}
           /\ coordinator' \in Worker \cup {None}
           /\ call' \in [Worker -> [now : 0 .. MaxClock, sequence : Nat]]
           /\ \A v \in Worker \ {w} : /\ call'[v] = call[v]
                                      /\ ledgerLock = v => ledgerLock' = v
<1>1. NoCall \in [now : 0 .. MaxClock, sequence : Nat]
  BY SnapshotBounds DEF NoCall
<1>2. call' = [call EXCEPT ![w] = NoCall]
  BY DEF ReleaseLocks
<1>3. call \in [Worker -> [now : 0 .. MaxClock, sequence : Nat]]
  BY DEF TypeOK
<1>4. call' \in [Worker -> [now : 0 .. MaxClock, sequence : Nat]]
  BY <1>1, <1>2, <1>3
<1>5. \A v \in Worker \ {w} : call'[v] = call[v]
  BY <1>2, <1>3
<1>6. QED
  BY <1>4, <1>5 DEF ReleaseLocks, TypeOK

\* Initially nothing is held, accepted or committed.
LEMMA InitInvariant == Init => IInv
<1> SUFFICES ASSUME Init PROVE IInv
  OBVIOUS
<1> USE DEF Init
<1>1. TypeOK
  <2>1. NoCall \in [now : 0 .. MaxClock, sequence : Nat]
    BY SnapshotBounds DEF NoCall
  <2>2. call \in [Worker -> [now : 0 .. MaxClock, sequence : Nat]]
    BY <2>1
  <2>3. entries \in Seq(Snapshot) /\ committed \in Seq([snapshot : Snapshot, sequence : Nat])
    OBVIOUS
  <2>4. pc \in [Worker -> Place] /\ held \in [Worker -> Snapshot \cup {None}]
    BY DEF Place
  <2>5. clock \in 0 .. MaxClock /\ crashes \in 0 .. MaxCrashes
    BY SnapshotBounds
  <2>6. torn \in BOOLEAN
    OBVIOUS
  <2>7. ledgerLock \in Worker \cup {None} /\ coordinator \in Worker \cup {None}
    OBVIOUS
  <2>8. QED
    BY <2>2, <2>3, <2>4, <2>5, <2>6, <2>7 DEF TypeOK
<1>2. HoldsSnapshot /\ BoundToLatest
  BY DEF HoldsSnapshot, BoundToLatest
<1>3. CommittedAccepted /\ LedgerOnlyAdvances /\ AuthorityNeverGoesBack
  BY DEF CommittedAccepted, LedgerOnlyAdvances, AuthorityNeverGoesBack
<1>4. QED
  BY <1>1, <1>2, <1>3 DEF IInv

\* What an appended acceptance is, and what an append leaves alone.
LEMMA AppendType ==
    ASSUME TypeOK, HoldsSnapshot, NEW w \in Worker, AppendAcceptance(w)
    PROVE  /\ held[w] \in Snapshot
           /\ entries' \in Seq(Snapshot)
           /\ pc' \in [Worker -> Place]
           /\ \A v \in Worker : pc'[v] # "down" => pc[v] # "down"
           /\ call' \in [Worker -> [now : 0 .. MaxClock, sequence : Nat]]
<1>1. held[w] \in Snapshot
  BY DEF HoldsSnapshot, AppendAcceptance
<1>2. entries' \in Seq(Snapshot)
  BY <1>1, AppendFacts DEF TypeOK, AppendAcceptance
<1>3. pc' \in [Worker -> Place] /\ \A v \in Worker : pc'[v] # "down" => pc[v] # "down"
  BY DEF TypeOK, AppendAcceptance, Place
<1>4. NoCall \in [now : 0 .. MaxClock, sequence : Nat]
  BY SnapshotBounds DEF NoCall
<1>5. call' \in [Worker -> [now : 0 .. MaxClock, sequence : Nat]]
  <2>1. call \in [Worker -> [now : 0 .. MaxClock, sequence : Nat]]
    BY DEF TypeOK
  <2>2. call' = [call EXCEPT ![w] = IF pc[w] = "coordinated" THEN call[w] ELSE NoCall]
    BY <2>1 DEF AppendAcceptance
  <2>3. QED
    BY <1>4, <2>1, <2>2
<1>6. QED
  BY <1>1, <1>2, <1>3, <1>5

\* Every step keeps the types, and an open process its snapshot.
LEMMA TypeStep ==
    ASSUME TypeOK, HoldsSnapshot, [Next]_vars
    PROVE  TypeOK' /\ HoldsSnapshot'
<1>1. ASSUME NEW w \in Worker, NEW s \in Snapshot, Open(w, s)
      PROVE  TypeOK' /\ HoldsSnapshot'
  BY <1>1 DEF Open, TypeOK, HoldsSnapshot, Place
<1>2. ASSUME NEW w \in Worker, NEW place \in {"accepting", "called"}, Called(w, place)
      PROVE  TypeOK' /\ HoldsSnapshot'
  <2>1. call' \in [Worker -> [now : 0 .. MaxClock, sequence : Nat]]
    BY <1>2 DEF Called, TypeOK
  <2>2. pc' \in [Worker -> Place]
    BY <1>2 DEF Called, TypeOK, Place
  <2>3. HoldsSnapshot'
    BY <1>2 DEF Called, TypeOK, HoldsSnapshot
  <2>4. QED
    BY <1>2, <2>1, <2>2, <2>3 DEF Called, TypeOK
<1>3. ASSUME NEW w \in Worker, Coordinate(w) PROVE TypeOK' /\ HoldsSnapshot'
  BY <1>3 DEF Coordinate, TypeOK, HoldsSnapshot, Place
<1>4. ASSUME NEW w \in Worker, Accept(w) PROVE TypeOK' /\ HoldsSnapshot'
  <2>1. AppendAcceptance(w)
    BY <1>4 DEF Accept
  <2>2. QED
    BY <2>1, AppendType DEF AppendAcceptance, TypeOK, HoldsSnapshot
<1>5. ASSUME NEW w \in Worker, Bind(w) PROVE TypeOK' /\ HoldsSnapshot'
  <2>1. Len(entries) \in Nat
    BY DEF TypeOK
  <2>2. call' \in [Worker -> [now : 0 .. MaxClock, sequence : Nat]]
    BY <1>5, <2>1 DEF Bind, TypeOK
  <2>3. pc' \in [Worker -> Place] /\ HoldsSnapshot'
    BY <1>5 DEF Bind, TypeOK, HoldsSnapshot, Place
  <2>4. QED
    BY <1>5, <2>2, <2>3 DEF Bind, TypeOK
<1>6. ASSUME NEW w \in Worker, Recheck(w) PROVE TypeOK' /\ HoldsSnapshot'
  BY <1>6 DEF Recheck, TypeOK, HoldsSnapshot, Place
<1>7. ASSUME NEW w \in Worker, Commit(w) PROVE TypeOK' /\ HoldsSnapshot'
  <2>1. held[w] \in Snapshot /\ call[w].sequence \in Nat
    BY <1>7 DEF Commit, HoldsSnapshot, TypeOK
  <2>2. committed' \in Seq([snapshot : Snapshot, sequence : Nat])
    BY <1>7, <2>1, AppendFacts DEF Commit, TypeOK
  <2>3. ReleaseLocks(w)
    BY <1>7 DEF Commit
  <2>4. pc' \in [Worker -> Place] /\ HoldsSnapshot'
    BY <1>7 DEF Commit, TypeOK, HoldsSnapshot, Place
  <2>5. QED
    BY <1>7, <2>2, <2>3, <2>4, ReleaseType DEF Commit, TypeOK
<1>8. ASSUME NEW w \in Worker, Refuse(w) PROVE TypeOK' /\ HoldsSnapshot'
  <2>1. ReleaseLocks(w) /\ pc[w] # "down"
    BY <1>8 DEF Refuse
  <2>2. pc' \in [Worker -> Place] /\ HoldsSnapshot'
    BY <1>8, <2>1 DEF Refuse, TypeOK, HoldsSnapshot, Place
  <2>3. QED
    BY <1>8, <2>1, <2>2, ReleaseType DEF Refuse, TypeOK
<1>9. ASSUME NEW w \in Worker, Crash(w) PROVE TypeOK' /\ HoldsSnapshot'
  <2>1. ReleaseLocks(w)
    BY <1>9 DEF Crash
  <2>2. pc' \in [Worker -> Place] /\ HoldsSnapshot'
    BY <1>9 DEF Crash, TypeOK, HoldsSnapshot, Place
  <2>3. torn' \in BOOLEAN /\ held' \in [Worker -> Snapshot \cup {None}]
    BY <1>9 DEF Crash, TypeOK
  <2>4. crashes' \in 0 .. MaxCrashes
    BY <1>9, SnapshotBounds DEF Crash, TypeOK
  <2>5. QED
    BY <1>9, <2>1, <2>2, <2>3, <2>4, ReleaseType DEF Crash, TypeOK
<1>10. ASSUME NEW w \in Worker, Close(w) PROVE TypeOK' /\ HoldsSnapshot'
  BY <1>10 DEF Close, TypeOK, HoldsSnapshot, Place
<1>11. CASE Tick
  BY <1>11, SnapshotBounds DEF Tick, TypeOK, HoldsSnapshot
<1>12. CASE UNCHANGED vars
  BY <1>12 DEF vars, TypeOK, HoldsSnapshot
<1>13. QED
  BY <1>1, <1>2, <1>3, <1>4, <1>5, <1>6, <1>7, <1>8, <1>9, <1>10, <1>11, <1>12 DEF Next

-----------------------------------------------------------------------------
(* The ledger *)

\* The three ways the ledger and the commits change: not at all, by an
\* acceptance, or by the commit of a process that is bound.
LEMMA Changes ==
    ASSUME [Next]_vars
    PROVE  \/ UNCHANGED <<entries, committed>>
           \/ /\ UNCHANGED committed
              /\ \E w \in Worker : Accept(w)
           \/ /\ UNCHANGED entries
              /\ \E w \in Worker : Commit(w)
<1>1. CASE UNCHANGED vars
  BY <1>1 DEF vars
<1>2. CASE Tick
  BY <1>2 DEF Tick
<1>3. ASSUME NEW w \in Worker,
             \/ \E s \in Snapshot : Open(w, s)
             \/ Called(w, "accepting") \/ Called(w, "called")
             \/ Coordinate(w) \/ Bind(w) \/ Recheck(w) \/ Refuse(w)
             \/ Crash(w) \/ Close(w)
      PROVE  UNCHANGED <<entries, committed>>
  BY <1>3 DEF Open, Called, Coordinate, Bind, Recheck, Refuse, Crash, Close
<1>4. ASSUME NEW w \in Worker, Accept(w) PROVE UNCHANGED committed
  BY <1>4 DEF Accept, AppendAcceptance
<1>5. ASSUME NEW w \in Worker, Commit(w) PROVE UNCHANGED entries
  BY <1>5 DEF Commit
<1>6. QED
  BY <1>1, <1>2, <1>3, <1>4, <1>5 DEF Next

\* An acceptance leaves the ledger as it is, or appends a snapshot that advances.
LEMMA AcceptAdvances ==
    ASSUME TypeOK, HoldsSnapshot, NEW w \in Worker, Accept(w)
    PROVE  /\ held[w] \in Snapshot
           /\ \/ UNCHANGED entries
              \/ Advances(held[w]) /\ entries' = Append(entries, held[w])
<1>1. AppendAcceptance(w)
  BY DEF Accept
<1>2. QED
  BY <1>1, AppendType DEF AppendAcceptance, Acceptable

\* A snapshot that advances extends the ledger as LedgerOnlyAdvances says.
LEMMA AdvancesExtends ==
    ASSUME TypeOK, LedgerOnlyAdvances, NEW s \in Snapshot, Advances(s),
           entries' = Append(entries, s)
    PROVE  LedgerOnlyAdvances'
<1> DEFINE n == Len(entries)
<1>1. /\ entries \in Seq(Snapshot) /\ n \in Nat
      /\ DOMAIN entries = 1 .. n /\ DOMAIN entries' = 1 .. n + 1
      /\ \A i \in 1 .. n : entries'[i] = entries[i]
      /\ entries'[n + 1] = s
  BY AppendFacts DEF TypeOK
<1>2. \A i \in 1 .. n : entries[i] \in Snapshot /\ entries[i].generated \in Nat
  BY <1>1, SnapshotType
<1> SUFFICES ASSUME NEW i \in 1 .. n + 1, NEW j \in 1 .. n + 1, i < j
             PROVE  /\ entries'[i].generated < entries'[j].generated
                    /\ entries'[i].id # entries'[j].id
                    /\ entries'[i].head = entries'[j].head =>
                         \A k \in i .. j : entries'[k].head = entries'[i].head
  BY <1>1 DEF LedgerOnlyAdvances
<1>3. CASE j <= n
  BY <1>1, <1>3 DEF LedgerOnlyAdvances
<1>4. CASE j = n + 1
  <2>1. i \in 1 .. n /\ n \in 1 .. n /\ entries # <<>>
    BY <1>1, <1>4
  <2>2. /\ Latest = entries[n]
        /\ Latest.generated < s.generated
        /\ entries[i].id # s.id
    BY <1>1, <1>2, <2>1, SnapshotType DEF Advances, Latest
  <2>3. entries[i].generated <= Latest.generated
    <3>1. CASE i = n
      BY <1>2, <2>1, <2>2, <3>1
    <3>2. CASE i < n
      BY <1>1, <1>2, <2>1, <2>2, <3>2 DEF LedgerOnlyAdvances
    <3>3. QED
      BY <2>1, <3>1, <3>2
  <2>4. entries[i].generated < s.generated
    BY <1>2, <2>1, <2>2, <2>3, SnapshotType
  <2>5. ASSUME entries[i].head = s.head, NEW k \in i .. n + 1
        PROVE  entries'[k].head = s.head
    <3>1. entries[n].head = s.head
      BY <1>1, <2>1, <2>2, <2>5 DEF Advances
    <3>2. CASE k = n + 1
      BY <1>1, <3>2
    <3>3. CASE k <= n /\ i < n
      <4>1. \A l \in i .. n : entries[l].head = entries[i].head
        BY <1>1, <2>1, <2>5, <3>1, <3>3 DEF LedgerOnlyAdvances
      <4>2. QED
        BY <1>1, <2>1, <2>5, <3>3, <4>1
    <3>4. CASE k = n /\ i = n
      BY <1>1, <2>1, <3>1, <3>4
    <3>5. k = n + 1 \/ (k <= n /\ i < n) \/ (k = n /\ i = n)
      <4>1. n \in Nat
        BY DEF TypeOK
      <4>2. QED
        BY <2>1, <4>1
    <3>6. QED
      BY <3>2, <3>3, <3>4, <3>5
  <2>6. entries'[i] = entries[i] /\ entries'[j] = s
    BY <1>1, <1>4, <2>1
  <2>7. entries'[i].head = entries'[j].head =>
          \A k \in i .. j : entries'[k].head = entries'[i].head
    <3>1. SUFFICES ASSUME entries[i].head = s.head, NEW k \in i .. n + 1
                   PROVE  entries'[k].head = entries[i].head
      BY <1>4, <2>6
    <3>2. entries'[k].head = s.head
      BY <2>5, <3>1
    <3>3. QED
      BY <3>1, <3>2
  <2>8. QED
    BY <2>2, <2>4, <2>6, <2>7
<1>5. QED
  BY <1>1, <1>3, <1>4

\* The ledger only ever advances.
LEMMA LedgerStep ==
    ASSUME IInv, [Next]_vars
    PROVE  LedgerOnlyAdvances'
<1>1. CASE UNCHANGED entries
  BY <1>1 DEF IInv, LedgerOnlyAdvances
<1>2. ASSUME NEW w \in Worker, Accept(w) PROVE LedgerOnlyAdvances'
  <2>1. CASE UNCHANGED entries
    BY <2>1, <1>1
  <2>2. CASE Advances(held[w]) /\ entries' = Append(entries, held[w])
    BY <1>2, <2>2, AcceptAdvances, AdvancesExtends DEF IInv
  <2>3. QED
    BY <1>2, <2>1, <2>2, AcceptAdvances DEF IInv
<1>3. QED
  BY <1>1, <1>2, Changes

-----------------------------------------------------------------------------
(* Actions and their acceptance *)

\* Whoever is bound has the ledger for itself, and nobody accepts meanwhile.
LEMMA BoundStep ==
    ASSUME TypeOK, HoldsSnapshot, BoundToLatest, [Next]_vars
    PROVE  BoundToLatest'
<1> USE NoneIsNoValue
<1>1. ASSUME NEW w \in Worker, NEW s \in Snapshot, Open(w, s) PROVE BoundToLatest'
  BY <1>1 DEF Open, TypeOK, BoundToLatest, Latest
<1>2. ASSUME NEW w \in Worker, NEW place \in {"accepting", "called"}, Called(w, place)
      PROVE  BoundToLatest'
  BY <1>2 DEF Called, TypeOK, BoundToLatest, Latest
<1>3. ASSUME NEW w \in Worker, Coordinate(w) PROVE BoundToLatest'
  BY <1>3 DEF Coordinate, TypeOK, BoundToLatest, Latest
<1>4. ASSUME NEW w \in Worker, Accept(w) PROVE BoundToLatest'
  <2>1. ledgerLock = None /\ AppendAcceptance(w)
    BY <1>4 DEF Accept
  <2>2. \A v \in Worker : pc[v] \notin {"body", "checked"}
    BY <2>1 DEF BoundToLatest
  <2>3. \A v \in Worker : pc'[v] \notin {"body", "checked"}
    BY <2>1, <2>2 DEF AppendAcceptance, TypeOK
  <2>4. QED
    BY <2>3 DEF BoundToLatest
<1>5. ASSUME NEW w \in Worker, Bind(w) PROVE BoundToLatest'
  <2>1. \A v \in Worker : pc[v] \notin {"body", "checked"}
    BY <1>5 DEF Bind, BoundToLatest
  <2>2. \A v \in Worker \ {w} : pc'[v] \notin {"body", "checked"}
    BY <1>5, <2>1 DEF Bind, TypeOK
  <2>3. ledgerLock' = w /\ entries' = entries /\ held' = held
    BY <1>5 DEF Bind
  <2>4. entries # <<>> /\ held[w] = Latest
    BY <1>5 DEF Bind, LatestAccepted, Idempotent
  <2>5. call'[w].sequence = Len(entries)
    BY <1>5 DEF Bind, TypeOK
  <2>6. QED
    BY <2>2, <2>3, <2>4, <2>5 DEF BoundToLatest, Latest
<1>6. ASSUME NEW w \in Worker, Recheck(w) PROVE BoundToLatest'
  BY <1>6 DEF Recheck, TypeOK, BoundToLatest, Latest
<1>7. ASSUME NEW w \in Worker, ReleaseLocks(w), pc' = [pc EXCEPT ![w] = pc'[w]],
             pc'[w] \in {"idle", "down"}, held' = [held EXCEPT ![w] = held'[w]],
             entries' = entries
      PROVE  BoundToLatest'
  <2>1. SUFFICES ASSUME NEW v \in Worker, pc'[v] \in {"body", "checked"}
                 PROVE  /\ ledgerLock' = v /\ entries' # <<>>
                        /\ held'[v] = Latest' /\ call'[v].sequence = Len(entries')
    BY DEF BoundToLatest
  <2>2. v # w /\ pc'[v] = pc[v] /\ held'[v] = held[v]
    BY <1>7, <2>1 DEF TypeOK
  <2>3. QED
    BY <1>7, <2>1, <2>2, ReleaseType DEF BoundToLatest, Latest
<1>8. ASSUME NEW w \in Worker, Commit(w) \/ Refuse(w) \/ Crash(w) PROVE BoundToLatest'
  BY <1>7, <1>8 DEF Commit, Refuse, Crash, TypeOK
<1>9. ASSUME NEW w \in Worker, Close(w) PROVE BoundToLatest'
  BY <1>9 DEF Close, TypeOK, BoundToLatest, Latest
<1>10. CASE Tick
  BY <1>10 DEF Tick, BoundToLatest, Latest
<1>11. CASE UNCHANGED vars
  BY <1>11 DEF vars, BoundToLatest, Latest
<1>12. QED
  BY <1>1, <1>2, <1>3, <1>4, <1>5, <1>6, <1>8, <1>9, <1>10, <1>11 DEF Next

\* A commit names the last acceptance of the ledger, which is of its snapshot.
LEMMA CommitNamesLatest ==
    ASSUME IInv, NEW w \in Worker, Commit(w)
    PROVE  /\ committed' = Append(committed, [snapshot |-> held[w],
                                             sequence |-> call[w].sequence])
           /\ entries # <<>>
           /\ held[w] = Latest
           /\ call[w].sequence = Len(entries)
BY DEF Commit, IInv, BoundToLatest

\* What is committed keeps naming acceptances of the ledger, in their order.
LEMMA CommittedStep ==
    ASSUME IInv, [Next]_vars
    PROVE  CommittedAccepted' /\ AuthorityNeverGoesBack'
<1> DEFINE Action == [snapshot : Snapshot, sequence : Nat]
<1>1. /\ entries \in Seq(Snapshot) /\ Len(entries) \in Nat
      /\ DOMAIN entries = 1 .. Len(entries)
      /\ committed \in Seq(Action) /\ Len(committed) \in Nat
      /\ DOMAIN committed = 1 .. Len(committed)
  BY DEF IInv, TypeOK
<1>2. CASE UNCHANGED <<entries, committed>>
  BY <1>2 DEF IInv, CommittedAccepted, AuthorityNeverGoesBack
<1>3. ASSUME NEW w \in Worker, Accept(w), UNCHANGED committed
      PROVE  CommittedAccepted' /\ AuthorityNeverGoesBack'
  <2>1. CASE UNCHANGED entries
    BY <1>2, <1>3, <2>1
  <2>2. CASE entries' = Append(entries, held[w]) /\ held[w] \in Snapshot
    <3>1. /\ DOMAIN entries' = 1 .. Len(entries) + 1
          /\ \A i \in 1 .. Len(entries) : entries'[i] = entries[i]
      BY <1>1, <2>2, AppendFacts
    <3>2. QED
      BY <1>1, <1>3, <3>1 DEF IInv, CommittedAccepted, AuthorityNeverGoesBack
  <2>3. QED
    BY <1>3, <2>1, <2>2, AcceptAdvances DEF IInv
<1>4. ASSUME NEW w \in Worker, Commit(w), UNCHANGED entries
      PROVE  CommittedAccepted' /\ AuthorityNeverGoesBack'
  <2> DEFINE n == Len(entries)
             m == Len(committed)
             action == [snapshot |-> held[w], sequence |-> call[w].sequence]
  <2>1. /\ committed' = Append(committed, action)
        /\ action.sequence = n /\ n \in 1 .. n
        /\ action.snapshot = entries[n] /\ entries[n] \in Snapshot
    BY <1>1, <1>4, CommitNamesLatest DEF Latest
  <2>2. action \in Action
    BY <1>1, <2>1
  <2>3. /\ DOMAIN committed' = 1 .. m + 1
        /\ \A i \in 1 .. m : committed'[i] = committed[i]
        /\ committed'[m + 1] = action
    BY <1>1, <2>1, <2>2, AppendFacts
  <2>4. \A i \in 1 .. m : /\ committed[i].sequence \in 1 .. n
                          /\ committed[i].snapshot = entries[committed[i].sequence]
    BY <1>1 DEF IInv, CommittedAccepted
  <2>5. \A k \in 1 .. n : /\ entries[k].generated \in Nat
                          /\ entries[k].generated <= entries[n].generated
    <3>1. SUFFICES ASSUME NEW k \in 1 .. n
                   PROVE  /\ entries[k].generated \in Nat
                          /\ entries[k].generated <= entries[n].generated
      OBVIOUS
    <3>2. entries[k].generated \in Nat /\ entries[n].generated \in Nat
      BY <1>1, <2>1, SnapshotType
    <3>3. k < n => entries[k].generated < entries[n].generated
      BY <1>1, <2>1 DEF IInv, LedgerOnlyAdvances
    <3>4. QED
      BY <1>1, <3>2, <3>3
  <2>6. CommittedAccepted'
    BY <1>1, <1>4, <2>1, <2>3, <2>4 DEF CommittedAccepted
  <2>7. AuthorityNeverGoesBack'
    <3>1. SUFFICES ASSUME NEW i \in 1 .. m + 1, NEW j \in 1 .. m + 1, i < j
                   PROVE  /\ committed'[i].sequence <= committed'[j].sequence
                          /\ committed'[i].snapshot.generated <= committed'[j].snapshot.generated
      BY <2>3 DEF AuthorityNeverGoesBack
    <3>2. CASE j <= m
      <4>1. m \in Nat /\ DOMAIN committed = 1 .. m
        BY <1>1 DEF IInv, TypeOK
      <4>2. i \in 1 .. m /\ j \in 1 .. m
        BY <3>1, <3>2, <4>1
      <4>3. committed'[i] = committed[i] /\ committed'[j] = committed[j]
        BY <2>3, <4>2
      <4>4. /\ committed[i].sequence <= committed[j].sequence
            /\ committed[i].snapshot.generated <= committed[j].snapshot.generated
        BY <1>1, <3>1, <4>1, <4>2 DEF IInv, AuthorityNeverGoesBack
      <4>5. QED
        BY <4>3, <4>4
    <3>3. CASE j = m + 1
      <4>1. i \in 1 .. m
        <5>1. m \in Nat
          BY <1>1 DEF IInv, TypeOK
        <5>2. QED
          BY <3>1, <3>3, <5>1
      <4>2. committed[i].sequence <= n /\ committed[i].snapshot.generated <= entries[n].generated
        BY <1>1, <2>4, <2>5, <4>1
      <4>3. QED
        BY <2>1, <2>3, <3>3, <4>1, <4>2
    <3>4. QED
      BY <1>1, <3>1, <3>2, <3>3
  <2>8. QED
    BY <2>6, <2>7
<1>5. QED
  BY <1>2, <1>3, <1>4, Changes

-----------------------------------------------------------------------------
(* The theorems *)

LEMMA Invariant == Spec => []IInv
<1>1. IInv /\ [Next]_vars => IInv'
  BY TypeStep, LedgerStep, BoundStep, CommittedStep DEF IInv
<1>2. QED
  BY InitInvariant, <1>1, PTL DEF Spec

\* Every reachable state is well typed, for any processes and bounds.
THEOREM TypeCorrect == Spec => []TypeOK
<1>1. IInv => TypeOK
  BY DEF IInv
<1>2. QED
  BY <1>1, Invariant, PTL

\* Whatever snapshots the processes were opened with, and however they crash,
\* the acceptance ledger never returns to an older snapshot or a superseded head.
THEOREM LedgerAlwaysAdvances == Spec => []LedgerOnlyAdvances
<1>1. IInv => LedgerOnlyAdvances
  BY DEF IInv
<1>2. QED
  BY <1>1, Invariant, PTL

\* The authority that successive actions commit under never goes back.
THEOREM AuthorityNeverReturns == Spec => []AuthorityNeverGoesBack
<1>1. IInv => AuthorityNeverGoesBack
  BY DEF IInv
<1>2. QED
  BY <1>1, Invariant, PTL

\* An action commits under the acceptance that is the latest at that moment.
THEOREM CommitsAlwaysUnderLatest == Spec => CommitsUnderLatest
<1> DEFINE Named == committed' # committed =>
                      LET action == committed'[Len(committed')]
                      IN  /\ action.sequence = Len(entries)
                          /\ action.snapshot = Latest
<1>1. ASSUME IInv, [Next]_vars PROVE [Named]_vars
  <2>1. ASSUME NEW w \in Worker, Commit(w) PROVE Named
    <3> DEFINE action == [snapshot |-> held[w], sequence |-> call[w].sequence]
    <3>1. /\ committed' = Append(committed, action)
          /\ action.sequence = Len(entries) /\ action.snapshot = Latest
      BY <1>1, <2>1, CommitNamesLatest
    <3>2. committed \in Seq([snapshot : Snapshot, sequence : Nat])
      BY <1>1 DEF IInv, TypeOK
    <3>3. committed'[Len(committed')] = action
      BY <3>1, <3>2
    <3>4. QED
      BY <3>1, <3>3
  <2>2. CASE committed' = committed
    BY <2>2
  <2>3. QED
    BY <1>1, <2>1, <2>2, Changes
<1>2. QED
  BY <1>1, Invariant, PTL DEF Spec, CommitsUnderLatest

=============================================================================
