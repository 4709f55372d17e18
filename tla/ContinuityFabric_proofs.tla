------------------------ MODULE ContinuityFabric_proofs ------------------------
(***************************************************************************)
(* Proofs about ContinuityFabric, for any commands, lanes, dependencies,   *)
(* effect classes, processes and bounds.  That a binding serves one lease  *)
(* needs no more; the other theorems are about fabrics in which at most    *)
(* one process records readbacks: with two they are false.                 *)
(***************************************************************************)
EXTENDS ContinuityFabric, TLAPS

OneReader == \A v, w \in Reader : v = w

-----------------------------------------------------------------------------
(* The inductive invariant *)

\* The lanes of a command exist from its admission on.
LanesAdmitted ==
    \A l \in Lane : command[CommandOf[l]] = "ABSENT" => lane[l].state = "ABSENT"

\* The token of a running lane is the number of its lease.
TokenIsLease ==
    \A l \in Lane : lane[l].state = "RUNNING" => lane[l].token = lane[l].generation

\* While a readback is being recorded its lane stays held, under the lease that
\* was read.
ReadbackCurrent ==
    \A w \in Worker : doing[w].op = "readback" =>
      /\ w \in Reader
      /\ lane[doing[w].lane].state = "HOLD_READBACK"
      /\ lane[doing[w].lane].generation = doing[w].generation

\* Only external lanes have effects to settle.
UnsettledExternal == \A l \in Lane : unsettled[l] # {} => External(l)

\* A lane that was leased, and has not failed, waits for nothing.
LeasedInOrder ==
    \A l \in Lane : lane[l].state \in {"RUNNING", "HOLD_READBACK", "COMPLETE"} =>
                      DepsComplete(lane, l)

\* Nothing is left of a command that was counted as empty.
CountedIsFinished ==
    \A w \in Worker : doing[w].op = "sweep" /\ doing[w].counted # None =>
                        Unfinished(doing[w].counted) = {}

IInv ==
    /\ TypeOK
    /\ LanesAdmitted
    /\ TokenIsLease
    /\ ReadbackCurrent
    /\ UnsettledExternal
    /\ UncertainEffectKept
    /\ LeasedInOrder
    /\ DependencyOrder
    /\ CountedIsFinished
    /\ CompleteIsFinished

-----------------------------------------------------------------------------
(* Rows and handlers *)

LEMMA UnleasedFacts ==
    ASSUME NEW row \in Row, NEW state \in LaneState
    PROVE  /\ Unleased(row, state) \in Row
           /\ Unleased(row, state).state = state
           /\ Unleased(row, state).generation = row.generation
           /\ Unleased(row, state).permit = row.permit
           /\ Unleased(row, state).consumed = row.consumed
<1>1. 0 \in Nat /\ None \in Worker \cup {None}
  OBVIOUS
<1>2. Unleased(row, state) \in Row
  BY <1>1, Zenon DEF Row, Unleased
<1>3. QED
  BY <1>2 DEF Row, Unleased

LEMMA LeasedFacts ==
    ASSUME NEW row \in Row, NEW l \in Lane, NEW w \in Worker
    PROVE  /\ LeasedRow(row, l, w) \in Row
           /\ LeasedRow(row, l, w).state = "RUNNING"
           /\ LeasedRow(row, l, w).generation = row.generation + 1
           /\ LeasedRow(row, l, w).token = row.generation + 1
           /\ LeasedRow(row, l, w).permit = row.permit
           /\ External(l) => LeasedRow(row, l, w).consumed
           /\ ~External(l) => LeasedRow(row, l, w).consumed = row.consumed
<1>1. row.generation + 1 \in Nat /\ (row.consumed \/ External(l)) \in BOOLEAN
  BY DEF Row
<1>2. LeasedRow(row, l, w) \in Row
  BY <1>1, Zenon DEF Row, LeasedRow, LaneState
<1>3. /\ LeasedRow(row, l, w).state = "RUNNING"
      /\ LeasedRow(row, l, w).generation = row.generation + 1
      /\ LeasedRow(row, l, w).token = row.generation + 1
      /\ LeasedRow(row, l, w).permit = row.permit
  BY DEF Row, LeasedRow
<1>4. LeasedRow(row, l, w).consumed = (row.consumed \/ External(l))
  BY Zenon DEF Row, LeasedRow
<1>5. row.consumed \in BOOLEAN
  BY DEF Row
<1>6. QED
  BY <1>2, <1>3, <1>4, <1>5, Zenon

LEMMA BlockFacts ==
    ASSUME NEW rows \in [Lane -> Row], NEW blocks \in SUBSET Lane
    PROVE  /\ Block(rows, blocks) \in [Lane -> Row]
           /\ \A l \in Lane \ blocks : Block(rows, blocks)[l] = rows[l]
           /\ \A l \in blocks : Block(rows, blocks)[l].state = "BLOCKED"
           /\ \A l \in Lane :
                /\ Block(rows, blocks)[l].generation = rows[l].generation
                /\ Block(rows, blocks)[l].token = rows[l].token
                /\ Block(rows, blocks)[l].permit = rows[l].permit
                /\ Block(rows, blocks)[l].consumed = rows[l].consumed
<1>1. ASSUME NEW row \in Row
      PROVE  /\ [row EXCEPT !.state = "BLOCKED"] \in Row
             /\ [row EXCEPT !.state = "BLOCKED"].state = "BLOCKED"
             /\ [row EXCEPT !.state = "BLOCKED"].generation = row.generation
             /\ [row EXCEPT !.state = "BLOCKED"].token = row.token
             /\ [row EXCEPT !.state = "BLOCKED"].permit = row.permit
             /\ [row EXCEPT !.state = "BLOCKED"].consumed = row.consumed
  BY DEF Row, LaneState
<1>2. QED
  BY <1>1 DEF Block

\* Blocked lanes were ready, and each is behind one that ended badly.
LEMMA BlocksFacts ==
    ASSUME NEW rows \in [Lane -> Row], NEW blocks \in BlocksOf(rows)
    PROVE  /\ blocks \in SUBSET Lane
           /\ \A l \in blocks :
                /\ rows[l].state = "READY"
                /\ \E d \in DependsOn[l] : Block(rows, blocks)[d].state \in TerminalBad
<1>1. blocks \in SUBSET Lane /\ \A l \in blocks : rows[l].state = "READY"
  BY DEF BlocksOf
<1>2. ASSUME NEW l \in blocks
      PROVE  \E d \in DependsOn[l] : Block(rows, blocks)[d].state \in TerminalBad
  <2>1. PICK d \in DependsOn[l] :
          d \in Lane /\ (rows[d].state \in TerminalBad \/ d \in blocks)
    BY <1>1 DEF BlocksOf
  <2>2. Block(rows, blocks)[d].state \in TerminalBad
    BY <1>1, <2>1, BlockFacts DEF TerminalBad
  <2>3. QED
    BY <2>1, <2>2
<1>3. QED
  BY <1>1, <1>2

LEMMA DoingFacts ==
    ASSUME NEW d \in Doing
    PROVE  /\ d.op = "bind" => d.lane \in Lane /\ d.permit \in Permit
           /\ d.op = "readback" => /\ d.lane \in Lane /\ d.generation \in Nat
                                   /\ d.observed \in BOOLEAN /\ d.cancelled \in BOOLEAN
           /\ d.op = "sweep" => /\ d.todo \in SUBSET Command
                                /\ d.counted \in Command \cup {None}
BY DEF Doing, Idle

LEMMA PermitCounts ==
    ASSUME NEW permits \in [Permit -> Int], NEW p \in Permit
    PROVE  /\ OneMore(permits, p) \in [Permit -> Int]
           /\ OneLess(permits, p) \in [Permit -> Int]
           /\ OneMore(permits, p)[p] = permits[p] + 1
           /\ OneLess(permits, p)[p] = permits[p] - 1
           /\ \A q \in Permit \ {p} : /\ OneMore(permits, p)[q] = permits[q]
                                     /\ OneLess(permits, p)[q] = permits[q]
BY DEF OneMore, OneLess

LEMMA InterruptedType ==
    \A l \in Lane : /\ Interrupted(l) \in {"READY", "HOLD_READBACK"}
                    /\ External(l) => Interrupted(l) = "HOLD_READBACK"
BY DEF Interrupted, External

\* What taking leases back does to a row: it stays; its lane is interrupted; or
\* the lane is blocked, having been ready or made ready.
LEMMA RecoverFacts ==
    ASSUME TypeOK, Recover
    PROVE  /\ lane' \in [Lane -> Row] /\ lapsed' = {}
           /\ \A l \in Lane :
                /\ lane'[l].generation = lane[l].generation
                /\ lane'[l].permit = lane[l].permit
                /\ lane'[l].consumed = lane[l].consumed
                /\ \/ lane'[l] = lane[l]
                   \/ lane[l].state = "RUNNING" /\ lane'[l].state = Interrupted(l)
                   \/ /\ \/ lane[l].state = "READY"
                         \/ lane[l].state = "RUNNING" /\ ~External(l)
                      /\ lane'[l].state = "BLOCKED"
                      /\ \E d \in DependsOn[l] : lane'[d].state \in TerminalBad
<1> DEFINE expired == {l \in lapsed : lane[l].state = "RUNNING"}
           rows == [l \in Lane |-> IF l \in expired THEN Unleased(lane[l], Interrupted(l))
                                                    ELSE lane[l]]
<1>1. lane \in [Lane -> Row] /\ expired \subseteq Lane
  BY DEF TypeOK
<1>2. \A l \in Lane : Interrupted(l) \in LaneState
  BY InterruptedType DEF LaneState
<1>3. \A l \in Lane :
        /\ rows[l] \in Row
        /\ rows[l].generation = lane[l].generation
        /\ rows[l].permit = lane[l].permit
        /\ rows[l].consumed = lane[l].consumed
        /\ \/ rows[l] = lane[l]
           \/ lane[l].state = "RUNNING" /\ rows[l].state = Interrupted(l)
  BY <1>1, <1>2, UnleasedFacts
<1>4. rows \in [Lane -> Row]
  BY <1>3
<1>5. PICK blocks \in BlocksOf(rows) : lane' = Block(rows, blocks)
  BY DEF Recover
<1>6. lapsed' = {}
  BY DEF Recover
<1> HIDE DEF rows
<1>7. lane' \in [Lane -> Row]
  BY <1>4, <1>5, BlocksFacts, BlockFacts
<1>8. ASSUME NEW l \in Lane
      PROVE  /\ lane'[l].generation = lane[l].generation
             /\ lane'[l].permit = lane[l].permit
             /\ lane'[l].consumed = lane[l].consumed
             /\ \/ lane'[l] = lane[l]
                \/ lane[l].state = "RUNNING" /\ lane'[l].state = Interrupted(l)
                \/ /\ \/ lane[l].state = "READY"
                      \/ lane[l].state = "RUNNING" /\ ~External(l)
                   /\ lane'[l].state = "BLOCKED"
                   /\ \E d \in DependsOn[l] : lane'[d].state \in TerminalBad
  <2>1. CASE l \notin blocks
    BY <1>3, <1>4, <1>5, <2>1, BlocksFacts, BlockFacts
  <2>2. CASE l \in blocks
    <3>1. /\ lane'[l].state = "BLOCKED"
          /\ rows[l].state = "READY"
          /\ \E d \in DependsOn[l] : lane'[d].state \in TerminalBad
      BY <1>4, <1>5, <2>2, BlocksFacts, BlockFacts
    <3>2. /\ lane'[l].generation = rows[l].generation
          /\ lane'[l].permit = rows[l].permit
          /\ lane'[l].consumed = rows[l].consumed
      BY <1>4, <1>5, <2>2, BlocksFacts, BlockFacts
    <3>3. lane[l].state = "READY" \/ (lane[l].state = "RUNNING" /\ ~External(l))
      BY <1>3, <3>1, InterruptedType
    <3>4. QED
      BY <1>3, <3>1, <3>2, <3>3
  <2>3. QED
    BY <2>1, <2>2
<1>9. QED
  BY <1>6, <1>7, <1>8

\* The rows after a wave: leased, blocked or as they were.
LEMMA WaveFacts ==
    ASSUME TypeOK, NEW w \in Worker, LeaseWave(w)
    PROVE  /\ lane' \in [Lane -> Row]
           /\ unsettled' \in [Lane -> SUBSET Nat]
           /\ unused' \in [Lane -> [Permit -> Int]]
           /\ \A l \in Lane :
                \/ /\ lane'[l] = lane[l] /\ unsettled'[l] = unsettled[l]
                   /\ unused'[l] = unused[l]
                \/ /\ lane[l].state = "READY" /\ lane'[l].state = "BLOCKED"
                   /\ lane'[l].generation = lane[l].generation
                   /\ lane'[l].permit = lane[l].permit
                   /\ lane'[l].consumed = lane[l].consumed
                   /\ unsettled'[l] = unsettled[l] /\ unused'[l] = unused[l]
                   /\ \E d \in DependsOn[l] : lane'[d].state \in TerminalBad
                \/ /\ lane[l].state = "READY" /\ lane'[l].state = "RUNNING"
                   /\ DepsComplete(lane, l)
                   /\ lane'[l].generation = lane[l].generation + 1
                   /\ lane'[l].token = lane[l].generation + 1
                   /\ lane'[l].permit = lane[l].permit
                   /\ External(l) => /\ lane[l].permit \in Permit /\ ~lane[l].consumed
                                     /\ lane'[l].consumed
                                     /\ unused'[l] = OneLess(unused[l], lane[l].permit)
                   /\ ~External(l) => /\ lane'[l].consumed = lane[l].consumed
                                      /\ unused'[l] = unused[l]
                   /\ unsettled'[l] = IF External(l)
                                      THEN unsettled[l] \cup {lane[l].generation + 1}
                                      ELSE unsettled[l]
<1>1. /\ lane \in [Lane -> Row] /\ unsettled \in [Lane -> SUBSET Nat]
      /\ unused \in [Lane -> [Permit -> Int]]
  BY DEF TypeOK
<1>2. PICK blocks \in BlocksOf(lane) :
        LET rows == Block(lane, blocks)
        IN  \E wave \in SUBSET {l \in Lane : Leasable(rows, l)} :
              /\ lane' = [l \in Lane |-> IF l \in wave THEN LeasedRow(rows[l], l, w)
                                                       ELSE rows[l]]
              /\ unsettled' = [l \in Lane |->
                   IF l \in wave /\ External(l)
                   THEN unsettled[l] \cup {rows[l].generation + 1} ELSE unsettled[l]]
              /\ unused' = [l \in Lane |->
                   IF l \in wave /\ External(l)
                   THEN OneLess(unused[l], rows[l].permit) ELSE unused[l]]
  BY DEF LeaseWave
<1> DEFINE rows == Block(lane, blocks)
<1>3. PICK wave \in SUBSET {l \in Lane : Leasable(rows, l)} :
        /\ lane' = [l \in Lane |-> IF l \in wave THEN LeasedRow(rows[l], l, w)
                                                 ELSE rows[l]]
        /\ unsettled' = [l \in Lane |->
             IF l \in wave /\ External(l)
             THEN unsettled[l] \cup {rows[l].generation + 1} ELSE unsettled[l]]
        /\ unused' = [l \in Lane |->
             IF l \in wave /\ External(l)
             THEN OneLess(unused[l], rows[l].permit) ELSE unused[l]]
  BY <1>2
<1>4. /\ rows \in [Lane -> Row]
      /\ blocks \in SUBSET Lane
      /\ \A l \in Lane \ blocks : rows[l] = lane[l]
      /\ \A l \in Lane : rows[l].generation = lane[l].generation
      /\ \A l \in blocks : /\ rows[l].state = "BLOCKED"
                           /\ rows[l].permit = lane[l].permit
                           /\ rows[l].consumed = lane[l].consumed
                           /\ lane[l].state = "READY"
                           /\ \E d \in DependsOn[l] : rows[d].state \in TerminalBad
  BY <1>1, BlocksFacts, BlockFacts
<1> HIDE DEF rows
<1>5. lane' \in [Lane -> Row] /\ unsettled' \in [Lane -> SUBSET Nat]
  <2>1. \A l \in Lane : rows[l] \in Row /\ LeasedRow(rows[l], l, w) \in Row
    BY <1>4, LeasedFacts
  <2>2. \A l \in Lane : rows[l].generation + 1 \in Nat
    BY <1>4 DEF Row
  <2>3. QED
    BY <1>1, <1>3, <2>1, <2>2
<1>6. \A l \in wave : /\ rows[l].state = "READY" /\ l \notin blocks /\ rows[l] = lane[l]
                      /\ DepsComplete(rows, l)
                      /\ External(l) => lane[l].permit \in Permit /\ ~lane[l].consumed
  <2>1. \A l \in Lane : lane[l].permit \in Permit \cup {None}
    BY <1>1 DEF Row
  <2>2. QED
    BY <1>3, <1>4, <2>1 DEF Leasable
<1>7. ASSUME NEW l \in blocks
      PROVE  \E d \in DependsOn[l] : lane'[d].state \in TerminalBad
  <2>1. PICK d \in DependsOn[l] : rows[d].state \in TerminalBad
    BY <1>4
  <2>2. d \in Lane
    BY <1>4, FabricAssumption
  <2>3. d \notin wave
    BY <1>6, <2>1 DEF TerminalBad
  <2>4. QED
    BY <1>3, <2>1, <2>2, <2>3
<1>8. ASSUME NEW l \in wave
      PROVE  DepsComplete(lane, l)
  <2>1. \A d \in DependsOn[l] : d \in Lane
    BY <1>3, FabricAssumption
  <2>2. QED
    BY <1>4, <1>6, <1>8, <2>1 DEF DepsComplete
<1>9. ASSUME NEW l \in wave
      PROVE  /\ lane[l].state = "READY" /\ lane'[l].state = "RUNNING"
             /\ lane'[l].generation = lane[l].generation + 1
             /\ lane'[l].token = lane[l].generation + 1
             /\ lane'[l].permit = lane[l].permit
             /\ External(l) => /\ lane'[l].consumed
                               /\ unused'[l] = OneLess(unused[l], lane[l].permit)
             /\ ~External(l) => /\ lane'[l].consumed = lane[l].consumed
                                /\ unused'[l] = unused[l]
             /\ unsettled'[l] = IF External(l)
                                THEN unsettled[l] \cup {lane[l].generation + 1}
                                ELSE unsettled[l]
  <2>1. l \in Lane /\ lane[l] \in Row /\ lane'[l] = LeasedRow(lane[l], l, w)
    BY <1>1, <1>3, <1>6, <1>9
  <2>2. lane[l].state = "READY"
    BY <1>6, <1>9
  <2>3. unsettled'[l] = IF External(l)
                        THEN unsettled[l] \cup {lane[l].generation + 1}
                        ELSE unsettled[l]
    BY <1>3, <1>4, <1>9, <2>1
  <2>4. unused'[l] = IF External(l) THEN OneLess(unused[l], lane[l].permit)
                                    ELSE unused[l]
    BY <1>3, <1>6, <1>9, <2>1
  <2>5. /\ LeasedRow(lane[l], l, w).state = "RUNNING"
        /\ LeasedRow(lane[l], l, w).generation = lane[l].generation + 1
        /\ LeasedRow(lane[l], l, w).token = lane[l].generation + 1
        /\ LeasedRow(lane[l], l, w).permit = lane[l].permit
        /\ External(l) => LeasedRow(lane[l], l, w).consumed
        /\ ~External(l) => LeasedRow(lane[l], l, w).consumed = lane[l].consumed
    BY <2>1, LeasedFacts, Zenon
  <2>6. QED
    BY <2>1, <2>2, <2>3, <2>4, <2>5, Zenon
<1>10. unused' \in [Lane -> [Permit -> Int]]
  <2>1. \A l \in wave : External(l) => OneLess(unused[l], rows[l].permit) \in [Permit -> Int]
    BY <1>1, <1>3, <1>6, PermitCounts
  <2>2. QED
    BY <1>1, <1>3, <2>1
<1> DEFINE Same(l) == /\ lane'[l] = lane[l] /\ unsettled'[l] = unsettled[l]
                      /\ unused'[l] = unused[l]
           Behind(l) == /\ lane[l].state = "READY" /\ lane'[l].state = "BLOCKED"
                        /\ lane'[l].generation = lane[l].generation
                        /\ lane'[l].permit = lane[l].permit
                        /\ lane'[l].consumed = lane[l].consumed
                        /\ unsettled'[l] = unsettled[l] /\ unused'[l] = unused[l]
                        /\ \E d \in DependsOn[l] : lane'[d].state \in TerminalBad
<1>11. ASSUME NEW l \in Lane \ wave PROVE Same(l) \/ Behind(l)
  <2>1. lane'[l] = rows[l] /\ unsettled'[l] = unsettled[l] /\ unused'[l] = unused[l]
    BY <1>3
  <2>2. CASE l \in blocks
    BY <1>4, <1>7, <2>1, <2>2
  <2>3. CASE l \notin blocks
    BY <1>4, <2>1, <2>3
  <2>4. QED
    BY <2>2, <2>3
<1>12. \A l \in wave : External(l) => lane[l].permit \in Permit /\ ~lane[l].consumed
  BY <1>6
<1> HIDE DEF Same, Behind
<1>13. ASSUME NEW l \in Lane
       PROVE  \/ Same(l) \/ Behind(l)
              \/ /\ lane[l].state = "READY" /\ lane'[l].state = "RUNNING"
                 /\ DepsComplete(lane, l)
                 /\ lane'[l].generation = lane[l].generation + 1
                 /\ lane'[l].token = lane[l].generation + 1
                 /\ lane'[l].permit = lane[l].permit
                 /\ External(l) => /\ lane[l].permit \in Permit /\ ~lane[l].consumed
                                   /\ lane'[l].consumed
                                   /\ unused'[l] = OneLess(unused[l], lane[l].permit)
                 /\ ~External(l) => /\ lane'[l].consumed = lane[l].consumed
                                    /\ unused'[l] = unused[l]
                 /\ unsettled'[l] = IF External(l)
                                    THEN unsettled[l] \cup {lane[l].generation + 1}
                                    ELSE unsettled[l]
  BY <1>8, <1>9, <1>11, <1>12, Zenon
<1>14. QED
  BY <1>5, <1>10, <1>13 DEF Same, Behind

-----------------------------------------------------------------------------
(* Types *)

LEMMA InitType == Init => TypeOK
<1> SUFFICES ASSUME Init PROVE TypeOK
  OBVIOUS
<1>1. NoRow \in Row
  BY DEF NoRow, Row, LaneState
<1>2. Idle \in Doing
  BY DEF Doing
<1>3. QED
  BY <1>1, <1>2 DEF Init, TypeOK, CommandState

LEMMA OwnerType == ASSUME TypeOK, OwnerStep PROVE TypeOK'
<1>1. PICK c \in Command : \/ AddCommand(c)
                           \/ SetCommandState(c, "PAUSED")
                           \/ SetCommandState(c, "ACTIVE")
                           \/ CancelCommand(c)
  BY DEF OwnerStep
<1>2. CASE SetCommandState(c, "PAUSED") \/ SetCommandState(c, "ACTIVE")
  BY <1>2 DEF SetCommandState, TypeOK, CommandState
<1>3. CASE AddCommand(c)
  <2>1. PICK permits \in [Lane -> Permit \cup {None}] :
          /\ lane' = [l \in Lane |->
               IF l \in LanesOf(c)
               THEN [NoRow EXCEPT !.state = "READY", !.permit = permits[l]] ELSE lane[l]]
          /\ unused' = [l \in Lane |->
               IF permits[l] # None THEN OneMore(unused[l], permits[l]) ELSE unused[l]]
    BY <1>3 DEF AddCommand
  <2>2. ASSUME NEW permit \in Permit \cup {None}
        PROVE  [NoRow EXCEPT !.state = "READY", !.permit = permit] \in Row
    <3>1. NoRow \in Row /\ "READY" \in LaneState
      BY DEF NoRow, Row, LaneState
    <3>2. QED
      BY <3>1, Zenon DEF Row
  <2>3. lane' \in [Lane -> Row]
    BY <2>1, <2>2 DEF TypeOK
  <2>4. unused' \in [Lane -> [Permit -> Int]]
    <3>1. \A l \in Lane : /\ unused[l] \in [Permit -> Int]
                          /\ permits[l] # None => permits[l] \in Permit
      BY DEF TypeOK
    <3>2. \A l \in Lane :
            permits[l] # None => OneMore(unused[l], permits[l]) \in [Permit -> Int]
      BY <3>1, PermitCounts
    <3>3. QED
      BY <2>1, <3>1, <3>2
  <2>5. QED
    BY <1>3, <2>3, <2>4 DEF AddCommand, TypeOK, CommandState
<1>4. CASE CancelCommand(c)
  <2>1. \A l \in Lane : CancelledRow(l) \in Row
    BY UnleasedFacts DEF CancelledRow, TypeOK, LaneState
  <2>2. lane' \in [Lane -> Row]
    BY <1>4, <2>1 DEF CancelCommand, TypeOK
  <2>3. QED
    BY <1>4, <2>2 DEF CancelCommand, TypeOK, CommandState
<1>5. QED
  BY <1>1, <1>2, <1>3, <1>4

LEMMA HandlerTypes ==
    /\ Idle \in Doing /\ [op |-> "wave"] \in Doing /\ [op |-> "list"] \in Doing
    /\ \A l \in Lane, p \in Permit : [op |-> "bind", lane |-> l, permit |-> p] \in Doing
BY DEF Doing

LEMMA LaneStepType == ASSUME TypeOK, NEW w \in Worker, LaneStep(w) PROVE TypeOK'
<1>1. PICK l \in Lane :
        \/ CheckpointLane(w, l)
        \/ FinishLane(w, l, "COMPLETE") \/ FinishLane(w, l, "FAILED")
        \/ \E p \in Permit : ReadForPermit(w, l, p)
        \/ \E observed \in BOOLEAN : ReadForReadback(w, l, observed)
  BY DEF LaneStep
<1>2. lane[l] \in Row
  BY DEF TypeOK
<1>3. CASE CheckpointLane(w, l)
  <2>1. [lane[l] EXCEPT !.checkpoint = lane[l].token] \in Row
    <3>1. lane[l].token \in Nat
      BY <1>2 DEF Row
    <3>2. QED
      BY <1>2, <3>1, Zenon DEF Row
  <2>2. lane' = [lane EXCEPT ![l] = [lane[l] EXCEPT !.checkpoint = lane[l].token]]
    BY <1>3 DEF CheckpointLane
  <2>3. lane' \in [Lane -> Row]
    BY <2>1, <2>2 DEF TypeOK
  <2>4. QED
    BY <1>3, <2>3 DEF CheckpointLane, TypeOK
<1>4. ASSUME NEW state \in {"COMPLETE", "FAILED"}, FinishLane(w, l, state) PROVE TypeOK'
  <2>1. Unleased(lane[l], state) \in Row
    BY <1>2, UnleasedFacts DEF LaneState
  <2>2. /\ lane' \in [Lane -> Row] /\ lapsed' \subseteq Lane
        /\ UNCHANGED <<command, unused>>
    BY <1>4, <2>1 DEF FinishLane, TypeOK
  <2>3. doing' \in [Worker -> Doing]
    BY <1>4, HandlerTypes DEF FinishLane, TypeOK
  <2>4. unsettled' \in [Lane -> SUBSET Nat]
    BY <1>4 DEF FinishLane, TypeOK
  <2>5. QED
    BY <2>2, <2>3, <2>4 DEF TypeOK
<1>5. CASE \E p \in Permit : ReadForPermit(w, l, p)
  BY <1>5, HandlerTypes DEF ReadForPermit, TypeOK
<1>6. ASSUME NEW observed \in BOOLEAN, ReadForReadback(w, l, observed) PROVE TypeOK'
  <2> DEFINE handler == [op |-> "readback", lane |-> l, observed |-> observed,
                         cancelled |-> command[CommandOf[l]] = "CANCELLED",
                         generation |-> lane[l].generation]
  <2>1. (command[CommandOf[l]] = "CANCELLED") \in BOOLEAN /\ lane[l].generation \in Nat
    BY <1>2 DEF Row
  <2>2. handler \in Doing
    BY <2>1, Zenon DEF Doing
  <2>3. doing' = [doing EXCEPT ![w] = handler]
    BY <1>6 DEF ReadForReadback
  <2>4. doing' \in [Worker -> Doing]
    BY <2>2, <2>3 DEF TypeOK
  <2>5. QED
    BY <1>6, <2>4 DEF ReadForReadback, TypeOK
<1>7. QED
  BY <1>1, <1>3, <1>4, <1>5, <1>6

LEMMA BindFacts ==
    ASSUME TypeOK, NEW w \in Worker, BindEffectPermit(w)
    PROVE  /\ lane' \in [Lane -> Row]
           /\ unused' \in [Lane -> [Permit -> Int]]
           /\ \A l \in Lane :
                \/ lane'[l] = lane[l] /\ unused'[l] = unused[l]
                \/ /\ lane'[l].state = lane[l].state
                   /\ lane'[l].token = lane[l].token
                   /\ lane'[l].generation = lane[l].generation
                   /\ lane'[l].permit \in Permit /\ ~lane'[l].consumed
                   /\ unused'[l] = OneMore(unused[l], lane'[l].permit)
<1> DEFINE l == doing[w].lane
           p == doing[w].permit
           row == [lane[l] EXCEPT !.permit = p, !.consumed = FALSE]
<1>1. l \in Lane /\ p \in Permit /\ lane[l] \in Row /\ unused[l] \in [Permit -> Int]
  BY DoingFacts DEF TypeOK, BindEffectPermit
<1>2. lane' = [lane EXCEPT ![l] = row] /\ unused' = [unused EXCEPT ![l] = OneMore(@, p)]
  BY DEF BindEffectPermit, TypeOK
<1>3. row \in Row
  BY <1>1, Zenon DEF Row
<1>4. /\ row.state = lane[l].state /\ row.token = lane[l].token
      /\ row.generation = lane[l].generation
      /\ row.permit = p /\ ~row.consumed
  BY <1>1 DEF Row
<1>5. OneMore(unused[l], p) \in [Permit -> Int]
  BY <1>1, PermitCounts
<1> HIDE DEF l, p, row
<1>6. QED
  BY <1>1, <1>2, <1>3, <1>4, <1>5 DEF TypeOK

\* The row and the effects after a readback is written.
LEMMA ReadbackFacts ==
    ASSUME TypeOK, NEW w \in Worker, RecordEffectReadback(w)
    PROVE  /\ doing[w].op = "readback" /\ doing[w].lane \in Lane
           /\ lane' \in [Lane -> Row] /\ unsettled' \in [Lane -> SUBSET Nat]
           /\ \A l \in Lane \ {doing[w].lane} : lane'[l] = lane[l] /\ unsettled'[l] = unsettled[l]
           /\ lane'[doing[w].lane].state \in {"COMPLETE", "CANCELLED", "READY"}
           /\ lane'[doing[w].lane].generation = lane[doing[w].lane].generation
           /\ lane'[doing[w].lane].permit = lane[doing[w].lane].permit
           /\ lane'[doing[w].lane].consumed = lane[doing[w].lane].consumed
           /\ unsettled'[doing[w].lane] =
                {g \in unsettled[doing[w].lane] : g > doing[w].generation}
<1> DEFINE l == doing[w].lane
           state == CASE doing[w].observed  -> "COMPLETE"
                      [] ~doing[w].observed /\ doing[w].cancelled -> "CANCELLED"
                      [] OTHER -> "READY"
<1>1. doing[w].op = "readback" /\ l \in Lane /\ lane[l] \in Row
  BY DoingFacts DEF TypeOK, RecordEffectReadback
<1>2. /\ lane' = [lane EXCEPT ![l] = Unleased(lane[l], state)]
      /\ unsettled' = [unsettled EXCEPT ![l] = {g \in @ : g > doing[w].generation}]
  BY DEF RecordEffectReadback
<1>3. state \in {"COMPLETE", "CANCELLED", "READY"}
  OBVIOUS
<1> HIDE DEF l, state
<1>4. /\ Unleased(lane[l], state) \in Row
      /\ Unleased(lane[l], state).state = state
      /\ Unleased(lane[l], state).generation = lane[l].generation
      /\ Unleased(lane[l], state).permit = lane[l].permit
      /\ Unleased(lane[l], state).consumed = lane[l].consumed
  BY <1>1, <1>3, UnleasedFacts DEF LaneState
<1>5. /\ lane' \in [Lane -> Row] /\ lane'[l] = Unleased(lane[l], state)
      /\ \A k \in Lane \ {l} : lane'[k] = lane[k]
  BY <1>1, <1>2, <1>4 DEF TypeOK
<1>6. /\ unsettled' \in [Lane -> SUBSET Nat]
      /\ unsettled'[l] = {g \in unsettled[l] : g > doing[w].generation}
      /\ \A k \in Lane \ {l} : unsettled'[k] = unsettled[k]
  BY <1>1, <1>2 DEF TypeOK
<1>7. QED
  BY <1>1, <1>3, <1>4, <1>5, <1>6 DEF l

\* A worker that gives up its lanes interrupts them.
LEMMA YieldFacts ==
    ASSUME TypeOK, NEW w \in Worker, YieldWorker(w)
    PROVE  /\ lane' \in [Lane -> Row]
           /\ \A l \in Lane :
                /\ lane'[l].generation = lane[l].generation
                /\ lane'[l].permit = lane[l].permit
                /\ lane'[l].consumed = lane[l].consumed
                /\ \/ lane'[l] = lane[l]
                   \/ lane[l].state = "RUNNING" /\ lane'[l].state = Interrupted(l)
<1> DEFINE given == {l \in Lane : Holds(w, l)}
<1>1. lane' = [l \in Lane |-> IF l \in given THEN Unleased(lane[l], Interrupted(l))
                                             ELSE lane[l]]
  BY DEF YieldWorker
<1>2. \A l \in Lane : lane[l] \in Row /\ Interrupted(l) \in LaneState
  BY InterruptedType DEF TypeOK, LaneState
<1>3. \A l \in given : lane[l].state = "RUNNING"
  BY DEF Holds
<1> HIDE DEF given
<1>4. QED
  BY <1>1, <1>2, <1>3, UnleasedFacts

\* A sweep with the commands left to count, and the one counted as empty.
Sweeping(d, todo, counted) == [d EXCEPT !.todo = todo, !.counted = counted]

LEMMA SweepType ==
    ASSUME NEW d \in Doing, d.op = "sweep",
           NEW todo \in SUBSET Command, NEW counted \in Command \cup {None}
    PROVE  /\ Sweeping(d, todo, counted) \in Doing
           /\ Sweeping(d, todo, counted).op = "sweep"
           /\ Sweeping(d, todo, counted).counted = counted
<1> DEFINE Sweep == [op : {"sweep"}, todo : SUBSET Command, counted : Command \cup {None}]
<1>1. d \in Sweep
  BY DEF Doing, Idle
<1>2. Sweeping(d, todo, counted) \in Sweep
  BY <1>1, Zenon DEF Sweeping
<1>3. Sweep \subseteq Doing
  BY Zenon DEF Doing
<1>4. Sweeping(d, todo, counted).counted = counted
  BY <1>1 DEF Sweeping
<1>5. QED
  BY <1>2, <1>3, <1>4

LEMMA CountFacts ==
    ASSUME TypeOK, NEW w \in Worker, NEW c \in Command, CountUnfinished(w, c)
    PROVE  /\ doing' \in [Worker -> Doing]
           /\ \A v \in Worker \ {w} : doing'[v] = doing[v]
           /\ doing'[w].op = "sweep"
           /\ doing'[w].counted # None => doing'[w].counted = c /\ Unfinished(c) = {}
<1> DEFINE todo == doing[w].todo \ {c}
           counted == IF Unfinished(c) = {} THEN c ELSE None
<1>1. doing[w] \in Doing /\ doing[w].op = "sweep" /\ todo \in SUBSET Command
  BY DoingFacts DEF TypeOK, CountUnfinished
<1>2. counted \in Command \cup {None}
  OBVIOUS
<1>3. counted # None => counted = c /\ Unfinished(c) = {}
  OBVIOUS
<1>4. doing' = [doing EXCEPT ![w] = Sweeping(doing[w], todo, counted)]
  BY DEF CountUnfinished, TypeOK, Sweeping
<1> HIDE DEF todo, counted
<1>5. QED
  BY <1>1, <1>2, <1>3, <1>4, SweepType DEF TypeOK

LEMMA CompleteFacts ==
    ASSUME TypeOK, NEW w \in Worker, CompleteEmptyCommand(w)
    PROVE  /\ doing[w].op = "sweep" /\ doing[w].counted \in Command
           /\ command' = [command EXCEPT ![doing[w].counted] = "COMPLETE"]
           /\ doing' \in [Worker -> Doing]
           /\ \A v \in Worker \ {w} : doing'[v] = doing[v]
           /\ doing'[w].op = "sweep" /\ doing'[w].counted = None
<1>1. /\ doing[w] \in Doing /\ doing[w].op = "sweep" /\ doing[w].counted # None
      /\ doing[w].counted \in Command /\ doing[w].todo \in SUBSET Command
  BY DoingFacts DEF TypeOK, CompleteEmptyCommand
<1>2. doing' = [doing EXCEPT ![w] = Sweeping(doing[w], doing[w].todo, None)]
  <2>1. [doing[w] EXCEPT !.counted = None] = Sweeping(doing[w], doing[w].todo, None)
    BY <1>1 DEF Sweeping, Doing, Idle
  <2>2. doing' = [doing EXCEPT ![w] = [doing[w] EXCEPT !.counted = None]]
    BY DEF CompleteEmptyCommand, TypeOK
  <2>3. QED
    BY <2>1, <2>2
<1>3. command' = [command EXCEPT ![doing[w].counted] = "COMPLETE"]
  BY DEF CompleteEmptyCommand
<1>4. QED
  BY <1>1, <1>2, <1>3, SweepType DEF TypeOK

LEMMA ListFacts ==
    ASSUME TypeOK, NEW w \in Worker, ListActiveCommands(w)
    PROVE  /\ doing' \in [Worker -> Doing]
           /\ \A v \in Worker \ {w} : doing'[v] = doing[v]
           /\ doing'[w].op = "sweep" /\ doing'[w].counted = None
<1> DEFINE handler == [op |-> "sweep", todo |-> {c \in Command : command[c] = "ACTIVE"},
                       counted |-> None]
<1>1. handler \in Doing /\ handler.op = "sweep" /\ handler.counted = None
  BY DEF Doing
<1>2. doing' = [doing EXCEPT ![w] = handler]
  BY DEF ListActiveCommands
<1> HIDE DEF handler
<1>3. QED
  BY <1>1, <1>2 DEF TypeOK

LEMMA TypeStep == ASSUME TypeOK, [Next]_vars PROVE TypeOK'
<1>1. CASE UNCHANGED vars
  BY <1>1 DEF vars, TypeOK
<1>2. CASE OwnerStep
  BY <1>2, OwnerType
<1>3. CASE ReconcileAfterHostInterrupt
  BY <1>3, RecoverFacts DEF ReconcileAfterHostInterrupt, TypeOK
<1>4. ASSUME NEW l \in Lane, Lapse(l) PROVE TypeOK'
  BY <1>4 DEF Lapse, TypeOK
<1>5. ASSUME NEW w \in Worker, WorkerStep(w) PROVE TypeOK'
  <2>1. CASE BeginWave(w)
    BY <2>1, RecoverFacts, HandlerTypes DEF BeginWave, TypeOK
  <2>2. CASE LeaseWave(w)
    <3>1. /\ lane' \in [Lane -> Row] /\ unsettled' \in [Lane -> SUBSET Nat]
          /\ unused' \in [Lane -> [Permit -> Int]]
      BY <2>2, WaveFacts
    <3>2. QED
      BY <2>2, <3>1, HandlerTypes DEF LeaseWave, TypeOK
  <2>3. CASE LaneStep(w)
    BY <2>3, LaneStepType
  <2>4. CASE YieldWorker(w)
    BY <2>4, YieldFacts DEF YieldWorker, TypeOK
  <2>5. CASE BindEffectPermit(w)
    BY <2>5, BindFacts, HandlerTypes DEF BindEffectPermit, TypeOK
  <2>6. CASE RecordEffectReadback(w)
    <3>1. lane' \in [Lane -> Row] /\ unsettled' \in [Lane -> SUBSET Nat]
      BY <2>6, ReadbackFacts
    <3>2. lapsed' \subseteq Lane /\ UNCHANGED <<command, unused>>
      BY <2>6 DEF RecordEffectReadback, TypeOK
    <3>3. doing' = [doing EXCEPT ![w] = [op |-> "list"]]
      BY <2>6 DEF RecordEffectReadback
    <3>4. QED
      BY <3>1, <3>2, <3>3, HandlerTypes DEF TypeOK
  <2>7. CASE ListActiveCommands(w)
    BY <2>7, ListFacts DEF ListActiveCommands, TypeOK
  <2>8. ASSUME NEW c \in Command, CountUnfinished(w, c) PROVE TypeOK'
    BY <2>8, CountFacts DEF CountUnfinished, TypeOK
  <2>9. CASE CompleteEmptyCommand(w)
    BY <2>9, CompleteFacts DEF CompleteEmptyCommand, TypeOK, CommandState
  <2>10. CASE Abandon(w)
    BY <2>10, HandlerTypes DEF Abandon, TypeOK
  <2>11. QED
    BY <1>5, <2>1, <2>2, <2>3, <2>4, <2>5, <2>6, <2>7, <2>8, <2>9, <2>10 DEF WorkerStep
<1>6. QED
  BY <1>1, <1>2, <1>3, <1>4, <1>5 DEF Next

\* In every reachable state each row and each handler has the type of what it
\* stands for, whatever the number of processes that record readbacks.
THEOREM TypeCorrect == Spec => []TypeOK
BY InitType, TypeStep, PTL DEF Spec

-----------------------------------------------------------------------------
(* What one step does to the row of a lane *)

SameLease(l) ==
    /\ lane'[l].generation = lane[l].generation
    /\ lane'[l].permit = lane[l].permit
    /\ lane'[l].consumed = lane[l].consumed
    /\ unused'[l] = unused[l]

Kept(l) ==
    /\ SameLease(l) /\ lane'[l].state = lane[l].state
    /\ lane'[l].token = lane[l].token
    /\ unsettled'[l] = unsettled[l]

Admitted(l) ==
    /\ command[CommandOf[l]] = "ABSENT" /\ command'[CommandOf[l]] = "ACTIVE"
    /\ lane'[l].state = "READY" /\ lane'[l].generation = 0
    /\ unsettled'[l] = unsettled[l]
    /\ \/ lane'[l].permit = None /\ unused'[l] = unused[l]
       \/ /\ lane'[l].permit \in Permit
          /\ unused'[l] = OneMore(unused[l], lane'[l].permit)

Cancelled(l) ==
    /\ SameLease(l) /\ command'[CommandOf[l]] = "CANCELLED"
    /\ IF \/ lane[l].state = "HOLD_READBACK"
          \/ lane[l].state = "RUNNING" /\ EffectClass[l] # "NO_EFFECT"
       THEN lane'[l].state = "HOLD_READBACK"
       ELSE lane[l].state \notin Finished /\ lane'[l].state = "CANCELLED"
    /\ unsettled'[l] = unsettled[l]

BroughtBack(l) ==
    /\ SameLease(l)
    /\ lane[l].state = "RUNNING" /\ lane'[l].state = Interrupted(l)
    /\ unsettled'[l] = unsettled[l]

Blocked(l) ==
    /\ SameLease(l)
    /\ lane[l].state = "READY" \/ (lane[l].state = "RUNNING" /\ ~External(l))
    /\ lane'[l].state = "BLOCKED"
    /\ \E d \in DependsOn[l] : lane'[d].state \in TerminalBad
    /\ unsettled'[l] = unsettled[l]

Leased(l) ==
    /\ lane[l].state = "READY" /\ lane'[l].state = "RUNNING"
    /\ DepsComplete(lane, l)
    /\ lane'[l].generation = lane[l].generation + 1
    /\ lane'[l].token = lane[l].generation + 1
    /\ lane'[l].permit = lane[l].permit
    /\ External(l) => /\ lane[l].permit \in Permit /\ ~lane[l].consumed
                      /\ lane'[l].consumed
                      /\ unused'[l] = OneLess(unused[l], lane[l].permit)
    /\ ~External(l) => lane'[l].consumed = lane[l].consumed /\ unused'[l] = unused[l]
    /\ unsettled'[l] = IF External(l) THEN unsettled[l] \cup {lane[l].generation + 1}
                                      ELSE unsettled[l]

Ended(l) ==
    /\ SameLease(l)
    /\ lane[l].state = "RUNNING" /\ lane'[l].state \in {"COMPLETE", "FAILED"}
    /\ unsettled'[l] = unsettled[l] \ {lane[l].token}

Bound(l) ==
    /\ lane'[l].state = lane[l].state /\ lane'[l].token = lane[l].token
    /\ lane'[l].generation = lane[l].generation
    /\ lane'[l].permit \in Permit /\ ~lane'[l].consumed
    /\ unused'[l] = OneMore(unused[l], lane'[l].permit)
    /\ unsettled'[l] = unsettled[l]

ReadBack(w, l) ==
    /\ SameLease(l)
    /\ doing[w].op = "readback" /\ doing[w].lane = l /\ doing'[w].op = "list"
    /\ lane'[l].state \in {"COMPLETE", "CANCELLED", "READY"}
    /\ unsettled'[l] = {g \in unsettled[l] : g > doing[w].generation}

RowStep(l) ==
    \/ Kept(l) \/ Admitted(l) \/ Cancelled(l) \/ BroughtBack(l) \/ Blocked(l)
    \/ Leased(l) \/ Ended(l) \/ Bound(l)
    \/ \E w \in Worker : ReadBack(w, l)

LEMMA Unchanged ==
    ASSUME NEW l \in Lane, lane'[l] = lane[l], unsettled'[l] = unsettled[l],
           unused'[l] = unused[l]
    PROVE  Kept(l)
BY DEF Kept, SameLease

LEMMA OwnerRows ==
    ASSUME TypeOK, OwnerStep, NEW l \in Lane PROVE RowStep(l)
<1>1. PICK c \in Command : \/ AddCommand(c)
                           \/ SetCommandState(c, "PAUSED")
                           \/ SetCommandState(c, "ACTIVE")
                           \/ CancelCommand(c)
  BY DEF OwnerStep
<1>2. CASE SetCommandState(c, "PAUSED") \/ SetCommandState(c, "ACTIVE")
  BY <1>2, Unchanged DEF SetCommandState, RowStep
<1>3. CASE AddCommand(c)
  <2>1. PICK permits \in [Lane -> Permit \cup {None}] :
          /\ \A k \in Lane : permits[k] # None => k \in LanesOf(c) /\ External(k)
          /\ lane' = [k \in Lane |->
               IF k \in LanesOf(c)
               THEN [NoRow EXCEPT !.state = "READY", !.permit = permits[k]] ELSE lane[k]]
          /\ unused' = [k \in Lane |->
               IF permits[k] # None THEN OneMore(unused[k], permits[k]) ELSE unused[k]]
    BY <1>3 DEF AddCommand
  <2>2. CASE l \notin LanesOf(c)
    BY <1>3, <2>1, <2>2, Unchanged DEF AddCommand, RowStep
  <2>3. CASE l \in LanesOf(c)
    <3>1. /\ lane'[l].state = "READY" /\ lane'[l].generation = 0
          /\ lane'[l].permit = permits[l]
          /\ permits[l] # None => unused'[l] = OneMore(unused[l], permits[l])
          /\ permits[l] = None => unused'[l] = unused[l]
      BY <2>1, <2>3 DEF NoRow
    <3>2. /\ command[CommandOf[l]] = "ABSENT" /\ command'[CommandOf[l]] = "ACTIVE"
          /\ unsettled'[l] = unsettled[l]
      <4>1. CommandOf[l] = c
        BY <2>3 DEF LanesOf
      <4>2. QED
        BY <1>3, <4>1 DEF AddCommand, TypeOK
    <3>3. QED
      BY <3>1, <3>2 DEF Admitted, RowStep
  <2>4. QED
    BY <2>2, <2>3
<1>4. CASE CancelCommand(c)
  <2>1. /\ lane'[l] = IF CommandOf[l] = c THEN CancelledRow(l) ELSE lane[l]
        /\ unsettled'[l] = unsettled[l] /\ unused'[l] = unused[l]
        /\ command'[c] = "CANCELLED"
    BY <1>4 DEF CancelCommand, TypeOK
  <2>2. CASE CommandOf[l] # c \/ lane[l].state \in Finished
    BY <2>1, <2>2, Unchanged DEF CancelledRow, Finished, RowStep
  <2>3. CASE CommandOf[l] = c /\ lane[l].state \notin Finished
    <3>1. lane[l] \in Row /\ "HOLD_READBACK" \in LaneState /\ "CANCELLED" \in LaneState
      BY DEF TypeOK, LaneState
    <3>2. CASE \/ lane[l].state = "HOLD_READBACK"
               \/ lane[l].state = "RUNNING" /\ EffectClass[l] # "NO_EFFECT"
      <4>1. lane'[l] = Unleased(lane[l], "HOLD_READBACK")
        BY <2>1, <2>3, <3>2 DEF CancelledRow
      <4>2. QED
        BY <2>1, <2>3, <3>1, <3>2, <4>1, UnleasedFacts DEF Cancelled, SameLease, RowStep
    <3>3. CASE ~ \/ lane[l].state = "HOLD_READBACK"
                 \/ lane[l].state = "RUNNING" /\ EffectClass[l] # "NO_EFFECT"
      <4>1. lane'[l] = Unleased(lane[l], "CANCELLED")
        BY <2>1, <2>3, <3>3 DEF CancelledRow
      <4>2. QED
        BY <2>1, <2>3, <3>1, <3>3, <4>1, UnleasedFacts DEF Cancelled, SameLease, RowStep
    <3>4. QED
      BY <3>2, <3>3
  <2>4. QED
    BY <2>2, <2>3
<1>5. QED
  BY <1>1, <1>2, <1>3, <1>4

LEMMA RecoverRows ==
    ASSUME TypeOK, Recover, UNCHANGED <<unsettled, unused>>, NEW l \in Lane PROVE RowStep(l)
BY RecoverFacts DEF RowStep, Kept, BroughtBack, Blocked, SameLease

LEMMA LaneStepRows ==
    ASSUME TypeOK, NEW w \in Worker, LaneStep(w), NEW l \in Lane PROVE RowStep(l)
<1>1. PICK k \in Lane :
        \/ CheckpointLane(w, k)
        \/ FinishLane(w, k, "COMPLETE") \/ FinishLane(w, k, "FAILED")
        \/ \E p \in Permit : ReadForPermit(w, k, p)
        \/ \E observed \in BOOLEAN : ReadForReadback(w, k, observed)
  BY DEF LaneStep
<1>2. lane[k] \in Row /\ lane[l] \in Row
  BY DEF TypeOK
<1>3. CASE \/ \E p \in Permit : ReadForPermit(w, k, p)
           \/ \E observed \in BOOLEAN : ReadForReadback(w, k, observed)
  BY <1>3, Unchanged DEF ReadForPermit, ReadForReadback, RowStep
<1>4. CASE CheckpointLane(w, k)
  <2>1. lane'[l] = IF l = k THEN [lane[k] EXCEPT !.checkpoint = lane[k].token] ELSE lane[l]
    BY <1>4 DEF CheckpointLane, TypeOK
  <2>2. Kept(l)
    BY <1>2, <1>4, <2>1 DEF CheckpointLane, Kept, SameLease, Row
  <2>3. QED
    BY <2>2 DEF RowStep
<1>5. ASSUME NEW state \in {"COMPLETE", "FAILED"}, FinishLane(w, k, state)
      PROVE  RowStep(l)
  <2>1. /\ lane[k].state = "RUNNING"
        /\ lane'[l] = IF l = k THEN Unleased(lane[k], state) ELSE lane[l]
        /\ unsettled'[l] = IF l = k THEN unsettled[k] \ {lane[k].token} ELSE unsettled[l]
        /\ unused'[l] = unused[l]
    BY <1>5 DEF FinishLane, Holds, TypeOK
  <2>2. CASE l # k
    BY <2>1, <2>2, Unchanged DEF RowStep
  <2>3. CASE l = k
    <3>1. Ended(l)
      BY <1>2, <2>1, <2>3, UnleasedFacts DEF Ended, SameLease, LaneState
    <3>2. QED
      BY <3>1 DEF RowStep
  <2>4. QED
    BY <2>2, <2>3
<1>6. QED
  BY <1>1, <1>3, <1>4, <1>5

LEMMA RowSteps ==
    ASSUME TypeOK, [Next]_vars, NEW l \in Lane PROVE RowStep(l)
<1>1. CASE UNCHANGED <<lane, unsettled, unused>>
  BY <1>1, Unchanged DEF RowStep
<1>2. CASE OwnerStep
  BY <1>2, OwnerRows
<1>3. CASE ReconcileAfterHostInterrupt
  BY <1>3, RecoverRows DEF ReconcileAfterHostInterrupt
<1>4. ASSUME NEW w \in Worker, WorkerStep(w) PROVE RowStep(l)
  <2>1. CASE BeginWave(w)
    BY <2>1, RecoverRows DEF BeginWave
  <2>2. CASE LeaseWave(w)
    BY <2>2, WaveFacts DEF RowStep, Kept, Blocked, Leased, SameLease
  <2>3. CASE LaneStep(w)
    BY <2>3, LaneStepRows
  <2>4. CASE YieldWorker(w)
    <3>1. unsettled'[l] = unsettled[l] /\ unused'[l] = unused[l]
      BY <2>4 DEF YieldWorker
    <3>2. QED
      BY <2>4, <3>1, YieldFacts DEF RowStep, Kept, BroughtBack, SameLease
  <2>5. CASE BindEffectPermit(w)
    <3>1. unsettled'[l] = unsettled[l]
      BY <2>5 DEF BindEffectPermit
    <3>2. QED
      BY <2>5, <3>1, BindFacts DEF RowStep, Kept, Bound, SameLease
  <2>6. CASE RecordEffectReadback(w)
    <3>1. doing'[w].op = "list" /\ unused'[l] = unused[l]
      BY <2>6 DEF RecordEffectReadback, TypeOK
    <3>2. CASE l # doing[w].lane
      BY <2>6, <3>1, <3>2, ReadbackFacts, Unchanged DEF RowStep
    <3>3. CASE l = doing[w].lane
      <4>1. ReadBack(w, l)
        BY <2>6, <3>1, <3>3, ReadbackFacts DEF ReadBack, SameLease
      <4>2. QED
        BY <4>1 DEF RowStep
    <3>4. QED
      BY <3>2, <3>3
  <2>7. CASE \/ ListActiveCommands(w) \/ CompleteEmptyCommand(w) \/ Abandon(w)
             \/ \E c \in Command : CountUnfinished(w, c)
    BY <1>1, <2>7 DEF ListActiveCommands, CompleteEmptyCommand, Abandon, CountUnfinished
  <2>8. QED
    BY <1>4, <2>1, <2>2, <2>3, <2>4, <2>5, <2>6, <2>7 DEF WorkerStep
<1>5. CASE \E k \in Lane : Lapse(k)
  BY <1>1, <1>5 DEF Lapse
<1>6. QED
  BY <1>1, <1>2, <1>3, <1>4, <1>5 DEF Next, vars

-----------------------------------------------------------------------------
(* Permits *)

LEMMA BindingStep ==
    ASSUME TypeOK, LeasePerBinding, [Next]_vars PROVE LeasePerBinding'
<1> SUFFICES ASSUME NEW l \in Lane, NEW p \in Permit
             PROVE  unused'[l][p] >= IF lane'[l].permit = p /\ ~lane'[l].consumed
                                     THEN 1 ELSE 0
  BY DEF LeasePerBinding
<1>1. /\ unused[l] \in [Permit -> Int]
      /\ unused[l][p] >= IF lane[l].permit = p /\ ~lane[l].consumed THEN 1 ELSE 0
  BY DEF LeasePerBinding, TypeOK
<1>2. CASE SameLease(l)
  BY <1>1, <1>2 DEF SameLease
<1>3. CASE Admitted(l)
  BY <1>1, <1>3, PermitCounts, FabricAssumption DEF Admitted
<1>4. CASE Leased(l)
  BY <1>1, <1>4, PermitCounts DEF Leased
<1>5. CASE Bound(l)
  BY <1>1, <1>5, PermitCounts DEF Bound
<1>6. QED
  BY <1>2, <1>3, <1>4, <1>5, RowSteps
     DEF RowStep, Kept, Cancelled, BroughtBack, Blocked, Ended, ReadBack

\* No lane is leased on a permit more often than that permit was bound to it:
\* bind_effect_permit writes the caller's reference whatever the lane is by then
\* and however often it was used, and still one binding never serves two leases.
THEOREM BindingServesOneLease == Spec => []LeasePerBinding
<1>1. Init => LeasePerBinding
  BY FabricAssumption DEF Init, LeasePerBinding, NoRow
<1>2. TypeOK /\ LeasePerBinding /\ [Next]_vars => LeasePerBinding'
  BY BindingStep
<1>3. QED
  BY <1>1, <1>2, TypeCorrect, PTL DEF Spec

-----------------------------------------------------------------------------
(* What one step does to a handler and to a command *)

\* A readback is under way because it was, or because the lane was just read.
LEMMA ReadbackSteps ==
    ASSUME TypeOK, [Next]_vars, NEW w \in Worker, doing'[w].op = "readback"
    PROVE  \/ doing'[w] = doing[w]
           \/ /\ w \in Reader
              /\ doing'[w].lane \in Lane
              /\ lane' = lane
              /\ lane[doing'[w].lane].state = "HOLD_READBACK"
              /\ lane[doing'[w].lane].generation = doing'[w].generation
<1>1. doing \in [Worker -> Doing]
  BY DEF TypeOK
<1>2. CASE UNCHANGED doing
  BY <1>2
<1>3. ASSUME NEW v \in Worker, WorkerStep(v), doing' # doing
      PROVE  \/ doing'[w] = doing[w]
             \/ /\ w \in Reader
                /\ doing'[w].lane \in Lane
                /\ lane' = lane
                /\ lane[doing'[w].lane].state = "HOLD_READBACK"
                /\ lane[doing'[w].lane].generation = doing'[w].generation
  <2>1. CASE \/ BeginWave(v) \/ LeaseWave(v) \/ BindEffectPermit(v)
             \/ RecordEffectReadback(v) \/ Abandon(v)
    BY <1>1, <2>1 DEF BeginWave, LeaseWave, BindEffectPermit, RecordEffectReadback, Abandon, Idle
  <2>2. CASE \/ ListActiveCommands(v) \/ CompleteEmptyCommand(v)
             \/ \E c \in Command : CountUnfinished(v, c)
    BY <2>2, ListFacts, CompleteFacts, CountFacts
  <2>3. CASE YieldWorker(v)
    BY <1>3, <2>3 DEF YieldWorker
  <2>4. ASSUME NEW l \in Lane,
               \/ CheckpointLane(v, l) \/ \E p \in Permit : ReadForPermit(v, l, p)
               \/ \E state \in {"COMPLETE", "FAILED"} : FinishLane(v, l, state)
        PROVE  doing'[w] = doing[w]
    BY <1>1, <2>4 DEF CheckpointLane, ReadForPermit, FinishLane, Idle
  <2>5. ASSUME NEW l \in Lane, NEW observed \in BOOLEAN, ReadForReadback(v, l, observed),
               w = v
        PROVE  /\ w \in Reader
               /\ doing'[w].lane \in Lane
               /\ lane' = lane
               /\ lane[doing'[w].lane].state = "HOLD_READBACK"
               /\ lane[doing'[w].lane].generation = doing'[w].generation
    BY <1>1, <2>5 DEF ReadForReadback
  <2>6. ASSUME NEW l \in Lane, NEW observed \in BOOLEAN, ReadForReadback(v, l, observed),
               w # v
        PROVE  doing'[w] = doing[w]
    BY <1>1, <2>6 DEF ReadForReadback
  <2>7. QED
    BY <1>3, <2>1, <2>2, <2>3, <2>4, <2>5, <2>6 DEF WorkerStep, LaneStep
<1>4. CASE OwnerStep \/ ReconcileAfterHostInterrupt \/ \E l \in Lane : Lapse(l)
  BY <1>2, <1>4 DEF OwnerStep, AddCommand, SetCommandState, CancelCommand,
                    ReconcileAfterHostInterrupt, Lapse
<1>5. QED
  BY <1>2, <1>3, <1>4 DEF Next, vars

\* A command is counted as empty because it was, or because its lanes were just
\* counted.
LEMMA CountSteps ==
    ASSUME TypeOK, [Next]_vars, NEW w \in Worker,
           doing'[w].op = "sweep", doing'[w].counted # None
    PROVE  \/ doing'[w] = doing[w]
           \/ /\ doing'[w].counted \in Command /\ lane' = lane
              /\ Unfinished(doing'[w].counted) = {}
<1>1. doing \in [Worker -> Doing]
  BY DEF TypeOK
<1>2. CASE UNCHANGED doing
  BY <1>2
<1>3. ASSUME NEW v \in Worker, WorkerStep(v), doing' # doing
      PROVE  \/ doing'[w] = doing[w]
             \/ /\ doing'[w].counted \in Command /\ lane' = lane
                /\ Unfinished(doing'[w].counted) = {}
  <2>1. CASE \/ BeginWave(v) \/ LeaseWave(v) \/ BindEffectPermit(v)
             \/ RecordEffectReadback(v) \/ Abandon(v)
    BY <1>1, <2>1 DEF BeginWave, LeaseWave, BindEffectPermit, RecordEffectReadback, Abandon, Idle
  <2>2. CASE ListActiveCommands(v) \/ CompleteEmptyCommand(v)
    BY <2>2, ListFacts, CompleteFacts
  <2>3. ASSUME NEW c \in Command, CountUnfinished(v, c)
        PROVE  \/ doing'[w] = doing[w]
               \/ /\ doing'[w].counted \in Command /\ lane' = lane
                  /\ Unfinished(doing'[w].counted) = {}
    BY <2>3, CountFacts DEF CountUnfinished
  <2>4. CASE YieldWorker(v)
    BY <1>3, <2>4 DEF YieldWorker
  <2>5. CASE LaneStep(v)
    BY <1>1, <2>5 DEF LaneStep, CheckpointLane, ReadForPermit, FinishLane, ReadForReadback, Idle
  <2>6. QED
    BY <1>3, <2>1, <2>2, <2>3, <2>4, <2>5 DEF WorkerStep
<1>4. CASE OwnerStep \/ ReconcileAfterHostInterrupt \/ \E l \in Lane : Lapse(l)
  BY <1>2, <1>4 DEF OwnerStep, AddCommand, SetCommandState, CancelCommand,
                    ReconcileAfterHostInterrupt, Lapse
<1>5. QED
  BY <1>2, <1>3, <1>4 DEF Next, vars

\* A command is never absent again, and completes only when it was counted.
LEMMA CommandSteps ==
    ASSUME TypeOK, [Next]_vars, NEW c \in Command
    PROVE  /\ command'[c] = "ABSENT" => command[c] = "ABSENT"
           /\ command'[c] = "COMPLETE" =>
                \/ command[c] = "COMPLETE"
                \/ \E w \in Worker : doing[w].op = "sweep" /\ doing[w].counted = c
<1>1. command \in [Command -> CommandState]
  BY DEF TypeOK
<1>2. CASE UNCHANGED command
  BY <1>2
<1>3. CASE OwnerStep
  BY <1>1, <1>3 DEF OwnerStep, AddCommand, SetCommandState, CancelCommand
<1>4. ASSUME NEW w \in Worker, CompleteEmptyCommand(w)
      PROVE  /\ command'[c] = "ABSENT" => command[c] = "ABSENT"
             /\ command'[c] = "COMPLETE" => command[c] = "COMPLETE" \/ doing[w].counted = c
             /\ doing[w].op = "sweep"
  BY <1>1, <1>4, CompleteFacts
<1>5. QED
  BY <1>2, <1>3, <1>4
     DEF Next, vars, ReconcileAfterHostInterrupt, Lapse, WorkerStep, LaneStep,
         BeginWave, LeaseWave, CheckpointLane, FinishLane, ReadForPermit, ReadForReadback,
         YieldWorker, BindEffectPermit, RecordEffectReadback, ListActiveCommands,
         CountUnfinished, Abandon

-----------------------------------------------------------------------------
(* The inductive invariant is inductive *)

LEMMA InitInv == Init => IInv
<1> SUFFICES ASSUME Init PROVE IInv
  OBVIOUS
<1>1. TypeOK
  BY InitType
<1>2. \A l \in Lane : lane[l].state = "ABSENT" /\ unsettled[l] = {} /\ lane[l].generation = 0
  BY DEF Init, NoRow
<1>3. \A w \in Worker : doing[w].op = "idle"
  BY DEF Init, Idle
<1>4. \A c \in Command : command[c] = "ABSENT"
  BY DEF Init
<1>5. LanesAdmitted /\ TokenIsLease /\ LeasedInOrder /\ DependencyOrder
  BY <1>2 DEF LanesAdmitted, TokenIsLease, LeasedInOrder, DependencyOrder
<1>6. UnsettledExternal /\ UncertainEffectKept
  BY <1>2 DEF UnsettledExternal, UncertainEffectKept
<1>7. ReadbackCurrent /\ CountedIsFinished
  BY <1>3 DEF ReadbackCurrent, CountedIsFinished
<1>8. CompleteIsFinished
  BY <1>4 DEF CompleteIsFinished
<1>9. QED
  BY <1>1, <1>5, <1>6, <1>7, <1>8 DEF IInv

\* A lane whose readback is being recorded is held, under the lease of all the
\* effects nobody has settled.
LEMMA ReadBackHeld ==
    ASSUME IInv, NEW w \in Worker, NEW l \in Lane, ReadBack(w, l)
    PROVE  /\ w \in Reader
           /\ lane[l].state = "HOLD_READBACK"
           /\ unsettled'[l] = {}
<1>1. /\ w \in Reader
      /\ lane[l].state = "HOLD_READBACK"
      /\ lane[l].generation = doing[w].generation
  BY DEF IInv, ReadbackCurrent, ReadBack
<1>2. unsettled[l] \subseteq {doing[w].generation}
  BY <1>1 DEF IInv, UncertainEffectKept
<1>3. doing[w].generation \in Nat
  BY <1>1 DEF IInv, TypeOK, Row
<1>4. unsettled'[l] = {}
  BY <1>2, <1>3 DEF ReadBack
<1>5. QED
  BY <1>1, <1>4

\* An admitted lane was absent, and nothing of it is unsettled.
LEMMA AdmittedNew ==
    ASSUME IInv, NEW l \in Lane, Admitted(l)
    PROVE  lane[l].state = "ABSENT" /\ unsettled[l] = {}
BY DEF IInv, LanesAdmitted, UncertainEffectKept, Admitted

LEMMA FinishedStays ==
    ASSUME IInv, [Next]_vars, NEW l \in Lane
    PROVE  /\ lane[l].state = "COMPLETE" => lane'[l].state = "COMPLETE"
           /\ lane[l].state \in Finished => lane'[l].state \in Finished
           /\ lane[l].state \in TerminalBad => lane'[l].state \in TerminalBad
<1>1. RowStep(l)
  BY RowSteps DEF IInv
<1>2. CASE \E w \in Worker : ReadBack(w, l)
  BY <1>2, ReadBackHeld DEF Finished, TerminalBad
<1>3. CASE Admitted(l)
  BY <1>3, AdmittedNew DEF Finished, TerminalBad
<1>4. QED
  BY <1>1, <1>2, <1>3
     DEF RowStep, Kept, Cancelled, BroughtBack, Blocked, Leased, Ended, Bound,
         Finished, TerminalBad

LEMMA UnfinishedStays ==
    ASSUME IInv, [Next]_vars, NEW c \in Command, Unfinished(c) = {}
    PROVE  \A l \in LanesOf(c) : lane'[l].state \in Finished
<1>1. \A l \in LanesOf(c) : l \in Lane /\ lane[l].state \in Finished
  BY DEF Unfinished, LanesOf
<1>2. QED
  BY <1>1, FinishedStays

LEMMA LanesAdmittedStep == ASSUME IInv, [Next]_vars PROVE LanesAdmitted'
<1> SUFFICES ASSUME NEW l \in Lane, command'[CommandOf[l]] = "ABSENT"
             PROVE  lane'[l].state = "ABSENT"
  BY DEF LanesAdmitted
<1>1. command[CommandOf[l]] = "ABSENT" /\ lane[l].state = "ABSENT"
  BY FabricAssumption, CommandSteps DEF IInv, LanesAdmitted
<1>2. RowStep(l)
  BY RowSteps DEF IInv
<1>3. ~\E w \in Worker : ReadBack(w, l)
  BY <1>1, ReadBackHeld
<1>4. QED
  BY <1>1, <1>2, <1>3
     DEF RowStep, Kept, Admitted, Cancelled, BroughtBack, Blocked, Leased, Ended, Bound

LEMMA TokenStep == ASSUME IInv, [Next]_vars PROVE TokenIsLease'
<1> SUFFICES ASSUME NEW l \in Lane, lane'[l].state = "RUNNING"
             PROVE  lane'[l].token = lane'[l].generation
  BY DEF TokenIsLease
<1>1. RowStep(l)
  BY RowSteps DEF IInv
<1>2. CASE Kept(l) \/ Bound(l)
  BY <1>2 DEF IInv, TokenIsLease, Kept, Bound, SameLease
<1>3. CASE Leased(l)
  BY <1>3 DEF Leased
<1>4. QED
  BY <1>1, <1>2, <1>3, InterruptedType
     DEF RowStep, Admitted, Cancelled, BroughtBack, Blocked, Ended, ReadBack

\* Only the one reader can release the lane it reads back.
LEMMA ReadbackStep == ASSUME OneReader, IInv, [Next]_vars PROVE ReadbackCurrent'
<1> SUFFICES ASSUME NEW w \in Worker, doing'[w].op = "readback"
             PROVE  /\ w \in Reader
                    /\ lane'[doing'[w].lane].state = "HOLD_READBACK"
                    /\ lane'[doing'[w].lane].generation = doing'[w].generation
  BY DEF ReadbackCurrent
<1>1. CASE doing'[w] = doing[w]
  <2> DEFINE l == doing[w].lane
  <2>1. /\ doing[w].op = "readback" /\ l \in Lane /\ w \in Reader
        /\ lane[l].state = "HOLD_READBACK" /\ lane[l].generation = doing[w].generation
    BY <1>1, DoingFacts DEF IInv, TypeOK, ReadbackCurrent
  <2>2. RowStep(l)
    BY <2>1, RowSteps DEF IInv
  <2>3. ~\E v \in Worker : ReadBack(v, l)
    <3>1. SUFFICES ASSUME NEW v \in Worker, ReadBack(v, l) PROVE FALSE
      OBVIOUS
    <3>2. v \in Reader
      BY <2>1, <3>1, ReadBackHeld
    <3>3. v = w
      BY <2>1, <3>2 DEF OneReader
    <3>4. QED
      BY <3>1, <3>3 DEF ReadBack
  <2>4. ~Admitted(l)
    BY <2>1, AdmittedNew
  <2>5. lane'[l].state = "HOLD_READBACK" /\ lane'[l].generation = lane[l].generation
    BY <2>1, <2>2, <2>3, <2>4
       DEF RowStep, Kept, Cancelled, BroughtBack, Blocked, Leased, Ended, Bound, SameLease
  <2>6. QED
    BY <1>1, <2>1, <2>5
<1>2. CASE doing'[w] # doing[w]
  BY <1>2, ReadbackSteps DEF IInv
<1>3. QED
  BY <1>1, <1>2

LEMMA EffectStep ==
    ASSUME IInv, [Next]_vars PROVE UnsettledExternal' /\ UncertainEffectKept'
<1>1. ASSUME NEW l \in Lane
      PROVE  /\ unsettled'[l] # {} => External(l)
             /\ unsettled'[l] \subseteq {lane'[l].generation}
             /\ unsettled'[l] # {} => lane'[l].state \in {"RUNNING", "HOLD_READBACK"}
  <2>1. /\ unsettled[l] # {} => External(l)
        /\ unsettled[l] \subseteq {lane[l].generation}
        /\ unsettled[l] # {} => lane[l].state \in {"RUNNING", "HOLD_READBACK"}
    BY DEF IInv, UnsettledExternal, UncertainEffectKept
  <2>2. RowStep(l)
    BY RowSteps DEF IInv
  <2>3. CASE Kept(l) \/ Bound(l)
    BY <2>1, <2>3 DEF Kept, Bound, SameLease
  <2>4. CASE Admitted(l)
    BY <2>1, <2>4, AdmittedNew DEF Admitted
  <2>5. CASE Cancelled(l)
    BY <2>1, <2>5 DEF Cancelled, SameLease, External
  <2>6. CASE BroughtBack(l)
    BY <2>1, <2>6, InterruptedType DEF BroughtBack, SameLease
  <2>7. CASE Blocked(l)
    BY <2>1, <2>7 DEF Blocked, SameLease
  <2>8. CASE Leased(l)
    BY <2>1, <2>8 DEF Leased
  <2>9. CASE Ended(l)
    <3>1. lane[l].token = lane[l].generation
      BY <2>9 DEF Ended, IInv, TokenIsLease
    <3>2. unsettled'[l] = {}
      BY <2>1, <2>9, <3>1 DEF Ended
    <3>3. QED
      BY <3>2
  <2>10. CASE \E w \in Worker : ReadBack(w, l)
    BY <2>10, ReadBackHeld
  <2>11. QED
    BY <2>2, <2>3, <2>4, <2>5, <2>6, <2>7, <2>8, <2>9, <2>10 DEF RowStep
<1>2. QED
  BY <1>1 DEF UnsettledExternal, UncertainEffectKept, External

LEMMA OrderStep == ASSUME IInv, [Next]_vars PROVE LeasedInOrder' /\ DependencyOrder'
<1> DEFINE Started == {"RUNNING", "HOLD_READBACK", "COMPLETE"}
<1>1. ASSUME NEW l \in Lane, DepsComplete(lane, l) PROVE DepsComplete(lane', l)
  <2>1. \A d \in DependsOn[l] : d \in Lane /\ lane[d].state = "COMPLETE"
    BY <1>1, FabricAssumption DEF DepsComplete
  <2>2. QED
    BY <2>1, FinishedStays DEF DepsComplete
<1>2. ASSUME NEW l \in Lane, lane'[l].state \in Started PROVE DepsComplete(lane', l)
  <2>1. RowStep(l)
    BY RowSteps DEF IInv
  <2>2. CASE Leased(l)
    BY <1>1, <2>2 DEF Leased
  <2>3. CASE lane[l].state \in Started
    BY <1>1, <2>3 DEF IInv, LeasedInOrder
  <2>4. CASE \E w \in Worker : ReadBack(w, l)
    BY <2>3, <2>4, ReadBackHeld
  <2>5. QED
    BY <1>2, <2>1, <2>2, <2>3, <2>4
       DEF RowStep, Kept, Admitted, Cancelled, BroughtBack, Blocked, Ended, Bound
<1>3. ASSUME NEW l \in Lane, lane'[l].state = "BLOCKED"
      PROVE  \E d \in DependsOn[l] : lane'[d].state \in TerminalBad
  <2>1. RowStep(l)
    BY RowSteps DEF IInv
  <2>2. CASE Blocked(l)
    BY <2>2 DEF Blocked
  <2>3. CASE Kept(l) \/ Bound(l)
    <3>1. lane[l].state = "BLOCKED"
      BY <1>3, <2>3 DEF Kept, Bound
    <3>2. PICK d \in DependsOn[l] : lane[d].state \in TerminalBad
      BY <3>1 DEF IInv, DependencyOrder
    <3>3. d \in Lane
      BY FabricAssumption
    <3>4. lane'[d].state \in TerminalBad
      BY <3>2, <3>3, FinishedStays
    <3>5. QED
      BY <3>4
  <2>4. QED
    BY <1>3, <2>1, <2>2, <2>3, InterruptedType
       DEF RowStep, Admitted, Cancelled, BroughtBack, Leased, Ended, ReadBack
<1>4. QED
  BY <1>2, <1>3 DEF LeasedInOrder, DependencyOrder

LEMMA CompleteStep ==
    ASSUME IInv, [Next]_vars PROVE CountedIsFinished' /\ CompleteIsFinished'
<1>1. ASSUME NEW w \in Worker, doing'[w].op = "sweep", doing'[w].counted # None
      PROVE  \A l \in LanesOf(doing'[w].counted) : lane'[l].state \in Finished
  <2>1. doing'[w].counted \in Command /\ Unfinished(doing'[w].counted) = {}
    <3>1. CASE doing'[w] = doing[w]
      BY <1>1, <3>1, DoingFacts DEF IInv, TypeOK, CountedIsFinished
    <3>2. CASE doing'[w] # doing[w]
      BY <1>1, <3>2, CountSteps DEF IInv
    <3>3. QED
      BY <3>1, <3>2
  <2>2. QED
    BY <2>1, UnfinishedStays
<1>2. ASSUME NEW c \in Command, command'[c] = "COMPLETE"
      PROVE  \A l \in LanesOf(c) : lane'[l].state \in Finished
  <2>1. Unfinished(c) = {}
    BY <1>2, CommandSteps, FabricAssumption DEF IInv, CountedIsFinished, CompleteIsFinished
  <2>2. QED
    BY <2>1, UnfinishedStays
<1>3. CountedIsFinished'
  BY <1>1 DEF CountedIsFinished, Unfinished, LanesOf
<1>4. CompleteIsFinished'
  BY <1>2 DEF CompleteIsFinished, Unfinished, LanesOf
<1>5. QED
  BY <1>3, <1>4

LEMMA InvStep == ASSUME OneReader, IInv, [Next]_vars PROVE IInv'
<1>1. TypeOK'
  BY TypeStep DEF IInv
<1>2. QED
  BY <1>1, LanesAdmittedStep, TokenStep, ReadbackStep, EffectStep, OrderStep, CompleteStep
     DEF IInv

\* With one process that records readbacks, the strengthened invariant holds in
\* every reachable state.
LEMMA InvAlways == ASSUME OneReader PROVE Spec => []IInv
<1>1. IInv /\ [Next]_vars => IInv'
  BY InvStep
<1>2. QED
  BY <1>1, InitInv, PTL DEF Spec

-----------------------------------------------------------------------------
(* Theorems *)

\* With one process that records readbacks, an effect nobody has reported or
\* read back keeps its lane under the lease or held, whatever expires, is
\* cancelled, given up or swept meanwhile.
THEOREM UncertainEffectAlwaysKept == ASSUME OneReader PROVE Spec => []UncertainEffectKept
<1>1. IInv => UncertainEffectKept
  BY DEF IInv
<1>2. QED
  BY <1>1, InvAlways, PTL

\* With one process that records readbacks, no lane runs or completes ahead of
\* its dependencies, and none is blocked without a cause.
THEOREM DependenciesAlwaysRespected == ASSUME OneReader PROVE Spec => []DependencyOrder
<1>1. IInv => DependencyOrder
  BY DEF IInv
<1>2. QED
  BY <1>1, InvAlways, PTL

\* With one process that records readbacks, no command is complete while a lane
\* of it is left to do or to read back.
THEOREM CompleteAlwaysFinished == ASSUME OneReader PROVE Spec => []CompleteIsFinished
<1>1. IInv => CompleteIsFinished
  BY DEF IInv
<1>2. QED
  BY <1>1, InvAlways, PTL

=============================================================================
