--------------------------- MODULE ContinuityFabric ---------------------------
(***************************************************************************)
(* The continuity fabric of the chat governor (Bubbles Omega 3): command   *)
(* streams of lanes in one SQLite file.  Worker processes lease lanes in   *)
(* waves; a lane whose lease runs out is taken back, and one that may have *)
(* had an external effect is held until somebody has read the effect back. *)
(*                                                                         *)
(* A handler that opens a transaction is one step.  Binding a permit,      *)
(* recording a readback and completing commands read and write in separate *)
(* statements, and other processes act in between.  Completing, failing    *)
(* and checkpointing read first too, but write only under the lease token  *)
(* they read; the token is the number of the lease.  Time is left out: a   *)
(* lease runs out at any moment.  So are priorities, paths and concurrency *)
(* groups: a wave takes lanes in any order.                                *)
(***************************************************************************)
EXTENDS Integers, FiniteSets

CONSTANTS
    Command,       \* command streams
    Lane,          \* lanes of all commands
    CommandOf,     \* the command of each lane
    DependsOn,     \* the lanes each lane waits for
    EffectClass,   \* the effect class of each lane
    Worker,        \* processes
    Reader,        \* processes that record effect readbacks
    Permit,        \* references of effect permits
    None,          \* no owner, no command, no permit
    MaxLeases,     \* bound: leases of one lane
    MaxUnused      \* bound: bindings of one permit to one lane, not yet used

\* REVERSIBLE_INTERNAL is treated as NO_EFFECT everywhere.
EffectClasses == {"NO_EFFECT", "REVERSIBLE_EXTERNAL", "HIGH_CONSEQUENCE"}

ASSUME FabricAssumption ==
    /\ CommandOf \in [Lane -> Command]
    /\ DependsOn \in [Lane -> SUBSET Lane]
    /\ EffectClass \in [Lane -> EffectClasses]
    /\ Reader \subseteq Worker
    /\ None \notin Worker \cup Command \cup Permit
    /\ MaxLeases \in Nat
    /\ MaxUnused \in Nat

VARIABLES
    command,       \* state of each command
    lane,          \* row of each lane
    lapsed,        \* lanes whose lease has run out
    doing,         \* the handler each process is in the middle of
    unsettled,     \* ghost: leases of each external lane whose effect nobody
                   \* has reported or read back
    unused         \* ghost: how often each permit was bound to each lane, less
                   \* the leases that were given on it

vars == <<command, lane, lapsed, doing, unsettled, unused>>

-----------------------------------------------------------------------------
(* Values *)

CommandState == {"ABSENT", "ACTIVE", "PAUSED", "COMPLETE", "CANCELLED"}

\* No handler sets WAITING.
LaneState == {"ABSENT", "READY", "RUNNING", "HOLD_READBACK", "BLOCKED",
              "COMPLETE", "FAILED", "CANCELLED"}

Finished    == {"COMPLETE", "CANCELLED"}
TerminalBad == {"FAILED", "BLOCKED", "CANCELLED"}

\* The token is 0 when the lane is not leased; the checkpoint is known by the
\* lease that wrote it.
Row == [state : LaneState, owner : Worker \cup {None}, token : Nat,
        generation : Nat, checkpoint : Nat, permit : Permit \cup {None},
        consumed : BOOLEAN]

NoRow == [state |-> "ABSENT", owner |-> None, token |-> 0, generation |-> 0,
          checkpoint |-> 0, permit |-> None, consumed |-> FALSE]

Idle == [op |-> "idle"]

\* What a process has read and not yet acted on.
Doing ==
    {Idle} \cup
    [op : {"wave", "list"}] \cup
    [op : {"bind"}, lane : Lane, permit : Permit] \cup
    [op : {"readback"}, lane : Lane, observed : BOOLEAN, cancelled : BOOLEAN,
     generation : Nat] \cup
    [op : {"sweep"}, todo : SUBSET Command, counted : Command \cup {None}]

\* A lane's permits after one of them is bound, or after a lease is given on it.
OneMore(permits, p) == [permits EXCEPT ![p] = @ + 1]
OneLess(permits, p) == [permits EXCEPT ![p] = @ - 1]

External(l) == EffectClass[l] = "REVERSIBLE_EXTERNAL"

LanesOf(c) == {l \in Lane : CommandOf[l] = c}

\* The row of a lane that loses its lease and goes to a state.
Unleased(row, state) == [row EXCEPT !.state = state, !.owner = None, !.token = 0]

\* Plausible bug: a running external lane is made to wait, and nothing ever makes
\* it ready again.
Interrupted_Waiting(l) == IF EffectClass[l] = "NO_EFFECT" THEN "WAITING" ELSE "HOLD_READBACK"

\* Where a RUNNING lane goes when its worker is gone or gives it up.
Interrupted(l) == IF EffectClass[l] = "NO_EFFECT" THEN "READY" ELSE "HOLD_READBACK"

-----------------------------------------------------------------------------
(* Commands *)

\* Every lane depends on lanes that exist or come with the command; a command
\* that exists is reused and nothing changes.
AddCommand(c) ==
    /\ command[c] = "ABSENT"
    /\ \A d \in UNION {DependsOn[l] : l \in LanesOf(c)} :
         lane[d].state # "ABSENT" \/ d \in LanesOf(c)
    /\ command' = [command EXCEPT ![c] = "ACTIVE"]
    /\ \E permits \in [Lane -> Permit \cup {None}] :
         /\ \A l \in Lane : permits[l] # None => l \in LanesOf(c) /\ External(l)
         /\ lane' = [l \in Lane |->
              IF l \in LanesOf(c)
              THEN [NoRow EXCEPT !.state = "READY", !.permit = permits[l]] ELSE lane[l]]
         /\ unused' = [l \in Lane |->
              IF permits[l] # None THEN OneMore(unused[l], permits[l]) ELSE unused[l]]
    /\ UNCHANGED <<lapsed, doing, unsettled>>

\* pause_command and resume_command set the state whatever it is.
SetCommandState(c, state) ==
    /\ command[c] # "ABSENT"
    /\ command' = [command EXCEPT ![c] = state]
    /\ UNCHANGED <<lane, lapsed, doing, unsettled, unused>>

\* Plausible bug: cancellation cancels whatever is not finished.
CancelledRow_Forgets(l) ==
    IF lane[l].state \in Finished THEN lane[l] ELSE Unleased(lane[l], "CANCELLED")

\* A lane that may have had an external effect is held, not cancelled.
CancelledRow(l) ==
    CASE lane[l].state \in Finished -> lane[l]
      [] \/ lane[l].state = "HOLD_READBACK"
         \/ lane[l].state = "RUNNING" /\ EffectClass[l] # "NO_EFFECT"
           -> Unleased(lane[l], "HOLD_READBACK")
      [] OTHER -> Unleased(lane[l], "CANCELLED")

\* replace_command is this and then AddCommand, in two transactions.
CancelCommand(c) ==
    /\ command[c] # "ABSENT"
    /\ command' = [command EXCEPT ![c] = "CANCELLED"]
    /\ lane' = [l \in Lane |-> IF CommandOf[l] = c THEN CancelledRow(l) ELSE lane[l]]
    /\ lapsed' = lapsed \ LanesOf(c)
    /\ UNCHANGED <<doing, unsettled, unused>>

-----------------------------------------------------------------------------
(* Leases *)

\* _reconcile_dependency_blocks, on the rows as a transaction has them: READY
\* lanes behind a terminal failure are blocked, and further lanes behind these
\* as far as the order of the rows goes.
BlocksOf(rows) ==
    LET Bad == {l \in Lane : rows[l].state \in TerminalBad}
        Ready == {l \in Lane : rows[l].state = "READY"}
        Direct == {l \in Ready : DependsOn[l] \cap Bad # {}}
    IN  {blocks \in SUBSET Ready :
           Direct \subseteq blocks /\ \A l \in blocks : DependsOn[l] \cap (Bad \cup blocks) # {}}

Block(rows, blocks) ==
    [l \in Lane |-> IF l \in blocks THEN [rows[l] EXCEPT !.state = "BLOCKED"] ELSE rows[l]]

\* Expired leases are taken back.
Recover ==
    LET expired == {l \in lapsed : lane[l].state = "RUNNING"}
        rows == [l \in Lane |-> IF l \in expired THEN Unleased(lane[l], Interrupted(l))
                                                 ELSE lane[l]]
    IN  /\ \E blocks \in BlocksOf(rows) : lane' = Block(rows, blocks)
        /\ lapsed' = {}

ReconcileAfterHostInterrupt ==
    /\ Recover
    /\ UNCHANGED <<command, doing, unsettled, unused>>

\* lease_wave reconciles in a transaction of its own.
BeginWave(w) ==
    /\ doing[w] = Idle
    /\ Recover
    /\ doing' = [doing EXCEPT ![w] = [op |-> "wave"]]
    /\ UNCHANGED <<command, unsettled, unused>>

\* Plausible bug: a held dependency is taken for a finished one.
DepsComplete_Held(rows, l) ==
    \A d \in DependsOn[l] : rows[d].state \in {"COMPLETE", "HOLD_READBACK"}

DepsComplete(rows, l) == \A d \in DependsOn[l] : rows[d].state = "COMPLETE"

\* An external lane needs a permit that is not used up.  (The verifier of the
\* deployment may refuse it: the lane is then left out of the wave.)
Leasable(rows, l) ==
    /\ rows[l].state = "READY"
    /\ command[CommandOf[l]] = "ACTIVE"
    /\ DepsComplete(rows, l)
    /\ EffectClass[l] # "HIGH_CONSEQUENCE"
    /\ External(l) => rows[l].permit # None /\ ~rows[l].consumed
    /\ rows[l].generation < MaxLeases

\* Plausible bug: the permit of an external lane stays usable.
LeasedRow_PermitKept(row, l, w) ==
    [row EXCEPT !.state = "RUNNING", !.owner = w, !.generation = @ + 1,
                !.token = row.generation + 1]

LeasedRow(row, l, w) ==
    [row EXCEPT !.state = "RUNNING", !.owner = w, !.generation = @ + 1,
                !.token = row.generation + 1, !.consumed = @ \/ External(l)]

\* The second transaction: a wave of leases, possibly empty, with at most one
\* external lane.
LeaseWave(w) ==
    /\ doing[w].op = "wave"
    /\ \E blocks \in BlocksOf(lane) :
         LET rows == Block(lane, blocks)
         IN  \E wave \in SUBSET {l \in Lane : Leasable(rows, l)} :
               /\ Cardinality({l \in wave : External(l)}) <= 1
               /\ lane' = [l \in Lane |-> IF l \in wave THEN LeasedRow(rows[l], l, w)
                                                        ELSE rows[l]]
               /\ unsettled' = [l \in Lane |->
                    IF l \in wave /\ External(l)
                    THEN unsettled[l] \cup {rows[l].generation + 1} ELSE unsettled[l]]
               /\ unused' = [l \in Lane |->
                    IF l \in wave /\ External(l)
                    THEN OneLess(unused[l], rows[l].permit) ELSE unused[l]]
    /\ doing' = [doing EXCEPT ![w] = Idle]
    /\ UNCHANGED <<command, lapsed>>

\* The lease a worker was given is still the one of the lane.  It may have run
\* out between the read that checks it and the write.
Holds(w, l) == lane[l].state = "RUNNING" /\ lane[l].owner = w

\* The extension of the lease gives it more time to run out.
CheckpointLane(w, l) ==
    /\ doing[w] = Idle
    /\ Holds(w, l)
    /\ lane' = [lane EXCEPT ![l].checkpoint = lane[l].token]
    /\ UNCHANGED <<command, lapsed, doing, unsettled, unused>>

\* complete_lane goes on to complete commands, fail_lane does not.
FinishLane(w, l, state) ==
    /\ doing[w] = Idle
    /\ Holds(w, l)
    /\ lane' = [lane EXCEPT ![l] = Unleased(lane[l], state)]
    /\ lapsed' = lapsed \ {l}
    /\ doing' = [doing EXCEPT ![w] = IF state = "COMPLETE" THEN [op |-> "list"] ELSE Idle]
    /\ unsettled' = [unsettled EXCEPT ![l] = @ \ {lane[l].token}]
    /\ UNCHANGED <<command, unused>>

\* A worker gives up every lane it runs, before its host ends the turn.
YieldWorker(w) ==
    LET given == {l \in Lane : Holds(w, l)}
    IN  /\ doing[w] = Idle
        /\ given # {}
        /\ lane' = [l \in Lane |-> IF l \in given THEN Unleased(lane[l], Interrupted(l))
                                                  ELSE lane[l]]
        /\ lapsed' = lapsed \ given
        /\ UNCHANGED <<command, doing, unsettled, unused>>

Lapse(l) ==
    /\ lane[l].state = "RUNNING"
    /\ l \notin lapsed
    /\ lapsed' = lapsed \cup {l}
    /\ UNCHANGED <<command, lane, doing, unsettled, unused>>

-----------------------------------------------------------------------------
(* Permits and readbacks *)

\* bind_effect_permit reads the lane ...
ReadForPermit(w, l, p) ==
    /\ doing[w] = Idle
    /\ External(l)
    /\ lane[l].state \in {"READY", "HOLD_READBACK"}
    /\ unused[l][p] < MaxUnused
    /\ doing' = [doing EXCEPT ![w] = [op |-> "bind", lane |-> l, permit |-> p]]
    /\ UNCHANGED <<command, lane, lapsed, unsettled, unused>>

\* ... and then writes the caller's reference, whatever the state is by then and
\* whether or not a lease was given on it before.
BindEffectPermit(w) ==
    /\ doing[w].op = "bind"
    /\ LET l == doing[w].lane
           p == doing[w].permit
       IN  /\ lane' = [lane EXCEPT ![l].permit = p, ![l].consumed = FALSE]
           /\ unused' = [unused EXCEPT ![l] = OneMore(@, p)]
    /\ doing' = [doing EXCEPT ![w] = Idle]
    /\ UNCHANGED <<command, lapsed, unsettled>>

\* record_effect_readback reads the lane and its command ...
ReadForReadback(w, l, observed) ==
    /\ w \in Reader
    /\ doing[w] = Idle
    /\ lane[l].state = "HOLD_READBACK"
    /\ doing' = [doing EXCEPT ![w] =
         [op |-> "readback", lane |-> l, observed |-> observed,
          cancelled |-> command[CommandOf[l]] = "CANCELLED",
          generation |-> lane[l].generation]]
    /\ UNCHANGED <<command, lane, lapsed, unsettled, unused>>

\* ... and then writes the outcome, whatever the states are by then.
RecordEffectReadback(w) ==
    /\ doing[w].op = "readback"
    /\ LET l == doing[w].lane
           state == CASE doing[w].observed  -> "COMPLETE"
                      [] ~doing[w].observed /\ doing[w].cancelled -> "CANCELLED"
                      [] OTHER -> "READY"
       IN  /\ lane' = [lane EXCEPT ![l] = Unleased(lane[l], state)]
           /\ lapsed' = lapsed \ {l}
           /\ unsettled' = [unsettled EXCEPT
                              ![l] = {g \in @ : g > doing[w].generation}]
    /\ doing' = [doing EXCEPT ![w] = [op |-> "list"]]
    /\ UNCHANGED <<command, unused>>

-----------------------------------------------------------------------------
(* _complete_empty_commands, statement by statement *)

ListActiveCommands(w) ==
    /\ doing[w].op = "list"
    /\ doing' = [doing EXCEPT ![w] =
         [op |-> "sweep", todo |-> {c \in Command : command[c] = "ACTIVE"},
          counted |-> None]]
    /\ UNCHANGED <<command, lane, lapsed, unsettled, unused>>

\* Plausible bug: only lanes that can still be leased count.
Unfinished_Leasable(c) == {l \in LanesOf(c) : lane[l].state \in {"READY", "RUNNING"}}

Unfinished(c) == {l \in LanesOf(c) : lane[l].state \notin Finished}

CountUnfinished(w, c) ==
    /\ doing[w].op = "sweep"
    /\ doing[w].counted = None
    /\ c \in doing[w].todo
    /\ doing' = [doing EXCEPT ![w].todo = @ \ {c},
                              ![w].counted = IF Unfinished(c) = {} THEN c ELSE None]
    /\ UNCHANGED <<command, lane, lapsed, unsettled, unused>>

\* The state of the command is overwritten, whatever it is by then.
CompleteEmptyCommand(w) ==
    /\ doing[w].op = "sweep"
    /\ doing[w].counted # None
    /\ command' = [command EXCEPT ![doing[w].counted] = "COMPLETE"]
    /\ doing' = [doing EXCEPT ![w].counted = None]
    /\ UNCHANGED <<lane, lapsed, unsettled, unused>>

\* A sweep ends, or a process stops in the middle of a handler.
Abandon(w) ==
    /\ doing[w] # Idle
    /\ doing' = [doing EXCEPT ![w] = Idle]
    /\ UNCHANGED <<command, lane, lapsed, unsettled, unused>>

-----------------------------------------------------------------------------
(* The system *)

Init ==
    /\ command = [c \in Command |-> "ABSENT"]
    /\ lane = [l \in Lane |-> NoRow]
    /\ lapsed = {}
    /\ doing = [w \in Worker |-> Idle]
    /\ unsettled = [l \in Lane |-> {}]
    /\ unused = [l \in Lane |-> [p \in Permit |-> 0]]

OwnerStep ==
    \E c \in Command :
      \/ AddCommand(c)
      \/ SetCommandState(c, "PAUSED")
      \/ SetCommandState(c, "ACTIVE")
      \/ CancelCommand(c)

LaneStep(w) ==
    \E l \in Lane :
      \/ CheckpointLane(w, l)
      \/ FinishLane(w, l, "COMPLETE")
      \/ FinishLane(w, l, "FAILED")
      \/ \E p \in Permit : ReadForPermit(w, l, p)
      \/ \E observed \in BOOLEAN : ReadForReadback(w, l, observed)

WorkerStep(w) ==
    \/ BeginWave(w)
    \/ LeaseWave(w)
    \/ LaneStep(w)
    \/ YieldWorker(w)
    \/ BindEffectPermit(w)
    \/ RecordEffectReadback(w)
    \/ ListActiveCommands(w)
    \/ \E c \in Command : CountUnfinished(w, c)
    \/ CompleteEmptyCommand(w)
    \/ Abandon(w)

Next ==
    \/ OwnerStep
    \/ ReconcileAfterHostInterrupt
    \/ \E w \in Worker : WorkerStep(w)
    \/ \E l \in Lane : Lapse(l)

Spec == Init /\ [][Next]_vars

-----------------------------------------------------------------------------
(* Properties *)

\* Every row and every handler has the type of what it stands for.
TypeOK ==
    /\ command \in [Command -> CommandState]
    /\ lane \in [Lane -> Row]
    /\ lapsed \subseteq Lane
    /\ doing \in [Worker -> Doing]
    /\ unsettled \in [Lane -> SUBSET Nat]
    /\ unused \in [Lane -> [Permit -> Int]]

\* "A possible prior effect is never repeated without semantic readback": while
\* nobody has reported or read back the effect of a lease, the lane is under
\* that lease or held, also when its command is cancelled, paused or resumed.
UncertainEffectKept ==
    \A l \in Lane :
      /\ unsettled[l] \subseteq {lane[l].generation}
      /\ unsettled[l] # {} => lane[l].state \in {"RUNNING", "HOLD_READBACK"}

\* A lane that runs or is complete waits for nothing, and one is blocked only
\* behind a lane that can never complete, whatever is cancelled, reconciled or
\* read back in the other command meanwhile.
DependencyOrder ==
    \A l \in Lane :
      /\ lane[l].state \in {"RUNNING", "COMPLETE"} => DepsComplete(lane, l)
      /\ lane[l].state = "BLOCKED" =>
           \E d \in DependsOn[l] : lane[d].state \in TerminalBad

\* effect_permit_consumed: one binding of a permit gives its lane one lease,
\* whichever binds, leases, interruptions and readbacks overlapped.  A lane was
\* leased on a permit no more often than that permit was bound to it, and one
\* binding is left for the permit it can be leased on next.
LeasePerBinding ==
    \A l \in Lane, p \in Permit :
      unused[l][p] >= IF lane[l].permit = p /\ ~lane[l].consumed THEN 1 ELSE 0

\* A command is complete only when nothing of it is left to do or to read back,
\* although its lanes are counted before its state is written.
CompleteIsFinished ==
    \A c \in Command : command[c] = "COMPLETE" => Unfinished(c) = {}

=============================================================================
