----------------------------- MODULE TaskKernel -----------------------------
(***************************************************************************)
(* The Task scheduling kernel: the durable rows of tasks, task_scheduling, *)
(* task_items and task_results, and the repository transactions that move  *)
(* them (src/mediaflow/infrastructure/sqlite_runtime.py, 17669 to 19972).  *)
(* Every action is one BEGIN IMMEDIATE ... COMMIT block, so it is atomic.  *)
(*                                                                         *)
(* A NULL column is the empty set.  A lease is an instant in the code; the *)
(* model keeps what a reader of the row can tell at its own clock: there   *)
(* is none, it is still live, or it lapsed.  Time may pass at any moment.  *)
(***************************************************************************)
EXTENDS Naturals, FiniteSets

CONSTANTS Tasks,     \* organizing Tasks
          Workers,   \* Processing Workers
          Sources,   \* concrete media sources of a Task
          Capacity   \* the shared organizing allowance (task_capacity)

ASSUME KernelAssumption ==
  /\ IsFiniteSet(Tasks)
  /\ Capacity \in Nat \ {0}

QueueStates  == {"none", "queued", "claimed", "waiting_human", "paused", "settled"}
TaskStatuses == {"none", "pending", "running", "completed", "failed", "cancelled"}
TerminalStatuses == {"completed", "failed", "cancelled"}
Controls     == {"none", "pause", "cancel"}
Leases       == {"none", "live", "lapsed"}
Effects      == {"none", "verified", "unknown"}

(* "review" is any open four-type problem, "confirm" is waiting_confirm,   *)
(* "success" also stands for dry_run and skipped, "failed" for partial.    *)
MachineItems   == {"pending", "processing"}
OnlyReviews    == {"review"}            \* mutant: confirmation is forgotten
WaitingItems   == {"review", "confirm"}
SettledItems   == {"success", "failed", "cancelled", "ignored"}
ResumableItems == {"pending", "paused", "failed", "confirm"}
ItemStatuses   == {"absent", "paused"} \cup MachineItems \cup WaitingItems \cup SettledItems
(* What a pause suspends and what a cancel ends.                           *)
Pausable    == MachineItems
Cancellable == MachineItems \cup WaitingItems \cup {"paused"}

SettledStatus(c) == IF c = "pause" THEN "running" ELSE "cancelled"
SettledQueue(c) == IF c = "pause" THEN "paused" ELSE "settled"

VARIABLES
  status,    \* tasks.status
  queue,     \* task_scheduling.queue_state
  gen,       \* task_scheduling.claim_generation
  holder,    \* {claim_worker_id}: with gen it stands for the claim token
  lease,     \* task_scheduling.claim_expires_at against the clock
  control,   \* task_scheduling.control_request
  revision,  \* task_scheduling.control_revision
  marker,    \* {mutation_item_id}
  item,      \* task_items.status
  attempts,  \* task_items.attempts
  recorded,  \* attempts whose Result is keyed "<item>:<attempt>"
  effects    \* effect_certainty of every Result of the item

claimVars   == <<holder, lease>>
controlVars == <<control, revision>>
itemVars    == <<item, attempts>>
resultVars  == <<recorded, effects>>
kernelVars  == <<status, queue, gen, holder, lease, control, revision,
                 marker, item, attempts, recorded, effects>>

KernelTypeOK ==
  /\ status \in [Tasks -> TaskStatuses]
  /\ queue \in [Tasks -> QueueStates]
  /\ gen \in [Tasks -> Nat]
  /\ holder \in [Tasks -> SUBSET Workers]
  /\ lease \in [Tasks -> Leases]
  /\ control \in [Tasks -> Controls]
  /\ revision \in [Tasks -> Nat]
  /\ marker \in [Tasks -> SUBSET Sources]
  /\ item \in [Tasks -> [Sources -> ItemStatuses]]
  /\ attempts \in [Tasks -> [Sources -> Nat]]
  /\ recorded \in [Tasks -> [Sources -> SUBSET Nat]]
  /\ effects \in [Tasks -> [Sources -> SUBSET Effects]]

KernelInit ==
  /\ status = [t \in Tasks |-> "none"]
  /\ queue = [t \in Tasks |-> "none"]
  /\ gen = [t \in Tasks |-> 0]
  /\ holder = [t \in Tasks |-> {}]
  /\ lease = [t \in Tasks |-> "none"]
  /\ control = [t \in Tasks |-> "none"]
  /\ revision = [t \in Tasks |-> 0]
  /\ marker = [t \in Tasks |-> {}]
  /\ item = [t \in Tasks |-> [s \in Sources |-> "absent"]]
  /\ attempts = [t \in Tasks |-> [s \in Sources |-> 0]]
  /\ recorded = [t \in Tasks |-> [s \in Sources |-> {}]]
  /\ effects = [t \in Tasks |-> [s \in Sources |-> {}]]

-----------------------------------------------------------------------------
(* What a transaction reads.                                               *)

HoldsSlot(t) == queue[t] \in {"queued", "claimed"}
SlotHolders  == {t \in Tasks : HoldsSlot(t)}

(* Mutant: off by one.                                                     *)
RoomForOneMore == Cardinality(SlotHolders) <= Capacity

HasRoom      == Cardinality(SlotHolders) < Capacity

(* The claim fence: this Worker, this token, this generation.              *)
Owns(w, g, t)     == queue[t] = "claimed" /\ holder[t] = {w} /\ gen[t] = g
OwnsLive(w, g, t) == Owns(w, g, t) /\ lease[t] = "live"

(* Mutants: a lapsed lease is enough; a yielded token is never taken over. *)
ClaimableByLease(t) ==
  /\ HoldsSlot(t)
  /\ holder[t] = {} \/ lease[t] # "live"
  /\ marker[t] = {}
ClaimableWithoutToken(t) ==
  /\ HoldsSlot(t)
  /\ status[t] = "pending"
  /\ holder[t] = {}
  /\ marker[t] = {}

Claimable(t) ==
  /\ HoldsSlot(t)
  /\ status[t] = "pending"
  /\ holder[t] = {} \/ lease[t] # "live"
  /\ marker[t] = {}

(* The rows "to" written over the rows "rows".                             *)
Overlay(rows, to) == [s \in Sources |-> IF s \in DOMAIN to THEN to[s] ELSE rows[s]]

MachineSources(t) == {s \in Sources : item[t][s] \in MachineItems}

(* Every recorded Result of the item proves that nothing happened.         *)
ReplaySafe(t, s) == effects[t][s] \subseteq {"none"}

(* Mutant: any marker of a returned pass is history.                       *)
AnyMarkerIsHistory(t) == marker[t] # {}

(* The marked attempt recorded its end and no sibling has machine work.    *)
MarkerIsHistory(t) == marker[t] # {} /\ MachineSources(t) = {}

HasRecordedOutcome(t, s) ==
  item[t][s] \in SettledItems \/ attempts[t][s] \in recorded[t][s]

(* A PROGRESS publication stays inside the current attempt and cannot      *)
(* rewrite a recorded outcome.                                             *)
AcceptsProgress(t, s, to, attempt) ==
  /\ item[t][s] # "absent"
  /\ attempt = attempts[t][s]
  /\ HasRecordedOutcome(t, s) => to = item[t][s]

-----------------------------------------------------------------------------
(* Admission, claims and the passage of time.                              *)

(* A new Task takes a slot, or the full queue writes nothing.              *)
Admit(t) ==
  /\ status[t] = "none"
  /\ HasRoom
  /\ status' = [status EXCEPT ![t] = "pending"]
  /\ queue' = [queue EXCEPT ![t] = "queued"]
  /\ UNCHANGED <<gen, claimVars, controlVars, marker, itemVars, resultVars>>

Claim(w, t) ==
  /\ Claimable(t)
  /\ queue' = [queue EXCEPT ![t] = "claimed"]
  /\ gen' = [gen EXCEPT ![t] = @ + 1]
  /\ holder' = [holder EXCEPT ![t] = {w}]
  /\ lease' = [lease EXCEPT ![t] = "live"]
  /\ UNCHANGED <<status, controlVars, marker, itemVars, resultVars>>

LeaseLapses(t) ==
  /\ lease[t] = "live"
  /\ lease' = [lease EXCEPT ![t] = "lapsed"]
  /\ UNCHANGED <<status, queue, gen, holder, controlVars, marker, itemVars, resultVars>>

(* The heartbeat asks for the claim, not for a live lease: it renews a     *)
(* lapsed lease of the same generation.                                    *)
Heartbeat(w, g, t) ==
  /\ Owns(w, g, t)
  /\ lease' = [lease EXCEPT ![t] = "live"]
  /\ UNCHANGED <<status, queue, gen, holder, controlVars, marker, itemVars, resultVars>>

BeginWork(w, g, t) ==
  /\ OwnsLive(w, g, t)
  /\ status[t] = "pending"
  /\ status' = [status EXCEPT ![t] = "running"]
  /\ UNCHANGED <<queue, gen, claimVars, controlVars, marker, itemVars, resultVars>>

(* The pass ends with work left: the slot stays, and so does the token.    *)
YieldClaim(w, g, t) ==
  /\ OwnsLive(w, g, t)
  /\ marker[t] = {}
  /\ control[t] = "none"
  /\ status' = [status EXCEPT ![t] = "pending"]
  /\ queue' = [queue EXCEPT ![t] = "queued"]
  /\ lease' = [lease EXCEPT ![t] = "none"]
  /\ UNCHANGED <<gen, holder, controlVars, marker, itemVars, resultVars>>

-----------------------------------------------------------------------------
(* Cooperative control and the release of the slot.                        *)

(* One durable intent.  Repeating the stored one changes nothing.          *)
AcceptsControl(t, c) ==
  \/ control[t] = c
  \/ queue[t] # "settled" /\ control[t] # "cancel"

RequestControl(t, c) ==
  /\ status[t] # "none"
  /\ AcceptsControl(t, c)
  /\ control' = [control EXCEPT ![t] = c]
  /\ revision' = [revision EXCEPT ![t] = IF control[t] = c THEN @ ELSE @ + 1]
  /\ UNCHANGED <<status, queue, gen, claimVars, marker, itemVars, resultVars>>

(* Mutant: an outcome may be published over an accepted cancel.            *)
ReleaseIgnoresCancel(t, to, seen, expected, close) ==
  \/ marker[t] # {} /\ ~(close /\ MarkerIsHistory(t))
  \/ expected # {} /\ revision[t] \notin expected
  \/ \E s \in Sources : Overlay(item[t], to)[s] \in MachineItems
  \/ \E s \in DOMAIN to : ~AcceptsProgress(t, s, to[s], seen[s])

(* The release transaction.  to: the item statuses the caller publishes,   *)
(* seen: the attempts those rows carry, expected: the control revision the *)
(* caller acknowledges ({} for an outcome), close: its own pass returned.  *)
ReleaseRefused(t, to, seen, expected, close) ==
  \/ marker[t] # {} /\ ~(close /\ MarkerIsHistory(t))
  \/ expected # {} /\ revision[t] \notin expected
  \/ expected = {} /\ control[t] = "cancel"
  \/ \E s \in Sources : Overlay(item[t], to)[s] \in MachineItems
  \/ \E s \in DOMAIN to : ~AcceptsProgress(t, s, to[s], seen[s])

(* Mutant: the closed effect boundary stays on the released row.           *)
ReleaseKeepsMarker(t, st, to, q) ==
  /\ status' = [status EXCEPT ![t] = st]
  /\ queue' = [queue EXCEPT ![t] = q]
  /\ holder' = [holder EXCEPT ![t] = {}]
  /\ lease' = [lease EXCEPT ![t] = "none"]
  /\ item' = [item EXCEPT ![t] = Overlay(@, to)]
  /\ UNCHANGED <<gen, controlVars, marker, attempts, resultVars>>

ReleaseWrites(t, st, to, q) ==
  /\ status' = [status EXCEPT ![t] = st]
  /\ queue' = [queue EXCEPT ![t] = q]
  /\ holder' = [holder EXCEPT ![t] = {}]
  /\ lease' = [lease EXCEPT ![t] = "none"]
  /\ marker' = [marker EXCEPT ![t] = {}]
  /\ item' = [item EXCEPT ![t] = Overlay(@, to)]
  /\ UNCHANGED <<gen, controlVars, attempts, resultVars>>

ReleaseClaim(w, g, t, st, to, q, expected, close) ==
  /\ OwnsLive(w, g, t)
  /\ ~ReleaseRefused(t, to, attempts[t], expected, close)
  /\ ReleaseWrites(t, st, to, q)

(* fence=None: the one further guard is that no claim token is stored.     *)
ReleaseUnowned(t, st, to, seen, q, expected) ==
  /\ holder[t] = {}
  /\ ~ReleaseRefused(t, to, seen, expected, FALSE)
  /\ ReleaseWrites(t, st, to, q)

-----------------------------------------------------------------------------
(* Items, the mutation boundary and Results.                               *)

StartItem(w, g, t, s) ==
  /\ OwnsLive(w, g, t)
  /\ item[t][s] = "absent" \/ (item[t][s] \in ResumableItems /\ ReplaySafe(t, s))
  /\ marker[t] # {s}
  /\ item' = [item EXCEPT ![t][s] = "processing"]
  /\ attempts' = [attempts EXCEPT ![t][s] = @ + 1]
  /\ UNCHANGED <<status, queue, gen, claimVars, controlVars, marker, resultVars>>

(* Fenced PROGRESS publications; a loop of them is one step.               *)
RecordItems(w, g, t, to) ==
  /\ OwnsLive(w, g, t)
  /\ \A s \in DOMAIN to : AcceptsProgress(t, s, to[s], attempts[t][s])
  /\ item' = [item EXCEPT ![t] = Overlay(@, to)]
  /\ UNCHANGED <<status, queue, gen, claimVars, controlVars, marker, attempts, resultVars>>

(* Opening a review asks for a processing row only, not for the claim.     *)
ParkItem(t, s) ==
  /\ item[t][s] = "processing"
  /\ item' = [item EXCEPT ![t][s] = "review"]
  /\ UNCHANGED <<status, queue, gen, claimVars, controlVars, marker, attempts, resultVars>>

(* Mutant: a boundary that is still open is moved to the next source.      *)
BeginMutationAnew(w, g, t, s) ==
  /\ OwnsLive(w, g, t)
  /\ item[t][s] = "processing"
  /\ ReplaySafe(t, s)
  /\ marker' = [marker EXCEPT ![t] = {s}]
  /\ UNCHANGED <<status, queue, gen, claimVars, controlVars, itemVars, resultVars>>

BeginMutation(w, g, t, s) ==
  /\ OwnsLive(w, g, t)
  /\ item[t][s] = "processing"
  /\ ReplaySafe(t, s)
  /\ marker[t] = {}
  /\ marker' = [marker EXCEPT ![t] = {s}]
  /\ UNCHANGED <<status, queue, gen, claimVars, controlVars, itemVars, resultVars>>

(* The outcome of the current attempt, its Result and, for a proven effect,*)
(* the end of the mutation boundary.  keyed: the Result identity is        *)
(* "<item>:<attempt>"; a manual execution mints a fresh one instead.       *)
PublishOutcome(w, g, t, s, effect, keyed) ==
  /\ OwnsLive(w, g, t)
  /\ item[t][s] = "processing"
  /\ attempts[t][s] \notin recorded[t][s]
  /\ item' = [item EXCEPT ![t][s] = IF effect = "verified" THEN "success" ELSE "failed"]
  /\ effects' = [effects EXCEPT ![t][s] = @ \cup {effect}]
  /\ recorded' = [recorded EXCEPT ![t][s] = IF keyed THEN @ \cup {attempts[t][s]} ELSE @]
  /\ marker' = [marker EXCEPT ![t] = IF effect # "unknown" THEN @ \ {s} ELSE @]
  /\ UNCHANGED <<status, queue, gen, claimVars, controlVars, attempts>>

-----------------------------------------------------------------------------
(* Operator transactions on work that waits.                               *)

(* An admitted continuation takes a slot again under a new generation.     *)
RequeueWrites(t) ==
  /\ HasRoom
  /\ status' = [status EXCEPT ![t] = "pending"]
  /\ queue' = [queue EXCEPT ![t] = "queued"]
  /\ gen' = [gen EXCEPT ![t] = @ + 1]
  /\ holder' = [holder EXCEPT ![t] = {}]
  /\ lease' = [lease EXCEPT ![t] = "none"]
  /\ control' = [control EXCEPT ![t] = "none"]
  /\ UNCHANGED <<revision, marker, resultVars>>

Requeue(t) ==
  /\ queue[t] \in {"waiting_human", "paused"}
  /\ marker[t] = {}
  /\ control[t] # "cancel"
  /\ status[t] # "cancelled"
  /\ RequeueWrites(t)
  /\ UNCHANGED itemVars

(* The one-shot confirmation of a reviewed summary adopts the Task: every  *)
(* confirmed row is written again as pending work with no attempt.         *)
Confirm(t, S) ==
  /\ queue[t] = "waiting_human"
  /\ status[t] \notin TerminalStatuses
  /\ control[t] # "cancel"
  /\ \A s \in S : item[t][s] \notin SettledItems
  /\ RequeueWrites(t)
  /\ item' = [item EXCEPT ![t] = [s \in Sources |-> IF s \in S THEN "pending" ELSE @[s]]]
  /\ attempts' = [attempts EXCEPT ![t] = [s \in Sources |-> IF s \in S THEN 0 ELSE @[s]]]

(* A paused Task with no paused discovery returns to human waiting.        *)
Resume(t) ==
  /\ queue[t] = "paused"
  /\ control[t] # "cancel"
  /\ status' = [status EXCEPT ![t] = "running"]
  /\ queue' = [queue EXCEPT ![t] = "waiting_human"]
  /\ gen' = [gen EXCEPT ![t] = @ + 1]
  /\ holder' = [holder EXCEPT ![t] = {}]
  /\ lease' = [lease EXCEPT ![t] = "none"]
  /\ control' = [control EXCEPT ![t] = "none"]
  /\ UNCHANGED <<revision, marker, itemVars, resultVars>>

(* A saved decision asks for a waiting row only, whatever the Task does.   *)
Decide(t, s) ==
  /\ item[t][s] = "review"
  /\ item' = [item EXCEPT ![t][s] = "pending"]
  /\ UNCHANGED <<status, queue, gen, claimVars, controlVars, marker, attempts, resultVars>>

(* Mutant: an accepted control does not keep the Task open.                *)
LastIgnoredUnderControl(t, after) ==
  /\ queue[t] = "waiting_human" /\ holder[t] = {} /\ marker[t] = {}
  /\ \A s \in Sources : after[s] \in SettledItems \cup {"absent"}

(* Ignoring the last open source settles a Task nobody owns or controls.   *)
LastIgnored(t, after) ==
  /\ queue[t] = "waiting_human" /\ holder[t] = {}
  /\ control[t] = "none" /\ marker[t] = {}
  /\ \A s \in Sources : after[s] \in SettledItems \cup {"absent"}

Ignore(t, s) ==
  LET after == [item[t] EXCEPT ![s] = "ignored"]
      ends == LastIgnored(t, after)
  IN /\ item[t][s] = "review"
     /\ item' = [item EXCEPT ![t] = after]
     /\ status' = [status EXCEPT ![t] = IF ends THEN "completed" ELSE @]
     /\ queue' = [queue EXCEPT ![t] = IF ends THEN "settled" ELSE @]
     /\ lease' = [lease EXCEPT ![t] = IF ends THEN "none" ELSE @]
     /\ UNCHANGED <<gen, holder, controlVars, marker, attempts, resultVars>>

-----------------------------------------------------------------------------
(* The kernel under free callers: any Worker may present the current token *)
(* of any Task and publish any rows and outcome; a settlement acknowledges *)
(* the control revision it settles.  Only the guards of the transactions   *)
(* stand between the callers and the rows.                                 *)

ItemRows == UNION {[S -> ItemStatuses] : S \in SUBSET Sources}

WorkerCalls(w, t) ==
  \/ Claim(w, t)
  \/ Heartbeat(w, gen[t], t) \/ BeginWork(w, gen[t], t) \/ YieldClaim(w, gen[t], t)
  \/ \E to \in ItemRows :
       \/ RecordItems(w, gen[t], t, to)
       \/ \E close \in BOOLEAN :
            \/ \E st \in {"running", "completed", "failed"}, q \in {"waiting_human", "settled"} :
                 ReleaseClaim(w, gen[t], t, st, to, q, {}, close)
            \/ \E c \in {"pause", "cancel"} :
                 ReleaseClaim(w, gen[t], t, SettledStatus(c), to, SettledQueue(c),
                              {revision[t]}, close)
  \/ \E s \in Sources :
       \/ StartItem(w, gen[t], t, s) \/ BeginMutation(w, gen[t], t, s)
       \/ \E effect \in Effects, keyed \in BOOLEAN :
            PublishOutcome(w, gen[t], t, s, effect, keyed)

OtherCalls(t) ==
  \/ Admit(t) \/ LeaseLapses(t) \/ Requeue(t) \/ Resume(t)
  \/ \E c \in {"pause", "cancel"} : RequestControl(t, c)
  \/ \E S \in SUBSET Sources : Confirm(t, S)
  \/ \E s \in Sources : ParkItem(t, s) \/ Decide(t, s) \/ Ignore(t, s)
  \/ \E to \in ItemRows, c \in {"pause", "cancel"} :
       ReleaseUnowned(t, SettledStatus(c), to, attempts[t], SettledQueue(c), {revision[t]})

KernelNext == \E t \in Tasks : OtherCalls(t) \/ \E w \in Workers : WorkerCalls(w, t)

KernelSpec == KernelInit /\ [][KernelNext]_kernelVars

-----------------------------------------------------------------------------
(* The shared allowance is one number for every entrance: however Tasks    *)
(* are admitted, confirmed, continued and released, no more of them hold a *)
(* slot than the capacity (admission, requeue and confirm each count).     *)
CapacityBound == Cardinality(SlotHolders) <= Capacity

(* A slot is given back only by work that stopped: an effect boundary or a *)
(* processing source keeps the Task's slot, whoever releases and whatever  *)
(* rows it publishes, and a Task without a slot belongs to no Worker.      *)
SlotCoversWork ==
  \A t \in Tasks :
    /\ marker[t] # {} => queue[t] = "claimed"
    /\ (\E s \in Sources : item[t][s] = "processing") => HoldsSlot(t)
    /\ ~HoldsSlot(t) => holder[t] = {}

(* An accepted cancel is the operator's final word: it is never withdrawn, *)
(* and no outcome of a pass is published over it.                          *)
CancelIsFinal ==
  [][\A t \in Tasks : control[t] = "cancel" =>
       /\ control'[t] = "cancel"
       /\ status'[t] \in {"completed", "failed"} => status'[t] = status[t]]_kernelVars

=============================================================================
