-------------------------- MODULE TaskKernelProofs --------------------------
(***************************************************************************)
(* What the kernel transactions guarantee for every number of Tasks,       *)
(* Workers and Sources and every capacity, whoever calls them.             *)
(*                                                                         *)
(* The inductive invariant is KernelInv: the rows are typed, a Task that   *)
(* was never admitted holds no queue entry, and SlotCoversWork.            *)
(***************************************************************************)
EXTENDS TaskKernel, FiniteSetTheorems, TLAPS

KernelInv ==
  /\ KernelTypeOK
  /\ \A t \in Tasks : status[t] = "none" => queue[t] = "none"
  /\ SlotCoversWork

(* The rows a publication leaves are rows again.                           *)
LEMMA OverlayType ==
  ASSUME NEW rows \in [Sources -> ItemStatuses], NEW to \in ItemRows
  PROVE  Overlay(rows, to) \in [Sources -> ItemStatuses]
<1>1. PICK S \in SUBSET Sources : to \in [S -> ItemStatuses]
  BY DEF ItemRows
<1>2. \A s \in Sources : (IF s \in DOMAIN to THEN to[s] ELSE rows[s]) \in ItemStatuses
  BY <1>1
<1> QED
  BY <1>2 DEF Overlay

-----------------------------------------------------------------------------
(* Every transaction keeps the rows typed.                                 *)

LEMMA ReleaseType ==
  ASSUME KernelTypeOK, NEW t \in Tasks, NEW to \in ItemRows,
         NEW st \in TaskStatuses, NEW q \in QueueStates,
         ReleaseWrites(t, st, to, q)
  PROVE  KernelTypeOK'
<1>1. Overlay(item[t], to) \in [Sources -> ItemStatuses]
  BY OverlayType DEF KernelTypeOK
<1> QED
  BY <1>1 DEF KernelTypeOK, ReleaseWrites, controlVars, resultVars, Leases

LEMMA OtherCallsType ==
  ASSUME KernelTypeOK, NEW t \in Tasks, OtherCalls(t)
  PROVE  KernelTypeOK'
<1> USE DEF KernelTypeOK, claimVars, controlVars, itemVars, resultVars
<1>1. CASE Admit(t)
  BY <1>1 DEF Admit, TaskStatuses, QueueStates
<1>2. CASE LeaseLapses(t)
  BY <1>2 DEF LeaseLapses, Leases
<1>3. CASE Requeue(t)
  BY <1>3 DEF Requeue, RequeueWrites, TaskStatuses, QueueStates, Controls, Leases
<1>4. CASE Resume(t)
  BY <1>4 DEF Resume, TaskStatuses, QueueStates, Controls, Leases
<1>5. ASSUME NEW c \in {"pause", "cancel"}, RequestControl(t, c)
      PROVE  KernelTypeOK'
  BY <1>5 DEF RequestControl, Controls
<1>6. ASSUME NEW S \in SUBSET Sources, Confirm(t, S)
      PROVE  KernelTypeOK'
  <2>1. [s \in Sources |-> IF s \in S THEN "pending" ELSE item[t][s]]
          \in [Sources -> ItemStatuses]
    BY DEF ItemStatuses, MachineItems
  <2>2. [s \in Sources |-> IF s \in S THEN 0 ELSE attempts[t][s]] \in [Sources -> Nat]
    OBVIOUS
  <2>3. item' \in [Tasks -> [Sources -> ItemStatuses]]
    BY <1>6, <2>1 DEF Confirm
  <2>4. attempts' \in [Tasks -> [Sources -> Nat]]
    BY <1>6, <2>2 DEF Confirm
  <2> QED
    BY <1>6, <2>3, <2>4
       DEF Confirm, RequeueWrites, TaskStatuses, QueueStates, Controls, Leases
<1>7. ASSUME NEW s \in Sources, ParkItem(t, s) \/ Decide(t, s)
      PROVE  KernelTypeOK'
  <2>1. {"review", "pending"} \subseteq ItemStatuses
    BY DEF ItemStatuses, MachineItems, WaitingItems
  <2>2. CASE ParkItem(t, s)
    BY <2>1, <2>2 DEF ParkItem
  <2>3. CASE Decide(t, s)
    BY <2>1, <2>3 DEF Decide
  <2> QED
    BY <1>7, <2>2, <2>3
<1>8. ASSUME NEW s \in Sources, Ignore(t, s)
      PROVE  KernelTypeOK'
  <2>1. [item[t] EXCEPT ![s] = "ignored"] \in [Sources -> ItemStatuses]
    BY DEF ItemStatuses, SettledItems
  <2>2. item' \in [Tasks -> [Sources -> ItemStatuses]]
    BY <1>8, <2>1 DEF Ignore
  <2> QED
    BY <1>8, <2>2 DEF Ignore, TaskStatuses, QueueStates, Leases
<1>9. ASSUME NEW to \in ItemRows, NEW c \in {"pause", "cancel"},
             ReleaseUnowned(t, SettledStatus(c), to, attempts[t], SettledQueue(c), {revision[t]})
      PROVE  KernelTypeOK'
  <2>1. SettledStatus(c) \in TaskStatuses /\ SettledQueue(c) \in QueueStates
    BY DEF SettledStatus, SettledQueue, TaskStatuses, QueueStates
  <2> QED
    BY <1>9, <2>1, ReleaseType DEF ReleaseUnowned
<1> QED
  BY <1>1, <1>2, <1>3, <1>4, <1>5, <1>6, <1>7, <1>8, <1>9 DEF OtherCalls

LEMMA WorkerCallsType ==
  ASSUME KernelTypeOK, NEW w \in Workers, NEW t \in Tasks, WorkerCalls(w, t)
  PROVE  KernelTypeOK'
<1> USE DEF KernelTypeOK, claimVars, controlVars, itemVars, resultVars
<1>1. CASE Claim(w, t)
  BY <1>1 DEF Claim, QueueStates, Leases
<1>2. CASE Heartbeat(w, gen[t], t)
  BY <1>2 DEF Heartbeat, Leases
<1>3. CASE BeginWork(w, gen[t], t)
  BY <1>3 DEF BeginWork, TaskStatuses
<1>4. CASE YieldClaim(w, gen[t], t)
  BY <1>4 DEF YieldClaim, TaskStatuses, QueueStates, Leases
<1>5. ASSUME NEW to \in ItemRows, RecordItems(w, gen[t], t, to)
      PROVE  KernelTypeOK'
  <2>1. Overlay(item[t], to) \in [Sources -> ItemStatuses]
    BY OverlayType
  <2> QED
    BY <1>5, <2>1 DEF RecordItems
<1>6. ASSUME NEW to \in ItemRows, NEW close \in BOOLEAN,
             NEW st \in {"running", "completed", "failed"}, NEW q \in {"waiting_human", "settled"},
             ReleaseClaim(w, gen[t], t, st, to, q, {}, close)
      PROVE  KernelTypeOK'
  BY <1>6, ReleaseType DEF ReleaseClaim, TaskStatuses, QueueStates
<1>7. ASSUME NEW to \in ItemRows, NEW close \in BOOLEAN, NEW c \in {"pause", "cancel"},
             ReleaseClaim(w, gen[t], t, SettledStatus(c), to, SettledQueue(c),
                          {revision[t]}, close)
      PROVE  KernelTypeOK'
  <2>1. SettledStatus(c) \in TaskStatuses /\ SettledQueue(c) \in QueueStates
    BY DEF SettledStatus, SettledQueue, TaskStatuses, QueueStates
  <2> QED
    BY <1>7, <2>1, ReleaseType DEF ReleaseClaim
<1>8. ASSUME NEW s \in Sources, StartItem(w, gen[t], t, s)
      PROVE  KernelTypeOK'
  BY <1>8 DEF StartItem, ItemStatuses, MachineItems
<1>9. ASSUME NEW s \in Sources, BeginMutation(w, gen[t], t, s)
      PROVE  KernelTypeOK'
  BY <1>9 DEF BeginMutation
<1>10. ASSUME NEW s \in Sources, NEW effect \in Effects, NEW keyed \in BOOLEAN,
              PublishOutcome(w, gen[t], t, s, effect, keyed)
       PROVE  KernelTypeOK'
  BY <1>10 DEF PublishOutcome, ItemStatuses, SettledItems
<1> QED
  BY <1>1, <1>2, <1>3, <1>4, <1>5, <1>6, <1>7, <1>8, <1>9, <1>10 DEF WorkerCalls

LEMMA KernelTypeKept ==
  ASSUME KernelTypeOK, [KernelNext]_kernelVars
  PROVE  KernelTypeOK'
<1>1. CASE UNCHANGED kernelVars
  BY <1>1 DEF KernelTypeOK, kernelVars
<1>2. CASE KernelNext
  BY <1>2, OtherCallsType, WorkerCallsType DEF KernelNext
<1> QED
  BY <1>1, <1>2

(* The durable rows stay inside their domains under every caller.          *)
THEOREM KernelTyped == KernelSpec => []KernelTypeOK
<1>1. KernelInit => KernelTypeOK
  BY DEF KernelInit, KernelTypeOK, TaskStatuses, QueueStates, Leases, Controls, ItemStatuses
<1>2. KernelTypeOK /\ [KernelNext]_kernelVars => KernelTypeOK'
  BY KernelTypeKept
<1> QED
  BY <1>1, <1>2, PTL DEF KernelSpec

-----------------------------------------------------------------------------
(* What covers the work of a Task, one lemma per family of transactions.   *)

LEMMA ReleaseCovers ==
  ASSUME KernelInv, NEW t \in Tasks, NEW to \in ItemRows,
         NEW st \in TaskStatuses \ {"none"}, NEW q \in QueueStates,
         \A s \in Sources : Overlay(item[t], to)[s] \notin MachineItems,
         ReleaseWrites(t, st, to, q)
  PROVE  SlotCoversWork' /\ \A u \in Tasks : status'[u] = "none" => queue'[u] = "none"
<1>1. ASSUME NEW u \in Tasks, u # t
      PROVE  /\ UNCHANGED <<status[u], queue[u], holder[u], marker[u], item[u]>>
  BY <1>1 DEF ReleaseWrites, KernelInv, KernelTypeOK
<1>2. /\ status'[t] # "none"
      /\ marker'[t] = {}
      /\ holder'[t] = {}
      /\ \A s \in Sources : item'[t][s] # "processing"
  BY DEF ReleaseWrites, KernelInv, KernelTypeOK, MachineItems
<1> QED
  BY <1>1, <1>2 DEF KernelInv, SlotCoversWork, HoldsSlot

LEMMA OtherCallsCover ==
  ASSUME KernelInv, NEW t \in Tasks, OtherCalls(t)
  PROVE  SlotCoversWork' /\ \A u \in Tasks : status'[u] = "none" => queue'[u] = "none"
<1> DEFINE Goal == SlotCoversWork' /\ \A u \in Tasks : status'[u] = "none" => queue'[u] = "none"
<1> USE DEF KernelInv, KernelTypeOK, SlotCoversWork, HoldsSlot,
            claimVars, controlVars, itemVars, resultVars
<1>1. CASE Admit(t)
  BY <1>1 DEF Admit
<1>2. CASE LeaseLapses(t)
  BY <1>2 DEF LeaseLapses
<1>3. CASE Requeue(t)
  BY <1>3 DEF Requeue, RequeueWrites
<1>4. CASE Resume(t)
  BY <1>4 DEF Resume
<1>5. ASSUME NEW c \in {"pause", "cancel"}, RequestControl(t, c)
      PROVE  Goal
  BY <1>5 DEF RequestControl
<1>6. ASSUME NEW S \in SUBSET Sources, Confirm(t, S)
      PROVE  Goal
  BY <1>6 DEF Confirm, RequeueWrites
<1>7. ASSUME NEW s \in Sources, ParkItem(t, s)
      PROVE  Goal
  BY <1>7 DEF ParkItem
<1>8. ASSUME NEW s \in Sources, Decide(t, s)
      PROVE  Goal
  BY <1>8 DEF Decide
<1>9. ASSUME NEW s \in Sources, Ignore(t, s)
      PROVE  Goal
  BY <1>9 DEF Ignore, LastIgnored
<1>10. ASSUME NEW to \in ItemRows, NEW c \in {"pause", "cancel"},
              ReleaseUnowned(t, SettledStatus(c), to, attempts[t], SettledQueue(c), {revision[t]})
       PROVE  Goal
  <2>1. SettledStatus(c) \in TaskStatuses \ {"none"} /\ SettledQueue(c) \in QueueStates
    BY DEF SettledStatus, SettledQueue, TaskStatuses, QueueStates
  <2> QED
    BY <1>10, <2>1, ReleaseCovers DEF ReleaseUnowned, ReleaseRefused
<1> QED
  BY <1>1, <1>2, <1>3, <1>4, <1>5, <1>6, <1>7, <1>8, <1>9, <1>10 DEF OtherCalls

LEMMA WorkerCallsCover ==
  ASSUME KernelInv, NEW w \in Workers, NEW t \in Tasks, WorkerCalls(w, t)
  PROVE  SlotCoversWork' /\ \A u \in Tasks : status'[u] = "none" => queue'[u] = "none"
<1> DEFINE Goal == SlotCoversWork' /\ \A u \in Tasks : status'[u] = "none" => queue'[u] = "none"
<1> USE DEF KernelInv, KernelTypeOK, SlotCoversWork, HoldsSlot, Owns, OwnsLive,
            claimVars, controlVars, itemVars, resultVars
<1>1. CASE Claim(w, t)
  BY <1>1 DEF Claim, Claimable
<1>2. CASE Heartbeat(w, gen[t], t)
  BY <1>2 DEF Heartbeat
<1>3. CASE BeginWork(w, gen[t], t)
  BY <1>3 DEF BeginWork
<1>4. CASE YieldClaim(w, gen[t], t)
  BY <1>4 DEF YieldClaim
<1>5. ASSUME NEW to \in ItemRows, RecordItems(w, gen[t], t, to)
      PROVE  Goal
  BY <1>5 DEF RecordItems
<1>6. ASSUME NEW to \in ItemRows, NEW close \in BOOLEAN,
             NEW st \in {"running", "completed", "failed"}, NEW q \in {"waiting_human", "settled"},
             ReleaseClaim(w, gen[t], t, st, to, q, {}, close)
      PROVE  Goal
  <2>1. st \in TaskStatuses \ {"none"} /\ q \in QueueStates
    BY DEF TaskStatuses, QueueStates
  <2> QED
    BY <1>6, <2>1, ReleaseCovers DEF ReleaseClaim, ReleaseRefused
<1>7. ASSUME NEW to \in ItemRows, NEW close \in BOOLEAN, NEW c \in {"pause", "cancel"},
             ReleaseClaim(w, gen[t], t, SettledStatus(c), to, SettledQueue(c),
                          {revision[t]}, close)
      PROVE  Goal
  <2>1. SettledStatus(c) \in TaskStatuses \ {"none"} /\ SettledQueue(c) \in QueueStates
    BY DEF SettledStatus, SettledQueue, TaskStatuses, QueueStates
  <2> QED
    BY <1>7, <2>1, ReleaseCovers DEF ReleaseClaim, ReleaseRefused
<1>8. ASSUME NEW s \in Sources, StartItem(w, gen[t], t, s)
      PROVE  Goal
  BY <1>8 DEF StartItem
<1>9. ASSUME NEW s \in Sources, BeginMutation(w, gen[t], t, s)
      PROVE  Goal
  BY <1>9 DEF BeginMutation
<1>10. ASSUME NEW s \in Sources, NEW effect \in Effects, NEW keyed \in BOOLEAN,
              PublishOutcome(w, gen[t], t, s, effect, keyed)
       PROVE  Goal
  BY <1>10 DEF PublishOutcome
<1> QED
  BY <1>1, <1>2, <1>3, <1>4, <1>5, <1>6, <1>7, <1>8, <1>9, <1>10 DEF WorkerCalls

LEMMA KernelInvariant == KernelSpec => []KernelInv
<1>1. KernelInit => KernelInv
  <2> SUFFICES ASSUME KernelInit PROVE KernelInv
    OBVIOUS
  <2>1. KernelTypeOK
    BY DEF KernelInit, KernelTypeOK, TaskStatuses, QueueStates, Leases, Controls, ItemStatuses
  <2> QED
    BY <2>1 DEF KernelInit, KernelInv, SlotCoversWork
<1>2. KernelInv /\ [KernelNext]_kernelVars => KernelInv'
  <2> SUFFICES ASSUME KernelInv, [KernelNext]_kernelVars PROVE KernelInv'
    OBVIOUS
  <2>1. CASE UNCHANGED kernelVars
    BY <2>1 DEF KernelInv, KernelTypeOK, SlotCoversWork, HoldsSlot, kernelVars
  <2>2. ASSUME NEW t \in Tasks, OtherCalls(t)
        PROVE  KernelInv'
    BY <2>2, OtherCallsType, OtherCallsCover DEF KernelInv
  <2>3. ASSUME NEW t \in Tasks, NEW w \in Workers, WorkerCalls(w, t)
        PROVE  KernelInv'
    BY <2>3, WorkerCallsType, WorkerCallsCover DEF KernelInv
  <2> QED
    BY <2>1, <2>2, <2>3 DEF KernelNext
<1> QED
  BY <1>1, <1>2, PTL DEF KernelSpec

(* No release, by whatever caller and with whatever rows, gives back the   *)
(* slot of a Task that has a marked effect or a processing source.         *)
THEOREM SlotsCoverWork == KernelSpec => []SlotCoversWork
<1>1. KernelInv => SlotCoversWork
  BY DEF KernelInv
<1> QED
  BY <1>1, KernelInvariant, PTL

-----------------------------------------------------------------------------
(* Three transactions take a slot, and each of them asked for room.        *)

TakesNoSlot  == \A u \in Tasks : HoldsSlot(u)' => HoldsSlot(u)
TakesSlot(t) == HasRoom /\ \A u \in Tasks \ {t} : HoldsSlot(u)' => HoldsSlot(u)

LEMMA SlotsAreFinite == IsFiniteSet(SlotHolders) /\ Cardinality(SlotHolders) \in Nat
<1>1. SlotHolders \subseteq Tasks
  BY DEF SlotHolders
<1> QED
  BY <1>1, FS_Subset, FS_CardinalityType, KernelAssumption

LEMMA CapacityKept ==
  ASSUME CapacityBound, NEW t \in Tasks, TakesNoSlot \/ TakesSlot(t)
  PROVE  CapacityBound'
<1>1. SlotHolders' = {u \in Tasks : HoldsSlot(u)'}
  BY DEF SlotHolders
<1>2. CASE TakesNoSlot
  <2>1. SlotHolders' \subseteq SlotHolders
    BY <1>1, <1>2 DEF TakesNoSlot, SlotHolders
  <2>2. Cardinality(SlotHolders') <= Cardinality(SlotHolders)
    BY <2>1, SlotsAreFinite, FS_Subset
  <2>3. Cardinality(SlotHolders') \in Nat
    BY <2>1, SlotsAreFinite, FS_Subset, FS_CardinalityType
  <2> QED
    BY <2>2, <2>3, SlotsAreFinite, KernelAssumption DEF CapacityBound
<1>3. CASE TakesSlot(t)
  <2>1. SlotHolders' \subseteq SlotHolders \cup {t}
    BY <1>1, <1>3 DEF TakesSlot, SlotHolders
  <2>2. /\ IsFiniteSet(SlotHolders \cup {t})
        /\ Cardinality(SlotHolders \cup {t}) \in Nat
        /\ Cardinality(SlotHolders \cup {t}) <= Cardinality(SlotHolders) + 1
    <3>1. /\ IsFiniteSet(SlotHolders \cup {t})
          /\ Cardinality(SlotHolders \cup {t}) = IF t \in SlotHolders THEN Cardinality(SlotHolders)
                                                 ELSE Cardinality(SlotHolders) + 1
      BY SlotsAreFinite, FS_AddElement
    <3> QED
      BY <3>1, SlotsAreFinite
  <2>3. Cardinality(SlotHolders') <= Cardinality(SlotHolders \cup {t})
    BY <2>1, <2>2, FS_Subset
  <2>4. Cardinality(SlotHolders') \in Nat
    BY <2>1, <2>2, FS_Subset, FS_CardinalityType
  <2> QED
    BY <1>3, <2>2, <2>3, <2>4, SlotsAreFinite, KernelAssumption
       DEF TakesSlot, HasRoom, CapacityBound
<1> QED
  BY <1>2, <1>3

LEMMA OtherCallsTakeSlots ==
  ASSUME KernelTypeOK, NEW t \in Tasks, OtherCalls(t)
  PROVE  TakesNoSlot \/ TakesSlot(t)
<1> USE DEF KernelTypeOK, TakesNoSlot, TakesSlot, HoldsSlot
<1>1. CASE Admit(t)
  BY <1>1 DEF Admit
<1>2. CASE LeaseLapses(t)
  BY <1>2 DEF LeaseLapses
<1>3. CASE Requeue(t)
  BY <1>3 DEF Requeue, RequeueWrites
<1>4. CASE Resume(t)
  BY <1>4 DEF Resume
<1>5. ASSUME NEW c \in {"pause", "cancel"}, RequestControl(t, c)
      PROVE  TakesNoSlot
  BY <1>5 DEF RequestControl
<1>6. ASSUME NEW S \in SUBSET Sources, Confirm(t, S)
      PROVE  TakesSlot(t)
  BY <1>6 DEF Confirm, RequeueWrites
<1>7. ASSUME NEW s \in Sources, ParkItem(t, s) \/ Decide(t, s)
      PROVE  TakesNoSlot
  BY <1>7 DEF ParkItem, Decide
<1>8. ASSUME NEW s \in Sources, Ignore(t, s)
      PROVE  TakesNoSlot
  BY <1>8 DEF Ignore
<1>9. ASSUME NEW to \in ItemRows, NEW c \in {"pause", "cancel"},
             ReleaseUnowned(t, SettledStatus(c), to, attempts[t], SettledQueue(c), {revision[t]})
      PROVE  TakesNoSlot
  BY <1>9 DEF ReleaseUnowned, ReleaseWrites, SettledQueue
<1> QED
  BY <1>1, <1>2, <1>3, <1>4, <1>5, <1>6, <1>7, <1>8, <1>9 DEF OtherCalls

LEMMA WorkerCallsTakeNoSlot ==
  ASSUME KernelTypeOK, NEW w \in Workers, NEW t \in Tasks, WorkerCalls(w, t)
  PROVE  TakesNoSlot
<1> USE DEF KernelTypeOK, TakesNoSlot, HoldsSlot, Owns, OwnsLive
<1>1. CASE Claim(w, t)
  BY <1>1 DEF Claim, Claimable
<1>2. CASE Heartbeat(w, gen[t], t) \/ BeginWork(w, gen[t], t) \/ YieldClaim(w, gen[t], t)
  BY <1>2 DEF Heartbeat, BeginWork, YieldClaim
<1>3. ASSUME NEW to \in ItemRows, RecordItems(w, gen[t], t, to)
      PROVE  TakesNoSlot
  BY <1>3 DEF RecordItems
<1>4. ASSUME NEW to \in ItemRows, NEW close \in BOOLEAN, NEW st, NEW expected,
             NEW q \in QueueStates \ {"queued", "claimed"},
             ReleaseClaim(w, gen[t], t, st, to, q, expected, close)
      PROVE  TakesNoSlot
  BY <1>4 DEF ReleaseClaim, ReleaseWrites
<1>5. ASSUME NEW s \in Sources, StartItem(w, gen[t], t, s) \/ BeginMutation(w, gen[t], t, s)
      PROVE  TakesNoSlot
  BY <1>5 DEF StartItem, BeginMutation
<1>6. ASSUME NEW s \in Sources, NEW effect \in Effects, NEW keyed \in BOOLEAN,
             PublishOutcome(w, gen[t], t, s, effect, keyed)
      PROVE  TakesNoSlot
  BY <1>6 DEF PublishOutcome
<1> QED
  BY <1>1, <1>2, <1>3, <1>4, <1>5, <1>6 DEF WorkerCalls, SettledQueue, QueueStates

(* The allowance holds for every capacity and number of Tasks: admission,  *)
(* continuation and confirmation are the only ways in, and each counts.    *)
THEOREM CapacityHolds == KernelSpec => []CapacityBound
<1>1. KernelInit => CapacityBound
  <2> SUFFICES ASSUME KernelInit PROVE CapacityBound
    OBVIOUS
  <2>1. SlotHolders = {}
    BY DEF KernelInit, SlotHolders, HoldsSlot
  <2> QED
    BY <2>1, FS_EmptySet, KernelAssumption DEF CapacityBound
<1>2. KernelTypeOK /\ CapacityBound /\ [KernelNext]_kernelVars => CapacityBound'
  <2> SUFFICES ASSUME KernelTypeOK, CapacityBound, [KernelNext]_kernelVars
               PROVE  CapacityBound'
    OBVIOUS
  <2>1. CASE UNCHANGED kernelVars
    BY <2>1 DEF CapacityBound, SlotHolders, HoldsSlot, kernelVars
  <2>2. CASE KernelNext
    BY <2>2, OtherCallsTakeSlots, WorkerCallsTakeNoSlot, CapacityKept DEF KernelNext
  <2> QED
    BY <2>1, <2>2
<1> QED
  BY <1>1, <1>2, KernelTyped, PTL DEF KernelSpec

-----------------------------------------------------------------------------
(* Cancel.                                                                 *)

CancelKept ==
  \A t \in Tasks : control[t] = "cancel" =>
    /\ control'[t] = "cancel"
    /\ status'[t] \in {"completed", "failed"} => status'[t] = status[t]

LEMMA OtherCallsKeepCancel ==
  ASSUME KernelTypeOK, NEW t \in Tasks, OtherCalls(t)
  PROVE  CancelKept
<1> USE DEF KernelTypeOK, CancelKept, controlVars
<1>1. CASE Admit(t) \/ LeaseLapses(t)
  BY <1>1 DEF Admit, LeaseLapses
<1>2. CASE Requeue(t) \/ Resume(t)
  BY <1>2 DEF Requeue, RequeueWrites, Resume
<1>3. ASSUME NEW c \in {"pause", "cancel"}, RequestControl(t, c)
      PROVE  CancelKept
  BY <1>3 DEF RequestControl, AcceptsControl
<1>4. ASSUME NEW S \in SUBSET Sources, Confirm(t, S)
      PROVE  CancelKept
  BY <1>4 DEF Confirm, RequeueWrites
<1>5. ASSUME NEW s \in Sources, ParkItem(t, s) \/ Decide(t, s)
      PROVE  CancelKept
  BY <1>5 DEF ParkItem, Decide
<1>6. ASSUME NEW s \in Sources, Ignore(t, s)
      PROVE  CancelKept
  BY <1>6 DEF Ignore, LastIgnored
<1>7. ASSUME NEW to \in ItemRows, NEW c \in {"pause", "cancel"},
             ReleaseUnowned(t, SettledStatus(c), to, attempts[t], SettledQueue(c), {revision[t]})
      PROVE  CancelKept
  BY <1>7 DEF ReleaseUnowned, ReleaseWrites, SettledStatus
<1> QED
  BY <1>1, <1>2, <1>3, <1>4, <1>5, <1>6, <1>7 DEF OtherCalls

LEMMA WorkerCallsKeepCancel ==
  ASSUME KernelTypeOK, NEW w \in Workers, NEW t \in Tasks, WorkerCalls(w, t)
  PROVE  CancelKept
<1> USE DEF KernelTypeOK, CancelKept, controlVars
<1>1. CASE Claim(w, t)
  BY <1>1 DEF Claim
<1>2. CASE Heartbeat(w, gen[t], t) \/ BeginWork(w, gen[t], t) \/ YieldClaim(w, gen[t], t)
  BY <1>2 DEF Heartbeat, BeginWork, YieldClaim
<1>3. ASSUME NEW to \in ItemRows, RecordItems(w, gen[t], t, to)
      PROVE  CancelKept
  BY <1>3 DEF RecordItems
<1>4. ASSUME NEW to \in ItemRows, NEW close \in BOOLEAN, NEW st, NEW q,
             ReleaseClaim(w, gen[t], t, st, to, q, {}, close)
      PROVE  CancelKept
  BY <1>4 DEF ReleaseClaim, ReleaseRefused, ReleaseWrites
<1>5. ASSUME NEW to \in ItemRows, NEW close \in BOOLEAN, NEW c \in {"pause", "cancel"},
             ReleaseClaim(w, gen[t], t, SettledStatus(c), to, SettledQueue(c),
                          {revision[t]}, close)
      PROVE  CancelKept
  BY <1>5 DEF ReleaseClaim, ReleaseWrites, SettledStatus
<1>6. ASSUME NEW s \in Sources, StartItem(w, gen[t], t, s) \/ BeginMutation(w, gen[t], t, s)
      PROVE  CancelKept
  BY <1>6 DEF StartItem, BeginMutation
<1>7. ASSUME NEW s \in Sources, NEW effect \in Effects, NEW keyed \in BOOLEAN,
             PublishOutcome(w, gen[t], t, s, effect, keyed)
      PROVE  CancelKept
  BY <1>7 DEF PublishOutcome
<1> QED
  BY <1>1, <1>2, <1>3, <1>4, <1>5, <1>6, <1>7 DEF WorkerCalls

(* An accepted cancel is never withdrawn and no outcome is written over it.*)
THEOREM CancelStands == KernelSpec => CancelIsFinal
<1>1. KernelTypeOK /\ [KernelNext]_kernelVars => [CancelKept]_kernelVars
  BY OtherCallsKeepCancel, WorkerCallsKeepCancel DEF KernelNext
<1> QED
  BY <1>1, KernelTyped, PTL DEF KernelSpec, CancelIsFinal, CancelKept

=============================================================================
