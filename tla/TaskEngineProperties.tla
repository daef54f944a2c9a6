------------------------ MODULE TaskEngineProperties ------------------------
(***************************************************************************)
(* What the engine promises about the passes, the items and the slots.     *)
(***************************************************************************)
EXTENDS TaskEngine

(* The steps between begin_work and the end of the pass.                   *)
WorkingSteps ==
  {"choosing", "starting", "started", "mutating", "publishing", "republishing", "refused",
   "parked", "reprojecting", "raised", "retiring", "ending", "deferring", "completing"}

(* One organizer per Task: a pass that may start, mutate or publish is the *)
(* one the claim names, whatever lapsed, crashed, continued or controlled  *)
(* it in between (the fence of _scheduled_claim_locked).                   *)
OneOrganizer ==
  \A p \in passes : p.pc \in WorkingSteps => Mine(p) /\ status[p.task] = "running"

(* No source is handed to Storage a second time once a call for it had, or *)
(* may have had, an effect: not by another attempt, kind of pass, Worker   *)
(* or round (begin_scheduled_mutation, the replay-safe history).           *)
NeverRepeatsAnEffect ==
  \A p \in passes : p.pc = "mutating" => p.source \cap touched[p.task] = {}

(* An effect is never forgotten: its source is either still marked under   *)
(* the attempt that made it, or ended as a success or a failure.  A pause, *)
(* a cancel, a decision or a failed pass may not make it waiting, paused,  *)
(* cancelled or pending work again.                                        *)
EffectIsAccounted ==
  \A t \in Tasks : \A s \in touched[t] :
    \/ item[t][s] \in {"success", "failed"}
    \/ item[t][s] = "processing" /\ marker[t] = {s}

(* "Persist only executor-owned effect evidence" (task_runtime.py:1131):   *)
(* a source Storage changed has no record that says nothing happened.      *)
HonestResults ==
  \A t \in Tasks : \A s \in touched[t] :
    effects[t][s] # {} => effects[t][s] \cap {"verified", "unknown"} # {}

(* A Task that reports completed has no source left open: none waiting for *)
(* a person, none suspended and none its scope never reached.              *)
CompletedLeavesNothingOpen ==
  \A t \in Tasks : status[t] = "completed" => \A s \in Sources : item[t][s] \in SettledItems

(* Settled work stays settled (TaskQueueState.SETTLED): no late control or *)
(* publication of an earlier round moves it again.                         *)
SettledIsFinal ==
  [][\A t \in Tasks : queue[t] = "settled" =>
       queue'[t] = "settled" /\ status'[t] = status[t]]_vars

(* The second transaction of a pause, over rows read before it.            *)
LatePause(t) ==
  \E r \in requests : r.task = t /\ r.control = "pause" /\ \E k \in r.rows : SettleUnowned(r, k)

(* It moves in that one way only: the settlement of a pause accepted       *)
(* before the Task settled may still come (request_scheduled_task_control).*)
(* No cancel, decision, continuation or late pass moves it.                *)
SettledUnlessLatePause ==
  [][\A t \in Tasks : queue[t] = "settled" =>
       (queue'[t] = "settled" /\ status'[t] = status[t]) \/ LatePause(t)]_vars

(* A saved decision is work the Task owes: it is never written off as      *)
(* failed before an attempt started it.                                    *)
DecidedWorkIsTried ==
  [][\A t \in Tasks, s \in Sources : item[t][s] = "pending" => item'[t][s] # "failed"]_vars

-----------------------------------------------------------------------------
(* The effect ledger of one Task: a source is entered from the durable     *)
(* boundary (begin_scheduled_mutation) to the row's release from it.  It   *)
(* never closes, because a settled Task may be continued.                  *)
Ledger(t) == INSTANCE EffectLedger WITH
  Operations <- Sources,
  phase <- "open",
  effect <- [s \in Sources |->
    IF marker[t] = {s} THEN "entered"
    ELSE IF s \notin touched[t] THEN "none"
    ELSE IF "verified" \in effects[t][s] THEN "known" ELSE "unknown"]

(* Every Task keeps the promise of the effect ledger: one source at a time *)
(* over all its Workers, none again after an effect, and what is recorded  *)
(* of an effect never changes, in whatever state the pass left the row.    *)
KeepsEffectLedger ==
  /\ \A t \in Tasks : Ledger(t)!LedgerInit
  /\ [][\A t \in Tasks : Ledger(t)!LedgerNext \/ UNCHANGED Ledger(t)!ledgerVars]_vars

-----------------------------------------------------------------------------
(* Liveness.  A Worker that holds a pass keeps running it, and the kernel  *)
(* hands out the oldest eligible Task, so none is passed over forever.     *)

WorkerRuns(w) == \E p \in passes : p.worker = w /\ PassStep(p)

FairSpec ==
  /\ Spec
  /\ \A w \in Workers : WF_vars(WorkerRuns(w))
  /\ \A t \in Tasks : SF_vars(\E w \in Workers : ClaimNext(w, t))

(* A Task gives its slot back: every round ends in waiting, pausing or     *)
(* settling, however its Storage calls turn out.                           *)
SlotsComeBack == \A t \in Tasks : HoldsSlot(t) ~> ~HoldsSlot(t)

(* While no Worker dies, a running Task whose slot is claimed has the pass *)
(* that will give it back: the kernel never claims a running Task again.   *)
NoAbandonedSlot ==
  \A t \in Tasks : queue[t] = "claimed" /\ status[t] = "running" =>
    \E p \in passes : p.task = t /\ Mine(p)

(* A claim that looks healthy is worked on: while no Worker dies, the      *)
(* slot of a running Task is without a pass only if its row tells why, by  *)
(* a lapsed lease, a control nobody answered or an effect boundary nobody  *)
(* closed.  Every other end of a pass gives the slot back                  *)
(* (_refusal_keeps_claim, _record_failure).                                *)
HealthyClaimIsWorked ==
  \A t \in Tasks :
    /\ queue[t] = "claimed" /\ status[t] = "running" /\ lease[t] = "live"
    /\ control[t] = "none" /\ marker[t] = {}
    => \E p \in passes : p.task = t /\ Mine(p)

=============================================================================
