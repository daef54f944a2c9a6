----------------------------- MODULE TaskEngine -----------------------------
(***************************************************************************)
(* The Processing Workers that advance organizing Tasks, and the operators *)
(* who control and decide them, over the transactions of TaskKernel        *)
(* (application/manual_task_engine.py, task_scheduling.py,                 *)
(* manual_organize_execution.py, task_runtime.py, media_organizer.py).     *)
(*                                                                         *)
(* A Worker runs one pass at a time.  Its program counter stops wherever   *)
(* the code reads a row it later acts on, so any other Worker, operator or *)
(* the clock may come between; a crash forgets the pass and keeps the rows.*)
(***************************************************************************)
EXTENDS TaskKernel

CONSTANTS
  RequestedControls, \* the controls operators ask for, a subset of {"pause", "cancel"}
  EffectOutcomes,    \* what a Storage call may prove, a subset of Effects
  LeasesLapse,       \* whether a lease may run out
  WritesFail,        \* whether a publication may fail in the database
  Crashes,           \* whether a Worker may die
  MaxGeneration,     \* bound: claims of one Task
  MaxRounds,         \* bound: generation up to which operators continue a Task
  MaxRevision,       \* bound: accepted controls of one Task
  MaxAttempts        \* bound: attempts after which no decision is saved

ASSUME EngineAssumption ==
  /\ RequestedControls \subseteq {"pause", "cancel"}
  /\ EffectOutcomes \subseteq Effects
  /\ {LeasesLapse, WritesFail, Crashes} \subseteq BOOLEAN
  /\ {MaxGeneration, MaxRounds, MaxRevision, MaxAttempts} \subseteq Nat

VARIABLES
  passes,    \* the running pass of each busy Worker
  execution, \* manual_executions.status of the Task's execution
  run,       \* manual_execution_items.status: is the source in it, and how far
  requests,  \* control requests between their two transactions
  touched    \* history: sources whose Storage call had, or may have had, an effect

engineOnly == <<passes, execution, run, requests, touched>>
vars == <<kernelVars, engineOnly>>

ExecutionStates == {"none", "admitted", "running", "ended"}
RunStates == {"out", "admitted", "running", "done"}
PassKinds == {"unread", "automatic", "scan", "continuation", "execution"}
PassSteps == {"control", "entering", "beginning", "choosing", "starting", "started",
              "mutating", "publishing", "republishing", "refused", "parked", "reprojecting",
              "raised", "retiring", "ending", "deferring", "completing", "yielding",
              "returning", "failing", "acknowledging", "pausing", "settling"}
Nothing == [s \in {} |-> "absent"]
SeenControls == [control : {"pause", "cancel"}, revision : Nat, closes : BOOLEAN]
Passes == [worker : Workers, task : Tasks, gen : Nat, pc : PassSteps, kind : PassKinds,
           todo : SUBSET Sources, source : SUBSET Sources, effect : Effects,
           seen : SUBSET SeenControls, to : ItemRows]
Requests == [task : Tasks, control : {"pause", "cancel"}, revision : Nat,
             rows : SUBSET [to : ItemRows, seen : [Sources -> Nat]]]

TypeOK ==
  /\ KernelTypeOK
  /\ passes \subseteq Passes
  /\ \A p, q \in passes : p.worker = q.worker => p = q
  /\ execution \in [Tasks -> ExecutionStates]
  /\ run \in [Tasks -> [Sources -> RunStates]]
  /\ requests \subseteq Requests
  /\ touched \in [Tasks -> SUBSET Sources]

Init ==
  /\ KernelInit
  /\ passes = {}
  /\ execution = [t \in Tasks |-> "none"]
  /\ run = [t \in Tasks |-> [s \in Sources |-> "out"]]
  /\ requests = {}
  /\ touched = [t \in Tasks |-> {}]

-----------------------------------------------------------------------------
(* Moving one pass along.                                                  *)

Become(p, q) == passes' = (passes \ {p}) \cup {q}
Goto(p, step) == Become(p, [p EXCEPT !.pc = step])
End(p) == passes' = passes \ {p}

Mine(p) == Owns(p.worker, p.gen, p.task)
MineLive(p) == OwnsLive(p.worker, p.gen, p.task)
Renew(p) == Heartbeat(p.worker, p.gen, p.task)

runVars == <<execution, run>>
onlyPasses == <<runVars, requests, touched>>
ReadOnly == UNCHANGED <<kernelVars, onlyPasses>>

OpenExecution(t) == execution[t] \in {"admitted", "running"}
Turned(rows, from, to) == [s \in Sources |-> IF rows[s] \in from THEN to ELSE rows[s]]
Differing(rows, after) == [s \in {x \in Sources : after[x] # rows[x]} |-> after[s]]
Present(rows) == [s \in {x \in Sources : rows[x] # "absent"} |-> rows[s]]

(* The execution row ends with its last unfinished item.                   *)
Publishes(t, s) ==
  LET after == [run[t] EXCEPT ![s] = "done"] IN
  /\ run' = [run EXCEPT ![t] = after]
  /\ execution' = [execution EXCEPT ![t] =
       IF \A x \in Sources : after[x] \in {"out", "done"} THEN "ended" ELSE @]

(* A terminal projection of the execution published by the release.        *)
ClosesExecution(t) ==
  /\ execution' = [execution EXCEPT ![t] = IF OpenExecution(t) THEN "ended" ELSE @]
  /\ run' = [run EXCEPT ![t] = [s \in Sources |-> IF @[s] = "out" THEN "out" ELSE "done"]]

-----------------------------------------------------------------------------
(* Entering the pass (run_next).                                           *)

ClaimNext(w, t) ==
  /\ \A p \in passes : p.worker # w
  /\ gen[t] < MaxGeneration
  /\ Claim(w, t)
  /\ passes' = passes \cup
       {[worker |-> w, task |-> t, gen |-> gen[t] + 1, pc |-> "control", kind |-> "unread",
         todo |-> {}, source |-> {}, effect |-> "none", seen |-> {}, to |-> Nothing]}
  /\ UNCHANGED onlyPasses

(* The claimed row and the latest execution select the branch.             *)
ReadState(p) ==
  /\ p.pc = "control"
  /\ Become(p, [p EXCEPT
       !.pc = IF control[p.task] = "none" THEN "entering" ELSE "acknowledging",
       !.kind = IF OpenExecution(p.task) THEN "execution" ELSE "automatic"])
  /\ ReadOnly

(* begin_work first refuses an accepted control; the refusal fails the Task.*)
EnterWork(p) ==
  /\ p.pc = "entering"
  /\ Goto(p, IF control[p.task] = "none" THEN "beginning" ELSE "failing")
  /\ ReadOnly

(* An admitted execution starts once; one an earlier pass began is yielded *)
(* again.  An automatic Task continues decided sources before it scans.    *)
BeginPass(p) ==
  LET t == p.task
      pending == {s \in Sources : item[t][s] = "pending"}
      into(step, kind, todo) == Become(p, [p EXCEPT !.pc = step, !.kind = kind, !.todo = todo])
  IN /\ p.pc = "beginning"
     /\ \/ /\ BeginWork(p.worker, p.gen, t)
           /\ \/ /\ p.kind = "execution" /\ execution[t] = "admitted"
                 /\ execution' = [execution EXCEPT ![t] = "running"]
                 /\ into("choosing", "execution", {s \in Sources : run[t][s] = "admitted"})
              \/ /\ p.kind = "execution" /\ execution[t] # "admitted"
                 /\ into("yielding", "execution", {})
                 /\ UNCHANGED execution
              \/ /\ p.kind = "automatic"
                 /\ IF pending # {}
                    THEN into("choosing", "continuation", pending)
                    ELSE into("choosing", "scan", {s \in Sources : item[t][s] = "absent"})
                 /\ UNCHANGED execution
        \/ /\ ~MineLive(p)
           /\ End(p)
           /\ UNCHANGED <<kernelVars, execution>>
     /\ UNCHANGED <<run, requests, touched>>

-----------------------------------------------------------------------------
(* The sources of the pass, one after the other.                           *)

(* The heartbeat before the next source, then the control it may meet.     *)
PickSource(p, s) ==
  /\ p.pc = "choosing"
  /\ s \in p.todo
  /\ Renew(p)
  /\ Become(p, [p EXCEPT !.todo = @ \ {s}, !.source = {s},
       !.pc = IF control[p.task] = "none" THEN "starting"
              ELSE IF p.kind = "execution" THEN "acknowledging" ELSE "raised"])
  /\ UNCHANGED onlyPasses

LastSource(p) ==
  /\ p.pc = "choosing"
  /\ p.todo = {}
  /\ Goto(p, "ending")
  /\ ReadOnly

(* A pass whose claim fence was refused: an execution first looks for the  *)
(* marker of its own attempt, the other kinds leave without a word.        *)
Lost(p) ==
  IF p.kind = "execution" /\ marker[p.task] # {} THEN Goto(p, "raised") ELSE End(p)

(* A scan answers a refused start with one more start of the same source.  *)
Start(p, s) ==
  /\ p.pc = "starting"
  /\ s \in p.source
  /\ \/ /\ StartItem(p.worker, p.gen, p.task, s)
        /\ Goto(p, "started")
     \/ /\ ~MineLive(p)
        /\ IF p.kind = "scan" THEN Goto(p, "refused") ELSE Lost(p)
        /\ UNCHANGED kernelVars
  /\ UNCHANGED onlyPasses

StartRefused(p, s) ==
  /\ p.pc = "refused"
  /\ s \in p.source
  /\ \/ /\ control[p.task] # "none"
        /\ Goto(p, "raised")
        /\ UNCHANGED kernelVars
     \/ /\ control[p.task] = "none"
        /\ StartItem(p.worker, p.gen, p.task, s)
        /\ Goto(p, "republishing")
     \/ /\ control[p.task] = "none"
        /\ ~MineLive(p)
        /\ End(p)
        /\ UNCHANGED kernelVars
  /\ UNCHANGED onlyPasses

(* Analysis ends in a plan the operator confirms (continuation only) ...   *)
Summarize(p, s) ==
  /\ p.pc = "started" /\ p.kind = "continuation"
  /\ s \in p.source
  /\ \/ /\ RecordItems(p.worker, p.gen, p.task, [x \in {s} |-> "confirm"])
        /\ Goto(p, "choosing")
     \/ /\ ~MineLive(p)
        /\ End(p)
        /\ UNCHANGED kernelVars
  /\ UNCHANGED onlyPasses

(* ... or in one of the four problems, opened without the claim fence ...  *)
Park(p, s) ==
  /\ p.pc = "started" /\ p.kind \in {"scan", "continuation"}
  /\ s \in p.source
  /\ ParkItem(p.task, s)
  /\ Goto(p, IF p.kind = "scan" THEN "choosing" ELSE "parked")
  /\ UNCHANGED onlyPasses

(* ... after which a continuation reads the row back.  When it no longer   *)
(* waits, the failure it publishes instead is refused: nothing processes.  *)
ReadBack(p, s) ==
  /\ p.pc = "parked"
  /\ s \in p.source
  /\ IF item[p.task][s] \in WaitingItems
     THEN Become(p, [p EXCEPT !.pc = "reprojecting", !.to = [x \in {s} |-> item[p.task][s]]])
     ELSE IF MineLive(p) THEN Goto(p, "raised") ELSE End(p)
  /\ ReadOnly

(* The waiting row it read is written again under the claim.               *)
Reproject(p) ==
  /\ p.pc = "reprojecting"
  /\ \/ /\ RecordItems(p.worker, p.gen, p.task, p.to)
        /\ Become(p, [p EXCEPT !.pc = "choosing", !.to = Nothing])
     \/ /\ \E s \in DOMAIN p.to : ~AcceptsProgress(p.task, s, p.to[s], attempts[p.task][s])
        /\ Become(p, [p EXCEPT !.pc = "raised", !.to = Nothing])
        /\ UNCHANGED kernelVars
     \/ /\ ~MineLive(p)
        /\ End(p)
        /\ UNCHANGED kernelVars
  /\ UNCHANGED onlyPasses

(* A source that fails before any effect publishes the effect "none".      *)
FailBeforeEffect(p) ==
  /\ p.pc = "started"
  /\ Become(p, [p EXCEPT !.pc = "publishing", !.effect = "none"])
  /\ ReadOnly

(* The durable boundary just before Storage.  A manual execution marks its *)
(* item running first; a scan turns a refusal into a failed Result.        *)
EnterMutation(p, s) ==
  LET t == p.task IN
  /\ p.pc = "started" /\ p.kind \in {"scan", "execution"}
  /\ s \in p.source
  /\ IF p.kind = "execution" THEN run' = [run EXCEPT ![t][s] = "running"] ELSE UNCHANGED run
  /\ \/ /\ BeginMutation(p.worker, p.gen, t, s)
        /\ Goto(p, "mutating")
     \/ /\ ~MineLive(p) \/ marker[t] # {}
        /\ IF p.kind = "scan" THEN Become(p, [p EXCEPT !.pc = "republishing", !.effect = "none"])
           ELSE IF MineLive(p) THEN Goto(p, "raised") ELSE Lost(p)
        /\ UNCHANGED kernelVars
  /\ UNCHANGED <<execution, requests, touched>>

(* Mutant: the proof of the executor is dropped on the way.                *)
CallStorageForgets(p, e) ==
  /\ p.pc = "mutating"
  /\ Become(p, [p EXCEPT !.pc = "publishing", !.effect = "none"])
  /\ touched' = [touched EXCEPT ![p.task] = IF e = "none" THEN @ ELSE @ \cup p.source]
  /\ UNCHANGED <<kernelVars, runVars, requests>>

(* OrganizerExecutor ran once and proved "none", "verified" or nothing.    *)
CallStorage(p, e) ==
  /\ p.pc = "mutating"
  /\ Become(p, [p EXCEPT !.pc = "publishing", !.effect = e])
  /\ touched' = [touched EXCEPT ![p.task] = IF e = "none" THEN @ ELSE @ \cup p.source]
  /\ UNCHANGED <<kernelVars, runVars, requests>>

Publish(p, s) ==
  LET t == p.task IN
  /\ p.pc \in {"publishing", "republishing"}
  /\ s \in p.source
  /\ PublishOutcome(p.worker, p.gen, t, s, IF p.pc = "publishing" THEN p.effect ELSE "none",
                    p.kind # "execution")
  /\ Become(p, [p EXCEPT !.pc = "choosing", !.effect = "none"])
  /\ IF p.kind = "execution" THEN Publishes(t, s) ELSE UNCHANGED runVars
  /\ UNCHANGED <<requests, touched>>

(* The publication raises.  The scan's handler publishes the source again, *)
(* as a failure with no execution at hand: its effect is then "none".      *)
PublishFails(p) ==
  /\ \/ /\ p.pc = "publishing"
        /\ \/ /\ WritesFail
              /\ Goto(p, IF p.kind = "scan" THEN "republishing" ELSE "raised")
           \/ /\ ~MineLive(p)
              /\ IF p.kind = "scan" THEN Goto(p, "republishing") ELSE Lost(p)
     \/ /\ p.pc = "republishing"
        /\ \/ WritesFail /\ Goto(p, "raised")
           \/ ~MineLive(p) /\ End(p)
  /\ ReadOnly

(* The scan renews its claim before each of those transactions.            *)
KeepAlive(p) ==
  /\ p.kind = "scan"
  /\ p.pc \in {"starting", "started", "refused", "publishing", "republishing"}
  /\ lease[p.task] = "lapsed"
  /\ Renew(p)
  /\ UNCHANGED engineOnly

-----------------------------------------------------------------------------
(* Ending the pass.                                                        *)

(* Mutant: a pass that raised outside an effect just returns.              *)
RaisedQuietly(p) ==
  /\ p.pc = "raised"
  /\ \/ /\ marker[p.task] # {}
        /\ Renew(p)
        /\ Goto(p, "retiring")
     \/ /\ marker[p.task] = {}
        /\ End(p)
        /\ UNCHANGED kernelVars
  /\ UNCHANGED onlyPasses

(* The pass raised: a marker means its attempt ended without an outcome.   *)
Raised(p) ==
  LET t == p.task IN
  /\ p.pc = "raised"
  /\ \/ /\ marker[t] # {}
        /\ Renew(p)
        /\ Goto(p, "retiring")
     \/ /\ marker[t] = {}
        /\ Goto(p, IF p.kind # "execution" /\ control[t] # "none"
                   THEN "acknowledging" ELSE "failing")
        /\ UNCHANGED kernelVars
  /\ UNCHANGED onlyPasses

(* A settlement captures the control and the rows it will write.           *)
Settled(rows, c) ==
  Differing(rows, IF c = "pause" THEN Turned(rows, Pausable, "paused")
                                 ELSE Turned(rows, Cancellable, "cancelled"))

Capture(p, rows, closes) ==
  LET c == control[p.task] IN
  Become(p, [p EXCEPT !.pc = "settling", !.to = Settled(rows, c),
    !.seen = {[control |-> c, revision |-> revision[p.task], closes |-> closes]}])

Records(p, after) ==
  RecordItems(p.worker, p.gen, p.task, Differing(item[p.task], after))

Completes(p, rows) == Become(p, [p EXCEPT !.pc = "completing", !.to = Present(rows)])

(* Where the rows of an ended automatic pass lead.                         *)
Outcome(p, rows) ==
  IF \E s \in Sources : rows[s] \in MachineItems
  THEN IF marker[p.task] # {} THEN End(p) ELSE Goto(p, "yielding")
  ELSE IF \E s \in Sources : rows[s] \in WaitingItems
  THEN Goto(p, "deferring")
  ELSE Completes(p, rows)

(* Mutant: the ended attempt is left to be tried again.                    *)
StoppedForRetry(t) ==
  [s \in Sources |-> IF s \in marker[t] /\ item[t][s] \in MachineItems
                     THEN "pending" ELSE item[t][s]]

(* The rows with the marked attempt closed as a technical stop.            *)
Stopped(t) ==
  [s \in Sources |-> IF s \in marker[t] /\ item[t][s] \in MachineItems
                     THEN "failed" ELSE item[t][s]]

(* A raised pass closes its marked attempt as a technical stop and ends as *)
(* its rows allow.  What it cannot end keeps the claim and the slot.       *)
Retire(p) ==
  LET t == p.task
      rows == Stopped(t)
      cancelled == Turned(rows, {"pending"}, "cancelled")
      confirms == Turned(rows, {"pending"}, "confirm")
      strands == \E s \in Sources \ marker[t] : run[t][s] = "running"
  IN /\ p.pc = "retiring"
     /\ \/ /\ p.kind # "execution" /\ control[t] # "none"
           /\ Goto(p, "acknowledging")
           /\ UNCHANGED kernelVars
        \/ /\ p.kind # "execution" /\ control[t] = "none"
           /\ Records(p, rows)
           /\ Outcome(p, rows)
        \/ /\ p.kind = "execution" /\ control[t] = "cancel"
           /\ Records(p, cancelled)
           /\ IF strands THEN End(p) ELSE Capture(p, cancelled, TRUE)
        \/ /\ p.kind = "execution"
           /\ control[t] = "pause" \/ (control[t] = "none" /\ strands)
           /\ Records(p, rows)
           /\ End(p)
        \/ /\ p.kind = "execution" /\ control[t] = "none" /\ ~strands
           /\ IF \E s \in Sources : confirms[s] \in WaitingItems
              THEN Records(p, confirms) /\ Goto(p, "deferring")
              ELSE Records(p, rows) /\ Completes(p, rows)
        \/ /\ ~MineLive(p)
           /\ End(p)
           /\ UNCHANGED kernelVars
     /\ UNCHANGED onlyPasses

(* _settle_automatic: heartbeat, control, rows.                            *)
EndAutomatic(p) ==
  LET t == p.task IN
  /\ p.pc = "ending" /\ p.kind # "execution"
  /\ Renew(p)
  /\ IF control[t] # "none" THEN Goto(p, "acknowledging") ELSE Outcome(p, item[t])
  /\ UNCHANGED onlyPasses

(* _finish_execution: whatever is left returns to human waiting.           *)
EndExecution(p) ==
  LET t == p.task
      rows == item[t]
      left == \E s \in Sources : rows[s] \notin SettledItems \cup {"absent"}
  IN /\ p.pc = "ending" /\ p.kind = "execution"
     /\ \/ /\ control[t] # "none"
           /\ Goto(p, "acknowledging")
           /\ UNCHANGED kernelVars
        \/ /\ control[t] = "none" /\ left
           /\ IF \E s \in Sources : rows[s] = "processing"
              THEN Goto(p, "yielding") /\ UNCHANGED kernelVars
              ELSE Records(p, Turned(rows, {"pending"}, "confirm")) /\ Goto(p, "deferring")
        \/ /\ control[t] = "none" /\ ~left
           /\ Completes(p, rows)
           /\ UNCHANGED kernelVars
        \/ /\ control[t] = "none" /\ ~MineLive(p)
           /\ End(p)
           /\ UNCHANGED kernelVars
     /\ UNCHANGED onlyPasses

(* Giving the slot back with the outcome of the pass.                      *)
Release(p) ==
  LET t == p.task
      st == IF p.pc = "completing" THEN "completed" ELSE "running"
      q == IF p.pc = "completing" THEN "settled" ELSE "waiting_human"
  IN /\ p.pc \in {"deferring", "completing"}
     /\ \/ /\ ReleaseClaim(p.worker, p.gen, t, st, p.to, q, {}, TRUE)
           /\ IF p.kind = "execution" THEN ClosesExecution(t) ELSE UNCHANGED runVars
           /\ End(p)
        \/ /\ ReleaseRefused(t, p.to, attempts[t], {}, TRUE)
           /\ IF marker[t] # {} \/ control[t] # "none" THEN End(p) ELSE Goto(p, "failing")
           /\ UNCHANGED <<kernelVars, runVars>>
        \/ /\ ~MineLive(p)
           /\ End(p)
           /\ UNCHANGED <<kernelVars, runVars>>
     /\ UNCHANGED <<requests, touched>>

(* _yield_until reads the control, then yields in another transaction.     *)
Yield(p) ==
  /\ p.pc = "yielding"
  /\ Goto(p, IF control[p.task] # "none" /\ marker[p.task] = {} THEN "pausing" ELSE "returning")
  /\ ReadOnly

Return(p) ==
  LET t == p.task IN
  /\ p.pc = "returning"
  /\ \/ /\ YieldClaim(p.worker, p.gen, t)
        /\ End(p)
     \/ /\ marker[t] # {} \/ control[t] # "none"
        /\ Goto(p, "failing")
        /\ UNCHANGED kernelVars
     \/ /\ ~MineLive(p)
        /\ End(p)
        /\ UNCHANGED kernelVars
  /\ UNCHANGED onlyPasses

(* _record_failure settles the Task as failed, or gives up silently.       *)
Fail(p) ==
  LET t == p.task
      to == Differing(item[t], Turned(item[t], MachineItems, "failed"))
  IN /\ p.pc = "failing"
     /\ \/ ReleaseClaim(p.worker, p.gen, t, "failed", to, "settled", {}, FALSE)
        \/ /\ ~MineLive(p) \/ ReleaseRefused(t, to, attempts[t], {}, FALSE)
           /\ UNCHANGED kernelVars
     /\ End(p)
     /\ UNCHANGED onlyPasses

(* _settle_pending_control: a marker keeps a pause waiting, an execution   *)
(* item still running keeps a cancel waiting.                              *)
Acknowledge(p) ==
  LET t == p.task IN
  /\ p.pc = "acknowledging"
  /\ \/ /\ control[t] = "none"
        /\ End(p)
     \/ /\ control[t] = "pause"
        /\ IF marker[t] # {} THEN End(p) ELSE Goto(p, "pausing")
     \/ /\ control[t] = "cancel"
        /\ IF OpenExecution(t) /\ \E s \in Sources : run[t][s] = "running"
           THEN End(p) ELSE Capture(p, item[t], TRUE)
  /\ ReadOnly

(* Mutant: the second read is trusted to find the request again.           *)
CapturePauseBlindly(p) ==
  /\ p.pc = "pausing"
  /\ Capture(p, item[p.task], FALSE)
  /\ ReadOnly

(* acknowledge_control reads the row again: it may have become a cancel.   *)
CapturePause(p) ==
  /\ p.pc = "pausing"
  /\ IF control[p.task] = "none" THEN Goto(p, "failing") ELSE Capture(p, item[p.task], FALSE)
  /\ ReadOnly

Settle(p, k) ==
  LET t == p.task IN
  /\ p.pc = "settling"
  /\ k \in p.seen
  /\ \/ /\ ReleaseClaim(p.worker, p.gen, t, SettledStatus(k.control), p.to,
                        SettledQueue(k.control), {k.revision}, k.closes)
        /\ IF k.closes THEN ClosesExecution(t) ELSE UNCHANGED runVars
        /\ End(p)
     \/ /\ ReleaseRefused(t, p.to, attempts[t], {k.revision}, k.closes)
        /\ IF k.closes THEN End(p) ELSE Goto(p, "failing")
        /\ UNCHANGED <<kernelVars, runVars>>
     \/ /\ ~MineLive(p)
        /\ End(p)
        /\ UNCHANGED <<kernelVars, runVars>>
  /\ UNCHANGED <<requests, touched>>

-----------------------------------------------------------------------------
(* The operators and the environment.                                      *)

AdmitTask(t) == Admit(t) /\ UNCHANGED engineOnly

(* request_scheduled_task_control, and request_control alike: the intent   *)
(* first; without an owner its settlement is a second transaction of the   *)
(* same call, over rows read in between.                                   *)
AskControl(t, c) ==
  /\ requests = {}
  /\ control[t] = c \/ revision[t] < MaxRevision
  /\ RequestControl(t, c)
  /\ requests' = IF holder[t] = {} /\ marker[t] = {} /\ queue[t] \in {"queued", "waiting_human", "paused"}
                 THEN {[task |-> t, control |-> c, revision |-> revision'[t], rows |-> {}]}
                 ELSE {}
  /\ UNCHANGED <<passes, runVars, touched>>

ReadUnowned(r) ==
  /\ r.rows = {}
  /\ requests' = {[r EXCEPT !.rows = {[to |-> Settled(item[r.task], r.control),
                                       seen |-> attempts[r.task]]}]}
  /\ UNCHANGED <<kernelVars, passes, runVars, touched>>

(* Mutant: the second transaction trusts the rows of the first.            *)
SettleUnguarded(r, k) ==
  /\ k \in r.rows
  /\ ReleaseWrites(r.task, SettledStatus(r.control), k.to, SettledQueue(r.control))
  /\ requests' = requests \ {r}
  /\ UNCHANGED <<passes, runVars, touched>>

SettleUnowned(r, k) ==
  LET t == r.task
      unowned == holder[t] = {} /\ ~ReleaseRefused(t, k.to, k.seen, {r.revision}, FALSE)
  IN /\ k \in r.rows
     /\ \/ ReleaseUnowned(t, SettledStatus(r.control), k.to, k.seen,
                          SettledQueue(r.control), {r.revision})
        \/ ~unowned /\ UNCHANGED kernelVars
     /\ requests' = requests \ {r}
     /\ UNCHANGED <<passes, runVars, touched>>

(* A saved decision re-queues the Task that has it.                        *)
Continue(t) ==
  /\ gen[t] < MaxRounds
  /\ \E s \in Sources : item[t][s] = "pending"
  /\ Requeue(t)
  /\ UNCHANGED engineOnly

(* Bound: a Task has one unfinished manual execution at a time.            *)
ConfirmSummary(t, S) ==
  /\ gen[t] < MaxRounds
  /\ ~OpenExecution(t)
  /\ S # {}
  /\ \A s \in S : item[t][s] = "confirm"
  /\ Confirm(t, S)
  /\ execution' = [execution EXCEPT ![t] = "admitted"]
  /\ run' = [run EXCEPT ![t] = [s \in Sources |-> IF s \in S THEN "admitted" ELSE "out"]]
  /\ UNCHANGED <<passes, requests, touched>>

ResumeTask(t) == gen[t] < MaxRounds /\ Resume(t) /\ UNCHANGED engineOnly

(* The review row is identified with the waiting status it gave the item.  *)
DecideReview(t, s) ==
  /\ attempts[t][s] < MaxAttempts
  /\ Decide(t, s)
  /\ UNCHANGED engineOnly

IgnoreSource(t, s) == Ignore(t, s) /\ UNCHANGED engineOnly

Lapse(t) == LeasesLapse /\ LeaseLapses(t) /\ UNCHANGED engineOnly
Crash(p) == Crashes /\ End(p) /\ ReadOnly

-----------------------------------------------------------------------------

PassStep(p) ==
  \/ ReadState(p) \/ EnterWork(p) \/ BeginPass(p)
  \/ \E s \in Sources : PickSource(p, s) \/ Start(p, s) \/ StartRefused(p, s) \/ Summarize(p, s)
                        \/ Park(p, s) \/ ReadBack(p, s) \/ EnterMutation(p, s) \/ Publish(p, s)
  \/ \E e \in EffectOutcomes : CallStorage(p, e)
  \/ LastSource(p) \/ Reproject(p) \/ FailBeforeEffect(p) \/ PublishFails(p)
  \/ Raised(p) \/ Retire(p) \/ EndAutomatic(p) \/ EndExecution(p)
  \/ Release(p) \/ Yield(p) \/ Return(p) \/ Fail(p)
  \/ Acknowledge(p) \/ CapturePause(p) \/ \E k \in p.seen : Settle(p, k)

Operators(t) ==
  \/ AdmitTask(t)
  \/ \E c \in RequestedControls : AskControl(t, c)
  \/ \E S \in SUBSET Sources : ConfirmSummary(t, S)
  \/ Continue(t) \/ ResumeTask(t)
  \/ \E s \in Sources : DecideReview(t, s) \/ IgnoreSource(t, s)

Next ==
  \/ \E w \in Workers, t \in Tasks : ClaimNext(w, t)
  \/ \E p \in passes : PassStep(p) \/ KeepAlive(p) \/ Crash(p)
  \/ \E t \in Tasks : Operators(t) \/ Lapse(t)
  \/ \E r \in requests : ReadUnowned(r) \/ \E k \in r.rows : SettleUnowned(r, k)

Spec == Init /\ [][Next]_vars

=============================================================================
