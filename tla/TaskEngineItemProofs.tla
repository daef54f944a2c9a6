------------------------ MODULE TaskEngineItemProofs ------------------------
(***************************************************************************)
(* What becomes of the sources of a Task, for every number of Tasks,       *)
(* Workers and Sources and every bound: no effect is repeated or           *)
(* forgotten (EffectInv), no Result denies one (HonestInv, while leases    *)
(* and writes hold), and no Task completes with a source left open         *)
(* (ScopeInv, while nobody pauses and writes hold).  From the first of     *)
(* these, that each Task implements the effect ledger (TasksKeepLedger),   *)
(* and that no pass abandons a healthy claim (ShownInv, while none dies).  *)
(***************************************************************************)
EXTENDS TaskEngineProofs

-----------------------------------------------------------------------------
(* Effects.  What Storage did to a source is kept by its row alone: until  *)
(* the first call for it the source has no Result, and afterwards its row  *)
(* is the marked attempt or the ended outcome.  A pass only starts sources *)
(* of the first kind, whichever list it took them from.                    *)

Ended == {"success", "failed"}
Fresh(t, s) == s \notin touched[t] /\ effects[t][s] = {}

(* The steps from picking a source to the call of Storage.                 *)
UntriedSteps == {"starting", "refused", "started", "parked", "reprojecting", "mutating"}
SourceSteps  == UntriedSteps \cup {"publishing", "republishing"}

RowAccounts(t, s) ==
  /\ s \in touched[t] => \/ item[t][s] \in Ended
                         \/ item[t][s] = "processing" /\ marker[t] = {s}
  /\ item[t][s] \notin Ended => effects[t][s] = {}

RunAccounts(t, s) ==
  run[t][s] = "admitted" => Fresh(t, s) /\ OpenExecution(t)

TaskAccounts(t) == \A s \in Sources : RowAccounts(t, s) /\ RunAccounts(t, s)

(* A pass of another kind than an execution has no open one beside it.     *)
KindFits(p) ==
  /\ p.kind = "unread" => p.pc = "control"
  /\ Mine(p) /\ p.kind \notin {"unread", "execution"} => ~OpenExecution(p.task)

Marks(p, s) ==
  /\ p.source = {s} /\ marker[p.task] = {s}
  /\ item[p.task][s] = "processing" /\ run[p.task][s] # "admitted"

PicksFresh(p) ==
  /\ p.pc \in WorkingSteps => \A s \in p.todo : Fresh(p.task, s)
  /\ p.pc \in SourceSteps => p.todo \cap p.source = {}
  /\ p.pc \in UntriedSteps => \E s \in Sources : p.source = {s} /\ Fresh(p.task, s)
  /\ p.pc = "reprojecting" => DOMAIN p.to \subseteq p.source
  /\ p.pc = "mutating" => \E s \in Sources : Marks(p, s)

PassAccounts(p) == p.gen <= gen[p.task] /\ KindFits(p) /\ PicksFresh(p)

EffectInv ==
  /\ TypeOK /\ OneOrganizer
  /\ \A p \in passes : PassAccounts(p)
  /\ \A t \in Tasks : TaskAccounts(t)

LEMMA EffectInvImplies == EffectInv => NeverRepeatsAnEffect /\ EffectIsAccounted
<1>1. EffectInv => NeverRepeatsAnEffect
  BY DEF EffectInv, PassAccounts, PicksFresh, UntriedSteps, Fresh, NeverRepeatsAnEffect
<1>2. EffectInv => EffectIsAccounted
  BY DEF EffectInv, TaskAccounts, RowAccounts, Ended, EffectIsAccounted, TypeOK
<1> QED
  BY <1>1, <1>2

(* A step that writes no Result and calls no Storage keeps the account of  *)
(* a row when it ends it, moves a fresh one, or leaves it and its mark.    *)
KeepsRow(t, s) ==
  /\ effects'[t][s] = effects[t][s]
  /\ s \in touched'[t] <=> s \in touched[t]
  /\ \/ item'[t][s] \in Ended
     \/ Fresh(t, s)
     \/ item'[t][s] = item[t][s] /\ (marker'[t] = marker[t] \/ item[t][s] # "processing")

LEMMA RowKept ==
  ASSUME NEW t, NEW s, RowAccounts(t, s), KeepsRow(t, s)
  PROVE  RowAccounts(t, s)'
  BY DEF RowAccounts, KeepsRow, Fresh, Ended

(* What a step leaves alone.                                               *)
SameRows(t) == UNCHANGED <<marker[t], item[t], effects[t], touched[t]>>
SameRuns(t) == UNCHANGED <<execution[t], run[t]>>
SameTask(t) == Untouched(t) /\ SameRows(t) /\ SameRuns(t)
GivesUp(t)  == queue'[t] # "claimed" \/ holder'[t] = {} \/ UNCHANGED <<queue[t], holder[t]>>

LEMMA TaskKept ==
  ASSUME NEW t, TaskAccounts(t), SameRows(t), SameRuns(t)
  PROVE  TaskAccounts(t)'
  BY DEF TaskAccounts, RowAccounts, RunAccounts, Fresh, OpenExecution, SameRows, SameRuns

LEMMA SamePassAccounts ==
  ASSUME NEW p, PassAccounts(p), SameTask(p.task)
  PROVE  PassAccounts(p)'
  BY DEF PassAccounts, KindFits, PicksFresh, Marks, Fresh, OpenExecution, Mine, Owns,
         SameTask, SameRows, SameRuns, Untouched

(* The passes beside the one that steps.                                   *)
LEMMA OthersAccount ==
  ASSUME EffectInv, NEW p \in passes, NEW q \in passes, q # p,
         \A u \in Tasks \ {p.task} : SameTask(u),
         gen'[p.task] = gen[p.task], GivesUp(p.task),
         Mine(p) \/ (SameRows(p.task) /\ SameRuns(p.task))
  PROVE  PassAccounts(q)'
<1>1. q.task \in Tasks /\ PassAccounts(q)
  BY PassFacts DEF EffectInv
<1>2. CASE q.task # p.task
  BY <1>1, <1>2, SamePassAccounts
<1>3. CASE q.task = p.task /\ Mine(p)
  <2>1. q.worker # p.worker
    BY DEF EffectInv, TypeOK
  <2>2. ~Mine(q)
    BY <1>3, <2>1 DEF Mine, Owns
  <2>3. q.pc \notin WorkingSteps
    BY <2>2 DEF EffectInv, OneOrganizer
  <2>4. ~Mine(q)'
    BY <1>3, <2>2 DEF Mine, Owns, GivesUp
  <2>5. (q.gen <= gen[q.task])'
    BY <1>1, <1>3 DEF PassAccounts
  <2> QED
    BY <1>1, <2>3, <2>4, <2>5 DEF PassAccounts, KindFits, PicksFresh, WorkingSteps, UntriedSteps, SourceSteps
<1>4. CASE q.task = p.task /\ SameRows(p.task) /\ SameRuns(p.task)
  <2>1. Mine(q)' => Mine(q)
    BY <1>4 DEF Mine, Owns, GivesUp
  <2> QED
    BY <1>1, <1>4, <2>1 DEF PassAccounts, KindFits, PicksFresh, Marks, Fresh, OpenExecution,
       SameRows, SameRuns
<1> QED
  BY <1>2, <1>3, <1>4

(* A step of pass p keeps the account of everything else.                  *)
Frame(p) ==
  /\ \A u \in Tasks \ {p.task} : SameTask(u)
  /\ gen'[p.task] = gen[p.task] /\ GivesUp(p.task)
  /\ Mine(p) \/ (SameRows(p.task) /\ SameRuns(p.task))

LEMMA PassStepAccounts ==
  ASSUME EffectInv, TypeOK', OneOrganizer', NEW p \in passes, Frame(p), TaskAccounts(p.task)',
         \/ passes' = passes \ {p}
         \/ passes' = passes /\ PassAccounts(p)'
         \/ \E q : passes' = (passes \ {p}) \cup {q} /\ PassAccounts(q)'
  PROVE  EffectInv'
<1>1. ASSUME NEW t \in Tasks
      PROVE  TaskAccounts(t)'
  <2>1. CASE t = p.task
    BY <2>1
  <2>2. CASE t # p.task
    BY <2>2, TaskKept DEF EffectInv, Frame, SameTask
  <2> QED
    BY <2>1, <2>2
<1>2. ASSUME NEW q \in passes, q # p
      PROVE  PassAccounts(q)'
  BY <1>2, OthersAccount DEF Frame
<1>3. \A q \in passes' : PassAccounts(q)'
  BY <1>2
<1> QED
  BY <1>1, <1>3 DEF EffectInv

(* Where the pass itself goes: out of its work, or on with the same        *)
(* sources and no new Result.                                              *)
NewResults(t) == UNCHANGED <<effects[t], touched[t]>>

LEMMA GoesOut ==
  ASSUME EffectInv, NEW p \in passes, NEW q, SamePass(p, q), q.kind = p.kind,
         p.pc # "control", q.pc \notin WorkingSteps \cup {"control"},
         gen'[p.task] = gen[p.task], GivesUp(p.task),
         execution'[p.task] = execution[p.task] \/ p.kind = "execution"
  PROVE  PassAccounts(q)'
<1>1. PassAccounts(p) /\ p.kind # "unread"
  BY DEF EffectInv, PassAccounts, KindFits
<1>2. Mine(q)' => Mine(p)
  BY DEF Mine, Owns, GivesUp, SamePass
<1>3. KindFits(q)'
  BY <1>1, <1>2 DEF PassAccounts, KindFits, OpenExecution, SamePass
<1>4. PicksFresh(q)'
  BY DEF PicksFresh, WorkingSteps, UntriedSteps, SourceSteps
<1>5. (q.gen <= gen[q.task])'
  BY <1>1 DEF PassAccounts, SamePass
<1> QED
  BY <1>3, <1>4, <1>5 DEF PassAccounts

LEMMA GoesOn ==
  ASSUME EffectInv, NEW p \in passes, NEW q, SamePass(p, q), q.kind = p.kind,
         q.todo = p.todo, q.source = p.source,
         p.pc \in WorkingSteps, q.pc \in WorkingSteps \ {"mutating", "reprojecting"},
         q.pc \in UntriedSteps => p.pc \in UntriedSteps,
         q.pc \in SourceSteps => p.pc \in SourceSteps,
         Untouched(p.task), NewResults(p.task),
         execution'[p.task] = execution[p.task] \/ p.kind = "execution"
  PROVE  PassAccounts(q)'
<1>1. PassAccounts(p) /\ p.kind # "unread"
  BY DEF EffectInv, PassAccounts, KindFits, WorkingSteps
<1>2. Mine(q)' => Mine(p)
  BY DEF Mine, Owns, Untouched, SamePass
<1>3. KindFits(q)'
  BY <1>1, <1>2 DEF PassAccounts, KindFits, OpenExecution, SamePass
<1>4. PicksFresh(q)'
  BY <1>1 DEF PassAccounts, PicksFresh, Fresh, NewResults, SamePass
<1>5. (q.gen <= gen[q.task])'
  BY <1>1 DEF PassAccounts, SamePass, Untouched
<1> QED
  BY <1>3, <1>4, <1>5 DEF PassAccounts

(* The same for the two ways the code moves a pass.                        *)
LEMMA GotoAccounts ==
  ASSUME EffectInv, NEW p \in passes, NEW step \in PassSteps \ {"control", "mutating", "reprojecting"},
         Goto(p, step), p.pc # "control",
         step \in WorkingSteps => p.pc \in WorkingSteps,
         step \in UntriedSteps => p.pc \in UntriedSteps,
         step \in SourceSteps => p.pc \in SourceSteps,
         Untouched(p.task), NewResults(p.task), execution'[p.task] = execution[p.task]
  PROVE  \E q : passes' = (passes \ {p}) \cup {q} /\ PassAccounts(q)'
<1> DEFINE q == [p EXCEPT !.pc = step]
<1>1. p \in Passes
  BY PassFacts DEF EffectInv
<1>2. /\ q.pc = step /\ q.kind = p.kind /\ q.todo = p.todo /\ q.source = p.source
      /\ SamePass(p, q)
  BY <1>1 DEF Passes, SamePass
<1>3. passes' = (passes \ {p}) \cup {q}
  BY DEF Goto, Become
<1>4. gen'[p.task] = gen[p.task] /\ GivesUp(p.task)
  BY DEF Untouched, GivesUp
<1> HIDE DEF q
<1>5. PassAccounts(q)'
  <2>1. CASE step \in WorkingSteps
    BY <1>2, <2>1, GoesOn
  <2>2. CASE step \notin WorkingSteps
    BY <1>2, <1>4, <2>2, GoesOut
  <2> QED
    BY <2>1, <2>2
<1> QED
  BY <1>3, <1>5

(* A step that only reads.                                                 *)
LEMMA ReadsFrame ==
  ASSUME TypeOK, NEW p \in passes, UNCHANGED kernelVars, UNCHANGED onlyPasses
  PROVE  /\ Frame(p) /\ Untouched(p.task) /\ NewResults(p.task)
         /\ execution'[p.task] = execution[p.task]
         /\ \A t : TaskAccounts(t) => TaskAccounts(t)'
<1>1. \A t : SameTask(t)
  BY DEF SameTask, SameRows, SameRuns, Untouched, kernelVars, onlyPasses, runVars
<1>2. Frame(p)
  BY <1>1 DEF Frame, SameTask, GivesUp, Untouched
<1> QED
  BY <1>1, <1>2, TaskKept DEF SameTask, SameRows, SameRuns, Untouched, NewResults

LEMMA ReadingAccounts ==
  ASSUME EffectInv, TypeOK', OneOrganizer', NEW p \in passes,
         UNCHANGED kernelVars, UNCHANGED onlyPasses,
         \/ End(p)
         \/ \E q : Become(p, q) /\ PassAccounts(q)'
         \/ \E step \in PassSteps \ {"control", "mutating", "reprojecting"} :
              /\ Goto(p, step) /\ p.pc # "control"
              /\ step \in WorkingSteps => p.pc \in WorkingSteps
              /\ step \in UntriedSteps => p.pc \in UntriedSteps
              /\ step \in SourceSteps => p.pc \in SourceSteps
  PROVE  EffectInv'
<1>1. p.task \in Tasks
  BY PassFacts DEF EffectInv
<1>2. Frame(p) /\ TaskAccounts(p.task)'
  BY <1>1, ReadsFrame DEF EffectInv
<1>3. CASE End(p)
  BY <1>2, <1>3, PassStepAccounts DEF End
<1>4. CASE \E q : Become(p, q) /\ PassAccounts(q)'
  BY <1>2, <1>4, PassStepAccounts DEF Become
<1>5. ASSUME NEW step \in PassSteps \ {"control", "mutating", "reprojecting"},
             Goto(p, step), p.pc # "control",
             step \in WorkingSteps => p.pc \in WorkingSteps,
             step \in UntriedSteps => p.pc \in UntriedSteps,
             step \in SourceSteps => p.pc \in SourceSteps
      PROVE  EffectInv'
  <2>1. \E q : passes' = (passes \ {p}) \cup {q} /\ PassAccounts(q)'
    BY <1>5, GotoAccounts, ReadsFrame DEF EffectInv
  <2> QED
    BY <1>2, <2>1, PassStepAccounts
<1> QED
  BY <1>3, <1>4, <1>5

(* The capture of a settlement and of an outcome leads out or on.          *)
LEMMA CaptureAccounts ==
  ASSUME EffectInv, NEW p \in passes, NEW rows, NEW closes, Capture(p, rows, closes),
         p.pc # "control", Untouched(p.task), execution'[p.task] = execution[p.task]
  PROVE  \E q : passes' = (passes \ {p}) \cup {q} /\ PassAccounts(q)'
<1> DEFINE c == control[p.task]
           seen == {[control |-> c, revision |-> revision[p.task], closes |-> closes]}
           q == [p EXCEPT !.pc = "settling", !.to = Settled(rows, c), !.seen = seen]
<1>1. p \in Passes
  BY PassFacts DEF EffectInv
<1>2. q.pc = "settling" /\ q.kind = p.kind /\ SamePass(p, q)
  BY <1>1 DEF Passes, SamePass
<1>3. passes' = (passes \ {p}) \cup {q}
  BY DEF Capture, Become
<1>4. gen'[p.task] = gen[p.task] /\ GivesUp(p.task)
  BY DEF Untouched, GivesUp
<1> HIDE DEF q
<1> QED
  BY <1>2, <1>3, <1>4, GoesOut DEF WorkingSteps

LEMMA CompletesAccounts ==
  ASSUME EffectInv, NEW p \in passes, NEW rows, Completes(p, rows), p.pc \in WorkingSteps,
         Untouched(p.task), NewResults(p.task), execution'[p.task] = execution[p.task]
  PROVE  \E q : passes' = (passes \ {p}) \cup {q} /\ PassAccounts(q)'
<1> DEFINE q == [p EXCEPT !.pc = "completing", !.to = Present(rows)]
<1>1. p \in Passes
  BY PassFacts DEF EffectInv
<1>2. /\ q.pc = "completing" /\ q.kind = p.kind /\ q.todo = p.todo /\ q.source = p.source
      /\ SamePass(p, q)
  BY <1>1 DEF Passes, SamePass
<1>3. passes' = (passes \ {p}) \cup {q}
  BY DEF Completes, Become
<1> HIDE DEF q
<1> QED
  BY <1>2, <1>3, GoesOn DEF WorkingSteps, UntriedSteps, SourceSteps

LEMMA OutcomeAccounts ==
  ASSUME EffectInv, NEW p \in passes, NEW rows, Outcome(p, rows), p.pc \in WorkingSteps,
         Untouched(p.task), NewResults(p.task), execution'[p.task] = execution[p.task]
  PROVE  \/ End(p)
         \/ \E q : passes' = (passes \ {p}) \cup {q} /\ PassAccounts(q)'
<1>1. p.pc # "control"
  BY DEF WorkingSteps
<1>2. \/ End(p) \/ Goto(p, "yielding") \/ Goto(p, "deferring") \/ Completes(p, rows)
  BY DEF Outcome
<1>3. ASSUME NEW step \in {"yielding", "deferring"}, Goto(p, step)
      PROVE  \E q : passes' = (passes \ {p}) \cup {q} /\ PassAccounts(q)'
  BY <1>1, <1>3, GotoAccounts DEF PassSteps, WorkingSteps, UntriedSteps, SourceSteps
<1> QED
  BY <1>2, <1>3, CompletesAccounts

-----------------------------------------------------------------------------
(* The steps that write no row.                                            *)

LEMMA ReadStateAccounts ==
  ASSUME EffectInv, TypeOK', OneOrganizer', NEW p \in passes, ReadState(p)
  PROVE  EffectInv'
<1>1. p \in Passes /\ PassAccounts(p)
  BY PassFacts DEF EffectInv
<1>2. PICK q : q = [p EXCEPT
         !.pc = IF control[p.task] = "none" THEN "entering" ELSE "acknowledging",
         !.kind = IF OpenExecution(p.task) THEN "execution" ELSE "automatic"]
  OBVIOUS
<1>3. /\ q.pc \in {"entering", "acknowledging"} /\ SamePass(p, q)
      /\ q.kind \in {"execution", "automatic"} /\ (q.kind = "automatic" => ~OpenExecution(p.task))
  BY <1>1, <1>2 DEF Passes, SamePass
<1>4. Become(p, q) /\ UNCHANGED kernelVars /\ UNCHANGED onlyPasses
  BY <1>2 DEF ReadState, ReadOnly
<1>5. KindFits(q)'
  BY <1>3, <1>4 DEF KindFits, OpenExecution, SamePass, onlyPasses, runVars
<1>6. PicksFresh(q)'
  BY <1>3 DEF PicksFresh, WorkingSteps, UntriedSteps, SourceSteps
<1>7. (q.gen <= gen[q.task])'
  BY <1>1, <1>3, <1>4 DEF PassAccounts, SamePass, kernelVars
<1>8. PassAccounts(q)'
  BY <1>5, <1>6, <1>7 DEF PassAccounts
<1> QED
  BY <1>4, <1>8, ReadingAccounts

LEMMA ReadBackAccounts ==
  ASSUME EffectInv, TypeOK', OneOrganizer', NEW p \in passes, NEW s \in Sources, ReadBack(p, s)
  PROVE  EffectInv'
<1>1. p \in Passes /\ PassAccounts(p)
  BY PassFacts DEF EffectInv
<1>2. PICK q : q = [p EXCEPT !.pc = "reprojecting", !.to = [x \in {s} |-> item[p.task][s]]]
  OBVIOUS
<1>3. /\ q.pc = "reprojecting" /\ q.kind = p.kind /\ q.todo = p.todo /\ q.source = p.source
      /\ DOMAIN q.to = {s} /\ SamePass(p, q)
  BY <1>1, <1>2 DEF Passes, SamePass
<1>4. UNCHANGED kernelVars /\ UNCHANGED onlyPasses /\ p.pc = "parked" /\ s \in p.source
  BY DEF ReadBack, ReadOnly
<1>5. Become(p, q) \/ Goto(p, "raised") \/ End(p)
  BY <1>2 DEF ReadBack
<1>6. ASSUME Become(p, q)
      PROVE  EffectInv'
  <2>1. SameTask(p.task)
    BY <1>4 DEF SameTask, SameRows, SameRuns, Untouched, kernelVars, onlyPasses, runVars
  <2>2. KindFits(q)'
    BY <1>1, <1>3, <1>4, <2>1 DEF PassAccounts, KindFits, OpenExecution, SamePass, Mine, Owns,
       SameTask, SameRuns, Untouched
  <2>3. PicksFresh(q)'
    BY <1>1, <1>3, <1>4, <2>1 DEF PassAccounts, PicksFresh, Fresh, SamePass, WorkingSteps,
       UntriedSteps, SourceSteps, SameTask, SameRows
  <2>4. PassAccounts(q)'
    BY <1>1, <1>3, <2>1, <2>2, <2>3 DEF PassAccounts, SamePass, SameTask, Untouched
  <2> QED
    BY <1>4, <1>6, <2>4, ReadingAccounts
<1> QED
  BY <1>4, <1>5, <1>6, ReadingAccounts DEF PassSteps, WorkingSteps, UntriedSteps, SourceSteps

LEMMA FailBeforeEffectAccounts ==
  ASSUME EffectInv, TypeOK', OneOrganizer', NEW p \in passes, FailBeforeEffect(p)
  PROVE  EffectInv'
<1> DEFINE q == [p EXCEPT !.pc = "publishing", !.effect = "none"]
<1>1. p \in Passes
  BY PassFacts DEF EffectInv
<1>2. /\ q.pc = "publishing" /\ q.kind = p.kind /\ q.todo = p.todo /\ q.source = p.source
      /\ SamePass(p, q)
  BY <1>1 DEF Passes, SamePass
<1>3. Become(p, q) /\ UNCHANGED kernelVars /\ UNCHANGED onlyPasses /\ p.pc = "started"
  BY DEF FailBeforeEffect, ReadOnly
<1> HIDE DEF q
<1>4. Untouched(p.task) /\ NewResults(p.task) /\ execution'[p.task] = execution[p.task]
  BY <1>3, ReadsFrame DEF EffectInv
<1>5. PassAccounts(q)'
  BY <1>2, <1>3, <1>4, GoesOn DEF WorkingSteps, UntriedSteps, SourceSteps
<1> QED
  BY <1>3, <1>5, ReadingAccounts

LEMMA QuietReadsAccount ==
  ASSUME EffectInv, TypeOK', OneOrganizer', NEW p \in passes,
         \/ EnterWork(p) \/ LastSource(p) \/ PublishFails(p) \/ Crash(p)
         \/ Yield(p) \/ Acknowledge(p) \/ CapturePause(p)
  PROVE  EffectInv'
<1>1. UNCHANGED kernelVars /\ UNCHANGED onlyPasses
  BY DEF EnterWork, LastSource, PublishFails, Crash, Yield, Acknowledge, CapturePause, ReadOnly
<1> USE DEF PassSteps, WorkingSteps, UntriedSteps, SourceSteps
<1>2. CASE EnterWork(p) \/ LastSource(p)
  <2>1. \/ p.pc = "entering" /\ \E step \in {"beginning", "failing"} : Goto(p, step)
        \/ p.pc = "choosing" /\ Goto(p, "ending")
    BY <1>2 DEF EnterWork, LastSource
  <2> QED
    BY <1>1, <2>1, ReadingAccounts
<1>3. CASE PublishFails(p)
  <2>1. p.pc \in {"publishing", "republishing"}
        /\ (End(p) \/ \E step \in {"republishing", "raised"} : Goto(p, step))
    BY <1>3 DEF PublishFails, Lost
  <2> QED
    BY <1>1, <2>1, ReadingAccounts
<1>4. CASE Crash(p)
  BY <1>1, <1>4, ReadingAccounts DEF Crash
<1>5. CASE Yield(p) \/ Acknowledge(p) \/ CapturePause(p)
  <2>1. /\ p.pc \in {"yielding", "acknowledging", "pausing"}
        /\ \/ End(p) \/ \E step \in {"pausing", "returning", "failing"} : Goto(p, step)
           \/ \E closes \in BOOLEAN : Capture(p, item[p.task], closes)
    BY <1>5 DEF Yield, Acknowledge, CapturePause
  <2>2. ASSUME NEW closes \in BOOLEAN, Capture(p, item[p.task], closes)
        PROVE  EffectInv'
    <3>1. \E q : passes' = (passes \ {p}) \cup {q} /\ PassAccounts(q)'
      BY <1>1, <2>1, <2>2, CaptureAccounts, ReadsFrame DEF EffectInv
    <3> QED
      BY <1>1, <3>1, ReadingAccounts DEF Become
  <2> QED
    BY <1>1, <2>1, <2>2, ReadingAccounts
<1> QED
  BY <1>2, <1>3, <1>4, <1>5

-----------------------------------------------------------------------------
(* The transactions write the rows of one Task.                            *)

KernelFrame(t) ==
  /\ \A u \in Tasks \ {t} : Untouched(u) /\ UNCHANGED <<marker[u], item[u], effects[u]>>
  /\ gen'[t] = gen[t] /\ GivesUp(t)

LEMMA RowCallsFrame ==
  ASSUME TypeOK, NEW t \in Tasks, NEW w, NEW g, NEW to, NEW s, NEW effect, NEW keyed,
         \/ RecordItems(w, g, t, to) \/ StartItem(w, g, t, s) \/ ParkItem(t, s)
         \/ BeginMutation(w, g, t, s) \/ PublishOutcome(w, g, t, s, effect, keyed)
  PROVE  KernelFrame(t)
<1> USE DEF TypeOK, KernelTypeOK, KernelFrame, Untouched, GivesUp,
             claimVars, itemVars, resultVars
<1>1. CASE RecordItems(w, g, t, to) \/ ParkItem(t, s)
  BY <1>1 DEF RecordItems, ParkItem
<1>2. CASE StartItem(w, g, t, s) \/ BeginMutation(w, g, t, s)
  BY <1>2 DEF StartItem, BeginMutation
<1>3. CASE PublishOutcome(w, g, t, s, effect, keyed)
  BY <1>3 DEF PublishOutcome
<1> QED
  BY <1>1, <1>2, <1>3

LEMMA ClaimCallsFrame ==
  ASSUME TypeOK, NEW t \in Tasks, NEW w, NEW g,
         NEW st, NEW to, NEW q, NEW expected, NEW close,
         \/ Heartbeat(w, g, t) \/ BeginWork(w, g, t) \/ YieldClaim(w, g, t)
         \/ ReleaseClaim(w, g, t, st, to, q, expected, close)
  PROVE  /\ \A u \in Tasks \ {t} : UNCHANGED <<queue[u], gen[u], holder[u], marker[u], item[u], effects[u]>>
         /\ gen'[t] = gen[t] /\ GivesUp(t)
<1> USE DEF TypeOK, KernelTypeOK, GivesUp, claimVars, itemVars, resultVars
<1>1. CASE Heartbeat(w, g, t) \/ BeginWork(w, g, t) \/ YieldClaim(w, g, t)
  BY <1>1 DEF Heartbeat, BeginWork, YieldClaim
<1>2. CASE ReleaseClaim(w, g, t, st, to, q, expected, close)
  BY <1>2 DEF ReleaseClaim, ReleaseWrites
<1> QED
  BY <1>1, <1>2

(* ... and keep the account of each row they write.                        *)
LEMMA RowIsFresh ==
  ASSUME NEW t, NEW s, RowAccounts(t, s), s \notin touched[t], item[t][s] \notin Ended
  PROVE  Fresh(t, s)
  BY DEF RowAccounts, Fresh

LEMMA RecordsKeepRows ==
  ASSUME EffectInv, NEW t \in Tasks, NEW w, NEW g, NEW to, RecordItems(w, g, t, to),
         UNCHANGED touched,
         \A s \in Sources : s \in DOMAIN to /\ s \in touched[t] /\ item[t][s] = "processing" =>
                              to[s] \in Ended
  PROVE  \A s \in Sources : KeepsRow(t, s)
<1> SUFFICES ASSUME NEW s \in Sources PROVE KeepsRow(t, s)
  OBVIOUS
<1>1. RowAccounts(t, s)
  BY DEF EffectInv, TaskAccounts
<1>2. item'[t][s] = (IF s \in DOMAIN to THEN to[s] ELSE item[t][s])
  BY DEF RecordItems, Overlay, EffectInv, TypeOK, KernelTypeOK
<1>3. UNCHANGED <<effects, marker>>
  BY DEF RecordItems, resultVars
<1>4. s \in DOMAIN to /\ item[t][s] \in Ended => to[s] = item[t][s]
  BY DEF RecordItems, AcceptsProgress, HasRecordedOutcome, SettledItems, Ended
<1>5. item[t][s] \in Ended \/ Fresh(t, s) \/ (s \in touched[t] /\ item[t][s] = "processing")
  BY <1>1, RowIsFresh DEF RowAccounts
<1> QED
  BY <1>2, <1>3, <1>4, <1>5 DEF KeepsRow

LEMMA ReleaseKeepsRows ==
  ASSUME EffectInv, NEW t \in Tasks, NEW st, NEW to, NEW q, NEW seen, NEW expected, NEW close,
         ReleaseWrites(t, st, to, q), ~ReleaseRefused(t, to, seen, expected, close),
         UNCHANGED touched
  PROVE  \A s \in Sources : KeepsRow(t, s)
<1> SUFFICES ASSUME NEW s \in Sources PROVE KeepsRow(t, s)
  OBVIOUS
<1>1. RowAccounts(t, s)
  BY DEF EffectInv, TaskAccounts
<1>2. item'[t][s] = (IF s \in DOMAIN to THEN to[s] ELSE item[t][s])
  BY DEF ReleaseWrites, Overlay, EffectInv, TypeOK, KernelTypeOK
<1>3. UNCHANGED effects
  BY DEF ReleaseWrites, resultVars
<1>4. s \in DOMAIN to /\ item[t][s] \in Ended => to[s] = item[t][s]
  BY DEF ReleaseRefused, AcceptsProgress, HasRecordedOutcome, SettledItems, Ended
<1>5. ~(s \in touched[t] /\ item[t][s] = "processing")
  <2>1. marker[t] # {} => MachineSources(t) = {}
    BY DEF ReleaseRefused, MarkerIsHistory
  <2> QED
    BY <1>1, <2>1 DEF MachineSources, MachineItems, RowAccounts, Ended
<1>6. item[t][s] \in Ended \/ Fresh(t, s)
  BY <1>1, <1>5, RowIsFresh DEF RowAccounts
<1> QED
  BY <1>2, <1>3, <1>4, <1>6 DEF KeepsRow

LEMMA StartKeepsRows ==
  ASSUME EffectInv, NEW t \in Tasks, NEW w, NEW g, NEW x \in Sources, StartItem(w, g, t, x),
         Fresh(t, x), UNCHANGED touched
  PROVE  \A s \in Sources : KeepsRow(t, s)
  BY DEF StartItem, KeepsRow, resultVars, EffectInv, TypeOK, KernelTypeOK

LEMMA ParkKeepsRows ==
  ASSUME EffectInv, NEW t \in Tasks, NEW x \in Sources, ParkItem(t, x),
         Fresh(t, x), UNCHANGED touched
  PROVE  \A s \in Sources : KeepsRow(t, s)
  BY DEF ParkItem, KeepsRow, resultVars, EffectInv, TypeOK, KernelTypeOK

LEMMA MutationKeepsRows ==
  ASSUME EffectInv, NEW t \in Tasks, NEW w, NEW g, NEW x \in Sources, BeginMutation(w, g, t, x),
         UNCHANGED touched
  PROVE  \A s \in Sources : KeepsRow(t, s)
<1> SUFFICES ASSUME NEW s \in Sources PROVE KeepsRow(t, s)
  OBVIOUS
<1>1. RowAccounts(t, s)
  BY DEF EffectInv, TaskAccounts
<1>2. marker[t] = {} /\ UNCHANGED <<item, effects>>
  BY DEF BeginMutation, itemVars, resultVars
<1>3. item[t][s] \in Ended \/ Fresh(t, s)
  BY <1>1, <1>2, RowIsFresh DEF RowAccounts
<1> QED
  BY <1>2, <1>3 DEF KeepsRow

(* A step that writes rows under the claim and keeps each of them.         *)
MovesOn(p) ==
  \/ End(p)
  \/ \E q : passes' = (passes \ {p}) \cup {q} /\ PassAccounts(q)'
  \/ passes' = passes /\ PassAccounts(p)'

LEMMA WritingAccounts ==
  ASSUME EffectInv, TypeOK', OneOrganizer', NEW p \in passes, Mine(p),
         KernelFrame(p.task), \A s \in Sources : KeepsRow(p.task, s),
         UNCHANGED onlyPasses, MovesOn(p)
  PROVE  EffectInv'
<1> DEFINE t == p.task
<1>1. t \in Tasks /\ TaskAccounts(t)
  BY PassFacts DEF EffectInv
<1>2. TaskAccounts(t)'
  <2> SUFFICES ASSUME NEW s \in Sources PROVE RowAccounts(t, s)' /\ RunAccounts(t, s)'
    BY DEF TaskAccounts
  <2>1. RowAccounts(t, s)'
    BY <1>1, RowKept DEF TaskAccounts
  <2>2. RunAccounts(t, s)'
    BY <1>1 DEF TaskAccounts, RunAccounts, KeepsRow, Fresh, OpenExecution, onlyPasses, runVars
  <2> QED
    BY <2>1, <2>2
<1>3. Frame(p)
  BY DEF Frame, KernelFrame, SameTask, SameRows, SameRuns, onlyPasses, runVars
<1> QED
  BY <1>1, <1>2, <1>3, PassStepAccounts DEF MovesOn, End

(* A step that moves the claim alone.                                      *)
LEMMA ClaimingAccounts ==
  ASSUME EffectInv, TypeOK', OneOrganizer', NEW p \in passes,
         NEW w, NEW g, Heartbeat(w, g, p.task) \/ YieldClaim(w, g, p.task) \/ UNCHANGED kernelVars,
         UNCHANGED onlyPasses, MovesOn(p)
  PROVE  EffectInv'
<1> DEFINE t == p.task
<1>1. t \in Tasks /\ TaskAccounts(t)
  BY PassFacts DEF EffectInv
<1>2. SameRows(t) /\ SameRuns(t)
  BY DEF SameRows, SameRuns, Heartbeat, YieldClaim, kernelVars, itemVars, resultVars, onlyPasses, runVars
<1>3. TaskAccounts(t)'
  BY <1>1, <1>2, TaskKept
<1>4. Frame(p)
  <2>1. CASE UNCHANGED kernelVars
    BY <2>1, ReadsFrame DEF EffectInv
  <2>2. CASE Heartbeat(w, g, t) \/ YieldClaim(w, g, t)
    <3>1. \A u \in Tasks \ {t} : status'[u] = status[u]
      BY <1>1, <2>2 DEF Heartbeat, YieldClaim, EffectInv, TypeOK, KernelTypeOK
    <3>2. /\ \A u \in Tasks \ {t} : UNCHANGED <<queue[u], gen[u], holder[u], marker[u], item[u], effects[u]>>
          /\ gen'[t] = gen[t] /\ GivesUp(t)
      BY <1>1, <2>2, ClaimCallsFrame DEF EffectInv
    <3> QED
      BY <1>2, <3>1, <3>2 DEF Frame, SameTask, SameRows, SameRuns, Untouched, onlyPasses, runVars
  <2> QED
    BY <2>1, <2>2
<1> QED
  BY <1>1, <1>3, <1>4, PassStepAccounts DEF MovesOn, End

-----------------------------------------------------------------------------
(* Entering and picking.                                                   *)

LEMMA WorkingFacts ==
  ASSUME EffectInv, NEW p \in passes, p.pc \in WorkingSteps
  PROVE  /\ p \in Passes /\ p.task \in Tasks /\ Mine(p) /\ status[p.task] = "running"
         /\ PassAccounts(p) /\ TaskAccounts(p.task) /\ p.kind # "unread"
         /\ p.kind # "execution" => ~OpenExecution(p.task)
<1>1. p \in Passes /\ p.task \in Tasks /\ PassAccounts(p) /\ TaskAccounts(p.task)
  BY PassFacts DEF EffectInv
<1>2. Mine(p) /\ status[p.task] = "running"
  BY DEF EffectInv, OneOrganizer
<1>3. p.kind # "unread"
  BY <1>1 DEF PassAccounts, KindFits, WorkingSteps
<1> QED
  BY <1>1, <1>2, <1>3 DEF PassAccounts, KindFits

LEMMA BeginPassAccounts ==
  ASSUME EffectInv, TypeOK', OneOrganizer', NEW p \in passes, BeginPass(p)
  PROVE  EffectInv'
<1> DEFINE t == p.task
           pending == {s \in Sources : item[t][s] = "pending"}
           into(step, kind, todo) == [p EXCEPT !.pc = step, !.kind = kind, !.todo = todo]
<1>1. p \in Passes /\ t \in Tasks /\ PassAccounts(p) /\ TaskAccounts(t)
  BY PassFacts DEF EffectInv
<1>2. CASE End(p) /\ UNCHANGED <<kernelVars, execution>>
  <2>1. UNCHANGED kernelVars /\ UNCHANGED onlyPasses
    BY <1>2 DEF BeginPass, onlyPasses, runVars
  <2> QED
    BY <1>2, <2>1, ReadingAccounts
<1>3. CASE BeginWork(p.worker, p.gen, t)
  <2>1. Mine(p) /\ MineLive(p)
    BY <1>3 DEF BeginWork, OwnsLive, Owns, Mine, MineLive
  <2>2. SameRows(t) /\ UNCHANGED <<queue, gen, holder, run, touched, effects, marker, item>>
    BY <1>3 DEF BeginPass, BeginWork, claimVars, itemVars, resultVars, SameRows
  <2>3. \/ /\ p.kind = "execution" /\ execution[t] = "admitted"
           /\ execution' = [execution EXCEPT ![t] = "running"]
           /\ Become(p, into("choosing", "execution", {s \in Sources : run[t][s] = "admitted"}))
        \/ /\ p.kind = "execution" /\ UNCHANGED execution
           /\ Become(p, into("yielding", "execution", {}))
        \/ /\ p.kind = "automatic" /\ UNCHANGED execution
           /\ Become(p, into("choosing", "continuation", pending))
        \/ /\ p.kind = "automatic" /\ UNCHANGED execution
           /\ Become(p, into("choosing", "scan", {s \in Sources : item[t][s] = "absent"}))
    BY <2>1 DEF BeginPass
  <2>4. \A s \in Sources : item[t][s] \notin Ended \cup {"processing"} => Fresh(t, s)
    BY <1>1 DEF TaskAccounts, RowAccounts, Fresh
  <2>5. \A s \in Sources : run[t][s] = "admitted" => Fresh(t, s)
    BY <1>1 DEF TaskAccounts, RunAccounts
  <2>6. Frame(p)
    <3>1. \A u \in Tasks \ {t} : execution'[u] = execution[u] /\ status'[u] = status[u]
      BY <1>1, <1>3, <2>3 DEF BeginWork, EffectInv, TypeOK, KernelTypeOK
    <3> QED
      BY <2>1, <2>2, <3>1 DEF Frame, SameTask, SameRows, SameRuns, Untouched, GivesUp
  <2>7. TaskAccounts(t)'
    <3>1. OpenExecution(t) => OpenExecution(t)'
      BY <1>1, <2>3 DEF OpenExecution, EffectInv, TypeOK
    <3> QED
      BY <1>1, <2>2, <3>1 DEF TaskAccounts, RowAccounts, RunAccounts, Fresh
  <2>8. PICK step \in {"choosing", "yielding"}, kind \in PassKinds, todo \in SUBSET Sources :
          /\ Become(p, into(step, kind, todo))
          /\ \A s \in todo : Fresh(t, s)
          /\ kind # "unread" /\ (kind = "execution" \/ (p.kind = "automatic" /\ UNCHANGED execution))
    <3>1. \/ Become(p, into("choosing", "execution", {s \in Sources : run[t][s] = "admitted"}))
             /\ p.kind = "execution"
          \/ Become(p, into("yielding", "execution", {})) /\ p.kind = "execution"
          \/ /\ p.kind = "automatic" /\ UNCHANGED execution
             /\ Become(p, into("choosing", "continuation", pending))
          \/ /\ p.kind = "automatic" /\ UNCHANGED execution
             /\ Become(p, into("choosing", "scan", {s \in Sources : item[t][s] = "absent"}))
      BY <2>3
    <3>2. {"execution", "continuation", "scan"} \subseteq PassKinds
      BY DEF PassKinds
    <3>3. \A s \in pending : Fresh(t, s)
      BY <2>4 DEF Ended
    <3>4. \A s \in {x \in Sources : item[t][x] = "absent"} : Fresh(t, s)
      BY <2>4 DEF Ended
    <3> HIDE DEF into
    <3> QED
      BY <2>5, <3>1, <3>2, <3>3, <3>4
  <2> HIDE DEF t
  <2>9. PICK q : q = into(step, kind, todo)
    OBVIOUS
  <2>10. q.pc = step /\ q.kind = kind /\ q.todo = todo /\ q.source = p.source /\ SamePass(p, q)
    BY <1>1, <2>9 DEF Passes, SamePass
  <2>11. KindFits(q)'
    BY <1>1, <2>2, <2>8, <2>10 DEF PassAccounts, KindFits, OpenExecution, Mine, Owns, SamePass, t
  <2>12. PicksFresh(q)'
    BY <2>2, <2>8, <2>10 DEF PicksFresh, Fresh, SamePass, t, WorkingSteps, UntriedSteps, SourceSteps
  <2>13. PassAccounts(q)'
    BY <1>1, <2>2, <2>10, <2>11, <2>12 DEF PassAccounts, SamePass
  <2> QED
    BY <2>6, <2>7, <2>8, <2>9, <2>13, PassStepAccounts DEF Become, t
<1> QED
  BY <1>2, <1>3 DEF BeginPass

LEMMA PickSourceAccounts ==
  ASSUME EffectInv, TypeOK', OneOrganizer', NEW p \in passes, NEW s \in Sources, PickSource(p, s)
  PROVE  EffectInv'
<1>1. p \in Passes /\ PassAccounts(p) /\ s \in p.todo /\ p.pc = "choosing" /\ p.kind # "unread"
  BY WorkingFacts DEF PickSource, WorkingSteps
<1>2. PICK q : q = [p EXCEPT !.todo = @ \ {s}, !.source = {s},
       !.pc = IF control[p.task] = "none" THEN "starting"
              ELSE IF p.kind = "execution" THEN "acknowledging" ELSE "raised"]
  OBVIOUS
<1>3. /\ q.pc \in {"starting", "acknowledging", "raised"} /\ q.kind = p.kind
      /\ q.todo = p.todo \ {s} /\ q.source = {s} /\ SamePass(p, q)
  BY <1>1, <1>2 DEF Passes, SamePass
<1>4. Become(p, q) /\ Heartbeat(p.worker, p.gen, p.task) /\ UNCHANGED onlyPasses
  BY <1>2 DEF PickSource, Renew
<1>5. UNCHANGED <<queue, gen, holder, execution, effects, touched>>
  BY <1>4 DEF Heartbeat, resultVars, onlyPasses, runVars
<1>6. KindFits(q)'
  BY <1>1, <1>3, <1>5 DEF PassAccounts, KindFits, OpenExecution, Mine, Owns, SamePass
<1>7. PicksFresh(q)'
  BY <1>1, <1>3, <1>5 DEF PassAccounts, PicksFresh, Fresh, SamePass, WorkingSteps, UntriedSteps, SourceSteps
<1>8. PassAccounts(q)'
  BY <1>1, <1>3, <1>5, <1>6, <1>7 DEF PassAccounts, SamePass
<1> QED
  BY <1>4, <1>8, ClaimingAccounts DEF MovesOn, Become

(* A start, a plan or a problem of the picked source.                      *)
LEMMA SourceRowsAccount ==
  ASSUME EffectInv, TypeOK', OneOrganizer', NEW p \in passes, NEW s \in Sources,
         p.pc \in UntriedSteps, s \in p.source,
         \/ StartItem(p.worker, p.gen, p.task, s) \/ ParkItem(p.task, s)
         \/ RecordItems(p.worker, p.gen, p.task, [x \in {s} |-> "confirm"]),
         UNCHANGED onlyPasses,
         NEW step \in {"choosing", "started", "parked", "republishing"}, Goto(p, step)
  PROVE  EffectInv'
<1>1. p.pc \in WorkingSteps /\ p.pc \in SourceSteps /\ p.pc # "control"
  BY DEF UntriedSteps, WorkingSteps, SourceSteps
<1>2. p.task \in Tasks /\ Mine(p) /\ PassAccounts(p)
  BY <1>1, WorkingFacts
<1>3. Fresh(p.task, s) /\ UNCHANGED touched
  BY <1>2 DEF PassAccounts, PicksFresh, onlyPasses
<1>4. KernelFrame(p.task)
  BY <1>2, RowCallsFrame DEF EffectInv
<1>5. \A x \in Sources : KeepsRow(p.task, x)
  <2>1. CASE RecordItems(p.worker, p.gen, p.task, [x \in {s} |-> "confirm"])
    BY <1>2, <1>3, <2>1, RecordsKeepRows DEF Fresh
  <2> QED
    BY <1>2, <1>3, <2>1, StartKeepsRows, ParkKeepsRows
<1>6. Untouched(p.task)
  BY <1>2 DEF StartItem, ParkItem, RecordItems, Untouched, claimVars
<1>7. NewResults(p.task) /\ execution'[p.task] = execution[p.task]
  BY <1>3 DEF StartItem, ParkItem, RecordItems, resultVars, NewResults, onlyPasses, runVars
<1>8. MovesOn(p)
  BY <1>1, <1>6, <1>7, GotoAccounts DEF MovesOn, PassSteps, WorkingSteps, UntriedSteps, SourceSteps
<1> QED
  BY <1>2, <1>4, <1>5, <1>8, WritingAccounts

LEMMA SourceAccounts ==
  ASSUME EffectInv, TypeOK', OneOrganizer', NEW p \in passes, NEW s \in Sources,
         Start(p, s) \/ StartRefused(p, s) \/ Summarize(p, s) \/ Park(p, s)
  PROVE  EffectInv'
<1>1. p.pc \in {"starting", "refused", "started"} /\ s \in p.source /\ UNCHANGED onlyPasses
  BY DEF Start, StartRefused, Summarize, Park
<1>2. CASE \E step \in {"choosing", "started", "parked", "republishing"} :
             /\ Goto(p, step)
             /\ \/ StartItem(p.worker, p.gen, p.task, s) \/ ParkItem(p.task, s)
                \/ RecordItems(p.worker, p.gen, p.task, [x \in {s} |-> "confirm"])
  BY <1>1, <1>2, SourceRowsAccount DEF UntriedSteps
<1>3. CASE UNCHANGED kernelVars /\ (End(p) \/ \E step \in {"refused", "raised"} : Goto(p, step))
  BY <1>1, <1>3, ReadingAccounts DEF PassSteps, WorkingSteps, UntriedSteps, SourceSteps
<1> QED
  BY <1>2, <1>3 DEF Start, StartRefused, Summarize, Park, Lost

LEMMA ReprojectAccounts ==
  ASSUME EffectInv, TypeOK', OneOrganizer', NEW p \in passes, Reproject(p)
  PROVE  EffectInv'
<1>1. p.pc = "reprojecting" /\ UNCHANGED onlyPasses
  BY DEF Reproject
<1>2. p \in Passes /\ p.task \in Tasks /\ Mine(p) /\ PassAccounts(p)
  BY <1>1, WorkingFacts DEF WorkingSteps
<1>3. ASSUME NEW step \in {"choosing", "raised"}, Become(p, [p EXCEPT !.pc = step, !.to = Nothing]),
             Untouched(p.task), NewResults(p.task)
      PROVE  \E q : passes' = (passes \ {p}) \cup {q} /\ PassAccounts(q)'
  <2>1. PICK q : q = [p EXCEPT !.pc = step, !.to = Nothing]
    OBVIOUS
  <2>2. q.pc = step /\ q.kind = p.kind /\ q.todo = p.todo /\ q.source = p.source /\ SamePass(p, q)
    BY <1>2, <2>1 DEF Passes, SamePass
  <2>3. PassAccounts(q)'
    BY <1>1, <1>3, <2>2, GoesOn DEF WorkingSteps, UntriedSteps, SourceSteps, onlyPasses, runVars
  <2> QED
    BY <1>3, <2>1, <2>3 DEF Become
<1>4. CASE RecordItems(p.worker, p.gen, p.task, p.to)
           /\ Become(p, [p EXCEPT !.pc = "choosing", !.to = Nothing])
  <2>1. UNCHANGED touched
    BY <1>1 DEF onlyPasses
  <2>2. \A s \in Sources : s \in DOMAIN p.to => Fresh(p.task, s)
    BY <1>1, <1>2 DEF PassAccounts, PicksFresh, UntriedSteps
  <2>3. \A s \in Sources : KeepsRow(p.task, s)
    BY <1>2, <1>4, <2>1, <2>2, RecordsKeepRows DEF Fresh
  <2>4. KernelFrame(p.task)
    BY <1>2, <1>4, RowCallsFrame DEF EffectInv
  <2>5. Untouched(p.task) /\ NewResults(p.task)
    BY <1>4, <2>1 DEF RecordItems, Untouched, claimVars, resultVars, NewResults
  <2>6. MovesOn(p)
    BY <1>3, <1>4, <2>5 DEF MovesOn
  <2> QED
    BY <1>1, <1>2, <2>3, <2>4, <2>6, WritingAccounts
<1>5. CASE UNCHANGED kernelVars /\ Become(p, [p EXCEPT !.pc = "raised", !.to = Nothing])
  <2>1. \E q : passes' = (passes \ {p}) \cup {q} /\ PassAccounts(q)'
    BY <1>1, <1>3, <1>5, ReadsFrame DEF EffectInv
  <2> QED
    BY <1>1, <1>5, <2>1, ReadingAccounts DEF Become
<1>6. CASE UNCHANGED kernelVars /\ End(p)
  BY <1>1, <1>6, ReadingAccounts
<1> QED
  BY <1>4, <1>5, <1>6 DEF Reproject

-----------------------------------------------------------------------------
(* The mutation boundary, the call of Storage and the outcome.             *)

LEMMA EnterMutationAccounts ==
  ASSUME EffectInv, TypeOK', OneOrganizer', NEW p \in passes, NEW s \in Sources, EnterMutation(p, s)
  PROVE  EffectInv'
<1> DEFINE t == p.task
<1>1. p.pc = "started" /\ p.kind \in {"scan", "execution"} /\ s \in p.source
      /\ UNCHANGED <<execution, requests, touched>>
  BY DEF EnterMutation
<1>2. /\ p \in Passes /\ t \in Tasks /\ Mine(p) /\ PassAccounts(p) /\ TaskAccounts(t)
      /\ p.kind # "execution" => ~OpenExecution(t)
  BY <1>1, WorkingFacts DEF WorkingSteps
<1>3. \/ p.kind = "execution" /\ run' = [run EXCEPT ![t][s] = "running"]
      \/ p.kind # "execution" /\ UNCHANGED run
  BY <1>1 DEF EnterMutation
<1>4. \A x \in Sources : RunAccounts(t, x) /\ run'[t][x] \in {run[t][x], "running"}
  BY <1>2, <1>3 DEF TaskAccounts, EffectInv, TypeOK
<1>5. \A u \in Tasks \ {t} : SameRuns(u)
  BY <1>1, <1>2, <1>3 DEF SameRuns, EffectInv, TypeOK
<1>6. CASE BeginMutation(p.worker, p.gen, t, s) /\ Goto(p, "mutating")
  <2>1. \A x \in Sources : KeepsRow(t, x)
    BY <1>1, <1>2, <1>6, MutationKeepsRows
  <2>2. KernelFrame(t)
    BY <1>2, <1>6, RowCallsFrame DEF EffectInv
  <2>3. TaskAccounts(t)'
    <3> SUFFICES ASSUME NEW x \in Sources PROVE RowAccounts(t, x)' /\ RunAccounts(t, x)'
      BY DEF TaskAccounts
    <3>1. RowAccounts(t, x)'
      BY <1>2, <2>1, RowKept DEF TaskAccounts
    <3>2. RunAccounts(t, x)'
      BY <1>1, <1>4, <2>1 DEF RunAccounts, KeepsRow, Fresh, OpenExecution
    <3> QED
      BY <3>1, <3>2
  <2>4. Frame(p)
    BY <1>1, <1>2, <1>5, <2>2 DEF Frame, KernelFrame, SameTask, SameRows
  <2>5. PICK q : q = [p EXCEPT !.pc = "mutating"]
    OBVIOUS
  <2>6. /\ q.pc = "mutating" /\ q.kind = p.kind /\ q.todo = p.todo /\ q.source = p.source
        /\ SamePass(p, q)
    BY <1>2, <2>5 DEF Passes, SamePass
  <2>7. Untouched(t) /\ UNCHANGED <<item, effects>> /\ marker'[t] = {s} /\ item[t][s] = "processing"
    BY <1>2, <1>6 DEF BeginMutation, Untouched, claimVars, itemVars, resultVars, EffectInv, TypeOK, KernelTypeOK
  <2>8. KindFits(q)'
    BY <1>1, <1>2, <2>6, <2>7 DEF PassAccounts, KindFits, OpenExecution, Mine, Owns, SamePass, Untouched
  <2>9. run'[t][s] # "admitted"
    <3>1. p.kind = "execution" => run'[t][s] = "running"
      BY <1>2, <1>3 DEF EffectInv, TypeOK
    <3>2. p.kind # "execution" => run'[t][s] # "admitted"
      BY <1>2, <1>3, <1>4 DEF RunAccounts
    <3> QED
      BY <3>1, <3>2
  <2>10. PicksFresh(q)'
    BY <1>1, <1>2, <2>6, <2>7, <2>9 DEF PassAccounts, PicksFresh, Fresh, Marks, SamePass,
       WorkingSteps, UntriedSteps, SourceSteps
  <2>11. PassAccounts(q)'
    BY <1>2, <2>6, <2>7, <2>8, <2>10 DEF PassAccounts, SamePass, Untouched
  <2> QED
    BY <1>6, <2>3, <2>4, <2>5, <2>11, PassStepAccounts DEF Goto, Become
<1>7. CASE UNCHANGED kernelVars
           /\ (\/ Become(p, [p EXCEPT !.pc = "republishing", !.effect = "none"])
               \/ Goto(p, "raised") \/ End(p))
  <2>1. SameRows(t) /\ Untouched(t)
    BY <1>1, <1>7 DEF SameRows, Untouched, kernelVars
  <2>2. TaskAccounts(t)'
    BY <1>1, <1>2, <1>4, <2>1 DEF TaskAccounts, RowAccounts, RunAccounts, Fresh, OpenExecution, SameRows
  <2>3. Frame(p)
    BY <1>1, <1>2, <1>5, <1>7 DEF Frame, SameTask, SameRows, Untouched, GivesUp, kernelVars
  <2>4. MovesOn(p)
    <3>1. ASSUME NEW q, q \in {[p EXCEPT !.pc = "republishing", !.effect = "none"], [p EXCEPT !.pc = "raised"]}
          PROVE  PassAccounts(q)'
      <4>1. /\ q.pc \in {"republishing", "raised"} /\ q.kind = p.kind /\ q.todo = p.todo
            /\ q.source = p.source /\ SamePass(p, q)
        BY <1>2, <3>1 DEF Passes, SamePass
      <4>2. NewResults(t)
        BY <2>1 DEF SameRows, NewResults
      <4> QED
        BY <1>1, <2>1, <4>1, <4>2, GoesOn DEF WorkingSteps, UntriedSteps, SourceSteps
    <3> QED
      BY <1>7, <3>1 DEF MovesOn, Become, Goto
  <2> QED
    BY <2>2, <2>3, <2>4, PassStepAccounts DEF MovesOn, End
<1> QED
  BY <1>6, <1>7 DEF EnterMutation, Lost

LEMMA CallStorageAccounts ==
  ASSUME EffectInv, TypeOK', OneOrganizer', NEW p \in passes, NEW e, CallStorage(p, e)
  PROVE  EffectInv'
<1> DEFINE t == p.task
<1>1. p.pc = "mutating" /\ UNCHANGED <<kernelVars, runVars>>
  BY DEF CallStorage
<1>2. p \in Passes /\ t \in Tasks /\ Mine(p) /\ PassAccounts(p) /\ TaskAccounts(t)
  BY <1>1, WorkingFacts DEF WorkingSteps
<1>3. PICK s \in Sources : Marks(p, s)
  BY <1>1, <1>2 DEF PassAccounts, PicksFresh
<1>4. touched'[t] \subseteq touched[t] \cup {s} /\ \A u \in Tasks \ {t} : touched'[u] = touched[u]
  BY <1>2, <1>3 DEF CallStorage, Marks, EffectInv, TypeOK
<1>5. UNCHANGED <<status, queue, gen, holder, marker, item, effects, execution, run>>
  BY <1>1 DEF kernelVars, runVars
<1>6. TaskAccounts(t)'
  <2> SUFFICES ASSUME NEW x \in Sources PROVE RowAccounts(t, x)' /\ RunAccounts(t, x)'
    BY DEF TaskAccounts
  <2>1. RowAccounts(t, x)'
    BY <1>2, <1>3, <1>4, <1>5 DEF TaskAccounts, RowAccounts, Marks
  <2>2. RunAccounts(t, x)'
    BY <1>2, <1>3, <1>4, <1>5 DEF TaskAccounts, RunAccounts, Fresh, OpenExecution, Marks
  <2> QED
    BY <2>1, <2>2
<1>7. Frame(p)
  BY <1>2, <1>4, <1>5 DEF Frame, SameTask, SameRows, SameRuns, Untouched, GivesUp
<1>8. PICK q : q = [p EXCEPT !.pc = "publishing", !.effect = e]
  OBVIOUS
<1>9. /\ q.pc = "publishing" /\ q.kind = p.kind /\ q.todo = p.todo /\ q.source = p.source
      /\ SamePass(p, q)
  BY <1>2, <1>8 DEF Passes, SamePass
<1>10. KindFits(q)'
  BY <1>1, <1>2, <1>5, <1>9 DEF PassAccounts, KindFits, OpenExecution, Mine, Owns, SamePass
<1>11. PicksFresh(q)'
  BY <1>1, <1>2, <1>3, <1>4, <1>5, <1>9 DEF PassAccounts, PicksFresh, Fresh, Marks, SamePass,
     WorkingSteps, UntriedSteps, SourceSteps
<1>12. PassAccounts(q)'
  BY <1>2, <1>5, <1>9, <1>10, <1>11 DEF PassAccounts, SamePass
<1> QED
  BY <1>6, <1>7, <1>8, <1>12, PassStepAccounts DEF CallStorage, Become

LEMMA PublishAccounts ==
  ASSUME EffectInv, TypeOK', OneOrganizer', NEW p \in passes, NEW s \in Sources, Publish(p, s)
  PROVE  EffectInv'
<1> DEFINE t == p.task
           e == IF p.pc = "publishing" THEN p.effect ELSE "none"
           after == [run[t] EXCEPT ![s] = "done"]
<1>1. p.pc \in {"publishing", "republishing"} /\ s \in p.source /\ UNCHANGED <<requests, touched>>
      /\ PublishOutcome(p.worker, p.gen, t, s, e, p.kind # "execution")
  BY DEF Publish
<1>2. /\ p \in Passes /\ t \in Tasks /\ Mine(p) /\ PassAccounts(p) /\ TaskAccounts(t)
      /\ p.kind # "execution" => ~OpenExecution(t)
  BY <1>1, WorkingFacts DEF WorkingSteps
<1>3. /\ item'[t][s] \in Ended /\ \A x \in Sources \ {s} : item'[t][x] = item[t][x]
      /\ \A x \in Sources \ {s} : effects'[t][x] = effects[t][x]
      /\ marker'[t] \in {marker[t], marker[t] \ {s}}
      /\ Untouched(t)
  BY <1>1, <1>2 DEF PublishOutcome, Untouched, claimVars, Ended, EffectInv, TypeOK, KernelTypeOK
<1>4. KernelFrame(t)
  BY <1>1, <1>2, RowCallsFrame DEF EffectInv
<1>5. p.kind = "execution" => /\ run' = [run EXCEPT ![t] = after]
                              /\ execution' = [execution EXCEPT ![t] =
                                   IF \A x \in Sources : after[x] \in {"out", "done"} THEN "ended" ELSE @]
  BY DEF Publish, Publishes
<1>6. p.kind # "execution" => UNCHANGED <<execution, run>>
  BY DEF Publish, runVars
<1>7. \A u \in Tasks \ {t} : SameRuns(u)
  BY <1>2, <1>5, <1>6 DEF SameRuns, EffectInv, TypeOK
<1>8. ASSUME NEW x \in Sources
      PROVE  RunAccounts(t, x)'
  <2>1. CASE p.kind # "execution"
    BY <1>2, <1>6, <2>1 DEF TaskAccounts, RunAccounts, OpenExecution
  <2>2. CASE p.kind = "execution"
    <3>1. after[s] = "done" /\ \A y \in Sources \ {s} : after[y] = run[t][y]
      BY <1>2 DEF EffectInv, TypeOK
    <3>2. run'[t] = after
          /\ execution'[t] = IF \A y \in Sources : after[y] \in {"out", "done"} THEN "ended" ELSE execution[t]
      BY <1>2, <1>5, <2>2 DEF EffectInv, TypeOK
    <3> HIDE DEF after
    <3>3. ASSUME run'[t][x] = "admitted"
          PROVE  x # s /\ run[t][x] = "admitted" /\ execution'[t] = execution[t]
      BY <3>1, <3>2, <3>3
    <3> QED
      BY <1>1, <1>2, <1>3, <3>3 DEF TaskAccounts, RunAccounts, Fresh, OpenExecution
  <2> QED
    BY <2>1, <2>2
<1>9. ASSUME NEW x \in Sources
      PROVE  RowAccounts(t, x)'
  BY <1>1, <1>2, <1>3 DEF TaskAccounts, RowAccounts, Ended
<1>10. TaskAccounts(t)'
  BY <1>8, <1>9 DEF TaskAccounts
<1>11. Frame(p)
  BY <1>1, <1>2, <1>4, <1>7 DEF Frame, KernelFrame, SameTask, SameRows
<1>12. PICK q : q = [p EXCEPT !.pc = "choosing", !.effect = "none"]
  OBVIOUS
<1>13. /\ q.pc = "choosing" /\ q.kind = p.kind /\ q.todo = p.todo /\ q.source = p.source
       /\ SamePass(p, q)
  BY <1>2, <1>12 DEF Passes, SamePass
<1>14. KindFits(q)'
  BY <1>1, <1>2, <1>3, <1>6, <1>13 DEF PassAccounts, KindFits, OpenExecution, SamePass
<1>15. PicksFresh(q)'
  <2>1. p.todo \subseteq Sources \ {s}
    BY <1>1, <1>2 DEF PassAccounts, PicksFresh, SourceSteps, Passes
  <2> QED
    BY <1>1, <1>2, <1>3, <1>13, <2>1 DEF PassAccounts, PicksFresh, Fresh, SamePass,
       WorkingSteps, UntriedSteps, SourceSteps
<1>16. PassAccounts(q)'
  BY <1>2, <1>3, <1>13, <1>14, <1>15 DEF PassAccounts, SamePass, Untouched
<1> QED
  BY <1>10, <1>11, <1>12, <1>16, PassStepAccounts DEF Publish, Become

LEMMA RenewingAccounts ==
  ASSUME EffectInv, TypeOK', OneOrganizer', NEW p \in passes, KeepAlive(p) \/ Raised(p)
  PROVE  EffectInv'
<1>1. CASE KeepAlive(p)
  <2>1. Heartbeat(p.worker, p.gen, p.task) /\ passes' = passes /\ UNCHANGED onlyPasses
    BY <1>1 DEF KeepAlive, Renew, engineOnly, onlyPasses, runVars
  <2>2. SameTask(p.task)
    BY <2>1 DEF SameTask, SameRows, SameRuns, Untouched, Heartbeat, itemVars, resultVars, onlyPasses, runVars
  <2>3. PassAccounts(p)'
    BY <2>2, SamePassAccounts DEF EffectInv
  <2> QED
    BY <2>1, <2>3, ClaimingAccounts DEF MovesOn
<1>2. CASE Raised(p)
  <2>1. /\ p.pc = "raised" /\ UNCHANGED onlyPasses
        /\ Heartbeat(p.worker, p.gen, p.task) \/ UNCHANGED kernelVars
        /\ \E step \in {"retiring", "acknowledging", "failing"} : Goto(p, step)
    BY <1>2 DEF Raised, Renew
  <2>2. Untouched(p.task) /\ NewResults(p.task) /\ execution'[p.task] = execution[p.task]
    BY <2>1 DEF Untouched, NewResults, Heartbeat, kernelVars, resultVars, onlyPasses, runVars
  <2>3. MovesOn(p)
    BY <2>1, <2>2, GotoAccounts DEF MovesOn, PassSteps, WorkingSteps, UntriedSteps, SourceSteps
  <2> QED
    BY <2>1, <2>3, ClaimingAccounts
<1> QED
  BY <1>1, <1>2

-----------------------------------------------------------------------------
(* The end of the pass.                                                    *)

(* Rewriting pending rows, and the marked one as failed, is accounted for. *)
LEMMA RecordsAccount ==
  ASSUME EffectInv, TypeOK', OneOrganizer', NEW p \in passes, NEW after, Records(p, after),
         UNCHANGED onlyPasses, MovesOn(p),
         \A s \in Sources : item[p.task][s] = "processing" =>
            \/ after[s] = item[p.task][s]
            \/ after[s] \in Ended
            \/ s \notin touched[p.task]
  PROVE  EffectInv'
<1> DEFINE t == p.task
           to == Differing(item[t], after)
<1>1. t \in Tasks
  BY PassFacts DEF EffectInv
<1>2. RecordItems(p.worker, p.gen, t, to) /\ UNCHANGED touched
  BY DEF Records, onlyPasses
<1>3. Mine(p)
  BY <1>2 DEF RecordItems, OwnsLive, Mine
<1>4. \A s \in DOMAIN to : s \in Sources /\ after[s] # item[t][s] /\ to[s] = after[s]
  BY DEF Differing
<1> HIDE DEF to
<1>5. \A s \in Sources : KeepsRow(t, s)
  BY <1>1, <1>2, <1>4, RecordsKeepRows
<1>6. KernelFrame(t)
  BY <1>1, <1>2, RowCallsFrame DEF EffectInv
<1> QED
  BY <1>3, <1>5, <1>6, WritingAccounts

LEMMA RecordsUntouched ==
  ASSUME NEW p, NEW after, Records(p, after) \/ Renew(p) \/ UNCHANGED kernelVars, UNCHANGED onlyPasses
  PROVE  Untouched(p.task) /\ NewResults(p.task) /\ execution'[p.task] = execution[p.task]
  BY DEF Records, RecordItems, Renew, Heartbeat, Untouched, claimVars, resultVars, kernelVars,
     NewResults, onlyPasses, runVars

LEMMA RetireAccounts ==
  ASSUME EffectInv, TypeOK', OneOrganizer', NEW p \in passes, Retire(p)
  PROVE  EffectInv'
<1> DEFINE t == p.task
           rows == Stopped(t)
           cancelled == Turned(rows, {"pending"}, "cancelled")
           confirms == Turned(rows, {"pending"}, "confirm")
           strands == \E s \in Sources \ marker[t] : run[t][s] = "running"
<1>1. p.pc = "retiring" /\ UNCHANGED onlyPasses
  BY DEF Retire
<1>2. p.pc \in WorkingSteps /\ TaskAccounts(t)
  BY <1>1, WorkingFacts DEF WorkingSteps
<1>3. \E after \in {rows, cancelled, confirms} : Records(p, after) \/ UNCHANGED kernelVars
  BY DEF Retire
<1>4. Untouched(t) /\ NewResults(t) /\ execution'[t] = execution[t]
  BY <1>1, <1>3, RecordsUntouched
<1>5. MovesOn(p)
  <2>1. \/ Goto(p, "acknowledging") \/ Goto(p, "deferring") \/ End(p)
        \/ Outcome(p, rows) \/ Completes(p, rows) \/ Capture(p, cancelled, TRUE)
    BY DEF Retire
  <2>2. ASSUME NEW step \in {"acknowledging", "deferring"}, Goto(p, step)
        PROVE  MovesOn(p)
    BY <1>1, <1>2, <1>4, <2>2, GotoAccounts DEF MovesOn, PassSteps, WorkingSteps, UntriedSteps, SourceSteps
  <2>3. CASE Outcome(p, rows)
    BY <1>2, <1>4, <2>3, OutcomeAccounts DEF MovesOn
  <2>4. CASE Completes(p, rows)
    BY <1>2, <1>4, <2>4, CompletesAccounts DEF MovesOn
  <2>5. CASE Capture(p, cancelled, TRUE)
    BY <1>1, <1>4, <2>5, CaptureAccounts DEF MovesOn
  <2> QED
    BY <2>1, <2>2, <2>3, <2>4, <2>5 DEF MovesOn
<1>6. ASSUME NEW s \in Sources, item[t][s] = "processing", NEW after \in {rows, cancelled, confirms}
      PROVE  after[s] = item[t][s] \/ after[s] \in Ended
  <2>1. rows[s] = item[t][s] \/ rows[s] = "failed"
    BY DEF Stopped
  <2>2. cancelled[s] = rows[s] /\ confirms[s] = rows[s]
    BY <1>6, <2>1 DEF Turned
  <2> QED
    BY <1>6, <2>1, <2>2 DEF Ended
<1>7. CASE UNCHANGED kernelVars
  BY <1>1, <1>5, <1>7, ClaimingAccounts
<1> HIDE DEF rows, cancelled, confirms
<1>8. ASSUME NEW after \in {rows, cancelled, confirms}, Records(p, after)
      PROVE  EffectInv'
  BY <1>1, <1>5, <1>6, <1>8, RecordsAccount
<1> QED
  BY <1>3, <1>7, <1>8

LEMMA EndingAccounts ==
  ASSUME EffectInv, TypeOK', OneOrganizer', NEW p \in passes, EndAutomatic(p) \/ EndExecution(p)
  PROVE  EffectInv'
<1> DEFINE t == p.task
           rows == item[t]
           confirms == Turned(rows, {"pending"}, "confirm")
<1>1. p.pc = "ending" /\ UNCHANGED onlyPasses
  BY DEF EndAutomatic, EndExecution
<1>2. p.pc \in WorkingSteps /\ p.pc # "control"
  BY <1>1 DEF WorkingSteps
<1>3. Renew(p) \/ Records(p, confirms) \/ UNCHANGED kernelVars
  BY DEF EndAutomatic, EndExecution
<1>4. Untouched(t) /\ NewResults(t) /\ execution'[t] = execution[t]
  BY <1>1, <1>3, RecordsUntouched
<1>5. MovesOn(p)
  <2>1. \/ \E step \in {"acknowledging", "deferring", "yielding"} : Goto(p, step)
        \/ End(p) \/ Outcome(p, rows) \/ Completes(p, rows)
    BY DEF EndAutomatic, EndExecution
  <2>2. ASSUME NEW step \in {"acknowledging", "deferring", "yielding"}, Goto(p, step)
        PROVE  MovesOn(p)
    BY <1>2, <1>4, <2>2, GotoAccounts DEF MovesOn, PassSteps, WorkingSteps, UntriedSteps, SourceSteps
  <2> QED
    BY <1>2, <1>4, <2>1, <2>2, OutcomeAccounts, CompletesAccounts DEF MovesOn
<1>6. CASE Renew(p) \/ UNCHANGED kernelVars
  BY <1>1, <1>5, <1>6, ClaimingAccounts DEF Renew
<1>7. CASE Records(p, confirms)
  <2>1. \A s \in Sources : rows[s] = "processing" => confirms[s] = rows[s]
    BY DEF Turned
  <2> QED
    BY <1>1, <1>5, <1>7, <2>1, RecordsAccount
<1> QED
  BY <1>3, <1>6, <1>7

(* Giving the claim back, with or without rows and an execution to close.  *)
LEMMA ReleaseClaimAccounts ==
  ASSUME EffectInv, TypeOK', OneOrganizer', NEW p \in passes,
         NEW st, NEW to, NEW q, NEW expected, NEW close,
         ReleaseClaim(p.worker, p.gen, p.task, st, to, q, expected, close),
         ClosesExecution(p.task) \/ UNCHANGED runVars, UNCHANGED <<requests, touched>>, End(p)
  PROVE  EffectInv'
<1> DEFINE t == p.task
<1>1. t \in Tasks /\ TaskAccounts(t)
  BY PassFacts DEF EffectInv
<1>2. Mine(p)
  BY DEF ReleaseClaim, OwnsLive, Mine
<1>3. \A s \in Sources : KeepsRow(t, s)
  BY <1>1, ReleaseKeepsRows DEF ReleaseClaim
<1>4. \A u \in Tasks \ {t} : SameRuns(u)
  BY <1>1 DEF ClosesExecution, SameRuns, runVars, EffectInv, TypeOK
<1>5. ASSUME NEW s \in Sources
      PROVE  RunAccounts(t, s)'
  <2>1. CASE UNCHANGED runVars
    BY <1>1, <1>3, <2>1 DEF TaskAccounts, RunAccounts, KeepsRow, Fresh, OpenExecution, runVars
  <2>2. CASE ClosesExecution(t)
    <3>1. run'[t][s] # "admitted"
      BY <1>1, <2>2 DEF ClosesExecution, EffectInv, TypeOK
    <3> QED
      BY <3>1 DEF RunAccounts
  <2> QED
    BY <2>1, <2>2
<1>6. TaskAccounts(t)'
  BY <1>1, <1>3, <1>5, RowKept DEF TaskAccounts
<1>7. Frame(p)
  <2>1. \A u \in Tasks \ {t} : status'[u] = status[u]
    BY <1>1 DEF ReleaseClaim, ReleaseWrites, EffectInv, TypeOK, KernelTypeOK
  <2>2. /\ \A u \in Tasks \ {t} : UNCHANGED <<queue[u], gen[u], holder[u], marker[u], item[u], effects[u]>>
        /\ gen'[t] = gen[t] /\ GivesUp(t)
    BY <1>1, ClaimCallsFrame DEF EffectInv
  <2> QED
    BY <1>2, <1>4, <2>1, <2>2 DEF Frame, SameTask, SameRows, Untouched
<1> QED
  BY <1>6, <1>7, PassStepAccounts DEF End

LEMMA ReleasingAccounts ==
  ASSUME EffectInv, TypeOK', OneOrganizer', NEW p \in passes,
         Release(p) \/ Return(p) \/ Fail(p) \/ \E k \in p.seen : Settle(p, k)
  PROVE  EffectInv'
<1>1. p.pc # "control"
  BY DEF Release, Return, Fail, Settle
<1>2. CASE UNCHANGED kernelVars /\ UNCHANGED onlyPasses /\ (End(p) \/ Goto(p, "failing"))
  BY <1>1, <1>2, ReadingAccounts DEF PassSteps, WorkingSteps, UntriedSteps, SourceSteps
<1>3. CASE /\ \E st, to, q, expected, close :
                ReleaseClaim(p.worker, p.gen, p.task, st, to, q, expected, close)
           /\ ClosesExecution(p.task) \/ UNCHANGED runVars
           /\ UNCHANGED <<requests, touched>> /\ End(p)
  BY <1>3, ReleaseClaimAccounts
<1>4. CASE YieldClaim(p.worker, p.gen, p.task) /\ End(p) /\ UNCHANGED onlyPasses
  BY <1>4, ClaimingAccounts DEF MovesOn
<1>5. CASE Release(p)
  BY <1>2, <1>3, <1>5 DEF Release, onlyPasses, runVars
<1>6. CASE Return(p)
  BY <1>2, <1>4, <1>6 DEF Return
<1>7. CASE Fail(p)
  BY <1>2, <1>3, <1>7 DEF Fail, onlyPasses
<1>8. ASSUME NEW k \in p.seen, Settle(p, k)
      PROVE  EffectInv'
  BY <1>2, <1>3, <1>8 DEF Settle, onlyPasses, runVars
<1> QED
  BY <1>5, <1>6, <1>7, <1>8

-----------------------------------------------------------------------------
(* The steps beside the passes: an owned Task keeps its executions and its *)
(* effect boundary, and no Result is written.                              *)

BesideFrame ==
  /\ UNCHANGED <<passes, touched, effects>>
  /\ \A u \in Tasks :
       /\ gen[u] <= gen'[u] /\ GivesUp(u)
       /\ \A s \in Sources : KeepsRow(u, s) /\ RunAccounts(u, s)'
       /\ queue[u] = "claimed" /\ holder[u] # {} =>
            /\ SameRuns(u) /\ UNCHANGED <<gen[u], marker[u]>>
            /\ \A s \in Sources : item[u][s] = "processing" => item'[u][s] = item[u][s]

LEMMA BesideAccounts ==
  ASSUME EffectInv, TypeOK', OneOrganizer', BesideFrame
  PROVE  EffectInv'
<1>1. ASSUME NEW t \in Tasks
      PROVE  TaskAccounts(t)'
  BY RowKept DEF BesideFrame, EffectInv, TaskAccounts
<1>2. ASSUME NEW p \in passes
      PROVE  PassAccounts(p)'
  <2> DEFINE t == p.task
  <2>1. p \in Passes /\ t \in Tasks /\ PassAccounts(p) /\ p.gen \in Nat
    BY PassFacts DEF EffectInv
  <2>2. p.gen <= gen'[t]
    <3>1. gen[t] \in Nat /\ gen'[t] \in Nat /\ gen[t] <= gen'[t] /\ p.gen <= gen[t]
      BY <2>1 DEF EffectInv, TypeOK, KernelTypeOK, BesideFrame, PassAccounts
    <3> QED
      BY <2>1, <3>1
  <2>3. Mine(p)' => Mine(p)
    <3>1. /\ gen[t] \in Nat /\ gen'[t] \in Nat /\ gen[t] <= gen'[t] /\ p.gen <= gen[t]
          /\ GivesUp(t)
      BY <2>1 DEF EffectInv, TypeOK, KernelTypeOK, BesideFrame, PassAccounts
    <3> QED
      BY <2>1, <3>1 DEF Mine, Owns, GivesUp
  <2>4. Mine(p) => /\ SameRuns(t) /\ marker'[t] = marker[t]
                   /\ \A s \in Sources : item[t][s] = "processing" => item'[t][s] = item[t][s]
    BY <2>1 DEF Mine, Owns, BesideFrame
  <2>5. KindFits(p)'
    BY <2>1, <2>3, <2>4 DEF PassAccounts, KindFits, OpenExecution, SameRuns
  <2>6. p.pc \in WorkingSteps => Mine(p)
    BY DEF EffectInv, OneOrganizer
  <2>7. PicksFresh(p)'
    BY <2>1, <2>4, <2>6 DEF PassAccounts, PicksFresh, Fresh, Marks, BesideFrame, SameRuns,
       WorkingSteps, UntriedSteps, SourceSteps
  <2> QED
    BY <2>2, <2>5, <2>7 DEF PassAccounts
<1> QED
  BY <1>1, <1>2 DEF EffectInv, BesideFrame

(* No Task changes but one, which nobody owns or whose claim stays.        *)
LEMMA BesideOne ==
  ASSUME EffectInv, NEW t \in Tasks, UNCHANGED <<passes, touched, effects>>,
         \A u \in Tasks \ {t} : UNCHANGED <<gen[u], queue[u], holder[u], marker[u], item[u],
                                            execution[u], run[u]>>,
         gen[t] <= gen'[t], GivesUp(t),
         \A s \in Sources : KeepsRow(t, s),
         \A s \in Sources : run'[t][s] = "admitted" => Fresh(t, s) /\ OpenExecution(t)',
         queue[t] = "claimed" /\ holder[t] # {} =>
            /\ SameRuns(t) /\ UNCHANGED <<gen[t], marker[t]>>
            /\ \A s \in Sources : item[t][s] = "processing" => item'[t][s] = item[t][s]
  PROVE  BesideFrame
<1>1. ASSUME NEW u \in Tasks \ {t}
      PROVE  /\ gen[u] <= gen'[u] /\ GivesUp(u) /\ SameRuns(u)
             /\ \A s \in Sources : KeepsRow(u, s) /\ RunAccounts(u, s)'
  BY <1>1 DEF EffectInv, TypeOK, KernelTypeOK, TaskAccounts, RunAccounts, OpenExecution, Fresh,
     GivesUp, SameRuns, KeepsRow
<1>2. \A s \in Sources : RunAccounts(t, s)'
  BY DEF RunAccounts, Fresh
<1> QED
  BY <1>1, <1>2 DEF BesideFrame

LEMMA RunsStayAdmitted ==
  ASSUME EffectInv, NEW t \in Tasks, SameRuns(t)
  PROVE  \A s \in Sources : run'[t][s] = "admitted" => Fresh(t, s) /\ OpenExecution(t)'
  BY DEF EffectInv, TaskAccounts, RunAccounts, OpenExecution, SameRuns

(* Rows that leave the marked source and every outcome alone.              *)
LEMMA WaitingRows ==
  ASSUME EffectInv, NEW t \in Tasks, NEW s \in Sources, UNCHANGED <<effects, touched>>,
         item'[t][s] = item[t][s] \/ item[t][s] \notin Ended \cup {"processing"},
         marker'[t] = marker[t]
  PROVE  KeepsRow(t, s)
<1>1. RowAccounts(t, s)
  BY DEF EffectInv, TaskAccounts
<1> QED
  BY <1>1 DEF KeepsRow, RowAccounts, Fresh, Ended

LEMMA QuietOperatorsAccount ==
  ASSUME EffectInv, NEW t \in Tasks,
         \/ AdmitTask(t) \/ Continue(t) \/ ResumeTask(t) \/ Lapse(t)
         \/ \E c \in RequestedControls : AskControl(t, c)
  PROVE  BesideFrame
<1>1. UNCHANGED <<passes, touched, effects, item, marker, execution, run>>
  BY DEF AdmitTask, Admit, Continue, Requeue, RequeueWrites, ResumeTask, Resume, Lapse, LeaseLapses,
     AskControl, RequestControl, engineOnly, runVars, itemVars, resultVars
<1>2. \A s \in Sources : KeepsRow(t, s)
  BY <1>1, WaitingRows
<1>3. SameRuns(t)
  BY <1>1 DEF SameRuns
<1>4. \A s \in Sources : run'[t][s] = "admitted" => Fresh(t, s) /\ OpenExecution(t)'
  BY <1>3, RunsStayAdmitted
<1>5. /\ \A u \in Tasks \ {t} : UNCHANGED <<gen[u], queue[u], holder[u]>>
      /\ gen[t] <= gen'[t] /\ GivesUp(t)
      /\ queue[t] = "claimed" /\ holder[t] # {} => gen'[t] = gen[t]
  <2> USE DEF EffectInv, TypeOK, KernelTypeOK, GivesUp, claimVars
  <2>1. CASE AdmitTask(t) \/ Lapse(t)
    BY <2>1 DEF AdmitTask, Admit, Lapse, LeaseLapses
  <2>2. CASE Continue(t) \/ ResumeTask(t)
    BY <2>2 DEF Continue, Requeue, RequeueWrites, ResumeTask, Resume
  <2>3. CASE \E c \in RequestedControls : AskControl(t, c)
    BY <2>3 DEF AskControl, RequestControl
  <2> QED
    BY <2>1, <2>2, <2>3
<1> QED
  BY <1>1, <1>2, <1>3, <1>4, <1>5, BesideOne

LEMMA DecisionsAccount ==
  ASSUME EffectInv, NEW t \in Tasks, NEW s \in Sources, DecideReview(t, s) \/ IgnoreSource(t, s)
  PROVE  BesideFrame
<1>1. /\ UNCHANGED <<passes, touched, effects, marker, execution, run, gen, holder>>
      /\ item[t][s] = "review"
  BY DEF DecideReview, Decide, IgnoreSource, Ignore, engineOnly, claimVars, resultVars
<1>2. /\ \A x \in Sources \ {s} : item'[t][x] = item[t][x]
      /\ \A u \in Tasks \ {t} : UNCHANGED <<queue[u], item[u]>>
      /\ GivesUp(t)
      /\ queue'[t] # queue[t] => queue[t] = "waiting_human"
  <2> USE DEF EffectInv, TypeOK, KernelTypeOK, GivesUp
  <2>1. CASE DecideReview(t, s)
    BY <1>1, <2>1 DEF DecideReview, Decide
  <2>2. CASE IgnoreSource(t, s)
    <3>1. item' = [item EXCEPT ![t] = [item[t] EXCEPT ![s] = "ignored"]] /\ UNCHANGED holder
      BY <2>2 DEF IgnoreSource, Ignore
    <3>2. UNCHANGED queue \/ (queue[t] = "waiting_human" /\ queue' = [queue EXCEPT ![t] = "settled"])
      BY <2>2 DEF IgnoreSource, Ignore, LastIgnored
    <3> QED
      BY <3>1, <3>2
  <2> QED
    BY <2>1, <2>2
<1>3. \A x \in Sources : KeepsRow(t, x)
  BY <1>1, <1>2, WaitingRows DEF Ended
<1>4. SameRuns(t) /\ gen[t] <= gen'[t]
  BY <1>1 DEF SameRuns, EffectInv, TypeOK, KernelTypeOK
<1>5. \A x \in Sources : run'[t][x] = "admitted" => Fresh(t, x) /\ OpenExecution(t)'
  BY <1>4, RunsStayAdmitted
<1>6. \A x \in Sources : item[t][x] = "processing" => item'[t][x] = item[t][x]
  BY <1>1, <1>2
<1> QED
  BY <1>1, <1>2, <1>3, <1>4, <1>5, <1>6, BesideOne

LEMMA ConfirmSummaryAccounts ==
  ASSUME EffectInv, NEW t \in Tasks, NEW S \in SUBSET Sources, ConfirmSummary(t, S)
  PROVE  BesideFrame
<1>1. /\ UNCHANGED <<passes, touched, effects, marker>>
      /\ queue[t] = "waiting_human"
      /\ \A s \in S : item[t][s] = "confirm"
  BY DEF ConfirmSummary, Confirm, RequeueWrites, resultVars
<1>2. /\ \A s \in Sources : item'[t][s] = IF s \in S THEN "pending" ELSE item[t][s]
      /\ \A u \in Tasks \ {t} : UNCHANGED <<gen[u], queue[u], holder[u], item[u], execution[u], run[u]>>
      /\ gen[t] <= gen'[t] /\ GivesUp(t)
  BY DEF ConfirmSummary, Confirm, RequeueWrites, GivesUp, EffectInv, TypeOK, KernelTypeOK
<1>3. \A s \in Sources : KeepsRow(t, s)
  BY <1>1, <1>2, WaitingRows DEF Ended
<1>4. \A s \in Sources : run'[t][s] = "admitted" => s \in S
  BY DEF ConfirmSummary, EffectInv, TypeOK
<1>5. OpenExecution(t)'
  BY DEF ConfirmSummary, OpenExecution, EffectInv, TypeOK
<1>6. \A s \in S : Fresh(t, s)
  BY <1>1 DEF EffectInv, TaskAccounts, RowAccounts, Fresh, Ended
<1> QED
  BY <1>1, <1>2, <1>3, <1>4, <1>5, <1>6, BesideOne

LEMMA RequestsAccount ==
  ASSUME EffectInv, NEW r \in requests, ReadUnowned(r) \/ \E k \in r.rows : SettleUnowned(r, k)
  PROVE  BesideFrame
<1> DEFINE t == r.task
<1>1. t \in Tasks
  BY DEF EffectInv, TypeOK, Requests
<1>2. UNCHANGED <<passes, touched, execution, run>>
  BY DEF ReadUnowned, SettleUnowned, runVars
<1>3. SameRuns(t)
  BY <1>2 DEF SameRuns
<1>4. \A s \in Sources : run'[t][s] = "admitted" => Fresh(t, s) /\ OpenExecution(t)'
  BY <1>1, <1>3, RunsStayAdmitted
<1>5. CASE UNCHANGED kernelVars
  <2>1. UNCHANGED <<gen, queue, holder, item, effects, marker>>
    BY <1>5 DEF kernelVars
  <2>2. \A s \in Sources : KeepsRow(t, s)
    BY <1>1, <1>2, <2>1, WaitingRows
  <2>3. gen[t] <= gen'[t] /\ GivesUp(t)
    BY <1>1, <2>1 DEF GivesUp, EffectInv, TypeOK, KernelTypeOK
  <2> QED
    BY <1>1, <1>2, <1>3, <1>4, <2>1, <2>2, <2>3, BesideOne
<1>6. ASSUME NEW k \in r.rows,
             ReleaseUnowned(t, SettledStatus(r.control), k.to, k.seen,
                            SettledQueue(r.control), {r.revision})
      PROVE  BesideFrame
  <2>1. holder[t] = {} /\ UNCHANGED <<gen, effects>>
    BY <1>6 DEF ReleaseUnowned, ReleaseWrites, resultVars
  <2>2. \A s \in Sources : KeepsRow(t, s)
    BY <1>1, <1>2, <1>6, ReleaseKeepsRows DEF ReleaseUnowned
  <2>3. /\ \A u \in Tasks \ {t} : UNCHANGED <<queue[u], holder[u], marker[u], item[u]>>
        /\ gen[t] <= gen'[t] /\ GivesUp(t)
    BY <1>1, <1>6 DEF ReleaseUnowned, ReleaseWrites, GivesUp, EffectInv, TypeOK, KernelTypeOK
  <2> QED
    BY <1>1, <1>2, <1>3, <1>4, <2>1, <2>2, <2>3, BesideOne
<1> QED
  BY <1>5, <1>6 DEF ReadUnowned, SettleUnowned

LEMMA ClaimNextAccounts ==
  ASSUME EffectInv, TypeOK', OneOrganizer', NEW w \in Workers, NEW t \in Tasks, ClaimNext(w, t)
  PROVE  EffectInv'
<1>1. UNCHANGED <<touched, effects, item, marker, execution, run>>
  BY DEF ClaimNext, Claim, onlyPasses, runVars, itemVars, resultVars
<1>2. \A u \in Tasks : TaskAccounts(u)'
  BY <1>1, TaskKept DEF EffectInv, SameRows, SameRuns
<1>3. /\ gen'[t] = gen[t] + 1
      /\ \A u \in Tasks \ {t} : UNCHANGED <<queue[u], gen[u], holder[u]>>
  BY DEF ClaimNext, Claim, EffectInv, TypeOK, KernelTypeOK
<1>4. ASSUME NEW p \in passes
      PROVE  PassAccounts(p)'
  <2>1. p \in Passes /\ p.task \in Tasks /\ PassAccounts(p) /\ p.gen \in Nat /\ gen[p.task] \in Nat
    BY PassFacts DEF EffectInv, TypeOK, KernelTypeOK
  <2>2. p.gen <= gen'[p.task]
    BY <1>3, <2>1 DEF PassAccounts
  <2>3. Mine(p)' => Mine(p)
    <3>1. CASE p.task = t
      BY <1>3, <2>1, <3>1 DEF PassAccounts, Mine, Owns
    <3>2. CASE p.task # t
      BY <1>3, <2>1, <3>2 DEF Mine, Owns
    <3> QED
      BY <3>1, <3>2
  <2>4. KindFits(p)'
    BY <1>1, <2>1, <2>3 DEF PassAccounts, KindFits, OpenExecution
  <2>5. PicksFresh(p)'
    BY <1>1, <2>1 DEF PassAccounts, PicksFresh, Fresh, Marks
  <2> QED
    BY <2>2, <2>4, <2>5 DEF PassAccounts
<1>5. PICK new : /\ passes' = passes \cup {new}
                 /\ new = [worker |-> w, task |-> t, gen |-> gen[t] + 1, pc |-> "control",
                           kind |-> "unread", todo |-> {}, source |-> {}, effect |-> "none",
                           seen |-> {}, to |-> Nothing]
  BY DEF ClaimNext
<1>6. PassAccounts(new)'
  <2>1. new.pc = "control" /\ new.kind = "unread" /\ new.task = t /\ new.gen = gen[t] + 1
    BY <1>5
  <2>2. new.gen <= gen'[new.task]
    BY <1>3, <2>1 DEF EffectInv, TypeOK, KernelTypeOK
  <2> QED
    BY <2>1, <2>2 DEF PassAccounts, KindFits, PicksFresh, WorkingSteps, UntriedSteps, SourceSteps
<1> QED
  BY <1>2, <1>4, <1>5, <1>6 DEF EffectInv

LEMMA EffectInvKept ==
  ASSUME EffectInv, [Next]_vars
  PROVE  EffectInv'
<1>1. TypeOK' /\ OneOrganizer'
  BY TypeKept, OrganizerKept DEF EffectInv
<1>2. CASE UNCHANGED vars
  <2>1. \A t : SameTask(t)
    BY <1>2 DEF vars, kernelVars, engineOnly, SameTask, SameRows, SameRuns, Untouched
  <2>2. passes' = passes
    BY <1>2 DEF vars, engineOnly
  <2> QED
    BY <1>1, <2>1, <2>2, TaskKept, SamePassAccounts DEF EffectInv, SameTask
<1>3. ASSUME NEW w \in Workers, NEW t \in Tasks, ClaimNext(w, t)
      PROVE  EffectInv'
  BY <1>1, <1>3, ClaimNextAccounts
<1>4. ASSUME NEW p \in passes, PassStep(p) \/ KeepAlive(p) \/ Crash(p)
      PROVE  EffectInv'
  BY <1>1, <1>4, ReadStateAccounts, QuietReadsAccount, BeginPassAccounts, PickSourceAccounts,
     SourceAccounts, ReadBackAccounts, EnterMutationAccounts, PublishAccounts, CallStorageAccounts,
     ReprojectAccounts, FailBeforeEffectAccounts, RenewingAccounts, RetireAccounts,
     EndingAccounts, ReleasingAccounts
  DEF PassStep
<1>5. ASSUME NEW t \in Tasks, Operators(t) \/ Lapse(t)
      PROVE  EffectInv'
  <2>1. BesideFrame
    BY <1>5, QuietOperatorsAccount, DecisionsAccount, ConfirmSummaryAccounts DEF Operators
  <2> QED
    BY <1>1, <2>1, BesideAccounts
<1>6. ASSUME NEW r \in requests, ReadUnowned(r) \/ \E k \in r.rows : SettleUnowned(r, k)
      PROVE  EffectInv'
  BY <1>1, <1>6, RequestsAccount, BesideAccounts
<1> QED
  BY <1>2, <1>3, <1>4, <1>5, <1>6 DEF Next

LEMMA EffectInvInit == Init => EffectInv
<1> SUFFICES ASSUME Init PROVE EffectInv
  OBVIOUS
<1>1. TypeOK
  BY InitTyped
<1>2. OneOrganizer
  BY DEF Init, OneOrganizer
<1> QED
  BY <1>1, <1>2 DEF Init, KernelInit, EffectInv, TaskAccounts, RowAccounts, RunAccounts

LEMMA EffectInvariant == Spec => []EffectInv
<1>1. Init => EffectInv
  BY EffectInvInit
<1>2. EffectInv /\ [Next]_vars => EffectInv'
  BY EffectInvKept
<1> QED
  BY <1>1, <1>2, PTL DEF Spec

(* Whatever lapses, crashes, is published again, decided, continued or     *)
(* confirmed: no source is handed to Storage after a call that had, or may *)
(* have had, an effect on it.                                              *)
THEOREM EffectsAreNotRepeated == Spec => []NeverRepeatsAnEffect
  BY EffectInvariant, EffectInvImplies, PTL

(* ... and no step makes such a source waiting, paused, cancelled or       *)
(* pending work again: it is the marked attempt or it has ended.           *)
THEOREM EffectsAreAccounted == Spec => []EffectIsAccounted
  BY EffectInvariant, EffectInvImplies, PTL

-----------------------------------------------------------------------------
(* Evidence.  While no lease lapses and no publication fails, the claim of *)
(* a working pass is live, so the outcome it publishes is the one Storage  *)
(* proved, or that of a source Storage was never called for.               *)

LeasesHeld == \A t \in Tasks : queue[t] = "claimed" => lease[t] = "live"

SaysNothingHappened(p) ==
  p.pc = "republishing" \/ (p.pc = "publishing" /\ p.effect = "none")

Honest(p) == SaysNothingHappened(p) => p.source \cap touched[p.task] = {}

HonestInv ==
  /\ EffectInv /\ LeasesHeld
  /\ \A p \in passes : Honest(p)
  /\ HonestResults

(* Every call but the passage of time leaves a claimed row its lease.      *)
LEMMA CallsHoldLeases ==
  ASSUME KernelTypeOK, LeasesHeld, NEW t \in Tasks, NEW w, NEW g, NEW s, NEW to, NEW c, NEW S,
         NEW st, NEW q \in QueueStates \ {"claimed"}, NEW seen, NEW expected, NEW close, NEW effect, NEW keyed,
         \/ Admit(t) \/ Requeue(t) \/ Resume(t) \/ Confirm(t, S) \/ RequestControl(t, c)
         \/ ParkItem(t, s) \/ Decide(t, s) \/ Ignore(t, s)
         \/ Claim(w, t) \/ Heartbeat(w, g, t) \/ BeginWork(w, g, t) \/ YieldClaim(w, g, t)
         \/ RecordItems(w, g, t, to) \/ StartItem(w, g, t, s) \/ BeginMutation(w, g, t, s)
         \/ PublishOutcome(w, g, t, s, effect, keyed)
         \/ ReleaseClaim(w, g, t, st, to, q, expected, close)
         \/ ReleaseUnowned(t, st, to, seen, q, expected)
         \/ UNCHANGED kernelVars
  PROVE  LeasesHeld'
<1> USE DEF KernelTypeOK, LeasesHeld, claimVars
<1>1. CASE Admit(t) \/ Requeue(t) \/ Resume(t) \/ Confirm(t, S) \/ RequestControl(t, c)
  BY <1>1 DEF Admit, Requeue, RequeueWrites, Resume, Confirm, RequestControl
<1>2. CASE ParkItem(t, s) \/ Decide(t, s)
  BY <1>2 DEF ParkItem, Decide
<1>3. CASE Ignore(t, s)
  BY <1>3 DEF Ignore
<1>4. CASE Claim(w, t) \/ Heartbeat(w, g, t) \/ BeginWork(w, g, t) \/ YieldClaim(w, g, t)
  BY <1>4 DEF Claim, Heartbeat, BeginWork, YieldClaim
<1>5. CASE RecordItems(w, g, t, to) \/ StartItem(w, g, t, s) \/ BeginMutation(w, g, t, s)
  BY <1>5 DEF RecordItems, StartItem, BeginMutation
<1>6. CASE PublishOutcome(w, g, t, s, effect, keyed)
  BY <1>6 DEF PublishOutcome
<1>7. CASE ReleaseClaim(w, g, t, st, to, q, expected, close)
           \/ ReleaseUnowned(t, st, to, seen, q, expected)
  BY <1>7 DEF ReleaseClaim, ReleaseUnowned, ReleaseWrites
<1>8. CASE UNCHANGED kernelVars
  BY <1>8 DEF kernelVars
<1> QED
  BY <1>1, <1>2, <1>3, <1>4, <1>5, <1>6, <1>7, <1>8

LEMMA GivenQueues ==
  /\ {"settled", "waiting_human"} \subseteq QueueStates \ {"claimed"}
  /\ \A c : SettledQueue(c) \in QueueStates \ {"claimed"}
  BY DEF QueueStates, SettledQueue

LEMMA PassesHoldLeases ==
  ASSUME TypeOK, LeasesHeld, NEW p \in passes, PassStep(p) \/ KeepAlive(p) \/ Crash(p)
  PROVE  LeasesHeld'
<1>1. p.task \in Tasks /\ KernelTypeOK
  BY PassFacts DEF TypeOK
<1>2. CASE UNCHANGED kernelVars
  BY <1>1, <1>2, CallsHoldLeases, GivenQueues
<1>3. CASE ReadState(p) \/ EnterWork(p) \/ BeginPass(p)
  BY <1>1, <1>2, <1>3, CallsHoldLeases, GivenQueues DEF ReadState, EnterWork, BeginPass, ReadOnly
<1>4. ASSUME NEW s \in Sources,
             \/ PickSource(p, s) \/ Start(p, s) \/ StartRefused(p, s) \/ Summarize(p, s)
             \/ Park(p, s) \/ ReadBack(p, s) \/ EnterMutation(p, s) \/ Publish(p, s)
      PROVE  LeasesHeld'
  BY <1>1, <1>2, <1>4, CallsHoldLeases, GivenQueues DEF PickSource, Renew, Start, StartRefused,
     Summarize, Park, ReadBack, ReadOnly, EnterMutation, Publish
<1>5. CASE \/ LastSource(p) \/ Reproject(p) \/ FailBeforeEffect(p) \/ PublishFails(p)
           \/ (\E e \in EffectOutcomes : CallStorage(p, e)) \/ KeepAlive(p) \/ Crash(p)
  BY <1>1, <1>2, <1>5, CallsHoldLeases, GivenQueues DEF LastSource, Reproject, FailBeforeEffect,
     PublishFails, CallStorage, ReadOnly, KeepAlive, Renew, Crash
<1>6. CASE Raised(p) \/ Retire(p) \/ EndAutomatic(p) \/ EndExecution(p)
  BY <1>1, <1>2, <1>6, CallsHoldLeases, GivenQueues DEF Raised, Retire, EndAutomatic, EndExecution,
     Renew, Records
<1>7. CASE \/ Release(p) \/ Yield(p) \/ Return(p) \/ Fail(p) \/ Acknowledge(p) \/ CapturePause(p)
           \/ \E k \in p.seen : Settle(p, k)
  BY <1>1, <1>2, <1>7, CallsHoldLeases, GivenQueues DEF Release, Yield, Return, Fail, Acknowledge,
     CapturePause, Settle, ReadOnly
<1> QED
  BY <1>3, <1>4, <1>5, <1>6, <1>7 DEF PassStep

LEMMA EngineHoldsLeases ==
  ASSUME ~LeasesLapse, TypeOK, LeasesHeld, [Next]_vars
  PROVE  LeasesHeld'
<1>1. KernelTypeOK
  BY DEF TypeOK
<1>2. ASSUME UNCHANGED kernelVars
      PROVE  LeasesHeld'
  BY <1>2 DEF LeasesHeld, kernelVars
<1>3. ASSUME NEW w \in Workers, NEW t \in Tasks, ClaimNext(w, t)
      PROVE  LeasesHeld'
  BY <1>1, <1>3, CallsHoldLeases, GivenQueues DEF ClaimNext
<1>4. ASSUME NEW t \in Tasks, Operators(t) \/ Lapse(t)
      PROVE  LeasesHeld'
  BY <1>1, <1>4, CallsHoldLeases, GivenQueues DEF Operators, AdmitTask, AskControl, ConfirmSummary,
     Continue, ResumeTask, DecideReview, IgnoreSource, Lapse
<1>5. ASSUME NEW r \in requests, ReadUnowned(r) \/ \E k \in r.rows : SettleUnowned(r, k)
      PROVE  LeasesHeld'
  <2>1. r.task \in Tasks
    BY DEF TypeOK, Requests
  <2>2. CASE ReadUnowned(r)
    BY <1>2, <2>2 DEF ReadUnowned, kernelVars
  <2> QED
    BY <1>1, <1>2, <1>5, <2>1, <2>2, CallsHoldLeases, GivenQueues DEF SettleUnowned
<1>6. UNCHANGED vars => UNCHANGED kernelVars
  BY DEF vars
<1> QED
  BY <1>2, <1>3, <1>4, <1>5, <1>6, PassesHoldLeases DEF Next

(* A step that calls no Storage and records no Result stays honest when    *)
(* the pass it may move does.                                              *)
StaysHonest ==
  /\ UNCHANGED <<effects, touched>>
  /\ \A q \in passes' : q \in passes \/ Honest(q)

LEMMA HonestKept ==
  ASSUME HonestInv, StaysHonest
  PROVE  (\A q \in passes' : Honest(q)') /\ HonestResults'
  BY DEF HonestInv, StaysHonest, Honest, SaysNothingHappened, HonestResults

LEMMA GotoHonest ==
  ASSUME NEW p \in Passes, NEW step, step \notin {"publishing", "republishing"},
         Goto(p, step) \/ End(p)
  PROVE  \A q \in passes' : q \in passes \/ Honest(q)
  BY DEF Passes, Become, Goto, End, Honest, SaysNothingHappened

LEMMA BecomeHonest ==
  ASSUME NEW p \in Passes, NEW step, step \notin {"publishing", "republishing"},
         NEW to, NEW seen, NEW source, NEW kind, NEW todo,
         \/ Become(p, [p EXCEPT !.pc = step, !.kind = kind])
         \/ Become(p, [p EXCEPT !.pc = step, !.kind = kind, !.todo = todo])
         \/ Become(p, [p EXCEPT !.todo = todo, !.source = source, !.pc = step])
         \/ Become(p, [p EXCEPT !.pc = step, !.to = to])
         \/ Become(p, [p EXCEPT !.pc = step, !.to = to, !.seen = seen])
  PROVE  \A q \in passes' : q \in passes \/ Honest(q)
<1> USE DEF Passes, Become, Honest, SaysNothingHappened
<1>1. CASE Become(p, [p EXCEPT !.pc = step, !.kind = kind])
  BY <1>1
<1>2. CASE Become(p, [p EXCEPT !.pc = step, !.kind = kind, !.todo = todo])
  BY <1>2
<1>3. CASE Become(p, [p EXCEPT !.todo = todo, !.source = source, !.pc = step])
  BY <1>3
<1>4. CASE Become(p, [p EXCEPT !.pc = step, !.to = to])
  BY <1>4
<1>5. CASE Become(p, [p EXCEPT !.pc = step, !.to = to, !.seen = seen])
  BY <1>5
<1> QED
  BY <1>1, <1>2, <1>3, <1>4, <1>5

LEMMA QuietPassesHonest ==
  ASSUME TypeOK, NEW p \in passes,
         \/ ReadState(p) \/ EnterWork(p) \/ LastSource(p) \/ Reproject(p) \/ Raised(p) \/ Retire(p)
         \/ EndAutomatic(p) \/ EndExecution(p) \/ Release(p) \/ Yield(p) \/ Return(p) \/ Fail(p)
         \/ Acknowledge(p) \/ CapturePause(p) \/ (\E k \in p.seen : Settle(p, k))
         \/ KeepAlive(p) \/ Crash(p)
  PROVE  StaysHonest
<1>1. p \in Passes
  BY PassFacts
<1>2. UNCHANGED touched
  BY DEF ReadState, EnterWork, LastSource, Reproject, Raised, Retire, EndAutomatic, EndExecution,
     Release, Yield, Return, Fail, Acknowledge, CapturePause, Settle, KeepAlive, Crash, ReadOnly,
     onlyPasses, engineOnly
<1>3. UNCHANGED effects
  <2>1. CASE UNCHANGED kernelVars
    BY <2>1 DEF kernelVars
  <2>2. CASE \/ Renew(p) \/ (\E after : Records(p, after)) \/ (\E to : RecordItems(p.worker, p.gen, p.task, to))
             \/ YieldClaim(p.worker, p.gen, p.task)
    BY <2>2 DEF Renew, Heartbeat, Records, RecordItems, YieldClaim, resultVars
  <2>3. CASE \E st, to, q, expected, close : ReleaseClaim(p.worker, p.gen, p.task, st, to, q, expected, close)
    BY <2>3 DEF ReleaseClaim, ReleaseWrites, resultVars
  <2> QED
    BY <2>1, <2>2, <2>3 DEF ReadState, EnterWork, LastSource, Reproject, Raised, Retire, EndAutomatic,
       EndExecution, Release, Yield, Return, Fail, Acknowledge, CapturePause, Settle, KeepAlive,
       Crash, ReadOnly
<1>4. \A q \in passes' : q \in passes \/ Honest(q)
  <2>1. CASE KeepAlive(p)
    BY <2>1 DEF KeepAlive, engineOnly
  <2>2. CASE ReadState(p)
    <3>1. ASSUME NEW step \in {"entering", "acknowledging"}, NEW kind,
                 Become(p, [p EXCEPT !.pc = step, !.kind = kind])
          PROVE  \A q \in passes' : q \in passes \/ Honest(q)
      BY <1>1, <3>1, BecomeHonest
    <3>2. PICK step \in {"entering", "acknowledging"}, kind \in {"execution", "automatic"} :
            Become(p, [p EXCEPT !.pc = step, !.kind = kind])
      BY <2>2 DEF ReadState
    <3> QED
      BY <3>1, <3>2
  <2>3. CASE \/ EnterWork(p) \/ LastSource(p) \/ Raised(p) \/ Release(p) \/ Yield(p) \/ Return(p)
             \/ Fail(p) \/ Crash(p) \/ \E k \in p.seen : Settle(p, k)
    <3>1. \/ End(p)
          \/ \E step \in {"beginning", "failing", "ending", "retiring", "acknowledging", "pausing", "returning"} :
               Goto(p, step)
      BY <2>3 DEF EnterWork, LastSource, Raised, Release, Yield, Return, Fail, Crash, Settle
    <3> QED
      BY <1>1, <3>1, GotoHonest
  <2>4. CASE Reproject(p)
    BY <1>1, <2>4, GotoHonest, BecomeHonest DEF Reproject
  <2>5. ASSUME NEW rows, NEW closes, Capture(p, rows, closes)
        PROVE  \A q \in passes' : q \in passes \/ Honest(q)
    <3>1. PICK seen : Become(p, [p EXCEPT !.pc = "settling", !.to = Settled(rows, control[p.task]), !.seen = seen])
      BY <2>5 DEF Capture
    <3>2. PICK to : Become(p, [p EXCEPT !.pc = "settling", !.to = to, !.seen = seen])
      BY <3>1
    <3> QED
      BY <1>1, <3>2, BecomeHonest
  <2>6. ASSUME NEW rows, Completes(p, rows)
        PROVE  \A q \in passes' : q \in passes \/ Honest(q)
    BY <1>1, <2>6, BecomeHonest DEF Completes
  <2>7. ASSUME NEW rows, Outcome(p, rows)
        PROVE  \A q \in passes' : q \in passes \/ Honest(q)
    BY <1>1, <2>6, <2>7, GotoHonest DEF Outcome
  <2>8. CASE Retire(p)
    BY <1>1, <2>5, <2>6, <2>7, <2>8, GotoHonest DEF Retire
  <2>9. CASE EndAutomatic(p) \/ EndExecution(p)
    BY <1>1, <2>6, <2>7, <2>9, GotoHonest DEF EndAutomatic, EndExecution
  <2>10. CASE Acknowledge(p) \/ CapturePause(p)
    BY <1>1, <2>5, <2>10, GotoHonest DEF Acknowledge, CapturePause
  <2> QED
    BY <2>1, <2>2, <2>3, <2>4, <2>8, <2>9, <2>10
<1> QED
  BY <1>2, <1>3, <1>4 DEF StaysHonest

LEMMA BeginPassHonest ==
  ASSUME TypeOK, NEW p \in passes, BeginPass(p)
  PROVE  StaysHonest
<1>1. p \in Passes
  BY PassFacts
<1>2. UNCHANGED <<effects, touched>>
  BY DEF BeginPass, BeginWork, resultVars, kernelVars
<1> QED
  BY <1>1, <1>2, GotoHonest, BecomeHonest DEF BeginPass, StaysHonest

(* Before the outcome: what a pass publishes without proof is fresh.       *)
LEMMA SourceStepsHonest ==
  ASSUME EffectInv, NEW p \in passes, NEW s \in Sources,
         \/ PickSource(p, s) \/ Start(p, s) \/ StartRefused(p, s) \/ Summarize(p, s)
         \/ Park(p, s) \/ ReadBack(p, s) \/ EnterMutation(p, s)
  PROVE  StaysHonest
<1>1. p \in Passes /\ PassAccounts(p)
  BY PassFacts DEF EffectInv
<1>2. UNCHANGED touched
  BY DEF PickSource, Start, StartRefused, Summarize, Park, ReadBack, EnterMutation, ReadOnly, onlyPasses
<1>3. UNCHANGED effects
  BY DEF PickSource, Renew, Heartbeat, Start, StartItem, StartRefused, Summarize, RecordItems, Park,
     ParkItem, ReadBack, ReadOnly, EnterMutation, BeginMutation, resultVars, kernelVars
<1>4. p.pc \in UntriedSteps => p.source \cap touched[p.task] = {}
  BY <1>1 DEF PassAccounts, PicksFresh, Fresh
<1>5. \A q \in passes' : q \in passes \/ Honest(q)
  <2>1. CASE PickSource(p, s)
    BY <1>1, <2>1, BecomeHonest DEF PickSource
  <2>2. CASE Start(p, s) \/ Summarize(p, s) \/ Park(p, s)
    BY <1>1, <2>2, GotoHonest DEF Start, Lost, Summarize, Park
  <2>3. CASE ReadBack(p, s)
    BY <1>1, <2>3, GotoHonest, BecomeHonest DEF ReadBack
  <2>4. ASSUME p.pc \in {"refused", "started"},
               \/ Goto(p, "republishing")
               \/ Become(p, [p EXCEPT !.pc = "republishing", !.effect = "none"])
        PROVE  \A q \in passes' : q \in passes \/ Honest(q)
    <3>1. PICK q : /\ passes' = (passes \ {p}) \cup {q}
                   /\ q.pc = "republishing" /\ q.source = p.source /\ q.task = p.task
      <4>1. PICK q : /\ passes' = (passes \ {p}) \cup {q}
                     /\ \/ q = [p EXCEPT !.pc = "republishing"]
                        \/ q = [p EXCEPT !.pc = "republishing", !.effect = "none"]
        BY <2>4 DEF Goto, Become
      <4>2. q.pc = "republishing" /\ q.source = p.source /\ q.task = p.task
        BY <1>1, <4>1 DEF Passes
      <4> QED
        BY <4>1, <4>2
    <3>2. Honest(q)
      BY <1>4, <2>4, <3>1 DEF Honest, UntriedSteps
    <3> QED
      BY <3>1, <3>2
  <2>5. CASE StartRefused(p, s) \/ EnterMutation(p, s)
    BY <1>1, <2>4, <2>5, GotoHonest DEF StartRefused, EnterMutation, Lost
  <2> QED
    BY <2>1, <2>2, <2>3, <2>5
<1> QED
  BY <1>2, <1>3, <1>5 DEF StaysHonest

LEMMA FailBeforeEffectHonest ==
  ASSUME EffectInv, NEW p \in passes, FailBeforeEffect(p)
  PROVE  StaysHonest
<1>1. p \in Passes /\ PassAccounts(p) /\ p.pc = "started"
  BY PassFacts DEF EffectInv, FailBeforeEffect
<1>2. p.source \cap touched[p.task] = {}
  BY <1>1 DEF PassAccounts, PicksFresh, Fresh, UntriedSteps
<1>3. UNCHANGED <<effects, touched>>
  BY DEF FailBeforeEffect, ReadOnly, kernelVars, onlyPasses
<1>4. \A q \in passes' : q \in passes \/ Honest(q)
  BY <1>1, <1>2 DEF FailBeforeEffect, Become, Honest, Passes
<1> QED
  BY <1>3, <1>4 DEF StaysHonest

(* A working pass owns a live claim, so its publication is not refused.    *)
LEMMA PublishesAlways ==
  ASSUME ~WritesFail, HonestInv, NEW p \in passes
  PROVE  ~PublishFails(p)
<1>1. p.pc \in {"publishing", "republishing"} => MineLive(p)
  BY PassFacts DEF HonestInv, EffectInv, OneOrganizer, WorkingSteps, LeasesHeld, Mine, MineLive, Owns, OwnsLive
<1> QED
  BY <1>1 DEF PublishFails

LEMMA CallStorageHonest ==
  ASSUME HonestInv, NEW p \in passes, NEW e \in EffectOutcomes, CallStorage(p, e)
  PROVE  (\A q \in passes' : Honest(q)') /\ HonestResults'
<1> DEFINE t == p.task
<1>1. p.pc = "mutating" /\ UNCHANGED effects
  BY DEF CallStorage, kernelVars
<1>2. p \in Passes /\ t \in Tasks /\ Mine(p) /\ PassAccounts(p) /\ TaskAccounts(t)
  BY <1>1, WorkingFacts DEF HonestInv, WorkingSteps
<1>3. PICK s \in Sources : Marks(p, s)
  BY <1>1, <1>2 DEF PassAccounts, PicksFresh
<1>4. p.source \cap touched[t] = {}
  BY <1>1, <1>2 DEF PassAccounts, PicksFresh, Fresh, UntriedSteps
<1>5. /\ \A u \in Tasks \ {t} : touched'[u] = touched[u]
      /\ touched'[t] \in {touched[t], touched[t] \cup {s}}
      /\ e = "none" => touched'[t] = touched[t]
  BY <1>2, <1>3 DEF CallStorage, Marks, HonestInv, EffectInv, TypeOK
<1>6. HonestResults'
  <2>1. effects[t][s] = {}
    BY <1>2, <1>3 DEF Marks, TaskAccounts, RowAccounts, Ended
  <2> QED
    BY <1>1, <1>5, <2>1 DEF HonestInv, HonestResults
<1>7. ASSUME NEW q \in passes, q # p
      PROVE  Honest(q)'
  <2>1. q.task \in Tasks
    BY PassFacts DEF HonestInv, EffectInv
  <2>2. CASE q.task # t
    BY <1>5, <2>1, <2>2 DEF HonestInv, Honest, SaysNothingHappened
  <2>3. CASE q.task = t
    <3>1. q.worker # p.worker
      BY <1>7 DEF HonestInv, EffectInv, TypeOK
    <3>2. ~Mine(q)
      BY <1>2, <2>3, <3>1 DEF Mine, Owns
    <3>3. q.pc \notin {"publishing", "republishing"}
      BY <3>2 DEF HonestInv, EffectInv, OneOrganizer, WorkingSteps
    <3> QED
      BY <3>3 DEF Honest, SaysNothingHappened
  <2> QED
    BY <2>2, <2>3
<1>8. PICK n : passes' = (passes \ {p}) \cup {n} /\ n = [p EXCEPT !.pc = "publishing", !.effect = e]
  BY DEF CallStorage, Become
<1>9. Honest(n)'
  <2>1. n.pc = "publishing" /\ n.effect = e /\ n.source = p.source /\ n.task = t
    BY <1>2, <1>8 DEF Passes
  <2> QED
    BY <1>4, <1>5, <2>1 DEF Honest, SaysNothingHappened
<1> QED
  BY <1>6, <1>7, <1>8, <1>9

LEMMA PublishHonest ==
  ASSUME HonestInv, NEW p \in passes, NEW s \in Sources, Publish(p, s)
  PROVE  (\A q \in passes' : Honest(q)') /\ HonestResults'
<1> DEFINE t == p.task
           e == IF p.pc = "publishing" THEN p.effect ELSE "none"
<1>1. /\ p.pc \in {"publishing", "republishing"} /\ s \in p.source /\ UNCHANGED touched
      /\ PublishOutcome(p.worker, p.gen, t, s, e, p.kind # "execution")
  BY DEF Publish
<1>2. p \in Passes /\ t \in Tasks
  BY PassFacts DEF HonestInv, EffectInv
<1>3. /\ effects'[t][s] = effects[t][s] \cup {e}
      /\ \A x \in Sources \ {s} : effects'[t][x] = effects[t][x]
      /\ \A u \in Tasks \ {t} : effects'[u] = effects[u]
  BY <1>1, <1>2 DEF PublishOutcome, HonestInv, EffectInv, TypeOK, KernelTypeOK
<1>4. s \in touched[t] => e \in {"verified", "unknown"}
  BY <1>1, <1>2 DEF HonestInv, Honest, SaysNothingHappened, Passes, Effects
<1>5. HonestResults'
  <2> SUFFICES ASSUME NEW u \in Tasks, NEW x \in touched[u], effects'[u][x] # {}
               PROVE  effects'[u][x] \cap {"verified", "unknown"} # {}
    BY <1>1 DEF HonestResults
  <2>1. x \in Sources
    BY DEF HonestInv, EffectInv, TypeOK
  <2>2. CASE u = t /\ x = s
    BY <1>3, <1>4, <2>2
  <2>3. CASE ~(u = t /\ x = s)
    BY <1>3, <2>1, <2>3 DEF HonestInv, HonestResults
  <2> QED
    BY <2>2, <2>3
<1>6. \A q \in passes' : q \in passes \/ Honest(q)
  BY <1>2 DEF Publish, Become, Passes, Honest, SaysNothingHappened
<1>7. \A q \in passes' : Honest(q)'
  BY <1>1, <1>6 DEF HonestInv, Honest, SaysNothingHappened
<1> QED
  BY <1>5, <1>7

LEMMA BesideHonest ==
  ASSUME BesideFrame
  PROVE  StaysHonest
  BY DEF BesideFrame, StaysHonest

LEMMA HonestInvKept ==
  ASSUME ~LeasesLapse, ~WritesFail, HonestInv, [Next]_vars
  PROVE  HonestInv'
<1>1. EffectInv' /\ LeasesHeld' /\ TypeOK /\ EffectInv
  BY EffectInvKept, EngineHoldsLeases DEF HonestInv, EffectInv
<1>2. CASE StaysHonest
  BY <1>1, <1>2, HonestKept DEF HonestInv
<1>3. CASE UNCHANGED vars
  BY <1>2, <1>3 DEF StaysHonest, vars, kernelVars, engineOnly
<1>4. ASSUME NEW w \in Workers, NEW t \in Tasks, ClaimNext(w, t)
      PROVE  StaysHonest
  BY <1>4 DEF ClaimNext, Claim, onlyPasses, resultVars, StaysHonest, Honest, SaysNothingHappened
<1>5. ASSUME NEW p \in passes, PassStep(p) \/ KeepAlive(p) \/ Crash(p)
      PROVE  HonestInv'
  <2>1. CASE \/ \E s \in Sources : Publish(p, s)
             \/ \E e \in EffectOutcomes : CallStorage(p, e)
    BY <1>1, <2>1, PublishHonest, CallStorageHonest DEF HonestInv
  <2>2. CASE PublishFails(p)
    BY <2>2, PublishesAlways
  <2> QED
    BY <1>1, <1>2, <1>5, <2>1, <2>2, QuietPassesHonest, BeginPassHonest, SourceStepsHonest,
       FailBeforeEffectHonest DEF PassStep
<1>6. ASSUME NEW t \in Tasks, Operators(t) \/ Lapse(t)
      PROVE  StaysHonest
  BY <1>1, <1>6, QuietOperatorsAccount, DecisionsAccount, ConfirmSummaryAccounts, BesideHonest DEF Operators
<1>7. ASSUME NEW r \in requests, ReadUnowned(r) \/ \E k \in r.rows : SettleUnowned(r, k)
      PROVE  StaysHonest
  BY <1>1, <1>7, RequestsAccount, BesideHonest
<1> QED
  BY <1>2, <1>3, <1>4, <1>5, <1>6, <1>7 DEF Next

(* While leases are renewed in time and publications are written, a source *)
(* Storage changed has a record that says so, whatever crashed in between. *)
THEOREM ResultsAreHonest ==
  ASSUME ~LeasesLapse, ~WritesFail
  PROVE  Spec => []HonestResults
<1>1. Init => HonestInv
  <2> SUFFICES ASSUME Init PROVE HonestInv
    OBVIOUS
  <2>1. EffectInv
    BY EffectInvInit
  <2> QED
    BY <2>1 DEF Init, KernelInit, HonestInv, LeasesHeld, HonestResults
<1>2. HonestInv /\ [Next]_vars => HonestInv'
  BY HonestInvKept
<1>3. HonestInv => HonestResults
  BY DEF HonestInv
<1> QED
  BY <1>1, <1>2, <1>3, PTL DEF Spec

-----------------------------------------------------------------------------
(* Scope.  While nobody asks for a pause and no publication fails, a Task  *)
(* reaches a person, an execution or a continuation only after its scan    *)
(* has started every source, so what it completes with is all there is.    *)

Absent(t)  == {s \in Sources : item[t][s] = "absent"}
Scanned(t) == Absent(t) = {}
Written(to) == \A s \in DOMAIN to : to[s] \notin {"absent", "paused"}

(* Nothing is paused, and no call under way is going to pause anything.    *)
RowsUnpaused ==
  \A t \in Tasks :
    /\ control[t] # "pause" /\ queue[t] # "paused"
    /\ \A s \in Sources : item[t][s] # "paused"
PassUnpaused(p) == Written(p.to) /\ \A k \in p.seen : k.control = "cancel"
RequestUnpaused(r) == r.control = "cancel" /\ \A k \in r.rows : Written(k.to)

TaskScope(t) ==
  /\ queue[t] = "waiting_human" \/ OpenExecution(t) => Scanned(t)
  /\ status[t] = "none" => Absent(t) = Sources
  /\ status[t] = "pending" => Scanned(t) \/ Absent(t) = Sources
  /\ status[t] = "completed" => queue[t] = "settled" /\ \A s \in Sources : item[t][s] \in SettledItems

(* The steps of a scan: its list holds all that is absent, all but the     *)
(* source it is about to start, or nothing is absent; it raises for a      *)
(* control only.                                                           *)
ListSteps   == {"choosing", "started", "mutating", "publishing", "republishing"}
PickedSteps == {"starting", "refused"}
EndSteps    == {"ending", "deferring", "completing", "yielding", "returning"}
RaisedSteps == {"raised", "retiring"}
BackSteps   == {"parked", "reprojecting"}

PassScope(p) ==
  /\ p.kind \in {"continuation", "execution"} => Scanned(p.task)
  /\ p.kind = "automatic" => p.pc \notin WorkingSteps \cup EndSteps
  /\ p.kind = "scan" =>
       /\ p.pc \in ListSteps => Absent(p.task) \subseteq p.todo
       /\ p.pc \in PickedSteps => Absent(p.task) \subseteq p.todo \cup p.source
       /\ p.pc \in EndSteps => Scanned(p.task)
       /\ p.pc \in RaisedSteps => control[p.task] # "none"
       /\ p.pc \notin BackSteps
  /\ p.pc = "completing" =>
       DOMAIN p.to = Sources /\ \A s \in Sources : p.to[s] \in SettledItems \cup MachineItems

ScopeInv ==
  /\ EffectInv /\ RowsUnpaused
  /\ \A t \in Tasks : TaskScope(t)
  /\ \A p \in passes : PassUnpaused(p) /\ PassScope(p)
  /\ \A r \in requests : RequestUnpaused(r)

LEMMA ScopeInvImplies == ScopeInv => CompletedLeavesNothingOpen
  BY DEF ScopeInv, TaskScope, CompletedLeavesNothingOpen

(* What a step may do to the rows of a Task.                               *)
RowsKept(t) ==
  \A s \in Sources :
    \/ item'[t][s] = item[t][s]
    \/ item[t][s] \notin SettledItems \cup {"absent"} /\ item'[t][s] \notin {"absent", "paused"}
SourceStarts(t) ==
  status[t] = "running" /\ \A s \in Sources : item'[t][s] \in {item[t][s], "processing"}
RowsMove(t) == RowsKept(t) \/ SourceStarts(t)

LEMMA AbsentShrinks ==
  ASSUME NEW t, RowsMove(t)
  PROVE  /\ Absent(t)' \subseteq Absent(t)
         /\ Scanned(t) => Scanned(t)'
         /\ status[t] # "running" => Absent(t)' = Absent(t)
<1>1. CASE RowsKept(t)
  BY <1>1 DEF RowsKept, Absent, Scanned
<1>2. CASE SourceStarts(t)
  BY <1>2 DEF SourceStarts, Absent, Scanned
<1> QED
  BY <1>1, <1>2 DEF RowsMove

(* The calls write rows that exist and never one that ended.               *)
RowCall(t, w, g, s, S, to, st, q, seen, expected, close, effect, keyed) ==
  \/ Admit(t) \/ Requeue(t) \/ LeaseLapses(t) \/ (\E c \in {"cancel"} : RequestControl(t, c))
  \/ ParkItem(t, s) \/ Decide(t, s) \/ Ignore(t, s)
  \/ Confirm(t, S) /\ \A x \in S : item[t][x] = "confirm"
  \/ Claim(w, t) \/ Heartbeat(w, g, t) \/ BeginWork(w, g, t) \/ YieldClaim(w, g, t)
  \/ RecordItems(w, g, t, to) /\ Written(to)
  \/ BeginMutation(w, g, t, s) \/ PublishOutcome(w, g, t, s, effect, keyed)
  \/ ReleaseClaim(w, g, t, st, to, q, expected, close) /\ Written(to)
  \/ ReleaseUnowned(t, st, to, seen, q, expected) /\ Written(to)
  \/ UNCHANGED kernelVars

LEMMA OneRowMoves ==
  ASSUME KernelTypeOK, NEW t \in Tasks, NEW s \in Sources, NEW new, new \notin {"absent", "paused"},
         item[t][s] \notin SettledItems \cup {"absent"}, item' = [item EXCEPT ![t][s] = new]
  PROVE  \A u \in Tasks : RowsKept(u)
  BY DEF KernelTypeOK, RowsKept

LEMMA OverlayMoves ==
  ASSUME KernelTypeOK, NEW t \in Tasks, NEW to, Written(to), NEW seen,
         \A s \in DOMAIN to : AcceptsProgress(t, s, to[s], seen[s]),
         item' = [item EXCEPT ![t] = Overlay(@, to)]
  PROVE  \A u \in Tasks : RowsKept(u)
<1>1. \A u \in Tasks \ {t} : item'[u] = item[u]
  BY DEF KernelTypeOK
<1>2. \A s \in Sources : item'[t][s] = IF s \in DOMAIN to THEN to[s] ELSE item[t][s]
  BY DEF KernelTypeOK, Overlay
<1>3. \A s \in DOMAIN to : item[t][s] # "absent" /\ (item[t][s] \in SettledItems => to[s] = item[t][s])
  BY DEF AcceptsProgress, HasRecordedOutcome
<1> QED
  BY <1>1, <1>2, <1>3 DEF RowsKept, Written

LEMMA CallsKeepRows ==
  ASSUME KernelTypeOK, NEW t \in Tasks, NEW s \in Sources, NEW S \in SUBSET Sources,
         NEW w, NEW g, NEW to, NEW st, NEW q, NEW seen, NEW expected, NEW close, NEW effect, NEW keyed,
         RowCall(t, w, g, s, S, to, st, q, seen, expected, close, effect, keyed)
  PROVE  \A u \in Tasks : RowsKept(u)
<1>1. UNCHANGED item => \A u \in Tasks : RowsKept(u)
  BY DEF RowsKept
<1>2. CASE \/ Admit(t) \/ Requeue(t) \/ LeaseLapses(t) \/ (\E c \in {"cancel"} : RequestControl(t, c))
           \/ Claim(w, t) \/ Heartbeat(w, g, t) \/ BeginWork(w, g, t) \/ YieldClaim(w, g, t)
           \/ BeginMutation(w, g, t, s) \/ UNCHANGED kernelVars
  BY <1>1, <1>2 DEF Admit, Requeue, LeaseLapses, RequestControl, Claim, Heartbeat, BeginWork,
     YieldClaim, BeginMutation, kernelVars, itemVars
<1>3. CASE ParkItem(t, s) \/ Decide(t, s)
  BY <1>3, OneRowMoves DEF ParkItem, Decide, SettledItems
<1>4. CASE Ignore(t, s)
  <2>1. item[t][s] = "review" /\ item' = [item EXCEPT ![t] = [item[t] EXCEPT ![s] = "ignored"]]
    BY <1>4 DEF Ignore
  <2> QED
    BY <2>1 DEF RowsKept, SettledItems, KernelTypeOK
<1>5. CASE Confirm(t, S) /\ \A x \in S : item[t][x] = "confirm"
  BY <1>5 DEF Confirm, RowsKept, SettledItems, KernelTypeOK
<1>6. CASE PublishOutcome(w, g, t, s, effect, keyed)
  <2>1. PICK new \in {"success", "failed"} : item' = [item EXCEPT ![t][s] = new]
    BY <1>6 DEF PublishOutcome
  <2> QED
    BY <1>6, <2>1, OneRowMoves DEF PublishOutcome, SettledItems
<1>7. CASE RecordItems(w, g, t, to) /\ Written(to)
  BY <1>7, OverlayMoves DEF RecordItems
<1>8. CASE Written(to) /\ (ReleaseClaim(w, g, t, st, to, q, expected, close)
                           \/ ReleaseUnowned(t, st, to, seen, q, expected))
  BY <1>8, OverlayMoves DEF ReleaseClaim, ReleaseUnowned, ReleaseRefused, ReleaseWrites
<1> QED
  BY <1>2, <1>3, <1>4, <1>5, <1>6, <1>7, <1>8 DEF RowCall

(* Nor do they pause, but for the release into a paused queue.             *)
LEMMA CallsKeepUnpaused ==
  ASSUME KernelTypeOK, RowsUnpaused, NEW t \in Tasks, NEW s \in Sources, NEW S \in SUBSET Sources,
         NEW w, NEW g, NEW to, NEW st, NEW q, q # "paused", NEW seen, NEW expected, NEW close,
         NEW effect, NEW keyed,
         \/ RowCall(t, w, g, s, S, to, st, q, seen, expected, close, effect, keyed)
         \/ StartItem(w, g, t, s)
  PROVE  /\ RowsUnpaused'
         /\ \A u \in Tasks : queue[u] = "claimed" /\ control[u] # "none" => control'[u] # "none"
<1> USE DEF KernelTypeOK
<1>1. \A u \in Tasks, x \in Sources : item'[u][x] # "paused"
  <2>1. CASE StartItem(w, g, t, s)
    BY <2>1 DEF StartItem, RowsUnpaused
  <2> QED
    BY <2>1, CallsKeepRows DEF RowsKept, RowsUnpaused
<1>2. /\ \A u \in Tasks : control'[u] # "pause" /\ queue'[u] # "paused"
      /\ \A u \in Tasks : queue[u] = "claimed" /\ control[u] # "none" => control'[u] # "none"
  <2> USE DEF RowsUnpaused, claimVars, controlVars
  <2>1. CASE \/ Admit(t) \/ Requeue(t) \/ LeaseLapses(t) \/ (\E c \in {"cancel"} : RequestControl(t, c))
    BY <2>1 DEF Admit, Requeue, RequeueWrites, LeaseLapses, RequestControl
  <2>2. CASE ParkItem(t, s) \/ Decide(t, s) \/ Ignore(t, s) \/ Confirm(t, S)
    BY <2>2 DEF ParkItem, Decide, Ignore, Confirm, RequeueWrites
  <2>3. CASE Claim(w, t) \/ Heartbeat(w, g, t) \/ BeginWork(w, g, t) \/ YieldClaim(w, g, t)
    BY <2>3 DEF Claim, Heartbeat, BeginWork, YieldClaim
  <2>4. CASE RecordItems(w, g, t, to) \/ StartItem(w, g, t, s) \/ BeginMutation(w, g, t, s)
             \/ PublishOutcome(w, g, t, s, effect, keyed)
    BY <2>4 DEF RecordItems, StartItem, BeginMutation, PublishOutcome
  <2>5. CASE ReleaseClaim(w, g, t, st, to, q, expected, close) \/ ReleaseUnowned(t, st, to, seen, q, expected)
    BY <2>5 DEF ReleaseClaim, ReleaseUnowned, ReleaseWrites
  <2>6. CASE UNCHANGED kernelVars
    BY <2>6 DEF kernelVars
  <2> QED
    BY <2>1, <2>2, <2>3, <2>4, <2>5, <2>6 DEF RowCall
<1> QED
  BY <1>1, <1>2 DEF RowsUnpaused

(* The rows the passes and the settlements compute.                        *)
LEMMA DifferingWritten ==
  ASSUME NEW rows, NEW after, \A s \in Sources : after[s] = rows[s] \/ after[s] \notin {"absent", "paused"}
  PROVE  Written(Differing(rows, after))
  BY DEF Differing, Written

LEMMA TurnedWritten ==
  ASSUME NEW rows, NEW from, NEW to, to \notin {"absent", "paused"}
  PROVE  \A s \in Sources : Turned(rows, from, to)[s] = rows[s] \/ Turned(rows, from, to)[s] \notin {"absent", "paused"}
  BY DEF Turned

LEMMA SettledWritten ==
  ASSUME NEW rows
  PROVE  Written(Settled(rows, "cancel"))
<1>1. Settled(rows, "cancel") = Differing(rows, Turned(rows, Cancellable, "cancelled"))
  BY DEF Settled
<1> QED
  BY <1>1, DifferingWritten, TurnedWritten

(* What every step does to the rows, the controls and the paused queue.    *)
RowsInScope ==
  /\ RowsUnpaused' /\ \A u \in Tasks : RowsMove(u)
  /\ \A u \in Tasks : queue[u] = "claimed" /\ control[u] # "none" => control'[u] # "none"

LEMMA CallInScope ==
  ASSUME KernelTypeOK, RowsUnpaused, NEW t \in Tasks, NEW s \in Sources, NEW S \in SUBSET Sources,
         NEW w, NEW g, NEW to, NEW st, NEW q, q # "paused", NEW seen, NEW expected, NEW close,
         NEW effect, NEW keyed,
         RowCall(t, w, g, s, S, to, st, q, seen, expected, close, effect, keyed)
  PROVE  RowsInScope
  BY CallsKeepRows, CallsKeepUnpaused DEF RowsInScope, RowsMove

LEMMA StartInScope ==
  ASSUME KernelTypeOK, RowsUnpaused, NEW t \in Tasks, NEW s \in Sources, NEW w, NEW g,
         StartItem(w, g, t, s), status[t] = "running"
  PROVE  RowsInScope /\ item'[t][s] # "absent"
<1>1. \A u \in Tasks : RowsMove(u)
  <2>1. SourceStarts(t) /\ \A u \in Tasks \ {t} : RowsKept(u)
    BY DEF StartItem, SourceStarts, RowsKept, KernelTypeOK
  <2> QED
    BY <2>1 DEF RowsMove
<1> QED
  BY <1>1, CallsKeepUnpaused DEF RowsInScope, StartItem, KernelTypeOK

LEMMA NothingInScope ==
  ASSUME RowsUnpaused, UNCHANGED kernelVars
  PROVE  RowsInScope
  BY DEF RowsInScope, RowsMove, RowsKept, RowsUnpaused, kernelVars

LEMMA RecordInScope ==
  ASSUME KernelTypeOK, RowsUnpaused, NEW t \in Tasks, NEW w, NEW g, NEW to, Written(to),
         RecordItems(w, g, t, to)
  PROVE  RowsInScope
<1>1. \A u \in Tasks : RowsMove(u)
  BY OverlayMoves DEF RecordItems, RowsMove
<1>2. \A u \in Tasks, s \in Sources : item'[u][s] # "paused"
  <2>1. \A u \in Tasks : RowsKept(u)
    BY OverlayMoves DEF RecordItems
  <2> QED
    BY <2>1 DEF RowsKept, RowsUnpaused
<1> QED
  BY <1>1, <1>2 DEF RowsInScope, RowsUnpaused, RecordItems, controlVars

LEMMA ReleaseInScope ==
  ASSUME KernelTypeOK, RowsUnpaused, NEW t \in Tasks, NEW to, Written(to), NEW st, NEW q, q # "paused",
         NEW seen, NEW expected, NEW close,
         ReleaseWrites(t, st, to, q), ~ReleaseRefused(t, to, seen, expected, close)
  PROVE  RowsInScope
<1>1. \A u \in Tasks : RowsKept(u)
  BY OverlayMoves DEF ReleaseWrites, ReleaseRefused
<1>2. \A u \in Tasks, s \in Sources : item'[u][s] # "paused"
  BY <1>1 DEF RowsKept, RowsUnpaused
<1>3. \A u \in Tasks : queue'[u] # "paused"
  BY DEF ReleaseWrites, RowsUnpaused, KernelTypeOK
<1> QED
  BY <1>1, <1>2, <1>3 DEF RowsInScope, RowsMove, RowsUnpaused, ReleaseWrites, controlVars

LEMMA RetiredWritten ==
  ASSUME NEW t, NEW after,
         after \in {Stopped(t), Turned(Stopped(t), {"pending"}, "cancelled"),
                    Turned(Stopped(t), {"pending"}, "confirm")}
  PROVE  Written(Differing(item[t], after))
<1>1. \A s \in Sources : Stopped(t)[s] = item[t][s] \/ Stopped(t)[s] = "failed"
  BY DEF Stopped
<1>2. \A s \in Sources : after[s] = item[t][s] \/ after[s] \notin {"absent", "paused"}
  BY <1>1, TurnedWritten
<1> QED
  BY <1>2, DifferingWritten

LEMMA PassRowsInScope ==
  ASSUME ScopeInv, NEW p \in passes, PassStep(p) \/ KeepAlive(p) \/ Crash(p)
  PROVE  RowsInScope
<1>1. /\ p \in Passes /\ p.task \in Tasks /\ KernelTypeOK /\ RowsUnpaused /\ PassUnpaused(p)
      /\ p.pc \in WorkingSteps => status[p.task] = "running"
  BY PassFacts DEF ScopeInv, EffectInv, TypeOK, OneOrganizer
<1>2. CASE UNCHANGED kernelVars
  BY <1>1, <1>2, NothingInScope
<1>3. CASE \/ Renew(p) \/ BeginWork(p.worker, p.gen, p.task) \/ YieldClaim(p.worker, p.gen, p.task)
           \/ \E s \in Sources : \/ ParkItem(p.task, s) \/ BeginMutation(p.worker, p.gen, p.task, s)
                                 \/ \E effect, keyed : PublishOutcome(p.worker, p.gen, p.task, s, effect, keyed)
  <2>1. CASE Renew(p) \/ BeginWork(p.worker, p.gen, p.task) \/ YieldClaim(p.worker, p.gen, p.task)
    BY <1>1, <2>1 DEF RowsInScope, RowsMove, RowsKept, RowsUnpaused, Renew, Heartbeat, BeginWork,
       YieldClaim, KernelTypeOK, claimVars, controlVars, itemVars
  <2>2. "queued" # "paused"
    OBVIOUS
  <2> QED
    BY <1>1, <1>3, <2>1, <2>2, CallInScope DEF RowCall
<1>4. ASSUME NEW to, Written(to), RecordItems(p.worker, p.gen, p.task, to)
      PROVE  RowsInScope
  BY <1>1, <1>4, RecordInScope
<1>5. ASSUME NEW to, Written(to), NEW st, NEW q, q # "paused", NEW expected, NEW close,
             ReleaseClaim(p.worker, p.gen, p.task, st, to, q, expected, close)
      PROVE  RowsInScope
  BY <1>1, <1>5, ReleaseInScope DEF ReleaseClaim
<1>6. CASE \/ ReadState(p) \/ EnterWork(p) \/ BeginPass(p) \/ LastSource(p) \/ FailBeforeEffect(p)
           \/ PublishFails(p) \/ (\E e \in EffectOutcomes : CallStorage(p, e)) \/ KeepAlive(p) \/ Crash(p)
           \/ Raised(p) \/ EndAutomatic(p) \/ Yield(p) \/ Return(p) \/ Acknowledge(p) \/ CapturePause(p)
  BY <1>2, <1>3, <1>6 DEF ReadState, EnterWork, BeginPass, LastSource, FailBeforeEffect, PublishFails,
     CallStorage, KeepAlive, Crash, Raised, EndAutomatic, Yield, Return, Acknowledge, CapturePause,
     ReadOnly
<1>7. ASSUME NEW s \in Sources,
             \/ PickSource(p, s) \/ Start(p, s) \/ StartRefused(p, s) \/ Summarize(p, s)
             \/ Park(p, s) \/ ReadBack(p, s) \/ EnterMutation(p, s) \/ Publish(p, s)
      PROVE  RowsInScope
  <2>1. CASE p.pc \in WorkingSteps /\ StartItem(p.worker, p.gen, p.task, s)
    BY <1>1, <2>1, StartInScope
  <2>2. Written([x \in {s} |-> "confirm"])
    BY DEF Written
  <2>3. CASE Start(p, s) \/ StartRefused(p, s)
    BY <1>2, <2>1, <2>3 DEF Start, StartRefused, WorkingSteps
  <2>4. CASE Summarize(p, s)
    BY <1>2, <1>4, <2>2, <2>4 DEF Summarize
  <2> QED
    BY <1>2, <1>3, <1>7, <2>3, <2>4 DEF PickSource, Park, ReadBack, ReadOnly, EnterMutation, Publish
<1>8. CASE Reproject(p)
  BY <1>1, <1>2, <1>4, <1>8 DEF Reproject, PassUnpaused
<1>9. ASSUME NEW after, Records(p, after),
             after \in {Stopped(p.task), Turned(Stopped(p.task), {"pending"}, "cancelled"),
                        Turned(Stopped(p.task), {"pending"}, "confirm"),
                        Turned(item[p.task], {"pending"}, "confirm")}
      PROVE  RowsInScope
  <2>1. Written(Differing(item[p.task], after))
    BY <1>9, RetiredWritten, TurnedWritten, DifferingWritten
  <2> QED
    BY <1>4, <1>9, <2>1 DEF Records
<1>10. CASE Retire(p)
  BY <1>2, <1>9, <1>10 DEF Retire
<1>11. CASE EndExecution(p)
  BY <1>2, <1>9, <1>11 DEF EndExecution
<1>12. CASE Release(p)
  BY <1>1, <1>2, <1>5, <1>12 DEF Release, PassUnpaused
<1>13. CASE Fail(p)
  <2>1. Written(Differing(item[p.task], Turned(item[p.task], MachineItems, "failed")))
    BY TurnedWritten, DifferingWritten
  <2> QED
    BY <1>2, <1>5, <1>13, <2>1 DEF Fail
<1>14. ASSUME NEW k \in p.seen, Settle(p, k)
       PROVE  RowsInScope
  BY <1>1, <1>2, <1>5, <1>14 DEF Settle, PassUnpaused, SettledQueue
<1> QED
  BY <1>6, <1>7, <1>8, <1>10, <1>11, <1>12, <1>13, <1>14 DEF PassStep

(* A pass that does not step keeps its scope: what it relies on can only   *)
(* become truer while it owns the claim.                                   *)
LEMMA StandingInScope ==
  ASSUME ScopeInv, RowsInScope, NEW q \in passes
  PROVE  PassScope(q)'
<1>1. q.task \in Tasks /\ PassScope(q)
  BY PassFacts DEF ScopeInv, EffectInv
<1>2. Absent(q.task)' \subseteq Absent(q.task) /\ (Scanned(q.task) => Scanned(q.task)')
  BY <1>1, AbsentShrinks DEF RowsInScope
<1>3. q.pc \in RaisedSteps /\ control[q.task] # "none" => control'[q.task] # "none"
  BY <1>1 DEF ScopeInv, EffectInv, OneOrganizer, RaisedSteps, WorkingSteps, Mine, Owns, RowsInScope
<1> QED
  BY <1>1, <1>2, <1>3 DEF PassScope

(* Where a pass may go on from each of its steps.                          *)
LEMMA GoesOnInScope ==
  ASSUME ScopeInv, RowsInScope, NEW p \in passes, NEW q, SamePass(p, q), q.kind = p.kind,
         q.todo = p.todo, q.source = p.source, UNCHANGED control, q.pc # "completing",
         p.kind = "automatic" /\ q.pc \in WorkingSteps \cup EndSteps => p.pc \in WorkingSteps \cup EndSteps,
         p.kind = "scan" =>
           /\ q.pc \in ListSteps => p.pc \in ListSteps
           /\ q.pc \in PickedSteps => p.pc \in PickedSteps
           /\ q.pc \in EndSteps => p.pc \in EndSteps \/ Scanned(p.task)
           /\ q.pc \in RaisedSteps => p.pc \in RaisedSteps \/ control[p.task] # "none"
           /\ q.pc \notin BackSteps
  PROVE  PassScope(q)'
<1>1. p.task \in Tasks /\ PassScope(p)
  BY PassFacts DEF ScopeInv, EffectInv
<1>2. Absent(p.task)' \subseteq Absent(p.task) /\ (Scanned(p.task) => Scanned(p.task)')
  BY <1>1, AbsentShrinks DEF RowsInScope
<1> QED
  BY <1>1, <1>2 DEF PassScope, SamePass

(* What a step of a pass has to show: the pass it becomes keeps the scope. *)
NextInScope(p) ==
  \A q \in passes' \ passes : PassUnpaused(q) /\ PassScope(q)'

GoesFrom(p, step) ==
  /\ step # "completing"
  /\ p.kind = "automatic" /\ step \in WorkingSteps \cup EndSteps => p.pc \in WorkingSteps \cup EndSteps
  /\ p.kind = "scan" =>
       /\ step \in ListSteps => p.pc \in ListSteps
       /\ step \in PickedSteps => p.pc \in PickedSteps
       /\ step \in EndSteps => p.pc \in EndSteps \/ Scanned(p.task)
       /\ step \in RaisedSteps => p.pc \in RaisedSteps \/ control[p.task] # "none"
       /\ step \notin BackSteps

LEMMA GotoInScope ==
  ASSUME ScopeInv, RowsInScope, NEW p \in passes, UNCHANGED control, NEW step, GoesFrom(p, step),
         NEW effect,
         Goto(p, step) \/ Become(p, [p EXCEPT !.pc = step, !.effect = effect]) 
  PROVE  NextInScope(p)
<1>1. p \in Passes /\ PassUnpaused(p)
  BY PassFacts DEF ScopeInv, EffectInv
<1>2. ASSUME NEW q, q \in {[p EXCEPT !.pc = step], [p EXCEPT !.pc = step, !.effect = effect]}
      PROVE  PassUnpaused(q) /\ PassScope(q)'
  <2>1. /\ SamePass(p, q) /\ q.kind = p.kind /\ q.todo = p.todo /\ q.source = p.source
        /\ q.pc = step /\ q.to = p.to /\ q.seen = p.seen
    BY <1>1, <1>2 DEF Passes, SamePass
  <2>2. PassUnpaused(q)
    BY <1>1, <2>1 DEF PassUnpaused
  <2>3. PassScope(q)'
    BY <2>1, GoesOnInScope DEF GoesFrom
  <2> QED
    BY <2>2, <2>3
<1> QED
  BY <1>2 DEF NextInScope, Goto, Become

LEMMA RowsBecomeInScope ==
  ASSUME ScopeInv, RowsInScope, NEW p \in passes, UNCHANGED control, NEW step, GoesFrom(p, step),
         NEW to, Written(to), NEW seen, \A k \in seen : k.control = "cancel",
         \/ Become(p, [p EXCEPT !.pc = step, !.to = to])
         \/ Become(p, [p EXCEPT !.pc = step, !.to = to, !.seen = seen])
  PROVE  NextInScope(p)
<1>1. p \in Passes /\ PassUnpaused(p)
  BY PassFacts DEF ScopeInv, EffectInv
<1>2. ASSUME NEW q, q \in {[p EXCEPT !.pc = step, !.to = to], [p EXCEPT !.pc = step, !.to = to, !.seen = seen]}
      PROVE  PassUnpaused(q) /\ PassScope(q)'
  <2>1. /\ SamePass(p, q) /\ q.kind = p.kind /\ q.todo = p.todo /\ q.source = p.source
        /\ q.pc = step /\ q.to = to /\ q.seen \in {p.seen, seen}
    BY <1>1, <1>2 DEF Passes, SamePass
  <2>2. PassUnpaused(q)
    BY <1>1, <2>1 DEF PassUnpaused
  <2>3. PassScope(q)'
    BY <2>1, GoesOnInScope DEF GoesFrom
  <2> QED
    BY <2>2, <2>3
<1> QED
  BY <1>2 DEF NextInScope, Become

LEMMA EndInScope ==
  ASSUME NEW p, End(p) \/ UNCHANGED passes
  PROVE  NextInScope(p)
  BY DEF End, NextInScope

(* A settlement captures a cancel.                                         *)
LEMMA CaptureInScope ==
  ASSUME ScopeInv, RowsInScope, NEW p \in passes, UNCHANGED control, NEW rows, NEW closes,
         Capture(p, rows, closes), control[p.task] # "none"
  PROVE  NextInScope(p)
<1>1. control[p.task] = "cancel"
  BY PassFacts DEF ScopeInv, EffectInv, RowsUnpaused, TypeOK, KernelTypeOK, Controls
<1>2. PICK seen : seen = {[control |-> "cancel", revision |-> revision[p.task], closes |-> closes]}
  OBVIOUS
<1>3. PICK to : to = Settled(rows, "cancel")
  OBVIOUS
<1>4. GoesFrom(p, "settling")
  BY DEF GoesFrom, WorkingSteps, EndSteps, ListSteps, PickedSteps, RaisedSteps, BackSteps
<1>5. Become(p, [p EXCEPT !.pc = "settling", !.to = to, !.seen = seen])
  BY <1>1, <1>2, <1>3 DEF Capture
<1>6. Written(to) /\ \A k \in seen : k.control = "cancel"
  BY <1>2, <1>3, SettledWritten
<1> QED
  BY <1>4, <1>5, <1>6, RowsBecomeInScope

(* A completion lists every source, and none of them is open.              *)
LEMMA CompletesInScope ==
  ASSUME ScopeInv, RowsInScope, NEW p \in passes, NEW rows, Completes(p, rows), p.kind # "automatic",
         DOMAIN rows = Sources, \A s \in Sources : rows[s] \in SettledItems \cup MachineItems,
         Scanned(p.task)
  PROVE  NextInScope(p)
<1>1. p \in Passes /\ PassUnpaused(p) /\ p.task \in Tasks
  BY PassFacts DEF ScopeInv, EffectInv
<1>2. PICK q : passes' = (passes \ {p}) \cup {q} /\ q = [p EXCEPT !.pc = "completing", !.to = Present(rows)]
  BY DEF Completes, Become
<1>3. q.pc = "completing" /\ q.to = Present(rows) /\ q.seen = p.seen /\ q.kind = p.kind /\ q.task = p.task
  BY <1>1, <1>2 DEF Passes
<1>4. DOMAIN Present(rows) = Sources /\ \A s \in Sources : Present(rows)[s] = rows[s]
  BY DEF Present, SettledItems, MachineItems
<1>5. PassUnpaused(q)
  BY <1>1, <1>3, <1>4 DEF PassUnpaused, Written, SettledItems, MachineItems
<1>6. Scanned(p.task)'
  BY <1>1, AbsentShrinks DEF RowsInScope
<1>7. PassScope(q)'
  BY <1>3, <1>4, <1>6 DEF PassScope, WorkingSteps, EndSteps, ListSteps, PickedSteps, RaisedSteps, BackSteps
<1> QED
  BY <1>2, <1>5, <1>7 DEF NextInScope

LEMMA OutcomeInScope ==
  ASSUME ScopeInv, RowsInScope, NEW p \in passes, UNCHANGED control, NEW rows, Outcome(p, rows),
         p.kind # "automatic", rows \in [Sources -> ItemStatuses], Scanned(p.task),
         \A s \in Sources : rows[s] \notin {"absent", "paused"}
  PROVE  NextInScope(p)
<1>1. CASE End(p)
  BY <1>1, EndInScope
<1>2. CASE Goto(p, "yielding") \/ Goto(p, "deferring")
  <2>1. GoesFrom(p, "yielding") /\ GoesFrom(p, "deferring")
    BY DEF GoesFrom, WorkingSteps, EndSteps, ListSteps, PickedSteps, RaisedSteps, BackSteps
  <2> QED
    BY <1>2, <2>1, GotoInScope
<1>3. CASE Completes(p, rows) /\ ~\E s \in Sources : rows[s] \in MachineItems \cup WaitingItems
  <2>1. \A s \in Sources : rows[s] \in SettledItems
    BY <1>3 DEF ItemStatuses
  <2> QED
    BY <1>3, <2>1, CompletesInScope
<1> QED
  BY <1>1, <1>2, <1>3 DEF Outcome

LEMMA PassesKeepControl ==
  ASSUME NEW p, PassStep(p) \/ KeepAlive(p) \/ Crash(p)
  PROVE  UNCHANGED control
<1>1. CASE UNCHANGED kernelVars
  BY <1>1 DEF kernelVars
<1>2. CASE \/ Renew(p) \/ (\E after : Records(p, after)) \/ (\E to : RecordItems(p.worker, p.gen, p.task, to))
           \/ YieldClaim(p.worker, p.gen, p.task) \/ BeginWork(p.worker, p.gen, p.task)
  BY <1>2 DEF Renew, Heartbeat, Records, RecordItems, YieldClaim, BeginWork, controlVars
<1>3. CASE \E st, to, q, expected, close : ReleaseClaim(p.worker, p.gen, p.task, st, to, q, expected, close)
  BY <1>3 DEF ReleaseClaim, ReleaseWrites, controlVars
<1>4. CASE \E s : \/ StartItem(p.worker, p.gen, p.task, s) \/ BeginMutation(p.worker, p.gen, p.task, s)
                  \/ ParkItem(p.task, s)
                  \/ \E effect, keyed : PublishOutcome(p.worker, p.gen, p.task, s, effect, keyed)
  BY <1>4 DEF StartItem, BeginMutation, ParkItem, PublishOutcome, controlVars
<1>5. CASE \/ ReadState(p) \/ EnterWork(p) \/ BeginPass(p) \/ LastSource(p) \/ Reproject(p)
           \/ FailBeforeEffect(p) \/ PublishFails(p) \/ \E e \in EffectOutcomes : CallStorage(p, e)
  BY <1>1, <1>2, <1>5 DEF ReadState, EnterWork, BeginPass, LastSource, Reproject, FailBeforeEffect,
     PublishFails, CallStorage, ReadOnly
<1>6. ASSUME NEW s \in Sources,
             \/ PickSource(p, s) \/ Start(p, s) \/ StartRefused(p, s) \/ Summarize(p, s)
             \/ Park(p, s) \/ ReadBack(p, s) \/ EnterMutation(p, s) \/ Publish(p, s)
      PROVE  UNCHANGED control
  BY <1>1, <1>2, <1>4, <1>6 DEF PickSource, Start, StartRefused, Summarize, Park, ReadBack, ReadOnly,
     EnterMutation, Publish
<1>7. CASE \/ Raised(p) \/ Retire(p) \/ EndAutomatic(p) \/ EndExecution(p) \/ Release(p) \/ Yield(p)
           \/ Return(p) \/ Fail(p) \/ Acknowledge(p) \/ CapturePause(p) \/ (\E k \in p.seen : Settle(p, k))
           \/ KeepAlive(p) \/ Crash(p)
  BY <1>1, <1>2, <1>3, <1>7 DEF Raised, Retire, EndAutomatic, EndExecution, Release, Yield, Return,
     Fail, Acknowledge, CapturePause, Settle, KeepAlive, Crash, ReadOnly
<1> QED
  BY <1>5, <1>6, <1>7 DEF PassStep

(* The steps of a pass, one after the other.                               *)
StepInScope(p) == RowsInScope /\ UNCHANGED control

LEMMA EnteringInScope ==
  ASSUME ScopeInv, NEW p \in passes, StepInScope(p), ReadState(p) \/ EnterWork(p)
  PROVE  NextInScope(p)
<1>1. p \in Passes /\ p.task \in Tasks /\ PassUnpaused(p) /\ TaskScope(p.task)
  BY PassFacts DEF ScopeInv, EffectInv
<1>2. CASE ReadState(p)
  <2>1. PICK q : /\ passes' = (passes \ {p}) \cup {q}
                 /\ q = [p EXCEPT !.pc = IF control[p.task] = "none" THEN "entering" ELSE "acknowledging",
                                  !.kind = IF OpenExecution(p.task) THEN "execution" ELSE "automatic"]
    BY <1>2 DEF ReadState, Become
  <2>2. /\ q.pc \in {"entering", "acknowledging"} /\ q.to = p.to /\ q.seen = p.seen /\ q.task = p.task
        /\ q.kind = "automatic" \/ (q.kind = "execution" /\ OpenExecution(p.task))
    BY <1>1, <2>1 DEF Passes
  <2>3. Scanned(p.task) => Scanned(p.task)'
    BY <1>1, AbsentShrinks DEF StepInScope, RowsInScope
  <2>4. PassScope(q)'
    BY <1>1, <2>2, <2>3 DEF TaskScope, PassScope, WorkingSteps, EndSteps
  <2> QED
    BY <1>1, <2>1, <2>2, <2>4 DEF NextInScope, PassUnpaused
<1>3. CASE EnterWork(p)
  <2>1. GoesFrom(p, "beginning") /\ GoesFrom(p, "failing")
    BY DEF GoesFrom, WorkingSteps, EndSteps, ListSteps, PickedSteps, RaisedSteps, BackSteps
  <2> QED
    BY <1>3, <2>1, GotoInScope DEF EnterWork, StepInScope
<1> QED
  BY <1>2, <1>3

(* A continuation begins with decided work, which a scan has left; a scan  *)
(* begins with all that is absent.                                         *)
LEMMA BeginPassInScope ==
  ASSUME ScopeInv, NEW p \in passes, StepInScope(p), BeginPass(p)
  PROVE  NextInScope(p)
<1> DEFINE t == p.task
           pending == {s \in Sources : item[t][s] = "pending"}
           absent == {s \in Sources : item[t][s] = "absent"}
           into(step, kind, todo) == [p EXCEPT !.pc = step, !.kind = kind, !.todo = todo]
<1>1. p \in Passes /\ t \in Tasks /\ PassUnpaused(p) /\ TaskScope(t) /\ PassScope(p)
  BY PassFacts DEF ScopeInv, EffectInv
<1>2. CASE End(p)
  BY <1>2, EndInScope
<1>3. CASE BeginWork(p.worker, p.gen, t)
  <2>1. PICK step \in {"choosing", "yielding"}, kind \in PassKinds, todo \in SUBSET Sources :
          /\ Become(p, into(step, kind, todo))
          /\ \/ kind = "execution" /\ p.kind = "execution"
             \/ kind = "continuation" /\ pending # {}
             \/ kind = "scan" /\ todo = absent /\ step = "choosing"
    <3>1. \/ p.kind = "execution" /\ Become(p, into("choosing", "execution", {s \in Sources : run[t][s] = "admitted"}))
          \/ p.kind = "execution" /\ Become(p, into("yielding", "execution", {}))
          \/ pending # {} /\ Become(p, into("choosing", "continuation", pending))
          \/ Become(p, into("choosing", "scan", absent))
      BY <1>3 DEF BeginPass, MineLive, BeginWork
    <3>2. {"execution", "continuation", "scan"} \subseteq PassKinds
      BY DEF PassKinds
    <3> HIDE DEF into
    <3> QED
      BY <3>1, <3>2
  <2>2. PICK q : q = into(step, kind, todo)
    OBVIOUS
  <2>3. /\ q.pc = step /\ q.kind = kind /\ q.todo = todo /\ q.task = t
        /\ q.to = p.to /\ q.seen = p.seen
    BY <1>1, <2>2 DEF Passes
  <2>4. Absent(t)' \subseteq Absent(t) /\ (Scanned(t) => Scanned(t)')
    BY <1>1, AbsentShrinks DEF StepInScope, RowsInScope
  <2>5. kind = "execution" => Scanned(t)
    BY <1>1, <2>1 DEF PassScope
  <2>6. kind = "continuation" => Scanned(t)
    <3>1. status[t] = "pending"
      BY <1>3 DEF BeginWork
    <3>2. pending # {} => Absent(t) # Sources
      BY DEF Absent
    <3> QED
      BY <1>1, <2>1, <3>1, <3>2 DEF TaskScope
  <2>7. PassScope(q)'
    BY <2>1, <2>3, <2>4, <2>5, <2>6 DEF PassScope, Absent, WorkingSteps, EndSteps, ListSteps,
       PickedSteps, RaisedSteps, BackSteps
  <2> QED
    BY <1>1, <2>1, <2>2, <2>3, <2>7 DEF NextInScope, PassUnpaused, Become
<1> QED
  BY <1>2, <1>3 DEF BeginPass

LEMMA PickSourceInScope ==
  ASSUME ScopeInv, NEW p \in passes, StepInScope(p), NEW s \in Sources, PickSource(p, s)
  PROVE  NextInScope(p)
<1>1. p \in Passes /\ p.task \in Tasks /\ PassUnpaused(p) /\ PassScope(p) /\ p.pc = "choosing"
  BY PassFacts DEF ScopeInv, EffectInv, PickSource
<1>2. PICK q : /\ passes' = (passes \ {p}) \cup {q}
               /\ q = [p EXCEPT !.todo = @ \ {s}, !.source = {s},
                    !.pc = IF control[p.task] = "none" THEN "starting"
                           ELSE IF p.kind = "execution" THEN "acknowledging" ELSE "raised"]
  BY DEF PickSource, Become
<1>3. /\ q.kind = p.kind /\ q.task = p.task /\ q.to = p.to /\ q.seen = p.seen
      /\ q.todo = p.todo \ {s} /\ q.source = {s}
      /\ q.pc \in {"starting", "acknowledging", "raised"} /\ (q.pc = "raised" => control[p.task] # "none")
  BY <1>1, <1>2 DEF Passes
<1>4. Absent(p.task)' \subseteq Absent(p.task) /\ (Scanned(p.task) => Scanned(p.task)')
  BY <1>1, AbsentShrinks DEF StepInScope, RowsInScope
<1>5. PassScope(q)'
  BY <1>1, <1>3, <1>4 DEF PassScope, StepInScope, WorkingSteps, EndSteps, ListSteps, PickedSteps,
     RaisedSteps, BackSteps
<1> QED
  BY <1>1, <1>2, <1>3, <1>5 DEF NextInScope, PassUnpaused

LEMMA LastSourceInScope ==
  ASSUME ScopeInv, NEW p \in passes, StepInScope(p), LastSource(p)
  PROVE  NextInScope(p)
<1>1. PassScope(p) /\ p.pc = "choosing" /\ p.todo = {}
  BY DEF ScopeInv, LastSource
<1>2. GoesFrom(p, "ending")
  BY <1>1 DEF PassScope, Scanned, GoesFrom, WorkingSteps, EndSteps, ListSteps, PickedSteps,
     RaisedSteps, BackSteps
<1> QED
  BY <1>2, GotoInScope DEF LastSource, StepInScope

(* The source a scan starts leaves what is absent.                         *)
LEMMA StartedInScope ==
  ASSUME ScopeInv, NEW p \in passes, StepInScope(p), NEW s \in Sources, s \in p.source,
         p.pc \in PickedSteps, StartItem(p.worker, p.gen, p.task, s),
         NEW step \in {"started", "republishing"}, Goto(p, step)
  PROVE  NextInScope(p)
<1>1. /\ p \in Passes /\ p.task \in Tasks /\ PassUnpaused(p) /\ PassScope(p) /\ PassAccounts(p)
      /\ KernelTypeOK /\ status[p.task] = "running" /\ RowsUnpaused
  BY PassFacts DEF ScopeInv, EffectInv, OneOrganizer, TypeOK, PickedSteps, WorkingSteps
<1>2. p.source = {s}
  BY <1>1 DEF PassAccounts, PicksFresh, UntriedSteps, PickedSteps
<1>3. Absent(p.task)' \subseteq Absent(p.task) \ {s} /\ (Scanned(p.task) => Scanned(p.task)')
  BY <1>1, AbsentShrinks, StartInScope DEF StepInScope, RowsInScope, Absent
<1>4. PICK q : passes' = (passes \ {p}) \cup {q} /\ q = [p EXCEPT !.pc = step]
  BY DEF Goto, Become
<1>5. q.pc = step /\ q.kind = p.kind /\ q.task = p.task /\ q.to = p.to /\ q.seen = p.seen /\ q.todo = p.todo
  BY <1>1, <1>4 DEF Passes
<1>6. PassScope(q)'
  BY <1>1, <1>2, <1>3, <1>5 DEF PassScope, WorkingSteps, EndSteps, ListSteps, PickedSteps,
     RaisedSteps, BackSteps
<1> QED
  BY <1>1, <1>4, <1>5, <1>6 DEF NextInScope, PassUnpaused

LEMMA SourceInScope ==
  ASSUME ScopeInv, NEW p \in passes, StepInScope(p), NEW s \in Sources,
         \/ Start(p, s) \/ StartRefused(p, s) \/ Summarize(p, s) \/ Park(p, s) \/ ReadBack(p, s)
         \/ EnterMutation(p, s) \/ Publish(p, s)
  PROVE  NextInScope(p)
<1> USE DEF StepInScope
<1>1. PassScope(p) /\ p.task \in Tasks
  BY PassFacts DEF ScopeInv, EffectInv
<1>2. CASE End(p)
  BY <1>2, EndInScope
<1>3. ASSUME NEW step, GoesFrom(p, step), NEW effect,
             Goto(p, step) \/ Become(p, [p EXCEPT !.pc = step, !.effect = effect])
      PROVE  NextInScope(p)
  BY <1>3, GotoInScope
<1> USE DEF GoesFrom, WorkingSteps, EndSteps, ListSteps, PickedSteps, RaisedSteps, BackSteps
<1>4. CASE Start(p, s)
  <2>1. CASE StartItem(p.worker, p.gen, p.task, s)
    BY <1>2, <1>4, <2>1, StartedInScope DEF Start, StartItem, MineLive
  <2>2. CASE UNCHANGED kernelVars
    BY <1>2, <1>3, <1>4, <2>1, <2>2 DEF Start, Lost
  <2> QED
    BY <1>4, <2>1, <2>2 DEF Start
<1>5. CASE StartRefused(p, s)
  BY <1>2, <1>3, <1>5, StartedInScope DEF StartRefused
<1>6. CASE Summarize(p, s) \/ Park(p, s)
  BY <1>2, <1>3, <1>6 DEF Summarize, Park
<1>7. CASE ReadBack(p, s)
  <2>1. CASE /\ item[p.task][s] \in WaitingItems
             /\ Become(p, [p EXCEPT !.pc = "reprojecting", !.to = [x \in {s} |-> item[p.task][s]]])
    <3>1. PICK to : to = [x \in {s} |-> item[p.task][s]]
      OBVIOUS
    <3>2. Written(to)
      BY <2>1, <3>1 DEF Written, WaitingItems
    <3>3. GoesFrom(p, "reprojecting")
      BY <1>1, <1>7 DEF PassScope, ReadBack
    <3>4. Become(p, [p EXCEPT !.pc = "reprojecting", !.to = to])
      BY <2>1, <3>1
    <3>5. PICK seen : seen = {}
      OBVIOUS
    <3>6. \A k \in seen : k.control = "cancel"
      BY <3>5
    <3> HIDE DEF GoesFrom, WorkingSteps, EndSteps, ListSteps, PickedSteps, RaisedSteps, BackSteps
    <3> QED
      BY <3>2, <3>3, <3>4, <3>6, RowsBecomeInScope
  <2>2. GoesFrom(p, "raised")
    BY <1>1, <1>7 DEF PassScope, ReadBack
  <2> QED
    BY <1>2, <1>3, <1>7, <2>1, <2>2 DEF ReadBack
<1>8. CASE EnterMutation(p, s)
  BY <1>2, <1>3, <1>8 DEF EnterMutation, Lost
<1>9. CASE Publish(p, s)
  BY <1>3, <1>9 DEF Publish
<1> QED
  BY <1>4, <1>5, <1>6, <1>7, <1>8, <1>9

LEMMA StoppedRows ==
  ASSUME TypeOK, RowsUnpaused, NEW t \in Tasks, Scanned(t)
  PROVE  /\ Stopped(t) \in [Sources -> ItemStatuses] /\ DOMAIN Stopped(t) = Sources
         /\ \A s \in Sources : Stopped(t)[s] \notin {"absent", "paused"}
         /\ item[t] \in [Sources -> ItemStatuses] /\ DOMAIN item[t] = Sources
         /\ \A s \in Sources : item[t][s] \notin {"absent", "paused"}
<1>1. item[t] \in [Sources -> ItemStatuses] /\ \A s \in Sources : item[t][s] \notin {"absent", "paused"}
  BY DEF Scanned, Absent, RowsUnpaused, TypeOK, KernelTypeOK
<1>2. Stopped(t) \in [Sources -> ItemStatuses]
  BY StoppedType
<1>3. \A s \in Sources : Stopped(t)[s] = item[t][s] \/ Stopped(t)[s] = "failed"
  BY DEF Stopped
<1> QED
  BY <1>1, <1>2, <1>3

LEMMA StorageStepsInScope ==
  ASSUME ~WritesFail, ScopeInv, NEW p \in passes, StepInScope(p),
         \/ FailBeforeEffect(p) \/ PublishFails(p) \/ Reproject(p)
         \/ \E e \in EffectOutcomes : CallStorage(p, e)
  PROVE  NextInScope(p)
<1> USE DEF StepInScope
<1>1. PassScope(p) /\ p.task \in Tasks
  BY PassFacts DEF ScopeInv, EffectInv
<1>2. CASE End(p)
  BY <1>2, EndInScope
<1>3. ASSUME NEW step, GoesFrom(p, step), NEW effect,
             Goto(p, step) \/ Become(p, [p EXCEPT !.pc = step, !.effect = effect])
      PROVE  NextInScope(p)
  BY <1>3, GotoInScope
<1>4. CASE Reproject(p)
  <2>1. GoesFrom(p, "choosing") /\ GoesFrom(p, "raised")
    BY <1>1, <1>4 DEF Reproject, PassScope, GoesFrom, WorkingSteps, EndSteps, ListSteps, PickedSteps,
       RaisedSteps, BackSteps
  <2>2. PICK to : to = Nothing
    OBVIOUS
  <2>3. Written(to)
    BY <2>2 DEF Nothing, Written
  <2>4. PICK seen : seen = {}
    OBVIOUS
  <2>5. \A k \in seen : k.control = "cancel"
    BY <2>4
  <2>6. ASSUME NEW step \in {"choosing", "raised"}, Become(p, [p EXCEPT !.pc = step, !.to = to])
        PROVE  NextInScope(p)
    BY <2>1, <2>3, <2>5, <2>6, RowsBecomeInScope
  <2> QED
    BY <1>2, <1>4, <2>2, <2>6 DEF Reproject
<1> USE DEF GoesFrom, WorkingSteps, EndSteps, ListSteps, PickedSteps, RaisedSteps, BackSteps
<1>5. CASE FailBeforeEffect(p) \/ \E e \in EffectOutcomes : CallStorage(p, e)
  BY <1>3, <1>5 DEF FailBeforeEffect, CallStorage
<1>6. CASE PublishFails(p)
  BY <1>2, <1>3, <1>6 DEF PublishFails, Lost
<1> QED
  BY <1>4, <1>5, <1>6

LEMMA EndingInScope ==
  ASSUME ScopeInv, NEW p \in passes, StepInScope(p),
         Raised(p) \/ Retire(p) \/ EndAutomatic(p) \/ EndExecution(p)
  PROVE  NextInScope(p)
<1> USE DEF StepInScope
<1> DEFINE t == p.task
           rows == Stopped(t)
           cancelled == Turned(rows, {"pending"}, "cancelled")
           confirms == Turned(rows, {"pending"}, "confirm")
<1>1. /\ PassScope(p) /\ t \in Tasks /\ TypeOK /\ RowsUnpaused /\ PassAccounts(p)
      /\ p.kind \in PassKinds
  BY PassFacts DEF ScopeInv, EffectInv
<1>2. p.kind \in {"scan", "continuation", "execution"}
  <2>1. p.pc \in WorkingSteps
    BY DEF Raised, Retire, EndAutomatic, EndExecution, WorkingSteps
  <2> QED
    BY <1>1, <2>1 DEF PassScope, PassKinds, PassAccounts, KindFits, WorkingSteps
<1>3. CASE End(p)
  BY <1>3, EndInScope
<1>4. ASSUME NEW step, GoesFrom(p, step), Goto(p, step)
      PROVE  NextInScope(p)
  BY <1>4, GotoInScope
<1>5. Scanned(t) => /\ rows \in [Sources -> ItemStatuses] /\ DOMAIN rows = Sources
                    /\ item[t] \in [Sources -> ItemStatuses] /\ DOMAIN item[t] = Sources
                    /\ \A s \in Sources : {rows[s], item[t][s]} \cap {"absent", "paused"} = {}
  BY <1>1, StoppedRows
<1>6. CASE Raised(p)
  BY <1>4, <1>6 DEF Raised, GoesFrom, WorkingSteps, EndSteps, ListSteps, PickedSteps, RaisedSteps, BackSteps
<1>7. CASE Retire(p)
  <2>1. p.kind = "scan" => control[t] # "none"
    BY <1>1, <1>7 DEF Retire, PassScope, RaisedSteps
  <2>2. GoesFrom(p, "acknowledging") /\ (p.kind # "scan" => GoesFrom(p, "deferring"))
    BY <1>2 DEF GoesFrom, WorkingSteps, EndSteps, ListSteps, PickedSteps, RaisedSteps, BackSteps
  <2>3. p.kind # "scan" => Scanned(t)
    BY <1>1, <1>2 DEF PassScope
  <2>4. CASE Outcome(p, rows) /\ p.kind # "scan"
    BY <1>2, <1>5, <2>3, <2>4, OutcomeInScope
  <2>5. CASE Capture(p, cancelled, TRUE) /\ control[t] = "cancel"
    BY <2>5, CaptureInScope
  <2>6. CASE Completes(p, rows) /\ p.kind # "scan" /\ ~\E s \in Sources : confirms[s] \in WaitingItems
    <3>1. \A s \in Sources : rows[s] \notin WaitingItems
      BY <2>6 DEF Turned, WaitingItems
    <3>2. \A s \in Sources : rows[s] \in SettledItems \cup MachineItems
      BY <1>5, <2>3, <2>6, <3>1 DEF ItemStatuses
    <3> QED
      BY <1>2, <1>5, <2>3, <2>6, <3>2, CompletesInScope
  <2>7. \/ Goto(p, "acknowledging") \/ End(p)
        \/ Goto(p, "deferring") /\ p.kind # "scan"
        \/ Outcome(p, rows) /\ p.kind # "execution" /\ control[t] = "none"
        \/ Capture(p, cancelled, TRUE) /\ control[t] = "cancel"
        \/ Completes(p, rows) /\ p.kind # "scan" /\ ~\E s \in Sources : confirms[s] \in WaitingItems
    BY <1>7 DEF Retire
  <2> HIDE DEF rows, cancelled, confirms
  <2> QED
    BY <1>3, <1>4, <2>1, <2>2, <2>4, <2>5, <2>6, <2>7
<1>8. CASE EndAutomatic(p) \/ EndExecution(p)
  <2>1. Scanned(t)
    BY <1>1, <1>2, <1>8 DEF EndAutomatic, EndExecution, PassScope, EndSteps
  <2>2. GoesFrom(p, "acknowledging") /\ GoesFrom(p, "yielding") /\ GoesFrom(p, "deferring")
    BY <1>2, <2>1 DEF GoesFrom, WorkingSteps, EndSteps, ListSteps, PickedSteps, RaisedSteps, BackSteps
  <2>3. CASE Outcome(p, item[t])
    BY <1>2, <1>5, <2>1, <2>3, OutcomeInScope
  <2>4. CASE Completes(p, item[t]) /\ \A s \in Sources : item[t][s] \in SettledItems \cup {"absent"}
    BY <1>2, <1>5, <2>1, <2>4, CompletesInScope
  <2>5. \/ \E step \in {"acknowledging", "yielding", "deferring"} : Goto(p, step)
        \/ End(p) \/ Outcome(p, item[t])
        \/ Completes(p, item[t]) /\ \A s \in Sources : item[t][s] \in SettledItems \cup {"absent"}
    BY <1>8 DEF EndAutomatic, EndExecution
  <2> QED
    BY <1>3, <1>4, <2>2, <2>3, <2>4, <2>5
<1> QED
  BY <1>6, <1>7, <1>8

LEMMA LeavingInScope ==
  ASSUME ScopeInv, NEW p \in passes, StepInScope(p),
         \/ Release(p) \/ Yield(p) \/ Return(p) \/ Fail(p) \/ Acknowledge(p) \/ CapturePause(p)
         \/ (\E k \in p.seen : Settle(p, k)) \/ KeepAlive(p) \/ Crash(p)
  PROVE  NextInScope(p)
<1> USE DEF StepInScope
<1>1. PassScope(p) /\ p.task \in Tasks
  BY PassFacts DEF ScopeInv, EffectInv
<1>2. CASE End(p) \/ UNCHANGED passes
  BY <1>2, EndInScope
<1>3. ASSUME NEW step, GoesFrom(p, step), Goto(p, step)
      PROVE  NextInScope(p)
  BY <1>3, GotoInScope
<1>4. /\ GoesFrom(p, "failing") /\ GoesFrom(p, "pausing")
      /\ p.pc = "yielding" => GoesFrom(p, "returning")
  BY <1>1 DEF GoesFrom, WorkingSteps, EndSteps, ListSteps, PickedSteps, RaisedSteps, BackSteps
<1>5. ASSUME NEW rows, NEW closes, Capture(p, rows, closes), control[p.task] # "none"
      PROVE  NextInScope(p)
  BY <1>5, CaptureInScope
<1>6. CASE Release(p) \/ Yield(p) \/ Return(p) \/ Fail(p) \/ KeepAlive(p) \/ Crash(p)
           \/ \E k \in p.seen : Settle(p, k)
  BY <1>2, <1>3, <1>4, <1>6 DEF Release, Yield, Return, Fail, KeepAlive, Crash, Settle, engineOnly
<1>7. CASE Acknowledge(p) \/ CapturePause(p)
  BY <1>2, <1>3, <1>4, <1>5, <1>7 DEF Acknowledge, CapturePause
<1> QED
  BY <1>6, <1>7

(* Together: every step of a pass keeps the scope of the passes.           *)
LEMMA PassesInScope ==
  ASSUME ~WritesFail, ScopeInv, NEW p \in passes, PassStep(p) \/ KeepAlive(p) \/ Crash(p)
  PROVE  RowsInScope /\ \A q \in passes' : PassUnpaused(q) /\ PassScope(q)'
<1>1. RowsInScope /\ StepInScope(p)
  BY PassRowsInScope, PassesKeepControl DEF StepInScope
<1>2. NextInScope(p)
  BY <1>1, EnteringInScope, BeginPassInScope, PickSourceInScope, LastSourceInScope, SourceInScope,
     StorageStepsInScope, EndingInScope, LeavingInScope DEF PassStep
<1> QED
  BY <1>1, <1>2, StandingInScope DEF NextInScope, ScopeInv

-----------------------------------------------------------------------------
(* The scope of the Tasks: the ways a step may move their rows.            *)

TaskMoves(t) ==
  /\ OpenExecution(t)' => OpenExecution(t) \/ Scanned(t)
  /\ \/ status'[t] = status[t] /\ queue'[t] = queue[t]
     \/ status'[t] = status[t] /\ status[t] # "completed" /\ queue'[t] # "waiting_human"
     \/ status'[t] \in {"running", "failed", "cancelled"} /\ queue'[t] # "waiting_human"
     \/ status'[t] \in {"running", "pending"} /\ Scanned(t)
     \/ status'[t] = "pending" /\ status[t] = "none" /\ queue'[t] # "waiting_human"
     \/ /\ status'[t] = "completed" /\ queue'[t] = "settled"
        /\ \A s \in Sources : item'[t][s] \in SettledItems

LEMMA TaskScopeKept ==
  ASSUME NEW t, TaskScope(t), RowsMove(t), TaskMoves(t)
  PROVE  TaskScope(t)'
<1>1. /\ Scanned(t) => Scanned(t)'
      /\ status[t] # "running" => Absent(t)' = Absent(t)
  BY AbsentShrinks
<1>2. status[t] = "completed" => \A s \in Sources : item'[t][s] \in SettledItems
  BY DEF TaskScope, RowsMove, RowsKept, SourceStarts
<1> QED
  BY <1>1, <1>2 DEF TaskScope, TaskMoves

LEMMA PassesOpenNothing ==
  ASSUME TypeOK, NEW p \in passes, PassStep(p) \/ KeepAlive(p) \/ Crash(p)
  PROVE  \A u \in Tasks : OpenExecution(u)' => OpenExecution(u)
<1>1. p.task \in Tasks
  BY PassFacts
<1>2. CASE execution' = execution
  BY <1>2 DEF OpenExecution
<1>3. CASE BeginPass(p)
  BY <1>1, <1>3 DEF BeginPass, OpenExecution, TypeOK
<1>4. CASE ClosesExecution(p.task)
  BY <1>1, <1>4 DEF ClosesExecution, OpenExecution, TypeOK
<1>5. CASE \E s \in Sources : Publishes(p.task, s)
  BY <1>1, <1>5 DEF Publishes, OpenExecution, TypeOK
<1> QED
  BY <1>2, <1>3, <1>4, <1>5 DEF PassStep, KeepAlive, Crash, ReadState, EnterWork, PickSource,
     LastSource, Start, StartRefused, Summarize, Park, ReadBack, Reproject, FailBeforeEffect, EnterMutation,
     CallStorage, Publish, PublishFails, Raised, Retire, EndAutomatic, EndExecution, Release, Yield,
     Return, Fail, Acknowledge, CapturePause, Settle, ReadOnly, onlyPasses, runVars, engineOnly

(* Most steps of a pass move no status and no claim.                       *)
LEMMA StillSteps ==
  ASSUME NEW p, PassStep(p) \/ KeepAlive(p) \/ Crash(p)
  PROVE  \/ Release(p) \/ Return(p) \/ Fail(p) \/ BeginPass(p) \/ (\E k \in p.seen : Settle(p, k))
         \/ Untouched(p.task)
<1>1. ASSUME UNCHANGED kernelVars
      PROVE  Untouched(p.task)
  BY <1>1 DEF kernelVars, Untouched
<1>2. ASSUME Renew(p) \/ (\E after : Records(p, after)) \/ (\E to : RecordItems(p.worker, p.gen, p.task, to))
      PROVE  Untouched(p.task)
  BY <1>2 DEF Renew, Heartbeat, Records, RecordItems, claimVars, Untouched
<1>3. ASSUME \E s : \/ StartItem(p.worker, p.gen, p.task, s) \/ BeginMutation(p.worker, p.gen, p.task, s)
                    \/ ParkItem(p.task, s)
                    \/ \E effect, keyed : PublishOutcome(p.worker, p.gen, p.task, s, effect, keyed)
      PROVE  Untouched(p.task)
  BY <1>3 DEF StartItem, BeginMutation, ParkItem, PublishOutcome, claimVars, Untouched
<1>4. CASE \/ ReadState(p) \/ EnterWork(p) \/ LastSource(p) \/ Reproject(p) \/ FailBeforeEffect(p)
           \/ PublishFails(p) \/ (\E e \in EffectOutcomes : CallStorage(p, e)) \/ KeepAlive(p) \/ Crash(p)
           \/ Raised(p) \/ Retire(p) \/ EndAutomatic(p) \/ EndExecution(p) \/ Yield(p)
           \/ Acknowledge(p) \/ CapturePause(p)
  BY <1>1, <1>2, <1>4 DEF ReadState, EnterWork, LastSource, Reproject, FailBeforeEffect, PublishFails,
     CallStorage, KeepAlive, Crash, Raised, Retire, EndAutomatic, EndExecution, Yield, Acknowledge,
     CapturePause, ReadOnly
<1>5. ASSUME NEW s \in Sources,
             \/ PickSource(p, s) \/ Start(p, s) \/ StartRefused(p, s) \/ Summarize(p, s)
             \/ Park(p, s) \/ ReadBack(p, s) \/ EnterMutation(p, s) \/ Publish(p, s)
      PROVE  Untouched(p.task)
  <2>1. CASE PickSource(p, s) \/ Start(p, s) \/ StartRefused(p, s)
    BY <1>1, <1>2, <1>3, <2>1 DEF PickSource, Start, StartRefused
  <2>2. CASE Summarize(p, s) \/ Park(p, s) \/ ReadBack(p, s)
    BY <1>1, <1>2, <1>3, <2>2 DEF Summarize, Park, ReadBack, ReadOnly
  <2>3. CASE EnterMutation(p, s) \/ Publish(p, s)
    BY <1>1, <1>3, <2>3 DEF EnterMutation, Publish
  <2> QED
    BY <1>5, <2>1, <2>2, <2>3
<1> QED
  BY <1>4, <1>5 DEF PassStep

LEMMA PassesMoveTasks ==
  ASSUME ScopeInv, NEW p \in passes, PassStep(p) \/ KeepAlive(p) \/ Crash(p)
  PROVE  \A u \in Tasks : TaskMoves(u)
<1> DEFINE t == p.task
<1>1. /\ t \in Tasks /\ TypeOK /\ PassScope(p) /\ PassAccounts(p) /\ p.kind \in PassKinds
      /\ PassUnpaused(p)
  BY PassFacts DEF ScopeInv, EffectInv
<1>2. \A u \in Tasks : OpenExecution(u)' => OpenExecution(u)
  BY <1>1, PassesOpenNothing
<1>3. \A u \in Tasks : Untouched(u) => TaskMoves(u)
  BY <1>2 DEF TaskMoves, Untouched
<1>4. Advances(p)
  BY <1>1, PassAdvances
<1>5. CASE Quiet(p)
  BY <1>3, <1>5 DEF Quiet
<1>6. CASE Begins(p)
  <2>1. queue'[t] # "waiting_human"
    BY <1>6 DEF Begins, Mine, Owns
  <2> QED
    BY <1>2, <1>3, <1>6, <2>1 DEF Begins, TaskMoves
<1>7. CASE Leaves(p)
  <2>1. \A u \in Tasks \ {t} : TaskMoves(u)
    BY <1>3, <1>7 DEF Leaves
  <2>2. CASE UNCHANGED kernelVars
    BY <1>3, <2>2 DEF Untouched, kernelVars
  <2>3. p.pc \in EndSteps => Scanned(t)
    BY <1>1 DEF PassScope, PassKinds, PassAccounts, KindFits, EndSteps
  <2>4. ASSUME NEW st, NEW to, NEW q, NEW expected, NEW close,
               ReleaseClaim(p.worker, p.gen, t, st, to, q, expected, close)
        PROVE  /\ status'[t] = st /\ queue'[t] = q
               /\ \A s \in Sources : item'[t][s] = IF s \in DOMAIN to THEN to[s] ELSE item[t][s]
               /\ \A s \in Sources : item'[t][s] \notin MachineItems
    <3>1. /\ status'[t] = st /\ queue'[t] = q /\ item'[t] = Overlay(item[t], to)
          /\ \A s \in Sources : Overlay(item[t], to)[s] \notin MachineItems
      BY <1>1, <2>4 DEF ReleaseClaim, ReleaseWrites, ReleaseRefused, TypeOK, KernelTypeOK
    <3> QED
      BY <3>1 DEF Overlay
  <2>5. CASE Release(p)
    <3>1. CASE p.pc = "completing" /\ ~UNCHANGED kernelVars
      <4>1. /\ status'[t] = "completed" /\ queue'[t] = "settled"
            /\ \A s \in Sources : item'[t][s] = IF s \in DOMAIN p.to THEN p.to[s] ELSE item[t][s]
            /\ \A s \in Sources : item'[t][s] \notin MachineItems
        BY <2>4, <2>5, <3>1 DEF Release
      <4>2. \A s \in Sources : item'[t][s] \in SettledItems
        BY <1>1, <3>1, <4>1 DEF PassScope
      <4> QED
        BY <1>2, <2>1, <4>1, <4>2 DEF TaskMoves
    <3>2. CASE p.pc = "deferring" /\ ~UNCHANGED kernelVars
      <4>1. status'[t] = "running"
        BY <2>4, <2>5, <3>2 DEF Release
      <4> QED
        BY <1>2, <2>1, <2>3, <3>2, <4>1 DEF TaskMoves, EndSteps
    <3> QED
      BY <2>1, <2>2, <2>5, <3>1, <3>2 DEF Release
  <2>6. CASE Return(p)
    <3>1. CASE YieldClaim(p.worker, p.gen, t)
      <4>1. status'[t] = "pending" /\ Scanned(t)
        BY <1>1, <2>3, <2>6, <3>1 DEF Return, YieldClaim, EndSteps, TypeOK, KernelTypeOK
      <4> QED
        BY <1>2, <2>1, <4>1 DEF TaskMoves
    <3> QED
      BY <2>1, <2>2, <2>6, <3>1 DEF Return
  <2>7. CASE Fail(p)
    <3>1. UNCHANGED kernelVars \/ \E to : ReleaseClaim(p.worker, p.gen, t, "failed", to, "settled", {}, FALSE)
      BY <2>7 DEF Fail
    <3>2. UNCHANGED kernelVars \/ (status'[t] = "failed" /\ queue'[t] = "settled")
      BY <2>4, <3>1
    <3> QED
      BY <1>2, <2>1, <2>2, <3>2 DEF TaskMoves
  <2>8. ASSUME NEW k \in p.seen, Settle(p, k)
        PROVE  \A u \in Tasks : TaskMoves(u)
    <3>1. SettledStatus(k.control) = "cancelled" /\ SettledQueue(k.control) = "settled"
      BY <1>1 DEF PassUnpaused, SettledStatus, SettledQueue
    <3>2. UNCHANGED kernelVars \/ (status'[t] = "cancelled" /\ queue'[t] = "settled")
      BY <2>4, <2>8, <3>1 DEF Settle
    <3> QED
      BY <1>2, <2>1, <2>2, <3>2 DEF TaskMoves
  <2>9. CASE BeginPass(p)
    <3>1. UNCHANGED kernelVars \/ (status'[t] = "running" /\ queue'[t] = "claimed")
      BY <1>1, <2>9 DEF BeginPass, BeginWork, OwnsLive, Owns, TypeOK, KernelTypeOK
    <3> QED
      BY <1>2, <2>1, <2>2, <3>1 DEF TaskMoves
  <2>10. Release(p) \/ Return(p) \/ Fail(p) \/ BeginPass(p) \/ (\E k \in p.seen : Settle(p, k)) \/ Untouched(t)
    BY StillSteps
  <2> QED
    BY <1>3, <2>1, <2>5, <2>6, <2>7, <2>8, <2>9, <2>10
<1> QED
  BY <1>4, <1>5, <1>6, <1>7 DEF Advances

(* The steps of the passes leave the requests alone.                       *)
LEMMA PassesKeepRequests ==
  ASSUME NEW p \in passes, PassStep(p) \/ KeepAlive(p) \/ Crash(p)
  PROVE  requests' = requests
  BY DEF PassStep, KeepAlive, Crash, ReadState, EnterWork, BeginPass, PickSource, LastSource,
     Start, StartRefused, Summarize, Park, ReadBack, Reproject, FailBeforeEffect, EnterMutation,
     CallStorage, Publish, PublishFails, Raised, Retire, EndAutomatic, EndExecution, Release, Yield,
     Return, Fail, Acknowledge, CapturePause, Settle, ReadOnly, onlyPasses, engineOnly

LEMMA TasksKeepScope ==
  ASSUME ScopeInv, RowsInScope, \A u \in Tasks : TaskMoves(u)
  PROVE  \A u \in Tasks : TaskScope(u)'
  BY TaskScopeKept DEF ScopeInv, RowsInScope

(* The steps beside the passes.                                            *)
LEMMA StandingPasses ==
  ASSUME ScopeInv, RowsInScope, passes' = passes
  PROVE  \A q \in passes' : PassUnpaused(q) /\ PassScope(q)'
  BY StandingInScope DEF ScopeInv

LEMMA ClaimNextInScope ==
  ASSUME ScopeInv, NEW w \in Workers, NEW t \in Tasks, ClaimNext(w, t)
  PROVE  /\ RowsInScope /\ \A u \in Tasks : TaskMoves(u)
         /\ \A q \in passes' : PassUnpaused(q) /\ PassScope(q)'
         /\ requests' = requests
<1>1. KernelTypeOK /\ RowsUnpaused
  BY DEF ScopeInv, EffectInv, TypeOK
<1>2. RowsInScope
  BY <1>1 DEF ClaimNext, Claim, RowsInScope, RowsMove, RowsKept, RowsUnpaused, KernelTypeOK,
     controlVars, itemVars
<1>3. \A u \in Tasks : TaskMoves(u)
  <2>1. \A u \in Tasks : OpenExecution(u)' <=> OpenExecution(u)
    BY DEF ClaimNext, OpenExecution, onlyPasses, runVars
  <2>2. /\ \A u \in Tasks : status'[u] = status[u] /\ (u # t => queue'[u] = queue[u])
        /\ status[t] = "pending" /\ queue'[t] = "claimed"
    BY <1>1 DEF ClaimNext, Claim, Claimable, KernelTypeOK
  <2> QED
    BY <2>1, <2>2 DEF TaskMoves
<1>4. PICK new : passes' = passes \cup {new} /\ new.pc = "control" /\ new.kind = "unread"
                 /\ new.seen = {} /\ new.to = Nothing
  <2>1. PICK new : /\ passes' = passes \cup {new}
                   /\ new = [worker |-> w, task |-> t, gen |-> gen[t] + 1, pc |-> "control",
                             kind |-> "unread", todo |-> {}, source |-> {}, effect |-> "none",
                             seen |-> {}, to |-> Nothing]
    BY DEF ClaimNext
  <2> QED
    BY <2>1
<1>5. PassUnpaused(new) /\ PassScope(new)'
  BY <1>4 DEF PassUnpaused, Written, Nothing, PassScope
<1> QED
  BY <1>2, <1>3, <1>4, <1>5, StandingInScope DEF ClaimNext, onlyPasses, ScopeInv

LEMMA OperatorsInScope ==
  ASSUME ScopeInv, RequestedControls \subseteq {"cancel"}, NEW t \in Tasks, Operators(t) \/ Lapse(t)
  PROVE  /\ RowsInScope /\ passes' = passes
         /\ requests' = requests \/ \E c \in {"cancel"} : AskControl(t, c)
<1>1. KernelTypeOK /\ RowsUnpaused
  BY DEF ScopeInv, EffectInv, TypeOK
<1>2. \/ Lapse(t) \/ AdmitTask(t) \/ (\E c \in {"cancel"} : AskControl(t, c))
      \/ Continue(t) \/ (\E s \in Sources : DecideReview(t, s) \/ IgnoreSource(t, s))
      \/ \E S \in SUBSET Sources : ConfirmSummary(t, S)
  BY <1>1 DEF Operators, ResumeTask, Resume, RowsUnpaused
<1>3. RowsInScope
  <2>1. CASE Sources = {}
    BY <1>1, <1>2, <2>1 DEF Lapse, LeaseLapses, AdmitTask, Admit, AskControl, RequestControl, Continue,
       ConfirmSummary, Requeue, RequeueWrites, Confirm, KernelTypeOK, RowsUnpaused, RowsInScope,
       RowsMove, RowsKept, claimVars, controlVars
  <2>2. CASE \E s \in Sources : TRUE
    <3>1. "none" # "paused"
      OBVIOUS
    <3>2. ASSUME NEW s \in Sources, NEW S \in SUBSET Sources,
                 \/ Admit(t) \/ Requeue(t) \/ LeaseLapses(t) \/ (\E c \in {"cancel"} : RequestControl(t, c))
                 \/ Decide(t, s) \/ Ignore(t, s)
                 \/ Confirm(t, S) /\ \A x \in S : item[t][x] = "confirm"
          PROVE  RowsInScope
      BY <1>1, <3>1, <3>2, CallInScope DEF RowCall
    <3> QED
      BY <1>2, <2>2, <3>2 DEF Lapse, AdmitTask, AskControl, Continue, DecideReview, IgnoreSource,
         ConfirmSummary
  <2> QED
    BY <2>1, <2>2
<1> QED
  BY <1>2, <1>3 DEF Lapse, AdmitTask, AskControl, Continue, DecideReview, IgnoreSource,
     ConfirmSummary, engineOnly

LEMMA OperatorsMoveTasks ==
  ASSUME ScopeInv, RequestedControls \subseteq {"cancel"}, NEW t \in Tasks, Operators(t) \/ Lapse(t)
  PROVE  \A u \in Tasks : TaskMoves(u)
<1>1. KernelTypeOK /\ RowsUnpaused /\ TypeOK /\ TaskScope(t)
  BY DEF ScopeInv, EffectInv, TypeOK
<1>2. CASE Lapse(t) \/ (\E c \in {"cancel"} : AskControl(t, c)) \/ \E s \in Sources : DecideReview(t, s)
  <2>1. UNCHANGED <<status, queue, execution>>
    BY <1>2 DEF Lapse, LeaseLapses, AskControl, RequestControl, DecideReview, Decide, engineOnly, runVars
  <2> QED
    BY <2>1 DEF TaskMoves, OpenExecution
<1>3. CASE AdmitTask(t)
  BY <1>1, <1>3 DEF AdmitTask, Admit, TaskMoves, OpenExecution, engineOnly, runVars, KernelTypeOK
<1>4. CASE Continue(t)
  <2>1. Scanned(t)
    BY <1>1, <1>4 DEF Continue, Requeue, RowsUnpaused, TaskScope
  <2> QED
    BY <1>1, <1>4, <2>1 DEF Continue, Requeue, RequeueWrites, TaskMoves, OpenExecution, engineOnly,
       runVars, KernelTypeOK
<1>5. ASSUME NEW S \in SUBSET Sources, ConfirmSummary(t, S)
      PROVE  \A u \in Tasks : TaskMoves(u)
  <2>1. Scanned(t)
    BY <1>1, <1>5 DEF ConfirmSummary, Confirm, TaskScope
  <2> QED
    BY <1>1, <1>5, <2>1 DEF ConfirmSummary, Confirm, RequeueWrites, TaskMoves, OpenExecution,
       KernelTypeOK, TypeOK
<1>6. ASSUME NEW s \in Sources, IgnoreSource(t, s)
      PROVE  \A u \in Tasks : TaskMoves(u)
  <2>1. UNCHANGED execution
    BY <1>6 DEF IgnoreSource, engineOnly, runVars
  <2>2. \A u \in Tasks \ {t} : status'[u] = status[u] /\ queue'[u] = queue[u]
    BY <1>1, <1>6 DEF IgnoreSource, Ignore, KernelTypeOK
  <2>3. PICK after : /\ after = [item[t] EXCEPT ![s] = "ignored"] /\ item'[t] = after
                     /\ status'[t] = IF LastIgnored(t, after) THEN "completed" ELSE status[t]
                     /\ queue'[t] = IF LastIgnored(t, after) THEN "settled" ELSE queue[t]
    BY <1>1, <1>6 DEF IgnoreSource, Ignore, KernelTypeOK
  <2>4. LastIgnored(t, after) => \A x \in Sources : item'[t][x] \in SettledItems
    <3>1. LastIgnored(t, after) => Scanned(t)
      BY <1>1 DEF LastIgnored, TaskScope
    <3>2. Scanned(t) => \A x \in Sources : after[x] # "absent"
      BY <1>1, <2>3 DEF Scanned, Absent, KernelTypeOK
    <3> QED
      BY <2>3, <3>1, <3>2 DEF LastIgnored
  <2> QED
    BY <2>1, <2>2, <2>3, <2>4 DEF TaskMoves, OpenExecution
<1>7. ~ResumeTask(t)
  BY <1>1 DEF ResumeTask, Resume, RowsUnpaused
<1> QED
  BY <1>2, <1>3, <1>4, <1>5, <1>6, <1>7 DEF Operators

LEMMA RequestsInScope ==
  ASSUME ScopeInv, NEW r \in requests, ReadUnowned(r) \/ \E k \in r.rows : SettleUnowned(r, k)
  PROVE  RowsInScope /\ (\A u \in Tasks : TaskMoves(u)) /\ passes' = passes
<1>1. KernelTypeOK /\ RowsUnpaused /\ RequestUnpaused(r) /\ r.task \in Tasks
  BY DEF ScopeInv, EffectInv, TypeOK, Requests
<1>2. CASE UNCHANGED kernelVars
  <2>1. UNCHANGED <<execution, passes>>
    BY DEF ReadUnowned, SettleUnowned, runVars
  <2>2. \A u \in Tasks : TaskMoves(u)
    BY <1>2, <2>1 DEF TaskMoves, OpenExecution, kernelVars
  <2> QED
    BY <1>1, <1>2, <2>1, <2>2, NothingInScope
<1>3. ASSUME NEW k \in r.rows, SettleUnowned(r, k), ~UNCHANGED kernelVars
      PROVE  RowsInScope /\ (\A u \in Tasks : TaskMoves(u)) /\ passes' = passes
  <2>1. ReleaseUnowned(r.task, "cancelled", k.to, k.seen, "settled", {r.revision})
    BY <1>1, <1>3 DEF SettleUnowned, RequestUnpaused, SettledStatus, SettledQueue
  <2>2. RowsInScope
    BY <1>1, <2>1, ReleaseInScope DEF RequestUnpaused, ReleaseUnowned
  <2>3. /\ status'[r.task] = "cancelled" /\ queue'[r.task] = "settled"
        /\ \A u \in Tasks \ {r.task} : status'[u] = status[u] /\ queue'[u] = queue[u]
    BY <1>1, <2>1 DEF ReleaseUnowned, ReleaseWrites, KernelTypeOK
  <2>4. UNCHANGED <<execution, passes>>
    BY <1>3 DEF SettleUnowned, runVars
  <2> QED
    BY <2>2, <2>3, <2>4 DEF TaskMoves, OpenExecution
<1> QED
  BY <1>2, <1>3 DEF ReadUnowned

LEMMA RequestsUnpausedKept ==
  ASSUME ScopeInv
  PROVE  /\ requests' \subseteq requests => \A r \in requests' : RequestUnpaused(r)
         /\ \A t \in Tasks : AskControl(t, "cancel") => \A r \in requests' : RequestUnpaused(r)
         /\ \A n \in requests : ReadUnowned(n) => \A r \in requests' : RequestUnpaused(r)
<1>1. requests' \subseteq requests => \A r \in requests' : RequestUnpaused(r)
  BY DEF ScopeInv
<1>2. \A t \in Tasks : AskControl(t, "cancel") => \A r \in requests' : RequestUnpaused(r)
  BY DEF AskControl, RequestUnpaused
<1>3. ASSUME NEW n \in requests, ReadUnowned(n)
      PROVE  \A r \in requests' : RequestUnpaused(r)
  <2>1. n.control = "cancel" /\ n \in Requests
    BY DEF ScopeInv, RequestUnpaused, EffectInv, TypeOK
  <2>2. PICK m : m = [to |-> Settled(item[n.task], n.control), seen |-> attempts[n.task]]
    OBVIOUS
  <2>3. Written(m.to)
    BY <2>1, <2>2, SettledWritten
  <2>4. PICK r : requests' = {r} /\ r = [n EXCEPT !.rows = {m}]
    BY <1>3, <2>2 DEF ReadUnowned
  <2>5. r.control = "cancel" /\ r.rows = {m}
    BY <2>1, <2>4 DEF Requests
  <2> QED
    BY <2>3, <2>4, <2>5 DEF RequestUnpaused
<1> QED
  BY <1>1, <1>2, <1>3

(* What every step shows, and what it is good for.                         *)
ScopeMoves ==
  /\ RowsInScope /\ \A u \in Tasks : TaskMoves(u)
  /\ \A q \in passes' : PassUnpaused(q) /\ PassScope(q)'
  /\ \A r \in requests' : RequestUnpaused(r)

LEMMA MovesKeepScope ==
  ASSUME ScopeInv, EffectInv', ScopeMoves
  PROVE  ScopeInv'
<1>1. RowsUnpaused' /\ \A u \in Tasks : TaskScope(u)'
  BY TasksKeepScope DEF RowsInScope, ScopeMoves
<1>2. \A q \in passes' : PassUnpaused(q) /\ PassScope(q)'
  BY DEF ScopeMoves
<1> QED
  BY <1>1, <1>2 DEF ScopeInv, ScopeMoves, PassUnpaused, RequestUnpaused, Written

LEMMA ScopeInvKept ==
  ASSUME RequestedControls \subseteq {"cancel"}, ~WritesFail, ScopeInv, [Next]_vars
  PROVE  ScopeInv'
<1>1. ASSUME NEW p \in passes, PassStep(p) \/ KeepAlive(p) \/ Crash(p)
      PROVE  ScopeMoves
  BY <1>1, PassesInScope, PassesMoveTasks, PassesKeepRequests, RequestsUnpausedKept DEF ScopeMoves
<1>2. ASSUME NEW w \in Workers, NEW t \in Tasks, ClaimNext(w, t)
      PROVE  ScopeMoves
  BY <1>2, ClaimNextInScope, RequestsUnpausedKept DEF ScopeMoves
<1>3. ASSUME NEW t \in Tasks, Operators(t) \/ Lapse(t)
      PROVE  ScopeMoves
  BY <1>3, OperatorsInScope, OperatorsMoveTasks, StandingPasses, RequestsUnpausedKept DEF ScopeMoves
<1>4. ASSUME NEW r \in requests, ReadUnowned(r) \/ \E k \in r.rows : SettleUnowned(r, k)
      PROVE  ScopeMoves
  <2>1. (\E k \in r.rows : SettleUnowned(r, k)) => requests' \subseteq requests
    BY DEF SettleUnowned
  <2> QED
    BY <1>4, <2>1, RequestsInScope, StandingPasses, RequestsUnpausedKept DEF ScopeMoves
<1>5. ASSUME UNCHANGED vars
      PROVE  ScopeMoves
  <2>1. UNCHANGED <<kernelVars, execution, passes, requests, status, queue>>
    BY <1>5 DEF vars, engineOnly, runVars, kernelVars
  <2>2. RowsInScope
    BY <2>1, NothingInScope DEF ScopeInv
  <2>3. \A u \in Tasks : TaskMoves(u)
    BY <2>1 DEF TaskMoves, OpenExecution
  <2> QED
    BY <2>1, <2>2, <2>3, StandingPasses, RequestsUnpausedKept DEF ScopeMoves
<1>6. EffectInv'
  BY EffectInvKept DEF ScopeInv
<1> QED
  BY <1>1, <1>2, <1>3, <1>4, <1>5, <1>6, MovesKeepScope DEF Next

LEMMA ScopeInvInit == Init => ScopeInv
<1> SUFFICES ASSUME Init PROVE ScopeInv
  OBVIOUS
<1>1. EffectInv
  BY EffectInvInit
<1>2. RowsUnpaused
  BY DEF Init, KernelInit, RowsUnpaused
<1>3. \A t \in Tasks : TaskScope(t)
  BY DEF Init, KernelInit, TaskScope, OpenExecution, Absent
<1> QED
  BY <1>1, <1>2, <1>3 DEF Init, ScopeInv

(* While nobody pauses a Task and no publication fails, a Task completes   *)
(* with every source of its scope scanned and ended, whatever lapses,      *)
(* crashes, is decided, ignored, confirmed, continued or cancelled.        *)
THEOREM CompletedTasksAreClosed ==
  ASSUME RequestedControls \subseteq {"cancel"}, ~WritesFail
  PROVE  Spec => []CompletedLeavesNothingOpen
<1>1. Init => ScopeInv
  BY ScopeInvInit
<1>2. ScopeInv /\ [Next]_vars => ScopeInv'
  BY ScopeInvKept
<1> QED
  BY <1>1, <1>2, ScopeInvImplies, PTL DEF Spec

-----------------------------------------------------------------------------
(* The effect ledger.  The marker and the Results move by kernel calls     *)
(* only, the touched sources by the Storage call of a marked attempt only, *)
(* and the account of the rows says which sources a call may name.         *)

OneMarked(t) == marker[t] = {} \/ \E s \in Sources : marker[t] = {s}

MarkedOnce == \A t \in Tasks : OneMarked(t)

MarkOpens(t) ==
  \E s \in Sources : marker[t] = {} /\ s \notin touched[t] /\ marker'[t] = {s} /\ effects'[t] = effects[t]
MarkCloses(t) == marker'[t] = {} /\ effects'[t] = effects[t]
MarkRecords(t) ==
  \E s \in Sources :
    /\ s \in touched[t] => marker[t] = {s}
    /\ marker'[t] \in {marker[t], marker[t] \ {s}}
    /\ \A x \in Sources \ {s} : effects'[t][x] = effects[t][x]
MarkStays(t) == marker'[t] = marker[t] /\ effects'[t] = effects[t]
MarkMoves(t) == MarkOpens(t) \/ MarkCloses(t) \/ MarkRecords(t) \/ MarkStays(t)

LEMMA CallsMoveMarks ==
  ASSUME KernelTypeOK, \A u \in Tasks : TaskAccounts(u), [KernelNext]_kernelVars
  PROVE  \A u \in Tasks : MarkMoves(u)
<1> USE DEF KernelTypeOK, claimVars, controlVars, itemVars, resultVars
<1>1. ASSUME NEW t \in Tasks, NEW c, NEW S, NEW s, NEW w, NEW g, NEW to,
             \/ Admit(t) \/ LeaseLapses(t) \/ Requeue(t) \/ Resume(t) \/ RequestControl(t, c)
             \/ Confirm(t, S) \/ ParkItem(t, s) \/ Decide(t, s) \/ Ignore(t, s)
             \/ Claim(w, t) \/ Heartbeat(w, g, t) \/ BeginWork(w, g, t) \/ YieldClaim(w, g, t)
             \/ RecordItems(w, g, t, to) \/ StartItem(w, g, t, s)
      PROVE  UNCHANGED <<marker, effects>>
  <2>1. CASE \/ Admit(t) \/ LeaseLapses(t) \/ Requeue(t) \/ Resume(t) \/ RequestControl(t, c)
             \/ Confirm(t, S)
    BY <2>1 DEF Admit, LeaseLapses, Requeue, RequeueWrites, Resume, RequestControl, Confirm
  <2>2. CASE \/ ParkItem(t, s) \/ Decide(t, s) \/ Ignore(t, s) \/ Claim(w, t) \/ Heartbeat(w, g, t)
    BY <2>2 DEF ParkItem, Decide, Ignore, Claim, Heartbeat
  <2>3. CASE \/ BeginWork(w, g, t) \/ YieldClaim(w, g, t) \/ RecordItems(w, g, t, to)
             \/ StartItem(w, g, t, s)
    BY <2>3 DEF BeginWork, YieldClaim, RecordItems, StartItem
  <2> QED
    BY <1>1, <2>1, <2>2, <2>3
<1>2. CASE UNCHANGED <<marker, effects>>
  BY <1>2 DEF MarkMoves, MarkStays
<1>3. ASSUME NEW t \in Tasks, NEW st, NEW to, NEW q, ReleaseWrites(t, st, to, q)
      PROVE  \A u \in Tasks : MarkMoves(u)
  BY <1>3 DEF ReleaseWrites, MarkMoves, MarkCloses, MarkStays
<1>4. ASSUME NEW t \in Tasks, NEW s \in Sources, NEW w, NEW g, BeginMutation(w, g, t, s)
      PROVE  \A u \in Tasks : MarkMoves(u)
  <2>1. s \notin touched[t]
    <3>1. item[t][s] = "processing" /\ marker[t] = {} /\ RowAccounts(t, s)
      BY <1>4 DEF BeginMutation, TaskAccounts
    <3> QED
      BY <3>1 DEF RowAccounts, Ended
  <2>2. MarkOpens(t) /\ \A u \in Tasks \ {t} : MarkStays(u)
    BY <1>4, <2>1 DEF BeginMutation, MarkOpens, MarkStays
  <2> QED
    BY <2>2 DEF MarkMoves
<1>5. ASSUME NEW t \in Tasks, NEW s \in Sources, NEW w, NEW g, NEW effect, NEW keyed,
             PublishOutcome(w, g, t, s, effect, keyed)
      PROVE  \A u \in Tasks : MarkMoves(u)
  <2>1. s \in touched[t] => marker[t] = {s}
    BY <1>5 DEF PublishOutcome, TaskAccounts, RowAccounts, Ended
  <2>2. /\ marker'[t] \in {marker[t], marker[t] \ {s}}
        /\ \A x \in Sources \ {s} : effects'[t][x] = effects[t][x]
        /\ \A u \in Tasks \ {t} : MarkStays(u)
    BY <1>5 DEF PublishOutcome, MarkStays
  <2> QED
    BY <2>1, <2>2 DEF MarkMoves, MarkRecords
<1>6. ASSUME NEW t \in Tasks, OtherCalls(t)
      PROVE  \A u \in Tasks : MarkMoves(u)
  BY <1>1, <1>2, <1>3, <1>6 DEF OtherCalls, ReleaseUnowned
<1>7. ASSUME NEW t \in Tasks, NEW w \in Workers, WorkerCalls(w, t)
      PROVE  \A u \in Tasks : MarkMoves(u)
  BY <1>1, <1>2, <1>3, <1>4, <1>5, <1>7 DEF WorkerCalls, ReleaseClaim
<1>8. CASE UNCHANGED kernelVars
  BY <1>2, <1>8 DEF kernelVars
<1> QED
  BY <1>6, <1>7, <1>8 DEF KernelNext

LEMMA StorageTouches ==
  ASSUME EffectInv, [Next]_vars
  PROVE  \/ touched' = touched
         \/ /\ UNCHANGED kernelVars
            /\ \E p \in passes : /\ \E s \in Sources : Marks(p, s)
                                 /\ touched' \in {touched, [touched EXCEPT ![p.task] = @ \cup p.source]}
<1>1. ASSUME NEW p \in passes, NEW e, CallStorage(p, e)
      PROVE  /\ UNCHANGED kernelVars
             /\ \E s \in Sources : Marks(p, s)
             /\ touched' \in {touched, [touched EXCEPT ![p.task] = @ \cup p.source]}
  <2>1. \E s \in Sources : Marks(p, s)
    BY <1>1 DEF CallStorage, EffectInv, PassAccounts, PicksFresh
  <2>2. p.task \in Tasks
    BY PassFacts DEF EffectInv
  <2>3. touched' \in {touched, [touched EXCEPT ![p.task] = @ \cup p.source]}
    BY <1>1, <2>2 DEF CallStorage, EffectInv, TypeOK
  <2> QED
    BY <1>1, <2>1, <2>3 DEF CallStorage
<1>2. ASSUME NEW p \in passes, PassStep(p) \/ KeepAlive(p) \/ Crash(p)
      PROVE  touched' = touched \/ \E e \in EffectOutcomes : CallStorage(p, e)
  BY <1>2 DEF PassStep, KeepAlive, Crash, ReadState, EnterWork, BeginPass, PickSource, LastSource,
     Start, StartRefused, Summarize, Park, ReadBack, Reproject, FailBeforeEffect, EnterMutation,
     Publish, PublishFails, Raised, Retire, EndAutomatic, EndExecution, Release, Yield,
     Return, Fail, Acknowledge, CapturePause, Settle, ReadOnly, onlyPasses, engineOnly
<1>3. ASSUME NEW t \in Tasks, Operators(t) \/ Lapse(t)
      PROVE  touched' = touched
  BY <1>3 DEF Operators, Lapse, AdmitTask, AskControl, ConfirmSummary, Continue, ResumeTask,
     DecideReview, IgnoreSource, engineOnly
<1>4. ASSUME NEW r \in requests, ReadUnowned(r) \/ \E k \in r.rows : SettleUnowned(r, k)
      PROVE  touched' = touched
  BY <1>4 DEF ReadUnowned, SettleUnowned
<1>5. ASSUME NEW w \in Workers, NEW t \in Tasks, ClaimNext(w, t)
      PROVE  touched' = touched
  BY <1>5 DEF ClaimNext, onlyPasses
<1>6. UNCHANGED vars => touched' = touched
  BY DEF vars, engineOnly
<1> QED
  BY <1>1, <1>2, <1>3, <1>4, <1>5, <1>6 DEF Next

(* What a step shows of the ledger of each Task.                           *)
TouchMoves(t) ==
  \/ touched'[t] = touched[t] /\ MarkMoves(t)
  \/ /\ MarkStays(t)
     /\ \E s \in Sources : marker[t] = {s} /\ touched'[t] = touched[t] \cup {s}

LEMMA StepsMoveLedger ==
  ASSUME EffectInv, [Next]_vars
  PROVE  \A t \in Tasks : TouchMoves(t)
<1>1. \A t \in Tasks : MarkMoves(t)
  BY TypeKept, CallsMoveMarks DEF EffectInv, TypeOK, KernelStep
<1>2. CASE touched' = touched
  BY <1>1, <1>2 DEF TouchMoves
<1>3. ASSUME UNCHANGED kernelVars, NEW p \in passes, NEW s \in Sources, Marks(p, s),
             touched' \in {touched, [touched EXCEPT ![p.task] = @ \cup p.source]}
      PROVE  \A t \in Tasks : TouchMoves(t)
  <2>1. \A t \in Tasks : MarkStays(t)
    BY <1>3 DEF kernelVars, resultVars, MarkStays
  <2>2. p.task \in Tasks /\ marker[p.task] = {s} /\ p.source = {s}
    BY <1>3, PassFacts DEF EffectInv, Marks
  <2>3. \A t \in Tasks : touched'[t] = touched[t] \/ (t = p.task /\ touched'[t] = touched[t] \cup {s})
    BY <1>3, <2>2 DEF EffectInv, TypeOK
  <2> QED
    BY <2>1, <2>2, <2>3 DEF TouchMoves, MarkMoves
<1> QED
  BY <1>2, <1>3, StorageTouches

LEMMA OneMarkedKept ==
  ASSUME NEW t, OneMarked(t), TouchMoves(t)
  PROVE  OneMarked(t)'
  BY DEF OneMarked, TouchMoves, MarkMoves, MarkOpens, MarkCloses, MarkRecords, MarkStays

LEMMA LedgerStep ==
  ASSUME NEW t \in Tasks, OneMarked(t), TouchMoves(t)
  PROVE  Ledger(t)!LedgerNext \/ UNCHANGED Ledger(t)!ledgerVars
<1> DEFINE effect == [s \in Sources |->
                        IF marker[t] = {s} THEN "entered"
                        ELSE IF s \notin touched[t] THEN "none"
                        ELSE IF "verified" \in effects[t][s] THEN "known" ELSE "unknown"]
<1>1. CASE touched'[t] = touched[t] /\ MarkOpens(t)
  <2>1. PICK s \in Sources : /\ marker[t] = {} /\ s \notin touched[t]
                             /\ marker'[t] = {s} /\ effects'[t] = effects[t]
    BY <1>1 DEF MarkOpens
  <2>2. effect[s] = "none" /\ \A y \in Sources : effect[y] # "entered"
    BY <2>1
  <2>3. effect' = [effect EXCEPT ![s] = "entered"]
    BY <1>1, <2>1
  <2>4. Ledger(t)!Enter(s)
    BY <2>2, <2>3 DEF Ledger!Enter
  <2> QED
    BY <2>4 DEF Ledger!LedgerNext
<1>2. ASSUME effect' = effect
      PROVE  Ledger(t)!LedgerNext \/ UNCHANGED Ledger(t)!ledgerVars
  BY <1>2 DEF Ledger!ledgerVars
<1>3. ASSUME NEW s \in Sources, marker[t] = {s}, marker'[t] = {}, touched'[t] = touched[t],
             \A x \in Sources \ {s} : effects'[t][x] = effects[t][x]
      PROVE  Ledger(t)!LedgerNext \/ UNCHANGED Ledger(t)!ledgerVars
  <2>1. effect[s] = "entered" /\ effect'[s] \in {"none", "known", "unknown"}
    BY <1>3
  <2>2. effect' = [effect EXCEPT ![s] = effect'[s]]
    BY <1>3
  <2>3. Ledger(t)!Settle(s)
    BY <2>1, <2>2 DEF Ledger!Settle, Ledger!Settled
  <2> QED
    BY <2>3 DEF Ledger!LedgerNext
<1>4. CASE touched'[t] = touched[t] /\ (MarkCloses(t) \/ MarkStays(t))
  <2>1. effect' = effect \/ \E s \in Sources : marker[t] = {s} /\ marker'[t] = {}
    BY <1>4 DEF MarkCloses, MarkStays, OneMarked
  <2>2. effects'[t] = effects[t]
    BY <1>4 DEF MarkCloses, MarkStays
  <2> HIDE DEF effect
  <2> QED
    BY <1>2, <1>3, <1>4, <2>1, <2>2
<1>5. CASE touched'[t] = touched[t] /\ MarkRecords(t)
  <2>1. PICK s \in Sources : /\ s \in touched[t] => marker[t] = {s}
                             /\ marker'[t] \in {marker[t], marker[t] \ {s}}
                             /\ \A x \in Sources \ {s} : effects'[t][x] = effects[t][x]
    BY <1>5 DEF MarkRecords
  <2>2. CASE marker[t] = {s} /\ marker'[t] = {}
    BY <1>3, <1>5, <2>1, <2>2
  <2>3. CASE marker'[t] = marker[t]
    <3>1. effect' = effect
      BY <1>5, <2>1, <2>3
    <3> HIDE DEF effect
    <3> QED
      BY <1>2, <3>1
  <2>4. marker'[t] = marker[t] \/ (marker[t] = {s} /\ marker'[t] = {})
    BY <2>1 DEF OneMarked
  <2> QED
    BY <2>2, <2>3, <2>4
<1>6. CASE MarkStays(t) /\ \E s \in Sources : marker[t] = {s} /\ touched'[t] = touched[t] \cup {s}
  <2>1. effect' = effect
    BY <1>6 DEF MarkStays
  <2> HIDE DEF effect
  <2> QED
    BY <1>2, <2>1
<1> QED
  BY <1>1, <1>4, <1>5, <1>6 DEF TouchMoves, MarkMoves

(* Every Task keeps the promise of the effect ledger: whatever lapses,     *)
(* crashes or is controlled, its steps enter and settle one source at a    *)
(* time, and none a second time after an effect.                           *)
THEOREM TasksKeepLedger == Spec => KeepsEffectLedger
<1>1. Init => MarkedOnce
  BY DEF Init, KernelInit, MarkedOnce, OneMarked
<1>2. Init => \A t \in Tasks : Ledger(t)!LedgerInit
  BY DEF Init, KernelInit, Ledger!LedgerInit
<1>3. EffectInv /\ MarkedOnce /\ [Next]_vars => MarkedOnce'
  BY StepsMoveLedger, OneMarkedKept DEF MarkedOnce
<1>4. EffectInv /\ MarkedOnce /\ [Next]_vars =>
        [\A t \in Tasks : Ledger(t)!LedgerNext \/ UNCHANGED Ledger(t)!ledgerVars]_vars
  BY StepsMoveLedger, LedgerStep DEF MarkedOnce
<1> QED
  BY <1>1, <1>2, <1>3, <1>4, EffectInvariant, PTL DEF Spec, KeepsEffectLedger

-----------------------------------------------------------------------------
(* The end of a pass.  A pass that ends without giving its slot back has   *)
(* left the reason on the row: a lease that lapsed, a control, or a marker.*)
(* Two of its steps read the row too late to look again, so the invariant  *)
(* says what they go by; and that a machine row has no recorded attempt,   *)
(* for otherwise the failure a pass settles with would be refused.         *)

Healthy(t) ==
  /\ queue[t] = "claimed" /\ status[t] = "running" /\ lease[t] = "live"
  /\ control[t] = "none" /\ marker[t] = {}

AnsweringSteps == {"acknowledging", "settling"}

(* A pass answers a control the row still asks for, and retires an open    *)
(* attempt.                                                                *)
Shows(p) ==
  Mine(p) =>
    /\ p.pc \in AnsweringSteps => control[p.task] # "none"
    /\ p.pc = "retiring" => marker[p.task] # {}

ResultsKeyed == \A t \in Tasks, s \in Sources : recorded[t][s] # {} => effects[t][s] # {}

ShownInv ==
  /\ EffectInv /\ ResultsKeyed
  /\ \A p \in passes : Shows(p)
  /\ HealthyClaimIsWorked

LEMMA ResultsKeyedKept ==
  ASSUME KernelTypeOK, ResultsKeyed, NEW t \in Tasks, NEW w,
         OtherCalls(t) \/ WorkerCalls(w, t)
  PROVE  ResultsKeyed'
<1>1. CASE UNCHANGED resultVars
  BY <1>1 DEF resultVars, ResultsKeyed
<1>2. ASSUME NEW s \in Sources, NEW effect \in Effects, NEW keyed \in BOOLEAN,
             PublishOutcome(w, gen[t], t, s, effect, keyed)
      PROVE  ResultsKeyed'
  <2>1. /\ effects'[t][s] # {}
        /\ \A u \in Tasks, x \in Sources : u # t \/ x # s =>
             recorded'[u][x] = recorded[u][x] /\ effects'[u][x] = effects[u][x]
    BY <1>2 DEF PublishOutcome, KernelTypeOK
  <2> QED
    BY <2>1 DEF ResultsKeyed
<1>3. OtherCalls(t) => UNCHANGED resultVars
  BY DEF OtherCalls, Admit, LeaseLapses, Requeue, RequeueWrites, Resume, RequestControl, Confirm,
     ParkItem, Decide, Ignore, ReleaseUnowned, ReleaseWrites
<1>4. WorkerCalls(w, t) => \/ UNCHANGED resultVars
                           \/ \E s \in Sources, effect \in Effects, keyed \in BOOLEAN :
                                PublishOutcome(w, gen[t], t, s, effect, keyed)
  BY DEF WorkerCalls, Claim, Heartbeat, BeginWork, YieldClaim, RecordItems, ReleaseClaim,
     ReleaseWrites, StartItem, BeginMutation
<1> QED
  BY <1>1, <1>2, <1>3, <1>4

(* What a call does to a claim it does not give up.                        *)
KeepsClaim(u) == queue'[u] = "claimed" => UNCHANGED <<queue[u], gen[u], holder[u]>>

(* ... and what it does to the reasons a claim has no pass.                *)
Steady(u) ==
  /\ KeepsClaim(u)
  /\ Healthy(u)' => Healthy(u)
  /\ queue'[u] = "claimed" => /\ marker'[u] = marker[u]
                              /\ control[u] # "none" => control'[u] # "none"

LEMMA CallsAreSteady ==
  ASSUME KernelTypeOK, NEW t \in Tasks, NEW c \in {"pause", "cancel"}, NEW S, NEW s, NEW st, NEW to,
         NEW q \in QueueStates \ {"claimed"}, NEW seen, NEW expected,
         \/ Admit(t) \/ LeaseLapses(t) \/ Requeue(t) \/ Resume(t) \/ Confirm(t, S)
         \/ RequestControl(t, c) \/ ParkItem(t, s) \/ Decide(t, s) \/ Ignore(t, s)
         \/ ReleaseUnowned(t, st, to, seen, q, expected) \/ UNCHANGED kernelVars
  PROVE  \A u \in Tasks : Steady(u)
<1> SUFFICES ASSUME NEW u \in Tasks PROVE Steady(u)
  OBVIOUS
<1> USE DEF KernelTypeOK, Steady, KeepsClaim, Healthy, claimVars, controlVars
<1>1. CASE Admit(t) \/ LeaseLapses(t)
  BY <1>1 DEF Admit, LeaseLapses
<1>2. CASE Requeue(t) \/ Resume(t) \/ Confirm(t, S)
  BY <1>2 DEF Requeue, RequeueWrites, Resume, Confirm
<1>3. CASE RequestControl(t, c)
  BY <1>3 DEF RequestControl
<1>4. CASE ParkItem(t, s) \/ Decide(t, s)
  BY <1>4 DEF ParkItem, Decide
<1>5. CASE Ignore(t, s)
  BY <1>5 DEF Ignore
<1>6. CASE ReleaseUnowned(t, st, to, seen, q, expected)
  BY <1>6 DEF ReleaseUnowned, ReleaseWrites
<1>7. CASE UNCHANGED kernelVars
  BY <1>7 DEF kernelVars
<1> QED
  BY <1>1, <1>2, <1>3, <1>4, <1>5, <1>6, <1>7

LEMMA FencedCallsAreSteady ==
  ASSUME KernelTypeOK, NEW t \in Tasks, NEW w, NEW g, NEW s, NEW to, NEW st,
         NEW q \in QueueStates \ {"claimed"}, NEW expected, NEW close, NEW effect, NEW keyed,
         \/ Heartbeat(w, g, t) \/ BeginWork(w, g, t) \/ YieldClaim(w, g, t)
         \/ RecordItems(w, g, t, to) \/ StartItem(w, g, t, s) \/ BeginMutation(w, g, t, s)
         \/ PublishOutcome(w, g, t, s, effect, keyed)
         \/ ReleaseClaim(w, g, t, st, to, q, expected, close)
  PROVE  /\ Owns(w, g, t)
         /\ \A u \in Tasks : KeepsClaim(u) /\ (u # t => Steady(u))
<1>1. Owns(w, g, t)
  BY DEF Heartbeat, BeginWork, YieldClaim, RecordItems, StartItem, BeginMutation, PublishOutcome,
     ReleaseClaim, OwnsLive
<1> SUFFICES ASSUME NEW u \in Tasks PROVE KeepsClaim(u) /\ (u # t => Steady(u))
  BY <1>1
<1> USE DEF KernelTypeOK, Steady, KeepsClaim, Healthy, claimVars, controlVars
<1>2. CASE Heartbeat(w, g, t) \/ BeginWork(w, g, t) \/ YieldClaim(w, g, t)
  BY <1>2 DEF Heartbeat, BeginWork, YieldClaim
<1>3. CASE RecordItems(w, g, t, to) \/ StartItem(w, g, t, s) \/ BeginMutation(w, g, t, s)
  BY <1>3 DEF RecordItems, StartItem, BeginMutation
<1>4. CASE PublishOutcome(w, g, t, s, effect, keyed)
  BY <1>4 DEF PublishOutcome
<1>5. CASE ReleaseClaim(w, g, t, st, to, q, expected, close)
  BY <1>5 DEF ReleaseClaim, ReleaseWrites
<1> QED
  BY <1>2, <1>3, <1>4, <1>5

(* A step of pass p is steady for what p does not own.                     *)
SteadyAside(p) ==
  \A u \in Tasks : KeepsClaim(u) /\ (u # p.task \/ ~Mine(p) => Steady(u))

LEMMA PassCallsSteadyAside ==
  ASSUME TypeOK, NEW p \in passes, NEW s, NEW to, NEW st,
         NEW q \in QueueStates \ {"claimed"}, NEW expected, NEW close, NEW effect, NEW keyed,
         \/ Renew(p) \/ BeginWork(p.worker, p.gen, p.task) \/ YieldClaim(p.worker, p.gen, p.task)
         \/ RecordItems(p.worker, p.gen, p.task, to)
         \/ StartItem(p.worker, p.gen, p.task, s) \/ BeginMutation(p.worker, p.gen, p.task, s)
         \/ PublishOutcome(p.worker, p.gen, p.task, s, effect, keyed)
         \/ ReleaseClaim(p.worker, p.gen, p.task, st, to, q, expected, close)
         \/ ParkItem(p.task, s) \/ UNCHANGED kernelVars
  PROVE  SteadyAside(p)
<1>1. KernelTypeOK /\ p.task \in Tasks
  BY PassFacts DEF TypeOK
<1>2. CASE ParkItem(p.task, s) \/ UNCHANGED kernelVars
  BY <1>1, <1>2, CallsAreSteady DEF SteadyAside, Steady
<1>3. CASE ~(ParkItem(p.task, s) \/ UNCHANGED kernelVars)
  <2>1. /\ Mine(p)
        /\ \A u \in Tasks : KeepsClaim(u) /\ (u # p.task => Steady(u))
    BY <1>1, <1>3, FencedCallsAreSteady DEF Renew, Mine
  <2> QED
    BY <2>1 DEF SteadyAside
<1> QED
  BY <1>2, <1>3
LEMMA PassesAreSteadyAside ==
  ASSUME TypeOK, NEW p \in passes, PassStep(p) \/ KeepAlive(p)
  PROVE  SteadyAside(p)
<1>1. CASE UNCHANGED kernelVars
  <2>1. \A u \in Tasks : Steady(u)
    BY <1>1 DEF Steady, KeepsClaim, Healthy, kernelVars
  <2> QED
    BY <2>1 DEF SteadyAside, Steady
<1>2. CASE \/ Renew(p) \/ (\E to : RecordItems(p.worker, p.gen, p.task, to))
           \/ YieldClaim(p.worker, p.gen, p.task) \/ BeginWork(p.worker, p.gen, p.task)
  BY <1>2, PassCallsSteadyAside, GivenQueues
<1>6. ASSUME NEW s \in Sources,
             \/ StartItem(p.worker, p.gen, p.task, s) \/ BeginMutation(p.worker, p.gen, p.task, s)
             \/ ParkItem(p.task, s)
             \/ \E effect, keyed : PublishOutcome(p.worker, p.gen, p.task, s, effect, keyed)
      PROVE  SteadyAside(p)
  BY <1>6, PassCallsSteadyAside, GivenQueues
<1>7. ASSUME NEW st, NEW to, NEW expected, NEW close, NEW q \in {"settled", "waiting_human", "paused"},
             ReleaseClaim(p.worker, p.gen, p.task, st, to, q, expected, close)
      PROVE  SteadyAside(p)
  <2>1. q \in QueueStates \ {"claimed"}
    BY DEF QueueStates
  <2> QED
    BY <1>7, <2>1, PassCallsSteadyAside
<1>3. CASE \/ ReadState(p) \/ EnterWork(p) \/ BeginPass(p) \/ LastSource(p) \/ Reproject(p)
           \/ FailBeforeEffect(p) \/ PublishFails(p) \/ \E e \in EffectOutcomes : CallStorage(p, e)
  BY <1>1, <1>2, <1>3 DEF ReadState, EnterWork, BeginPass, LastSource, Reproject, FailBeforeEffect,
     PublishFails, CallStorage, ReadOnly
<1>4. ASSUME NEW s \in Sources,
             \/ PickSource(p, s) \/ Start(p, s) \/ StartRefused(p, s) \/ Summarize(p, s)
             \/ Park(p, s) \/ ReadBack(p, s) \/ EnterMutation(p, s) \/ Publish(p, s)
      PROVE  SteadyAside(p)
  BY <1>1, <1>2, <1>4, <1>6 DEF PickSource, Start, StartRefused, Summarize, Park, ReadBack, ReadOnly,
     EnterMutation, Publish
<1>5. CASE \/ Raised(p) \/ Retire(p) \/ EndAutomatic(p) \/ EndExecution(p) \/ Yield(p)
           \/ Return(p) \/ Acknowledge(p) \/ CapturePause(p) \/ KeepAlive(p)
  BY <1>1, <1>2, <1>5 DEF Raised, Retire, EndAutomatic, EndExecution, Yield, Return, Records,
     Acknowledge, CapturePause, KeepAlive, ReadOnly
<1>8. CASE Release(p) \/ Fail(p) \/ \E k \in p.seen : Settle(p, k)
  BY <1>1, <1>7, <1>8 DEF Release, Fail, Settle, SettledQueue
<1> QED
  BY <1>3, <1>4, <1>5, <1>8 DEF PassStep

(* Where a step leads the pass: it goes on, still showing what it should,  *)
(* or ends and leaves a row that is not a healthy claim.                   *)
NextShown(p) ==
  \/ passes' = passes \ {p} /\ ~Healthy(p.task)'
  \/ passes' = passes /\ Shows(p)'
  \/ \E q : passes' = (passes \ {p}) \cup {q} /\ SamePass(p, q) /\ Shows(q)'

LEMMA StepShows ==
  ASSUME ShownInv, EffectInv', ResultsKeyed', NEW p \in passes, SteadyAside(p), Moves(p) \/ Begins(p),
         Mine(p) => NextShown(p)
  PROVE  ShownInv'
<1>1. ASSUME NEW q \in passes, q # p
      PROVE  /\ Mine(q)' => Mine(q) /\ Steady(q.task)
             /\ Mine(q) /\ (queue'[q.task] = "claimed") => Mine(q)'
  <2>1. q.task \in Tasks
    BY PassFacts DEF ShownInv, EffectInv
  <2>2. KeepsClaim(q.task)
    BY <2>1 DEF SteadyAside
  <2>3. /\ Mine(q)' => Mine(q)
        /\ Mine(q) /\ (queue'[q.task] = "claimed") => Mine(q)'
    BY <2>2 DEF KeepsClaim, Mine, Owns
  <2>4. Mine(q) => Steady(q.task)
    <3>1. q.worker # p.worker
      BY <1>1 DEF ShownInv, EffectInv, TypeOK
    <3>2. Mine(q) => q.task # p.task \/ ~Mine(p)
      BY <3>1 DEF Mine, Owns
    <3> QED
      BY <2>1, <3>2 DEF SteadyAside
  <2> QED
    BY <2>3, <2>4
<1>2. ASSUME NEW q, SamePass(p, q)
      PROVE  /\ Mine(q)' => Mine(p)
             /\ Mine(p) /\ queue'[p.task] = "claimed" => Mine(q)'
  <2>1. p.task \in Tasks
    BY PassFacts DEF ShownInv, EffectInv
  <2> QED
    BY <1>2, <2>1 DEF SteadyAside, KeepsClaim, Mine, Owns, SamePass
<1>3. ASSUME NEW q \in passes, q # p
      PROVE  Shows(q)'
  BY <1>1, <1>3 DEF ShownInv, Shows, Steady, Mine, Owns
<1>4. ASSUME NEW q \in passes'
      PROVE  Shows(q)'
  <2>1. CASE q \in passes /\ q # p
    BY <1>3, <2>1
  <2>2. CASE ~(q \in passes /\ q # p)
    <3>1. SamePass(p, q)
      BY <2>2 DEF Moves, Begins, SamePass
    <3>2. CASE ~Mine(p)
      BY <1>2, <3>1, <3>2 DEF Shows
    <3>3. CASE Mine(p)
      <4>1. NextShown(p)
        BY <3>3
      <4>2. PICK r : passes' \subseteq (passes \ {p}) \cup {r} /\ Shows(r)'
        BY <2>2, <4>1 DEF NextShown
      <4> QED
        BY <2>2, <4>2
    <3> QED
      BY <3>2, <3>3
  <2> QED
    BY <2>1, <2>2
<1>5. ASSUME NEW t \in Tasks, Healthy(t)'
      PROVE  \E q \in passes' : q.task = t /\ Mine(q)'
  <2>1. queue'[t] = "claimed"
    BY <1>5 DEF Healthy
  <2>2. passes \ {p} \subseteq passes'
    BY DEF Moves, Begins
  <2>3. CASE t = p.task /\ Mine(p)
    <3>1. PICK q \in passes' : SamePass(p, q)
      BY <1>5, <2>3 DEF NextShown, SamePass
    <3> QED
      BY <1>2, <2>1, <2>3, <3>1 DEF SamePass
  <2>4. CASE ~(t = p.task /\ Mine(p))
    <3>1. Healthy(t)
      BY <1>5, <2>4 DEF SteadyAside, Steady
    <3>2. PICK q \in passes : q.task = t /\ Mine(q)
      BY <3>1 DEF ShownInv, HealthyClaimIsWorked, Healthy
    <3>3. q # p
      BY <2>4, <3>2
    <3> QED
      BY <1>1, <2>1, <2>2, <3>2, <3>3
  <2> QED
    BY <2>3, <2>4
<1>6. HealthyClaimIsWorked'
  BY <1>5 DEF HealthyClaimIsWorked, Healthy
<1> QED
  BY <1>4, <1>6 DEF ShownInv

(* What the step it goes to has to show.                                   *)
MayGoTo(p, step) ==
  /\ step \in AnsweringSteps => control[p.task] # "none"
  /\ step = "retiring" => marker[p.task] # {}

LEMMA BecomeShown ==
  ASSUME NEW p \in passes, NEW q, Become(p, q), SamePass(p, q), MayGoTo(p, q.pc), UNCHANGED control,
         q.pc = "retiring" => UNCHANGED marker
  PROVE  NextShown(p)
<1>1. passes' = (passes \ {p}) \cup {q}
  BY DEF Become
<1>2. Shows(q)'
  BY DEF Shows, MayGoTo, SamePass
<1> QED
  BY <1>1, <1>2 DEF NextShown

LEMMA GotoShown ==
  ASSUME TypeOK, NEW p \in passes, NEW step, Goto(p, step), MayGoTo(p, step), UNCHANGED control,
         step = "retiring" => UNCHANGED marker
  PROVE  NextShown(p)
<1> DEFINE q == [p EXCEPT !.pc = step]
<1>1. p \in Passes
  BY PassFacts
<1>2. q.pc = step /\ SamePass(p, q)
  BY <1>1 DEF Passes, SamePass
<1> QED
  BY <1>2, BecomeShown DEF Goto

LEMMA EndShown ==
  ASSUME NEW p, End(p),
         \/ queue'[p.task] # "claimed"
         \/ lease'[p.task] # "live"
         \/ control'[p.task] # "none"
         \/ marker'[p.task] # {}
  PROVE  NextShown(p)
  BY DEF End, NextShown, Healthy

(* A pass refused for its fence leaves a lapsed claim.                     *)
LEMMA RefusedShown ==
  ASSUME NEW p, End(p), Mine(p), ~MineLive(p), UNCHANGED kernelVars
  PROVE  NextShown(p)
  BY EndShown DEF Mine, MineLive, OwnsLive, kernelVars

LEMMA LostShown ==
  ASSUME TypeOK, NEW p \in passes, Lost(p), Mine(p), ~MineLive(p), UNCHANGED kernelVars
  PROVE  NextShown(p)
<1>1. MayGoTo(p, "raised") /\ UNCHANGED control
  BY DEF MayGoTo, AnsweringSteps, kernelVars
<1> QED
  BY <1>1, GotoShown, RefusedShown DEF Lost

LEMMA CaptureShown ==
  ASSUME TypeOK, NEW p \in passes, NEW rows, NEW closes, Capture(p, rows, closes),
         control[p.task] # "none", UNCHANGED control
  PROVE  NextShown(p)
<1> DEFINE q == [p EXCEPT !.pc = "settling", !.to = Settled(rows, control[p.task]),
      !.seen = {[control |-> control[p.task], revision |-> revision[p.task], closes |-> closes]}]
<1>1. p \in Passes
  BY PassFacts
<1>2. q.pc = "settling" /\ SamePass(p, q)
  BY <1>1 DEF Passes, SamePass
<1>3. Become(p, q) /\ MayGoTo(p, "settling")
  BY DEF Capture, MayGoTo
<1> HIDE DEF q
<1> QED
  BY <1>2, <1>3, BecomeShown

LEMMA CompletesShown ==
  ASSUME TypeOK, NEW p \in passes, NEW rows, Completes(p, rows), UNCHANGED control
  PROVE  NextShown(p)
<1> DEFINE q == [p EXCEPT !.pc = "completing", !.to = Present(rows)]
<1>1. p \in Passes
  BY PassFacts
<1>2. q.pc = "completing" /\ SamePass(p, q)
  BY <1>1 DEF Passes, SamePass
<1>3. Become(p, q) /\ MayGoTo(p, "completing")
  BY DEF Completes, MayGoTo, AnsweringSteps
<1> HIDE DEF q
<1> QED
  BY <1>2, <1>3, BecomeShown

LEMMA OutcomeShown ==
  ASSUME TypeOK, NEW p \in passes, NEW rows, Outcome(p, rows), UNCHANGED <<control, marker>>
  PROVE  NextShown(p)
<1>1. MayGoTo(p, "yielding") /\ MayGoTo(p, "deferring")
  BY DEF MayGoTo, AnsweringSteps
<1> QED
  BY <1>1, GotoShown, EndShown, CompletesShown DEF Outcome

LEMMA PlainSteps ==
  ASSUME NEW p, NEW step,
         step \in {"entering", "beginning", "choosing", "starting", "started", "mutating", "publishing",
                   "republishing", "refused", "parked", "reprojecting", "raised", "ending", "deferring",
                   "completing", "yielding", "returning", "failing", "pausing"}
  PROVE  MayGoTo(p, step)
  BY DEF MayGoTo, AnsweringSteps

LEMMA ReadingShown ==
  ASSUME TypeOK, NEW p \in passes, Mine(p), UNCHANGED control,
         ReadState(p) \/ EnterWork(p) \/ LastSource(p) \/ FailBeforeEffect(p)
  PROVE  NextShown(p)
<1>1. p \in Passes
  BY PassFacts
<1>2. CASE ReadState(p)
  <2> DEFINE q == [p EXCEPT
       !.pc = IF control[p.task] = "none" THEN "entering" ELSE "acknowledging",
       !.kind = IF OpenExecution(p.task) THEN "execution" ELSE "automatic"]
  <2>1. /\ SamePass(p, q) /\ Become(p, q)
        /\ q.pc = IF control[p.task] = "none" THEN "entering" ELSE "acknowledging"
    BY <1>1, <1>2 DEF ReadState, Passes, SamePass
  <2>2. MayGoTo(p, q.pc) /\ q.pc # "retiring"
    BY <2>1 DEF MayGoTo, AnsweringSteps
  <2> HIDE DEF q
  <2> QED
    BY <2>1, <2>2, BecomeShown
<1>3. CASE EnterWork(p) \/ LastSource(p)
  BY <1>3, PlainSteps, GotoShown DEF EnterWork, LastSource
<1>4. CASE FailBeforeEffect(p)
  <2> DEFINE q == [p EXCEPT !.pc = "publishing", !.effect = "none"]
  <2>1. SamePass(p, q) /\ Become(p, q) /\ q.pc = "publishing"
    BY <1>1, <1>4 DEF FailBeforeEffect, Passes, SamePass
  <2> HIDE DEF q
  <2> QED
    BY <2>1, PlainSteps, BecomeShown
<1> QED
  BY <1>2, <1>3, <1>4

LEMMA BeginPassShown ==
  ASSUME TypeOK, NEW p \in passes, Mine(p), UNCHANGED control, BeginPass(p)
  PROVE  NextShown(p)
<1>1. p \in Passes
  BY PassFacts
<1>2. CASE End(p) /\ ~MineLive(p) /\ UNCHANGED kernelVars
  BY <1>2, RefusedShown
<1>3. ASSUME NEW step \in {"choosing", "yielding"}, NEW kind, NEW todo,
             Become(p, [p EXCEPT !.pc = step, !.kind = kind, !.todo = todo])
      PROVE  NextShown(p)
  <2> DEFINE q == [p EXCEPT !.pc = step, !.kind = kind, !.todo = todo]
  <2>1. SamePass(p, q) /\ Become(p, q) /\ q.pc = step
    BY <1>1, <1>3 DEF Passes, SamePass
  <2> HIDE DEF q
  <2> QED
    BY <2>1, PlainSteps, BecomeShown
<1> QED
  BY <1>2, <1>3 DEF BeginPass

LEMMA SourceShown ==
  ASSUME TypeOK, NEW p \in passes, Mine(p), UNCHANGED control, NEW s \in Sources,
         \/ PickSource(p, s) \/ Start(p, s) \/ StartRefused(p, s) \/ Summarize(p, s)
         \/ Park(p, s) \/ ReadBack(p, s) \/ EnterMutation(p, s) \/ Publish(p, s)
  PROVE  NextShown(p)
<1>1. p \in Passes
  BY PassFacts
<1>2. CASE PickSource(p, s)
  <2> DEFINE q == [p EXCEPT !.todo = @ \ {s}, !.source = {s},
       !.pc = IF control[p.task] = "none" THEN "starting"
              ELSE IF p.kind = "execution" THEN "acknowledging" ELSE "raised"]
  <2>1. /\ SamePass(p, q) /\ Become(p, q)
        /\ q.pc = IF control[p.task] = "none" THEN "starting"
                  ELSE IF p.kind = "execution" THEN "acknowledging" ELSE "raised"
    BY <1>1, <1>2 DEF PickSource, Passes, SamePass
  <2>2. MayGoTo(p, q.pc) /\ q.pc # "retiring"
    BY <2>1 DEF MayGoTo, AnsweringSteps
  <2> HIDE DEF q
  <2> QED
    BY <2>1, <2>2, BecomeShown
<1>3. CASE Start(p, s) \/ StartRefused(p, s)
  BY <1>3, PlainSteps, GotoShown, LostShown, RefusedShown DEF Start, StartRefused
<1>4. CASE Summarize(p, s) \/ Park(p, s)
  BY <1>4, PlainSteps, GotoShown, RefusedShown DEF Summarize, Park
<1>5. CASE ReadBack(p, s)
  <2> DEFINE q == [p EXCEPT !.pc = "reprojecting", !.to = [x \in {s} |-> item[p.task][s]]]
  <2>1. SamePass(p, q) /\ q.pc = "reprojecting"
    BY <1>1 DEF Passes, SamePass
  <2>2. Become(p, q) => NextShown(p)
    <3> HIDE DEF q
    <3> QED
      BY <2>1, PlainSteps, BecomeShown
  <2> QED
    BY <1>5, <2>2, PlainSteps, GotoShown, RefusedShown DEF ReadBack, ReadOnly
<1>6. CASE EnterMutation(p, s)
  <2> DEFINE q == [p EXCEPT !.pc = "republishing", !.effect = "none"]
  <2>1. SamePass(p, q) /\ q.pc = "republishing"
    BY <1>1 DEF Passes, SamePass
  <2>2. Become(p, q) => NextShown(p)
    <3> HIDE DEF q
    <3> QED
      BY <2>1, PlainSteps, BecomeShown
  <2> QED
    BY <1>6, <2>2, PlainSteps, GotoShown, LostShown DEF EnterMutation
<1>7. CASE Publish(p, s)
  <2> DEFINE q == [p EXCEPT !.pc = "choosing", !.effect = "none"]
  <2>1. SamePass(p, q) /\ Become(p, q) /\ q.pc = "choosing"
    BY <1>1, <1>7 DEF Publish, Passes, SamePass
  <2> HIDE DEF q
  <2> QED
    BY <2>1, PlainSteps, BecomeShown
<1> QED
  BY <1>2, <1>3, <1>4, <1>5, <1>6, <1>7

LEMMA StorageShown ==
  ASSUME TypeOK, NEW p \in passes, Mine(p), Shows(p), UNCHANGED control,
         \/ Reproject(p) \/ PublishFails(p) \/ (\E e \in EffectOutcomes : CallStorage(p, e))
         \/ Raised(p) \/ KeepAlive(p)
  PROVE  NextShown(p)
<1>1. p \in Passes
  BY PassFacts
<1>2. CASE Reproject(p)
  <2>1. ASSUME NEW step \in {"choosing", "raised"}, Become(p, [p EXCEPT !.pc = step, !.to = Nothing])
        PROVE  NextShown(p)
    <3> DEFINE q == [p EXCEPT !.pc = step, !.to = Nothing]
    <3>1. SamePass(p, q) /\ Become(p, q) /\ q.pc = step
      BY <1>1, <2>1 DEF Passes, SamePass
    <3> HIDE DEF q
    <3> QED
      BY <3>1, PlainSteps, BecomeShown
  <2> QED
    BY <1>2, <2>1, RefusedShown DEF Reproject
<1>3. CASE PublishFails(p)
  BY <1>3, PlainSteps, GotoShown, LostShown, RefusedShown DEF PublishFails, ReadOnly
<1>4. ASSUME NEW e, CallStorage(p, e)
      PROVE  NextShown(p)
  <2> DEFINE q == [p EXCEPT !.pc = "publishing", !.effect = e]
  <2>1. SamePass(p, q) /\ Become(p, q) /\ q.pc = "publishing"
    BY <1>1, <1>4 DEF CallStorage, Passes, SamePass
  <2> HIDE DEF q
  <2> QED
    BY <2>1, PlainSteps, BecomeShown
<1>5. CASE Raised(p)
  <2>1. CASE marker[p.task] # {} /\ Renew(p) /\ Goto(p, "retiring")
    <3>1. MayGoTo(p, "retiring") /\ UNCHANGED marker
      BY <2>1 DEF MayGoTo, AnsweringSteps, Renew, Heartbeat
    <3> QED
      BY <2>1, <3>1, GotoShown
  <2>2. CASE p.kind # "execution" /\ control[p.task] # "none" /\ Goto(p, "acknowledging")
    <3>1. MayGoTo(p, "acknowledging")
      BY <2>2 DEF MayGoTo, AnsweringSteps
    <3> QED
      BY <2>2, <3>1, GotoShown
  <2>3. CASE Goto(p, "failing")
    BY <2>3, PlainSteps, GotoShown
  <2> QED
    BY <1>5, <2>1, <2>2, <2>3 DEF Raised
<1>6. CASE KeepAlive(p)
  <2>1. UNCHANGED passes
    BY <1>6 DEF KeepAlive, engineOnly
  <2>2. Shows(p)'
    BY <1>6 DEF Shows, KeepAlive, Renew, Heartbeat, AnsweringSteps
  <2> QED
    BY <2>1, <2>2 DEF NextShown
<1> QED
  BY <1>2, <1>3, <1>4, <1>5, <1>6

LEMMA AnswersShown ==
  ASSUME TypeOK, NEW p \in passes, control[p.task] # "none", UNCHANGED control
  PROVE  /\ Goto(p, "acknowledging") => NextShown(p)
         /\ End(p) => NextShown(p)
         /\ \A rows, closes : Capture(p, rows, closes) => NextShown(p)
<1>1. MayGoTo(p, "acknowledging")
  BY DEF MayGoTo
<1>2. control'[p.task] # "none"
  OBVIOUS
<1> QED
  BY <1>1, <1>2, GotoShown, EndShown, CaptureShown

LEMMA EndingShown ==
  ASSUME TypeOK, NEW p \in passes, Mine(p), Shows(p), UNCHANGED control,
         Retire(p) \/ EndAutomatic(p) \/ EndExecution(p)
  PROVE  NextShown(p)
<1>1. ASSUME NEW rows, Records(p, rows)
      PROVE  UNCHANGED marker
  BY <1>1 DEF Records, RecordItems
<1>2. CASE Retire(p)
  <2>1. marker'[p.task] # {} /\ UNCHANGED marker
    BY <1>1, <1>2 DEF Retire, Shows, kernelVars
  <2>2. End(p) => NextShown(p)
    BY <2>1, EndShown
  <2>3. \A rows : (Outcome(p, rows) \/ Completes(p, rows)) => NextShown(p)
    BY <2>1, OutcomeShown, CompletesShown
  <2>4. Goto(p, "deferring") => NextShown(p)
    BY PlainSteps, GotoShown
  <2> QED
    BY <1>2, <2>2, <2>3, <2>4, AnswersShown DEF Retire
<1>3. CASE EndAutomatic(p)
  <2>1. UNCHANGED marker
    BY <1>3 DEF EndAutomatic, Renew, Heartbeat
  <2> QED
    BY <1>3, <2>1, OutcomeShown, AnswersShown DEF EndAutomatic
<1>4. CASE EndExecution(p)
  <2>1. (Goto(p, "deferring") \/ Goto(p, "yielding")) => NextShown(p)
    BY PlainSteps, GotoShown
  <2>2. \A rows : Completes(p, rows) => NextShown(p)
    BY CompletesShown
  <2>3. End(p) /\ ~MineLive(p) /\ UNCHANGED kernelVars => NextShown(p)
    BY RefusedShown
  <2> QED
    BY <1>4, <2>1, <2>2, <2>3, AnswersShown DEF EndExecution
<1> QED
  BY <1>2, <1>3, <1>4

(* A healthy claim can be failed: its machine sources accept the outcome.  *)
LEMMA FailAccepted ==
  ASSUME EffectInv, ResultsKeyed, NEW t \in Tasks, control[t] = "none", marker[t] = {}
  PROVE  LET to == Differing(item[t], Turned(item[t], MachineItems, "failed"))
         IN  ~ReleaseRefused(t, to, attempts[t], {}, FALSE)
<1> DEFINE after == Turned(item[t], MachineItems, "failed")
           to == Differing(item[t], after)
<1>1. ASSUME NEW s \in Sources
      PROVE  /\ Overlay(item[t], to)[s] \notin MachineItems
             /\ s \in DOMAIN to => item[t][s] \in MachineItems
  BY DEF Overlay, Differing, Turned, MachineItems
<1>2. ASSUME NEW s \in DOMAIN to
      PROVE  AcceptsProgress(t, s, to[s], attempts[t][s])
  <2>1. s \in Sources
    BY <1>2 DEF Differing
  <2>2. item[t][s] \in MachineItems
    BY <1>1, <1>2, <2>1
  <2>3. effects[t][s] = {}
    BY <2>1, <2>2 DEF EffectInv, TaskAccounts, RowAccounts, Ended, MachineItems
  <2>4. recorded[t][s] = {}
    BY <2>1, <2>3 DEF ResultsKeyed
  <2> QED
    BY <2>2, <2>4 DEF AcceptsProgress, HasRecordedOutcome, SettledItems, MachineItems
<1> QED
  BY <1>1, <1>2 DEF ReleaseRefused

LEMMA LeavingShown ==
  ASSUME EffectInv, ResultsKeyed, NEW p \in passes, Mine(p), Shows(p), UNCHANGED control,
         \/ Release(p) \/ Yield(p) \/ Return(p) \/ Fail(p) \/ Acknowledge(p) \/ CapturePause(p)
         \/ \E k \in p.seen : Settle(p, k)
  PROVE  NextShown(p)
<1>1. TypeOK /\ p.task \in Tasks
  BY PassFacts DEF EffectInv
<1>2. ASSUME End(p), NEW st, NEW to, NEW q \in {"settled", "waiting_human", "paused"}, NEW expected, NEW close,
             ReleaseClaim(p.worker, p.gen, p.task, st, to, q, expected, close)
      PROVE  NextShown(p)
  <2>1. queue'[p.task] # "claimed"
    BY <1>1, <1>2 DEF ReleaseClaim, ReleaseWrites, TypeOK, KernelTypeOK
  <2> QED
    BY <1>2, <2>1, EndShown
<1>3. CASE Release(p)
  <2>1. CASE UNCHANGED kernelVars /\ End(p) /\ (marker[p.task] # {} \/ control[p.task] # "none")
    BY <2>1, EndShown DEF kernelVars
  <2> QED
    BY <1>1, <1>2, <1>3, <2>1, PlainSteps, GotoShown, RefusedShown DEF Release
<1>4. CASE Yield(p)
  BY <1>1, <1>4, PlainSteps, GotoShown DEF Yield
<1>5. CASE Return(p)
  <2>1. CASE YieldClaim(p.worker, p.gen, p.task) /\ End(p)
    <3>1. queue'[p.task] # "claimed"
      BY <1>1, <2>1 DEF YieldClaim, TypeOK, KernelTypeOK
    <3> QED
      BY <2>1, <3>1, EndShown
  <2> QED
    BY <1>1, <1>5, <2>1, PlainSteps, GotoShown, RefusedShown DEF Return
<1>6. CASE Fail(p)
  <2> DEFINE to == Differing(item[p.task], Turned(item[p.task], MachineItems, "failed"))
  <2>1. End(p)
    BY <1>6 DEF Fail
  <2>2. CASE ReleaseClaim(p.worker, p.gen, p.task, "failed", to, "settled", {}, FALSE)
    BY <1>2, <2>1, <2>2
  <2>3. CASE ~MineLive(p) /\ UNCHANGED kernelVars
    BY <2>1, <2>3, RefusedShown
  <2>4. CASE ReleaseRefused(p.task, to, attempts[p.task], {}, FALSE) /\ UNCHANGED kernelVars
    <3>1. control[p.task] # "none" \/ marker[p.task] # {}
      BY <1>1, <2>4, FailAccepted
    <3> QED
      BY <2>1, <2>4, <3>1, EndShown DEF kernelVars
  <2> QED
    BY <1>6, <2>2, <2>3, <2>4 DEF Fail
<1>7. CASE Acknowledge(p)
  <2>1. control[p.task] # "none"
    BY <1>7 DEF Acknowledge, Shows, AnsweringSteps
  <2> QED
    BY <1>1, <1>7, <2>1, PlainSteps, GotoShown, AnswersShown DEF Acknowledge
<1>8. CASE CapturePause(p)
  BY <1>1, <1>8, PlainSteps, GotoShown, CaptureShown DEF CapturePause
<1>9. ASSUME NEW k \in p.seen, Settle(p, k)
      PROVE  NextShown(p)
  <2>1. control[p.task] # "none"
    BY <1>9 DEF Settle, Shows, AnsweringSteps
  <2>2. SettledQueue(k.control) \in {"settled", "waiting_human", "paused"}
    BY DEF SettledQueue
  <2>3. CASE /\ End(p)
             /\ ReleaseClaim(p.worker, p.gen, p.task, SettledStatus(k.control), p.to,
                             SettledQueue(k.control), {k.revision}, k.closes)
    BY <1>2, <2>2, <2>3
  <2> QED
    BY <1>1, <1>9, <2>1, <2>3, PlainSteps, GotoShown, AnswersShown DEF Settle
<1> QED
  BY <1>3, <1>4, <1>5, <1>6, <1>7, <1>8, <1>9

LEMMA PassesShow ==
  ASSUME ShownInv, NEW p \in passes, PassStep(p) \/ KeepAlive(p), Mine(p)
  PROVE  NextShown(p)
<1>1. /\ EffectInv /\ TypeOK /\ ResultsKeyed /\ Shows(p)
      /\ UNCHANGED control
  BY PassesKeepControl DEF ShownInv, EffectInv
<1> QED
  BY <1>1, ReadingShown, BeginPassShown, SourceShown, StorageShown, EndingShown, LeavingShown
  DEF PassStep

(* The steps of nobody's pass keep the passes at work.                     *)
LEMMA SteadyShows ==
  ASSUME ShownInv, EffectInv', ResultsKeyed', UNCHANGED passes, \A u \in Tasks : Steady(u)
  PROVE  ShownInv'
<1>1. ASSUME NEW p \in passes
      PROVE  /\ Shows(p)'
             /\ Mine(p) /\ queue'[p.task] = "claimed" => Mine(p)'
  <2>1. Steady(p.task) /\ Shows(p)
    BY PassFacts DEF ShownInv, EffectInv
  <2> QED
    BY <2>1 DEF Steady, KeepsClaim, Shows, Mine, Owns
<1>2. ASSUME NEW t \in Tasks, Healthy(t)'
      PROVE  \E p \in passes' : p.task = t /\ Mine(p)'
  <2>1. Healthy(t) /\ queue'[t] = "claimed"
    BY <1>2 DEF Steady, Healthy
  <2>2. PICK p \in passes : p.task = t /\ Mine(p)
    BY <2>1 DEF ShownInv, HealthyClaimIsWorked, Healthy
  <2> QED
    BY <1>1, <2>1, <2>2
<1>3. HealthyClaimIsWorked'
  BY <1>2 DEF HealthyClaimIsWorked, Healthy
<1> QED
  BY <1>1, <1>3 DEF ShownInv

LEMMA BesideSteady ==
  ASSUME TypeOK,
         \/ \E t \in Tasks : Operators(t) \/ Lapse(t)
         \/ \E r \in requests : ReadUnowned(r) \/ \E k \in r.rows : SettleUnowned(r, k)
         \/ UNCHANGED vars
  PROVE  \A u \in Tasks : Steady(u)
<1>1. KernelTypeOK /\ "pause" \in {"pause", "cancel"} /\ RequestedControls \subseteq {"pause", "cancel"}
  BY EngineAssumption DEF TypeOK
<1>2. ASSUME NEW t \in Tasks, Operators(t) \/ Lapse(t)
      PROVE  \A u \in Tasks : Steady(u)
  <2>1. ASSUME NEW c \in RequestedControls, AskControl(t, c)
        PROVE  \A u \in Tasks : Steady(u)
    <3>1. c \in {"pause", "cancel"}
      BY <1>1
    <3> QED
      BY <1>1, <2>1, <3>1, CallsAreSteady, GivenQueues DEF AskControl
  <2>2. CASE AdmitTask(t) \/ Continue(t) \/ ResumeTask(t) \/ Lapse(t)
    BY <1>1, <2>2, CallsAreSteady, GivenQueues DEF AdmitTask, Continue, ResumeTask, Lapse
  <2>3. ASSUME NEW S, ConfirmSummary(t, S)
        PROVE  \A u \in Tasks : Steady(u)
    BY <1>1, <2>3, CallsAreSteady, GivenQueues DEF ConfirmSummary
  <2>4. ASSUME NEW s, DecideReview(t, s) \/ IgnoreSource(t, s)
        PROVE  \A u \in Tasks : Steady(u)
    BY <1>1, <2>4, CallsAreSteady, GivenQueues DEF DecideReview, IgnoreSource
  <2> QED
    BY <1>2, <2>1, <2>2, <2>3, <2>4 DEF Operators
<1>3. CASE UNCHANGED kernelVars
  BY <1>3 DEF Steady, KeepsClaim, Healthy, kernelVars
<1>4. ASSUME NEW r \in requests, ReadUnowned(r) \/ \E k \in r.rows : SettleUnowned(r, k)
      PROVE  \A u \in Tasks : Steady(u)
  <2>1. r.task \in Tasks
    BY DEF TypeOK, Requests
  <2>2. CASE ReadUnowned(r)
    BY <1>3, <2>2 DEF ReadUnowned
  <2>3. ASSUME NEW k \in r.rows, SettleUnowned(r, k)
        PROVE  \A u \in Tasks : Steady(u)
    BY <1>1, <1>3, <2>1, <2>3, CallsAreSteady, GivenQueues DEF SettleUnowned
  <2> QED
    BY <1>4, <2>2, <2>3
<1>5. UNCHANGED vars => UNCHANGED kernelVars
  BY DEF vars
<1> QED
  BY <1>2, <1>3, <1>4, <1>5

LEMMA ClaimNextShows ==
  ASSUME ShownInv, EffectInv', ResultsKeyed', NEW w \in Workers, NEW t \in Tasks, ClaimNext(w, t)
  PROVE  ShownInv'
<1>1. PICK new : /\ passes' = passes \cup {new}
                 /\ new = [worker |-> w, task |-> t, gen |-> gen[t] + 1, pc |-> "control",
                           kind |-> "unread", todo |-> {}, source |-> {}, effect |-> "none",
                           seen |-> {}, to |-> Nothing]
  BY DEF ClaimNext
<1>2. /\ gen[t] \in Nat /\ gen'[t] = gen[t] + 1 /\ holder'[t] = {w} /\ queue'[t] = "claimed"
      /\ UNCHANGED <<marker, control, status>>
      /\ \A u \in Tasks \ {t} : UNCHANGED <<queue[u], gen[u], holder[u], lease[u]>>
  BY DEF ClaimNext, Claim, controlVars, ShownInv, EffectInv, TypeOK, KernelTypeOK
<1>3. ASSUME NEW p \in passes
      PROVE  /\ Mine(p)' => Mine(p) /\ p.task # t
             /\ Mine(p) /\ p.task # t => Mine(p)'
  <2>1. p.task \in Tasks /\ p.gen \in Nat /\ p.gen <= gen[p.task]
    BY PassFacts DEF ShownInv, EffectInv, PassAccounts
  <2> QED
    BY <1>2, <2>1 DEF Mine, Owns
<1>4. new.pc = "control" /\ new.task = t /\ Mine(new)'
  <2>1. new.pc = "control" /\ new.task = t /\ new.worker = w /\ new.gen = gen[t] + 1
    BY <1>1
  <2> QED
    BY <1>2, <2>1 DEF Mine, Owns
<1>5. ASSUME NEW p \in passes'
      PROVE  Shows(p)'
  <2>1. CASE p \in passes
    BY <1>2, <1>3, <2>1 DEF ShownInv, Shows
  <2>2. CASE p = new
    BY <1>4, <2>2 DEF Shows, AnsweringSteps
  <2> QED
    BY <1>1, <2>1, <2>2
<1>6. ASSUME NEW u \in Tasks, Healthy(u)'
      PROVE  \E p \in passes' : p.task = u /\ Mine(p)'
  <2>1. CASE u = t
    BY <1>1, <1>4, <2>1
  <2>2. CASE u # t
    <3>1. Healthy(u)
      BY <1>2, <1>6, <2>2 DEF Healthy
    <3>2. PICK p \in passes : p.task = u /\ Mine(p)
      BY <3>1 DEF ShownInv, HealthyClaimIsWorked, Healthy
    <3> QED
      BY <1>1, <1>3, <2>2, <3>2
  <2> QED
    BY <2>1, <2>2
<1>7. HealthyClaimIsWorked'
  BY <1>6 DEF HealthyClaimIsWorked, Healthy
<1> QED
  BY <1>5, <1>7 DEF ShownInv

LEMMA ShownInvKept ==
  ASSUME ~Crashes, ShownInv, [Next]_vars
  PROVE  ShownInv'
<1>1. TypeOK /\ KernelTypeOK /\ EffectInv' /\ KernelStep
  BY EffectInvKept, TypeKept DEF ShownInv, EffectInv, TypeOK
<1>2. ResultsKeyed'
  <2>1. CASE UNCHANGED kernelVars
    BY <2>1 DEF ShownInv, ResultsKeyed, kernelVars
  <2>2. ASSUME NEW t \in Tasks, OtherCalls(t) \/ \E w \in Workers : WorkerCalls(w, t)
        PROVE  ResultsKeyed'
    BY <1>1, <2>2, ResultsKeyedKept DEF ShownInv
  <2> QED
    BY <1>1, <2>1, <2>2 DEF KernelStep, KernelNext
<1>3. ASSUME NEW p \in passes, PassStep(p) \/ KeepAlive(p)
      PROVE  ShownInv'
  <2>1. SteadyAside(p)
    BY <1>1, <1>3, PassesAreSteadyAside
  <2>2. Moves(p) \/ Begins(p)
    BY <1>1, <1>3, PassAdvances DEF Advances, Quiet, Leaves, Moves
  <2>3. Mine(p) => NextShown(p)
    BY <1>3, PassesShow
  <2> QED
    BY <1>1, <1>2, <2>1, <2>2, <2>3, StepShows
<1>4. ASSUME NEW p \in passes, Crash(p)
      PROVE  FALSE
  BY <1>4 DEF Crash
<1>5. CASE \/ \E t \in Tasks : Operators(t) \/ Lapse(t)
           \/ \E r \in requests : ReadUnowned(r) \/ \E k \in r.rows : SettleUnowned(r, k)
           \/ UNCHANGED vars
  <2>1. UNCHANGED passes
    BY <1>1, <1>5, OperatorsAside, RequestsAside DEF Aside, vars, engineOnly
  <2> QED
    BY <1>1, <1>2, <1>5, <2>1, BesideSteady, SteadyShows
<1>6. ASSUME NEW w \in Workers, NEW t \in Tasks, ClaimNext(w, t)
      PROVE  ShownInv'
  BY <1>1, <1>2, <1>6, ClaimNextShows
<1> QED
  BY <1>3, <1>4, <1>5, <1>6 DEF Next

(* While no Worker dies, every end of a pass gives the slot back or leaves *)
(* a row that tells why it did not: whatever lapses, is refused, fails in  *)
(* the database, is decided or controlled, a running Task whose claim is   *)
(* live and has no control and no open boundary has its pass at work.      *)
THEOREM HealthyClaimsAreWorked ==
  ASSUME ~Crashes
  PROVE  Spec => []HealthyClaimIsWorked
<1>1. Init => ShownInv
  <2> SUFFICES ASSUME Init PROVE ShownInv
    OBVIOUS
  <2>1. EffectInv /\ ResultsKeyed
    BY EffectInvInit DEF Init, KernelInit, ResultsKeyed
  <2> QED
    BY <2>1 DEF Init, KernelInit, ShownInv, HealthyClaimIsWorked
<1>2. ShownInv /\ [Next]_vars => ShownInv'
  BY ShownInvKept
<1>3. ShownInv => HealthyClaimIsWorked
  BY DEF ShownInv
<1> QED
  BY <1>1, <1>2, <1>3, PTL DEF Spec

=============================================================================
