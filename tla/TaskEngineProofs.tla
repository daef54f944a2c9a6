-------------------------- MODULE TaskEngineProofs --------------------------
(***************************************************************************)
(* The engine calls the kernel correctly and has one organizer per Task,   *)
(* for every number of Tasks, Workers and Sources and every bound.         *)
(*                                                                         *)
(* Each step of a pass is shown to be of one of three shapes (Advances):   *)
(* quiet (it moves no claim and does not begin to work), leaving (it gives *)
(* up a claim it owns and ends) or beginning.  Type correctness, the       *)
(* implementation of KernelSpec and OneOrganizer follow from the shapes.   *)
(***************************************************************************)
EXTENDS TaskEngineProperties, TaskKernelProofs

RestOK ==
  /\ execution \in [Tasks -> ExecutionStates]
  /\ run \in [Tasks -> [Sources -> RunStates]]
  /\ requests \subseteq Requests
  /\ touched \in [Tasks -> SUBSET Sources]

PassesOK ==
  /\ passes \subseteq Passes
  /\ \A p, q \in passes : p.worker = q.worker => p = q

LEMMA TypeParts == TypeOK <=> KernelTypeOK /\ PassesOK /\ RestOK
  BY DEF TypeOK, PassesOK, RestOK

Untouched(u) == UNCHANGED <<status[u], queue[u], gen[u], holder[u]>>
KernelStep   == [KernelNext]_kernelVars

SamePass(p, q) == q.worker = p.worker /\ q.task = p.task /\ q.gen = p.gen

Moves(p) ==
  \/ passes' = passes
  \/ passes' = passes \ {p}
  \/ \E q \in Passes :
       /\ passes' = (passes \ {p}) \cup {q}
       /\ SamePass(p, q)
       /\ q.pc \in WorkingSteps => p.pc \in WorkingSteps

Quiet(p)  == KernelStep /\ Moves(p) /\ \A u \in Tasks : Untouched(u)
Leaves(p) ==
  /\ KernelStep /\ Mine(p)
  /\ passes' = passes \ {p}
  /\ \A u \in Tasks \ {p.task} : Untouched(u)
Begins(p) ==
  /\ KernelStep /\ Mine(p)
  /\ status'[p.task] = "running"
  /\ UNCHANGED <<queue, gen, holder>>
  /\ \A u \in Tasks \ {p.task} : Untouched(u)
  /\ \E q \in Passes : passes' = (passes \ {p}) \cup {q} /\ SamePass(p, q)

Advances(p) == Quiet(p) \/ Leaves(p) \/ Begins(p)

-----------------------------------------------------------------------------
(* The rows the passes compute are rows.                                   *)

LEMMA SubrowsType ==
  ASSUME NEW S \in SUBSET Sources, NEW f \in [S -> ItemStatuses]
  PROVE  f \in ItemRows
  BY DEF ItemRows

LEMMA TurnedType ==
  ASSUME NEW rows \in [Sources -> ItemStatuses], NEW from, NEW to \in ItemStatuses
  PROVE  Turned(rows, from, to) \in [Sources -> ItemStatuses]
  BY DEF Turned

LEMMA DifferingType ==
  ASSUME NEW rows \in [Sources -> ItemStatuses], NEW after \in [Sources -> ItemStatuses]
  PROVE  Differing(rows, after) \in ItemRows
<1> DEFINE S == {x \in Sources : after[x] # rows[x]}
<1>1. [s \in S |-> after[s]] \in [S -> ItemStatuses]
  OBVIOUS
<1> QED
  BY <1>1, SubrowsType DEF Differing

LEMMA PresentType ==
  ASSUME NEW rows \in [Sources -> ItemStatuses]
  PROVE  Present(rows) \in ItemRows
<1> DEFINE S == {x \in Sources : rows[x] # "absent"}
<1>1. [s \in S |-> rows[s]] \in [S -> ItemStatuses]
  OBVIOUS
<1> QED
  BY <1>1, SubrowsType DEF Present

LEMMA StatusesType ==
  {"absent", "pending", "processing", "paused", "review", "confirm", "failed", "cancelled"}
    \subseteq ItemStatuses
  BY DEF ItemStatuses, MachineItems, WaitingItems, SettledItems

LEMMA SettledType ==
  ASSUME NEW rows \in [Sources -> ItemStatuses], NEW c
  PROVE  Settled(rows, c) \in ItemRows
<1>1. /\ Turned(rows, Pausable, "paused") \in [Sources -> ItemStatuses]
      /\ Turned(rows, Cancellable, "cancelled") \in [Sources -> ItemStatuses]
  BY TurnedType, StatusesType
<1> QED
  BY <1>1, DifferingType DEF Settled

LEMMA OneRowType ==
  ASSUME NEW s \in Sources, NEW st \in ItemStatuses
  PROVE  [x \in {s} |-> st] \in ItemRows
<1>1. [x \in {s} |-> st] \in [{s} -> ItemStatuses]
  OBVIOUS
<1> QED
  BY <1>1, SubrowsType

LEMMA NothingType == Nothing \in ItemRows
<1>1. Nothing \in [{} -> ItemStatuses]
  BY DEF Nothing
<1> QED
  BY <1>1, SubrowsType

LEMMA StoppedType ==
  ASSUME TypeOK, NEW t \in Tasks
  PROVE  Stopped(t) \in [Sources -> ItemStatuses]
  BY StatusesType DEF Stopped, TypeOK, KernelTypeOK

-----------------------------------------------------------------------------
(* What a kernel call of a pass does to the claims.                        *)

LEMMA PassFacts ==
  ASSUME TypeOK, NEW p \in passes
  PROVE  /\ p \in Passes
         /\ p.worker \in Workers /\ p.task \in Tasks /\ p.gen \in Nat
         /\ p.pc \in PassSteps /\ p.kind \in PassKinds
         /\ p.todo \in SUBSET Sources /\ p.source \in SUBSET Sources
         /\ p.effect \in Effects /\ p.seen \in SUBSET SeenControls /\ p.to \in ItemRows
         /\ Mine(p) => gen[p.task] = p.gen
         /\ MineLive(p) => Mine(p)
<1>1. p \in Passes
  BY DEF TypeOK
<1> QED
  BY <1>1 DEF Passes, Mine, MineLive, Owns, OwnsLive

LEMMA CallIsStep ==
  ASSUME NEW w \in Workers, NEW t \in Tasks, WorkerCalls(w, t) \/ OtherCalls(t)
  PROVE  KernelStep
  BY DEF KernelStep, KernelNext

LEMMA NothingIsQuiet ==
  ASSUME UNCHANGED kernelVars
  PROVE  KernelStep /\ \A u \in Tasks : Untouched(u)
  BY DEF KernelStep, kernelVars, Untouched

(* Renewing, starting, marking, publishing and parking move no claim.      *)
LEMMA QuietCalls ==
  ASSUME TypeOK, NEW p \in passes,
         \/ Renew(p)
         \/ \E s \in Sources : StartItem(p.worker, p.gen, p.task, s)
         \/ \E s \in Sources : BeginMutation(p.worker, p.gen, p.task, s)
         \/ \E s \in Sources, effect \in Effects, keyed \in BOOLEAN :
              PublishOutcome(p.worker, p.gen, p.task, s, effect, keyed)
         \/ \E to \in ItemRows : RecordItems(p.worker, p.gen, p.task, to)
         \/ \E s \in Sources : ParkItem(p.task, s)
  PROVE  KernelStep /\ \A u \in Tasks : Untouched(u)
<1>1. p.worker \in Workers /\ p.task \in Tasks
  BY PassFacts
<1>2. CASE Renew(p)
  <2>1. WorkerCalls(p.worker, p.task)
    BY <1>2 DEF Renew, WorkerCalls, Heartbeat, Owns
  <2> QED
    BY <1>1, <1>2, <2>1, CallIsStep DEF Renew, Heartbeat, Untouched
<1>3. ASSUME NEW s \in Sources, StartItem(p.worker, p.gen, p.task, s)
      PROVE  KernelStep /\ \A u \in Tasks : Untouched(u)
  <2>1. gen[p.task] = p.gen
    BY <1>3 DEF StartItem, OwnsLive, Owns
  <2>2. WorkerCalls(p.worker, p.task)
    BY <1>3, <2>1 DEF WorkerCalls
  <2> QED
    BY <1>1, <1>3, <2>2, CallIsStep DEF StartItem, Untouched, claimVars
<1>4. ASSUME NEW s \in Sources, BeginMutation(p.worker, p.gen, p.task, s)
      PROVE  KernelStep /\ \A u \in Tasks : Untouched(u)
  <2>1. gen[p.task] = p.gen
    BY <1>4 DEF BeginMutation, OwnsLive, Owns
  <2>2. WorkerCalls(p.worker, p.task)
    BY <1>4, <2>1 DEF WorkerCalls
  <2> QED
    BY <1>1, <1>4, <2>2, CallIsStep DEF BeginMutation, Untouched, claimVars
<1>5. ASSUME NEW s \in Sources, NEW effect \in Effects, NEW keyed \in BOOLEAN,
             PublishOutcome(p.worker, p.gen, p.task, s, effect, keyed)
      PROVE  KernelStep /\ \A u \in Tasks : Untouched(u)
  <2>1. gen[p.task] = p.gen
    BY <1>5 DEF PublishOutcome, OwnsLive, Owns
  <2>2. WorkerCalls(p.worker, p.task)
    BY <1>5, <2>1 DEF WorkerCalls
  <2> QED
    BY <1>1, <1>5, <2>2, CallIsStep DEF PublishOutcome, Untouched, claimVars
<1>6. ASSUME NEW to \in ItemRows, RecordItems(p.worker, p.gen, p.task, to)
      PROVE  KernelStep /\ \A u \in Tasks : Untouched(u)
  <2>1. gen[p.task] = p.gen
    BY <1>6 DEF RecordItems, OwnsLive, Owns
  <2>2. WorkerCalls(p.worker, p.task)
    BY <1>6, <2>1 DEF WorkerCalls
  <2> QED
    BY <1>1, <1>6, <2>2, CallIsStep DEF RecordItems, Untouched, claimVars
<1>7. ASSUME NEW s \in Sources, ParkItem(p.task, s)
      PROVE  KernelStep /\ \A u \in Tasks : Untouched(u)
  <2>1. OtherCalls(p.task)
    BY <1>7 DEF OtherCalls
  <2> QED
    BY <1>1, <1>7, <2>1, CallIsStep DEF ParkItem, Untouched, claimVars
<1> QED
  BY <1>2, <1>3, <1>4, <1>5, <1>6, <1>7

(* Releasing and yielding give up a claim the pass owns.                   *)
LEMMA LeavingCalls ==
  ASSUME TypeOK, NEW p \in passes,
         \/ YieldClaim(p.worker, p.gen, p.task)
         \/ \E to \in ItemRows, close \in BOOLEAN,
               st \in {"running", "completed", "failed"}, q \in {"waiting_human", "settled"} :
              ReleaseClaim(p.worker, p.gen, p.task, st, to, q, {}, close)
         \/ \E to \in ItemRows, close \in BOOLEAN, c \in {"pause", "cancel"}, n \in Nat :
              ReleaseClaim(p.worker, p.gen, p.task, SettledStatus(c), to, SettledQueue(c), {n}, close)
  PROVE  KernelStep /\ Mine(p) /\ \A u \in Tasks \ {p.task} : Untouched(u)
<1>1. p.worker \in Workers /\ p.task \in Tasks
  BY PassFacts
<1> USE DEF TypeOK, KernelTypeOK, Untouched, Mine
<1>2. CASE YieldClaim(p.worker, p.gen, p.task)
  <2>1. Mine(p) /\ gen[p.task] = p.gen
    BY <1>2 DEF YieldClaim, OwnsLive, Owns
  <2>2. WorkerCalls(p.worker, p.task)
    BY <1>2, <2>1 DEF WorkerCalls
  <2> QED
    BY <1>1, <1>2, <2>1, <2>2, CallIsStep DEF YieldClaim
<1>3. ASSUME NEW to \in ItemRows, NEW close \in BOOLEAN,
             NEW st \in {"running", "completed", "failed"}, NEW q \in {"waiting_human", "settled"},
             ReleaseClaim(p.worker, p.gen, p.task, st, to, q, {}, close)
      PROVE  KernelStep /\ Mine(p) /\ \A u \in Tasks \ {p.task} : Untouched(u)
  <2>1. Mine(p) /\ gen[p.task] = p.gen
    BY <1>3 DEF ReleaseClaim, OwnsLive, Owns
  <2>2. WorkerCalls(p.worker, p.task)
    BY <1>3, <2>1 DEF WorkerCalls
  <2> QED
    BY <1>1, <1>3, <2>1, <2>2, CallIsStep DEF ReleaseClaim, ReleaseWrites
<1>4. ASSUME NEW to \in ItemRows, NEW close \in BOOLEAN, NEW c \in {"pause", "cancel"}, NEW n \in Nat,
             ReleaseClaim(p.worker, p.gen, p.task, SettledStatus(c), to, SettledQueue(c), {n}, close)
      PROVE  KernelStep /\ Mine(p) /\ \A u \in Tasks \ {p.task} : Untouched(u)
  <2>1. Mine(p) /\ gen[p.task] = p.gen
    BY <1>4 DEF ReleaseClaim, OwnsLive, Owns
  <2>2. n = revision[p.task]
    BY <1>4 DEF ReleaseClaim, ReleaseRefused
  <2>3. WorkerCalls(p.worker, p.task)
    BY <1>4, <2>1, <2>2 DEF WorkerCalls
  <2> QED
    BY <1>1, <1>4, <2>1, <2>3, CallIsStep DEF ReleaseClaim, ReleaseWrites
<1> QED
  BY <1>2, <1>3, <1>4

-----------------------------------------------------------------------------
(* How a pass is moved.                                                    *)

LEMMA GotoMoves ==
  ASSUME TypeOK, NEW p \in passes, NEW step \in PassSteps, Goto(p, step),
         step \in WorkingSteps => p.pc \in WorkingSteps
  PROVE  Moves(p)
<1> DEFINE q == [p EXCEPT !.pc = step]
<1>1. p \in Passes
  BY PassFacts
<1>2. q \in Passes /\ SamePass(p, q) /\ q.pc = step
  BY <1>1 DEF Passes, SamePass
<1>3. passes' = (passes \ {p}) \cup {q}
  BY DEF Goto, Become
<1> QED
  BY <1>2, <1>3 DEF Moves

LEMMA BecomeMoves ==
  ASSUME TypeOK, NEW p \in passes, NEW q \in Passes, Become(p, q), SamePass(p, q),
         q.pc \in WorkingSteps => p.pc \in WorkingSteps
  PROVE  Moves(p)
  BY DEF Moves, Become

LEMMA EndMoves ==
  ASSUME NEW p, End(p)
  PROVE  Moves(p)
  BY DEF Moves, End

LEMMA RestKept ==
  ASSUME RestOK, UNCHANGED onlyPasses
  PROVE  RestOK'
  BY DEF RestOK, onlyPasses, runVars

LEMMA QuietEnough ==
  ASSUME NEW p, KernelStep, \A u \in Tasks : Untouched(u), Moves(p)
  PROVE  Advances(p)
  BY DEF Advances, Quiet

LEMMA LeavingEnough ==
  ASSUME NEW p, KernelStep, Mine(p), \A u \in Tasks \ {p.task} : Untouched(u), End(p)
  PROVE  Advances(p)
  BY DEF Advances, Leaves, End

(* A step that reads and goes on.                                          *)
LEMMA ReadingAdvances ==
  ASSUME TypeOK, NEW p \in passes, UNCHANGED kernelVars, UNCHANGED onlyPasses, Moves(p)
  PROVE  Advances(p) /\ RestOK'
  BY NothingIsQuiet, QuietEnough, RestKept, TypeParts

-----------------------------------------------------------------------------
(* Entering the pass and its sources.                                      *)

LEMMA EnteringAdvances ==
  ASSUME TypeOK, NEW p \in passes, ReadState(p) \/ EnterWork(p) \/ LastSource(p)
  PROVE  Advances(p) /\ RestOK'
<1>1. UNCHANGED kernelVars /\ UNCHANGED onlyPasses
  BY DEF ReadState, EnterWork, LastSource, ReadOnly
<1>2. CASE ReadState(p)
  <2> DEFINE q == [p EXCEPT
         !.pc = IF control[p.task] = "none" THEN "entering" ELSE "acknowledging",
         !.kind = IF OpenExecution(p.task) THEN "execution" ELSE "automatic"]
  <2>1. p \in Passes
    BY PassFacts
  <2>2. q \in Passes /\ SamePass(p, q) /\ q.pc \in {"entering", "acknowledging"}
    BY <2>1 DEF Passes, SamePass, PassSteps, PassKinds
  <2>3. Become(p, q)
    BY <1>2 DEF ReadState
  <2> QED
    BY <1>1, <2>2, <2>3, BecomeMoves, ReadingAdvances DEF WorkingSteps
<1>3. CASE EnterWork(p)
  <2>1. PICK step \in {"beginning", "failing"} : Goto(p, step)
    BY <1>3 DEF EnterWork
  <2> QED
    BY <1>1, <2>1, GotoMoves, ReadingAdvances DEF PassSteps, WorkingSteps
<1>4. CASE LastSource(p)
  BY <1>1, <1>4, GotoMoves, ReadingAdvances DEF LastSource, PassSteps, WorkingSteps
<1> QED
  BY <1>2, <1>3, <1>4

LEMMA BeginPassAdvances ==
  ASSUME TypeOK, NEW p \in passes, BeginPass(p)
  PROVE  Advances(p) /\ RestOK'
<1> DEFINE t == p.task
           pending == {s \in Sources : item[t][s] = "pending"}
           into(step, kind, todo) == [p EXCEPT !.pc = step, !.kind = kind, !.todo = todo]
<1>1. p \in Passes /\ t \in Tasks /\ p.worker \in Workers /\ p.gen \in Nat
  BY PassFacts
<1>2. RestOK'
  BY <1>1, TypeParts DEF BeginPass, RestOK, ExecutionStates
<1>3. CASE BeginWork(p.worker, p.gen, t)
  <2>1. Mine(p) /\ gen[t] = p.gen
    BY <1>3 DEF BeginWork, OwnsLive, Owns, Mine
  <2>2. KernelStep
    <3>1. WorkerCalls(p.worker, t)
      BY <1>3, <2>1 DEF WorkerCalls
    <3> QED
      BY <1>1, <3>1, CallIsStep
  <2>3. ASSUME NEW step \in PassSteps, NEW kind \in PassKinds, NEW todo \in SUBSET Sources,
               Become(p, into(step, kind, todo))
        PROVE  \E q \in Passes : passes' = (passes \ {p}) \cup {q} /\ SamePass(p, q)
    <3>1. into(step, kind, todo) \in Passes /\ SamePass(p, into(step, kind, todo))
      BY <1>1 DEF Passes, SamePass
    <3> QED
      BY <2>3, <3>1 DEF Become
  <2>4. \E step \in PassSteps, kind \in PassKinds, todo \in SUBSET Sources :
           Become(p, into(step, kind, todo))
    <3>1. {"choosing", "yielding"} \subseteq PassSteps
          /\ {"execution", "continuation", "scan"} \subseteq PassKinds
      BY DEF PassSteps, PassKinds
    <3>2. MineLive(p)
      BY <1>3 DEF BeginWork, MineLive
    <3>3. \/ Become(p, into("choosing", "execution", {s \in Sources : run[t][s] = "admitted"}))
          \/ Become(p, into("yielding", "execution", {}))
          \/ Become(p, into("choosing", "continuation", pending))
          \/ Become(p, into("choosing", "scan", {s \in Sources : item[t][s] = "absent"}))
      BY <3>2 DEF BeginPass
    <3> QED
      BY <3>1, <3>3
  <2>5. /\ status'[t] = "running"
        /\ UNCHANGED <<queue, gen, holder>>
        /\ \A u \in Tasks \ {t} : Untouched(u)
    BY <1>1, <1>3 DEF BeginWork, claimVars, Untouched, TypeOK, KernelTypeOK
  <2> QED
    BY <1>2, <2>1, <2>2, <2>3, <2>4, <2>5 DEF Advances, Begins
<1>4. CASE End(p) /\ UNCHANGED kernelVars
  BY <1>2, <1>4, EndMoves, NothingIsQuiet, QuietEnough
<1> QED
  BY <1>3, <1>4 DEF BeginPass

LEMMA SourceAdvances ==
  ASSUME TypeOK, NEW p \in passes, NEW s \in Sources,
         PickSource(p, s) \/ Start(p, s) \/ StartRefused(p, s) \/ Summarize(p, s)
  PROVE  Advances(p) /\ RestOK'
<1>1. p \in Passes /\ RestOK /\ p.task \in Tasks
  BY PassFacts, TypeParts
<1> USE DEF PassSteps, WorkingSteps
<1>2. CASE PickSource(p, s)
  <2> DEFINE q == [p EXCEPT !.todo = @ \ {s}, !.source = {s},
         !.pc = IF control[p.task] = "none" THEN "starting"
                ELSE IF p.kind = "execution" THEN "acknowledging" ELSE "raised"]
  <2>1. q \in Passes /\ SamePass(p, q)
    BY <1>1 DEF Passes, SamePass
  <2>2. Moves(p)
    BY <1>2, <2>1, BecomeMoves DEF PickSource
  <2> QED
    BY <1>1, <1>2, <2>2, QuietCalls, QuietEnough, RestKept DEF PickSource
<1>3. CASE Start(p, s)
  <2>1. Moves(p)
    BY <1>3, GotoMoves, EndMoves DEF Start, Lost
  <2> QED
    BY <1>1, <1>3, <2>1, QuietCalls, NothingIsQuiet, QuietEnough, RestKept DEF Start
<1>4. CASE StartRefused(p, s)
  <2>1. Moves(p)
    BY <1>4, GotoMoves, EndMoves DEF StartRefused
  <2> QED
    BY <1>1, <1>4, <2>1, QuietCalls, NothingIsQuiet, QuietEnough, RestKept DEF StartRefused
<1>5. CASE Summarize(p, s)
  <2>1. Moves(p)
    BY <1>5, GotoMoves, EndMoves DEF Summarize
  <2>2. [x \in {s} |-> "confirm"] \in ItemRows
    BY OneRowType, StatusesType
  <2> QED
    BY <1>1, <1>5, <2>1, <2>2, QuietCalls, NothingIsQuiet, QuietEnough, RestKept DEF Summarize
<1> QED
  BY <1>2, <1>3, <1>4, <1>5

LEMMA ParkAdvances ==
  ASSUME TypeOK, NEW p \in passes, NEW s \in Sources, Park(p, s) \/ ReadBack(p, s)
  PROVE  Advances(p) /\ RestOK'
<1>1. p \in Passes /\ RestOK /\ p.task \in Tasks
  BY PassFacts, TypeParts
<1>2. CASE Park(p, s)
  <2>1. PICK step \in {"choosing", "parked"} : Goto(p, step)
    BY <1>2 DEF Park
  <2>2. Moves(p)
    BY <1>2, <2>1, GotoMoves DEF Park, PassSteps, WorkingSteps
  <2> QED
    BY <1>1, <1>2, <2>2, QuietCalls, QuietEnough, RestKept DEF Park
<1>3. CASE ReadBack(p, s)
  <2> DEFINE q == [p EXCEPT !.pc = "reprojecting", !.to = [x \in {s} |-> item[p.task][s]]]
  <2>1. [x \in {s} |-> item[p.task][s]] \in ItemRows
    <3>1. item[p.task][s] \in ItemStatuses
      BY <1>1 DEF TypeOK, KernelTypeOK
    <3> QED
      BY <3>1, OneRowType
  <2>2. q \in Passes /\ SamePass(p, q)
    BY <1>1, <2>1 DEF Passes, SamePass, PassSteps
  <2>3. Moves(p)
    BY <1>3, <2>2, BecomeMoves, GotoMoves, EndMoves DEF ReadBack, PassSteps, WorkingSteps
  <2> QED
    BY <1>3, <2>3, ReadingAdvances DEF ReadBack, ReadOnly
<1> QED
  BY <1>2, <1>3

LEMMA ReprojectAdvances ==
  ASSUME TypeOK, NEW p \in passes, Reproject(p)
  PROVE  Advances(p) /\ RestOK'
<1> DEFINE q(step) == [p EXCEPT !.pc = step, !.to = Nothing]
<1>1. p \in Passes /\ RestOK /\ p.to \in ItemRows
  BY PassFacts, TypeParts
<1>2. \A step \in {"choosing", "raised"} :
        q(step) \in Passes /\ SamePass(p, q(step)) /\ q(step).pc = step
  BY <1>1, NothingType DEF Passes, SamePass, PassSteps
<1>3. p.pc \in WorkingSteps
  BY DEF Reproject, WorkingSteps
<1>4. Moves(p)
  BY <1>2, <1>3, BecomeMoves, EndMoves DEF Reproject
<1> QED
  BY <1>1, <1>4, QuietCalls, NothingIsQuiet, QuietEnough, RestKept DEF Reproject

-----------------------------------------------------------------------------
(* The mutation boundary and the outcome.                                  *)

LEMMA PublishesRest ==
  ASSUME RestOK, NEW t \in Tasks, NEW s \in Sources, Publishes(t, s),
         UNCHANGED <<requests, touched>>
  PROVE  RestOK'
<1> DEFINE after == [run[t] EXCEPT ![s] = "done"]
           ends == IF \A x \in Sources : after[x] \in {"out", "done"}
                   THEN "ended" ELSE execution[t]
<1>1. after \in [Sources -> RunStates]
  BY DEF RestOK, RunStates
<1>2. ends \in ExecutionStates
  BY DEF RestOK, ExecutionStates
<1>3. run' = [run EXCEPT ![t] = after] /\ execution' = [execution EXCEPT ![t] = ends]
  BY DEF Publishes
<1> HIDE DEF after, ends
<1>4. run' \in [Tasks -> [Sources -> RunStates]]
  BY <1>1, <1>3 DEF RestOK
<1>5. execution' \in [Tasks -> ExecutionStates]
  BY <1>2, <1>3 DEF RestOK
<1> QED
  BY <1>4, <1>5 DEF RestOK

LEMMA MutationAdvances ==
  ASSUME TypeOK, NEW p \in passes, NEW s \in Sources, EnterMutation(p, s) \/ Publish(p, s)
  PROVE  Advances(p) /\ RestOK'
<1>1. p \in Passes /\ RestOK /\ p.task \in Tasks /\ p.effect \in Effects
  BY PassFacts, TypeParts
<1>2. CASE EnterMutation(p, s)
  <2> DEFINE q == [p EXCEPT !.pc = "republishing", !.effect = "none"]
  <2>1. q \in Passes /\ SamePass(p, q)
    BY <1>1 DEF Passes, SamePass, PassSteps, Effects
  <2>2. Moves(p)
    BY <1>2, <2>1, BecomeMoves, GotoMoves, EndMoves
       DEF EnterMutation, Lost, PassSteps, WorkingSteps
  <2>3. RestOK'
    BY <1>1, <1>2 DEF EnterMutation, RestOK, RunStates
  <2> QED
    BY <1>2, <2>2, <2>3, QuietCalls, NothingIsQuiet, QuietEnough DEF EnterMutation
<1>3. CASE Publish(p, s)
  <2> DEFINE q == [p EXCEPT !.pc = "choosing", !.effect = "none"]
             e == IF p.pc = "publishing" THEN p.effect ELSE "none"
             keyed == p.kind # "execution"
  <2>1. q \in Passes /\ SamePass(p, q)
    BY <1>1 DEF Passes, SamePass, PassSteps, Effects
  <2>2. Moves(p)
    BY <1>3, <2>1, BecomeMoves DEF Publish, WorkingSteps
  <2>3. RestOK'
    <3>1. CASE p.kind = "execution"
      BY <1>1, <1>3, <3>1, PublishesRest DEF Publish
    <3>2. CASE p.kind # "execution"
      BY <1>1, <1>3, <3>2 DEF Publish, RestOK, runVars
    <3> QED
      BY <3>1, <3>2
  <2>4. PublishOutcome(p.worker, p.gen, p.task, s, e, keyed)
    BY <1>3 DEF Publish
  <2>5. e \in Effects /\ keyed \in BOOLEAN
    BY <1>1 DEF Effects
  <2> QED
    BY <2>2, <2>3, <2>4, <2>5, QuietCalls, QuietEnough
<1> QED
  BY <1>2, <1>3

LEMMA StorageAdvances ==
  ASSUME TypeOK, NEW p \in passes, NEW e \in EffectOutcomes, CallStorage(p, e)
  PROVE  Advances(p) /\ RestOK'
<1> DEFINE q == [p EXCEPT !.pc = "publishing", !.effect = e]
<1>1. p \in Passes /\ RestOK /\ p.task \in Tasks /\ p.source \in SUBSET Sources
  BY PassFacts, TypeParts
<1>2. e \in Effects
  BY EngineAssumption
<1>3. q \in Passes /\ SamePass(p, q)
  BY <1>1, <1>2 DEF Passes, SamePass, PassSteps
<1>4. Moves(p)
  BY <1>3, BecomeMoves DEF CallStorage, WorkingSteps
<1>5. RestOK'
  BY <1>1 DEF CallStorage, RestOK, runVars
<1> QED
  BY <1>4, <1>5, NothingIsQuiet, QuietEnough DEF CallStorage

LEMMA FailingAdvances ==
  ASSUME TypeOK, NEW p \in passes,
         FailBeforeEffect(p) \/ PublishFails(p) \/ KeepAlive(p) \/ Raised(p) \/ Crash(p)
  PROVE  Advances(p) /\ RestOK'
<1>1. p \in Passes /\ RestOK
  BY PassFacts, TypeParts
<1>2. CASE FailBeforeEffect(p)
  <2> DEFINE q == [p EXCEPT !.pc = "publishing", !.effect = "none"]
  <2>1. q \in Passes /\ SamePass(p, q)
    BY <1>1 DEF Passes, SamePass, PassSteps, Effects
  <2> QED
    BY <1>2, <2>1, BecomeMoves, ReadingAdvances DEF FailBeforeEffect, ReadOnly, WorkingSteps
<1>3. CASE PublishFails(p)
  <2>1. Moves(p)
    BY <1>3, GotoMoves, EndMoves DEF PublishFails, Lost, PassSteps, WorkingSteps
  <2> QED
    BY <1>3, <2>1, ReadingAdvances DEF PublishFails, ReadOnly
<1>4. CASE KeepAlive(p)
  <2>1. Moves(p) /\ RestOK'
    BY <1>1, <1>4 DEF KeepAlive, engineOnly, Moves, RestOK
  <2> QED
    BY <1>4, <2>1, QuietCalls, QuietEnough DEF KeepAlive
<1>5. CASE Raised(p)
  <2>1. Moves(p)
    BY <1>5, GotoMoves DEF Raised, PassSteps, WorkingSteps
  <2> QED
    BY <1>1, <1>5, <2>1, QuietCalls, NothingIsQuiet, QuietEnough, RestKept DEF Raised
<1>6. CASE Crash(p)
  BY <1>6, EndMoves, ReadingAdvances DEF Crash, ReadOnly
<1> QED
  BY <1>2, <1>3, <1>4, <1>5, <1>6

-----------------------------------------------------------------------------
(* The end of the pass.                                                    *)

LEMMA CaptureMoves ==
  ASSUME TypeOK, NEW p \in passes, NEW rows \in [Sources -> ItemStatuses], NEW closes \in BOOLEAN,
         control[p.task] # "none", Capture(p, rows, closes)
  PROVE  Moves(p)
<1> DEFINE c == control[p.task]
           seen == {[control |-> c, revision |-> revision[p.task], closes |-> closes]}
           q == [p EXCEPT !.pc = "settling", !.to = Settled(rows, c), !.seen = seen]
<1>1. p \in Passes /\ p.task \in Tasks
  BY PassFacts
<1>2. c \in {"pause", "cancel"} /\ revision[p.task] \in Nat
  BY <1>1 DEF TypeOK, KernelTypeOK, Controls
<1>3. seen \in SUBSET SeenControls
  BY <1>2 DEF SeenControls
<1>4. Settled(rows, c) \in ItemRows
  BY SettledType
<1>5. q \in Passes /\ SamePass(p, q) /\ q.pc = "settling"
  BY <1>1, <1>3, <1>4 DEF Passes, SamePass, PassSteps
<1>6. Become(p, q)
  BY DEF Capture
<1> QED
  BY <1>5, <1>6, BecomeMoves DEF WorkingSteps

LEMMA CompletesMoves ==
  ASSUME TypeOK, NEW p \in passes, p.pc \in WorkingSteps,
         NEW rows \in [Sources -> ItemStatuses], Completes(p, rows)
  PROVE  Moves(p)
<1> DEFINE q == [p EXCEPT !.pc = "completing", !.to = Present(rows)]
<1>1. p \in Passes
  BY PassFacts
<1>2. q \in Passes /\ SamePass(p, q)
  BY <1>1, PresentType DEF Passes, SamePass, PassSteps
<1> QED
  BY <1>2, BecomeMoves DEF Completes

LEMMA OutcomeMoves ==
  ASSUME TypeOK, NEW p \in passes, p.pc \in WorkingSteps,
         NEW rows \in [Sources -> ItemStatuses], Outcome(p, rows)
  PROVE  Moves(p)
<1>1. End(p) \/ Goto(p, "yielding") \/ Goto(p, "deferring") \/ Completes(p, rows)
  BY DEF Outcome
<1> QED
  BY <1>1, EndMoves, GotoMoves, CompletesMoves DEF PassSteps

LEMMA RecordsQuiet ==
  ASSUME TypeOK, NEW p \in passes, NEW after \in [Sources -> ItemStatuses], Records(p, after)
  PROVE  KernelStep /\ \A u \in Tasks : Untouched(u)
<1>1. item[p.task] \in [Sources -> ItemStatuses]
  BY PassFacts DEF TypeOK, KernelTypeOK
<1>2. Differing(item[p.task], after) \in ItemRows
  BY <1>1, DifferingType
<1> QED
  BY <1>2, QuietCalls DEF Records

LEMMA RetireAdvances ==
  ASSUME TypeOK, NEW p \in passes, Retire(p)
  PROVE  Advances(p) /\ RestOK'
<1> DEFINE t == p.task
           rows == Stopped(t)
           cancelled == Turned(rows, {"pending"}, "cancelled")
           confirms == Turned(rows, {"pending"}, "confirm")
           strands == \E s \in Sources \ marker[t] : run[t][s] = "running"
<1>1. t \in Tasks /\ p.pc \in WorkingSteps
  BY PassFacts DEF Retire, WorkingSteps
<1>2. rows \in [Sources -> ItemStatuses]
  BY <1>1, StoppedType
<1>3. cancelled \in [Sources -> ItemStatuses] /\ confirms \in [Sources -> ItemStatuses]
  BY <1>2, TurnedType, StatusesType
<1>4. RestOK'
  BY TypeParts, RestKept DEF Retire
<1>5. KernelStep /\ \A u \in Tasks : Untouched(u)
  <2>1. UNCHANGED kernelVars \/ Records(p, rows) \/ Records(p, cancelled) \/ Records(p, confirms)
    BY DEF Retire
  <2> QED
    BY <1>2, <1>3, <2>1, RecordsQuiet, NothingIsQuiet
<1>6. Moves(p)
  <2>1. \/ Goto(p, "acknowledging") \/ Goto(p, "deferring") \/ End(p)
        \/ Outcome(p, rows) \/ Completes(p, rows)
        \/ control[t] = "cancel" /\ Capture(p, cancelled, TRUE)
    BY DEF Retire
  <2> QED
    BY <1>1, <1>2, <1>3, <2>1, GotoMoves, EndMoves, OutcomeMoves, CompletesMoves, CaptureMoves
       DEF PassSteps
<1> QED
  BY <1>4, <1>5, <1>6, QuietEnough

LEMMA EndingAdvances ==
  ASSUME TypeOK, NEW p \in passes, EndAutomatic(p) \/ EndExecution(p)
  PROVE  Advances(p) /\ RestOK'
<1> DEFINE rows == item[p.task]
           confirms == Turned(rows, {"pending"}, "confirm")
<1>1. p.task \in Tasks /\ p.pc \in WorkingSteps
  BY PassFacts DEF EndAutomatic, EndExecution, WorkingSteps
<1>2. rows \in [Sources -> ItemStatuses]
  BY <1>1 DEF TypeOK, KernelTypeOK
<1>3. confirms \in [Sources -> ItemStatuses]
  BY <1>2, TurnedType, StatusesType
<1>4. RestOK'
  BY TypeParts, RestKept DEF EndAutomatic, EndExecution
<1>5. KernelStep /\ \A u \in Tasks : Untouched(u)
  <2>1. Renew(p) \/ Records(p, confirms) \/ UNCHANGED kernelVars
    BY DEF EndAutomatic, EndExecution
  <2> QED
    BY <1>3, <2>1, QuietCalls, RecordsQuiet, NothingIsQuiet
<1>6. Moves(p)
  <2>1. \/ Goto(p, "acknowledging") \/ Goto(p, "deferring") \/ Goto(p, "yielding") \/ End(p)
        \/ Outcome(p, rows) \/ Completes(p, rows)
    BY DEF EndAutomatic, EndExecution
  <2> QED
    BY <1>1, <1>2, <2>1, GotoMoves, EndMoves, OutcomeMoves, CompletesMoves DEF PassSteps
<1> QED
  BY <1>4, <1>5, <1>6, QuietEnough

LEMMA ClosingRest ==
  ASSUME TypeOK, NEW t \in Tasks, ClosesExecution(t) \/ UNCHANGED runVars,
         UNCHANGED <<requests, touched>>
  PROVE  RestOK'
<1>1. [s \in Sources |-> IF run[t][s] = "out" THEN "out" ELSE "done"] \in [Sources -> RunStates]
  BY DEF RunStates
<1>2. execution' \in [Tasks -> ExecutionStates] /\ run' \in [Tasks -> [Sources -> RunStates]]
  BY <1>1 DEF ClosesExecution, TypeOK, runVars, ExecutionStates
<1> QED
  BY <1>2 DEF TypeOK, RestOK

LEMMA ReleasingAdvances ==
  ASSUME TypeOK, NEW p \in passes,
         Release(p) \/ Return(p) \/ Fail(p) \/ \E k \in p.seen : Settle(p, k)
  PROVE  Advances(p) /\ RestOK'
<1>1. p.task \in Tasks /\ p.to \in ItemRows /\ p.seen \in SUBSET SeenControls
  BY PassFacts
<1>2. CASE Release(p)
  <2>1. RestOK'
    BY <1>1, <1>2, ClosingRest DEF Release
  <2>2. CASE UNCHANGED kernelVars
    <3>1. Goto(p, "failing") \/ End(p)
      BY <1>2 DEF Release
    <3> QED
      BY <2>1, <2>2, <3>1, GotoMoves, EndMoves, NothingIsQuiet, QuietEnough DEF PassSteps, WorkingSteps
  <2>3. ASSUME NEW st \in {"running", "completed"}, NEW q \in {"waiting_human", "settled"},
               ReleaseClaim(p.worker, p.gen, p.task, st, p.to, q, {}, TRUE), End(p)
        PROVE  Advances(p)
    BY <1>1, <2>3, LeavingCalls, LeavingEnough
  <2> QED
    BY <1>2, <2>1, <2>2, <2>3 DEF Release
<1>3. CASE Return(p)
  <2>1. RestOK'
    BY <1>3, TypeParts, RestKept DEF Return
  <2>2. CASE UNCHANGED kernelVars
    <3>1. Goto(p, "failing") \/ End(p)
      BY <1>3 DEF Return
    <3> QED
      BY <2>1, <2>2, <3>1, GotoMoves, EndMoves, NothingIsQuiet, QuietEnough DEF PassSteps, WorkingSteps
  <2>3. CASE YieldClaim(p.worker, p.gen, p.task) /\ End(p)
    BY <2>1, <2>3, LeavingCalls, LeavingEnough
  <2> QED
    BY <1>3, <2>2, <2>3 DEF Return
<1>4. CASE Fail(p)
  <2> DEFINE to == Differing(item[p.task], Turned(item[p.task], MachineItems, "failed"))
  <2>1. RestOK' /\ End(p)
    BY <1>4, TypeParts, RestKept DEF Fail
  <2>2. to \in ItemRows
    BY <1>1, TurnedType, DifferingType, StatusesType DEF TypeOK, KernelTypeOK
  <2>3. CASE UNCHANGED kernelVars
    BY <2>1, <2>3, EndMoves, NothingIsQuiet, QuietEnough
  <2>4. CASE ReleaseClaim(p.worker, p.gen, p.task, "failed", to, "settled", {}, FALSE)
    BY <2>1, <2>2, <2>4, LeavingCalls, LeavingEnough
  <2> QED
    BY <1>4, <2>3, <2>4 DEF Fail
<1>5. ASSUME NEW k \in p.seen, Settle(p, k)
      PROVE  Advances(p) /\ RestOK'
  <2>1. k.control \in {"pause", "cancel"} /\ k.revision \in Nat /\ k.closes \in BOOLEAN
    BY <1>1 DEF SeenControls
  <2>2. RestOK'
    BY <1>1, <1>5, ClosingRest DEF Settle
  <2>3. CASE UNCHANGED kernelVars
    <3>1. Goto(p, "failing") \/ End(p)
      BY <1>5 DEF Settle
    <3> QED
      BY <2>2, <2>3, <3>1, GotoMoves, EndMoves, NothingIsQuiet, QuietEnough DEF PassSteps, WorkingSteps
  <2>4. CASE /\ ReleaseClaim(p.worker, p.gen, p.task, SettledStatus(k.control), p.to,
                             SettledQueue(k.control), {k.revision}, k.closes)
             /\ End(p)
    BY <1>1, <2>1, <2>2, <2>4, LeavingCalls, LeavingEnough
  <2> QED
    BY <1>5, <2>3, <2>4 DEF Settle
<1> QED
  BY <1>2, <1>3, <1>4, <1>5

LEMMA ReadingControlAdvances ==
  ASSUME TypeOK, NEW p \in passes, Yield(p) \/ Acknowledge(p) \/ CapturePause(p)
  PROVE  Advances(p) /\ RestOK'
<1>1. UNCHANGED kernelVars /\ UNCHANGED onlyPasses
  BY DEF Yield, Acknowledge, CapturePause, ReadOnly
<1>2. item[p.task] \in [Sources -> ItemStatuses]
  BY PassFacts DEF TypeOK, KernelTypeOK
<1>3. \/ \E step \in {"pausing", "returning", "failing"} : Goto(p, step)
      \/ End(p)
      \/ \E closes \in BOOLEAN : control[p.task] # "none" /\ Capture(p, item[p.task], closes)
  BY DEF Yield, Acknowledge, CapturePause
<1>4. Moves(p)
  BY <1>2, <1>3, GotoMoves, EndMoves, CaptureMoves DEF PassSteps, WorkingSteps
<1> QED
  BY <1>1, <1>4, ReadingAdvances

LEMMA PassAdvances ==
  ASSUME TypeOK, NEW p \in passes, PassStep(p) \/ KeepAlive(p) \/ Crash(p)
  PROVE  Advances(p) /\ RestOK'
  BY EnteringAdvances, BeginPassAdvances, SourceAdvances, ParkAdvances, ReprojectAdvances,
     MutationAdvances, StorageAdvances, FailingAdvances, RetireAdvances, EndingAdvances,
     ReleasingAdvances, ReadingControlAdvances
  DEF PassStep

-----------------------------------------------------------------------------
(* Claims, operators and requests.                                         *)

Owned(u) == queue[u] = "claimed" /\ holder[u] # {} /\ status[u] = "running"

(* A call that is nobody's pass leaves running, owned work alone.           *)
LEMMA OwnedStays ==
  ASSUME KernelTypeOK, NEW t \in Tasks, OtherCalls(t)
  PROVE  \A u \in Tasks : Owned(u) => Untouched(u)
<1> USE DEF KernelTypeOK, Owned, Untouched, claimVars
<1>1. CASE Admit(t) \/ LeaseLapses(t)
  BY <1>1 DEF Admit, LeaseLapses
<1>2. CASE Requeue(t) \/ Resume(t)
  BY <1>2 DEF Requeue, RequeueWrites, Resume
<1>3. ASSUME NEW c \in {"pause", "cancel"}, RequestControl(t, c)
      PROVE  \A u \in Tasks : Owned(u) => Untouched(u)
  BY <1>3 DEF RequestControl
<1>4. ASSUME NEW S \in SUBSET Sources, Confirm(t, S)
      PROVE  \A u \in Tasks : Owned(u) => Untouched(u)
  BY <1>4 DEF Confirm, RequeueWrites
<1>5. ASSUME NEW s \in Sources, ParkItem(t, s) \/ Decide(t, s)
      PROVE  \A u \in Tasks : Owned(u) => Untouched(u)
  BY <1>5 DEF ParkItem, Decide
<1>6. ASSUME NEW s \in Sources, Ignore(t, s)
      PROVE  \A u \in Tasks : Owned(u) => Untouched(u)
  BY <1>6 DEF Ignore, LastIgnored
<1>7. ASSUME NEW to \in ItemRows, NEW c \in {"pause", "cancel"},
             ReleaseUnowned(t, SettledStatus(c), to, attempts[t], SettledQueue(c), {revision[t]})
      PROVE  \A u \in Tasks : Owned(u) => Untouched(u)
  BY <1>7 DEF ReleaseUnowned, ReleaseWrites
<1> QED
  BY <1>1, <1>2, <1>3, <1>4, <1>5, <1>6, <1>7 DEF OtherCalls

(* A step of nobody's pass.                                                *)
Aside ==
  /\ KernelStep /\ RestOK'
  /\ UNCHANGED passes
  /\ \A u \in Tasks : Owned(u) => Untouched(u)

LEMMA CallAside ==
  ASSUME TypeOK, NEW t \in Tasks, OtherCalls(t), UNCHANGED passes, RestOK'
  PROVE  Aside
<1>1. KernelTypeOK
  BY TypeParts
<1>2. \A u \in Tasks : Owned(u) => Untouched(u)
  BY <1>1, OwnedStays
<1>3. KernelStep
  BY DEF KernelStep, KernelNext
<1> QED
  BY <1>2, <1>3 DEF Aside

LEMMA OperatorsAside ==
  ASSUME TypeOK, NEW t \in Tasks, Operators(t) \/ Lapse(t)
  PROVE  Aside
<1>1. RestOK
  BY TypeParts
<1>2. ASSUME UNCHANGED engineOnly
      PROVE  RestOK' /\ UNCHANGED passes
  BY <1>1, <1>2 DEF RestOK, engineOnly
<1>3. CASE AdmitTask(t) \/ Continue(t) \/ ResumeTask(t) \/ Lapse(t)
  <2>1. OtherCalls(t)
    BY <1>3 DEF AdmitTask, Continue, ResumeTask, Lapse, OtherCalls
  <2> QED
    BY <1>2, <1>3, <2>1, CallAside DEF AdmitTask, Continue, ResumeTask, Lapse
<1>4. ASSUME NEW s \in Sources, DecideReview(t, s) \/ IgnoreSource(t, s)
      PROVE  Aside
  <2>1. OtherCalls(t)
    BY <1>4 DEF DecideReview, IgnoreSource, OtherCalls
  <2> QED
    BY <1>2, <1>4, <2>1, CallAside DEF DecideReview, IgnoreSource
<1>5. ASSUME NEW c \in RequestedControls, AskControl(t, c)
      PROVE  Aside
  <2>1. c \in {"pause", "cancel"}
    BY EngineAssumption
  <2>2. OtherCalls(t)
    BY <1>5, <2>1 DEF AskControl, OtherCalls
  <2>3. KernelTypeOK'
    BY <2>2, OtherCallsType, TypeParts
  <2>4. [task |-> t, control |-> c, revision |-> revision'[t], rows |-> {}] \in Requests
    BY <2>1, <2>3 DEF Requests, KernelTypeOK
  <2>5. requests' \subseteq Requests
    BY <1>5, <2>4 DEF AskControl
  <2>6. RestOK' /\ UNCHANGED passes
    BY <1>1, <1>5, <2>5 DEF AskControl, RestOK, runVars
  <2> QED
    BY <2>2, <2>6, CallAside
<1>6. ASSUME NEW S \in SUBSET Sources, ConfirmSummary(t, S)
      PROVE  Aside
  <2>1. OtherCalls(t)
    BY <1>6 DEF ConfirmSummary, OtherCalls
  <2>2. [s \in Sources |-> IF s \in S THEN "admitted" ELSE "out"] \in [Sources -> RunStates]
    BY DEF RunStates
  <2>3. RestOK' /\ UNCHANGED passes
    BY <1>1, <1>6, <2>2 DEF ConfirmSummary, RestOK, ExecutionStates
  <2> QED
    BY <2>1, <2>3, CallAside
<1> QED
  BY <1>3, <1>4, <1>5, <1>6 DEF Operators

LEMMA RequestsAside ==
  ASSUME TypeOK, NEW r \in requests, ReadUnowned(r) \/ \E k \in r.rows : SettleUnowned(r, k)
  PROVE  Aside
<1> DEFINE t == r.task
<1>1. RestOK /\ r \in Requests
  BY TypeParts DEF RestOK
<1>2. t \in Tasks /\ r.control \in {"pause", "cancel"}
  BY <1>1 DEF Requests
<1>3. CASE ReadUnowned(r)
  <2> DEFINE rows == {[to |-> Settled(item[t], r.control), seen |-> attempts[t]]}
  <2>1. Settled(item[t], r.control) \in ItemRows /\ attempts[t] \in [Sources -> Nat]
    BY <1>2, SettledType DEF TypeOK, KernelTypeOK
  <2>2. rows \in SUBSET [to : ItemRows, seen : [Sources -> Nat]]
    BY <2>1
  <2>3. [r EXCEPT !.rows = rows] \in Requests
    BY <1>1, <2>2 DEF Requests
  <2>4. RestOK' /\ UNCHANGED passes /\ UNCHANGED kernelVars
    BY <1>1, <1>3, <2>3 DEF ReadUnowned, RestOK, runVars
  <2> QED
    BY <2>4, NothingIsQuiet DEF Aside
<1>4. ASSUME NEW k \in r.rows, SettleUnowned(r, k)
      PROVE  Aside
  <2>1. k.to \in ItemRows
    BY <1>1 DEF Requests
  <2>2. RestOK' /\ UNCHANGED passes
    BY <1>1, <1>4 DEF SettleUnowned, RestOK, runVars
  <2>3. CASE UNCHANGED kernelVars
    BY <2>2, <2>3, NothingIsQuiet DEF Aside
  <2>4. CASE ReleaseUnowned(t, SettledStatus(r.control), k.to, k.seen,
                            SettledQueue(r.control), {r.revision})
    <3>1. r.revision = revision[t]
      BY <2>4 DEF ReleaseUnowned, ReleaseRefused
    <3>2. \A s \in DOMAIN k.to : AcceptsProgress(t, s, k.to[s], attempts[t][s])
      BY <2>4 DEF ReleaseUnowned, ReleaseRefused, AcceptsProgress
    <3>3. ReleaseUnowned(t, SettledStatus(r.control), k.to, attempts[t],
                         SettledQueue(r.control), {revision[t]})
      BY <2>4, <3>1, <3>2 DEF ReleaseUnowned, ReleaseRefused
    <3>4. OtherCalls(t)
      BY <1>2, <2>1, <3>3 DEF OtherCalls
    <3> QED
      BY <1>2, <2>2, <3>4, CallAside
  <2> QED
    BY <1>4, <2>3, <2>4 DEF SettleUnowned
<1> QED
  BY <1>3, <1>4

LEMMA ClaimNextFacts ==
  ASSUME TypeOK, NEW w \in Workers, NEW t \in Tasks, ClaimNext(w, t)
  PROVE  /\ KernelStep /\ RestOK' /\ PassesOK'
         /\ \A u \in Tasks : Owned(u) => Untouched(u)
         /\ \A p \in passes' : p \in passes \/ p.pc \notin WorkingSteps
<1> DEFINE new == [worker |-> w, task |-> t, gen |-> gen[t] + 1, pc |-> "control",
                   kind |-> "unread", todo |-> {}, source |-> {}, effect |-> "none",
                   seen |-> {}, to |-> Nothing]
<1>1. KernelStep
  BY CallIsStep DEF ClaimNext, WorkerCalls
<1>2. RestOK'
  BY TypeParts, RestKept DEF ClaimNext
<1>3. new \in Passes
  BY NothingType DEF Passes, PassSteps, PassKinds, Effects, TypeOK, KernelTypeOK
<1>4. passes' = passes \cup {new} /\ \A p \in passes : p.worker # w
  BY DEF ClaimNext
<1>5. PassesOK'
  <2>1. PassesOK
    BY TypeParts
  <2>2. passes' \subseteq Passes
    BY <1>3, <1>4, <2>1 DEF PassesOK
  <2>3. new.worker = w
    OBVIOUS
  <2>4. \A p, q \in passes' : p.worker = q.worker => p = q
    BY <1>4, <2>1, <2>3 DEF PassesOK
  <2> QED
    BY <2>2, <2>4 DEF PassesOK
<1>6. \A u \in Tasks : Owned(u) => Untouched(u)
  BY DEF ClaimNext, Claim, Claimable, Owned, Untouched, TypeOK, KernelTypeOK
<1> QED
  BY <1>1, <1>2, <1>4, <1>5, <1>6 DEF WorkingSteps

-----------------------------------------------------------------------------
(* The theorems.                                                           *)

LEMMA AdvancesKeepsPasses ==
  ASSUME TypeOK, NEW p \in passes, Advances(p)
  PROVE  KernelStep /\ PassesOK'
<1>1. PassesOK
  BY TypeParts
<1>2. \/ passes' = passes
      \/ passes' = passes \ {p}
      \/ \E q \in Passes : passes' = (passes \ {p}) \cup {q} /\ q.worker = p.worker
  BY DEF Advances, Quiet, Leaves, Begins, Moves, SamePass
<1> QED
  BY <1>1, <1>2 DEF PassesOK, Advances, Quiet, Leaves, Begins

LEMMA TypeKept ==
  ASSUME TypeOK, [Next]_vars
  PROVE  KernelStep /\ TypeOK'
<1>1. KernelStep /\ PassesOK' /\ RestOK'
  <2>1. CASE UNCHANGED vars
    BY <2>1, TypeParts DEF vars, engineOnly, kernelVars, KernelStep, PassesOK, RestOK
  <2>2. ASSUME NEW w \in Workers, NEW t \in Tasks, ClaimNext(w, t)
        PROVE  KernelStep /\ PassesOK' /\ RestOK'
    BY <2>2, ClaimNextFacts
  <2>3. ASSUME NEW p \in passes, PassStep(p) \/ KeepAlive(p) \/ Crash(p)
        PROVE  KernelStep /\ PassesOK' /\ RestOK'
    BY <2>3, PassAdvances, AdvancesKeepsPasses
  <2>4. CASE Aside
    BY <2>4, TypeParts DEF Aside, PassesOK
  <2> QED
    BY <2>1, <2>2, <2>3, <2>4, OperatorsAside, RequestsAside DEF Next
<1>2. KernelTypeOK'
  BY <1>1, KernelTypeKept, TypeParts DEF KernelStep
<1> QED
  BY <1>1, <1>2 DEF TypeOK, PassesOK, RestOK

LEMMA InitTyped == Init => TypeOK
<1> SUFFICES ASSUME Init PROVE TypeOK
  OBVIOUS
<1>1. KernelTypeOK
  BY DEF Init, KernelInit, KernelTypeOK, TaskStatuses, QueueStates, Leases, Controls, ItemStatuses
<1> QED
  BY <1>1 DEF Init, TypeOK, ExecutionStates, RunStates

(* Every row and every pass of the engine stays inside its type, and no    *)
(* Worker ever runs two passes.                                            *)
THEOREM EngineTyped == Spec => []TypeOK
<1>1. TypeOK /\ [Next]_vars => TypeOK'
  BY TypeKept
<1> QED
  BY <1>1, InitTyped, PTL DEF Spec

(* Every step of every pass, operator and request is one transaction of    *)
(* the kernel, called with what the kernel allows, or touches no row.      *)
THEOREM EngineImplementsKernel == Spec => KernelSpec
<1>1. Init => KernelInit
  BY DEF Init
<1>2. TypeOK /\ [Next]_vars => [KernelNext]_kernelVars
  BY TypeKept DEF KernelStep
<1> QED
  BY <1>1, <1>2, EngineTyped, PTL DEF Spec, KernelSpec

(* ... so what the kernel guarantees its callers holds of the engine.      *)
THEOREM EngineCapacity == Spec => []CapacityBound
  BY EngineImplementsKernel, CapacityHolds, PTL

THEOREM EngineSlotsCoverWork == Spec => []SlotCoversWork
  BY EngineImplementsKernel, SlotsCoverWork, PTL

THEOREM EngineCancelStands == Spec => CancelIsFinal
  BY EngineImplementsKernel, CancelStands, PTL

LEMMA OrganizerKept ==
  ASSUME TypeOK, OneOrganizer, [Next]_vars
  PROVE  OneOrganizer'
<1>1. \A p \in passes : p \in Passes /\ p.task \in Tasks
  BY PassFacts
<1>2. \A p \in passes : p.pc \in WorkingSteps => Owned(p.task)
  BY DEF OneOrganizer, Mine, Owns, Owned
<1>3. ASSUME NEW p, Mine(p), status[p.task] = "running", Untouched(p.task)
      PROVE  Mine(p)' /\ status'[p.task] = "running"
  BY <1>3 DEF Mine, Owns, Untouched
<1>4. CASE UNCHANGED vars
  BY <1>4 DEF vars, engineOnly, kernelVars, OneOrganizer, Mine, Owns
<1>5. ASSUME NEW w \in Workers, NEW t \in Tasks, ClaimNext(w, t)
      PROVE  OneOrganizer'
  <2> SUFFICES ASSUME NEW p \in passes', p.pc \in WorkingSteps
               PROVE  Mine(p)' /\ status'[p.task] = "running"
    BY DEF OneOrganizer, Mine, Owns
  <2>1. p \in passes
    BY <1>5, ClaimNextFacts
  <2>2. Untouched(p.task)
    BY <1>1, <1>2, <1>5, <2>1, ClaimNextFacts
  <2> QED
    BY <1>3, <2>1, <2>2 DEF OneOrganizer
<1>6. CASE Aside
  <2> SUFFICES ASSUME NEW p \in passes', p.pc \in WorkingSteps
               PROVE  Mine(p)' /\ status'[p.task] = "running"
    BY DEF OneOrganizer, Mine, Owns
  <2>1. p \in passes
    BY <1>6 DEF Aside
  <2>2. Untouched(p.task)
    BY <1>1, <1>2, <1>6, <2>1 DEF Aside
  <2> QED
    BY <1>3, <2>1, <2>2 DEF OneOrganizer
<1>7. ASSUME NEW p \in passes, PassStep(p) \/ KeepAlive(p) \/ Crash(p)
      PROVE  OneOrganizer'
  <2>1. Advances(p)
    BY <1>7, PassAdvances
  <2> SUFFICES ASSUME NEW q \in passes', q.pc \in WorkingSteps
               PROVE  Mine(q)' /\ status'[q.task] = "running"
    BY DEF OneOrganizer, Mine, Owns
  <2>2. CASE Quiet(p)
    <3>1. q \in passes \/ (SamePass(p, q) /\ p.pc \in WorkingSteps)
      BY <2>2 DEF Quiet, Moves
    <3>2. Mine(q) /\ status[q.task] = "running"
      BY <3>1 DEF OneOrganizer, Mine, SamePass
    <3>3. q.task \in Tasks
      BY <1>1, <3>1 DEF SamePass
    <3> QED
      BY <1>3, <2>2, <3>2, <3>3 DEF Quiet
  <2>3. ASSUME q \in passes, q # p, Mine(p), \A u \in Tasks \ {p.task} : Untouched(u)
        PROVE  Mine(q)' /\ status'[q.task] = "running"
    <3>1. Mine(q) /\ status[q.task] = "running"
      BY <2>3 DEF OneOrganizer
    <3>2. q.worker # p.worker
      BY <2>3, TypeParts DEF PassesOK
    <3>3. q.task # p.task
      BY <2>3, <3>1, <3>2 DEF Mine, Owns
    <3> QED
      BY <1>1, <1>3, <2>3, <3>1, <3>3
  <2>4. CASE Leaves(p)
    BY <2>3, <2>4 DEF Leaves
  <2>5. CASE Begins(p)
    <3>1. CASE q \in passes /\ q # p
      BY <2>3, <2>5, <3>1 DEF Begins
    <3>2. CASE SamePass(p, q)
      BY <2>5, <3>2 DEF Begins, SamePass, Mine, Owns
    <3> QED
      BY <2>5, <3>1, <3>2 DEF Begins
  <2> QED
    BY <2>1, <2>2, <2>4, <2>5 DEF Advances
<1> QED
  BY <1>4, <1>5, <1>6, <1>7, OperatorsAside, RequestsAside DEF Next

(* Whatever lapses, crashes, is taken over, continued or controlled: a     *)
(* pass between begin_work and its last transaction owns its running Task. *)
THEOREM Organizers == Spec => []OneOrganizer
<1>1. Init => OneOrganizer
  BY DEF Init, OneOrganizer
<1>2. TypeOK /\ OneOrganizer /\ [Next]_vars => OneOrganizer'
  BY OrganizerKept
<1> QED
  BY <1>1, <1>2, EngineTyped, PTL DEF Spec

-----------------------------------------------------------------------------
(* Settled work.  An accepted cancel has settled its Task as cancelled, so *)
(* of the settlements in the second transaction of a request only that of  *)
(* a pause can still move a settled row.                                   *)

CancelSettles == \A t \in Tasks : control[t] = "cancel" /\ queue[t] = "settled" => status[t] = "cancelled"

SettledKept == \A t \in Tasks : queue[t] = "settled" => queue'[t] = "settled" /\ status'[t] = status[t]

LEMMA OtherCallsSettle ==
  ASSUME KernelInv, CancelSettles, NEW t \in Tasks, OtherCalls(t)
  PROVE  CancelSettles'
<1> USE DEF KernelInv, KernelTypeOK, CancelSettles, controlVars, claimVars
<1>1. CASE Admit(t) \/ LeaseLapses(t)
  BY <1>1 DEF Admit, LeaseLapses
<1>2. CASE Requeue(t) \/ Resume(t)
  BY <1>2 DEF Requeue, RequeueWrites, Resume
<1>3. ASSUME NEW c \in {"pause", "cancel"}, RequestControl(t, c)
      PROVE  CancelSettles'
  BY <1>3 DEF RequestControl, AcceptsControl
<1>4. ASSUME NEW S \in SUBSET Sources, Confirm(t, S)
      PROVE  CancelSettles'
  BY <1>4 DEF Confirm, RequeueWrites
<1>5. ASSUME NEW s \in Sources, ParkItem(t, s) \/ Decide(t, s)
      PROVE  CancelSettles'
  BY <1>5 DEF ParkItem, Decide
<1>6. ASSUME NEW s \in Sources, Ignore(t, s)
      PROVE  CancelSettles'
  BY <1>6 DEF Ignore, LastIgnored
<1>7. ASSUME NEW to \in ItemRows, NEW c \in {"pause", "cancel"},
             ReleaseUnowned(t, SettledStatus(c), to, attempts[t], SettledQueue(c), {revision[t]})
      PROVE  CancelSettles'
  BY <1>7 DEF ReleaseUnowned, ReleaseWrites, SettledStatus, SettledQueue
<1> QED
  BY <1>1, <1>2, <1>3, <1>4, <1>5, <1>6, <1>7 DEF OtherCalls

LEMMA WorkerCallsSettle ==
  ASSUME KernelInv, CancelSettles, NEW w \in Workers, NEW t \in Tasks, WorkerCalls(w, t)
  PROVE  CancelSettles' /\ SettledKept
<1> USE DEF KernelInv, KernelTypeOK, CancelSettles, SettledKept, controlVars, claimVars, OwnsLive, Owns
<1>1. CASE Claim(w, t)
  BY <1>1 DEF Claim, Claimable, HoldsSlot
<1>2. CASE Heartbeat(w, gen[t], t) \/ BeginWork(w, gen[t], t) \/ YieldClaim(w, gen[t], t)
  BY <1>2 DEF Heartbeat, BeginWork, YieldClaim
<1>3. ASSUME NEW to \in ItemRows, RecordItems(w, gen[t], t, to)
      PROVE  CancelSettles' /\ SettledKept
  BY <1>3 DEF RecordItems
<1>4. ASSUME NEW to \in ItemRows, NEW close \in BOOLEAN, NEW st, NEW q,
             ReleaseClaim(w, gen[t], t, st, to, q, {}, close)
      PROVE  CancelSettles' /\ SettledKept
  BY <1>4 DEF ReleaseClaim, ReleaseRefused, ReleaseWrites
<1>5. ASSUME NEW to \in ItemRows, NEW close \in BOOLEAN, NEW c \in {"pause", "cancel"},
             ReleaseClaim(w, gen[t], t, SettledStatus(c), to, SettledQueue(c),
                          {revision[t]}, close)
      PROVE  CancelSettles' /\ SettledKept
  BY <1>5 DEF ReleaseClaim, ReleaseWrites, SettledStatus, SettledQueue
<1>6. ASSUME NEW s \in Sources, StartItem(w, gen[t], t, s) \/ BeginMutation(w, gen[t], t, s)
      PROVE  CancelSettles' /\ SettledKept
  BY <1>6 DEF StartItem, BeginMutation
<1>7. ASSUME NEW s \in Sources, NEW effect \in Effects, NEW keyed \in BOOLEAN,
             PublishOutcome(w, gen[t], t, s, effect, keyed)
      PROVE  CancelSettles' /\ SettledKept
  BY <1>7 DEF PublishOutcome
<1> QED
  BY <1>1, <1>2, <1>3, <1>4, <1>5, <1>6, <1>7 DEF WorkerCalls

LEMMA KernelCancelSettles == KernelSpec => []CancelSettles
<1>1. KernelInit => CancelSettles
  BY DEF KernelInit, CancelSettles
<1>2. KernelInv /\ CancelSettles /\ [KernelNext]_kernelVars => CancelSettles'
  BY OtherCallsSettle, WorkerCallsSettle DEF KernelNext, kernelVars, CancelSettles
<1> QED
  BY <1>1, <1>2, KernelInvariant, PTL DEF KernelSpec

(* Every call of an operator leaves settled rows, but for a settlement.    *)
LEMMA OperatorCallsKeepSettled ==
  ASSUME KernelInv, NEW t \in Tasks, Operators(t) \/ Lapse(t)
  PROVE  SettledKept
<1> USE DEF KernelInv, KernelTypeOK, SettledKept, claimVars, controlVars
<1>1. CASE AdmitTask(t) \/ Lapse(t)
  BY <1>1 DEF AdmitTask, Admit, Lapse, LeaseLapses
<1>2. CASE Continue(t) \/ ResumeTask(t)
  BY <1>2 DEF Continue, Requeue, RequeueWrites, ResumeTask, Resume
<1>3. ASSUME NEW c, AskControl(t, c)
      PROVE  SettledKept
  BY <1>3 DEF AskControl, RequestControl
<1>4. ASSUME NEW S, ConfirmSummary(t, S)
      PROVE  SettledKept
  BY <1>4 DEF ConfirmSummary, Confirm, RequeueWrites
<1>5. ASSUME NEW s \in Sources, DecideReview(t, s) \/ IgnoreSource(t, s)
      PROVE  SettledKept
  BY <1>5 DEF DecideReview, Decide, IgnoreSource, Ignore, LastIgnored
<1> QED
  BY <1>1, <1>2, <1>3, <1>4, <1>5 DEF Operators

LEMMA PassesKeepSettled ==
  ASSUME TypeOK, NEW p \in passes, PassStep(p) \/ KeepAlive(p) \/ Crash(p)
  PROVE  SettledKept
<1>1. Advances(p)
  BY PassAdvances
<1>2. p.task \in Tasks
  BY PassFacts
<1>3. Mine(p) => queue[p.task] # "settled"
  BY DEF Mine, Owns
<1> QED
  BY <1>1, <1>2, <1>3 DEF Advances, Quiet, Leaves, Begins, Untouched, SettledKept

(* A request stands for a control the Task accepted: a cancel still does.  *)
RequestsStand == \A r \in requests : r.control = "cancel" => control[r.task] = "cancel"

LEMMA CancelKeptByEngine ==
  ASSUME TypeOK, [Next]_vars
  PROVE  \A t \in Tasks : control[t] = "cancel" => control'[t] = "cancel"
<1>1. KernelStep /\ KernelTypeOK
  BY TypeKept, TypeParts
<1> QED
  BY <1>1, OtherCallsKeepCancel, WorkerCallsKeepCancel DEF KernelStep, KernelNext, kernelVars, CancelKept

LEMMA RequestsKept ==
  ASSUME TypeOK, RequestsStand, [Next]_vars
  PROVE  RequestsStand'
<1>1. \A r \in requests : r \in Requests /\ r.task \in Tasks
  BY DEF TypeOK, Requests
<1>2. CASE requests' \subseteq requests
  BY <1>1, <1>2, CancelKeptByEngine DEF RequestsStand
<1>3. ASSUME NEW t \in Tasks, NEW c \in RequestedControls, AskControl(t, c)
      PROVE  RequestsStand'
  <2>1. control'[t] = c
    BY <1>3 DEF AskControl, RequestControl, TypeOK, KernelTypeOK
  <2>2. \A r \in requests' : r.task = t /\ r.control = c
    BY <1>3 DEF AskControl
  <2> QED
    BY <2>1, <2>2 DEF RequestsStand
<1>4. ASSUME NEW r \in requests, ReadUnowned(r)
      PROVE  RequestsStand'
  <2>1. PICK n : /\ requests' = {n}
                 /\ n = [r EXCEPT !.rows = {[to |-> Settled(item[r.task], r.control),
                                             seen |-> attempts[r.task]]}]
    BY <1>4 DEF ReadUnowned
  <2>2. n.task = r.task /\ n.control = r.control
    BY <1>1, <2>1 DEF Requests
  <2>3. UNCHANGED control
    BY <1>4 DEF ReadUnowned, kernelVars
  <2> QED
    BY <2>1, <2>2, <2>3 DEF RequestsStand
<1>5. ASSUME NEW p \in passes, PassStep(p) \/ KeepAlive(p) \/ Crash(p)
      PROVE  requests' = requests
  BY <1>5 DEF PassStep, KeepAlive, Crash, ReadState, EnterWork, BeginPass, PickSource, LastSource,
     Start, StartRefused, Summarize, Park, ReadBack, Reproject, FailBeforeEffect, EnterMutation,
     CallStorage, Publish, PublishFails, Raised, Retire, EndAutomatic, EndExecution, Release, Yield,
     Return, Fail, Acknowledge, CapturePause, Settle, ReadOnly, onlyPasses, engineOnly
<1>6. CASE UNCHANGED requests
  BY <1>2, <1>6
<1>7. ASSUME NEW w \in Workers, NEW t \in Tasks, ClaimNext(w, t)
      PROVE  requests' = requests
  BY <1>7 DEF ClaimNext, onlyPasses
<1>8. ASSUME NEW t \in Tasks, Operators(t) \/ Lapse(t)
      PROVE  requests' = requests \/ \E c \in RequestedControls : AskControl(t, c)
  BY <1>8 DEF Operators, Lapse, AdmitTask, ConfirmSummary, Continue, ResumeTask, DecideReview,
     IgnoreSource, engineOnly
<1>9. ASSUME NEW r \in requests, \E k \in r.rows : SettleUnowned(r, k)
      PROVE  requests' \subseteq requests
  BY <1>9 DEF SettleUnowned
<1>10. UNCHANGED vars => UNCHANGED requests
  BY DEF vars, engineOnly
<1> QED
  BY <1>2, <1>3, <1>4, <1>5, <1>6, <1>7, <1>8, <1>9, <1>10 DEF Next

LEMMA SettledMoves ==
  ASSUME TypeOK, KernelInv, CancelSettles, RequestsStand, [Next]_vars
  PROVE  SettledKept \/ \E t \in Tasks : LatePause(t) /\ \A u \in Tasks \ {t} : Untouched(u)
<1>1. CASE UNCHANGED kernelVars
  BY <1>1 DEF SettledKept, kernelVars
<1>2. ASSUME NEW w \in Workers, NEW t \in Tasks, ClaimNext(w, t)
      PROVE  SettledKept
  BY <1>2 DEF ClaimNext, Claim, Claimable, HoldsSlot, SettledKept, TypeOK, KernelTypeOK
<1>3. ASSUME NEW p \in passes, PassStep(p) \/ KeepAlive(p) \/ Crash(p)
      PROVE  SettledKept
  BY <1>3, PassesKeepSettled
<1>4. ASSUME NEW t \in Tasks, Operators(t) \/ Lapse(t)
      PROVE  SettledKept
  BY <1>4, OperatorCallsKeepSettled
<1>5. ASSUME NEW r \in requests, ReadUnowned(r)
      PROVE  SettledKept
  BY <1>5 DEF ReadUnowned, SettledKept, kernelVars
<1>6. ASSUME NEW r \in requests, NEW k \in r.rows, SettleUnowned(r, k)
      PROVE  SettledKept \/ \E t \in Tasks : LatePause(t) /\ \A u \in Tasks \ {t} : Untouched(u)
  <2> DEFINE t == r.task
  <2>1. t \in Tasks /\ r.control \in {"pause", "cancel"}
    BY DEF TypeOK, Requests
  <2>2. CASE UNCHANGED kernelVars
    BY <1>1, <2>2
  <2>3. CASE ReleaseUnowned(t, SettledStatus(r.control), k.to, k.seen,
                            SettledQueue(r.control), {r.revision})
    <3>1. /\ status' = [status EXCEPT ![t] = SettledStatus(r.control)]
          /\ queue' = [queue EXCEPT ![t] = SettledQueue(r.control)]
          /\ holder' = [holder EXCEPT ![t] = {}] /\ UNCHANGED gen
      BY <2>3 DEF ReleaseUnowned, ReleaseWrites
    <3>2. \A u \in Tasks \ {t} : Untouched(u)
      BY <3>1 DEF Untouched, TypeOK, KernelTypeOK
    <3>3. CASE r.control = "pause"
      BY <1>6, <2>1, <3>2, <3>3 DEF LatePause
    <3>4. CASE r.control = "cancel"
      <4>1. queue[t] = "settled" => status[t] = "cancelled"
        BY <2>1, <3>4 DEF RequestsStand, CancelSettles
      <4>2. queue'[t] = "settled" /\ status'[t] = "cancelled"
        BY <2>1, <3>1, <3>4 DEF SettledStatus, SettledQueue, TypeOK, KernelTypeOK
      <4> QED
        BY <3>2, <4>1, <4>2 DEF SettledKept, Untouched
    <3> QED
      BY <2>1, <3>3, <3>4
  <2> QED
    BY <1>6, <2>2, <2>3 DEF SettleUnowned
<1>7. UNCHANGED vars => UNCHANGED kernelVars
  BY DEF vars
<1> QED
  BY <1>1, <1>2, <1>3, <1>4, <1>5, <1>6, <1>7 DEF Next

LEMMA RequestsStandAlways == Spec => []RequestsStand
<1>1. Init => RequestsStand
  BY DEF Init, RequestsStand
<1>2. TypeOK /\ RequestsStand /\ [Next]_vars => RequestsStand'
  BY RequestsKept
<1> QED
  BY <1>1, <1>2, EngineTyped, PTL DEF Spec

(* Settled work moves again in one way only: the second transaction of a   *)
(* pause that was accepted before the Task settled.                        *)
THEOREM SettledStands == Spec => SettledUnlessLatePause
<1>1. TypeOK /\ KernelInv /\ CancelSettles /\ RequestsStand /\ [Next]_vars =>
        [\A t \in Tasks : queue[t] = "settled" =>
           (queue'[t] = "settled" /\ status'[t] = status[t]) \/ LatePause(t)]_vars
  BY SettledMoves DEF SettledKept, Untouched
<1>2. Spec => []KernelInv /\ []CancelSettles
  BY EngineImplementsKernel, KernelInvariant, KernelCancelSettles, PTL
<1> QED
  BY <1>1, <1>2, EngineTyped, RequestsStandAlways, PTL DEF Spec, SettledUnlessLatePause

=============================================================================
