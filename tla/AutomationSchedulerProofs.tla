---------------------- MODULE AutomationSchedulerProofs ----------------------
(* What the Automation scheduler promises for every interval, capacity,     *)
(* number of schedulers, principals and publications.                       *)
(*                                                                          *)
(* That stopped work stops rests on the walk back over the publications: a  *)
(* disabling document stays between a pin and the latest document for ever, *)
(* so a Task that has once acted after it is refused at its next boundary   *)
(* (Halting).  That a slot is admitted once rests on the due state being    *)
(* ahead of every occurrence admitted since the schedule was started        *)
(* (Ahead), which the admission compares and moves in one transaction.      *)
EXTENDS AutomationScheduler, TLAPS

\* A Task with an effect after the stop is never cleared again.
Halting(t) ==
  /\ task[t].after \in {0, 1}
  /\ task[t].after = 1 => task[t].status \in {"running", "ended"}
  /\ task[t].after = 1 /\ task[t].status = "running" => Overtaken(task[t].pin)

\* The due state has moved past every occurrence of this schedule.
Ahead(t) ==
  task[t].status # "absent" /\ task[t].current =>
    due.known /\ task[t].at + Interval <= due.next

Instants == [known : BOOLEAN, next : Nat, updated : Nat,
             print : Contents \cup {"gone"}]

Ticks == [pc : {"idle", "refused", "resolved", "reset", "decide", "admit"},
          pin : Nat \ {0}, now : Nat, next : Nat, updated : Nat]

TaskRows == [status : {"absent", "queued", "running", "cleared", "ended"},
             pin : Nat \ {0}, at : Nat, current : BOOLEAN, after : Nat]

SchedulerTypeOK ==
  /\ published \in Seq(Evidence) /\ published # <<>>
  /\ clock \in Nat
  /\ due \in Instants
  /\ pass \in [Schedulers -> Ticks]
  /\ \A s \in Schedulers : pass[s].pin <= Len(published)
  /\ task \in [Tasks -> TaskRows]

SchedulerInv ==
  /\ SchedulerTypeOK
  /\ \A t \in Tasks : Halting(t) /\ Ahead(t)
  /\ OneTaskPerSlot

-----------------------------------------------------------------------------
(* Types.                                                                  *)

LEMMA InitTyped == Init => SchedulerTypeOK
<1> SUFFICES ASSUME Init PROVE SchedulerTypeOK
  OBVIOUS
<1>1. published \in Seq(Evidence) /\ published # <<>> /\ Len(published) = 1
  BY DEF Init, PublicationInit, Foundation
<1>2. due \in Instants /\ clock \in Nat
  BY DEF Init, Unknown, Instants
<1>3. NoTick \in Ticks /\ NoTick.pin = 1
  BY DEF NoTick, Ticks
<1>4. /\ pass \in [Schedulers -> Ticks]
      /\ \A s \in Schedulers : pass[s].pin <= Len(published)
  BY <1>1, <1>3 DEF Init
<1>5. task \in [Tasks -> TaskRows]
  BY DEF Init, NoTask, TaskRows
<1> QED
  BY <1>1, <1>2, <1>4, <1>5 DEF SchedulerTypeOK

\* What a document says is one of the contents.
LEMMA ContentType ==
  ASSUME SchedulerTypeOK, NEW s \in Schedulers
  PROVE  Content(s) \in Contents
<1>1. pass[s].pin \in 1 .. Len(published)
  BY DEF SchedulerTypeOK, Ticks
<1>2. published[pass[s].pin] \in Evidence
  BY <1>1 DEF SchedulerTypeOK
<1> QED
  BY <1>2 DEF Content, Evidence

LEMMA LatestExists ==
  SchedulerTypeOK => Len(published) \in Nat \ {0}
BY DEF SchedulerTypeOK

\* A publication only extends the chain.
LEMMA PublicationTyped == SchedulerTypeOK /\ Publication => SchedulerTypeOK'
<1> SUFFICES ASSUME SchedulerTypeOK, Publication PROVE SchedulerTypeOK'
  OBVIOUS
<1>1. PICK e \in Evidence : published' = Append(published, e)
  <2>1. PICK c \in Contents, a \in Principals :
          \E i \in Named(c, a) :
            published' = Append(published, [content |-> c, actor |-> a, intent |-> i])
    BY DEF Publication, Publish
  <2>2. PICK i \in Named(c, a) :
          published' = Append(published, [content |-> c, actor |-> a, intent |-> i])
    BY <2>1
  <2>3. Latest \in Evidence
    BY LatestExists DEF Latest, SchedulerTypeOK
  <2>4. i \in Principals \cup {"none"}
    BY <2>2, <2>3 DEF Named, Evidence
  <2> QED
    BY <2>2, <2>4 DEF Evidence
<1>2. published' \in Seq(Evidence) /\ Len(published') = Len(published) + 1
  BY <1>1 DEF SchedulerTypeOK
<1>3. published' # <<>>
  BY <1>2, LatestExists
<1> QED
  BY <1>2, <1>3, LatestExists DEF Publication, schedulerVars, SchedulerTypeOK, Ticks

\* A step of one tick.
LEMMA PassTyped ==
  ASSUME SchedulerTypeOK, published' = published, clock' = clock,
         NEW s \in Schedulers, NEW p \in Ticks, p.pin <= Len(published),
         pass' = [pass EXCEPT ![s] = p], due' \in Instants,
         task' \in [Tasks -> TaskRows]
  PROVE  SchedulerTypeOK'
BY DEF SchedulerTypeOK

LEMMA OnePin == 1 \in Nat \ {0}
OBVIOUS

LEMMA NoTickType == NoTick \in Ticks /\ NoTick.pin = 1
BY DEF NoTick, Ticks

LEMMA RefusedType ==
  ASSUME NEW p \in Ticks
  PROVE  Refused(p) \in Ticks /\ Refused(p).pin = 1
<1>1. p.now \in Nat /\ p.next \in Nat
  BY DEF Ticks
<1>2. \A n, m \in Nat : LET q == [NoTick EXCEPT !.pc = "refused", !.now = n, !.next = m]
                        IN  q \in Ticks /\ q.pin = 1
  BY OnePin DEF NoTick, Ticks
<1> QED
  BY <1>1, <1>2 DEF Refused

LEMMA TickTyped ==
  ASSUME SchedulerTypeOK, NEW s \in Schedulers, Steps(s) \/ CrashTick(s)
  PROVE  SchedulerTypeOK'
<1> USE LatestExists, NoTickType
<1>0. /\ pass[s] \in Ticks /\ pass[s].pin <= Len(published)
      /\ due \in Instants /\ task \in [Tasks -> TaskRows] /\ clock \in Nat
      /\ 1 <= Len(published) /\ NoTick.pin <= Len(published)
      /\ Refused(pass[s]) \in Ticks /\ Refused(pass[s]).pin <= Len(published)
  <2>1. 1 <= Len(published) /\ Len(published) \in Nat
    BY LatestExists
  <2>2. pass[s] \in Ticks
    BY DEF SchedulerTypeOK
  <2> QED
    BY <2>1, <2>2, NoTickType, RefusedType DEF SchedulerTypeOK
<1>1. CASE ResolveActive(s)
  <2> DEFINE r == [NoTick EXCEPT !.pc = "refused", !.now = clock, !.next = due.next]
             p == [NoTick EXCEPT !.pc = "resolved", !.now = clock, !.pin = Len(published)]
  <2>1. r \in Ticks /\ r.pin = 1
    BY <1>0 DEF NoTick, Ticks, Instants
  <2>2. p \in Ticks /\ p.pin = Len(published)
    BY <1>0 DEF NoTick, Ticks
  <2>3. pass' = [pass EXCEPT ![s] = r] \/ pass' = [pass EXCEPT ![s] = p]
    BY <1>1 DEF ResolveActive
  <2>4. UNCHANGED published /\ UNCHANGED clock /\ UNCHANGED due /\ UNCHANGED task
    BY <1>1 DEF ResolveActive, config
  <2> HIDE DEF r, p
  <2> QED
    BY <1>0, <2>1, <2>2, <2>3, <2>4, PassTyped
<1>2. CASE ReadDueState(s)
  <2>1. due' \in Instants
    BY <1>0, <1>2, ContentType DEF ReadDueState, Fresh, Instants, Ticks
  <2> DEFINE p(pc) == [pass[s] EXCEPT !.next = due'.next, !.updated = due'.updated,
                                      !.pc = pc]
  <2>2. \A pc \in {"reset", "decide"} : p(pc) \in Ticks /\ p(pc).pin = pass[s].pin
    BY <1>0, <2>1 DEF Instants, Ticks
  <2>3. \E pc \in {"reset", "decide"} : pass' = [pass EXCEPT ![s] = p(pc)]
    BY <1>0, <1>2 DEF ReadDueState, SchedulerTypeOK, Ticks
  <2> HIDE DEF p
  <2>4. PICK pc \in {"reset", "decide"} : pass' = [pass EXCEPT ![s] = p(pc)]
    BY <2>3
  <2> QED
    BY <1>0, <1>2, <2>1, <2>2, <2>4, PassTyped DEF ReadDueState, config
<1>3. CASE ResetDueState(s)
  <2>1. due' \in Instants
    BY <1>0, <1>3, ContentType DEF ResetDueState, Fresh, Instants, Ticks
  <2> DEFINE p == [pass[s] EXCEPT !.pc = "decide", !.next = pass[s].now,
                                  !.updated = pass[s].now]
  <2>2. p \in Ticks /\ p.pin = pass[s].pin
    BY <1>0 DEF Ticks
  <2>3. pass' = [pass EXCEPT ![s] = p]
    BY <1>0, <1>3 DEF ResetDueState, SchedulerTypeOK, Ticks
  <2>4. task' \in [Tasks -> TaskRows]
    BY <1>0, <1>3 DEF ResetDueState, TaskRows
  <2> HIDE DEF p
  <2> QED
    BY <1>0, <1>3, <2>1, <2>2, <2>3, <2>4, PassTyped DEF ResetDueState, config
<1>4. CASE Decide(s)
  <2> DEFINE p == [pass[s] EXCEPT !.pc = "admit", !.updated = 0]
  <2>1. p \in Ticks /\ p.pin = pass[s].pin
    BY <1>0 DEF Ticks
  <2>2. \/ pass' = [pass EXCEPT ![s] = NoTick]
        \/ pass' = [pass EXCEPT ![s] = p]
        \/ pass' = [pass EXCEPT ![s] = Refused(pass[s])]
    BY <1>4 DEF Decide
  <2>3. UNCHANGED published /\ UNCHANGED clock /\ UNCHANGED due /\ UNCHANGED task
    BY <1>4 DEF Decide, config
  <2> HIDE DEF p
  <2> QED
    BY <1>0, <2>1, <2>2, <2>3, PassTyped
<1>5. ASSUME NEW t \in Tasks, Admit(s, t) PROVE SchedulerTypeOK'
  <2>0. UNCHANGED published /\ UNCHANGED clock
    BY <1>5 DEF Admit, config
  <2>1. CASE /\ due' = due /\ task' = task
             /\ pass' = [pass EXCEPT ![s] = Refused(@)]
    BY <1>0, <2>0, <2>1, PassTyped
  <2>2. CASE /\ due' = [due EXCEPT !.next = pass[s].now + Interval, !.updated = pass[s].now]
             /\ task' = [task EXCEPT ![t] = [status |-> "queued", pin |-> pass[s].pin,
                           at |-> pass[s].next, current |-> TRUE, after |-> 0]]
             /\ pass' = [pass EXCEPT ![s] = NoTick]
    <3>1. due' \in Instants
      <4>1. pass[s].now + Interval \in Nat /\ pass[s].now \in Nat
        BY <1>0, SchedulerAssumption DEF Ticks
      <4> QED
        BY <1>0, <2>2, <4>1 DEF Instants
    <3>2. task' \in [Tasks -> TaskRows]
      BY <1>0, <2>2 DEF Ticks, TaskRows
    <3> QED
      BY <1>0, <2>0, <2>2, <3>1, <3>2, PassTyped
  <2> QED
    BY <1>5, <2>1, <2>2 DEF Admit
<1>6. CASE RecordRefusal(s)
  <2>1. due' \in Instants
    BY <1>0, <1>6 DEF RecordRefusal, Instants, Ticks
  <2>2. /\ UNCHANGED published /\ UNCHANGED clock /\ UNCHANGED task
        /\ pass' = [pass EXCEPT ![s] = NoTick]
    BY <1>6 DEF RecordRefusal, config
  <2> QED
    BY <1>0, <2>1, <2>2, PassTyped
<1>7. CASE CrashTick(s)
  <2>1. /\ UNCHANGED published /\ UNCHANGED clock /\ UNCHANGED task
        /\ UNCHANGED due /\ pass' = [pass EXCEPT ![s] = NoTick]
    BY <1>7 DEF CrashTick, config
  <2> QED
    BY <1>0, <2>1, PassTyped
<1> QED
  BY <1>1, <1>2, <1>3, <1>4, <1>5, <1>6, <1>7 DEF Steps

LEMMA TaskTyped ==
  ASSUME SchedulerTypeOK, NEW t \in Tasks,
         StartTask(t) \/ ClearBoundary(t) \/ Effect(t) \/ EndTask(t)
  PROVE  SchedulerTypeOK'
<1>0. task[t] \in TaskRows
  BY DEF SchedulerTypeOK
<1>1. UNCHANGED published /\ UNCHANGED clock /\ UNCHANGED due /\ UNCHANGED pass
  BY DEF StartTask, ClearBoundary, Effect, EndTask, Moves, config
<1>2. task' \in [Tasks -> TaskRows]
  <2>1. ASSUME NEW from, NEW to \in {"running", "cleared", "ended"},
               Moves(t, from, to)
        PROVE  task' \in [Tasks -> TaskRows]
    <3>1. [task[t] EXCEPT !.status = to, !.pin = 1] \in TaskRows
      BY <1>0, OnePin DEF TaskRows
    <3>2. [task[t] EXCEPT !.status = to, !.pin = @] \in TaskRows
      BY <1>0 DEF TaskRows
    <3> QED
      BY <2>1, <3>1, <3>2 DEF Moves, SchedulerTypeOK
  <2>2. CASE Effect(t)
    <3>1. task[t].after \in Nat /\ task[t].after + 1 \in Nat
      BY <1>0 DEF TaskRows
    <3> QED
      BY <1>0, <2>2, <3>1 DEF Effect, TaskRows, SchedulerTypeOK
  <2> QED
    BY <2>1, <2>2 DEF StartTask, ClearBoundary, EndTask
<1> QED
  BY <1>1, <1>2 DEF SchedulerTypeOK

LEMMA NextTyped == SchedulerTypeOK /\ [Next]_vars => SchedulerTypeOK'
<1> SUFFICES ASSUME SchedulerTypeOK, [Next]_vars PROVE SchedulerTypeOK'
  OBVIOUS
<1>1. CASE Publication
  BY <1>1, PublicationTyped
<1>2. ASSUME NEW p \in Principals, ChangePermission(p) PROVE SchedulerTypeOK'
  BY <1>2 DEF ChangePermission, SchedulerTypeOK
<1>3. CASE \E s \in Schedulers : Steps(s) \/ CrashTick(s)
  BY <1>3, TickTyped
<1>4. CASE \E t \in Tasks :
             StartTask(t) \/ ClearBoundary(t) \/ Effect(t) \/ EndTask(t)
  BY <1>4, TaskTyped
<1>5. CASE Tick
  BY <1>5 DEF Tick, config, SchedulerTypeOK
<1>6. CASE UNCHANGED vars
  BY <1>6 DEF vars, schedulerVars, SchedulerTypeOK
<1> QED
  BY <1>1, <1>2, <1>3, <1>4, <1>5, <1>6 DEF Next

-----------------------------------------------------------------------------
(* Stopped work.                                                           *)

\* A stop once published is met by every later walk back.
LEMMA OvertakenStays ==
  ASSUME SchedulerTypeOK, Publication, NEW pin \in Nat \ {0}, Overtaken(pin)
  PROVE  Overtaken(pin)'
<1>1. PICK c \in Contents, a \in Principals :
        \E i \in Named(c, a) :
          published' = Append(published, [content |-> c, actor |-> a, intent |-> i])
  BY DEF Publication, Publish
<1>2. PICK e : published' = Append(published, e)
  BY <1>1
<1>3. PICK r \in pin .. Len(published) : published[r].content \notin Enabled
  BY DEF Overtaken
<1>4. r \in 1 .. Len(published) /\ Len(published') = Len(published) + 1
  BY <1>2, <1>3 DEF SchedulerTypeOK
<1>5. published'[r] = published[r]
  BY <1>2, <1>4 DEF SchedulerTypeOK
<1>6. r \in pin .. Len(published')
  BY <1>3, <1>4
<1> QED
  BY <1>3, <1>5, <1>6 DEF Overtaken, Enabled

LEMMA NobodyOvertakenIsAuthorised ==
  \A pin : Authorised(pin) => ~Overtaken(pin)
BY DEF Authorised, Continuous, Overtaken

\* One action of a Task.
LEMMA TaskHalts ==
  ASSUME SchedulerTypeOK, \A u \in Tasks : Halting(u), NEW t \in Tasks,
         StartTask(t) \/ ClearBoundary(t) \/ Effect(t) \/ EndTask(t)
  PROVE  \A u \in Tasks : Halting(u)'
<1>0. task \in [Tasks -> TaskRows] /\ UNCHANGED published
  BY DEF SchedulerTypeOK, StartTask, ClearBoundary, Effect, EndTask, Moves, config
<1>1. \A u \in Tasks : u # t => task'[u] = task[u]
  BY <1>0 DEF StartTask, ClearBoundary, Effect, EndTask, Moves
<1>2. \A pin : Overtaken(pin)' <=> Overtaken(pin)
  BY <1>0 DEF Overtaken
<1>3. \A u \in Tasks : u # t => Halting(u)'
  BY <1>1, <1>2 DEF Halting
<1>4. Halting(t)'
  <2>1. CASE StartTask(t)
    BY <1>0, <2>1 DEF StartTask, Moves, Halting, TaskRows
  <2>2. CASE ClearBoundary(t)
    <3>1. CASE Authorised(task[t].pin)
      <4>1. task[t].after = 0
        BY <2>2, <3>1, NobodyOvertakenIsAuthorised DEF ClearBoundary, Moves, Halting
      <4> QED
        BY <1>0, <2>2, <4>1 DEF ClearBoundary, Moves, Halting, TaskRows
    <3>2. CASE ~Authorised(task[t].pin)
      BY <1>0, <2>2, <3>2 DEF ClearBoundary, Moves, Halting, TaskRows
    <3> QED
      BY <3>1, <3>2
  <2>3. CASE Effect(t)
    <3>1. task[t].after = 0 /\ task[t].status = "cleared"
      BY <2>3 DEF Effect, Halting
    <3>2. /\ task'[t].status = "running" /\ task'[t].pin = task[t].pin
          /\ task'[t].after = IF Overtaken(task[t].pin) THEN 1 ELSE 0
      BY <1>0, <2>3, <3>1 DEF Effect, TaskRows
    <3>3. CASE Overtaken(task[t].pin)
      BY <1>2, <3>2, <3>3 DEF Halting
    <3>4. CASE ~Overtaken(task[t].pin)
      BY <3>2, <3>4 DEF Halting
    <3> QED
      BY <3>3, <3>4
  <2>4. CASE EndTask(t)
    BY <1>0, <2>4 DEF EndTask, Moves, Halting, TaskRows
  <2> QED
    BY <2>1, <2>2, <2>3, <2>4
<1> QED
  BY <1>3, <1>4

\* A tick starts Tasks afresh and touches no other.
LEMMA TickHalts ==
  ASSUME SchedulerTypeOK, \A u \in Tasks : Halting(u), NEW s \in Schedulers,
         Steps(s) \/ CrashTick(s)
  PROVE  \A u \in Tasks : Halting(u)'
<1>0. task \in [Tasks -> TaskRows] /\ UNCHANGED published
  BY DEF SchedulerTypeOK, Steps, CrashTick, ResolveActive, ReadDueState,
         ResetDueState, Decide, RecordRefusal, Admit, config
<1>1. \A pin : Overtaken(pin)' <=> Overtaken(pin)
  BY <1>0 DEF Overtaken
<1>2. CASE ResetDueState(s)
  <2>1. \A u \in Tasks : /\ task'[u].status = task[u].status
                         /\ task'[u].after = task[u].after
                         /\ task'[u].pin = task[u].pin
    BY <1>0, <1>2 DEF ResetDueState, TaskRows
  <2> QED
    BY <1>1, <2>1 DEF Halting
<1>3. ASSUME NEW t \in Tasks, Admit(s, t) PROVE \A u \in Tasks : Halting(u)'
  <2>1. CASE UNCHANGED task
    BY <1>1, <2>1 DEF Halting
  <2>2. CASE task' = [task EXCEPT ![t] = [status |-> "queued", pin |-> pass[s].pin,
                        at |-> pass[s].next, current |-> TRUE, after |-> 0]]
    BY <1>0, <1>1, <2>2 DEF Halting
  <2> QED
    BY <1>3, <2>1, <2>2 DEF Admit
<1>4. CASE UNCHANGED task
  BY <1>1, <1>4 DEF Halting
<1> QED
  BY <1>2, <1>3, <1>4 DEF Steps, CrashTick, ResolveActive, ReadDueState, Decide,
                          RecordRefusal

LEMMA NextHalts ==
  ASSUME SchedulerTypeOK, \A u \in Tasks : Halting(u), [Next]_vars
  PROVE  \A u \in Tasks : Halting(u)'
<1>1. CASE Publication
  <2>1. UNCHANGED task
    BY <1>1 DEF Publication, schedulerVars
  <2>2. \A u \in Tasks : task[u].pin \in Nat \ {0}
    BY DEF SchedulerTypeOK, TaskRows
  <2> QED
    BY <1>1, <2>1, <2>2, OvertakenStays DEF Halting
<1>2. CASE UNCHANGED <<published, task>>
  BY <1>2 DEF Halting, Overtaken
<1>3. CASE \E s \in Schedulers : Steps(s) \/ CrashTick(s)
  BY <1>3, TickHalts
<1>4. CASE \E t \in Tasks :
             StartTask(t) \/ ClearBoundary(t) \/ Effect(t) \/ EndTask(t)
  BY <1>4, TaskHalts
<1> QED
  BY <1>1, <1>2, <1>3, <1>4 DEF Next, ChangePermission, Tick, config, vars,
                                schedulerVars

-----------------------------------------------------------------------------
(* Slots.                                                                  *)

\* Occurrences are dropped or kept, and the due state only moves forward.
LEMMA SlotsKept ==
  ASSUME SchedulerTypeOK, SchedulerTypeOK', \A u \in Tasks : Ahead(u), OneTaskPerSlot,
         \A u \in Tasks :
           task'[u].status # "absent" /\ task'[u].current =>
             task[u].status # "absent" /\ task[u].current /\ task'[u].at = task[u].at,
         due.known => due'.known /\ due.next <= due'.next
  PROVE  (\A u \in Tasks : Ahead(u)') /\ OneTaskPerSlot'
<1>1. /\ \A u \in Tasks : task[u].at \in Nat
      /\ due.next \in Nat /\ due'.next \in Nat /\ Interval \in Nat
  BY SchedulerAssumption DEF SchedulerTypeOK, TaskRows, Instants
<1>2. ASSUME NEW u \in Tasks PROVE Ahead(u)'
  BY <1>1 DEF Ahead
<1>3. OneTaskPerSlot'
  <2> SUFFICES ASSUME NEW t \in Admitted', NEW u \in Admitted', t # u,
                      task'[t].current, task'[u].current
               PROVE  \/ task'[t].at + Interval <= task'[u].at
                      \/ task'[u].at + Interval <= task'[t].at
    BY DEF OneTaskPerSlot
  <2>1. t \in Admitted /\ u \in Admitted
    BY DEF Admitted
  <2>2. /\ task[t].current /\ task'[t].at = task[t].at
        /\ task[u].current /\ task'[u].at = task[u].at
    BY DEF Admitted
  <2> QED
    BY <2>1, <2>2 DEF OneTaskPerSlot
<1> QED
  BY <1>2, <1>3

\* The admission takes the slot the due state names, which every earlier
\* occurrence is an interval behind, and moves the due state past it.
LEMMA AdmissionTakesSlot ==
  ASSUME SchedulerTypeOK, SchedulerTypeOK', \A u \in Tasks : Ahead(u), OneTaskPerSlot,
         NEW s \in Schedulers, NEW t \in Tasks, Admit(s, t)
  PROVE  (\A u \in Tasks : Ahead(u)') /\ OneTaskPerSlot'
<1>0. /\ task \in [Tasks -> TaskRows] /\ \A u \in Tasks : task[u].at \in Nat
      /\ due.next \in Nat /\ Interval \in Nat
      /\ pass[s].now \in Nat /\ pass[s].next \in Nat
  BY SchedulerAssumption DEF SchedulerTypeOK, TaskRows, Instants, Ticks
<1>1. CASE due' = due /\ task' = task
  BY <1>0, <1>1, SlotsKept
<1>2. CASE /\ SlotUnclaimed(s)
           /\ due' = [due EXCEPT !.next = pass[s].now + Interval,
                                 !.updated = pass[s].now]
           /\ task' = [task EXCEPT ![t] = [status |-> "queued", pin |-> pass[s].pin,
                         at |-> pass[s].next, current |-> TRUE, after |-> 0]]
  <2>1. /\ due.known /\ due.next = pass[s].next /\ due.next <= pass[s].now
    BY <1>2 DEF SlotUnclaimed
  <2>2. due'.known = due.known /\ due'.next = pass[s].now + Interval
    BY <1>2 DEF SchedulerTypeOK, Instants
  <2>3. /\ task'[t].at = due.next /\ task'[t].current /\ task[t].status = "absent"
        /\ \A u \in Tasks : u # t => task'[u] = task[u]
    BY <1>0, <1>2, <2>1 DEF Admit
  <2>4. ASSUME NEW u \in Tasks PROVE Ahead(u)'
    <3>1. CASE u = t
      BY <1>0, <2>1, <2>2, <2>3, <3>1 DEF Ahead
    <3>2. CASE u # t
      BY <1>0, <2>1, <2>2, <2>3, <3>2 DEF Ahead
    <3> QED
      BY <3>1, <3>2
  <2>5. ASSUME NEW u \in Tasks, u # t, task'[u].status # "absent", task'[u].current
        PROVE  task'[u].at + Interval <= task'[t].at
    BY <2>3, <2>5 DEF Ahead
  <2>6. OneTaskPerSlot'
    <3> SUFFICES ASSUME NEW a \in Admitted', NEW b \in Admitted', a # b,
                        task'[a].current, task'[b].current
                 PROVE  \/ task'[a].at + Interval <= task'[b].at
                        \/ task'[b].at + Interval <= task'[a].at
      BY DEF OneTaskPerSlot
    <3>0. /\ a \in Tasks /\ b \in Tasks
          /\ task'[a].status # "absent" /\ task'[b].status # "absent"
      BY DEF Admitted
    <3>1. CASE a = t
      BY <2>5, <3>0, <3>1
    <3>2. CASE b = t
      BY <2>5, <3>0, <3>2
    <3>3. CASE a # t /\ b # t
      BY <2>3, <3>0, <3>3 DEF Admitted, OneTaskPerSlot
    <3> QED
      BY <3>1, <3>2, <3>3
  <2> QED
    BY <2>4, <2>6
<1> QED
  BY <1>1, <1>2 DEF Admit

LEMMA NextTakesSlots ==
  ASSUME SchedulerTypeOK, SchedulerTypeOK', \A u \in Tasks : Ahead(u), OneTaskPerSlot,
         [Next]_vars
  PROVE  (\A u \in Tasks : Ahead(u)') /\ OneTaskPerSlot'
<1>0. /\ task \in [Tasks -> TaskRows] /\ due \in Instants
      /\ \A u \in Tasks : task[u].at \in Nat
      /\ due.next \in Nat /\ due'.next \in Nat /\ Interval \in Nat
  BY SchedulerAssumption DEF SchedulerTypeOK, TaskRows, Instants
<1>1. CASE UNCHANGED task /\ UNCHANGED due
  BY <1>0, <1>1, SlotsKept
<1>2. ASSUME NEW s \in Schedulers, ReadDueState(s)
      PROVE  (\A u \in Tasks : Ahead(u)') /\ OneTaskPerSlot'
  <2>0. UNCHANGED task
    BY <1>2 DEF ReadDueState
  <2>1. CASE due.known
    <3>1. UNCHANGED due
      BY <1>2, <2>1 DEF ReadDueState
    <3> QED
      BY <1>1, <2>0, <3>1
  <2>2. CASE ~due.known
    BY <1>0, <2>0, <2>2, SlotsKept DEF Ahead
  <2> QED
    BY <2>1, <2>2
<1>3. ASSUME NEW s \in Schedulers, ResetDueState(s)
      PROVE  (\A u \in Tasks : Ahead(u)') /\ OneTaskPerSlot'
  <2>1. \A u \in Tasks : ~task'[u].current
    BY <1>0, <1>3 DEF ResetDueState, TaskRows
  <2> QED
    BY <2>1 DEF Ahead, OneTaskPerSlot, Admitted
<1>4. ASSUME NEW s \in Schedulers, RecordRefusal(s)
      PROVE  (\A u \in Tasks : Ahead(u)') /\ OneTaskPerSlot'
  <2>1. UNCHANGED task /\ due'.known = due.known /\ due'.next = due.next
    BY <1>0, <1>4 DEF RecordRefusal, Instants
  <2> QED
    BY <1>0, <2>1, SlotsKept
<1>5. ASSUME NEW t \in Tasks,
             StartTask(t) \/ ClearBoundary(t) \/ Effect(t) \/ EndTask(t)
      PROVE  (\A u \in Tasks : Ahead(u)') /\ OneTaskPerSlot'
  <2>1. UNCHANGED due
    BY <1>5 DEF StartTask, ClearBoundary, Effect, EndTask, Moves
  <2>2. \A u \in Tasks : u # t => task'[u] = task[u]
    BY <1>0, <1>5 DEF StartTask, ClearBoundary, Effect, EndTask, Moves
  <2>3. /\ task'[t].current = task[t].current /\ task'[t].at = task[t].at
        /\ task[t].status # "absent"
    BY <1>0, <1>5 DEF StartTask, ClearBoundary, Effect, EndTask, Moves, TaskRows
  <2> QED
    BY <1>0, <2>1, <2>2, <2>3, SlotsKept
<1> QED
  BY <1>1, <1>2, <1>3, <1>4, <1>5, AdmissionTakesSlot
     DEF Next, Steps, Publication, ChangePermission, ResolveActive, Decide, CrashTick,
         Tick, vars, schedulerVars

-----------------------------------------------------------------------------
(* The theorems.                                                           *)

LEMMA InitInv == Init => SchedulerInv
<1> SUFFICES ASSUME Init PROVE SchedulerInv
  OBVIOUS
<1>1. \A t \in Tasks : task[t] = NoTask
  BY DEF Init
<1> QED
  BY <1>1, InitTyped DEF SchedulerInv, NoTask, Halting, Ahead, OneTaskPerSlot, Admitted

LEMMA NextInv == SchedulerInv /\ [Next]_vars => SchedulerInv'
<1> SUFFICES ASSUME SchedulerInv, [Next]_vars PROVE SchedulerInv'
  OBVIOUS
<1>1. SchedulerTypeOK'
  BY NextTyped DEF SchedulerInv
<1>2. \A u \in Tasks : Halting(u)'
  BY NextHalts DEF SchedulerInv
<1>3. (\A u \in Tasks : Ahead(u)') /\ OneTaskPerSlot'
  BY <1>1, NextTakesSlots DEF SchedulerInv
<1> QED
  BY <1>1, <1>2, <1>3 DEF SchedulerInv

\* The inductive invariant: typed rows, halted Tasks, and a due state ahead
\* of the occurrences it has handed out (admit_due_automation_definition_task).
THEOREM SchedulerInvariant == Spec => []SchedulerInv
<1>1. Init => SchedulerInv
  BY InitInv
<1>2. SchedulerInv /\ [Next]_vars => SchedulerInv'
  BY NextInv
<1> QED
  BY <1>1, <1>2, PTL DEF Spec

\* A disabled or removed definition stops its admitted work for good, at the
\* latest after the effect already cleared (assert_schedule_continuity).
THEOREM WorkStops == Spec => []StoppedWorkStops
<1>1. SchedulerInv => StoppedWorkStops
  BY DEF SchedulerInv, Halting, StoppedWorkStops
<1> QED
  BY <1>1, SchedulerInvariant, PTL

\* Whatever schedulers race, occurrences of one start of the schedule are an
\* interval apart (admit_due_automation_definition_task).
THEOREM SlotsAdmittedOnce == Spec => []OneTaskPerSlot
<1>1. SchedulerInv => OneTaskPerSlot
  BY DEF SchedulerInv
<1> QED
  BY <1>1, SchedulerInvariant, PTL

=============================================================================
