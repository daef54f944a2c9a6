------------------------- MODULE AutomationScheduler -------------------------
(* Schedulers over what managed configuration has published: each tick      *)
(* resolves the latest document, brings the durable due state of its        *)
(* definition up to date and admits one due occurrence as a Task pinned to  *)
(* what it resolved; the Task re-reads its authority before every effect.   *)
(* Schedulers are overtaken by publications, by each other, by changes of   *)
(* a permission and by time between any two of their steps.                 *)
EXTENDS Publications, FiniteSets

CONSTANTS Schedulers,   \* resident and one-shot scheduler processes
          MaxTasks,     \* bound: Tasks that are admitted
          Capacity,     \* configured active Task capacity
          Interval,     \* of the definition, in ticks of the clock
          MaxPublications, \* bound: published documents
          MaxClock,     \* bound: the clock
          MaxFaults     \* bound: ticks that stop inside, changed permissions

ASSUME SchedulerAssumption ==
  /\ Capacity \in Nat \ {0}
  /\ Interval \in Nat \ {0}
  /\ MaxPublications \in Nat /\ MaxClock \in Nat
  /\ MaxFaults \in Nat /\ MaxTasks \in Nat

VARIABLES
  permitted, \* principals that now hold the scheduled execution permission
  clock,
  due,      \* automation_definition_due_state
  pass,     \* the tick of each scheduler
  task,     \* admitted Tasks with their pin and occurrence; as history,
            \* "current": no fresh start of the schedule since, and "after":
            \* effects performed after the pinned definition was stopped
  faults

schedulerVars == <<permitted, clock, due, pass, task, faults>>
config == <<published, permitted>>
Tasks  == 1 .. MaxTasks
vars == <<published, schedulerVars>>

Unknown == [known |-> FALSE, next |-> 0, updated |-> 0, print |-> "gone"]
NoTick  == [pc |-> "idle", pin |-> 1, now |-> 0, next |-> 0, updated |-> 0]
NoTask  == [status |-> "absent", pin |-> 1, at |-> 0, current |-> FALSE,
            after |-> 0]

Init ==
  /\ PublicationInit
  /\ permitted = Principals
  /\ clock = 0
  /\ due = Unknown
  /\ pass = [s \in Schedulers |-> NoTick]
  /\ task = [t \in Tasks |-> NoTask]
  /\ faults = 0

-----------------------------------------------------------------------------
(* Authority.                                                              *)

ContinuousNow(pin) == Latest.content \in Enabled   \* mutant: no walk back

\* assert_schedule_continuity: from the latest back to the pinned document,
\* none disables or removes the definition.
Continuous(pin) ==
  \A r \in pin .. Len(published) : published[r].content \in Enabled

\* authorize_task and assert_live_task of a scheduled Task.
Authorised(pin) ==
  /\ published[pin].content \in Enabled
  /\ published[pin].intent \in permitted
  /\ Continuous(pin)

-----------------------------------------------------------------------------
(* One tick.                                                               *)

\* The instant and the revision of a tick are fixed when it starts; a
\* definition the revision does not have is only reported missing.
ResolveActive(s) ==
  /\ pass[s].pc = "idle"
  /\ pass' = [pass EXCEPT ![s] =
       IF Latest.content = "gone"
         THEN [NoTick EXCEPT !.pc = "refused", !.now = clock, !.next = due.next]
         ELSE [NoTick EXCEPT !.pc = "resolved", !.now = clock,
                             !.pin = Len(published)]]
  /\ UNCHANGED <<config, clock, due, task, faults>>

Content(s) == published[pass[s].pin].content

StaleNever(s) == FALSE              \* mutant: a changed schedule is kept
StalePrint(s) == due.print # Content(s)

Fresh(s) == [known |-> TRUE, next |-> pass[s].now, updated |-> pass[s].now,
             print |-> Content(s)]

\* _ensure_definition_state reads the due state, and inserts it if missing.
ReadDueState(s) ==
  /\ pass[s].pc = "resolved"
  /\ due' = IF due.known THEN due ELSE Fresh(s)
  /\ pass' = [pass EXCEPT ![s].next = due'.next, ![s].updated = due'.updated,
       ![s].pc = IF due.known /\ StalePrint(s) THEN "reset" ELSE "decide"]
  /\ UNCHANGED <<config, clock, task, faults>>

\* reset_automation_definition_due_state compares nothing.
ResetDueState(s) ==
  /\ pass[s].pc = "reset"
  /\ due' = Fresh(s)
  /\ task' = [t \in Tasks |-> [task[t] EXCEPT !.current = FALSE]]
  /\ pass' = [pass EXCEPT ![s].pc = "decide", ![s].next = pass[s].now,
                          ![s].updated = pass[s].now]
  /\ UNCHANGED <<config, clock, faults>>

Refused(p) == [NoTick EXCEPT !.pc = "refused", !.now = p.now, !.next = p.next]

\* The due state as it was read decides whether the occurrence is admitted,
\* waited for, or refused: disabled, read at a later instant, unauthorised.
Decide(s) ==
  /\ pass[s].pc = "decide"
  /\ LET p == pass[s]
         open == Content(s) \in Enabled /\ p.updated <= p.now
     IN pass' = [pass EXCEPT ![s] =
          IF open /\ p.next > p.now THEN NoTick
          ELSE IF open /\ Authorised(p.pin)
            THEN [p EXCEPT !.pc = "admit", !.updated = 0]
          ELSE Refused(p)]
  /\ UNCHANGED <<config, clock, due, task, faults>>

Used == {t \in Tasks : task[t].status \in {"queued", "running", "cleared"}}

SlotDue(s) == due.known /\ due.next <= pass[s].now  \* mutant: any due slot
              /\ due.print = Content(s)

\* What admit_due_automation_definition_task compares.
SlotUnclaimed(s) ==
  /\ due.known /\ due.next = pass[s].next /\ due.next <= pass[s].now
  /\ due.print = Content(s)

\* The Task, its occurrence and the advance are one transaction.
Admit(s, t) ==
  /\ pass[s].pc = "admit"
  /\ task[t].status = "absent" /\ \A u \in Tasks : u < t => task[u].status # "absent"
  /\ IF Cardinality(Used) < Capacity /\ SlotUnclaimed(s)
       THEN /\ due' = [due EXCEPT !.next = pass[s].now + Interval,
                                  !.updated = pass[s].now]
            /\ task' = [task EXCEPT ![t] = [status |-> "queued",
                 pin |-> pass[s].pin, at |-> pass[s].next,
                 current |-> TRUE, after |-> 0]]
            /\ pass' = [pass EXCEPT ![s] = NoTick]
       ELSE /\ pass' = [pass EXCEPT ![s] = Refused(@)]
            /\ UNCHANGED <<due, task>>
  /\ UNCHANGED <<config, clock, faults>>

\* The diagnosis of a refused tick carries the instant of that tick.
RecordRefusal(s) ==
  /\ pass[s].pc = "refused"
  /\ due' = IF due.known /\ due.next = pass[s].next
            THEN [due EXCEPT !.updated = pass[s].now] ELSE due
  /\ pass' = [pass EXCEPT ![s] = NoTick]
  /\ UNCHANGED <<config, clock, task, faults>>

Publication ==
  /\ Len(published) < MaxPublications
  /\ Publish
  /\ UNCHANGED schedulerVars

ChangePermission(p) ==
  /\ faults < MaxFaults
  /\ faults' = faults + 1
  /\ permitted' = IF p \in permitted THEN permitted \ {p}
                                     ELSE permitted \cup {p}
  /\ UNCHANGED <<published, clock, due, pass, task>>

CrashTick(s) ==
  /\ pass[s].pc # "idle"
  /\ faults < MaxFaults
  /\ faults' = faults + 1
  /\ pass' = [pass EXCEPT ![s] = NoTick]
  /\ UNCHANGED <<config, clock, due, task>>

Tick ==
  /\ clock < MaxClock
  /\ clock' = clock + 1
  /\ UNCHANGED <<config, due, pass, task, faults>>

-----------------------------------------------------------------------------
(* An admitted Task.                                                       *)

Moves(t, from, to) ==
  /\ task[t].status = from
  /\ task' = [task EXCEPT ![t].status = to, ![t].pin = IF to = "ended" THEN 1 ELSE @]
  /\ UNCHANGED <<config, clock, due, pass, faults>>

\* History: the definition has been disabled or removed since this pin.
Overtaken(pin) ==
  \E r \in pin .. Len(published) : published[r].content \notin Enabled

\* AutomationDefinitionExecution.run asks once before it starts ...
StartTask(t) == Moves(t, "queued", IF Authorised(task[t].pin) THEN "running"
                                                            ELSE "ended")

\* ... and the mutation authority again at every boundary of an effect.
ClearBoundary(t) == Moves(t, "running", IF Authorised(task[t].pin) THEN "cleared"
                                                                 ELSE "ended")

\* The effect itself, after the answer and whatever was published since.
Effect(t) ==
  /\ task[t].status = "cleared"
  /\ task' = [task EXCEPT ![t].status = "running",
       ![t].after = IF Overtaken(task[t].pin) /\ @ < 2 THEN @ + 1 ELSE @]
  /\ UNCHANGED <<config, clock, due, pass, faults>>

EndTask(t) == Moves(t, "running", "ended")

-----------------------------------------------------------------------------

Steps(s) ==
  \/ ResolveActive(s) \/ ReadDueState(s) \/ ResetDueState(s) \/ Decide(s)
  \/ RecordRefusal(s) \/ \E t \in Tasks : Admit(s, t)

Next ==
  \/ Publication
  \/ \E p \in Principals : ChangePermission(p)
  \/ \E s \in Schedulers : Steps(s) \/ CrashTick(s)
  \/ \E t \in Tasks : StartTask(t) \/ ClearBoundary(t) \/ Effect(t) \/ EndTask(t)
  \/ Tick

Spec == Init /\ [][Next]_vars

\* A resident scheduler keeps ticking; nothing is assumed of the operators,
\* the Tasks or the clock.
FairSpec == Spec /\ \A s \in Schedulers : WF_vars(Steps(s))

-----------------------------------------------------------------------------

\* "An intervening disable/removal permanently stops old scheduled work":
\* once a document without its enabled definition has been published, a Task
\* performs at most the one effect it had already been cleared for, even if
\* a later document enables the definition again and even if a stale tick
\* admitted the Task only afterwards.
StoppedWorkStops == \A t \in Tasks : task[t].after <= 1

Admitted == {t \in Tasks : task[t].status # "absent"}

\* "advances one durable due slot at most once": between two fresh starts of
\* the schedule, occurrences are an interval apart whichever scheduler
\* admits them, whatever its clock said when its tick began.
OneTaskPerSlot ==
  \A t, u \in Admitted :
    t # u /\ task[t].current /\ task[u].current
    => \/ task[t].at + Interval <= task[u].at
       \/ task[u].at + Interval <= task[t].at

\* A due occurrence of an enabled definition that its publisher may run and
\* the capacity has room for.
Ready ==
  /\ Latest.content \in Enabled
  /\ Latest.intent \in permitted
  /\ due.known => due.next <= clock
  /\ Cardinality(Used) < Capacity
  /\ Admitted # Tasks

\* No occurrence stays due for ever: racing resets, stale ticks and refused
\* admissions never leave a due state that no tick can advance.
DueOccurrencesRun == ~<>[]Ready

=============================================================================
