------------------------------- MODULE Outbox --------------------------------
(* The notification outbox: a settled Task is offered to a post-commit      *)
(* observer that writes one delivery row per subscribed Webhook; Workers    *)
(* claim due rows under a lease, send a signed request and write the row    *)
(* back; an operator requeues and resolves.  Publications change the        *)
(* Webhooks at any time.  Time is kept as countdowns: how long until a row  *)
(* is due, how much of its lease is left.                                   *)
EXTENDS Naturals

CONSTANTS Events,       \* Tasks whose end is announced
          Hooks,        \* Webhook identities
          Digests,      \* recipient and signing identities
          Workers,      \* Notification Workers
          Answers,      \* what the transport can answer
          MaxAttempts,  \* of a Webhook definition
          BaseRetry, MaxRetry,   \* its backoff, in ticks
          Lease,        \* the delivery lease, in ticks
          MaxFaults,    \* bound: crashes and lapses under a living Worker
          MaxEdits,     \* bound: publications that change a Webhook
          MaxRecoveries \* bound: operator actions

ASSUME OutboxAssumption ==
  /\ Events # {} /\ Hooks # {}
  /\ Digests # {} /\ "none" \notin Digests
  /\ Answers \subseteq {"ok", "busy", "refused", "error"}
  /\ MaxAttempts \in Nat \ {0}
  /\ BaseRetry \in Nat \ {0} /\ MaxRetry \in Nat /\ BaseRetry <= MaxRetry
  /\ Lease \in Nat \ {0}
  /\ MaxFaults \in Nat /\ MaxEdits \in Nat /\ MaxRecoveries \in Nat

VARIABLES
  hook,      \* the Webhook definitions of the current Active revision
  event,     \* each Task: running, or how far its announcement is
  row,       \* notification_deliveries
  pass,      \* the pass of each Worker
  view,      \* the delivery state the operator has inspected
  sent,      \* history: the targets requests of a delivery went to
  confirmed, \* history: deliveries once recorded delivered
  late,      \* history: deliveries written by a Worker past its lease
  lapses,    \* history: expired leases of a delivery in this round
  faults, edits, recoveries

bounds == <<faults, edits, recoveries>>
histories == <<sent, confirmed, late, lapses>>
vars == <<hook, event, row, pass, view, histories, bounds>>

Deliveries == Events \X Hooks
HookOf(d)  == d[2]

Statuses == {"absent", "pending", "delivering", "retry", "delivered",
             "dead-letter"}

Absent == [status |-> "absent", attempts |-> 0, due |-> 0, lease |-> 0,
           digest |-> "none", stamp |-> 0]

NoTargets == [h \in Hooks |-> "none"]
Idle(w) == [pc |-> "idle", targets |-> NoTargets, d |-> CHOOSE d \in Deliveries : TRUE,
            row |-> Absent, answer |-> "none"]
NoView == [d |-> CHOOSE d \in Deliveries : TRUE, status |-> "none", stamp |-> 0]

Init ==
  /\ hook \in [Hooks -> [enabled : {TRUE}, digest : Digests]]
  /\ event = [e \in Events |-> [pc |-> "running", todo |-> NoTargets]]
  /\ row = [d \in Deliveries |-> Absent]
  /\ pass = [w \in Workers |-> Idle(w)]
  /\ view = NoView
  /\ sent = [d \in Deliveries |-> {}]
  /\ confirmed = {} /\ late = {}
  /\ lapses = [d \in Deliveries |-> 0]
  /\ faults = 0 /\ edits = 0 /\ recoveries = 0

-----------------------------------------------------------------------------
(* Announcing a settled Task.                                              *)

\* The terminal row is committed; its observer has not run yet.
SettleTask(e) ==
  /\ event[e].pc = "running"
  /\ event' = [event EXCEPT ![e].pc = "settled"]
  /\ UNCHANGED <<hook, row, pass, view, histories, bounds>>

\* The targets of one publication are those published when it starts ...
ResolveSubscribers(e) ==
  /\ event[e].pc = "settled"
  /\ event' = [event EXCEPT ![e] =
       [pc |-> "publishing",
        todo |-> [h \in Hooks |-> IF hook[h].enabled THEN hook[h].digest
                                                     ELSE "none"]]]
  /\ UNCHANGED <<hook, row, pass, view, histories, bounds>>

\* ... and each row is a transaction of its own.
CreateDelivery(e, h) ==
  /\ event[e].pc = "publishing" /\ event[e].todo[h] # "none"
  /\ row' = IF row[<<e, h>>].status = "absent"
              THEN [row EXCEPT ![<<e, h>>] =
                      [Absent EXCEPT !.status = "pending",
                                     !.digest = event[e].todo[h]]]
              ELSE row
  /\ event' = [event EXCEPT ![e].todo[h] = "none"]
  /\ UNCHANGED <<hook, pass, view, histories, bounds>>

Announced(e) ==
  /\ event[e].pc = "publishing" /\ event[e].todo = NoTargets
  /\ event' = [event EXCEPT ![e].pc = "announced"]
  /\ UNCHANGED <<hook, row, pass, view, histories, bounds>>

\* A crash, or a configuration that cannot be read: nobody announces the
\* rest of this event later.
PublisherFails(e) ==
  /\ event[e].pc \in {"settled", "publishing"}
  /\ faults < MaxFaults
  /\ event' = [event EXCEPT ![e] = [pc |-> "lost", todo |-> NoTargets]]
  /\ faults' = faults + 1
  /\ UNCHANGED <<hook, row, pass, view, histories, edits, recoveries>>

-----------------------------------------------------------------------------
(* Delivering.                                                             *)

DueUnlessClaimed(r) ==               \* mutant: an expired lease is never due
  r.status \in {"pending", "retry"} /\ r.due = 0

\* The due predicate of claim_next_delivery.
Due(r) == \/ r.status \in {"pending", "retry"} /\ r.due = 0
          \/ r.status = "delivering" /\ r.lease = 0

MatchesByName(d, targets) ==         \* mutant: the recipient is not compared
  targets[HookOf(d)] # "none"

\* A row is lawful for a target only under the identity it was created for.
Matches(d, targets) == targets[HookOf(d)] = row[d].digest

\* Nothing is claimed while no target is deliverable.
ResolveTargets(w) ==
  /\ pass[w].pc = "idle"
  /\ \E h \in Hooks : hook[h].enabled
  /\ pass' = [pass EXCEPT ![w].pc = "resolved",
       ![w].targets = [h \in Hooks |-> IF hook[h].enabled THEN hook[h].digest
                                                          ELSE "none"]]
  /\ UNCHANGED <<hook, event, row, view, histories, bounds>>

\* claim_next_delivery; which of the due rows is oldest is left open.
ClaimDelivery(w) ==
  /\ pass[w].pc = "resolved"
  /\ UNCHANGED <<hook, event, view, sent, confirmed, late, bounds>>
  /\ LET ready == {d \in Deliveries : Due(row[d]) /\ Matches(d, pass[w].targets)}
     IN \/ /\ ready = {}
           /\ pass' = [pass EXCEPT ![w] = Idle(w)]
           /\ UNCHANGED <<row, lapses>>
        \/ \E d \in ready :
             LET claimed == [row[d] EXCEPT !.status = "delivering", !.lease = Lease,
                               !.attempts = @ + 1, !.stamp = @ + 1]
             IN /\ row' = [row EXCEPT ![d] = claimed]
                /\ lapses' = [lapses EXCEPT ![d] =
                     IF row[d].status = "delivering" THEN @ + 1 ELSE @]
                /\ pass' = [pass EXCEPT ![w].pc = "claimed", ![w].d = d,
                                        ![w].row = claimed]

\* The request leaves for the target resolved before the claim.
Send(w) ==
  /\ pass[w].pc = "claimed"
  /\ sent' = [sent EXCEPT ![pass[w].d] = @ \cup {pass[w].targets[HookOf(pass[w].d)]}]
  /\ pass' = [pass EXCEPT ![w].pc = "sending"]
  /\ UNCHANGED <<hook, event, row, view, confirmed, late, lapses, bounds>>

Answer(w) ==
  /\ pass[w].pc = "sending"
  /\ \E answer \in Answers :
       pass' = [pass EXCEPT ![w].pc = "answered", ![w].answer = answer]
  /\ UNCHANGED <<hook, event, row, view, histories, bounds>>

ExhaustedLate(attempts) == attempts > MaxAttempts   \* mutant: one too many
Exhausted(attempts) == attempts >= MaxAttempts

Backoff(attempts) ==
  LET doubled == BaseRetry * 2 ^ (attempts - 1)
  IN  IF doubled \in 0 .. MaxRetry THEN doubled ELSE MaxRetry

\* The row after an answer, computed from the row as it was claimed.
Concluded(r, answer) ==
  CASE answer = "ok" -> [r EXCEPT !.status = "delivered"]
    [] answer = "refused" \/ Exhausted(r.attempts) ->
         [r EXCEPT !.status = "dead-letter"]
    [] OTHER -> [r EXCEPT !.status = "retry", !.due = Backoff(r.attempts)]

\* update_delivery rewrites the whole row, whoever has claimed it since.
RecordAnswer(w) ==
  /\ pass[w].pc = "answered"
  /\ LET d == pass[w].d
         concluded == Concluded(pass[w].row, pass[w].answer)
     IN /\ row' = [row EXCEPT ![d] = [concluded EXCEPT !.lease = 0,
                                        !.stamp = row[d].stamp + 1]]
        /\ confirmed' = IF concluded.status = "delivered"
                          THEN confirmed \cup {d} ELSE confirmed
        /\ late' = IF row[d].stamp # pass[w].row.stamp THEN late \cup {d} ELSE late
  /\ pass' = [pass EXCEPT ![w] = Idle(w)]
  /\ UNCHANGED <<hook, event, view, sent, lapses, bounds>>

Crash(w) ==
  /\ pass[w].pc \notin {"idle", "resolved"}
  /\ faults < MaxFaults
  /\ pass' = [pass EXCEPT ![w] = Idle(w)]
  /\ faults' = faults + 1
  /\ UNCHANGED <<hook, event, row, view, histories, edits, recoveries>>

-----------------------------------------------------------------------------
(* The operator's recovery, against the state the operator inspected.      *)

Inspect(d) ==
  /\ recoveries < MaxRecoveries
  /\ row[d].status \in {"delivering", "dead-letter"}
  /\ view' = [d |-> d, status |-> row[d].status, stamp |-> row[d].stamp]
  /\ view' # view
  /\ UNCHANGED <<hook, event, row, pass, histories, bounds>>

StillThere == row[view.d].status # "absent"     \* mutant: any state will do

\* _verify_current and the guard repeated inside the update.
StillAsInspected ==
  row[view.d].status = view.status /\ row[view.d].stamp = view.stamp

Recover(r) ==
  /\ recoveries < MaxRecoveries
  /\ recoveries' = recoveries + 1
  /\ StillAsInspected
  /\ row' = [row EXCEPT ![view.d] = [r EXCEPT !.status = "pending", !.due = 0,
                                       !.stamp = @ + 1]]
  /\ view' = NoView
  /\ UNCHANGED <<hook, event, pass, sent, confirmed, late, faults, edits>>

\* Attempts start again.
RequeueDeadLetter ==
  /\ view.status = "dead-letter"
  /\ Recover([row[view.d] EXCEPT !.attempts = 0])
  /\ lapses' = [lapses EXCEPT ![view.d] = 0]

\* Attempts are kept.
ResolveStale ==
  /\ view.status = "delivering" /\ row[view.d].lease = 0
  /\ Recover(row[view.d])
  /\ lapses' = [lapses EXCEPT ![view.d] = @ + 1]

-----------------------------------------------------------------------------

\* A publication disables, enables or redirects a Webhook.
EditHook(h) ==
  /\ edits < MaxEdits
  /\ edits' = edits + 1
  /\ \E definition \in [enabled : BOOLEAN, digest : Digests] :
       definition # hook[h] /\ hook' = [hook EXCEPT ![h] = definition]
  /\ UNCHANGED <<event, row, pass, view, histories, faults, recoveries>>

Less(n) == IF n = 0 THEN 0 ELSE n - 1

\* Only a fault lets the lease of a working Worker run out.
Runaway == \E w \in Workers :
  /\ pass[w].pc \in {"claimed", "sending", "answered"}
  /\ row[pass[w].d].stamp = pass[w].row.stamp
  /\ row[pass[w].d].lease = 1

Tick ==
  /\ \E d \in Deliveries : row[d].due + row[d].lease > 0
  /\ row' = [d \in Deliveries |->
               [row[d] EXCEPT !.due = Less(@), !.lease = Less(@)]]
  /\ IF Runaway THEN faults < MaxFaults /\ faults' = faults + 1
                ELSE faults' = faults
  /\ UNCHANGED <<hook, event, pass, view, histories, edits, recoveries>>

Delivers(w) ==
  \/ ResolveTargets(w) \/ ClaimDelivery(w) \/ Send(w) \/ Answer(w)
  \/ RecordAnswer(w)

Announces(e) ==
  \/ ResolveSubscribers(e) \/ Announced(e)
  \/ \E h \in Hooks : CreateDelivery(e, h)

Next ==
  \/ \E e \in Events : SettleTask(e) \/ Announces(e) \/ PublisherFails(e)
  \/ \E w \in Workers : Delivers(w) \/ Crash(w)
  \/ \E d \in Deliveries : Inspect(d)
  \/ RequeueDeadLetter \/ ResolveStale
  \/ \E h \in Hooks : EditHook(h)
  \/ Tick

Spec == Init /\ [][Next]_vars

\* The resident Workers poll and their requests time out; a publisher that
\* has not failed goes on; time passes.
FairSpec ==
  /\ Spec
  /\ \A w \in Workers : WF_vars(Delivers(w))
  /\ \A e \in Events : WF_vars(Announces(e))
  /\ WF_vars(Tick)

-----------------------------------------------------------------------------

Row == [status : Statuses, attempts : Nat, due : Nat, lease : Nat,
        digest : Digests \cup {"none"}, stamp : Nat]

Targets == [Hooks -> Digests \cup {"none"}]

Announcements == [pc : {"running", "settled", "publishing", "announced",
                        "lost"}, todo : Targets]
Passes == [pc : {"idle", "resolved", "claimed", "sending", "answered"},
           targets : Targets, d : Deliveries, row : Row,
           answer : Answers \cup {"none"}]
Views  == [d : Deliveries, status : Statuses \cup {"none"}, stamp : Nat]

\* The shape of the rows, of what announces and delivers them, and of the
\* histories.
OutboxTypeOK ==
  /\ hook \in [Hooks -> [enabled : BOOLEAN, digest : Digests]]
  /\ event \in [Events -> Announcements]
  /\ row \in [Deliveries -> Row]
  /\ pass \in [Workers -> Passes]
  /\ view \in Views
  /\ sent \in [Deliveries -> SUBSET (Digests \cup {"none"})]
  /\ confirmed \subseteq Deliveries /\ late \subseteq Deliveries
  /\ lapses \in [Deliveries -> Nat]

\* "never retargeting": every request of a delivery goes to the recipient
\* and signing identity it was created for, although Webhooks are redirected
\* between its creation, its retries, its requeue and the claim's own read.
NeverRetargeted == \A d \in Deliveries : sent[d] \subseteq {row[d].digest}

\* A delivery the receiver has confirmed stays delivered: no reclaim, no
\* operator acting on an older view returns it to the queue.  The exception
\* the code has is recorded by "late": update_delivery compares nothing, so a
\* Worker past its lease overwrites what came after it.
DeliveredIsFinalUnlessLate ==
  \A d \in confirmed \ late : row[d].status = "delivered"

\* A delivery is attempted MaxAttempts times in a round, and once more for
\* every lease that ran out: neither crashes nor recoveries of a stale claim
\* make the retries endless.  A late Worker may bring an older count back.
AttemptsAreBoundedUnlessLate ==
  \A d \in Deliveries \ late : row[d].attempts <= MaxAttempts + lapses[d]

\* Every delivery whose target stays published comes to rest, whichever
\* Worker dies holding it.
Converges ==
  \A d \in Deliveries :
    <>[](\/ row[d].status \in {"absent", "delivered", "dead-letter"}
         \/ ~hook[HookOf(d)].enabled \/ hook[HookOf(d)].digest # row[d].digest)

=============================================================================
