----------------------------- MODULE OutboxProofs -----------------------------
(***************************************************************************)
(* The three promises of the outbox for every number of events, Webhooks,  *)
(* recipients and Workers and every backoff, lease and bound.              *)
(*                                                                         *)
(* They rest on what a Worker holds between its claim and its record       *)
(* (Holding): the row it copied still names the same recipient, and as     *)
(* long as nobody has written the row since (equal stamps) the row is      *)
(* still being delivered with the attempts the Worker counted.             *)
(***************************************************************************)
EXTENDS Outbox, TLAPS

Working(w) == pass[w].pc \in {"claimed", "sending", "answered"}

Holding(w) ==
  Working(w) =>
    LET d == pass[w].d IN
      /\ row[d].status # "absent"
      /\ pass[w].row.digest = row[d].digest
      /\ pass[w].row.stamp <= row[d].stamp
      /\ pass[w].pc = "claimed" => pass[w].targets[HookOf(d)] = row[d].digest
      /\ pass[w].row.stamp = row[d].stamp
           => /\ row[d].status = "delivering"
              /\ row[d].attempts = pass[w].row.attempts

\* What holds of one delivery; a row that waits for its next attempt still
\* has one.
Sound(d) ==
  /\ row[d].status = "absent" => sent[d] = {}
  /\ sent[d] \subseteq {row[d].digest}
  /\ d \in confirmed /\ d \notin late => row[d].status = "delivered"
  /\ d \notin late =>
       /\ row[d].attempts <= MaxAttempts + lapses[d]
       /\ row[d].status \in {"pending", "retry"}
            => row[d].attempts < MaxAttempts + lapses[d]

OutboxInv ==
  /\ OutboxTypeOK
  /\ \A w \in Workers : Holding(w)
  /\ \A d \in Deliveries : Sound(d)

-----------------------------------------------------------------------------
(* Types.                                                                  *)

LEMMA AbsentIsRow == Absent \in Row /\ NoTargets \in Targets
BY DEF Absent, NoTargets, Row, Targets, Statuses

LEMMA DeliveryExists == (CHOOSE d \in Deliveries : TRUE) \in Deliveries
<1>1. \E d \in Deliveries : TRUE
  <2>1. PICK e \in Events : TRUE
    BY OutboxAssumption
  <2>2. PICK h \in Hooks : TRUE
    BY OutboxAssumption
  <2>3. <<e, h>> \in Deliveries
    BY DEF Deliveries
  <2> QED
    BY <2>3
<1> QED
  BY <1>1

\* A backoff is a number of ticks, whatever the doubling yields.
LEMMA BackoffType == \A n : Backoff(n) \in Nat
BY OutboxAssumption DEF Backoff

LEMMA ConcludedType ==
  ASSUME NEW r \in Row, NEW answer
  PROVE  Concluded(r, answer) \in Row
BY BackoffType DEF Concluded, Row, Statuses

LEMMA IdleType == \A w : Idle(w) \in Passes
BY AbsentIsRow, DeliveryExists DEF Idle, Passes

LEMMA NoViewType == NoView \in Views
BY DeliveryExists DEF NoView, Views

LEMMA SubscribersType ==
  OutboxTypeOK =>
    [h \in Hooks |-> IF hook[h].enabled THEN hook[h].digest ELSE "none"] \in Targets
BY DEF OutboxTypeOK, Targets

LEMMA InitTyped == Init => OutboxTypeOK
<1> SUFFICES ASSUME Init PROVE OutboxTypeOK
  OBVIOUS
<1>1. hook \in [Hooks -> [enabled : BOOLEAN, digest : Digests]]
  BY DEF Init
<1>2. [pc |-> "running", todo |-> NoTargets] \in Announcements
  BY AbsentIsRow DEF Announcements
<1>3. event \in [Events -> Announcements]
  BY <1>2 DEF Init
<1>4. row \in [Deliveries -> Row]
  BY AbsentIsRow DEF Init
<1>5. pass \in [Workers -> Passes] /\ view \in Views
  BY IdleType, NoViewType DEF Init
<1>6. /\ sent \in [Deliveries -> SUBSET (Digests \cup {"none"})]
      /\ confirmed \subseteq Deliveries /\ late \subseteq Deliveries
      /\ lapses \in [Deliveries -> Nat]
  BY DEF Init
<1> QED
  BY <1>1, <1>3, <1>4, <1>5, <1>6 DEF OutboxTypeOK

(* Announcing.                                                             *)
LEMMA AnnouncingTyped ==
  ASSUME OutboxTypeOK, NEW e \in Events,
         SettleTask(e) \/ Announces(e) \/ PublisherFails(e)
  PROVE  OutboxTypeOK'
<1> USE DEF OutboxTypeOK
<1>1. ASSUME NEW a \in Announcements, event' = [event EXCEPT ![e] = a],
             UNCHANGED <<hook, row, pass, view, histories>>
      PROVE  OutboxTypeOK'
  BY <1>1 DEF histories
<1>2. CASE SettleTask(e)
  <2>1. [event[e] EXCEPT !.pc = "settled"] \in Announcements
    BY DEF Announcements
  <2> QED
    BY <1>1, <1>2, <2>1 DEF SettleTask
<1>3. CASE ResolveSubscribers(e)
  BY <1>1, <1>3, SubscribersType DEF ResolveSubscribers, Announcements
<1>4. CASE Announced(e)
  <2>1. [event[e] EXCEPT !.pc = "announced"] \in Announcements
    BY DEF Announcements
  <2> QED
    BY <1>1, <1>4, <2>1 DEF Announced
<1>5. CASE PublisherFails(e)
  <2>1. [pc |-> "lost", todo |-> NoTargets] \in Announcements
    BY AbsentIsRow DEF Announcements
  <2> QED
    BY <1>1, <1>5, <2>1 DEF PublisherFails
<1>6. ASSUME NEW h \in Hooks, CreateDelivery(e, h) PROVE OutboxTypeOK'
  <2>1. <<e, h>> \in Deliveries
    BY DEF Deliveries
  <2>2. event[e].todo \in Targets
    BY DEF Announcements
  <2>3. event[e].todo[h] \in Digests \cup {"none"}
    BY <2>2 DEF Targets
  <2>4. [Absent EXCEPT !.status = "pending", !.digest = event[e].todo[h]] \in Row
    BY <2>3, AbsentIsRow DEF Row, Statuses
  <2>5. row' \in [Deliveries -> Row]
    BY <1>6, <2>1, <2>4 DEF CreateDelivery
  <2>6. [event[e].todo EXCEPT ![h] = "none"] \in Targets
    BY <2>2 DEF Targets
  <2>7. [event[e] EXCEPT !.todo = [event[e].todo EXCEPT ![h] = "none"]]
          \in Announcements
    BY <2>6 DEF Announcements
  <2>8. event' = [event EXCEPT ![e] =
          [event[e] EXCEPT !.todo = [event[e].todo EXCEPT ![h] = "none"]]]
    BY <1>6 DEF CreateDelivery
  <2>9. event' \in [Events -> Announcements]
    BY <2>7, <2>8
  <2> QED
    BY <1>6, <2>5, <2>9 DEF CreateDelivery, histories
<1> QED
  BY <1>2, <1>3, <1>4, <1>5, <1>6 DEF Announces

(* Delivering.                                                             *)
LEMMA DeliveringTyped ==
  ASSUME OutboxTypeOK, NEW w \in Workers, Delivers(w) \/ Crash(w)
  PROVE  OutboxTypeOK'
<1> USE DEF OutboxTypeOK
<1>1. ASSUME NEW p \in Passes, pass' = [pass EXCEPT ![w] = p],
             UNCHANGED <<hook, event, row, view, histories>>
      PROVE  OutboxTypeOK'
  BY <1>1 DEF histories
<1>2. CASE ResolveTargets(w)
  <2> DEFINE now == [h \in Hooks |-> IF hook[h].enabled THEN hook[h].digest
                                                        ELSE "none"]
  <2>1. now \in Targets
    BY SubscribersType
  <2>2. [pass[w] EXCEPT !.pc = "resolved", !.targets = now] \in Passes
    BY <2>1 DEF Passes
  <2>3. pass' = [pass EXCEPT ![w] = [pass[w] EXCEPT !.pc = "resolved",
                                                    !.targets = now]]
    BY <1>2 DEF ResolveTargets
  <2> QED
    BY <1>1, <1>2, <2>2, <2>3 DEF ResolveTargets
<1>3. CASE ClaimDelivery(w)
  <2>1. CASE pass' = [pass EXCEPT ![w] = Idle(w)] /\ UNCHANGED <<row, lapses>>
    BY <1>1, <1>3, <2>1, IdleType DEF ClaimDelivery, histories
  <2>2. ASSUME NEW d \in Deliveries, NEW claimed,
               claimed = [row[d] EXCEPT !.status = "delivering", !.lease = Lease,
                            !.attempts = @ + 1, !.stamp = @ + 1],
               row' = [row EXCEPT ![d] = claimed],
               lapses' = [lapses EXCEPT ![d] =
                 IF row[d].status = "delivering" THEN @ + 1 ELSE @],
               pass' = [pass EXCEPT ![w].pc = "claimed", ![w].d = d,
                                    ![w].row = claimed]
        PROVE  OutboxTypeOK'
    <3>0. /\ row[d].attempts + 1 \in Nat /\ row[d].stamp + 1 \in Nat
          /\ Lease \in Nat /\ row[d] \in Row
      BY OutboxAssumption DEF Row
    <3>1. claimed \in Row
      BY <2>2, <3>0 DEF Row, Statuses
    <3>2. [pass[w] EXCEPT !.pc = "claimed", !.d = d, !.row = claimed] \in Passes
      BY <3>1 DEF Passes
    <3>3. pass' = [pass EXCEPT ![w] =
            [pass[w] EXCEPT !.pc = "claimed", !.d = d, !.row = claimed]]
      BY <2>2
    <3>4. pass' \in [Workers -> Passes] /\ row' \in [Deliveries -> Row]
      BY <2>2, <3>1, <3>2, <3>3
    <3>5. lapses' \in [Deliveries -> Nat]
      BY <2>2
    <3> QED
      BY <1>3, <3>4, <3>5 DEF ClaimDelivery
  <2> QED
    BY <1>3, <2>1, <2>2 DEF ClaimDelivery
<1>4. CASE Send(w)
  <2>1. pass[w].d \in Deliveries /\ pass[w].targets \in Targets
    BY DEF Passes
  <2>2. HookOf(pass[w].d) \in Hooks
    BY <2>1 DEF Deliveries, HookOf
  <2>3. pass[w].targets[HookOf(pass[w].d)] \in Digests \cup {"none"}
    BY <2>1, <2>2 DEF Targets
  <2>4. [pass[w] EXCEPT !.pc = "sending"] \in Passes
    BY DEF Passes
  <2>5. pass' \in [Workers -> Passes]
    BY <1>4, <2>4 DEF Send
  <2>6. sent' \in [Deliveries -> SUBSET (Digests \cup {"none"})]
    BY <1>4, <2>1, <2>3 DEF Send
  <2> QED
    BY <1>4, <2>1, <2>5, <2>6 DEF Send
<1>5. CASE Answer(w)
  <2>1. PICK a \in Answers :
          pass' = [pass EXCEPT ![w].pc = "answered", ![w].answer = a]
    BY <1>5 DEF Answer
  <2>2. [pass[w] EXCEPT !.pc = "answered", !.answer = a] \in Passes
    BY DEF Passes
  <2> QED
    BY <1>1, <1>5, <2>1, <2>2 DEF Answer
<1>6. CASE RecordAnswer(w)
  <2> DEFINE d == pass[w].d
             c == Concluded(pass[w].row, pass[w].answer)
             r == [c EXCEPT !.lease = 0, !.stamp = row[d].stamp + 1]
  <2>1. d \in Deliveries /\ pass[w].row \in Row
    BY DEF Passes
  <2>2. c \in Row
    BY <2>1, ConcludedType
  <2>3. row[d].stamp \in Nat
    BY <2>1 DEF Row
  <2> HIDE DEF c
  <2>4. r \in Row
    <3>1. row[d].stamp + 1 \in Nat
      BY <2>3
    <3> QED
      BY <2>2, <3>1 DEF Row
  <2>5. row' = [row EXCEPT ![d] = r] /\ pass' = [pass EXCEPT ![w] = Idle(w)]
    BY <1>6 DEF RecordAnswer, c
  <2>6. row' \in [Deliveries -> Row] /\ pass' \in [Workers -> Passes]
    BY <2>1, <2>4, <2>5, IdleType
  <2>7. confirmed' \subseteq Deliveries /\ late' \subseteq Deliveries
    BY <1>6, <2>1 DEF RecordAnswer
  <2> QED
    BY <1>6, <2>6, <2>7 DEF RecordAnswer
<1>7. CASE Crash(w)
  BY <1>1, <1>7, IdleType DEF Crash
<1> QED
  BY <1>2, <1>3, <1>4, <1>5, <1>6, <1>7 DEF Delivers

LEMMA TypedStep == OutboxTypeOK /\ [Next]_vars => OutboxTypeOK'
<1> SUFFICES ASSUME OutboxTypeOK, [Next]_vars PROVE OutboxTypeOK'
  OBVIOUS
<1> USE DEF OutboxTypeOK
<1>1. ASSUME NEW d \in Deliveries, Inspect(d) PROVE OutboxTypeOK'
  <2>1. [d |-> d, status |-> row[d].status, stamp |-> row[d].stamp] \in Views
    BY DEF Row, Views
  <2> QED
    BY <1>1, <2>1 DEF Inspect, histories
<1>2. view.d \in Deliveries
  BY DEF Views
<1>3. ASSUME NEW r \in Row, Recover(r), lapses' \in [Deliveries -> Nat]
      PROVE  OutboxTypeOK'
  <2>0. r.stamp + 1 \in Nat
    BY DEF Row
  <2>1. [r EXCEPT !.status = "pending", !.due = 0, !.stamp = @ + 1] \in Row
    BY <2>0 DEF Row, Statuses
  <2> QED
    BY <1>3, <2>1, NoViewType DEF Recover
<1>4. CASE RequeueDeadLetter
  <2>1. [row[view.d] EXCEPT !.attempts = 0] \in Row
    BY <1>2 DEF Row
  <2> QED
    BY <1>3, <1>4, <2>1 DEF RequeueDeadLetter
<1>5. CASE ResolveStale
  BY <1>2, <1>3, <1>5 DEF ResolveStale
<1>6. ASSUME NEW h \in Hooks, EditHook(h) PROVE OutboxTypeOK'
  BY <1>6 DEF EditHook, histories
<1>7. CASE Tick
  <2>0. \A n \in Nat : Less(n) \in Nat
    BY DEF Less
  <2>1. \A d \in Deliveries :
          [row[d] EXCEPT !.due = Less(@), !.lease = Less(@)] \in Row
    BY <2>0 DEF Row
  <2> QED
    BY <1>7, <2>1 DEF Tick, histories
<1>8. CASE UNCHANGED vars
  BY <1>8 DEF vars, histories
<1> QED
  BY <1>1, <1>4, <1>5, <1>6, <1>7, <1>8, AnnouncingTyped, DeliveringTyped DEF Next

-----------------------------------------------------------------------------
(* Steps.                                                                  *)

LEMMA InitSound == Init => OutboxInv
<1> SUFFICES ASSUME Init PROVE OutboxInv
  OBVIOUS
<1>1. ASSUME NEW w \in Workers PROVE Holding(w)
  BY DEF Init, Idle, Holding, Working
<1>2. ASSUME NEW d \in Deliveries PROVE Sound(d)
  BY OutboxAssumption DEF Init, Absent, Sound
<1> QED
  BY <1>1, <1>2, InitTyped DEF OutboxInv

\* A delivery nothing touches stays sound.
LEMMA UntouchedDelivery ==
  ASSUME NEW d \in Deliveries, Sound(d),
         row'[d] = row[d], sent'[d] = sent[d], lapses'[d] = lapses[d],
         d \in confirmed' <=> d \in confirmed, d \in late' <=> d \in late
  PROVE  Sound(d)'
BY DEF Sound

\* A Worker nothing touches keeps what it holds when another one's row, or
\* its own row under a later stamp, is rewritten for the same recipient.
LEMMA UntouchedWorker ==
  ASSUME OutboxTypeOK, NEW w \in Workers, Holding(w), pass'[w] = pass[w],
         NEW d \in Deliveries, NEW r \in Row, row' = [row EXCEPT ![d] = r],
         r.status # "absent",
         row[d].status # "absent" =>
           r.digest = row[d].digest /\ r.stamp = row[d].stamp + 1
  PROVE  Holding(w)'
<1> SUFFICES ASSUME Working(w)' PROVE Holding(w)'
  BY DEF Holding
<1>1. Working(w) /\ pass[w].d \in Deliveries /\ pass[w].row \in Row
  BY DEF Working, OutboxTypeOK, Passes
<1>2. CASE pass[w].d # d
  BY <1>1, <1>2 DEF Holding, Working, OutboxTypeOK
<1>3. CASE pass[w].d = d
  <2>1. /\ row[d].status # "absent" /\ pass[w].row.digest = row[d].digest
        /\ pass[w].row.stamp <= row[d].stamp
        /\ pass[w].pc = "claimed" => pass[w].targets[HookOf(d)] = row[d].digest
    BY <1>1, <1>3 DEF Holding
  <2>2. row'[d] = r
    BY DEF OutboxTypeOK
  <2>3. pass[w].row.stamp \in Nat /\ row[d].stamp \in Nat
    BY <1>1 DEF OutboxTypeOK, Row
  <2>4. pass[w].row.stamp <= r.stamp /\ pass[w].row.stamp # r.stamp
    BY <2>1, <2>3
  <2> QED
    BY <1>3, <2>1, <2>2, <2>4 DEF Holding
<1> QED
  BY <1>2, <1>3

(* Steps that leave the rows and the histories alone.                      *)
LEMMA QuietStep ==
  ASSUME OutboxInv, UNCHANGED <<row, histories>>,
         \A w \in Workers : Holding(w)'
  PROVE  \A d \in Deliveries : Sound(d)'
BY UntouchedDelivery DEF OutboxInv, histories

\* One delivery is rewritten, the Workers' passes stay.
LEMMA RewriteStep ==
  ASSUME OutboxInv, NEW d \in Deliveries, NEW r \in Row,
         row' = [row EXCEPT ![d] = r], UNCHANGED <<pass, sent, confirmed, late>>,
         r.status # "absent",
         row[d].status # "absent" =>
           r.digest = row[d].digest /\ r.stamp = row[d].stamp + 1,
         \A x \in Deliveries : x # d => lapses'[x] = lapses[x],
         Sound(d)'
  PROVE  /\ \A w \in Workers : Holding(w)'
         /\ \A x \in Deliveries : Sound(x)'
<1>1. ASSUME NEW w \in Workers PROVE Holding(w)'
  BY UntouchedWorker DEF OutboxInv
<1>2. ASSUME NEW x \in Deliveries, x # d PROVE Sound(x)'
  <2>1. row'[x] = row[x]
    BY <1>2 DEF OutboxInv, OutboxTypeOK
  <2> QED
    BY <1>2, <2>1, UntouchedDelivery DEF OutboxInv
<1> QED
  BY <1>1, <1>2

LEMMA CreateStep ==
  ASSUME OutboxInv, NEW e \in Events, NEW h \in Hooks, CreateDelivery(e, h)
  PROVE  /\ \A w \in Workers : Holding(w)'
         /\ \A d \in Deliveries : Sound(d)'
<1> DEFINE d == <<e, h>>
           r == [Absent EXCEPT !.status = "pending", !.digest = event[e].todo[h]]
<1>1. d \in Deliveries
  BY DEF Deliveries
<1>2. CASE row[d].status # "absent"
  <2>1. UNCHANGED <<row, pass, histories>>
    BY <1>2 DEF CreateDelivery
  <2>2. \A w \in Workers : Holding(w)'
    BY <2>1 DEF OutboxInv, Holding, Working
  <2> QED
    BY <2>1, <2>2, QuietStep
<1>3. CASE row[d].status = "absent"
  <2>1. event[e].todo[h] \in Digests \cup {"none"}
    BY DEF OutboxInv, OutboxTypeOK, Announcements, Targets
  <2>2. r \in Row /\ r.status = "pending" /\ r.attempts = 0
    BY <2>1, AbsentIsRow DEF Row, Statuses, Absent
  <2>3. row' = [row EXCEPT ![d] = r] /\ UNCHANGED <<pass, histories>>
    BY <1>3 DEF CreateDelivery
  <2>4. row'[d] = r /\ sent[d] = {} /\ lapses[d] \in Nat
    BY <1>1, <1>3, <2>3 DEF OutboxInv, OutboxTypeOK, Sound
  <2>5. d \in confirmed => d \in late
    BY <1>1, <1>3 DEF OutboxInv, Sound
  <2>6. 0 < MaxAttempts + lapses[d]
    BY <2>4, OutboxAssumption
  <2> HIDE DEF d, r
  <2>7. /\ UNCHANGED <<pass, sent, confirmed, late, lapses>>
        /\ \A x \in Deliveries : x # d => lapses'[x] = lapses[x]
    BY <2>3 DEF histories
  <2>8. Sound(d)'
    <3>1. row'[d].status = "pending" /\ row'[d].attempts = 0
      BY <2>2, <2>4
    <3>2. sent'[d] = {} /\ lapses'[d] = lapses[d]
      BY <2>4, <2>7
    <3>3. d \in confirmed' => d \in late'
      BY <2>5, <2>7
    <3>4. 0 <= MaxAttempts + lapses[d]
      BY <2>4, OutboxAssumption
    <3> QED
      BY <2>6, <3>1, <3>2, <3>3, <3>4 DEF Sound
  <2> QED
    BY <1>1, <1>3, <2>2, <2>3, <2>7, <2>8, RewriteStep
<1> QED
  BY <1>2, <1>3

(* A Worker's own steps.                                                   *)
LEMMA ClaimStep ==
  ASSUME OutboxInv, NEW w \in Workers, ClaimDelivery(w)
  PROVE  /\ \A v \in Workers : Holding(v)'
         /\ \A d \in Deliveries : Sound(d)'
<1>1. CASE pass' = [pass EXCEPT ![w] = Idle(w)] /\ UNCHANGED <<row, lapses>>
  <2>1. \A v \in Workers : Holding(v)'
    BY <1>1 DEF OutboxInv, OutboxTypeOK, Holding, Working, Idle
  <2> QED
    BY <1>1, <2>1, QuietStep DEF ClaimDelivery, histories
<1>2. ASSUME NEW d \in Deliveries, Due(row[d]), Matches(d, pass[w].targets),
             row' = [row EXCEPT ![d] =
               [row[d] EXCEPT !.status = "delivering", !.lease = Lease,
                  !.attempts = @ + 1, !.stamp = @ + 1]],
             lapses' = [lapses EXCEPT ![d] =
               IF row[d].status = "delivering" THEN @ + 1 ELSE @],
             pass' = [pass EXCEPT ![w].pc = "claimed", ![w].d = d,
                        ![w].row = [row[d] EXCEPT !.status = "delivering",
                          !.lease = Lease, !.attempts = @ + 1, !.stamp = @ + 1]],
             UNCHANGED <<sent, confirmed, late>>
      PROVE  /\ \A v \in Workers : Holding(v)'
             /\ \A x \in Deliveries : Sound(x)'
  <2> DEFINE r == [row[d] EXCEPT !.status = "delivering", !.lease = Lease,
                     !.attempts = @ + 1, !.stamp = @ + 1]
  <2>1. /\ row[d] \in Row /\ row[d].attempts \in Nat /\ row[d].stamp \in Nat
        /\ lapses[d] \in Nat /\ Lease \in Nat
    BY OutboxAssumption DEF OutboxInv, OutboxTypeOK, Row
  <2>2. /\ r.status = "delivering" /\ r.attempts = row[d].attempts + 1
        /\ r.stamp = row[d].stamp + 1 /\ r.digest = row[d].digest
    BY <2>1 DEF Row
  <2>3. row[d].attempts + 1 \in Nat /\ row[d].stamp + 1 \in Nat
    BY <2>1
  <2>4. r \in Row
    BY <2>1, <2>3 DEF Row, Statuses
  <2>5. row[d].status # "absent" /\ row[d].status # "delivered"
    BY <1>2 DEF Due
  <2>6. row'[d] = r /\ row' = [row EXCEPT ![d] = r]
    BY <1>2 DEF OutboxInv, OutboxTypeOK
  <2> HIDE DEF r
  <2>7. \A v \in Workers : v # w => Holding(v)'
    <3> SUFFICES ASSUME NEW v \in Workers, v # w PROVE Holding(v)'
      OBVIOUS
    <3>1. pass'[v] = pass[v]
      BY <1>2 DEF OutboxInv, OutboxTypeOK
    <3>2. r.status # "absent"
      BY <2>2
    <3> QED
      BY <2>2, <2>4, <2>6, <3>1, <3>2, UntouchedWorker DEF OutboxInv
  <2>8. Holding(w)'
    <3>1. /\ pass'[w].pc = "claimed" /\ pass'[w].d = d /\ pass'[w].row = r
          /\ pass'[w].targets = pass[w].targets
      BY <1>2 DEF OutboxInv, OutboxTypeOK, Passes, r
    <3>2. pass[w].targets[HookOf(d)] = row[d].digest
      BY <1>2 DEF Matches
    <3>3. r.stamp <= r.stamp
      BY <2>1, <2>2
    <3> QED
      BY <2>2, <2>6, <3>1, <3>2, <3>3 DEF Holding
  <2>9. Sound(d)'
    <3>1. /\ sent[d] \subseteq {row[d].digest}
          /\ d \in confirmed => d \in late
          /\ d \notin late => row[d].attempts <= MaxAttempts + lapses[d]
          /\ d \notin late /\ row[d].status \in {"pending", "retry"}
               => row[d].attempts < MaxAttempts + lapses[d]
      BY <2>5 DEF OutboxInv, Sound
    <3>2. lapses'[d] = IF row[d].status = "delivering" THEN lapses[d] + 1
                                                      ELSE lapses[d]
      BY <1>2 DEF OutboxInv, OutboxTypeOK
    <3>3. row[d].status = "delivering" \/ row[d].status \in {"pending", "retry"}
      BY <1>2 DEF Due
    <3>4. d \notin late => r.attempts <= MaxAttempts + lapses'[d]
      BY <2>1, <2>2, <3>1, <3>2, <3>3, OutboxAssumption
    <3> QED
      BY <1>2, <2>2, <2>6, <3>1, <3>4 DEF Sound
  <2>10. \A x \in Deliveries : x # d => Sound(x)'
    <3> SUFFICES ASSUME NEW x \in Deliveries, x # d PROVE Sound(x)'
      OBVIOUS
    <3>1. row'[x] = row[x] /\ lapses'[x] = lapses[x]
      BY <1>2, <2>6 DEF OutboxInv, OutboxTypeOK
    <3> QED
      BY <1>2, <3>1, UntouchedDelivery DEF OutboxInv
  <2> QED
    BY <2>7, <2>8, <2>9, <2>10
<1> QED
  BY <1>1, <1>2 DEF ClaimDelivery

\* The pass of one Worker moves on within its claim, or ends.
LEMMA PassStep ==
  ASSUME OutboxInv, NEW w \in Workers, NEW p, pass' = [pass EXCEPT ![w] = p],
         row' = row,
         p.pc \in {"claimed", "sending", "answered"} =>
           /\ p.pc # "claimed" /\ Working(w)
           /\ p.d = pass[w].d /\ p.row = pass[w].row
  PROVE  \A v \in Workers : Holding(v)'
<1> SUFFICES ASSUME NEW v \in Workers, Working(v)' PROVE Holding(v)'
  BY DEF Holding
<1>1. CASE v # w
  <2>1. pass'[v] = pass[v]
    BY <1>1 DEF OutboxInv, OutboxTypeOK
  <2> QED
    BY <2>1 DEF OutboxInv, Holding, Working
<1>2. CASE v = w
  <2>1. pass'[w] = p
    BY DEF OutboxInv, OutboxTypeOK
  <2>2. /\ p.pc # "claimed" /\ Working(w)
        /\ p.d = pass[w].d /\ p.row = pass[w].row
    BY <1>2, <2>1 DEF Working
  <2>3. Holding(w)
    BY DEF OutboxInv
  <2> QED
    BY <1>2, <2>1, <2>2, <2>3 DEF Holding
<1> QED
  BY <1>1, <1>2

LEMMA PassOnlyStep ==
  ASSUME OutboxInv, NEW w \in Workers, ResolveTargets(w) \/ Answer(w) \/ Crash(w)
  PROVE  /\ \A v \in Workers : Holding(v)'
         /\ \A d \in Deliveries : Sound(d)'
<1>1. CASE ResolveTargets(w)
  <2> DEFINE now == [h \in Hooks |-> IF hook[h].enabled THEN hook[h].digest
                                                        ELSE "none"]
             p == [pass[w] EXCEPT !.pc = "resolved", !.targets = now]
  <2>1. pass' = [pass EXCEPT ![w] = p] /\ UNCHANGED <<row, histories>>
    BY <1>1 DEF ResolveTargets
  <2>2. p.pc = "resolved"
    BY DEF OutboxInv, OutboxTypeOK, Passes
  <2> HIDE DEF p
  <2>3. \A v \in Workers : Holding(v)'
    BY <2>1, <2>2, PassStep
  <2> QED
    BY <2>1, <2>3, QuietStep
<1>2. CASE Answer(w)
  <2>1. PICK a \in Answers :
          pass' = [pass EXCEPT ![w].pc = "answered", ![w].answer = a]
    BY <1>2 DEF Answer
  <2> DEFINE p == [pass[w] EXCEPT !.pc = "answered", !.answer = a]
  <2>2. pass' = [pass EXCEPT ![w] = p]
    BY <2>1
  <2>3. Working(w) /\ UNCHANGED <<row, histories>>
    BY <1>2 DEF Answer, Working
  <2>4. p.pc = "answered" /\ p.d = pass[w].d /\ p.row = pass[w].row
    BY DEF OutboxInv, OutboxTypeOK, Passes
  <2> HIDE DEF p
  <2>5. \A v \in Workers : Holding(v)'
    BY <2>2, <2>3, <2>4, PassStep
  <2> QED
    BY <2>3, <2>5, QuietStep
<1>3. CASE Crash(w)
  <2>1. pass' = [pass EXCEPT ![w] = Idle(w)] /\ UNCHANGED <<row, histories>>
    BY <1>3 DEF Crash
  <2>2. Idle(w).pc = "idle"
    BY DEF Idle
  <2>3. \A v \in Workers : Holding(v)'
    BY <2>1, <2>2, PassStep
  <2> QED
    BY <2>1, <2>3, QuietStep
<1> QED
  BY <1>1, <1>2, <1>3

LEMMA SendStep ==
  ASSUME OutboxInv, NEW w \in Workers, Send(w)
  PROVE  /\ \A v \in Workers : Holding(v)'
         /\ \A d \in Deliveries : Sound(d)'
<1>0. PICK d \in Deliveries : d = pass[w].d
  BY DEF OutboxInv, OutboxTypeOK, Passes
<1> DEFINE p == [pass[w] EXCEPT !.pc = "sending"]
<1>1. pass' = [pass EXCEPT ![w] = p] /\ row' = row /\ Working(w)
  BY DEF Send, Working
<1>2. p.pc = "sending" /\ p.d = pass[w].d /\ p.row = pass[w].row
  BY DEF OutboxInv, OutboxTypeOK, Passes
<1> HIDE DEF p
<1>3. \A v \in Workers : Holding(v)'
  BY <1>1, <1>2, PassStep
<1>4. /\ row[d].status # "absent"
      /\ pass[w].targets[HookOf(d)] = row[d].digest
  <2>1. Holding(w) /\ pass[w].pc = "claimed"
    BY DEF OutboxInv, Send
  <2> QED
    BY <1>0, <1>1, <2>1 DEF Holding
<1>5. /\ sent' = [sent EXCEPT ![d] = @ \cup {pass[w].targets[HookOf(d)]}]
      /\ UNCHANGED <<confirmed, late, lapses>>
  BY <1>0 DEF Send
<1>6. Sound(d)'
  <2>1. sent'[d] = sent[d] \cup {row[d].digest}
    BY <1>4, <1>5 DEF OutboxInv, OutboxTypeOK
  <2>2. Sound(d)
    BY DEF OutboxInv
  <2> QED
    BY <1>1, <1>4, <1>5, <2>1, <2>2 DEF Sound
<1>7. ASSUME NEW x \in Deliveries, x # d PROVE Sound(x)'
  <2>1. sent'[x] = sent[x]
    BY <1>5, <1>7 DEF OutboxInv, OutboxTypeOK
  <2> QED
    BY <1>1, <1>5, <2>1, UntouchedDelivery DEF OutboxInv
<1> QED
  BY <1>3, <1>6, <1>7

\* The row RecordAnswer writes.
Recorded(r, answer, stamp) ==
  [Concluded(r, answer) EXCEPT !.lease = 0, !.stamp = stamp]

\* What an answer makes of a row that was being delivered.
LEMMA RecordedFacts ==
  ASSUME NEW r \in Row, NEW answer, NEW stamp \in Nat
  PROVE  LET c == Recorded(r, answer, stamp)
         IN  /\ c \in Row /\ c.stamp = stamp
             /\ c.status = Concluded(r, answer).status
             /\ c.status \in {"delivered", "dead-letter", "retry"}
             /\ c.digest = r.digest /\ c.attempts = r.attempts
             /\ c.status = "retry" => r.attempts < MaxAttempts
<1> DEFINE n == Concluded(r, answer)
           c == Recorded(r, answer, stamp)
<1>1. n \in Row
  BY ConcludedType
<1>2. r.attempts \in Nat /\ MaxAttempts \in Nat
  BY OutboxAssumption DEF Row
<1>3. /\ n.status \in {"delivered", "dead-letter", "retry"}
      /\ n.digest = r.digest /\ n.attempts = r.attempts
      /\ n.status = "retry" => ~Exhausted(r.attempts)
  <2>1. CASE answer = "ok"
    BY <2>1 DEF Concluded, Row
  <2>2. CASE answer # "ok" /\ (answer = "refused" \/ Exhausted(r.attempts))
    BY <2>2 DEF Concluded, Row
  <2>3. CASE answer # "ok" /\ ~(answer = "refused" \/ Exhausted(r.attempts))
    BY <2>3 DEF Concluded, Row
  <2> QED
    BY <2>1, <2>2, <2>3
<1>4. n.status = "retry" => r.attempts < MaxAttempts
  BY <1>2, <1>3 DEF Exhausted
<1>5. c = [n EXCEPT !.lease = 0, !.stamp = stamp]
  BY DEF Recorded
<1> HIDE DEF n, c
<1>6. c \in Row
  <2>1. \A m \in Row : [m EXCEPT !.lease = 0, !.stamp = stamp] \in Row
    BY DEF Row
  <2> QED
    BY <1>1, <1>5, <2>1
<1>7. /\ c.stamp = stamp /\ c.status = n.status
      /\ c.digest = n.digest /\ c.attempts = n.attempts
  BY <1>1, <1>5 DEF Row
<1> QED
  BY <1>3, <1>4, <1>6, <1>7 DEF n, c

LEMMA RecordStep ==
  ASSUME OutboxInv, NEW w \in Workers, RecordAnswer(w)
  PROVE  /\ \A v \in Workers : Holding(v)'
         /\ \A d \in Deliveries : Sound(d)'
<1>0. PICK d \in Deliveries, held \in Row : d = pass[w].d /\ held = pass[w].row
  BY DEF OutboxInv, OutboxTypeOK, Passes
<1> DEFINE c == Concluded(held, pass[w].answer)
           r == Recorded(held, pass[w].answer, row[d].stamp + 1)
<1>1. row[d] \in Row
  BY DEF OutboxInv, OutboxTypeOK
<1>2. row[d].stamp \in Nat /\ row[d].stamp + 1 \in Nat /\ lapses[d] \in Nat
      /\ row[d].attempts \in Nat /\ MaxAttempts \in Nat /\ held.attempts \in Nat
  BY <1>1, OutboxAssumption DEF Row, OutboxInv, OutboxTypeOK
<1>3. /\ r \in Row /\ r.stamp = row[d].stamp + 1 /\ r.status = c.status
      /\ r.status \in {"delivered", "dead-letter", "retry"}
      /\ r.digest = held.digest /\ r.attempts = held.attempts
      /\ r.status = "retry" => held.attempts < MaxAttempts
  <2> HIDE DEF c
  <2> QED
    BY <1>2, RecordedFacts DEF c
<1>4. /\ row' = [row EXCEPT ![d] = r]
      /\ confirmed' = IF c.status = "delivered" THEN confirmed \cup {d} ELSE confirmed
      /\ late' = IF row[d].stamp # held.stamp THEN late \cup {d} ELSE late
      /\ pass' = [pass EXCEPT ![w] = Idle(w)]
      /\ UNCHANGED <<sent, lapses>>
  BY <1>0 DEF RecordAnswer, Recorded
<1>5. /\ row[d].status # "absent" /\ held.digest = row[d].digest
      /\ held.stamp = row[d].stamp
           => row[d].status = "delivering" /\ row[d].attempts = held.attempts
  <2>1. Holding(w) /\ Working(w)
    BY DEF OutboxInv, RecordAnswer, Working
  <2> QED
    BY <1>0, <2>1 DEF Holding
<1> HIDE DEF c, r
<1>6. row'[d] = r
  BY <1>1, <1>4 DEF OutboxInv, OutboxTypeOK
<1>7. ASSUME NEW v \in Workers PROVE Holding(v)'
  <2>1. CASE v = w
    <3>1. pass'[w].pc = "idle"
      BY <1>4 DEF OutboxInv, OutboxTypeOK, Idle
    <3> QED
      BY <2>1, <3>1 DEF Holding, Working
  <2>2. CASE v # w
    <3>1. pass'[v] = pass[v]
      BY <1>4, <2>2 DEF OutboxInv, OutboxTypeOK
    <3>2. r.status # "absent"
      BY <1>3
    <3> QED
      BY <1>1, <1>3, <1>4, <1>5, <3>1, <3>2, UntouchedWorker DEF OutboxInv
  <2> QED
    BY <2>1, <2>2
<1>8. Sound(d)'
  <2>1. Sound(d)
    BY <1>1 DEF OutboxInv
  <2>2. sent'[d] \subseteq {row'[d].digest} /\ row'[d].status # "absent"
    BY <1>3, <1>4, <1>5, <1>6, <2>1 DEF Sound
  <2>3. CASE row[d].stamp # held.stamp
    <3>1. d \in late'
      BY <1>4, <2>3
    <3> QED
      BY <2>2, <3>1 DEF Sound
  <2>4. CASE row[d].stamp = held.stamp /\ d \in late
    <3>1. d \in late'
      BY <1>4, <2>4
    <3> QED
      BY <2>2, <3>1 DEF Sound
  <2>5. CASE row[d].stamp = held.stamp /\ d \notin late
    <3>1. row[d].status = "delivering" /\ r.attempts = row[d].attempts
      BY <1>3, <1>5, <2>5
    <3>2. d \notin confirmed /\ row[d].attempts <= MaxAttempts + lapses[d]
      BY <2>1, <2>5, <3>1 DEF Sound
    <3>3. d \in confirmed' => row'[d].status = "delivered"
      BY <1>3, <1>4, <1>6, <3>2
    <3>4. row'[d].attempts <= MaxAttempts + lapses'[d]
      BY <1>4, <1>6, <3>1, <3>2
    <3>5. row'[d].status \in {"pending", "retry"}
            => row'[d].attempts < MaxAttempts + lapses'[d]
      <4>1. row'[d].status # "pending" /\ row'[d].attempts = held.attempts
        BY <1>3, <1>6
      <4>2. row'[d].status = "retry" => held.attempts < MaxAttempts
        BY <1>3, <1>6
      <4> QED
        BY <1>2, <1>4, <4>1, <4>2
    <3> QED
      BY <2>2, <3>3, <3>4, <3>5 DEF Sound
  <2> QED
    BY <2>3, <2>4, <2>5
<1>9. ASSUME NEW x \in Deliveries, x # d PROVE Sound(x)'
  <2>1. row'[x] = row[x]
    BY <1>4, <1>9 DEF OutboxInv, OutboxTypeOK
  <2>2. (x \in confirmed' <=> x \in confirmed) /\ (x \in late' <=> x \in late)
    BY <1>4, <1>9
  <2> QED
    BY <1>4, <2>1, <2>2, UntouchedDelivery DEF OutboxInv
<1> QED
  BY <1>7, <1>8, <1>9

(* The operator, and time.                                                 *)
LEMMA RecoverStep ==
  ASSUME OutboxInv, RequeueDeadLetter \/ ResolveStale
  PROVE  /\ \A v \in Workers : Holding(v)'
         /\ \A d \in Deliveries : Sound(d)'
<1>0. PICK d \in Deliveries : d = view.d
  BY DEF OutboxInv, OutboxTypeOK, Views
<1>1. /\ row[d] \in Row /\ row[d].attempts \in Nat
      /\ row[d].stamp \in Nat /\ row[d].stamp + 1 \in Nat /\ lapses[d] \in Nat
      /\ MaxAttempts \in Nat \ {0} /\ lapses[d] + 1 \in Nat
  BY OutboxAssumption DEF OutboxInv, OutboxTypeOK, Row
<1>2. Sound(d)
  BY <1>1 DEF OutboxInv
<1>3. ASSUME NEW n \in Nat, NEW l \in Nat, d \notin late => n < MaxAttempts + l,
             row[d].status \in {"dead-letter", "delivering"},
             row' = [row EXCEPT ![d] = [row[d] EXCEPT !.attempts = n,
                       !.status = "pending", !.due = 0, !.stamp = row[d].stamp + 1]],
             lapses' = [lapses EXCEPT ![d] = l],
             UNCHANGED <<pass, sent, confirmed, late>>
      PROVE  /\ \A v \in Workers : Holding(v)'
             /\ \A x \in Deliveries : Sound(x)'
  <2> DEFINE r == [row[d] EXCEPT !.attempts = n, !.status = "pending", !.due = 0,
                     !.stamp = row[d].stamp + 1]
  <2>1. /\ r \in Row /\ r.status = "pending" /\ r.attempts = n
        /\ r.stamp = row[d].stamp + 1 /\ r.digest = row[d].digest
    BY <1>1 DEF Row, Statuses
  <2>2. row' = [row EXCEPT ![d] = r]
    BY <1>3
  <2> HIDE DEF r
  <2>3. row'[d] = r /\ lapses'[d] = l
    BY <1>1, <1>3, <2>2 DEF OutboxInv, OutboxTypeOK
  <2>4. Sound(d)'
    <3>1. /\ sent[d] \subseteq {row[d].digest}
          /\ d \in confirmed => d \in late
      BY <1>2, <1>3 DEF Sound
    <3>2. d \notin late => n <= MaxAttempts + l /\ n < MaxAttempts + l
      BY <1>1, <1>3
    <3> QED
      BY <1>3, <2>1, <2>3, <3>1, <3>2 DEF Sound
  <2>5. \A x \in Deliveries : x # d => lapses'[x] = lapses[x]
    BY <1>3 DEF OutboxInv, OutboxTypeOK
  <2> QED
    BY <1>1, <1>3, <2>1, <2>2, <2>4, <2>5, RewriteStep
<1>4. CASE RequeueDeadLetter
  <2>1. row[d].status = "dead-letter"
    BY <1>0, <1>4 DEF RequeueDeadLetter, Recover, StillAsInspected
  <2>2. row' = [row EXCEPT ![d] = [row[d] EXCEPT !.attempts = 0,
                  !.status = "pending", !.due = 0, !.stamp = row[d].stamp + 1]]
    BY <1>0, <1>1, <1>4 DEF RequeueDeadLetter, Recover, Row
  <2>3. lapses' = [lapses EXCEPT ![d] = 0] /\ 0 < MaxAttempts + 0
    BY <1>0, <1>1, <1>4 DEF RequeueDeadLetter
  <2>4. UNCHANGED <<pass, sent, confirmed, late>>
    BY <1>0, <1>4 DEF RequeueDeadLetter, Recover
  <2> QED
    BY <1>3, <2>1, <2>2, <2>3, <2>4
<1>5. CASE ResolveStale
  <2>1. row[d].status = "delivering"
    BY <1>0, <1>5 DEF ResolveStale, Recover, StillAsInspected
  <2>2. row' = [row EXCEPT ![d] = [row[d] EXCEPT !.attempts = row[d].attempts,
                  !.status = "pending", !.due = 0, !.stamp = row[d].stamp + 1]]
    BY <1>0, <1>1, <1>5 DEF ResolveStale, Recover, Row
  <2>3. lapses' = [lapses EXCEPT ![d] = lapses[d] + 1]
    BY <1>0, <1>5 DEF ResolveStale
  <2>4. UNCHANGED <<pass, sent, confirmed, late>>
    BY <1>0, <1>5 DEF ResolveStale, Recover
  <2>5. d \notin late => row[d].attempts < MaxAttempts + (lapses[d] + 1)
    BY <1>1, <1>2 DEF Sound
  <2> QED
    BY <1>1, <1>3, <2>1, <2>2, <2>3, <2>4, <2>5
<1> QED
  BY <1>4, <1>5

LEMMA TickStep ==
  ASSUME OutboxInv, Tick
  PROVE  /\ \A v \in Workers : Holding(v)'
         /\ \A d \in Deliveries : Sound(d)'
<1>1. ASSUME NEW d \in Deliveries
      PROVE  /\ row'[d].status = row[d].status /\ row'[d].attempts = row[d].attempts
             /\ row'[d].digest = row[d].digest /\ row'[d].stamp = row[d].stamp
  <2>1. row[d] \in Row
    BY DEF OutboxInv, OutboxTypeOK
  <2>2. row'[d] = [row[d] EXCEPT !.due = Less(@), !.lease = Less(@)]
    BY DEF Tick
  <2> QED
    BY <2>1, <2>2 DEF Row
<1>2. UNCHANGED <<pass, sent, confirmed, late, lapses>>
  BY DEF Tick, histories
<1>3. ASSUME NEW v \in Workers PROVE Holding(v)'
  <2>1. pass[v].d \in Deliveries
    BY DEF OutboxInv, OutboxTypeOK, Passes
  <2> QED
    BY <1>1, <1>2, <2>1 DEF OutboxInv, Holding, Working
<1>4. ASSUME NEW d \in Deliveries PROVE Sound(d)'
  BY <1>1, <1>2 DEF OutboxInv, Sound
<1> QED
  BY <1>3, <1>4

LEMMA InductiveStep == OutboxInv /\ [Next]_vars => OutboxInv'
<1> SUFFICES ASSUME OutboxInv, [Next]_vars
             PROVE  /\ \A v \in Workers : Holding(v)'
                    /\ \A d \in Deliveries : Sound(d)'
  BY TypedStep DEF OutboxInv
<1>1. ASSUME UNCHANGED <<row, pass, histories>>
      PROVE  /\ \A v \in Workers : Holding(v)'
             /\ \A d \in Deliveries : Sound(d)'
  <2>1. \A v \in Workers : Holding(v)'
    BY <1>1 DEF OutboxInv, Holding, Working
  <2> QED
    BY <1>1, <2>1, QuietStep
<1>2. ASSUME NEW e \in Events, SettleTask(e) \/ Announces(e) \/ PublisherFails(e)
      PROVE  /\ \A v \in Workers : Holding(v)'
             /\ \A d \in Deliveries : Sound(d)'
  BY <1>1, <1>2, CreateStep
     DEF SettleTask, Announces, PublisherFails, ResolveSubscribers, Announced
<1>3. ASSUME NEW w \in Workers, Delivers(w) \/ Crash(w)
      PROVE  /\ \A v \in Workers : Holding(v)'
             /\ \A d \in Deliveries : Sound(d)'
  BY <1>3, ClaimStep, PassOnlyStep, SendStep, RecordStep DEF Delivers
<1>4. CASE \E d \in Deliveries : Inspect(d)
  BY <1>1, <1>4 DEF Inspect
<1>5. CASE \E h \in Hooks : EditHook(h)
  BY <1>1, <1>5 DEF EditHook
<1>6. CASE UNCHANGED vars
  BY <1>1, <1>6 DEF vars
<1> QED
  BY <1>2, <1>3, <1>4, <1>5, <1>6, RecoverStep, TickStep DEF Next

-----------------------------------------------------------------------------
(* The theorems.                                                           *)

\* Everything above holds in every reachable state: what a Worker holds, and
\* what is true of each row.
THEOREM OutboxInvariant == Spec => []OutboxInv
BY InitSound, InductiveStep, PTL DEF Spec

\* No request of a delivery ever reaches a recipient or signing identity other
\* than the one the row was created for.
THEOREM Retargeting == Spec => []NeverRetargeted
<1>1. OutboxInv => NeverRetargeted
  BY DEF OutboxInv, Sound, NeverRetargeted
<1> QED
  BY <1>1, OutboxInvariant, PTL

\* What a receiver has confirmed is never queued again, unless a Worker past
\* its lease wrote the row.
THEOREM ConfirmedStays == Spec => []DeliveredIsFinalUnlessLate
<1>1. OutboxInv => DeliveredIsFinalUnlessLate
  BY DEF OutboxInv, OutboxTypeOK, Sound, DeliveredIsFinalUnlessLate
<1> QED
  BY <1>1, OutboxInvariant, PTL

\* A row is attempted MaxAttempts times in a round and once more for every
\* lease that ran out, unless a Worker past its lease wrote the row.
THEOREM BoundedAttempts == Spec => []AttemptsAreBoundedUnlessLate
<1>1. OutboxInv => AttemptsAreBoundedUnlessLate
  BY DEF OutboxInv, Sound, AttemptsAreBoundedUnlessLate
<1> QED
  BY <1>1, OutboxInvariant, PTL

=============================================================================
