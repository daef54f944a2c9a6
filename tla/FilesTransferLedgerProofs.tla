---------------------- MODULE FilesTransferLedgerProofs ----------------------
(* That a Files transfer keeps the effect ledger's promise, and that an      *)
(* item reported successful has landed, for any number of Workers, items and *)
(* entries.  What keeps a recorded effect from being repeated is not one     *)
(* record: an effect that is known has landed in Storage, where the next     *)
(* check of the entry meets it (Known); an effect in doubt stays on the      *)
(* item's row until the row can no longer be resumed (Doubts); and the       *)
(* owner goes by rows that nobody but itself has changed since it read them  *)
(* (Snapshot), so it never works on an entry in doubt (Careful).  What makes *)
(* an item successful is likewise spread over its passes: the rows and the   *)
(* pass vouch only for what has landed (Vouched, Evidence), and because a    *)
(* call that began to write is named by the boundary or in doubt (Halves), a *)
(* directory that the owner finds in place is there.                         *)
EXTENDS FilesTransferProofs

\* Steps of an item that has been taken, and of one whose entries are run.
Taken   == {"acquire", "conflict", "refuse", "begin", "open item"}
Running == {"entry"} \cup Checked
OnList  == {"items"} \cup OnItem \cup OnEntry

Known == \A x \in Places : ledger[x] = "known" => world[x] = "landed"

Answered(w) ==
  pass[w].pc = "record" /\ pass[w].answer = "success" => world[Here(w)] = "landed"

Doubts ==
  transfer.status \notin Ended =>
    \A i \in Items, e \in Entries : ledger[<<i, e>>] = "unknown" =>
      /\ item[i].started
      /\ item[i].progress.known => item[i].progress.outs[e] = "uncertain"

Underway ==
  transfer.status \notin Ended /\ transfer.boundary # Nowhere =>
    item[transfer.boundary[1]].progress.known

Alike(row, other) == row.started = other.started /\ row.progress = other.progress

\* What the owner still has to decide is as it has read it.
Snapshot(w) ==
  Mine(w) /\ pass[w].pc \in OnList =>
    \A i \in Items : i > pass[w].item \/ (pass[w].pc = "items" /\ i = pass[w].item) =>
      Alike(pass[w].rows[i], item[i])

Careful(w) ==
  Mine(w) =>
    /\ pass[w].pc \in Taken =>
         \A e \in Entries : ledger[<<pass[w].item, e>>] # "unknown"
    /\ pass[w].pc \in {"open item"} \cup Running => item[pass[w].item].started
    /\ pass[w].pc \in Running =>
         /\ item[pass[w].item].progress.known
         /\ \A e \in Entries : ledger[<<pass[w].item, e>>] = "unknown" =>
              e < pass[w].entry /\ pass[w].outs[e] = "uncertain"
    /\ pass[w].pc = "open" => ledger[Here(w)] = "none"

LedgerInv ==
  /\ CallInv
  /\ Known /\ Doubts /\ Underway
  /\ \A w \in Workers : Answered(w) /\ Snapshot(w) /\ Careful(w)

-----------------------------------------------------------------------------
(* Facts about the shapes.                                                 *)

LEMMA Groups ==
  /\ Running \subseteq OnItem \cup OnEntry /\ Taken \subseteq OnItem
  /\ Running \subseteq Unchecked \cup Checked
  /\ "idle" \notin OnList /\ "resolve" \notin OnList /\ "erred" \notin OnList
  /\ "complete" \notin Running /\ "items" \notin Running
  /\ OnItem \cup OnEntry \subseteq OnList /\ "items" \in OnList
  /\ "items" \notin Taken /\ Taken \cap Running = {}
BY DEF Running, Taken, OnList, OnItem, OnEntry, Unchecked, Checked

\* A pass that only goes on to another step.
LEMMA GoingOn ==
  ASSUME PassesOK, NEW w \in Workers, NEW c, Goto(w, c)
  PROVE  /\ pass'[w].pc = c
         /\ pass'[w].token = pass[w].token /\ pass'[w].item = pass[w].item
         /\ pass'[w].entry = pass[w].entry /\ pass'[w].outs = pass[w].outs
         /\ pass'[w].rows = pass[w].rows /\ pass'[w].skip = pass[w].skip
         /\ pass'[w].resuming = pass[w].resuming
         /\ pass'[w].answer = pass[w].answer
BY DEF PassesOK, Frames, Goto

LEMMA TurningTo ==
  ASSUME PassesOK, NEW w \in Workers, NextItem(w)
  PROVE  /\ pass'[w].pc = "items" /\ pass'[w].item = pass[w].item + 1
         /\ pass'[w].rows = pass[w].rows
         /\ pass'[w].outs = Blank /\ pass'[w].entry = 1
<1>1. pass'[w] = [Idle EXCEPT !.pc = "items", !.token = pass[w].token,
                    !.item = pass[w].item + 1, !.rows = pass[w].rows]
  BY DEF NextItem, PassesOK
<1> QED
  BY <1>1 DEF Idle

LEMMA InPlace ==
  ASSUME CallInv, NEW w \in Workers
  PROVE  /\ pass[w].pc \in OnItem \cup OnEntry => pass[w].item \in Items
         /\ pass[w].pc \in OnEntry => Here(w) \in Places /\ pass[w].entry \in Entries
         /\ pass[w].rows \in [Items -> ItemRows] /\ pass[w].outs \in OutcomeLists
         /\ pass[w].entry \in Nat /\ pass[w].item \in Nat
BY Typed DEF Placed, Frames, Here, Places

LEMMA HeldMine ==
  ASSUME NEW w \in Workers, Held(w), pass[w].pc # "idle"
  PROVE  Mine(w) /\ transfer.status \notin Ended
BY DEF Held, Mine, Named, OpenStatus, Ended

-----------------------------------------------------------------------------
(* Storage.                                                                *)

\* Steps inside or after a provider call apart, Storage and the ledger stand.
LEMMA QuietWorks ==
  ASSUME NEW w \in Workers,
         \/ Works(w) /\ ~Lands(w) /\ ~RecordOutcome(w) /\ ~ResolveInFlight(w)
         \/ Heartbeat(w) \/ ReleaseIncompatible(w) \/ StartFails(w) \/ Crash(w)
  PROVE  world' = world /\ ledger' = ledger
<1>1. CASE \/ ClaimNext(w) \/ ClaimExpiredMutation(w) \/ BeginTransfer(w)
           \/ CloseUnstarted(w) \/ ConvergeFailure(w) \/ FinishCancelled(w)
           \/ PauseTransfer(w) \/ Heartbeat(w) \/ ReleaseIncompatible(w)
           \/ StartFails(w) \/ Crash(w)
  BY <1>1 DEF ClaimNext, ClaimExpiredMutation, Claim, BeginTransfer,
     CloseUnstarted, ConvergeFailure, FinishCancelled, PauseTransfer, Heartbeat,
     ReleaseIncompatible, StartFails, Crash
<1>2. CASE \/ Start(w) \/ ReadQueued(w) \/ PublishRunning(w) \/ ListItems(w)
           \/ StopCancelled(w) \/ TakeItem(w) \/ PassOver(w) \/ MarkInterrupted(w)
           \/ AcquireItem(w) \/ LockConflict(w) \/ RefuseItem(w) \/ PublishStart(w)
  BY <1>2 DEF Start, ReadQueued, PublishRunning, ListItems, StopCancelled,
     TakeItem, PassOver, MarkInterrupted, AcquireItem, LockConflict, RefuseItem,
     PublishStart
<1>3. CASE \/ OpenItem(w) \/ Interrupted(w) \/ EntryChecked(w) \/ RecordPresent(w)
           \/ EnterMutation(w) \/ Return(w) \/ CompleteItem(w)
           \/ ReadAggregate(w) \/ PublishAggregate(w) \/ FinishTransfer(w)
           \/ AcknowledgeItems(w) \/ AcknowledgeTask(w)
  BY <1>3 DEF OpenItem, Interrupted, EntryChecked, RecordPresent, EnterMutation,
     Return, CompleteItem, ReadAggregate, PublishAggregate, FinishTransfer,
     AcknowledgeItems, AcknowledgeTask
<1> QED
  BY <1>1, <1>2, <1>3 DEF Works

LEMMA QuietOthers ==
  ASSUME \/ LeaseLapses \/ RequestPause \/ CancelTask \/ ResumeTransfer
         \/ \E i \in Items : RivalAcquires(i) \/ RivalReleases(i)
  PROVE  world' = world /\ ledger' = ledger /\ pass' = pass
BY DEF LeaseLapses, RequestPause, CancelTask, ResumeTransfer, Request,
   RivalAcquires, RivalReleases

\* Whoever writes to Storage leaves what has landed.
LEMMA Lasting ==
  ASSUME CallInv, [Next]_vars PROVE LandedStays
<1>1. ASSUME NEW w \in Workers, Lands(w) PROVE LandedStays
  <2>1. Here(w) \in Places
    BY <1>1, InPlace DEF Lands, OnEntry
  <2> QED
    BY <1>1, <2>1, Typed DEF Lands, LandedStays, WorldOK
<1>2. ASSUME NEW x \in Places, OthersWrite(x) PROVE LandedStays
  BY <1>2, Typed DEF OthersWrite, LandedStays, WorldOK
<1>3. ASSUME NEW w \in Workers, RecordOutcome(w) \/ ResolveInFlight(w)
      PROVE  world' = world
  BY <1>3 DEF RecordOutcome, ResolveInFlight
<1>4. CASE UNCHANGED vars
  BY <1>4 DEF vars, LandedStays
<1> QED
  BY <1>1, <1>2, <1>3, <1>4, QuietWorks, QuietOthers DEF Next, LandedStays

LEMMA KnownKeeps ==
  ASSUME LedgerInv, [Next]_vars PROVE Known'
<1>1. LandedStays /\ WorldOK /\ Known
  BY Lasting, Typed DEF LedgerInv
<1>2. CASE ledger' = ledger
  BY <1>1, <1>2 DEF Known, LandedStays
<1>3. ASSUME NEW w \in Workers, RecordOutcome(w), ledger' # ledger PROVE Known'
  <2>1. /\ pass[w].pc = "record" /\ world' = world
        /\ ledger' = [ledger EXCEPT ![Here(w)] =
                        CASE pass[w].answer = "success" -> "known"
                          [] pass[w].answer = "uncertain" -> "unknown"
                          [] OTHER -> "none"]
    BY <1>3 DEF RecordOutcome
  <2>2. Answered(w)
    BY DEF LedgerInv
  <2>3. \A x \in Places : ledger'[x] = "known" =>
          \/ ledger[x] = "known"
          \/ x = Here(w) /\ pass[w].answer = "success"
    BY <1>1, <2>1 DEF WorldOK
  <2> QED
    BY <1>1, <2>1, <2>2, <2>3 DEF Known, Answered
<1>4. ASSUME NEW w \in Workers, ResolveInFlight(w), ledger' # ledger PROVE Known'
  <2>1. /\ world' = world
        /\ \/ ledger' = [ledger EXCEPT ![transfer.boundary] = "unknown"]
           \/ /\ ledger' = [ledger EXCEPT ![transfer.boundary] = "known"]
              /\ world[transfer.boundary] = "landed"
    BY <1>4 DEF ResolveInFlight, Proven
  <2> QED
    BY <1>1, <2>1 DEF Known, WorldOK
<1>5. ASSUME NEW w \in Workers, Lands(w) PROVE ledger' = ledger
  BY <1>5 DEF Lands
<1>6. ASSUME NEW x \in Places, OthersWrite(x) PROVE ledger' = ledger
  BY <1>6 DEF OthersWrite
<1>7. CASE UNCHANGED vars
  BY <1>2, <1>7 DEF vars
<1> QED
  BY <1>2, <1>3, <1>4, <1>5, <1>6, <1>7, QuietWorks, QuietOthers DEF Next

-----------------------------------------------------------------------------
(* Steps that say nothing new of an item.                                  *)

Fit(w) == Answered(w) /\ Snapshot(w) /\ Careful(w)

Unsaid == ledger' = ledger /\ \A i \in Items : Alike(item'[i], item[i])

LEMMA Bystander ==
  ASSUME LedgerInv, NEW w \in Workers, pass'[w] = pass[w], LandedStays, Unsaid,
         Mine(w)' => Mine(w)
  PROVE  Fit(w)'
<1>1. Fit(w) /\ CallInv /\ Here(w)' = Here(w)
  BY DEF LedgerInv, Fit, Here
<1>2. Answered(w)'
  <2>1. pass[w].pc = "record" => Here(w) \in Places
    BY <1>1, InPlace DEF OnEntry
  <2> QED
    BY <1>1, <2>1 DEF Fit, Answered, LandedStays
<1>3. Snapshot(w)'
  BY <1>1 DEF Fit, Snapshot, Unsaid, Alike
<1>4. Careful(w)'
  <2>1. pass[w].pc \in {"open item"} \cup Running => pass[w].item \in Items
    BY <1>1, InPlace, Groups DEF OnItem
  <2> QED
    BY <1>1, <2>1 DEF Fit, Careful, Unsaid, Alike
<1> QED
  BY <1>2, <1>3, <1>4 DEF Fit

\* A pass that is not the owner's.
LEMMA Outsider ==
  ASSUME LedgerInv, NEW w \in Workers, pass'[w] = pass[w], LandedStays, ~Mine(w)'
  PROVE  Fit(w)'
<1>1. Answered(w) /\ CallInv /\ Here(w)' = Here(w)
  BY DEF LedgerInv, Here
<1>2. pass[w].pc = "record" => Here(w) \in Places
  BY <1>1, InPlace DEF OnEntry
<1> QED
  BY <1>1, <1>2 DEF Fit, Answered, LandedStays, Snapshot, Careful

\* A pass that is at no item.
LEMMA Aloof ==
  ASSUME NEW w \in Workers, pass'[w].pc \notin OnList PROVE Fit(w)'
BY Groups DEF Fit, Answered, Snapshot, Careful, OnList, OnItem, OnEntry

\* The rows keep what is in doubt and what is underway.
LEMMA UnsaidRows ==
  ASSUME LedgerInv, Unsaid, transfer'.boundary \in {transfer.boundary, Nowhere},
         transfer'.status \notin Ended => transfer.status \notin Ended
  PROVE  (Doubts /\ Underway)'
<1>1. /\ Doubts /\ Underway /\ item \in [Items -> ItemRows]
      /\ transfer.boundary \in Places \cup {Nowhere}
  BY Typed DEF LedgerInv, RowsOK, TransferRows
<1>2. Doubts'
  BY <1>1 DEF Doubts, Unsaid, Alike
<1>3. Underway'
  <2> SUFFICES ASSUME transfer'.status \notin Ended, transfer'.boundary # Nowhere
               PROVE  item'[transfer'.boundary[1]].progress.known
    BY DEF Underway
  <2>1. transfer'.boundary = transfer.boundary /\ transfer.boundary[1] \in Items
    BY <1>1 DEF Places
  <2> QED
    BY <1>1, <2>1 DEF Underway, Unsaid, Alike
<1> QED
  BY <1>2, <1>3

LEMMA EndedRows ==
  ASSUME transfer'.status \in Ended PROVE (Doubts /\ Underway)'
BY DEF Doubts, Underway

\* A Worker that lost its claim can still suspend rows, and no more.
LEMMA LateUnsaid ==
  ASSUME CallInv, NEW v \in Workers, Late(v),
         \/ Works(v) /\ ~ClaimNext(v) /\ ~ClaimExpiredMutation(v)
         \/ ReleaseIncompatible(v) \/ StartFails(v) \/ Crash(v)
  PROVE  Unsaid /\ transfer' = transfer
<1>1. transfer' = transfer
  BY LateEnds, LateStarts, LateItems, LateCalls, LatePauses DEF Works, Aside
<1>2. ledger' = ledger
  <2>1. CASE Lands(v) \/ RecordOutcome(v) \/ ResolveInFlight(v)
    BY <2>1, LateUnnamed DEF Lands, RecordOutcome, ResolveInFlight
  <2> QED BY <2>1, QuietWorks
<1>3. CASE AcknowledgeItems(v)
  <2>1. \A i \in Items : \/ item'[i] = item[i]
                         \/ item'[i] = [item[i] EXCEPT !.status = "paused"]
    BY <1>3 DEF AcknowledgeItems
  <2>2. \A row \in ItemRows : Alike([row EXCEPT !.status = "paused"], row)
    BY DEF Alike, ItemRows
  <2> QED
    BY <1>1, <1>2, <2>1, <2>2, Shapes DEF Unsaid, Alike
<1>4. CASE item' = item
  BY <1>1, <1>2, <1>4 DEF Unsaid, Alike
<1>5. CASE \/ BeginTransfer(v) \/ CloseUnstarted(v) \/ ConvergeFailure(v)
           \/ FinishCancelled(v) \/ PauseTransfer(v) \/ ResolveInFlight(v)
           \/ FinishTransfer(v) \/ ReleaseIncompatible(v) \/ StartFails(v)
           \/ Crash(v) \/ Start(v) \/ ReadQueued(v) \/ PublishRunning(v)
           \/ ListItems(v) \/ StopCancelled(v) \/ TakeItem(v) \/ PassOver(v)
           \/ MarkInterrupted(v)
  <2>1. item' = item
    BY <1>5, LateUnnamed DEF BeginTransfer, CloseUnstarted, ConvergeFailure,
       FinishCancelled, PauseTransfer, ResolveInFlight, FinishTransfer,
       ReleaseIncompatible, StartFails, Crash, Start, ReadQueued, PublishRunning,
       ListItems, StopCancelled, TakeItem, PassOver, MarkInterrupted, Stop, rowVars
  <2> QED BY <1>4, <2>1
<1>6. CASE \/ AcquireItem(v) \/ LockConflict(v) \/ RefuseItem(v) \/ PublishStart(v)
           \/ OpenItem(v) \/ Interrupted(v) \/ EntryChecked(v) \/ RecordPresent(v)
           \/ CompleteItem(v) \/ EnterMutation(v) \/ Lands(v) \/ Return(v)
           \/ RecordOutcome(v) \/ ReadAggregate(v) \/ PublishAggregate(v)
           \/ AcknowledgeTask(v)
  <2>1. item' = item
    BY <1>6, LateUnnamed DEF AcquireItem, LockConflict, RefuseItem, PublishStart,
       OpenItem, Interrupted, EntryChecked, RecordPresent, CompleteItem,
       EnterMutation, Lands, Return, RecordOutcome, ReadAggregate,
       PublishAggregate, AcknowledgeTask, Stop, NextItemIfHeld, rowVars
  <2> QED BY <1>4, <2>1
<1> QED
  BY <1>3, <1>5, <1>6 DEF Works

-----------------------------------------------------------------------------
(* Parts of the owner's steps.                                             *)

Progresses(w) == (Doubts /\ Underway)' /\ Fit(w)'

LEMMA StillMine ==
  ASSUME NEW w \in Workers, Mine(w)', pass'[w].token = pass[w].token,
         pass[w].pc # "idle", transfer'.owner = transfer.owner,
         transfer'.status = transfer.status
  PROVE  Mine(w)
BY DEF Mine, Named

\* One row is written, and no boundary is left.
LEMMA RowWritten ==
  ASSUME LedgerInv, NEW i \in Items, NEW row, item' = [item EXCEPT ![i] = row],
         transfer'.boundary = Nowhere, transfer'.status = transfer.status,
         \A j \in Items, e \in Entries :
           j # i /\ ledger'[<<j, e>>] = "unknown" => ledger[<<j, e>>] = "unknown",
         \A e \in Entries : transfer.status \notin Ended /\ ledger'[<<i, e>>] = "unknown" =>
           row.started /\ (row.progress.known => row.progress.outs[e] = "uncertain")
  PROVE  (Doubts /\ Underway)'
<1>1. Doubts /\ item \in [Items -> ItemRows]
  BY Shapes DEF LedgerInv
<1>2. item'[i] = row /\ \A j \in Items : j # i => item'[j] = item[j]
  BY <1>1
<1>3. Doubts'
  <2> SUFFICES ASSUME transfer.status \notin Ended, NEW j \in Items, NEW e \in Entries,
                      ledger'[<<j, e>>] = "unknown"
               PROVE  /\ item'[j].started
                      /\ item'[j].progress.known =>
                           item'[j].progress.outs[e] = "uncertain"
    BY DEF Doubts
  <2> QED
    BY <1>1, <1>2 DEF Doubts
<1> QED
  BY <1>3 DEF Underway

\* The pass stays with its item, or takes the one it has come to.
LEMMA Stays ==
  ASSUME LedgerInv, NEW w \in Workers, pass[w].pc \in OnList,
         pass'[w].pc \in OnItem \cup OnEntry,
         pass'[w].item = pass[w].item, pass'[w].rows = pass[w].rows,
         Mine(w)' => Mine(w),
         \A i \in Items : i # pass[w].item => item'[i] = item[i]
  PROVE  Snapshot(w)'
<1>1. Snapshot(w) /\ pass[w].item \in Nat /\ Items \subseteq Nat
  BY InPlace, Numbers DEF LedgerInv
<1>2. pass'[w].pc # "items"
  BY DEF OnItem, OnEntry
<1>3. \A i \in Items : i > pass[w].item => i # pass[w].item
  BY <1>1
<1> QED
  BY <1>1, <1>2, <1>3 DEF Snapshot

\* The pass turns to the next item.
LEMMA Turns ==
  ASSUME LedgerInv, NEW w \in Workers, pass[w].pc \in OnList, NextItem(w),
         transfer'.owner = transfer.owner, transfer'.status = transfer.status,
         \A i \in Items : i # pass[w].item => item'[i] = item[i]
  PROVE  Fit(w)'
<1>1. /\ pass'[w].pc = "items" /\ pass'[w].item = pass[w].item + 1
      /\ pass'[w].rows = pass[w].rows /\ pass'[w].token = pass[w].token
  BY Typed, Turning, TurningTo DEF LedgerInv
<1>2. Snapshot(w) /\ pass[w].item \in Nat /\ Items \subseteq Nat
  BY InPlace, Numbers DEF LedgerInv
<1>3. Mine(w)' => Mine(w)
  BY <1>1, StillMine, Groups
<1>4. \A i \in Items : i > pass[w].item + 1 \/ i = pass[w].item + 1 =>
        i > pass[w].item /\ i # pass[w].item
  <2> DEFINE n == pass[w].item
  <2>1. n \in Nat /\ Items \subseteq Nat
    BY <1>2
  <2> HIDE DEF n
  <2>2. \A i \in Items : i > n + 1 \/ i = n + 1 => i > n /\ i # n
    BY <2>1
  <2> QED BY <2>2 DEF n
<1>5. Snapshot(w)'
  <2> SUFFICES ASSUME Mine(w)', NEW i \in Items,
                      i > pass[w].item + 1 \/ i = pass[w].item + 1
               PROVE  Alike(pass[w].rows[i], item'[i])
    BY <1>1 DEF Snapshot
  <2> QED
    BY <1>2, <1>3, <1>4 DEF Snapshot
<1> QED
  BY <1>1, <1>5, Groups DEF Fit, Answered, Careful

\* No pass is at an item, and no row says anything new.
LEMMA Leaves ==
  ASSUME LedgerInv, NEW w \in Workers, pass'[w].pc \notin OnList, Unsaid,
         transfer'.boundary \in {transfer.boundary, Nowhere},
         transfer'.status \notin Ended => transfer.status \notin Ended
  PROVE  Progresses(w)
BY Aloof, UnsaidRows DEF Progresses

LEMMA Unchanging ==
  ASSUME item' = item, ledger' = ledger PROVE Unsaid
BY DEF Unsaid, Alike

LEMMA StopProgresses ==
  ASSUME LedgerInv, NEW w \in Workers, Stop(w), ledger' = ledger
  PROVE  Progresses(w)
<1>1. pass'[w].pc = "idle" /\ transfer' = transfer /\ item' = item
  BY Typed, Resting DEF Stop, LedgerInv
<1> QED
  BY <1>1, Leaves, Unchanging, Groups

-----------------------------------------------------------------------------
(* Steps outside the items.                                                *)

LEMMA ClaimProgresses ==
  ASSUME LedgerInv, NEW w \in Workers, Claim(w) PROVE Progresses(w)
<1>1. /\ pass' = [pass EXCEPT ![w] = [Idle EXCEPT !.pc = "claimed",
                                        !.token = transfer.attempts + 1]]
      /\ transfer'.boundary = transfer.boundary
      /\ transfer'.status = transfer.status
      /\ item' = item /\ ledger' = ledger
  BY Typed DEF Claim, LedgerInv, RowsOK, TransferRows
<1>2. pass'[w].pc = "claimed"
  BY <1>1, Typed DEF LedgerInv, PassesOK, Idle
<1> QED
  BY <1>1, <1>2, Leaves, Unchanging DEF OnList, OnItem, OnEntry

\* Neither a row nor an item is touched; what happens to the claim is a
\* release, an end or nothing.
LEMMA EndsProgress ==
  ASSUME LedgerInv, NEW w \in Workers,
         \/ BeginTransfer(w) \/ FinishCancelled(w) \/ PauseTransfer(w)
         \/ FinishTransfer(w) \/ ReleaseIncompatible(w) \/ StartFails(w) \/ Crash(w)
  PROVE  Progresses(w)
<1>1. PassesOK /\ transfer \in TransferRows /\ TransferOutcome(item) \in Ended
  BY Typed, TransferOutcomeEnds DEF LedgerInv, RowsOK
<1>2. item' = item /\ ledger' = ledger
  BY DEF BeginTransfer, FinishCancelled, PauseTransfer, FinishTransfer,
     ReleaseIncompatible, StartFails, Crash, rowVars
<1>3. /\ transfer'.boundary \in {transfer.boundary, Nowhere}
      /\ transfer'.status \notin Ended => transfer.status \notin Ended
  BY <1>1 DEF BeginTransfer, FinishCancelled, PauseTransfer, FinishTransfer,
     ReleaseIncompatible, StartFails, Crash, rowVars, TransferRows, Ended,
     Named, Held, OpenStatus
<1>4. pass'[w].pc \in {"idle", "unstarted", "resolve", "start"}
  <2>1. ASSUME NEW c, Goto(w, c) PROVE pass'[w].pc = c
    BY <1>1, <2>1, GoingOn
  <2>2. pass' = [pass EXCEPT ![w] = Idle] => pass'[w].pc = "idle"
    BY <1>1, Resting
  <2> QED
    BY <2>1, <2>2 DEF BeginTransfer, FinishCancelled, PauseTransfer,
       FinishTransfer, ReleaseIncompatible, StartFails, Crash
<1> QED
  BY <1>2, <1>3, <1>4, Leaves, Unchanging DEF OnList, OnItem, OnEntry

LEMMA ConvergesProgress ==
  ASSUME LedgerInv, NEW w \in Workers, CloseUnstarted(w) \/ ConvergeFailure(w)
  PROVE  Progresses(w)
<1>1. pass'[w].pc = "idle" /\ ledger' = ledger
  BY Typed, Resting DEF CloseUnstarted, ConvergeFailure, LedgerInv
<1>2. CASE Converged(0)
  BY <1>1, <1>2, Typed, ConvergedTyped, EndedRows, Aloof, Groups
     DEF Progresses, LedgerInv
<1>3. CASE ~Converged(0)
  <2>1. item' = item
    BY <1>3 DEF CloseUnstarted, ConvergeFailure
  <2>2. /\ transfer'.boundary \in {transfer.boundary, Nowhere}
        /\ transfer'.status \notin Ended => transfer.status \notin Ended
    BY <1>3, Typed DEF CloseUnstarted, ConvergeFailure, LedgerInv, RowsOK,
       TransferRows, Ended
  <2> QED
    BY <1>1, <2>1, <2>2, Leaves, Unchanging, Groups
<1> QED BY <1>2, <1>3

\* The rows stand while a pass begins, pauses or ends.
LEMMA StandsProgress ==
  ASSUME LedgerInv, NEW w \in Workers,
         \/ Start(w) \/ ReadQueued(w) \/ PublishRunning(w) \/ StopCancelled(w)
         \/ Interrupted(w) \/ ReadAggregate(w) \/ PublishAggregate(w)
         \/ AcknowledgeItems(w) \/ AcknowledgeTask(w)
  PROVE  Progresses(w)
<1>1. PassesOK
  BY Typed DEF LedgerInv
<1>2. transfer' = transfer /\ ledger' = ledger
  BY DEF Start, ReadQueued, PublishRunning, StopCancelled, Interrupted,
     ReadAggregate, PublishAggregate, AcknowledgeItems, AcknowledgeTask, rowVars
<1>3. Unsaid
  <2>1. CASE item' = item
    BY <1>2, <2>1, Unchanging
  <2>2. CASE item' # item
    <3>1. \A i \in Items : \/ item'[i] = item[i]
                           \/ item'[i] = [item[i] EXCEPT !.status = "paused"]
      BY <2>2 DEF Start, ReadQueued, PublishRunning, StopCancelled, Interrupted,
         ReadAggregate, PublishAggregate, AcknowledgeItems, AcknowledgeTask, rowVars
    <3>2. \A row \in ItemRows : Alike([row EXCEPT !.status = "paused"], row)
      BY DEF Alike, ItemRows
    <3> QED
      BY <1>2, <3>1, <3>2, Shapes DEF LedgerInv, Unsaid, Alike
  <2> QED BY <2>1, <2>2
<1>4. pass'[w].pc \in {"idle", "queue", "cancelled", "paused", "list", "publish",
                      "erred", "acknowledge", "acknowledged", "aggregate", "finish"}
  <2>1. ASSUME NEW c, Goto(w, c) PROVE pass'[w].pc = c
    BY <1>1, <2>1, GoingOn
  <2>2. pass' = [pass EXCEPT ![w] = Idle] => pass'[w].pc = "idle"
    BY <1>1, Resting
  <2>3. ReadAggregate(w) => pass'[w].pc = "aggregate"
    BY <1>1 DEF ReadAggregate, PassesOK, Frames
  <2>4. CASE ReadQueued(w)
    <3> DEFINE c == CASE task.status = "running" -> "list"
                      [] task.status = "pending" -> "publish"
                      [] OTHER -> "erred"
    <3>1. Goto(w, c) /\ c \in {"list", "publish", "erred"}
      BY <2>4 DEF ReadQueued, Goto
    <3> HIDE DEF c
    <3> QED BY <2>1, <3>1
  <2> QED
    BY <2>1, <2>2, <2>3, <2>4 DEF Start, PublishRunning, StopCancelled,
       Interrupted, PublishAggregate, AcknowledgeItems, AcknowledgeTask
<1> QED
  BY <1>2, <1>3, <1>4, Leaves DEF OnList, OnItem, OnEntry

\* A proven effect is put on its row; what was in doubt beside it stays.
LEMMA ResolveProgresses ==
  ASSUME LedgerInv, NEW w \in Workers, ResolveInFlight(w) PROVE Progresses(w)
<1> DEFINE x == transfer.boundary
           adopted == [item[x[1]].progress.outs EXCEPT ![x[2]] = "success"]
<1>1. CASE ~Held(w)
  BY <1>1, StopProgresses DEF ResolveInFlight
<1>2. CASE Held(w) /\ ~Proven(x)
  <2>1. Converged(x[1]) /\ pass' = [pass EXCEPT ![w] = Idle]
    BY <1>2 DEF ResolveInFlight
  <2> QED
    BY <2>1, Typed, Resting, ConvergedTyped, EndedRows, Aloof, Groups
       DEF Progresses, LedgerInv
<1>3. CASE Held(w) /\ Proven(x)
  <2> DEFINE all == \A e \in Entries : adopted[e] \in {"success", "skipped"}
                                       \/ (Tree /\ e = 1)
             row == IF all THEN CompletedItem(item[x[1]], adopted)
                    ELSE [item[x[1]] EXCEPT !.status = "processing",
                            !.progress = [known |-> TRUE, outs |-> adopted,
                                          counted |-> TRUE]]
  <2>1. /\ item' = [item EXCEPT ![x[1]] = row] /\ transfer' = Boundary(Nowhere)
        /\ ledger' = [ledger EXCEPT ![x] = "known"] /\ Goto(w, "start")
    BY <1>3 DEF ResolveInFlight
  <2>2. pass'[w].pc = "start"
    BY <2>1, Typed, GoingOn DEF LedgerInv
  <2>3. /\ Doubts /\ Underway /\ item \in [Items -> ItemRows] /\ WorldOK
        /\ x \in Places \cup {Nowhere} /\ transfer \in TransferRows
    BY Typed DEF LedgerInv, RowsOK, TransferRows
  <2>4. transfer'.boundary = Nowhere /\ transfer'.status = transfer.status
    BY <2>1, <2>3, BoundaryTyped
  <2>5. CASE x = Nowhere
    <3>1. x[1] \notin Items /\ x \notin Places
      BY <2>5, Numbers DEF Nowhere, Items
    <3>2. item' = item /\ ledger' = ledger
      BY <2>1, <2>3, <3>1 DEF WorldOK
    <3> QED
      BY <2>2, <2>4, <3>2, Leaves, Unchanging DEF OnList, OnItem, OnEntry
  <2>6. CASE x # Nowhere
    <3>1. x \in Places /\ x[1] \in Items /\ x[2] \in Entries /\ x = <<x[1], x[2]>>
      BY <2>3, <2>6 DEF Places
    <3>2. item[x[1]] \in ItemRows /\ item[x[1]].progress.outs \in OutcomeLists
      BY <2>3, <3>1 DEF ItemRows
    <3>3. /\ row.started = item[x[1]].started
          /\ row.progress.known => row.progress.outs = adopted
      <4>1. CASE all
        BY <3>2, <4>1 DEF CompletedItem, EndedItem, NoProgress, ItemRows
      <4>2. CASE ~all
        BY <3>2, <4>2 DEF ItemRows
      <4> QED BY <4>1, <4>2
    <3> HIDE DEF row
    <3>4. \A j \in Items, e \in Entries :
            ledger'[<<j, e>>] = "unknown" =>
              ledger[<<j, e>>] = "unknown" /\ <<j, e>> # x
      BY <2>1, <2>3, <3>1 DEF WorldOK, Places
    <3>5. ASSUME NEW e \in Entries, transfer.status \notin Ended,
                 ledger'[<<x[1], e>>] = "unknown"
          PROVE  /\ row.started
                 /\ row.progress.known => row.progress.outs[e] = "uncertain"
      <4>1. ledger[<<x[1], e>>] = "unknown" /\ e # x[2]
        BY <3>1, <3>4, <3>5
      <4>2. /\ item[x[1]].started
            /\ item[x[1]].progress.outs[e] = "uncertain"
        BY <2>3, <2>6, <3>1, <3>5, <4>1 DEF Doubts, Underway
      <4>3. adopted[e] = "uncertain"
        BY <3>2, <4>1, <4>2 DEF OutcomeLists
      <4> QED BY <3>3, <4>2, <4>3
    <3>6. /\ \A j \in Items, e \in Entries :
               j # x[1] /\ ledger'[<<j, e>>] = "unknown" => ledger[<<j, e>>] = "unknown"
          /\ \A e \in Entries :
               transfer.status \notin Ended /\ ledger'[<<x[1], e>>] = "unknown" =>
                 row.started /\ (row.progress.known => row.progress.outs[e] = "uncertain")
      BY <3>4, <3>5
    <3> HIDE DEF x
    <3>7. (Doubts /\ Underway)'
      BY <2>1, <2>4, <3>1, <3>6, RowWritten
    <3> QED
      BY <2>2, <3>7, Aloof DEF Progresses, OnList, OnItem, OnEntry
  <2> QED BY <2>5, <2>6
<1> QED BY <1>1, <1>2, <1>3

-----------------------------------------------------------------------------
(* Steps that take an item.                                                *)

LEMMA ListItemsProgresses ==
  ASSUME LedgerInv, NEW w \in Workers, ListItems(w) PROVE Progresses(w)
<1>1. /\ pass'[w].pc = "items" /\ pass'[w].rows = item
      /\ item' = item /\ ledger' = ledger /\ transfer' = transfer
  BY Typed DEF ListItems, rowVars, LedgerInv, PassesOK, Frames
<1>2. Fit(w)'
  BY <1>1, Groups DEF Fit, Answered, Snapshot, Careful, Alike
<1> QED
  BY <1>1, <1>2, UnsaidRows, Unchanging DEF Progresses

\* Nothing of the item it takes is in doubt: a fresh row has nothing on it,
\* and a row that is resumed would tell.
LEMMA TakeItemProgresses ==
  ASSUME LedgerInv, NEW w \in Workers, TakeItem(w) PROVE Progresses(w)
<1> DEFINE row == pass[w].rows[pass[w].item]
<1>1. /\ pass[w].pc = "items" /\ pass[w].item \in Items
      /\ Fresh(row) \/ (row.progress.known /\ ~Doubted(row))
      /\ item' = item /\ ledger' = ledger /\ transfer' = transfer
  BY DEF TakeItem, Deciding, rowVars
<1>2. /\ pass'[w].pc = "acquire" /\ pass'[w].item = pass[w].item
      /\ pass'[w].rows = pass[w].rows /\ pass'[w].token = pass[w].token
  BY Typed DEF TakeItem, Deciding, LedgerInv, PassesOK, Frames
<1>3. Mine(w)' => Mine(w)
  BY <1>1, <1>2, StillMine
<1>4. Snapshot(w)'
  BY <1>1, <1>2, <1>3, Stays DEF OnList, OnItem
<1>5. Mine(w) => \A e \in Entries : ledger[<<pass[w].item, e>>] # "unknown"
  <2> SUFFICES ASSUME Mine(w), NEW e \in Entries,
                      ledger[<<pass[w].item, e>>] = "unknown"
               PROVE  FALSE
    OBVIOUS
  <2>1. Snapshot(w) /\ Doubts /\ transfer.status \notin Ended
    BY DEF LedgerInv, Mine, Named, OpenStatus, Ended
  <2>2. Alike(row, item[pass[w].item])
    BY <1>1, <2>1 DEF Snapshot, OnList
  <2>3. row.started /\ (row.progress.known => row.progress.outs[e] = "uncertain")
    BY <1>1, <2>1, <2>2 DEF Doubts, Alike
  <2>4. row.progress.known /\ row.progress.outs[e] = "uncertain"
    BY <1>1, <2>3 DEF Fresh
  <2> QED
    BY <1>1, <2>3, <2>4 DEF Fresh, Doubted, Said
<1>6. Fit(w)'
  BY <1>1, <1>2, <1>3, <1>4, <1>5, Groups DEF Fit, Answered, Careful, Taken, Running,
     Checked
<1> QED
  BY <1>1, <1>6, UnsaidRows, Unchanging DEF Progresses

LEMMA PassOverProgresses ==
  ASSUME LedgerInv, NEW w \in Workers, PassOver(w) PROVE Progresses(w)
<1>1. /\ pass[w].pc \in OnList /\ NextItem(w)
      /\ item' = item /\ ledger' = ledger /\ transfer' = transfer
  BY DEF PassOver, Deciding, rowVars, OnList
<1> QED
  BY <1>1, Turns, UnsaidRows, Unchanging DEF Progresses

\* The row that is marked keeps that it was started.
LEMMA MarkInterruptedProgresses ==
  ASSUME LedgerInv, NEW w \in Workers, MarkInterrupted(w) PROVE Progresses(w)
<1> DEFINE i == pass[w].item
           old == pass[w].rows[i]
           row == EndedItem(old, IF old.progress.known THEN "partial" ELSE "failed",
                            EffectOf(old.progress.known, FALSE))
<1>1. pass[w].pc = "items" /\ i \in Items /\ ledger' = ledger
  BY DEF MarkInterrupted, Deciding
<1>2. CASE ~Held(w)
  BY <1>1, <1>2, StopProgresses DEF MarkInterrupted
<1>3. CASE Held(w)
  <2>1. item' = [item EXCEPT ![i] = row] /\ NextItem(w) /\ transfer' = transfer
    BY <1>3 DEF MarkInterrupted, Deciding
  <2>2. /\ Mine(w) /\ Snapshot(w) /\ Doubts /\ CallInv /\ transfer.status \notin Ended
    BY <1>1, <1>3, HeldMine DEF LedgerInv
  <2>3. Alike(old, item[i]) /\ old \in ItemRows
    BY <1>1, <2>2, InPlace DEF Snapshot, OnList
  <2>4. ~row.progress.known /\ row.started = item[i].started
    BY <2>3 DEF Alike, EndedItem, NoProgress, ItemRows
  <2> HIDE DEF row
  <2>5. \A e \in Entries : ledger'[<<i, e>>] = "unknown" => row.started
    BY <1>1, <2>2, <2>4 DEF Doubts
  <2>6. transfer'.boundary = Nowhere
    BY <1>1, <2>1, <2>2 DEF CallInv, Clear, Opening
  <2>7. (Doubts /\ Underway)'
    BY <1>1, <2>1, <2>4, <2>5, <2>6, RowWritten
  <2>8. \A j \in Items : j # i => item'[j] = item[j]
    BY <2>1, Shapes DEF LedgerInv
  <2> QED
    BY <1>1, <2>1, <2>7, <2>8, Turns DEF Progresses, OnList
<1> QED BY <1>2, <1>3

-----------------------------------------------------------------------------
(* Steps that begin or refuse an item.                                     *)

\* The pass goes on with its item, and its rows say nothing new.
LEMMA GoesOn ==
  ASSUME LedgerInv, NEW w \in Workers, NEW c \in {"conflict", "refuse", "begin"},
         Goto(w, c), pass[w].pc \in Taken, ledger' = ledger,
         transfer'.owner = transfer.owner, transfer'.status = transfer.status,
         \A i \in Items : i # pass[w].item => item'[i] = item[i]
  PROVE  Fit(w)'
<1>1. /\ pass'[w].pc = c /\ pass'[w].item = pass[w].item
      /\ pass'[w].rows = pass[w].rows /\ pass'[w].token = pass[w].token
  BY Typed, GoingOn DEF LedgerInv
<1>2. pass[w].pc \in OnList /\ pass[w].pc # "idle"
  BY Groups DEF Taken
<1>3. Mine(w)' => Mine(w)
  BY <1>1, <1>2, StillMine
<1>4. Snapshot(w)'
  BY <1>1, <1>2, <1>3, Stays DEF OnItem
<1>5. Careful(w)
  BY DEF LedgerInv
<1> QED
  BY <1>1, <1>3, <1>4, <1>5 DEF Fit, Answered, Careful, Taken, Running, Checked

LEMMA AcquireItemProgresses ==
  ASSUME LedgerInv, NEW w \in Workers, AcquireItem(w) PROVE Progresses(w)
<1>1. /\ pass[w].pc = "acquire" /\ pass[w].pc \in Taken /\ pass[w].pc \in OnList
      /\ item' = item /\ ledger' = ledger /\ transfer' = transfer
  BY DEF AcquireItem, Taken, OnList, OnItem
<1>2. (Doubts /\ Underway)'
  BY <1>1, UnsaidRows, Unchanging
<1>3. CASE NextItem(w)
  BY <1>1, <1>2, <1>3, Turns DEF Progresses
<1>4. CASE \E c \in {"conflict", "refuse", "begin"} : Goto(w, c)
  BY <1>1, <1>2, <1>4, GoesOn DEF Progresses
<1>5. CASE Goto(w, "acknowledge")
  <2>1. pass'[w].pc = "acknowledge"
    BY <1>5, Typed, GoingOn DEF LedgerInv
  <2> QED BY <1>2, <2>1, Aloof DEF Progresses, OnList, OnItem, OnEntry
<1>6. CASE pass' = [pass EXCEPT ![w] = Idle]
  BY <1>2, <1>6, Typed, Resting, Aloof, Groups DEF Progresses, LedgerInv
<1> QED
  BY <1>3, <1>4, <1>5, <1>6 DEF AcquireItem

\* A row with no checkpoint left.
LEMMA CheckpointGone ==
  ASSUME LedgerInv, NEW w \in Workers, pass[w].pc \in OnItem, Held(w),
         NEW row, item' = [item EXCEPT ![pass[w].item] = row],
         ~row.progress.known,
         \/ row.started
         \/ row.started = item[pass[w].item].started
         \/ pass[w].pc \in Taken,
         transfer' = transfer, ledger' = ledger
  PROVE  /\ (Doubts /\ Underway)'
         /\ \A i \in Items : i # pass[w].item => item'[i] = item[i]
<1>1. pass[w].pc # "idle" /\ pass[w].pc \notin Opening /\ pass[w].item \in Items
  BY InPlace DEF LedgerInv, OnItem, Opening
<1>2. Mine(w) /\ CallInv /\ Doubts /\ Careful(w) /\ transfer.status \notin Ended
  BY <1>1, HeldMine DEF LedgerInv
<1>3. transfer'.boundary = Nowhere
  BY <1>1, <1>2 DEF CallInv, Clear
<1>4. \A e \in Entries : ledger'[<<pass[w].item, e>>] = "unknown" => row.started
  BY <1>1, <1>2 DEF Careful, Doubts
<1>5. (Doubts /\ Underway)'
  BY <1>1, <1>3, <1>4, RowWritten
<1> QED
  BY <1>5, Shapes DEF LedgerInv

LEMMA LockConflictProgresses ==
  ASSUME LedgerInv, NEW w \in Workers, LockConflict(w) PROVE Progresses(w)
<1>1. /\ pass[w].pc \in OnItem /\ pass[w].pc \in Taken /\ pass[w].pc \in OnList
      /\ ledger' = ledger
  BY DEF LockConflict, OnItem, Taken, OnList
<1>2. CASE ~Held(w)
  BY <1>1, <1>2, StopProgresses DEF LockConflict
<1>3. CASE Held(w)
  <2> DEFINE row == [item[pass[w].item] EXCEPT !.status = "failed", !.started = TRUE,
                       !.progress = NoProgress]
  <2>1. /\ item' = [item EXCEPT ![pass[w].item] = row] /\ transfer' = transfer
        /\ NextItem(w) \/ Goto(w, "refuse")
    BY <1>3 DEF LockConflict
  <2>2. item[pass[w].item] \in ItemRows
    BY <1>1, InPlace, Shapes DEF LedgerInv
  <2>3. row.started /\ ~row.progress.known
    BY <2>2 DEF ItemRows, NoProgress
  <2> HIDE DEF row
  <2>4. /\ (Doubts /\ Underway)'
        /\ \A i \in Items : i # pass[w].item => item'[i] = item[i]
    BY <1>1, <1>3, <2>1, <2>3, CheckpointGone
  <2> QED
    BY <1>1, <2>1, <2>4, Turns, GoesOn DEF Progresses
<1> QED BY <1>2, <1>3

LEMMA RefuseItemProgresses ==
  ASSUME LedgerInv, NEW w \in Workers, RefuseItem(w) PROVE Progresses(w)
<1> DEFINE row == EndedItem(pass[w].rows[pass[w].item], "failed", "none")
<1>1. /\ pass[w].pc \in OnItem /\ pass[w].pc \in Taken /\ pass[w].pc \in OnList
      /\ ledger' = ledger /\ transfer' = transfer /\ NextItem(w)
      /\ item' = IF Held(w) THEN [item EXCEPT ![pass[w].item] = row] ELSE item
  BY DEF RefuseItem, NextItemIfHeld, OnItem, Taken, OnList
<1>2. pass[w].rows[pass[w].item] \in ItemRows
  BY <1>1, InPlace DEF LedgerInv
<1>3. ~row.progress.known
  BY <1>2 DEF EndedItem, NoProgress, ItemRows
<1> HIDE DEF row
<1>4. CASE Held(w)
  BY <1>1, <1>3, <1>4, CheckpointGone, Turns DEF Progresses
<1>5. CASE ~Held(w)
  BY <1>1, <1>5, Turns, UnsaidRows, Unchanging DEF Progresses
<1> QED BY <1>4, <1>5

LEMMA CompleteItemProgresses ==
  ASSUME LedgerInv, NEW w \in Workers, CompleteItem(w) PROVE Progresses(w)
<1> DEFINE row == CompletedItem(item[pass[w].item], pass[w].outs)
<1>1. /\ pass[w].pc \in OnItem /\ pass[w].pc \in OnList /\ ledger' = ledger
  BY DEF CompleteItem, OnItem, OnList
<1>2. CASE ~Held(w)
  BY <1>1, <1>2, StopProgresses DEF CompleteItem
<1>3. CASE Held(w)
  <2>1. /\ item' = [item EXCEPT ![pass[w].item] = row] /\ transfer' = transfer
        /\ NextItem(w)
    BY <1>3 DEF CompleteItem
  <2>2. item[pass[w].item] \in ItemRows
    BY <1>1, InPlace, Shapes DEF LedgerInv
  <2>3. row.started = item[pass[w].item].started /\ ~row.progress.known
    BY <2>2 DEF CompletedItem, EndedItem, ItemRows, NoProgress
  <2> HIDE DEF row
  <2> QED
    BY <1>1, <1>3, <2>1, <2>3, CheckpointGone, Turns DEF Progresses
<1> QED BY <1>2, <1>3

LEMMA PublishStartProgresses ==
  ASSUME LedgerInv, NEW w \in Workers, PublishStart(w) PROVE Progresses(w)
<1> DEFINE i == pass[w].item
           row == [item[i] EXCEPT !.status = "processing", !.started = TRUE]
<1>1. pass[w].pc = "begin" /\ ledger' = ledger /\ i \in Items
  BY InPlace DEF PublishStart, LedgerInv, OnItem
<1>2. CASE ~Held(w)
  BY <1>1, <1>2, StopProgresses DEF PublishStart
<1>3. CASE Held(w)
  <2>1. /\ item' = [item EXCEPT ![i] = row] /\ transfer' = transfer
        /\ Goto(w, "open item")
    BY <1>3 DEF PublishStart
  <2>2. /\ pass'[w].pc = "open item" /\ pass'[w].item = i
        /\ pass'[w].rows = pass[w].rows
    BY <2>1, Typed, GoingOn DEF LedgerInv
  <2>3. item \in [Items -> ItemRows]
    BY Shapes DEF LedgerInv
  <2>4. row.started /\ row.progress = item[i].progress
    BY <1>1, <2>3 DEF ItemRows
  <2> HIDE DEF row
  <2>5. /\ Mine(w) /\ CallInv /\ Doubts /\ Careful(w) /\ transfer.status \notin Ended
    BY <1>1, <1>3, HeldMine DEF LedgerInv
  <2>6. transfer'.boundary = Nowhere
    BY <1>1, <2>1, <2>5 DEF CallInv, Clear, Opening
  <2>7. (Doubts /\ Underway)'
    <3>1. \A e \in Entries :
            transfer.status \notin Ended /\ ledger'[<<i, e>>] = "unknown" =>
              row.started /\ (row.progress.known => row.progress.outs[e] = "uncertain")
      BY <1>1, <2>4, <2>5 DEF Doubts
    <3> QED BY <1>1, <2>1, <2>6, <3>1, RowWritten
  <2>8. item'[i].started /\ \A j \in Items : j # i => item'[j] = item[j]
    BY <1>1, <2>1, <2>3, <2>4
  <2>9. Snapshot(w)'
    BY <1>1, <2>2, <2>5, <2>8, Stays DEF OnList, OnItem
  <2>10. Careful(w)'
    BY <1>1, <2>2, <2>5, <2>8 DEF Careful, Taken, Running, Checked
  <2> QED
    BY <2>2, <2>7, <2>9, <2>10 DEF Progresses, Fit, Answered
<1> QED BY <1>2, <1>3

-----------------------------------------------------------------------------
(* Steps of the entries of an item.                                        *)

\* The snapshot of this pass replaces the row's: it holds what is in doubt.
LEMMA ProgressWritten ==
  ASSUME LedgerInv, NEW w \in Workers, NEW outs, Progress(w, outs), Held(w),
         pass[w].pc \in {"open item"} \cup Running,
         \A j \in Items, e \in Entries :
           j # pass[w].item /\ ledger'[<<j, e>>] = "unknown" =>
             ledger[<<j, e>>] = "unknown",
         \A e \in Entries :
           ledger'[<<pass[w].item, e>>] = "unknown" => outs[e] = "uncertain"
  PROVE  /\ (Doubts /\ Underway)'
         /\ item'[pass[w].item].started /\ item'[pass[w].item].progress.known
         /\ \A i \in Items : i # pass[w].item => item'[i] = item[i]
         /\ transfer'.owner = transfer.owner /\ transfer'.status = transfer.status
<1> DEFINE i == pass[w].item
           row == [item[i] EXCEPT !.status = "processing",
                     !.progress = [known |-> TRUE, outs |-> outs,
                                   counted |-> \/ pass[w].skip # {}
                                               \/ "success" \in Said(outs)]]
<1>1. item' = [item EXCEPT ![i] = row] /\ transfer' = Boundary(Nowhere)
  BY DEF Progress
<1>2. /\ transfer'.boundary = Nowhere /\ transfer'.owner = transfer.owner
      /\ transfer'.status = transfer.status
  BY <1>1, Typed, BoundaryTyped DEF LedgerInv, RowsOK
<1>3. pass[w].pc # "idle" /\ i \in Items /\ item \in [Items -> ItemRows]
  BY Groups, InPlace, Shapes DEF LedgerInv, OnItem, OnEntry, Running, Checked
<1>4. Careful(w) /\ Mine(w)
  BY <1>3, HeldMine DEF LedgerInv
<1>5. row.started /\ row.progress.known /\ row.progress.outs = outs
  BY <1>3, <1>4 DEF Careful, ItemRows
<1> HIDE DEF row
<1>6. (Doubts /\ Underway)'
  BY <1>1, <1>2, <1>3, <1>5, RowWritten
<1> QED
  BY <1>1, <1>2, <1>3, <1>5, <1>6

\* An entry is decided: the pass has its outcome and comes to the next one.
LEMMA AfterDecides ==
  ASSUME LedgerInv, NEW w \in Workers, NEW out, After(w, out),
         Progress(w, Outs(w, out)), Held(w), pass[w].pc \in {"adopt", "present", "record"},
         \A x \in Places : x # Here(w) => ledger'[x] = ledger[x],
         pass[w].entry \in Entries /\ ledger'[Here(w)] = "unknown" => out = "uncertain"
  PROVE  Progresses(w)
<1> DEFINE i == pass[w].item
           n == pass[w].entry
           c == IF Tree /\ n = 1 /\ out # "success" THEN "complete" ELSE "entry"
<1>1. /\ i \in Items /\ n \in Nat /\ pass[w].outs \in OutcomeLists /\ pass[w] \in Frames
      /\ pass[w].pc \in Running /\ pass[w].pc # "idle" /\ pass[w].pc \in OnList
  BY InPlace, Typed DEF LedgerInv, OnItem, OnEntry, Running, Checked, OnList
<1>2. /\ pass'[w].pc = c /\ pass'[w].item = i /\ pass'[w].entry = n + 1
      /\ pass'[w].rows = pass[w].rows /\ pass'[w].outs = Outs(w, out)
  BY <1>1, Typed DEF After, Outs, LedgerInv, PassesOK, Frames
<1>3. c \in {"complete", "entry"}
  OBVIOUS
<1> HIDE DEF c
<1>4. Mine(w) /\ Careful(w)
  BY <1>1, HeldMine DEF LedgerInv
<1>5. \A e \in Entries : ledger'[<<i, e>>] = "unknown" =>
        e < n + 1 /\ Outs(w, out)[e] = "uncertain"
  <2> SUFFICES ASSUME NEW e \in Entries, ledger'[<<i, e>>] = "unknown"
               PROVE  e < n + 1 /\ Outs(w, out)[e] = "uncertain"
    OBVIOUS
  <2>1. CASE e = n
    BY <1>1, <2>1 DEF Here, Outs, OutcomeLists
  <2>2. CASE e # n
    <3>1. <<i, e>> # Here(w) /\ <<i, e>> \in Places
      BY <1>1, <2>2 DEF Here, Places
    <3>2. ledger[<<i, e>>] = "unknown"
      BY <3>1
    <3>3. e < n /\ pass[w].outs[e] = "uncertain"
      BY <1>1, <1>4, <3>2 DEF Careful
    <3> QED
      BY <1>1, <2>2, <3>3, Numbers DEF Outs, OutcomeLists
  <2> QED BY <2>1, <2>2
<1>6. \A j \in Items, e \in Entries :
        j # i /\ ledger'[<<j, e>>] = "unknown" => ledger[<<j, e>>] = "unknown"
  BY DEF Here, Places
<1>7. /\ (Doubts /\ Underway)'
      /\ item'[i].started /\ item'[i].progress.known
      /\ \A j \in Items : j # i => item'[j] = item[j]
  <2>1. \A e \in Entries :
          ledger'[<<pass[w].item, e>>] = "unknown" => Outs(w, out)[e] = "uncertain"
    BY <1>5
  <2> QED BY <1>1, <1>6, <2>1, ProgressWritten
<1>8. Snapshot(w)'
  BY <1>1, <1>2, <1>3, <1>4, <1>7, Stays DEF OnItem
<1>9. Careful(w)'
  BY <1>2, <1>3, <1>5, <1>7 DEF Careful, Taken, Running, Checked
<1> QED
  BY <1>2, <1>3, <1>7, <1>8, <1>9 DEF Progresses, Fit, Answered

LEMMA RecordPresentProgresses ==
  ASSUME LedgerInv, NEW w \in Workers, RecordPresent(w) PROVE Progresses(w)
<1>1. pass[w].pc \in {"adopt", "present"} /\ ledger' = ledger
  BY DEF RecordPresent
<1>2. CASE ~Held(w)
  BY <1>1, <1>2, StopProgresses DEF RecordPresent
<1>3. CASE Held(w)
  <2>1. PICK out : Progress(w, Outs(w, out)) /\ After(w, out)
    BY <1>3 DEF RecordPresent
  <2>2. Mine(w) /\ Careful(w) /\ pass[w].entry \in Nat
    BY <1>1, <1>3, HeldMine, InPlace DEF LedgerInv
  <2>3. pass[w].entry \in Entries => ledger[Here(w)] # "unknown"
    <3>1. pass[w].pc \in Running /\ ~(pass[w].entry < pass[w].entry)
      BY <1>1, <2>2 DEF Running, Checked
    <3> QED BY <2>2, <3>1 DEF Careful, Here
  <2> QED
    BY <1>1, <1>3, <2>1, <2>3, AfterDecides
<1> QED BY <1>2, <1>3

LEMMA RecordOutcomeProgresses ==
  ASSUME LedgerInv, NEW w \in Workers, RecordOutcome(w) PROVE Progresses(w)
<1> DEFINE out == pass[w].answer
           effect == CASE out = "success" -> "known"
                       [] out = "uncertain" -> "unknown"
                       [] OTHER -> "none"
<1>1. pass[w].pc = "record"
  BY DEF RecordOutcome
<1>2. CASE ~Held(w)
  BY <1>2, StopProgresses DEF RecordOutcome
<1>3. CASE Held(w)
  <2>1. /\ Progress(w, Outs(w, out)) /\ After(w, out)
        /\ ledger' = [ledger EXCEPT ![Here(w)] = effect]
    BY <1>3 DEF RecordOutcome
  <2>2. effect = "unknown" => out = "uncertain"
    OBVIOUS
  <2> HIDE DEF effect
  <2>3. /\ \A x \in Places : x # Here(w) => ledger'[x] = ledger[x]
        /\ Here(w) \in Places => ledger'[Here(w)] = effect
    BY <2>1, Typed DEF LedgerInv, WorldOK
  <2>4. Here(w) \in Places
    BY <1>1, InPlace DEF LedgerInv, OnEntry
  <2>5. pass[w].entry \in Entries /\ ledger'[Here(w)] = "unknown" => out = "uncertain"
    BY <2>2, <2>3, <2>4
  <2> HIDE DEF out
  <2> QED
    BY <1>1, <1>3, <2>1, <2>3, <2>5, AfterDecides
<1> QED BY <1>2, <1>3

\* The first snapshot of an item that is not in doubt.
LEMMA OpenItemProgresses ==
  ASSUME LedgerInv, NEW w \in Workers, OpenItem(w) PROVE Progresses(w)
<1>1. pass[w].pc = "open item" /\ ledger' = ledger /\ pass[w].item \in Items
  BY InPlace DEF OpenItem, LedgerInv, OnItem
<1>2. CASE ~Held(w)
  BY <1>1, <1>2, StopProgresses DEF OpenItem
<1>3. CASE Held(w)
  <2>1. PICK outs : /\ Progress(w, outs)
                    /\ \/ Goto(w, "entry")
                       \/ \E out : pass' = [pass EXCEPT ![w].outs[1] = out,
                                                        ![w].pc = "complete"]
    BY <1>3 DEF OpenItem
  <2>2. Mine(w) /\ Careful(w)
    BY <1>1, <1>3, HeldMine DEF LedgerInv
  <2>3. \A e \in Entries : ledger'[<<pass[w].item, e>>] # "unknown"
    BY <1>1, <2>2 DEF Careful, Taken
  <2>4. /\ (Doubts /\ Underway)'
        /\ item'[pass[w].item].started /\ item'[pass[w].item].progress.known
        /\ \A i \in Items : i # pass[w].item => item'[i] = item[i]
    BY <1>1, <1>3, <2>1, <2>3, ProgressWritten
  <2>5. /\ pass'[w].pc \in {"entry", "complete"} /\ pass'[w].item = pass[w].item
        /\ pass'[w].rows = pass[w].rows
    <3>1. PassesOK
      BY Typed DEF LedgerInv
    <3>2. CASE Goto(w, "entry")
      BY <3>1, <3>2, GoingOn
    <3>3. CASE \E out : pass' = [pass EXCEPT ![w].outs[1] = out, ![w].pc = "complete"]
      BY <3>1, <3>3 DEF PassesOK, Frames
    <3> QED BY <2>1, <3>2, <3>3
  <2>6. Snapshot(w)'
    BY <1>1, <2>2, <2>4, <2>5, Stays DEF OnList, OnItem
  <2>7. Careful(w)'
    BY <2>3, <2>4, <2>5 DEF Careful, Taken, Running, Checked
  <2> QED
    BY <2>4, <2>5, <2>6, <2>7 DEF Progresses, Fit, Answered
<1> QED BY <1>2, <1>3

\* The owner opens an entry only where nothing is: no effect of it is known.
LEMMA EntryCheckedProgresses ==
  ASSUME LedgerInv, NEW w \in Workers, EntryChecked(w) PROVE Progresses(w)
<1> DEFINE i == pass[w].item
<1>1. /\ pass[w].pc = "entry" /\ pass[w].entry \in Entries /\ i \in Items
      /\ transfer' = [transfer EXCEPT !.live = TRUE]
      /\ item' = item /\ ledger' = ledger
      /\ \/ pass' = [pass EXCEPT ![w].entry = @ + 1]
         \/ /\ world[Here(w)] = "untouched" /\ Goto(w, "open")
         \/ \E c \in {"adopt", "present"} : Goto(w, c)
  BY InPlace DEF EntryChecked, AtEntry, LedgerInv, OnItem
<1>2. /\ transfer'.boundary = transfer.boundary /\ transfer'.owner = transfer.owner
      /\ transfer'.status = transfer.status
  BY <1>1, Typed DEF LedgerInv, RowsOK, TransferRows
<1>3. /\ pass'[w].item = i /\ pass'[w].rows = pass[w].rows
      /\ pass'[w].token = pass[w].token /\ pass'[w].outs = pass[w].outs
      /\ pass'[w].pc \in {"entry", "open", "adopt", "present"}
      /\ pass'[w].entry \in {pass[w].entry, pass[w].entry + 1}
      /\ pass'[w].pc = "open" =>
           world[Here(w)] = "untouched" /\ pass'[w].entry = pass[w].entry
  BY <1>1, Typed, GoingOn DEF LedgerInv, PassesOK, Frames
<1>4. Mine(w)' => Mine(w)
  BY <1>1, <1>2, <1>3, StillMine
<1>5. Snapshot(w)'
  BY <1>1, <1>3, <1>4, Stays DEF OnList, OnItem, OnEntry
<1>6. Careful(w)'
  <2> SUFFICES ASSUME Mine(w)' PROVE Careful(w)'
    BY DEF Careful
  <2>1. Careful(w) /\ Mine(w) /\ Known /\ WorldOK
    BY <1>4, Typed DEF LedgerInv
  <2>2. /\ item'[i].started /\ item'[i].progress.known
        /\ \A e \in Entries : ledger'[<<i, e>>] = "unknown" =>
             e < pass[w].entry /\ pass[w].outs[e] = "uncertain"
    BY <1>1, <2>1 DEF Careful, Running
  <2>3. \A e \in Entries : e < pass[w].entry => e < pass'[w].entry
    BY <1>1, <1>3, Numbers
  <2>4. pass'[w].pc = "open" => ledger'[Here(w)'] = "none"
    <3> SUFFICES ASSUME pass'[w].pc = "open" PROVE ledger[Here(w)] = "none"
      BY <1>1, <1>3 DEF Here
    <3>1. Here(w) \in Places /\ world[Here(w)] = "untouched"
      BY <1>1, <1>3 DEF Here, Places
    <3>2. ledger[Here(w)] # "known"
      BY <2>1, <3>1 DEF Known
    <3>3. ~(pass[w].entry < pass[w].entry)
      BY <1>1, Numbers
    <3>4. ledger[Here(w)] # "unknown"
      BY <1>1, <2>2, <3>3 DEF Here
    <3> QED
      BY <2>1, <3>1, <3>2, <3>4 DEF WorldOK
  <2> QED
    BY <1>3, <2>2, <2>3, <2>4 DEF Careful, Taken, Running, Checked
<1> QED
  BY <1>1, <1>2, <1>3, <1>5, <1>6, UnsaidRows, Unchanging
     DEF Progresses, Fit, Answered

\* The boundary is opened on an item whose first snapshot is written.
LEMMA EnterMutationProgresses ==
  ASSUME LedgerInv, NEW w \in Workers, EnterMutation(w) PROVE Progresses(w)
<1>1. /\ pass[w].pc = "open" /\ item' = item /\ ledger' = ledger
      /\ Here(w) \in Places /\ Here(w)[1] = pass[w].item
  BY InPlace DEF EnterMutation, Stop, LedgerInv, OnEntry, Here
<1>2. CASE Stop(w)
  BY <1>1, <1>2, StopProgresses
<1>3. CASE ~Stop(w)
  <2>1. Held(w) /\ transfer' = Boundary(Here(w)) /\ Goto(w, "calling")
    BY <1>3 DEF EnterMutation
  <2>2. /\ transfer'.boundary = Here(w) /\ transfer'.status = transfer.status
    BY <1>1, <2>1, Typed, BoundaryTyped DEF LedgerInv, RowsOK
  <2>3. Mine(w) /\ Careful(w) /\ Doubts
    BY <1>1, <2>1, HeldMine DEF LedgerInv
  <2>4. (Doubts /\ Underway)'
    BY <1>1, <2>2, <2>3 DEF Doubts, Underway, Careful, Running, Checked
  <2>5. /\ pass'[w].pc = "calling" /\ pass'[w].item = pass[w].item
        /\ pass'[w].rows = pass[w].rows /\ pass'[w].entry = pass[w].entry
        /\ pass'[w].outs = pass[w].outs
    BY <2>1, Typed, GoingOn DEF LedgerInv
  <2>6. Snapshot(w)'
    BY <1>1, <2>3, <2>5, Stays DEF OnList, OnEntry
  <2>7. Careful(w)'
    BY <1>1, <2>3, <2>5 DEF Careful, Taken, Running, Checked
  <2> QED
    BY <2>4, <2>5, <2>6, <2>7 DEF Progresses, Fit, Answered
<1> QED BY <1>2, <1>3

LEMMA ReturnProgresses ==
  ASSUME LedgerInv, NEW w \in Workers, Return(w) PROVE Progresses(w)
<1>1. /\ pass[w].pc = "calling" /\ transfer' = transfer /\ item' = item
      /\ ledger' = ledger /\ world' = world
  BY DEF Return
<1>2. (Doubts /\ Underway)'
  BY <1>1, UnsaidRows, Unchanging
<1>3. CASE Goto(w, "erred")
  <2>1. pass'[w].pc = "erred"
    BY <1>3, Typed, GoingOn DEF LedgerInv
  <2> QED BY <1>2, <2>1, Aloof, Groups DEF Progresses
<1>4. CASE ~Goto(w, "erred")
  <2>1. PICK answer \in Outcomes :
          /\ answer = "success" => Proven(Here(w))
          /\ pass' = [pass EXCEPT ![w].pc = "record", ![w].answer = answer]
    BY <1>4 DEF Return
  <2>2. /\ pass'[w].pc = "record" /\ pass'[w].item = pass[w].item
        /\ pass'[w].rows = pass[w].rows /\ pass'[w].entry = pass[w].entry
        /\ pass'[w].outs = pass[w].outs /\ pass'[w].token = pass[w].token
        /\ pass'[w].answer = answer
    BY <2>1, Typed DEF LedgerInv, PassesOK, Frames
  <2>3. Answered(w)'
    BY <1>1, <2>1, <2>2 DEF Answered, Here, Proven
  <2>4. Mine(w)' => Mine(w)
    BY <1>1, <2>2, StillMine
  <2>5. Snapshot(w)'
    BY <1>1, <2>2, <2>4, Stays DEF OnList, OnEntry
  <2>6. Careful(w)
    BY DEF LedgerInv
  <2>7. Careful(w)'
    BY <1>1, <2>2, <2>4, <2>6 DEF Careful, Taken, Running, Checked
  <2> QED
    BY <1>2, <2>3, <2>5, <2>7 DEF Progresses, Fit
<1> QED BY <1>3, <1>4

-----------------------------------------------------------------------------
(* Steps that move no pass.                                                *)

LEMMA Watches ==
  ASSUME LedgerInv, [Next]_vars, pass' = pass,
         \/ UNCHANGED vars
         \/ LeaseLapses \/ RequestPause \/ CancelTask \/ ResumeTransfer
         \/ \E v \in Workers : Heartbeat(v) \/ Lands(v)
         \/ \E i \in Items : RivalAcquires(i) \/ RivalReleases(i)
         \/ \E x \in Places : OthersWrite(x)
  PROVE  (Doubts /\ Underway)' /\ \A w \in Workers : Fit(w)'
<1>1. CallInv /\ transfer \in TransferRows /\ LandedStays
  BY Typed, Lasting DEF LedgerInv, RowsOK
<1>2. Unsaid
  <2>1. CASE CancelTask
    <3>1. \A i \in Items : \/ item'[i] = item[i]
                           \/ item'[i] = [item[i] EXCEPT !.status = "cancelled"]
      BY <2>1 DEF CancelTask
    <3>2. \A row \in ItemRows : Alike([row EXCEPT !.status = "cancelled"], row)
      BY DEF Alike, ItemRows
    <3> QED
      BY <2>1, <3>1, <3>2, <1>1, Shapes, QuietOthers DEF Unsaid, Alike
  <2>2. CASE ~CancelTask
    BY <2>2, Unchanging DEF vars, LeaseLapses, RequestPause, ResumeTransfer,
       Request, Heartbeat, Lands, RivalAcquires, RivalReleases, OthersWrite, rowVars
  <2> QED BY <2>1, <2>2
<1>3. /\ transfer'.boundary = transfer.boundary /\ transfer'.owner = transfer.owner
      /\ \/ transfer'.status = transfer.status
         \/ transfer.status = "paused" /\ transfer.owner = 0
  BY <1>1 DEF vars, LeaseLapses, RequestPause, CancelTask, ResumeTransfer,
     Heartbeat, Lands, RivalAcquires, RivalReleases, OthersWrite, rowVars,
     TransferRows, CallInv, Tokens
<1>4. \A w \in Workers : Mine(w)' => Mine(w)
  <2> TAKE w \in Workers
  <2> HAVE Mine(w)'
  <2>1. transfer.owner # 0
    <3>1. pass[w].pc # "idle" /\ transfer.owner = pass[w].token
      BY <1>3 DEF Mine, Named
    <3>2. pass[w].token \in 1 .. transfer.attempts /\ transfer.attempts \in Nat
      BY <1>1, <3>1 DEF CallInv, Tokens, TransferRows
    <3> QED BY <3>1, <3>2
  <2> QED
    BY <1>3, <2>1 DEF Mine, Named
<1>5. (Doubts /\ Underway)'
  BY <1>2, <1>3, UnsaidRows DEF Ended
<1> QED
  BY <1>1, <1>2, <1>4, <1>5, Bystander

-----------------------------------------------------------------------------
(* The invariant.                                                          *)

LEMMA WorkerProgresses ==
  ASSUME LedgerInv, NEW v \in Workers,
         \/ Works(v) /\ ~Lands(v)
         \/ ReleaseIncompatible(v) \/ StartFails(v) \/ Crash(v)
  PROVE  Progresses(v)
<1>1. CASE ClaimNext(v) \/ ClaimExpiredMutation(v)
  BY <1>1, ClaimProgresses DEF ClaimNext, ClaimExpiredMutation
<1>2. CASE \/ BeginTransfer(v) \/ CloseUnstarted(v) \/ ConvergeFailure(v)
           \/ FinishCancelled(v) \/ PauseTransfer(v) \/ ResolveInFlight(v)
           \/ FinishTransfer(v) \/ ReleaseIncompatible(v) \/ StartFails(v)
           \/ Crash(v)
  BY <1>2, EndsProgress, ConvergesProgress, ResolveProgresses
<1>3. CASE \/ Start(v) \/ ReadQueued(v) \/ PublishRunning(v) \/ StopCancelled(v)
           \/ Interrupted(v) \/ ReadAggregate(v) \/ PublishAggregate(v)
           \/ AcknowledgeItems(v) \/ AcknowledgeTask(v)
  BY <1>3, StandsProgress
<1>4. CASE \/ ListItems(v) \/ TakeItem(v) \/ PassOver(v) \/ MarkInterrupted(v)
           \/ AcquireItem(v) \/ LockConflict(v) \/ RefuseItem(v) \/ PublishStart(v)
  BY <1>4, ListItemsProgresses, TakeItemProgresses, PassOverProgresses,
     MarkInterruptedProgresses, AcquireItemProgresses, LockConflictProgresses,
     RefuseItemProgresses, PublishStartProgresses
<1>5. CASE \/ OpenItem(v) \/ EntryChecked(v) \/ RecordPresent(v)
           \/ EnterMutation(v) \/ Return(v) \/ RecordOutcome(v) \/ CompleteItem(v)
  BY <1>5, OpenItemProgresses, EntryCheckedProgresses, RecordPresentProgresses,
     EnterMutationProgresses, ReturnProgresses, RecordOutcomeProgresses,
     CompleteItemProgresses
<1> QED
  BY <1>1, <1>2, <1>3, <1>4, <1>5 DEF Works

\* While the owner works nobody else is the owner; a Worker that lost its
\* claim says nothing new.
LEMMA OthersFit ==
  ASSUME LedgerInv, [Next]_vars, NEW v \in Workers, NEW w \in Workers, v # w,
         \/ Works(v) /\ ~ClaimNext(v) /\ ~ClaimExpiredMutation(v)
         \/ ReleaseIncompatible(v) \/ StartFails(v) \/ Crash(v)
  PROVE  Fit(w)'
<1>1. CallInv /\ LandedStays /\ pass'[w] = pass[w]
      /\ transfer'.owner \in {transfer.owner, 0}
  BY Lasting, OwnerStands DEF LedgerInv
<1>2. CASE Late(v)
  <2>1. Unsaid /\ transfer' = transfer
    BY <1>1, <1>2, LateUnsaid
  <2>2. Mine(w)' => Mine(w)
    BY <1>1, <2>1 DEF Mine, Named
  <2> QED
    BY <1>1, <2>1, <2>2, Bystander
<1>3. CASE ~Late(v)
  <2>1. pass[v].pc # "idle" /\ pass[v].token = transfer.owner
    BY <1>3, NotIdle DEF Late
  <2>2. ~Mine(w)'
    BY <1>1, <2>1 DEF Mine, Named, CallInv, Tokens
  <2> QED
    BY <1>1, <2>2, Outsider
<1> QED BY <1>2, <1>3

LEMMA ClaimFits ==
  ASSUME LedgerInv, [Next]_vars, NEW v \in Workers, NEW w \in Workers, v # w, Claim(v)
  PROVE  Fit(w)'
<1>1. /\ CallInv /\ LandedStays /\ pass'[w] = pass[w]
      /\ transfer'.owner = transfer.attempts + 1 /\ transfer.attempts \in Nat
  BY Lasting, Typed DEF LedgerInv, Claim, RowsOK, TransferRows, PassesOK
<1>2. ~Mine(w)'
  <2> SUFFICES ASSUME pass[w].pc # "idle" PROVE pass[w].token # transfer.attempts + 1
    BY <1>1 DEF Mine, Named
  <2>1. pass[w].token \in 1 .. transfer.attempts
    BY <1>1 DEF CallInv, Tokens
  <2> QED BY <1>1, <2>1
<1> QED
  BY <1>1, <1>2, Outsider

LEMMA LedgerStep == LedgerInv /\ [Next]_vars => LedgerInv'
<1> SUFFICES ASSUME LedgerInv, [Next]_vars PROVE LedgerInv'
  OBVIOUS
<1>1. CallInv' /\ Known'
  BY NextKeeps, KnownKeeps DEF LedgerInv
<1>2. (Doubts /\ Underway)' /\ \A w \in Workers : Fit(w)'
  <2>1. ASSUME NEW v \in Workers,
               \/ Works(v) /\ ~Lands(v)
               \/ ReleaseIncompatible(v) \/ StartFails(v) \/ Crash(v)
        PROVE  (Doubts /\ Underway)' /\ \A w \in Workers : Fit(w)'
    <3>1. Progresses(v)
      BY <2>1, WorkerProgresses
    <3>2. ASSUME NEW w \in Workers, w # v PROVE Fit(w)'
      <4>1. CASE ClaimNext(v) \/ ClaimExpiredMutation(v)
        BY <3>2, <4>1, ClaimFits DEF ClaimNext, ClaimExpiredMutation
      <4>2. CASE ~ClaimNext(v) /\ ~ClaimExpiredMutation(v)
        BY <2>1, <3>2, <4>2, OthersFit
      <4> QED BY <4>1, <4>2
    <3> QED BY <3>1, <3>2 DEF Progresses
  <2>2. ASSUME \/ UNCHANGED vars
               \/ LeaseLapses \/ RequestPause \/ CancelTask \/ ResumeTransfer
               \/ \E v \in Workers : Heartbeat(v) \/ Lands(v)
               \/ \E i \in Items : RivalAcquires(i) \/ RivalReleases(i)
               \/ \E x \in Places : OthersWrite(x)
        PROVE  (Doubts /\ Underway)' /\ \A w \in Workers : Fit(w)'
    <3>1. pass' = pass
      BY <2>2, QuietOthers DEF vars, Heartbeat, Lands, OthersWrite
    <3> QED BY <2>2, <3>1, Watches
  <2> QED
    BY <2>1, <2>2 DEF Next
<1> QED
  BY <1>1, <1>2 DEF LedgerInv, Fit

LEMMA InitLedger == Init => LedgerInv
<1> SUFFICES ASSUME Init PROVE LedgerInv
  OBVIOUS
<1>1. \A w \in Workers : pass[w].pc = "idle"
  BY IdleTyped DEF Init
<1>2. \A x \in Places : ledger[x] = "none"
  BY DEF Init
<1>3. \A w \in Workers : Answered(w) /\ Snapshot(w) /\ Careful(w)
  BY <1>1 DEF Answered, Snapshot, Careful, Mine
<1>4. Known /\ Doubts /\ Underway
  BY <1>2 DEF Init, Known, Doubts, Underway, Places
<1> QED
  BY <1>3, <1>4, InitCalls DEF LedgerInv

LEMMA LedgerInvariant == Spec => []LedgerInv
BY InitLedger, LedgerStep, PTL DEF Spec

-----------------------------------------------------------------------------
(* The refinement.                                                         *)

\* How a step may look to the ledger: it stands; the boundary is cleared and
\* at most its own effect is recorded; or the transfer ends.
Phase  == (transfer'.status \in Ended) <=> (transfer.status \in Ended)
Beside == \A x \in Places : x # transfer.boundary => ledger'[x] = ledger[x]

Stutters == Phase /\ transfer'.boundary = transfer.boundary /\ ledger' = ledger
Clearing == Phase /\ transfer'.boundary = Nowhere /\ Beside
Ending   == transfer'.status \in Ended /\ transfer'.boundary = Nowhere /\ Beside

LEMMA Mapping ==
  ASSUME LedgerInv, LedgerInv', Stutters \/ Clearing \/ Ending
  PROVE  [Ledger!LedgerNext]_Ledger!ledgerVars
<1> DEFINE b == transfer.boundary
           effect == [x \in Places |-> IF b = x THEN "entered" ELSE ledger[x]]
           next == [x \in Places |-> IF transfer'.boundary = x THEN "entered"
                                     ELSE ledger'[x]]
<1>1. /\ ledger \in [Places -> {"none", "known", "unknown"}]
      /\ ledger' \in [Places -> {"none", "known", "unknown"}]
      /\ b \in Places \cup {Nowhere} /\ Nowhere \notin Places
  BY Typed, Numbers DEF LedgerInv, CallInv, TransferTypeOK, TransferRows
<1>2. CASE Stutters
  BY <1>2 DEF Stutters, Phase, Ledger!ledgerVars
<1>3. CASE Clearing /\ b = Nowhere
  <2>1. ledger' = ledger
    BY <1>1, <1>3 DEF Clearing, Beside
  <2> QED
    BY <1>3, <2>1 DEF Clearing, Phase, Ledger!ledgerVars
<1>4. CASE Clearing /\ b \in Places
  <2> PICK x \in Places : x = b
    BY <1>4
  <2>1. next = [effect EXCEPT ![x] = ledger'[x]]
    BY <1>1, <1>4 DEF Clearing, Beside
  <2>2. ledger'[x] \in Ledger!Settled
    BY <1>1 DEF Ledger!Settled
  <2>3. Ledger!Settle(x)
    BY <1>4, <2>1, <2>2 DEF Ledger!Settle, Clearing, Phase
  <2> QED BY <2>3 DEF Ledger!LedgerNext
<1>5. CASE Ending
  <2> DEFINE v == IF b \in Places THEN ledger'[b] ELSE "none"
  <2>1. v \in Ledger!Settled
    BY <1>1 DEF Ledger!Settled
  <2>2. next = [x \in Places |-> IF effect[x] = "entered" THEN v ELSE effect[x]]
    BY <1>1, <1>5 DEF Ending, Beside
  <2>3. Ledger!Close
    BY <1>5, <2>1, <2>2 DEF Ledger!Close, Ending
  <2> QED BY <2>3 DEF Ledger!LedgerNext
<1> QED BY <1>1, <1>2, <1>3, <1>4, <1>5

\* An operation is entered only over an effect that is neither known nor in
\* doubt.
LEMMA Entering ==
  ASSUME LedgerInv, NEW w \in Workers, EnterMutation(w)
  PROVE  [Ledger!LedgerNext]_Ledger!ledgerVars \/ Stutters
<1>1. CASE Stop(w)
  BY <1>1 DEF Stop, EnterMutation, Stutters, Phase
<1>2. CASE ~Stop(w)
  <2>0. Here(w) \in Places
    BY InPlace DEF EnterMutation, Stop, LedgerInv, OnEntry
  <2> PICK x \in Places : x = Here(w)
    BY <2>0
  <2> DEFINE effect == [y \in Places |-> IF transfer.boundary = y THEN "entered"
                                         ELSE ledger[y]]
             next == [y \in Places |-> IF transfer'.boundary = y THEN "entered"
                                       ELSE ledger'[y]]
  <2>1. /\ Held(w) /\ transfer.boundary = Nowhere /\ transfer' = Boundary(x)
        /\ pass[w].pc = "open" /\ ledger' = ledger
    BY <1>2 DEF EnterMutation
  <2>2. /\ x \in Places /\ Nowhere \notin Places
        /\ transfer'.boundary = x /\ transfer'.status = transfer.status
        /\ ledger \in [Places -> {"none", "known", "unknown"}]
    BY <2>1, Numbers, InPlace, Typed, BoundaryTyped
       DEF LedgerInv, RowsOK, WorldOK, OnEntry
  <2>3. transfer.status \notin Ended /\ ledger[x] = "none"
    BY <2>1, HeldMine DEF LedgerInv, Careful
  <2>4. next = [effect EXCEPT ![x] = "entered"]
    BY <2>1, <2>2
  <2>5. effect[x] = "none" /\ \A y \in Places : effect[y] # "entered"
    BY <2>1, <2>2, <2>3
  <2>6. Ledger!Enter(x)
    BY <2>2, <2>3, <2>4, <2>5 DEF Ledger!Enter
  <2> QED BY <2>2, <2>6 DEF Ledger!LedgerNext
<1> QED BY <1>1, <1>2

LEMMA ConvergedEnds ==
  ASSUME LedgerInv, NEW forced, Converged(forced), Beside PROVE Ending
<1>1. transfer'.status \in Ended
  BY Typed, ConvergedTyped DEF LedgerInv
<1>2. transfer'.boundary = Nowhere
  BY Typed DEF Converged, LedgerInv, RowsOK, TransferRows
<1> QED BY <1>1, <1>2 DEF Ending

\* Claims and leases come and go under an open transfer.
LEMMA ClaimsStutter ==
  ASSUME LedgerInv,
         \/ \E w \in Workers : \/ Claim(w) \/ BeginTransfer(w) \/ PauseTransfer(w)
                               \/ ReleaseIncompatible(w) \/ Heartbeat(w)
                               \/ EntryChecked(w)
         \/ LeaseLapses \/ ResumeTransfer
  PROVE  Stutters
<1>1. transfer \in TransferRows
  BY Typed DEF LedgerInv, RowsOK
<1>2. ledger' = ledger
  BY DEF Claim, BeginTransfer, PauseTransfer, ReleaseIncompatible, Heartbeat,
     EntryChecked, LeaseLapses, ResumeTransfer, Request
<1>3. transfer'.boundary = transfer.boundary
  BY <1>1 DEF Claim, BeginTransfer, PauseTransfer, ReleaseIncompatible, Heartbeat,
     EntryChecked, LeaseLapses, ResumeTransfer, TransferRows
<1>4. Phase
  BY <1>1 DEF Phase, Claim, Claimable, BeginTransfer, PauseTransfer, Held, Named,
     ReleaseIncompatible, Heartbeat, EntryChecked, LeaseLapses, ResumeTransfer,
     TransferRows, OpenStatus, Ended
<1> QED BY <1>2, <1>3, <1>4 DEF Stutters

LEMMA EndsClose ==
  ASSUME LedgerInv, NEW w \in Workers,
         \/ CloseUnstarted(w) \/ ConvergeFailure(w) \/ FinishCancelled(w)
         \/ FinishTransfer(w)
  PROVE  Stutters \/ Ending
<1>1. /\ transfer \in TransferRows /\ ledger' = ledger /\ Beside
      /\ TransferOutcome(item) \in Ended
  BY Typed, TransferOutcomeEnds DEF LedgerInv, RowsOK, CloseUnstarted,
     ConvergeFailure, FinishCancelled, FinishTransfer, Beside
<1>2. CASE Converged(0)
  BY <1>1, <1>2, ConvergedEnds
<1>3. CASE transfer' = transfer
  BY <1>1, <1>3 DEF Stutters, Phase
<1>4. ASSUME NEW s \in Ended,
             transfer' = [transfer EXCEPT !.status = s, !.boundary = Nowhere]
      PROVE  Ending
  BY <1>1, <1>4 DEF Ending, TransferRows
<1> QED
  BY <1>1, <1>2, <1>3, <1>4 DEF CloseUnstarted, ConvergeFailure, FinishCancelled,
     FinishTransfer, Ended

\* Evidence is recorded together with the boundary it stands for.
LEMMA RecordsClear ==
  ASSUME LedgerInv, NEW w \in Workers,
         \/ OpenItem(w) \/ RecordPresent(w) \/ RecordOutcome(w) \/ ResolveInFlight(w)
  PROVE  Stutters \/ Clearing \/ Ending
<1>1. CASE Stop(w) /\ ledger' = ledger
  BY <1>1 DEF Stop, Stutters, Phase
<1>2. ASSUME transfer' = Boundary(Nowhere), Beside PROVE Clearing
  BY <1>2, Typed, BoundaryTyped DEF LedgerInv, RowsOK, Clearing, Phase
<1>3. CASE OpenItem(w) \/ RecordPresent(w)
  <2>1. ledger' = ledger /\ Beside
    BY <1>3 DEF OpenItem, RecordPresent, Beside
  <2> QED
    BY <1>1, <1>2, <1>3, <2>1 DEF OpenItem, RecordPresent, Progress
<1>4. CASE RecordOutcome(w) /\ Held(w)
  <2>1. pass[w].pc = "record" /\ Mine(w)
    BY <1>4, HeldMine DEF RecordOutcome
  <2>2. transfer.boundary = Here(w)
    BY <2>1 DEF LedgerInv, CallInv, Inside
  <2>3. transfer' = Boundary(Nowhere) /\ Beside
    BY <1>4, <2>2, Typed DEF RecordOutcome, Progress, Beside, LedgerInv, WorldOK
  <2> QED BY <1>2, <2>3
<1>5. CASE RecordOutcome(w) /\ ~Held(w)
  BY <1>1, <1>5 DEF RecordOutcome
<1>6. CASE ResolveInFlight(w)
  <2>1. CASE Held(w) /\ ~Proven(transfer.boundary)
    <3>1. Converged(transfer.boundary[1]) /\ Beside
      BY <1>6, <2>1, Typed DEF ResolveInFlight, Beside, LedgerInv, WorldOK
    <3> QED BY <3>1, ConvergedEnds
  <2>2. CASE Held(w) /\ Proven(transfer.boundary)
    <3>1. transfer' = Boundary(Nowhere) /\ Beside
      BY <1>6, <2>2, Typed DEF ResolveInFlight, Beside, LedgerInv, WorldOK
    <3> QED BY <1>2, <3>1
  <2>3. CASE ~Held(w)
    BY <1>1, <1>6, <2>3 DEF ResolveInFlight
  <2> QED BY <2>1, <2>2, <2>3
<1> QED BY <1>3, <1>4, <1>5, <1>6

\* The other steps leave the transfer row and the ledger alone.
LEMMA RestStutter ==
  ASSUME \/ UNCHANGED vars
         \/ \E w \in Workers :
              \/ Start(w) \/ ReadQueued(w) \/ PublishRunning(w) \/ ListItems(w)
              \/ StopCancelled(w) \/ TakeItem(w) \/ PassOver(w)
              \/ MarkInterrupted(w) \/ AcquireItem(w) \/ LockConflict(w)
              \/ RefuseItem(w) \/ PublishStart(w) \/ Interrupted(w) \/ Lands(w)
              \/ Return(w) \/ CompleteItem(w) \/ ReadAggregate(w)
              \/ PublishAggregate(w) \/ AcknowledgeItems(w) \/ AcknowledgeTask(w)
              \/ StartFails(w) \/ Crash(w)
         \/ RequestPause \/ CancelTask
         \/ \E i \in Items : RivalAcquires(i) \/ RivalReleases(i)
         \/ \E x \in Places : OthersWrite(x)
  PROVE  Stutters
<1> SUFFICES transfer' = transfer /\ ledger' = ledger
  BY DEF Stutters, Phase
<1>1. CASE \E w \in Workers :
             \/ Start(w) \/ ReadQueued(w) \/ PublishRunning(w) \/ ListItems(w)
             \/ StopCancelled(w) \/ TakeItem(w) \/ PassOver(w)
             \/ MarkInterrupted(w) \/ AcquireItem(w) \/ LockConflict(w)
             \/ RefuseItem(w) \/ PublishStart(w)
  BY <1>1 DEF Start, ReadQueued, PublishRunning, ListItems, StopCancelled,
     TakeItem, PassOver, MarkInterrupted, AcquireItem, LockConflict, RefuseItem,
     PublishStart, Stop, rowVars
<1>2. CASE \E w \in Workers :
             \/ Interrupted(w) \/ Lands(w) \/ Return(w) \/ CompleteItem(w)
             \/ ReadAggregate(w) \/ PublishAggregate(w) \/ AcknowledgeItems(w)
             \/ AcknowledgeTask(w) \/ StartFails(w) \/ Crash(w)
  BY <1>2 DEF Interrupted, Lands, Return, CompleteItem, ReadAggregate,
     PublishAggregate, AcknowledgeItems, AcknowledgeTask, StartFails, Crash, Stop,
     rowVars
<1> QED
  BY <1>1, <1>2 DEF vars, RequestPause, CancelTask, Request, RivalAcquires,
     RivalReleases, OthersWrite, rowVars

\* Every step has one of the forms, or enters an operation.
LEMMA StepForms ==
  ASSUME LedgerInv, [Next]_vars
  PROVE  \/ Stutters \/ Ending
         \/ \E w \in Workers : EnterMutation(w) /\ ~Stop(w)
         \/ /\ Clearing
            /\ \E w \in Workers : \/ OpenItem(w) \/ RecordPresent(w)
                                  \/ RecordOutcome(w) \/ ResolveInFlight(w)
<1>1. ASSUME NEW w \in Workers, EnterMutation(w), Stop(w) PROVE Stutters
  BY <1>1 DEF Stop, EnterMutation, Stutters, Phase
<1>2. CASE \/ \E w \in Workers : \/ ClaimNext(w) \/ ClaimExpiredMutation(w)
                                 \/ BeginTransfer(w) \/ PauseTransfer(w)
                                 \/ ReleaseIncompatible(w) \/ Heartbeat(w)
                                 \/ EntryChecked(w)
           \/ LeaseLapses \/ ResumeTransfer
  BY <1>2, ClaimsStutter DEF ClaimNext, ClaimExpiredMutation
<1>3. CASE \E w \in Workers :
             \/ CloseUnstarted(w) \/ ConvergeFailure(w) \/ FinishCancelled(w)
             \/ FinishTransfer(w)
  BY <1>3, EndsClose
<1>4. CASE \E w \in Workers : \/ OpenItem(w) \/ RecordPresent(w)
                              \/ RecordOutcome(w) \/ ResolveInFlight(w)
  BY <1>4, RecordsClear
<1> QED
  BY <1>1, <1>2, <1>3, <1>4, RestStutter DEF Next, Works

\* Whoever enters a transfer's operations, and through takeovers, crashes,
\* pauses and continuations: they are entered one at a time, never again once
\* the effect is known or in doubt, and none after the end.
THEOREM TransferKeepsLedger == Spec => KeepsLedger
<1>1. Init => Ledger!LedgerInit
  BY DEF Init, Ledger!LedgerInit, Ended, Nowhere, Places, Items, Entries
<1>2. LedgerInv /\ LedgerInv' /\ [Next]_vars => [Ledger!LedgerNext]_Ledger!ledgerVars
  BY StepForms, Entering, Mapping
<1> QED
  BY <1>1, <1>2, LedgerInvariant, PTL DEF Spec, KeepsLedger, Ledger!LedgerSpec

-----------------------------------------------------------------------------
(* What an item that ends as successful has to show.                       *)

Firm  == {"landed", "foreign"}
\* Steps of a pass that has decided nothing yet.
Early == {"claimed", "resolve", "start", "queue", "publish", "list", "items"}
           \cup Taken

Shown(i, outs) == \A e \in Entries : outs[e] = "success" => world[<<i, e>>] = "landed"

\* What the property asks of a successful item.
Whole(i) ==
  \A e \in Entries :
    world[<<i, e>>] \in IF Tree /\ e = 1 THEN Firm ELSE {"landed"}

Vouched ==
  \A i \in Items : /\ Shown(i, item[i].progress.outs)
                   /\ item[i].status = "success" => Whole(i)

\* A call that has begun to write is named by the boundary or in doubt.
Halves ==
  transfer.status \notin Ended =>
    \A x \in Places : world[x] = "half" =>
      transfer.boundary = x \/ ledger[x] = "unknown"

RootUnder ==
  /\ transfer.status \notin Ended /\ transfer.boundary # Nowhere
  /\ Tree /\ transfer.boundary[2] # 1
  => world[<<transfer.boundary[1], 1>>] \in Firm

Refused(w) ==
  Mine(w) /\ pass[w].pc = "record" /\ pass[w].answer = "failed" =>
    world[Here(w)] # "half"

Decided(p, e) ==
  \/ p.outs[e] # "absent" /\ (Tree /\ e = 1 => p.outs[e] = "success")
  \/ e \in p.skip
  \/ Tree /\ e = 1 /\ world[<<p.item, 1>>] \in Firm

Listed(w) ==
  pass[w].pc \in OnList =>
    \A i \in Items : Shown(i, pass[w].rows[i].progress.outs)

Collected(w) ==
  pass[w].pc \in OnItem \cup OnEntry =>
    /\ Shown(pass[w].item, pass[w].outs)
    /\ \A e \in pass[w].skip : world[<<pass[w].item, e>>] = "landed"

Untried(w) == pass[w].pc \in Early => pass[w].outs = Blank /\ pass[w].entry = 1

InOrder(w) ==
  pass[w].pc \in Running =>
    \A e \in Entries : e < pass[w].entry => Decided(pass[w], e)

Rootless(w) ==
  pass[w].pc = "complete" => pass[w].outs[1] \in {"failed", "skipped", "uncertain"}

Adopts(w) ==
  pass[w].pc = "adopt" => pass[w].entry \in Entries /\ world[Here(w)] = "landed"

Evidence(w) ==
  /\ Listed(w) /\ Collected(w) /\ Untried(w)
  /\ InOrder(w) /\ Rootless(w) /\ Adopts(w)

ShownInv ==
  /\ LedgerInv
  /\ Vouched /\ Halves /\ RootUnder
  /\ \A w \in Workers : Refused(w) /\ Evidence(w)

Steady ==
  /\ LandedStays
  /\ \A x \in Places : world[x] \in Firm => world'[x] \in Firm

LEMMA Steadies ==
  ASSUME CallInv, [Next]_vars PROVE Steady
<1>1. LandedStays
  BY Lasting
<1>2. CASE world' = world
  BY <1>1, <1>2 DEF Steady
<1>3. ASSUME NEW w \in Workers, Lands(w) PROVE Steady
  BY <1>1, <1>3, Typed DEF Lands, Steady, Firm, WorldOK
<1>4. ASSUME NEW x \in Places, OthersWrite(x) PROVE Steady
  BY <1>1, <1>4, Typed DEF OthersWrite, Steady, Firm, WorldOK
<1>5. ASSUME NEW w \in Workers, RecordOutcome(w) \/ ResolveInFlight(w)
      PROVE  world' = world
  BY <1>5 DEF RecordOutcome, ResolveInFlight
<1> QED
  BY <1>2, <1>3, <1>4, <1>5, QuietWorks, QuietOthers DEF Next, vars

-----------------------------------------------------------------------------
(* The evidence a pass carries.                                            *)

LEMMA Carried ==
  ASSUME ShownInv, NEW w \in Workers
  PROVE  /\ pass[w].pc \in OnItem \cup OnEntry => pass[w].item \in Items
         /\ pass[w].skip \subseteq Entries
         /\ pass[w].outs \in OutcomeLists /\ pass[w].entry \in Nat
         /\ Evidence(w) /\ CallInv /\ PassesOK
<1>1. CallInv /\ pass[w] \in Frames /\ PassesOK
  BY Typed DEF ShownInv, LedgerInv
<1> QED
  BY <1>1, InPlace DEF ShownInv, Frames

LEMMA Bears ==
  ASSUME ShownInv, Steady, NEW w \in Workers,
         pass'[w].item = pass[w].item, pass'[w].entry = pass[w].entry,
         pass'[w].outs = pass[w].outs, pass'[w].skip = pass[w].skip,
         pass'[w].rows = pass[w].rows,
         pass'[w].pc \in OnList => pass[w].pc \in OnList,
         pass'[w].pc \in OnItem \cup OnEntry => pass[w].pc \in OnItem \cup OnEntry,
         pass'[w].pc \in Early => pass[w].pc \in Early,
         pass'[w].pc \in Running => pass[w].pc \in Running \/ pass[w].entry = 1,
         pass'[w].pc = "complete" => pass[w].pc = "complete",
         pass'[w].pc = "adopt" =>
           \/ pass[w].pc = "adopt"
           \/ pass[w].entry \in Entries /\ world[Here(w)] = "landed"
  PROVE  Evidence(w)'
<1>1. /\ pass[w].pc \in OnItem \cup OnEntry => pass[w].item \in Items
      /\ pass[w].skip \subseteq Entries /\ Evidence(w)
      /\ \A i \in Items, e \in Entries : <<i, e>> \in Places
  BY Carried DEF Places
<1>2. Listed(w)'
  BY <1>1 DEF Evidence, Listed, Shown, Steady, LandedStays
<1>3. Collected(w)'
  BY <1>1 DEF Evidence, Collected, Shown, Steady, LandedStays
<1>4. InOrder(w)'
  <2> SUFFICES ASSUME pass'[w].pc \in Running, NEW e \in Entries, e < pass[w].entry
               PROVE  Decided(pass[w], e)'
    BY DEF InOrder
  <2>1. pass[w].entry # 1 /\ 1 \in Entries
    BY Numbers
  <2>2. Decided(pass[w], e)
    BY <1>1, <2>1 DEF Evidence, InOrder
  <2>3. pass[w].item \in Items
    BY <1>1, Groups DEF OnItem, OnEntry, Running, Checked
  <2> QED
    BY <1>1, <2>1, <2>2, <2>3 DEF Decided, Steady
<1>5. Adopts(w)'
  BY <1>1 DEF Evidence, Adopts, OnItem, Here, Steady, LandedStays
<1>6. Untried(w)' /\ Rootless(w)'
  BY <1>1 DEF Evidence, Untried, Rootless
<1> QED
  BY <1>2, <1>3, <1>4, <1>5, <1>6 DEF Evidence

\* A pass that turns to the next item takes along only the rows.
LEMMA Turned ==
  ASSUME ShownInv, Steady, NEW w \in Workers, NextItem(w), pass[w].pc \in OnList
  PROVE  Evidence(w)'
<1>1. /\ pass'[w].pc = "items" /\ pass'[w].rows = pass[w].rows
      /\ pass'[w].outs = Blank /\ pass'[w].entry = 1
  BY Carried, TurningTo
<1>2. Listed(w)'
  BY <1>1, Carried DEF Evidence, Listed, Shown, Steady, LandedStays, Places
<1> QED
  BY <1>1, <1>2 DEF Evidence, Collected, Untried, InOrder, Rootless, Adopts, OnItem,
     OnEntry, Running, Checked

LEMMA Left ==
  ASSUME NEW w \in Workers, pass'[w].pc \notin OnList \cup Early
  PROVE  Evidence(w)'
BY DEF Evidence, Listed, Collected, Untried, InOrder, Rootless, Adopts, OnList,
   OnItem, OnEntry, Running, Checked

LEMMA Outward ==
  ASSUME ShownInv, NEW w \in Workers, NEW c, Goto(w, c), c \notin OnList \cup Early
  PROVE  Evidence(w)'
<1>1. pass'[w].pc = c
  BY Carried, GoingOn
<1> QED
  BY <1>1, Left

LEMMA Rested ==
  ASSUME ShownInv, NEW w \in Workers, pass' = [pass EXCEPT ![w] = Idle]
  PROVE  Evidence(w)'
<1>1. pass'[w].pc = "idle"
  BY Carried, Resting
<1> QED
  BY <1>1, Left DEF OnList, OnItem, OnEntry, Early, Taken

\* A pass that goes on to a step c.
LEMMA Onward ==
  ASSUME ShownInv, Steady, NEW w \in Workers, NEW c, Goto(w, c),
         c \in OnList => pass[w].pc \in OnList,
         c \in OnItem \cup OnEntry => pass[w].pc \in OnItem \cup OnEntry,
         c \in Early => pass[w].pc \in Early,
         c \in Running => pass[w].pc \in Running \/ pass[w].entry = 1,
         c # "complete",
         c = "adopt" => pass[w].entry \in Entries /\ world[Here(w)] = "landed"
  PROVE  Evidence(w)'
<1>1. /\ pass'[w].pc = c /\ pass'[w].item = pass[w].item
      /\ pass'[w].entry = pass[w].entry /\ pass'[w].outs = pass[w].outs
      /\ pass'[w].skip = pass[w].skip /\ pass'[w].rows = pass[w].rows
  BY Carried, GoingOn
<1> QED
  BY <1>1, Bears

LEMMA ClaimShows ==
  ASSUME ShownInv, NEW w \in Workers, Claim(w) PROVE Evidence(w)'
<1>1. pass'[w] = [Idle EXCEPT !.pc = "claimed", !.token = transfer.attempts + 1]
  BY Carried DEF Claim, PassesOK
<1>2. pass'[w].pc = "claimed" /\ pass'[w].outs = Blank /\ pass'[w].entry = 1
  BY <1>1 DEF Idle
<1> QED
  BY <1>2 DEF Evidence, Listed, Collected, Untried, InOrder, Rootless, Adopts,
     OnList, OnItem, OnEntry, Running, Checked

\* Steps before the items, after them, and beside them.
LEMMA AroundShows ==
  ASSUME ShownInv, Steady, NEW w \in Workers,
         \/ BeginTransfer(w) \/ CloseUnstarted(w) \/ ConvergeFailure(w)
         \/ FinishCancelled(w) \/ PauseTransfer(w) \/ ResolveInFlight(w)
         \/ Start(w) \/ ReadQueued(w) \/ PublishRunning(w) \/ StopCancelled(w)
         \/ Interrupted(w) \/ ReadAggregate(w) \/ PublishAggregate(w)
         \/ FinishTransfer(w) \/ AcknowledgeItems(w) \/ AcknowledgeTask(w)
         \/ ReleaseIncompatible(w) \/ StartFails(w) \/ Crash(w)
  PROVE  Evidence(w)'
<1>1. CASE pass' = [pass EXCEPT ![w] = Idle]
  BY <1>1, Rested
<1>2. ASSUME NEW c \in {"unstarted", "cancelled", "paused", "acknowledge",
                        "acknowledged", "erred", "finish"}, Goto(w, c)
      PROVE  Evidence(w)'
  BY <1>2, Outward DEF OnList, OnItem, OnEntry, Early, Taken
<1>3. ASSUME NEW c \in {"resolve", "start", "queue", "publish", "list"}, Goto(w, c),
             pass[w].pc \in Early
      PROVE  Evidence(w)'
  BY <1>3, Onward DEF OnList, OnItem, OnEntry, Running, Checked
<1>4. CASE BeginTransfer(w) \/ Start(w) \/ PublishRunning(w) \/ ResolveInFlight(w)
  <2>1. pass[w].pc \in {"claimed", "start", "publish", "resolve"}
    BY <1>4 DEF BeginTransfer, Start, PublishRunning, ResolveInFlight
  <2>2. pass[w].pc \in Early
    BY <2>1 DEF Early
  <2>3. \/ pass' = [pass EXCEPT ![w] = Idle]
        \/ \E c \in {"resolve", "start", "queue", "list", "unstarted", "cancelled",
                     "paused"} : Goto(w, c)
    BY <1>4 DEF BeginTransfer, Start, PublishRunning, ResolveInFlight, Stop
  <2> QED BY <1>1, <1>2, <1>3, <2>2, <2>3
<1>5. CASE ReadQueued(w)
  <2> DEFINE c == CASE task.status = "running" -> "list"
                    [] task.status = "pending" -> "publish"
                    [] OTHER -> "erred"
  <2>1. pass[w].pc = "queue" /\ Goto(w, c) /\ c \in {"list", "publish", "erred"}
    BY <1>5 DEF ReadQueued, Goto
  <2>2. pass[w].pc \in Early
    BY <2>1 DEF Early
  <2> HIDE DEF c
  <2> QED BY <1>2, <1>3, <2>1, <2>2
<1>6. CASE ReadAggregate(w)
  <2>1. pass'[w].pc = "aggregate"
    BY <1>6, Carried DEF ReadAggregate, PassesOK, Frames
  <2> QED BY <2>1, Left DEF OnList, OnItem, OnEntry, Early, Taken
<1>7. CASE \/ CloseUnstarted(w) \/ ConvergeFailure(w) \/ FinishCancelled(w)
           \/ PauseTransfer(w) \/ StopCancelled(w) \/ Interrupted(w)
           \/ PublishAggregate(w) \/ FinishTransfer(w) \/ AcknowledgeItems(w)
           \/ AcknowledgeTask(w) \/ ReleaseIncompatible(w) \/ StartFails(w) \/ Crash(w)
  <2>1. \/ pass' = [pass EXCEPT ![w] = Idle]
        \/ \E c \in {"unstarted", "cancelled", "paused", "acknowledge",
                     "acknowledged", "erred", "finish"} : Goto(w, c)
    BY <1>7 DEF CloseUnstarted, ConvergeFailure, FinishCancelled, PauseTransfer,
       StopCancelled, Interrupted, PublishAggregate, FinishTransfer, AcknowledgeItems,
       AcknowledgeTask, ReleaseIncompatible, StartFails, Crash
  <2> QED BY <1>1, <1>2, <2>1
<1> QED BY <1>4, <1>5, <1>6, <1>7

\* The rows are read with what they vouch for.
LEMMA ListItemsShows ==
  ASSUME ShownInv, Steady, NEW w \in Workers, ListItems(w) PROVE Evidence(w)'
<1>1. /\ pass[w].pc = "list" /\ pass'[w].pc = "items" /\ pass'[w].rows = item
      /\ pass'[w].outs = pass[w].outs /\ pass'[w].entry = pass[w].entry
  BY Carried DEF ListItems, PassesOK, Frames
<1>2. Listed(w)'
  BY <1>1 DEF ShownInv, Vouched, Listed, Shown, Steady, LandedStays, Places
<1>3. Untried(w)'
  BY <1>1, Carried DEF Evidence, Untried, Early
<1> QED
  BY <1>1, <1>2, <1>3 DEF Evidence, Collected, InOrder, Rootless, Adopts, OnItem,
     OnEntry, Running, Checked

\* What a continuation skips has landed.
LEMMA TakeItemShows ==
  ASSUME ShownInv, Steady, NEW w \in Workers, TakeItem(w) PROVE Evidence(w)'
<1> DEFINE row == pass[w].rows[pass[w].item]
<1>1. /\ pass[w].pc = "items" /\ pass[w].item \in Items
      /\ pass' = [pass EXCEPT ![w].pc = "acquire", ![w].resuming = ~Fresh(row),
                    ![w].skip = {e \in Entries : row.progress.outs[e] = "success"}]
  BY DEF TakeItem, Deciding
<1>2. /\ pass'[w].pc = "acquire" /\ pass'[w].item = pass[w].item
      /\ pass'[w].rows = pass[w].rows /\ pass'[w].outs = pass[w].outs
      /\ pass'[w].entry = pass[w].entry
      /\ pass'[w].skip = {e \in Entries : row.progress.outs[e] = "success"}
  BY <1>1, Carried DEF PassesOK, Frames
<1>3. Listed(w) /\ Untried(w)
  BY Carried DEF Evidence
<1>4. pass[w].outs = Blank /\ pass[w].entry = 1
  BY <1>1, <1>3 DEF Untried, Early
<1>5. Listed(w)'
  <2>1. pass'[w].rows = pass[w].rows /\ pass[w].pc \in OnList
    BY <1>1, <1>2 DEF OnList
  <2> QED
    BY <1>3, <2>1 DEF Listed, Shown, Steady, LandedStays, Places
<1>6. Collected(w)'
  <2>1. \A e \in Entries : row.progress.outs[e] = "success" =>
          world'[<<pass[w].item, e>>] = "landed"
    BY <1>1, <1>3 DEF Listed, Shown, Steady, LandedStays, Places, OnList
  <2>2. \A e \in Entries : Blank[e] # "success"
    BY DEF Blank
  <2> QED
    BY <1>2, <1>4, <2>1, <2>2 DEF Collected, Shown
<1> QED
  BY <1>2, <1>4, <1>5, <1>6 DEF Evidence, Untried, InOrder, Rootless, Adopts,
     Running, Checked

\* Steps that begin, refuse or pass over an item, or complete it.
LEMMA ItemShows ==
  ASSUME ShownInv, Steady, NEW w \in Workers,
         \/ PassOver(w) \/ MarkInterrupted(w) \/ AcquireItem(w) \/ LockConflict(w)
         \/ RefuseItem(w) \/ PublishStart(w) \/ CompleteItem(w)
  PROVE  Evidence(w)'
<1>1. CASE pass' = [pass EXCEPT ![w] = Idle]
  BY <1>1, Rested
<1>2. CASE Goto(w, "acknowledge")
  BY <1>2, Outward DEF OnList, OnItem, OnEntry, Early, Taken
<1>3. CASE NextItem(w)
  <2>1. pass[w].pc \in OnList
    BY DEF PassOver, MarkInterrupted, Deciding, AcquireItem, LockConflict,
       RefuseItem, PublishStart, CompleteItem, OnList, OnItem
  <2> QED BY <1>3, <2>1, Turned
<1>4. ASSUME NEW c \in {"refuse", "conflict", "begin", "open item"}, Goto(w, c),
             pass[w].pc \in Taken
      PROVE  Evidence(w)'
  BY <1>4, Onward DEF Taken, OnList, OnItem, Early, Running, Checked
<1>5. CASE PassOver(w) \/ MarkInterrupted(w) \/ RefuseItem(w) \/ CompleteItem(w)
  BY <1>1, <1>3, <1>5 DEF PassOver, MarkInterrupted, RefuseItem, CompleteItem, Stop
<1>6. CASE AcquireItem(w) \/ LockConflict(w) \/ PublishStart(w)
  <2>1. pass[w].pc \in Taken
    BY <1>6 DEF AcquireItem, LockConflict, PublishStart, Taken
  <2>2. \/ pass' = [pass EXCEPT ![w] = Idle]
        \/ NextItem(w) \/ Goto(w, "acknowledge")
        \/ \E c \in {"refuse", "conflict", "begin", "open item"} : Goto(w, c)
    BY <1>6 DEF AcquireItem, LockConflict, PublishStart, Stop
  <2> QED BY <1>1, <1>2, <1>3, <1>4, <2>1, <2>2
<1> QED BY <1>5, <1>6

\* A pass that adds an outcome to what it has collected.
LEMMA Told ==
  ASSUME ShownInv, Steady, NEW w \in Workers, NEW n, NEW out,
         pass[w].pc \in OnItem \cup OnEntry,
         pass'[w].item = pass[w].item, pass'[w].rows = pass[w].rows,
         pass'[w].skip = pass[w].skip,
         pass'[w].outs = [pass[w].outs EXCEPT ![n] = out],
         out = "success" => n \in Entries /\ world[<<pass[w].item, n>>] = "landed",
         pass'[w].pc \in {"entry", "complete"}
  PROVE  Listed(w)' /\ Collected(w)' /\ Untried(w)' /\ Adopts(w)'
<1>1. /\ pass[w].item \in Items /\ pass[w].skip \subseteq Entries
      /\ pass[w].outs \in OutcomeLists /\ Evidence(w) /\ pass[w].pc \in OnList
  BY Carried, Groups
<1>2. Listed(w)'
  BY <1>1 DEF Evidence, Listed, Shown, Steady, LandedStays, Places
<1>3. Collected(w)'
  <2>1. Collected(w)
    BY <1>1 DEF Evidence
  <2>2. \A e \in pass[w].skip : world'[<<pass[w].item, e>>] = "landed"
    BY <1>1, <2>1 DEF Collected, Steady, LandedStays, Places
  <2>3. ASSUME NEW e \in Entries, pass'[w].outs[e] = "success"
        PROVE  world'[<<pass[w].item, e>>] = "landed"
    <3>1. world[<<pass[w].item, e>>] = "landed"
      BY <1>1, <2>1, <2>3 DEF Collected, Shown, OutcomeLists
    <3> QED BY <1>1, <3>1 DEF Steady, LandedStays, Places
  <2> QED
    BY <2>2, <2>3 DEF Collected, Shown
<1> QED
  BY <1>2, <1>3 DEF Untried, Adopts, Early, Taken

LEMMA AfterShows ==
  ASSUME ShownInv, Steady, NEW w \in Workers, NEW out, After(w, out),
         pass[w].pc \in {"adopt", "present", "record"},
         out \in {"success", "failed", "skipped", "uncertain"},
         out = "success" => pass[w].entry \in Entries /\ world[Here(w)] = "landed"
  PROVE  Evidence(w)'
<1> DEFINE n == pass[w].entry
           ended == Tree /\ n = 1 /\ out # "success"
<1>1. /\ pass[w].pc \in OnItem \cup OnEntry /\ pass[w].pc \in Running
      /\ pass[w].item \in Items /\ pass[w].outs \in OutcomeLists /\ n \in Nat
      /\ Evidence(w) /\ PassesOK /\ 1 \in Entries /\ Entries \subseteq Nat
  BY Carried, Numbers DEF OnItem, OnEntry, Running, Checked
<1>2. /\ pass'[w].pc = IF ended THEN "complete" ELSE "entry"
      /\ pass'[w].item = pass[w].item /\ pass'[w].entry = n + 1
      /\ pass'[w].rows = pass[w].rows /\ pass'[w].skip = pass[w].skip
      /\ pass'[w].outs = [pass[w].outs EXCEPT ![n] = out]
  BY <1>1 DEF After, PassesOK, Frames
<1>3. Listed(w)' /\ Collected(w)' /\ Untried(w)' /\ Adopts(w)'
  <2>1. out = "success" => n \in Entries /\ world[<<pass[w].item, n>>] = "landed"
    BY DEF Here
  <2>2. /\ pass'[w].pc \in {"entry", "complete"}
        /\ pass[w].pc \in OnItem \cup OnEntry
        /\ pass'[w].item = pass[w].item /\ pass'[w].rows = pass[w].rows
        /\ pass'[w].skip = pass[w].skip
        /\ pass'[w].outs = [pass[w].outs EXCEPT ![n] = out]
    BY <1>1, <1>2
  <2> HIDE DEF n, ended
  <2> QED BY <2>1, <2>2, Told
<1>4. InOrder(w)'
  <2> SUFFICES ASSUME ~ended, NEW e \in Entries, e < n + 1
               PROVE  Decided(pass[w], e)'
    BY <1>2 DEF InOrder, Running, Checked
  <2>1. CASE e = n
    <3>1. pass'[w].outs[e] = out
      BY <1>1, <1>2, <2>1 DEF OutcomeLists
    <3> QED BY <2>1, <3>1 DEF Decided
  <2>2. CASE e # n
    <3>1. e < n
      BY <1>1, <2>2
    <3>2. Decided(pass[w], e)
      BY <1>1, <3>1 DEF Evidence, InOrder
    <3>3. pass'[w].outs[e] = pass[w].outs[e]
      BY <1>1, <1>2, <2>2 DEF OutcomeLists
    <3> QED BY <1>1, <1>2, <3>2, <3>3 DEF Decided, Steady, Places
  <2> QED BY <2>1, <2>2
<1>5. Rootless(w)'
  BY <1>1, <1>2 DEF Rootless, OutcomeLists
<1> QED
  BY <1>3, <1>4, <1>5 DEF Evidence

LEMMA OpenItemShows ==
  ASSUME ShownInv, Steady, NEW w \in Workers, OpenItem(w) PROVE Evidence(w)'
<1>1. /\ pass[w].pc = "open item" /\ pass[w].pc \in OnItem /\ pass[w].pc \in OnList
      /\ Evidence(w) /\ PassesOK /\ pass[w].outs \in OutcomeLists /\ 1 \in Entries
  BY Carried, Numbers DEF OpenItem, OnItem, OnList
<1>2. pass[w].outs = Blank /\ pass[w].entry = 1
  BY <1>1 DEF Evidence, Untried, Early, Taken
<1>3. CASE pass' = [pass EXCEPT ![w] = Idle]
  BY <1>3, Rested
<1>4. CASE Goto(w, "entry")
  BY <1>1, <1>2, <1>4, Onward DEF Early, Taken, OnItem
<1>5. ASSUME NEW out \in {"failed", "skipped", "uncertain"},
             pass' = [pass EXCEPT ![w].outs[1] = out, ![w].pc = "complete"]
      PROVE  Evidence(w)'
  <2>1. /\ pass'[w].pc = "complete" /\ pass'[w].item = pass[w].item
        /\ pass'[w].rows = pass[w].rows /\ pass'[w].skip = pass[w].skip
        /\ pass'[w].outs = [pass[w].outs EXCEPT ![1] = out]
    BY <1>1, <1>5 DEF PassesOK, Frames
  <2>2. Listed(w)' /\ Collected(w)' /\ Untried(w)' /\ Adopts(w)'
    <3>1. /\ out = "success" => 1 \in Entries /\ world[<<pass[w].item, 1>>] = "landed"
          /\ pass'[w].pc \in {"entry", "complete"}
      BY <2>1
    <3>2. pass[w].pc \in OnItem \cup OnEntry
      BY <1>1
    <3> QED BY <2>1, <3>1, <3>2, Told
  <2>3. Rootless(w)'
    BY <1>1, <2>1 DEF Rootless, OutcomeLists
  <2>4. InOrder(w)'
    BY <2>1 DEF InOrder, Running, Checked
  <2> QED BY <2>2, <2>3, <2>4 DEF Evidence
<1> QED
  BY <1>3, <1>4, <1>5 DEF OpenItem, Stop

\* The root directory that an owner finds at its place is there: a call that
\* began to make it would still be named by the boundary, or in doubt.
LEMMA EntryCheckedShows ==
  ASSUME ShownInv, Steady, NEW w \in Workers, EntryChecked(w) PROVE Evidence(w)'
<1> DEFINE n == pass[w].entry
           dir == Tree /\ n = 1
<1>1. /\ pass[w].pc = "entry" /\ n \in Entries /\ pass[w].item \in Items
      /\ Named(w) /\ world' = world
      /\ Evidence(w) /\ PassesOK /\ Entries \subseteq Nat /\ n \in Nat
  BY Carried, Numbers DEF EntryChecked, AtEntry, OnItem
<1>2. CASE /\ pass' = [pass EXCEPT ![w].entry = @ + 1]
           /\ IF dir THEN world[Here(w)] # "untouched" ELSE n \in pass[w].skip
  <2>1. /\ pass'[w].pc = "entry" /\ pass'[w].item = pass[w].item
        /\ pass'[w].rows = pass[w].rows /\ pass'[w].skip = pass[w].skip
        /\ pass'[w].outs = pass[w].outs /\ pass'[w].entry = n + 1
    BY <1>1, <1>2 DEF PassesOK, Frames
  <2>2. dir => world[<<pass[w].item, 1>>] \in Firm
    <3> SUFFICES ASSUME dir PROVE world[Here(w)] \in Firm
      BY DEF Here
    <3>1. Here(w) \in Places /\ world[Here(w)] # "untouched" /\ Mine(w)
      BY <1>1, <1>2 DEF Here, Places, Mine
    <3>2. /\ transfer.boundary = Nowhere /\ transfer.status \notin Ended
          /\ Careful(w) /\ Halves /\ WorldOK
      BY <1>1, <3>1, Typed DEF ShownInv, LedgerInv, CallInv, Clear, Opening, Named,
         OpenStatus, Ended
    <3>3. ~(n < n)
      BY <1>1
    <3>4. ledger[Here(w)] # "unknown"
      BY <1>1, <3>1, <3>2, <3>3 DEF Careful, Running, Here
    <3>5. world[Here(w)] # "half"
      BY <3>1, <3>2, <3>4, Numbers DEF Halves
    <3> QED
      BY <3>1, <3>2, <3>5 DEF WorldOK, Firm
  <2>3. InOrder(w)'
    <3> SUFFICES ASSUME NEW e \in Entries, e < n + 1 PROVE Decided(pass[w], e)'
      BY <2>1 DEF InOrder
    <3>1. CASE e = n
      BY <1>1, <1>2, <2>1, <2>2, <3>1 DEF Decided
    <3>2. CASE e # n
      <4>1. e < n
        BY <1>1, <3>2
      <4> QED
        BY <1>1, <2>1, <4>1 DEF Evidence, InOrder, Running, Decided
    <3> QED BY <3>1, <3>2
  <2> QED
    BY <1>1, <2>1, <2>3 DEF Evidence, Listed, Collected, Untried, Rootless, Adopts,
       Shown, OnList, OnItem, OnEntry, Early, Taken
<1>3. CASE \/ \E c \in {"open", "present"} : Goto(w, c)
           \/ Goto(w, "adopt") /\ Proven(Here(w))
  <2>1. /\ pass[w].pc \in OnList /\ pass[w].pc \in OnItem /\ pass[w].pc \in Running
    BY <1>1 DEF OnList, OnItem, Running
  <2> QED
    BY <1>1, <1>3, <2>1, Onward DEF Proven, Early, Taken
<1> QED
  BY <1>2, <1>3 DEF EntryChecked

LEMMA CallShows ==
  ASSUME ShownInv, Steady, NEW w \in Workers, EnterMutation(w) \/ Return(w)
  PROVE  Evidence(w)'
<1>1. /\ pass[w].pc \in {"open", "calling"} /\ pass[w].pc \in OnList
      /\ pass[w].pc \in OnEntry /\ pass[w].pc \in Running
  BY DEF EnterMutation, Return, OnList, OnEntry, Running, Checked
<1>2. CASE pass' = [pass EXCEPT ![w] = Idle]
  BY <1>2, Rested
<1>3. CASE Goto(w, "calling")
  BY <1>1, <1>3, Onward DEF Early, Taken
<1>4. CASE Goto(w, "erred")
  BY <1>4, Outward DEF OnList, OnItem, OnEntry, Early, Taken
<1>5. ASSUME NEW answer, pass' = [pass EXCEPT ![w].pc = "record", ![w].answer = answer]
      PROVE  Evidence(w)'
  <2>1. /\ pass'[w].pc = "record" /\ pass'[w].item = pass[w].item
        /\ pass'[w].rows = pass[w].rows /\ pass'[w].skip = pass[w].skip
        /\ pass'[w].outs = pass[w].outs /\ pass'[w].entry = pass[w].entry
    BY <1>5, Carried DEF PassesOK, Frames
  <2> QED
    BY <1>1, <2>1, Bears DEF Early, Taken
<1> QED
  BY <1>2, <1>3, <1>4, <1>5 DEF EnterMutation, Return, Stop

LEMMA RecordShows ==
  ASSUME ShownInv, Steady, NEW w \in Workers, RecordPresent(w) \/ RecordOutcome(w)
  PROVE  Evidence(w)'
<1>1. CASE pass' = [pass EXCEPT ![w] = Idle]
  BY <1>1, Rested
<1>2. CASE RecordPresent(w) /\ Held(w)
  <2>1. PICK out : /\ After(w, out)
                   /\ out \in IF pass[w].pc = "adopt" THEN {"success"}
                              ELSE {"failed", "skipped", "uncertain"}
    BY <1>2 DEF RecordPresent
  <2>2. pass[w].pc \in {"adopt", "present"} /\ Adopts(w)
    BY <1>2, Carried DEF RecordPresent, Evidence
  <2> QED
    BY <2>1, <2>2, AfterShows DEF Adopts
<1>3. CASE RecordOutcome(w) /\ Held(w)
  <2>1. pass[w].pc = "record" /\ After(w, pass[w].answer)
    BY <1>3 DEF RecordOutcome
  <2>2. /\ pass[w].answer \in {"success", "failed", "uncertain"}
        /\ pass[w].entry \in Entries /\ Answered(w)
    BY <2>1, Typed DEF ShownInv, LedgerInv, Frames, Placed, OnEntry
  <2> QED
    BY <2>1, <2>2, AfterShows DEF Answered
<1> QED
  BY <1>1, <1>2, <1>3 DEF RecordPresent, RecordOutcome, Stop

-----------------------------------------------------------------------------
(* What the rows vouch for.                                                *)

LEMMA Stood ==
  ASSUME Steady, NEW i \in Items
  PROVE  /\ \A e \in Entries : world[<<i, e>>] = "landed" => world'[<<i, e>>] = "landed"
         /\ Whole(i) => Whole(i)'
BY DEF Steady, LandedStays, Places, Whole

\* A row that changed, if at all, to no success and no new evidence.
Modest(i) ==
  \/ item'[i] = item[i]
  \/ /\ item'[i].status # "success"
     /\ item'[i].progress.outs \in {item[i].progress.outs, Blank}

LEMMA ModestVouched ==
  ASSUME ShownInv, Steady, \A i \in Items : Modest(i) PROVE Vouched'
<1> SUFFICES ASSUME NEW i \in Items
             PROVE  /\ Shown(i, item[i].progress.outs)'
                    /\ item'[i].status = "success" => Whole(i)'
  BY DEF Vouched
<1>1. Shown(i, item[i].progress.outs) /\ (item[i].status = "success" => Whole(i))
  BY DEF ShownInv, Vouched
<1>2. \A e \in Entries : Blank[e] # "success"
  BY DEF Blank
<1> QED
  BY <1>1, <1>2, Stood DEF Shown, Modest

LEMMA RowVouched ==
  ASSUME ShownInv, Steady, NEW i \in Items, NEW row, item' = [item EXCEPT ![i] = row],
         \A e \in Entries : row.progress.outs[e] = "success" => world[<<i, e>>] = "landed",
         row.status = "success" => Whole(i)
  PROVE  Vouched'
<1>1. item \in [Items -> ItemRows]
  BY Shapes DEF ShownInv, LedgerInv
<1> SUFFICES ASSUME NEW j \in Items
             PROVE  /\ Shown(j, item[j].progress.outs)'
                    /\ item'[j].status = "success" => Whole(j)'
  BY DEF Vouched
<1>2. CASE j = i
  BY <1>1, <1>2, Stood DEF Shown
<1>3. CASE j # i
  <2>1. item'[j] = item[j]
    BY <1>1, <1>3
  <2> QED
    BY <2>1, Stood DEF Shown, ShownInv, Vouched
<1> QED BY <1>2, <1>3

\* Rows that end otherwise than completed.
LEMMA EndedModest ==
  ASSUME NEW row \in ItemRows, NEW status, NEW effect, status # "success"
  PROVE  /\ EndedItem(row, status, effect).status # "success"
         /\ EndedItem(row, status, effect).progress.outs = Blank
BY DEF EndedItem, NoProgress, ItemRows

LEMMA ConvergedModest ==
  ASSUME ShownInv, NEW forced, Converged(forced) PROVE \A i \in Items : Modest(i)
<1> SUFFICES ASSUME NEW i \in Items PROVE Modest(i)
  OBVIOUS
<1>1. item[i] \in ItemRows
  BY Shapes DEF ShownInv, LedgerInv
<1>2. item'[i] \in {item[i], InterruptedItem(item[i], i = forced)}
  BY DEF Converged
<1>3. \E s \in {"partial", "failed"} : \E effect :
        InterruptedItem(item[i], i = forced) = EndedItem(item[i], s, effect)
  BY DEF InterruptedItem
<1> QED
  BY <1>1, <1>2, <1>3, EndedModest DEF Modest

LEMMA CompletedSays ==
  ASSUME NEW row \in ItemRows, NEW outs \in OutcomeLists
  PROVE  /\ CompletedItem(row, outs).progress.outs = Blank
         /\ CompletedItem(row, outs).status = "success" =>
              Said(outs) = {"success"}
<1> DEFINE o == ItemOutcome(outs)
           status == IF o = "uncertain" THEN "partial" ELSE o
           effect == EffectOf("success" \in Said(outs), o = "uncertain")
<1>1. CompletedItem(row, outs) = EndedItem(row, status, effect)
  BY DEF CompletedItem
<1>2. o = "success" => Said(outs) = {"success"}
  <2>1. CASE Said(outs) \in {{"success"}, {"skipped"}}
    <3>1. (CHOOSE s \in Said(outs) : TRUE) \in Said(outs)
      BY <2>1
    <3> QED BY <2>1, <3>1 DEF ItemOutcome
  <2>2. CASE Said(outs) \notin {{"success"}, {"skipped"}}
    BY <2>2 DEF ItemOutcome
  <2> QED BY <2>1, <2>2
<1>3. status = "success" => o = "success"
  OBVIOUS
<1> HIDE DEF o, status, effect
<1> QED
  BY <1>1, <1>2, <1>3 DEF EndedItem, NoProgress, ItemRows

LEMMA ModestWorks ==
  ASSUME ShownInv, NEW w \in Workers,
         \/ Works(w) /\ ~OpenItem(w) /\ ~RecordPresent(w) /\ ~RecordOutcome(w)
                     /\ ~CompleteItem(w) /\ ~ResolveInFlight(w)
         \/ Heartbeat(w) \/ ReleaseIncompatible(w) \/ StartFails(w) \/ Crash(w)
  PROVE  \A i \in Items : Modest(i)
<1>1. CASE item' = item
  BY <1>1 DEF Modest
<1>2. CASE Converged(0)
  BY <1>2, ConvergedModest
<1>3. item \in [Items -> ItemRows] /\ pass[w].rows \in [Items -> ItemRows]
  BY Shapes, InPlace DEF ShownInv, LedgerInv
<1>4. ASSUME NEW i \in Items, NEW row, item' = [item EXCEPT ![i] = row],
             row.status # "success",
             row.progress.outs \in {item[i].progress.outs, Blank}
      PROVE  \A j \in Items : Modest(j)
  BY <1>3, <1>4 DEF Modest
<1>5. ASSUME NEW i \in Items, NEW status, NEW effect, status # "success",
             item' = [item EXCEPT ![i] = EndedItem(pass[w].rows[i], status, effect)]
      PROVE  \A j \in Items : Modest(j)
  <2> DEFINE row == EndedItem(pass[w].rows[i], status, effect)
  <2>1. row.status # "success" /\ row.progress.outs = Blank
    BY <1>3, <1>5, EndedModest
  <2>2. item' = [item EXCEPT ![i] = row]
    BY <1>5
  <2> HIDE DEF row
  <2> QED BY <1>4, <2>1, <2>2
<1>6. CASE MarkInterrupted(w)
  <2>1. \E i \in Items, s \in {"partial", "failed"} : \E effect :
          \/ item' = item
          \/ item' = [item EXCEPT ![i] = EndedItem(pass[w].rows[i], s, effect)]
    BY <1>6 DEF MarkInterrupted, Stop
  <2> QED BY <1>1, <1>5, <2>1
<1>7. CASE RefuseItem(w)
  <2>1. pass[w].item \in Items
    BY <1>7, InPlace DEF RefuseItem, OnItem, ShownInv, LedgerInv
  <2> QED BY <1>1, <1>5, <1>7, <2>1 DEF RefuseItem, NextItemIfHeld
<1>8. CASE LockConflict(w) \/ PublishStart(w)
  <2>1. pass[w].item \in Items
    BY <1>8, InPlace DEF LockConflict, PublishStart, OnItem, ShownInv, LedgerInv
  <2>2. CASE item' = [item EXCEPT ![pass[w].item] =
               [@ EXCEPT !.status = "failed", !.started = TRUE, !.progress = NoProgress]]
    BY <1>3, <2>1, <2>2 DEF Modest, ItemRows, NoProgress
  <2>3. CASE item' = [item EXCEPT ![pass[w].item] =
               [@ EXCEPT !.status = "processing", !.started = TRUE]]
    BY <1>3, <2>1, <2>3 DEF Modest, ItemRows
  <2> QED BY <1>1, <1>8, <2>2, <2>3 DEF LockConflict, PublishStart, Stop
<1>9. CASE AcknowledgeItems(w)
  <2>1. \A i \in Items : \/ item'[i] = item[i]
                         \/ item'[i] = [item[i] EXCEPT !.status = "paused"]
    BY <1>9 DEF AcknowledgeItems
  <2>2. \A row \in ItemRows :
          /\ [row EXCEPT !.status = "paused"].status # "success"
          /\ [row EXCEPT !.status = "paused"].progress = row.progress
    BY DEF ItemRows
  <2> QED BY <1>3, <2>1, <2>2 DEF Modest
<1>10. CASE \/ ClaimNext(w) \/ ClaimExpiredMutation(w) \/ BeginTransfer(w)
            \/ CloseUnstarted(w) \/ ConvergeFailure(w) \/ FinishCancelled(w)
            \/ PauseTransfer(w) \/ Start(w) \/ ReadQueued(w) \/ PublishRunning(w)
            \/ ListItems(w) \/ StopCancelled(w) \/ TakeItem(w) \/ PassOver(w)
  BY <1>1, <1>2, <1>10 DEF ClaimNext, ClaimExpiredMutation, Claim, BeginTransfer,
     CloseUnstarted, ConvergeFailure, FinishCancelled, PauseTransfer, Start,
     ReadQueued, PublishRunning, ListItems, StopCancelled, TakeItem, PassOver, rowVars
<1>11. CASE \/ AcquireItem(w) \/ Interrupted(w) \/ EntryChecked(w)
            \/ EnterMutation(w) \/ Lands(w) \/ Return(w) \/ ReadAggregate(w)
            \/ PublishAggregate(w) \/ FinishTransfer(w) \/ AcknowledgeTask(w)
            \/ Heartbeat(w) \/ ReleaseIncompatible(w) \/ StartFails(w) \/ Crash(w)
  BY <1>1, <1>11 DEF AcquireItem, Interrupted, EntryChecked, EnterMutation, Lands,
     Return, ReadAggregate, PublishAggregate, FinishTransfer, AcknowledgeTask,
     Heartbeat, ReleaseIncompatible, StartFails, Crash, Stop, rowVars
<1> QED
  BY <1>6, <1>7, <1>8, <1>9, <1>10, <1>11 DEF Works

LEMMA ModestOthers ==
  ASSUME ShownInv,
         \/ UNCHANGED vars
         \/ LeaseLapses \/ RequestPause \/ CancelTask \/ ResumeTransfer
         \/ \E i \in Items : RivalAcquires(i) \/ RivalReleases(i)
         \/ \E x \in Places : OthersWrite(x)
  PROVE  \A i \in Items : Modest(i)
<1>1. CASE CancelTask
  BY <1>1, Shapes DEF CancelTask, Modest, ItemRows, ShownInv, LedgerInv
<1>2. CASE ~CancelTask
  BY <1>2 DEF vars, LeaseLapses, RequestPause, ResumeTransfer, RivalAcquires,
     RivalReleases, OthersWrite, rowVars, Modest
<1> QED BY <1>1, <1>2

\* A snapshot vouches for no more than the pass has collected.
LEMMA ProgressVouched ==
  ASSUME ShownInv, Steady, NEW w \in Workers, NEW outs, Progress(w, outs),
         pass[w].item \in Items,
         \A e \in Entries : outs[e] = "success" => world[<<pass[w].item, e>>] = "landed"
  PROVE  Vouched'
<1> DEFINE i == pass[w].item
           row == [item[i] EXCEPT !.status = "processing",
                     !.progress = [known |-> TRUE, outs |-> outs,
                                   counted |-> \/ pass[w].skip # {}
                                               \/ "success" \in Said(outs)]]
<1>1. item' = [item EXCEPT ![i] = row] /\ item[i] \in ItemRows
  BY Shapes DEF Progress, ShownInv, LedgerInv
<1>2. row.status # "success" /\ row.progress.outs = outs
  BY <1>1 DEF ItemRows
<1> HIDE DEF row
<1> QED
  BY <1>1, <1>2, RowVouched

LEMMA OpenItemVouched ==
  ASSUME ShownInv, Steady, NEW w \in Workers, OpenItem(w) PROVE Vouched'
<1>1. /\ pass[w].item \in Items /\ pass[w].outs = Blank /\ pass[w].entry = 1
      /\ Blank \in OutcomeLists
  BY Carried, BlankTyped DEF OpenItem, OnItem, Evidence, Untried, Early, Taken
<1>2. CASE item' = item
  BY <1>2, ModestVouched DEF Modest
<1>3. CASE Progress(w, Blank)
  BY <1>1, <1>3, ProgressVouched DEF Blank
<1>4. ASSUME NEW out \in {"failed", "skipped", "uncertain"}, Progress(w, Outs(w, out))
      PROVE  Vouched'
  <2>1. \A e \in Entries : Outs(w, out)[e] # "success"
    BY <1>1 DEF Outs, Blank
  <2> QED BY <1>1, <1>4, <2>1, ProgressVouched
<1> QED
  BY <1>2, <1>3, <1>4 DEF OpenItem, Stop

LEMMA RecordVouched ==
  ASSUME ShownInv, Steady, NEW w \in Workers, RecordPresent(w) \/ RecordOutcome(w)
  PROVE  Vouched'
<1>1. /\ pass[w].pc \in {"adopt", "present", "record"} /\ pass[w].item \in Items
      /\ Evidence(w) /\ Answered(w) /\ pass[w].outs \in OutcomeLists
      /\ pass[w].pc = "record" => pass[w].entry \in Entries
  BY Carried, InPlace DEF RecordPresent, RecordOutcome, OnItem, OnEntry, ShownInv,
     LedgerInv
<1>2. CASE item' = item
  BY <1>2, ModestVouched DEF Modest
<1>3. ASSUME NEW out, Progress(w, Outs(w, out)),
             out = "success" => pass[w].pc \in {"adopt", "record"},
             out = "success" /\ pass[w].pc = "record" => pass[w].answer = "success"
      PROVE  Vouched'
  <2>1. out = "success" => world[Here(w)] = "landed"
    BY <1>1, <1>3 DEF Evidence, Adopts, Answered
  <2>2. \A e \in Entries :
          pass[w].outs[e] = "success" => world[<<pass[w].item, e>>] = "landed"
    BY <1>1 DEF Evidence, Collected, Shown, OnItem, OnEntry
  <2>3. \A e \in Entries : Outs(w, out)[e] = "success" =>
          world[<<pass[w].item, e>>] = "landed"
    BY <1>1, <2>1, <2>2 DEF Outs, Here, OutcomeLists
  <2> QED BY <1>1, <1>3, <2>3, ProgressVouched
<1> QED
  BY <1>2, <1>3 DEF RecordPresent, RecordOutcome, Stop

\* What a pass has decided on every entry of makes the item whole.
LEMMA CompleteItemVouched ==
  ASSUME ShownInv, Steady, NEW w \in Workers, CompleteItem(w) PROVE Vouched'
<1> DEFINE i == pass[w].item
           row == CompletedItem(item[i], pass[w].outs)
<1>1. /\ pass[w].pc \in {"complete", "entry"} /\ i \in Items /\ Evidence(w)
      /\ pass[w].outs \in OutcomeLists /\ pass[w].entry \in Nat /\ item[i] \in ItemRows
      /\ pass[w].pc = "entry" => pass[w].entry \notin Entries
  BY Carried, Shapes DEF CompleteItem, OnItem, ShownInv, LedgerInv
<1>2. CASE item' = item
  BY <1>2, ModestVouched DEF Modest
<1>3. CASE item' = [item EXCEPT ![i] = row]
  <2>1. row.progress.outs = Blank /\ (row.status = "success" => Said(pass[w].outs) = {"success"})
    BY <1>1, CompletedSays
  <2> HIDE DEF row
  <2>2. ASSUME Said(pass[w].outs) = {"success"} PROVE Whole(i)
    <3>1. pass[w].pc = "entry"
      BY <1>1, <2>2, Numbers DEF Evidence, Rootless, Said
    <3>2. pass[w].entry > EntryCount
      <4>1. pass[w] \in Frames
        BY Typed DEF ShownInv, LedgerInv
      <4>2. pass[w].entry \in Nat \ {0}
        BY <4>1 DEF Frames
      <4> QED BY <1>1, <3>1, <4>2, Numbers DEF Entries
    <3> SUFFICES ASSUME NEW e \in Entries
                 PROVE  world[<<i, e>>] \in IF Tree /\ e = 1 THEN Firm ELSE {"landed"}
      BY DEF Whole
    <3>3. e < pass[w].entry
      BY <1>1, <3>2, Numbers DEF Entries
    <3>4. Decided(pass[w], e) /\ Collected(w)
      BY <1>1, <3>1, <3>3 DEF Evidence, InOrder, Running
    <3>5. pass[w].outs[e] # "absent" => pass[w].outs[e] = "success"
      BY <2>2 DEF Said
    <3>6. \/ world[<<i, e>>] = "landed"
          \/ Tree /\ e = 1 /\ world[<<i, 1>>] \in Firm
      BY <3>1, <3>4, <3>5 DEF Decided, Collected, Shown, OnItem
    <3> QED BY <3>6 DEF Firm
  <2>3. \A e \in Entries : Blank[e] # "success"
    BY DEF Blank
  <2> QED BY <1>1, <1>3, <2>1, <2>2, <2>3, RowVouched
<1> QED
  BY <1>2, <1>3 DEF CompleteItem, Stop

\* An effect that is adopted for an owner that is gone has landed, and the
\* root above it is there.
LEMMA ResolveVouched ==
  ASSUME ShownInv, Steady, NEW w \in Workers, ResolveInFlight(w) PROVE Vouched'
<1> DEFINE x == transfer.boundary
           i == x[1]
           adopted == [item[i].progress.outs EXCEPT ![x[2]] = "success"]
<1>1. CASE item' = item
  BY <1>1, ModestVouched DEF Modest
<1>2. CASE Converged(i)
  BY <1>2, ConvergedModest, ModestVouched
<1>3. CASE Held(w) /\ Proven(x)
  <2> DEFINE all == \A e \in Entries : adopted[e] \in {"success", "skipped"}
                                       \/ (Tree /\ e = 1)
             row == IF all THEN CompletedItem(item[i], adopted)
                    ELSE [item[i] EXCEPT !.status = "processing",
                            !.progress = [known |-> TRUE, outs |-> adopted,
                                          counted |-> TRUE]]
  <2>1. item' = [item EXCEPT ![i] = row]
    BY <1>3 DEF ResolveInFlight
  <2>2. /\ item \in [Items -> ItemRows] /\ x \in Places \cup {Nowhere}
        /\ Vouched /\ RootUnder /\ transfer.status \notin Ended
    BY <1>3, Typed DEF ShownInv, LedgerInv, RowsOK, TransferRows, Held, Named,
       OpenStatus, Ended
  <2>3. CASE x = Nowhere
    <3>1. i \notin Items
      BY <2>3, Numbers DEF Nowhere, Items
    <3> QED BY <1>1, <2>1, <2>2, <3>1
  <2>4. CASE x # Nowhere
    <3>1. i \in Items /\ x[2] \in Entries /\ x = <<i, x[2]>>
      BY <2>2, <2>4 DEF Places
    <3>2. /\ item[i] \in ItemRows /\ item[i].progress.outs \in OutcomeLists
          /\ adopted \in OutcomeLists
      BY <2>2, <3>1 DEF ItemRows, OutcomeLists, Recorded
    <3>3. \A e \in Entries : adopted[e] = "success" => world[<<i, e>>] = "landed"
      BY <1>3, <2>2, <3>1, <3>2 DEF Vouched, Shown, Proven, OutcomeLists
    <3>4. CASE ~all
      <4>1. row.status # "success" /\ row.progress.outs = adopted
        BY <3>2, <3>4 DEF ItemRows
      <4> HIDE DEF row, adopted
      <4> QED BY <2>1, <3>1, <3>3, <4>1, RowVouched
    <3>5. CASE all
      <4>1. /\ row.progress.outs = Blank
            /\ row.status = "success" => Said(adopted) = {"success"}
        BY <3>2, <3>5, CompletedSays
      <4>2. ASSUME Said(adopted) = {"success"} PROVE Whole(i)
        <5> SUFFICES ASSUME NEW e \in Entries
                     PROVE  world[<<i, e>>] \in
                              IF Tree /\ e = 1 THEN Firm ELSE {"landed"}
          BY DEF Whole
        <5>1. CASE adopted[e] = "success"
          BY <3>3, <5>1 DEF Firm
        <5>2. CASE adopted[e] # "success"
          <6>1. adopted[e] # "skipped"
            BY <4>2, <5>2 DEF Said
          <6>2. Tree /\ e = 1
            BY <3>5, <5>2, <6>1
          <6>3. x[2] # 1
            BY <3>1, <3>2, <5>2, <6>2 DEF OutcomeLists
          <6> QED
            BY <2>2, <2>4, <6>2, <6>3 DEF RootUnder
        <5> QED BY <5>1, <5>2
      <4>3. \A e \in Entries : Blank[e] # "success"
        BY DEF Blank
      <4> HIDE DEF row, adopted
      <4> QED BY <2>1, <3>1, <4>1, <4>2, <4>3, RowVouched
    <3> QED BY <3>4, <3>5
  <2> QED BY <2>3, <2>4
<1> QED
  BY <1>1, <1>2, <1>3 DEF ResolveInFlight, Stop

-----------------------------------------------------------------------------
(* Calls that have begun to write, and calls that were refused.            *)

LEMMA StutterHalves ==
  ASSUME ShownInv, Steady, Stutters,
         \A x \in Places : world'[x] = "half" =>
           world[x] = "half" \/ transfer.boundary = x \/ transfer.status \in Ended
  PROVE  (Halves /\ RootUnder)'
<1>1. /\ Halves /\ RootUnder /\ transfer.boundary \in Places \cup {Nowhere}
  BY Typed DEF ShownInv, LedgerInv, RowsOK, TransferRows
<1>2. Halves'
  BY <1>1 DEF Stutters, Phase, Halves
<1>3. RootUnder'
  <2> SUFFICES ASSUME transfer'.status \notin Ended, transfer'.boundary # Nowhere,
                      Tree, transfer'.boundary[2] # 1
               PROVE  world'[<<transfer'.boundary[1], 1>>] \in Firm
    BY DEF RootUnder
  <2>1. transfer'.boundary = transfer.boundary /\ transfer.status \notin Ended
    BY DEF Stutters, Phase
  <2>2. <<transfer.boundary[1], 1>> \in Places
    BY <1>1, <2>1, Numbers DEF Places
  <2> QED
    BY <1>1, <2>1, <2>2 DEF RootUnder, Steady
<1> QED BY <1>2, <1>3

LEMMA ClearingHalves ==
  ASSUME ShownInv, Clearing, world' = world,
         \A x \in Places : transfer.boundary = x /\ world[x] = "half" =>
           ledger'[x] = "unknown"
  PROVE  (Halves /\ RootUnder)'
<1>1. Halves'
  BY DEF ShownInv, Halves, Clearing, Phase, Beside
<1>2. RootUnder'
  BY DEF RootUnder, Clearing
<1> QED BY <1>1, <1>2

LEMMA EndingHalves ==
  ASSUME Ending PROVE (Halves /\ RootUnder)'
BY DEF Ending, Halves, RootUnder

\* An entry below the root is entered when the root is there.
LEMMA EnteringHalves ==
  ASSUME ShownInv, NEW w \in Workers, EnterMutation(w), ~Stop(w)
  PROVE  (Halves /\ RootUnder)'
<1>1. /\ pass[w].pc = "open" /\ Held(w) /\ transfer.boundary = Nowhere
      /\ transfer' = Boundary(Here(w)) /\ world' = world /\ ledger' = ledger
  BY DEF EnterMutation
<1>2. /\ Here(w) \in Places /\ pass[w].item \in Items /\ pass[w].entry \in Entries
      /\ Evidence(w)
  BY <1>1, Carried, InPlace DEF OnEntry, ShownInv, LedgerInv
<1>3. transfer'.boundary = Here(w) /\ transfer'.status = transfer.status
  BY <1>1, <1>2, Typed, BoundaryTyped DEF ShownInv, LedgerInv, RowsOK
<1>4. Halves'
  BY <1>1, <1>3, Numbers DEF ShownInv, Halves
<1>5. RootUnder'
  <2> SUFFICES ASSUME Tree, pass[w].entry # 1
               PROVE  world[<<pass[w].item, 1>>] \in Firm
    BY <1>1, <1>3 DEF RootUnder, Here
  <2>1. 1 \in Entries /\ 1 < pass[w].entry
    BY <1>2, Numbers DEF Entries
  <2>2. Decided(pass[w], 1) /\ Collected(w)
    BY <1>1, <1>2, <2>1 DEF Evidence, InOrder, Running, Checked
  <2> QED
    BY <1>1, <2>1, <2>2 DEF Decided, Collected, Shown, OnEntry, Firm
<1> QED BY <1>4, <1>5

LEMMA HalvesKeep ==
  ASSUME ShownInv, [Next]_vars PROVE (Halves /\ RootUnder)'
<1>1. Steady /\ LedgerInv /\ CallInv
  BY Steadies DEF ShownInv, LedgerInv
<1>2. CASE Stutters
  <2>1. ASSUME NEW x \in Places, world'[x] = "half"
        PROVE  world[x] = "half" \/ transfer.boundary = x \/ transfer.status \in Ended
    <3>1. CASE world' = world
      BY <2>1, <3>1
    <3>2. ASSUME NEW y \in Places, OthersWrite(y) PROVE world[x] = "half"
      BY <1>1, <2>1, <3>2, Typed DEF OthersWrite, WorldOK
    <3>3. ASSUME NEW w \in Workers, Lands(w)
          PROVE  world[x] = "half" \/ transfer.boundary = x \/ transfer.status \in Ended
      <4>1. pass[w].pc = "calling" /\ world[Here(w)] # "landed" /\ Standing(w)
        BY <1>1, <3>3 DEF Lands, CallInv
      <4>2. transfer.boundary = Here(w) \/ transfer.status \in Ended
        BY <4>1 DEF Standing
      <4>3. world[x] = "half" \/ x = Here(w)
        BY <1>1, <2>1, <3>3, Typed DEF Lands, WorldOK
      <4> QED BY <4>2, <4>3
    <3>4. ASSUME NEW w \in Workers, RecordOutcome(w) \/ ResolveInFlight(w)
          PROVE  world' = world
      BY <3>4 DEF RecordOutcome, ResolveInFlight
    <3> QED
      BY <3>1, <3>2, <3>3, <3>4, QuietWorks, QuietOthers DEF Next, vars
  <2> QED BY <1>1, <1>2, <2>1, StutterHalves
<1>3. ASSUME Clearing, NEW w \in Workers,
             \/ OpenItem(w) \/ RecordPresent(w) \/ RecordOutcome(w) \/ ResolveInFlight(w)
      PROVE  (Halves /\ RootUnder)'
  <2>1. world' = world
    BY <1>3 DEF OpenItem, RecordPresent, RecordOutcome, ResolveInFlight
  <2>2. CASE transfer.boundary = Nowhere
    BY <1>3, <2>1, <2>2, ClearingHalves, Numbers
  <2>3. CASE transfer'.boundary = transfer.boundary
    BY <1>3, <2>2, <2>3 DEF Clearing
  <2>4. CASE Held(w) /\ (OpenItem(w) \/ RecordPresent(w))
    <3>1. pass[w].pc \in {"open item", "adopt", "present"} /\ Mine(w)
      BY <2>4, HeldMine DEF OpenItem, RecordPresent
    <3>2. transfer.boundary = Nowhere
      BY <1>1, <3>1 DEF CallInv, Clear, Opening
    <3> QED BY <2>2, <3>2
  <2>5. CASE Held(w) /\ RecordOutcome(w)
    <3>1. pass[w].pc = "record" /\ Mine(w)
      BY <2>5, HeldMine DEF RecordOutcome
    <3>2. /\ transfer.boundary = Here(w) /\ Here(w) \in Places
          /\ Answered(w) /\ Refused(w)
          /\ pass[w].answer \in {"success", "failed", "uncertain"}
      BY <1>1, <3>1, InPlace, Typed DEF CallInv, Inside, OnEntry, ShownInv, LedgerInv,
         Frames, Placed
    <3>3. ledger' = [ledger EXCEPT ![Here(w)] =
                       CASE pass[w].answer = "success" -> "known"
                         [] pass[w].answer = "uncertain" -> "unknown"
                         [] OTHER -> "none"]
      BY <2>5 DEF RecordOutcome
    <3>4. pass[w].answer = "uncertain" => ledger'[Here(w)] = "unknown"
      BY <1>1, <3>2, <3>3, Typed DEF WorldOK
    <3>5. world[Here(w)] = "half" => pass[w].answer = "uncertain"
      BY <3>1, <3>2 DEF Answered, Refused
    <3> QED BY <1>3, <2>1, <3>2, <3>4, <3>5, ClearingHalves
  <2>6. CASE Held(w) /\ ResolveInFlight(w) /\ Proven(transfer.boundary)
    BY <1>3, <2>1, <2>6, ClearingHalves DEF Proven
  <2>7. CASE Held(w) /\ ResolveInFlight(w) /\ ~Proven(transfer.boundary)
    <3>1. Converged(transfer.boundary[1])
      BY <2>7 DEF ResolveInFlight
    <3>2. transfer'.status \in Ended
      BY <1>1, <3>1, Typed, ConvergedTyped
    <3> QED BY <3>2 DEF Halves, RootUnder
  <2>8. CASE Stop(w)
    BY <2>3, <2>8 DEF Stop
  <2> QED
    BY <1>3, <2>4, <2>5, <2>6, <2>7, <2>8 DEF OpenItem, RecordPresent, RecordOutcome,
       ResolveInFlight
<1> QED
  BY <1>1, <1>2, <1>3, StepForms, EndingHalves, EnteringHalves

LEMMA OwnerMoves ==
  ASSUME CallInv, [Next]_vars
  PROVE  transfer'.owner \in {transfer.owner, 0, transfer.attempts + 1}
<1>1. transfer \in TransferRows
  BY Typed DEF RowsOK
<1>2. ASSUME NEW w \in Workers, Claim(w) PROVE transfer'.owner = transfer.attempts + 1
  BY <1>1, <1>2 DEF Claim, TransferRows
<1>3. CASE \/ UNCHANGED vars \/ LeaseLapses \/ RequestPause \/ CancelTask
           \/ ResumeTransfer
           \/ \E w \in Workers : Heartbeat(w)
           \/ \E i \in Items : RivalAcquires(i) \/ RivalReleases(i)
           \/ \E x \in Places : OthersWrite(x)
  BY <1>1, <1>3 DEF vars, LeaseLapses, RequestPause, CancelTask, ResumeTransfer,
     Heartbeat, RivalAcquires, RivalReleases, OthersWrite, rowVars, TransferRows
<1> QED
  BY <1>2, <1>3, OwnerStands DEF Next, ClaimNext, ClaimExpiredMutation

\* Nobody becomes the owner by what others do.
LEMMA MineLasts ==
  ASSUME LedgerInv, [Next]_vars, NEW w \in Workers, pass'[w] = pass[w], Mine(w)'
  PROVE  Mine(w)
<1>1. /\ transfer \in TransferRows /\ Tokens
      /\ transfer'.owner \in {transfer.owner, 0, transfer.attempts + 1}
  BY Typed, OwnerMoves DEF LedgerInv, RowsOK, CallInv
<1>2. pass[w].token \in 1 .. transfer.attempts /\ transfer.attempts \in Nat
  BY <1>1 DEF Tokens, Mine, TransferRows
<1>3. transfer.owner = pass[w].token
  BY <1>1, <1>2 DEF Mine, Named
<1>4. transfer.status # "paused"
  BY <1>1, <1>2, <1>3 DEF Tokens
<1>5. transfer.status \notin Ended
  <2>1. ASSUME NEW v \in Workers, EnterMutation(v), ~Stop(v)
        PROVE  transfer'.status = transfer.status
    BY <1>1, <2>1 DEF EnterMutation, Boundary, TransferRows
  <2>2. transfer'.status \notin Ended
    BY DEF Mine, Named, OpenStatus, Ended
  <2> QED
    BY <2>1, <2>2, StepForms DEF Stutters, Clearing, Ending, Phase
<1> QED
  BY <1>1, <1>3, <1>4, <1>5 DEF Mine, Named, TransferRows

\* A refusal left nothing behind, and while its owner records it nobody is
\* inside the entry.
LEMMA RefusedKeeps ==
  ASSUME ShownInv, [Next]_vars, NEW w \in Workers, pass'[w] = pass[w]
  PROVE  Refused(w)'
<1> SUFFICES ASSUME Mine(w)', pass[w].pc = "record", pass[w].answer = "failed"
             PROVE  world'[Here(w)] # "half"
  BY DEF Refused, Here
<1>1. /\ Mine(w) /\ Refused(w) /\ CallInv /\ LedgerInv
  BY MineLasts DEF ShownInv, LedgerInv
<1>2. /\ world[Here(w)] # "half" /\ Here(w) \in Places
      /\ \A v \in Workers : v # w /\ pass[v].pc = "calling" => Here(v) # Here(w)
  BY <1>1, InPlace DEF Refused, CallInv, Alone, OnEntry
<1>3. ASSUME NEW v \in Workers, Lands(v) PROVE world'[Here(w)] # "half"
  <2>1. Here(v) # Here(w)
    BY <1>2, <1>3 DEF Lands
  <2> QED BY <1>1, <1>2, <1>3, <2>1, Typed DEF Lands, WorldOK
<1>4. ASSUME NEW x \in Places, OthersWrite(x) PROVE world'[Here(w)] # "half"
  BY <1>1, <1>2, <1>4, Typed DEF OthersWrite, WorldOK
<1>5. ASSUME NEW v \in Workers, RecordOutcome(v) \/ ResolveInFlight(v)
      PROVE  world' = world
  BY <1>5 DEF RecordOutcome, ResolveInFlight
<1> QED
  BY <1>2, <1>3, <1>4, <1>5, QuietWorks, QuietOthers DEF Next, vars

\* Only the return of a call leads to its record.
LEMMA RefusedReturns ==
  ASSUME ShownInv, NEW w \in Workers,
         \/ Works(w) /\ ~Lands(w)
         \/ ReleaseIncompatible(w) \/ StartFails(w) \/ Crash(w)
  PROVE  Refused(w)'
<1>1. CallInv /\ PassesOK /\ pass[w] \in Frames
  BY Typed DEF ShownInv, LedgerInv
<1>2. ASSUME pass'[w].pc # "record" PROVE Refused(w)'
  BY <1>2 DEF Refused
<1>3. CASE Return(w)
  <2>1. \E answer \in Outcomes :
          /\ answer = "failed" => world[Here(w)] \in {"untouched", "foreign"}
          /\ \/ Goto(w, "erred")
             \/ pass' = [pass EXCEPT ![w].pc = "record", ![w].answer = answer]
    BY <1>3 DEF Return
  <2>2. world' = world
    BY <1>3 DEF Return
  <2>3. Goto(w, "erred") => pass'[w].pc # "record"
    BY <1>1, Gone
  <2>4. ASSUME NEW answer \in Outcomes,
               answer = "failed" => world[Here(w)] \in {"untouched", "foreign"},
               pass' = [pass EXCEPT ![w].pc = "record", ![w].answer = answer]
        PROVE  Refused(w)'
    <3>1. pass'[w].answer = answer /\ Here(w)' = Here(w)
      BY <1>1, <2>4 DEF PassesOK, Frames, Here
    <3> QED BY <2>2, <2>4, <3>1 DEF Refused
  <2> QED BY <1>2, <2>1, <2>3, <2>4
<1>4. CASE \/ AcquireItem(w) \/ PublishStart(w) \/ OpenItem(w) \/ EntryChecked(w)
           \/ RecordPresent(w) \/ EnterMutation(w) \/ RecordOutcome(w)
  <2>1. \A c : Goto(w, c) => pass'[w].pc = c
    BY <1>1, Gone
  <2>2. /\ NextItem(w) => pass'[w].pc = "items"
        /\ pass' = [pass EXCEPT ![w] = Idle] => pass'[w].pc = "idle"
    BY <1>1, Turning, Resting
  <2>3. \A out : After(w, out) => pass'[w].pc \in {"complete", "entry"}
    BY <1>1 DEF After, PassesOK, Frames
  <2>4. \A out : pass' = [pass EXCEPT ![w].outs[1] = out, ![w].pc = "complete"]
                   => pass'[w].pc = "complete"
    BY <1>1 DEF PassesOK, Frames
  <2>5. pass[w].pc = "entry" /\ pass' = [pass EXCEPT ![w].entry = @ + 1]
          => pass'[w].pc = "entry"
    BY <1>1 DEF PassesOK, Frames
  <2>6. CASE EntryChecked(w)
    BY <1>2, <2>1, <2>5, <2>6 DEF EntryChecked, AtEntry
  <2>7. CASE AcquireItem(w) \/ PublishStart(w) \/ EnterMutation(w)
    BY <1>2, <2>1, <2>2, <2>7 DEF AcquireItem, PublishStart, EnterMutation, Stop
  <2>8. CASE OpenItem(w) \/ RecordPresent(w) \/ RecordOutcome(w)
    BY <1>2, <2>1, <2>2, <2>3, <2>4, <2>8 DEF OpenItem, RecordPresent, RecordOutcome,
       Stop
  <2> QED BY <1>4, <2>6, <2>7, <2>8
<1> QED
  BY <1>1, <1>2, <1>3, <1>4, Elsewhere DEF Checked

-----------------------------------------------------------------------------
(* Successful items.                                                       *)

LEMMA MoverShows ==
  ASSUME ShownInv, [Next]_vars, NEW w \in Workers,
         \/ Works(w) /\ ~Lands(w)
         \/ ReleaseIncompatible(w) \/ StartFails(w) \/ Crash(w)
  PROVE  Refused(w)' /\ Evidence(w)'
<1>1. Steady
  BY Steadies DEF ShownInv, LedgerInv
<1>2. ASSUME Works(w), ~Lands(w) PROVE Evidence(w)'
  BY <1>1, <1>2, ClaimShows, AroundShows, ListItemsShows, TakeItemShows, ItemShows,
     OpenItemShows, EntryCheckedShows, CallShows, RecordShows
     DEF Works, ClaimNext, ClaimExpiredMutation
<1>3. ASSUME ReleaseIncompatible(w) \/ StartFails(w) \/ Crash(w) PROVE Evidence(w)'
  BY <1>1, <1>3, AroundShows
<1> QED
  BY <1>2, <1>3, RefusedReturns

LEMMA OtherShows ==
  ASSUME ShownInv, [Next]_vars, NEW w \in Workers, pass'[w] = pass[w]
  PROVE  Refused(w)' /\ Evidence(w)'
<1>1. Steady
  BY Steadies DEF ShownInv, LedgerInv
<1> QED
  BY <1>1, RefusedKeeps, Bears

LEMMA VouchedKeeps ==
  ASSUME ShownInv, [Next]_vars PROVE Vouched'
<1>1. Steady
  BY Steadies DEF ShownInv, LedgerInv
<1>2. ASSUME NEW w \in Workers,
             \/ OpenItem(w) \/ RecordPresent(w) \/ RecordOutcome(w)
             \/ CompleteItem(w) \/ ResolveInFlight(w)
      PROVE  Vouched'
  BY <1>1, <1>2, OpenItemVouched, RecordVouched, CompleteItemVouched, ResolveVouched
<1>3. ASSUME NEW w \in Workers,
             \/ Works(w) /\ ~OpenItem(w) /\ ~RecordPresent(w) /\ ~RecordOutcome(w)
                         /\ ~CompleteItem(w) /\ ~ResolveInFlight(w)
             \/ Heartbeat(w) \/ ReleaseIncompatible(w) \/ StartFails(w) \/ Crash(w)
      PROVE  Vouched'
  BY <1>1, <1>3, ModestWorks, ModestVouched
<1>4. ASSUME \/ UNCHANGED vars
             \/ LeaseLapses \/ RequestPause \/ CancelTask \/ ResumeTransfer
             \/ \E i \in Items : RivalAcquires(i) \/ RivalReleases(i)
             \/ \E x \in Places : OthersWrite(x)
      PROVE  Vouched'
  BY <1>1, <1>4, ModestOthers, ModestVouched
<1> QED
  BY <1>2, <1>3, <1>4 DEF Next

LEMMA ShownStep == ShownInv /\ [Next]_vars => ShownInv'
<1> SUFFICES ASSUME ShownInv, [Next]_vars PROVE ShownInv'
  OBVIOUS
<1>1. LedgerInv' /\ Vouched' /\ (Halves /\ RootUnder)'
  BY LedgerStep, VouchedKeeps, HalvesKeep DEF ShownInv
<1>2. CallInv /\ PassesOK
  BY Typed DEF ShownInv, LedgerInv
<1>3. ASSUME NEW w \in Workers PROVE Refused(w)' /\ Evidence(w)'
  <2>1. CASE pass'[w] = pass[w]
    BY <2>1, OtherShows
  <2>2. ASSUME NEW v \in Workers,
               \/ Works(v) /\ ~Lands(v)
               \/ ReleaseIncompatible(v) \/ StartFails(v) \/ Crash(v)
        PROVE  Refused(w)' /\ Evidence(w)'
    <3>1. CASE v = w
      BY <2>2, <3>1, MoverShows
    <3>2. CASE v # w
      <4>1. pass'[w] = pass[w]
        BY <1>2, <2>2, <3>2, OwnerStands DEF ClaimNext, ClaimExpiredMutation, Claim,
           PassesOK
      <4> QED BY <2>1, <4>1
    <3> QED BY <3>1, <3>2
  <2>3. ASSUME \/ UNCHANGED vars
               \/ LeaseLapses \/ RequestPause \/ CancelTask \/ ResumeTransfer
               \/ \E v \in Workers : Heartbeat(v) \/ Lands(v)
               \/ \E i \in Items : RivalAcquires(i) \/ RivalReleases(i)
               \/ \E x \in Places : OthersWrite(x)
        PROVE  pass' = pass
    BY <2>3, QuietOthers DEF vars, Heartbeat, Lands, OthersWrite
  <2> QED
    BY <2>1, <2>2, <2>3 DEF Next
<1> QED
  BY <1>1, <1>3 DEF ShownInv

LEMMA InitShown == Init => ShownInv
<1> SUFFICES ASSUME Init PROVE ShownInv
  OBVIOUS
<1>1. \A w \in Workers : pass[w].pc = "idle"
  BY IdleTyped DEF Init
<1>2. \A w \in Workers : Refused(w) /\ Evidence(w)
  BY <1>1 DEF Refused, Evidence, Listed, Collected, Untried, InOrder, Rootless, Adopts,
     OnList, OnItem, OnEntry, Early, Taken, Running, Checked
<1>3. Vouched
  BY DEF Init, Vouched, Shown, AdmittedItem, NoProgress, Blank
<1>4. Halves /\ RootUnder
  BY DEF Init, Halves, RootUnder
<1> QED
  BY <1>2, <1>3, <1>4, InitLedger DEF ShownInv

\* An item is reported successful only when each of its files has landed and
\* its directory exists, whichever of the passes over it, or the resolution
\* of an abandoned operation, came to that conclusion.
THEOREM TransferSuccessIsProven == Spec => []SuccessIsProven
<1>1. ShownInv => SuccessIsProven
  BY DEF ShownInv, Vouched, Whole, Firm, SuccessIsProven
<1> QED
  BY <1>1, InitShown, ShownStep, PTL DEF Spec

=============================================================================
