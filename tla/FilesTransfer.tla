--------------------------- MODULE FilesTransfer ----------------------------
(* One durable Files Copy transfer driven by the resident Files Workers:   *)
(* the transfer row with its claim, lease and in-flight boundary, the Task *)
(* and its items, the path locks it shares with other Tasks, and Storage.  *)
(* Every database transaction is one action; a Worker can be overtaken,    *)
(* paused or stopped between any two of them.                              *)
EXTENDS Naturals

CONSTANTS Workers,      \* resident Files Workers
          ItemCount,    \* top-level selections, in list order
          EntryCount,   \* confirmed entries of each selection, in order
          Tree,         \* each selection is a directory: entry 1 is its root
          Controls,     \* the operator requests made
          KeeperFails,  \* a living Worker's lease may run out
          Outcomes,     \* what a provider call can answer
          MaxFaults,    \* bound: crashes, lapses, refusals of a Worker
          MaxControls   \* bound: operator requests

ASSUME TransferAssumption ==
  /\ ItemCount \in Nat \ {0}
  /\ EntryCount \in Nat \ {0}
  /\ Tree \in BOOLEAN
  /\ ~Tree => EntryCount = 1
  /\ Controls \subseteq {"pause", "cancel", "resume"}
  /\ KeeperFails \in BOOLEAN
  /\ Outcomes \subseteq {"success", "failed", "uncertain", "raise"}
  /\ MaxFaults \in Nat
  /\ MaxControls \in Nat

VARIABLES
  transfer,   \* the files_transfers row
  task,       \* the tasks row
  item,       \* the task_items rows with their latest Result
  lock,       \* file_locks, by the source path of an item
  world,      \* what Storage holds of each entry
  pass,       \* the pass of each Worker over the transfer
  ledger,     \* history: the effect last recorded of each entry
  uncovered,  \* history: a late pause took the locks of a newer owner
  faults, requests

rowVars == <<transfer, task, item, lock>>
vars == <<transfer, task, item, lock, world, pass, ledger, uncovered,
          faults, requests>>

Items   == 1 .. ItemCount
Entries == 1 .. EntryCount
Places  == Items \X Entries
Nowhere == <<0, 0>>

OpenStatus == {"admitted", "running"}
Ended      == {"completed", "partial", "failed", "cancelled"}
Recorded   == {"absent", "success", "failed", "skipped", "uncertain"}
Effects    == {"absent", "none", "verified", "unverified"}

Free  == [by |-> "none", claim |-> 0, kind |-> "item"]
Rival == [by |-> "rival", claim |-> 0, kind |-> "item"]
Generation(token, kind) == [by |-> "task", claim |-> token, kind |-> kind]

Blank      == [e \in Entries |-> "absent"]
NoProgress == [known |-> FALSE, outs |-> Blank, counted |-> FALSE]

AdmittedItem == [status |-> "pending", started |-> FALSE,
                 progress |-> NoProgress, effect |-> "absent"]

Idle == [pc |-> "idle", token |-> 0, item |-> 1, entry |-> 1, skip |-> {},
         outs |-> Blank, answer |-> "none", resuming |-> FALSE,
         seen |-> "pending", rows |-> [i \in Items |-> AdmittedItem]]

Init ==
  /\ transfer = [status |-> "admitted", owner |-> 0, live |-> FALSE,
                 attempts |-> 0, boundary |-> Nowhere]
  /\ task = [status |-> "pending", paused |-> FALSE]
  /\ item = [i \in Items |-> AdmittedItem]
  /\ lock = [i \in Items |-> Free]
  /\ world = [x \in Places |-> "untouched"]
  /\ pass = [w \in Workers |-> Idle]
  /\ ledger = [x \in Places |-> "none"]
  /\ uncovered = FALSE
  /\ faults = 0
  /\ requests = 0

-----------------------------------------------------------------------------
(* Claims and leases.                                                      *)

\* The claim token still names this Worker on an unfinished row.
Named(w) == transfer.owner = pass[w].token /\ transfer.status \in OpenStatus

\* The same with an unexpired lease: the fence of every guarded write.
Held(w) == Named(w) /\ transfer.live

Claimable == transfer.status \in OpenStatus /\ ~transfer.live

Abandoned == \A w \in Workers :
               pass[w].pc = "idle" \/ pass[w].token # transfer.owner

Claim(w) ==
  /\ pass[w].pc = "idle"
  /\ Claimable
  /\ transfer' = [transfer EXCEPT !.owner = transfer.attempts + 1,
                    !.live = TRUE, !.attempts = transfer.attempts + 1]
  /\ pass' = [pass EXCEPT ![w] = [Idle EXCEPT !.pc = "claimed",
                                    !.token = transfer.attempts + 1]]
  /\ UNCHANGED <<task, item, lock, world, ledger, uncovered, faults, requests>>

\* Ordinary work is never handed over inside an entered operation; such a
\* transfer is claimed only to be resolved.
ClaimNext(w) == transfer.boundary = Nowhere /\ Claim(w)
ClaimExpiredMutationNever(w) == FALSE      \* mutant: nobody resolves
ClaimExpiredMutation(w) == transfer.boundary # Nowhere /\ Claim(w)

LeaseLapses ==
  /\ transfer.live
  /\ transfer.status \in OpenStatus
  /\ transfer' = [transfer EXCEPT !.live = FALSE]
  /\ \/ Abandoned /\ faults' = faults
     \/ /\ ~Abandoned /\ KeeperFails /\ faults < MaxFaults
        /\ faults' = faults + 1
  /\ UNCHANGED <<task, item, lock, world, pass, ledger, uncovered, requests>>

\* The lease keeper renews by token alone, and only a running row.
Heartbeat(w) ==
  /\ pass[w].pc # "idle"
  /\ Named(w) /\ transfer.status = "running" /\ ~transfer.live
  /\ transfer' = [transfer EXCEPT !.live = TRUE]
  /\ UNCHANGED <<task, item, lock, world, pass, ledger, uncovered, faults,
                 requests>>

\* No service of this Worker may execute the transfer: the claim goes back
\* and the boundary stays.
ReleaseIncompatible(w) ==
  /\ pass[w].pc = "claimed"
  /\ faults < MaxFaults
  /\ transfer' = IF Named(w)
                   THEN [transfer EXCEPT !.status = "admitted", !.owner = 0,
                                         !.live = FALSE]
                   ELSE transfer
  /\ pass' = [pass EXCEPT ![w] = Idle]
  /\ faults' = faults + 1
  /\ UNCHANGED <<task, item, lock, world, ledger, uncovered, requests>>

Goto(w, pc) == pass' = [pass EXCEPT ![w].pc = pc]

\* begin_files_transfer; a lost claim is an error the Worker then closes.
BeginTransfer(w) ==
  /\ pass[w].pc = "claimed"
  /\ transfer' = IF Held(w) THEN [transfer EXCEPT !.status = "running"]
                            ELSE transfer
  /\ Goto(w, IF ~Held(w) THEN "unstarted"
             ELSE IF transfer.boundary # Nowhere THEN "resolve" ELSE "start")
  /\ UNCHANGED <<task, item, lock, world, ledger, uncovered, faults, requests>>

\* The execution service cannot be built or read.
StartFails(w) ==
  /\ pass[w].pc = "claimed"
  /\ faults < MaxFaults
  /\ Goto(w, "unstarted")
  /\ faults' = faults + 1
  /\ UNCHANGED <<rowVars, world, ledger, uncovered, requests>>

-----------------------------------------------------------------------------
(* Outcomes: what the evidence of an item or of a transfer adds up to.     *)

Said(outs) == {outs[e] : e \in Entries} \ {"absent"}

\* _item_status: doubt first, then all alike, then a known effect.
ItemOutcome(outs) ==
  IF Said(outs) = {} THEN "failed"
  ELSE IF "uncertain" \in Said(outs) THEN "uncertain"
  ELSE IF Said(outs) \in {{"success"}, {"skipped"}}
    THEN CHOOSE s \in Said(outs) : TRUE
  ELSE IF "success" \in Said(outs) THEN "partial" ELSE "failed"

EffectOf(mutated, doubt) ==
  IF doubt THEN "unverified" ELSE IF mutated THEN "verified" ELSE "none"

\* The row and Result of an item that has ended.
EndedItem(row, status, effect) ==
  [row EXCEPT !.status = status, !.progress = NoProgress, !.effect = effect]

CompletedAsSaid(row, outs) ==        \* mutant: the outcome is the status
  EndedItem(row, ItemOutcome(outs),
            EffectOf("success" \in Said(outs), ItemOutcome(outs) = "uncertain"))

CompletedItem(row, outs) ==
  LET o == ItemOutcome(outs) IN
  EndedItem(row, IF o = "uncertain" THEN "partial" ELSE o,
            EffectOf("success" \in Said(outs), o = "uncertain"))

\* item_known_mutation, then _interrupted_terminal_item.
InterruptedItem(row, forced) ==
  LET doubt   == \/ forced \/ row.effect = "unverified"
                 \/ /\ row.effect # "verified"
                    /\ "uncertain" \in Said(row.progress.outs)
      mutated == \/ row.effect \in {"verified", "unverified"}
                 \/ "success" \in Said(row.progress.outs)
                 \/ row.progress.counted
  IN  EndedItem(row, IF mutated \/ doubt THEN "partial" ELSE "failed",
                EffectOf(mutated, doubt))

\* The transfer status that the items' evidence adds up to.
TransferOutcome(rows) ==
  LET statuses == {rows[i].status : i \in Items}
      effects  == {rows[i].effect : i \in Items}
  IN  IF "unverified" \in effects THEN "failed"
      ELSE IF statuses \in {{"success"}, {"skipped"}} THEN "completed"
      ELSE IF statuses \subseteq {"success", "skipped"} THEN "partial"
      ELSE IF "verified" \in effects THEN "partial" ELSE "failed"

-----------------------------------------------------------------------------
(* Leaving a pass.                                                         *)

\* The locks that still carry this claim's takeover generation.
Retired(w) ==
  [i \in Items |-> IF lock[i] = Generation(pass[w].token, "takeover")
                     THEN Free ELSE lock[i]]

\* mutant: release by Task instead of by generation
ReleasedByTask(w) ==
  [Retired(w) EXCEPT ![pass[w].item] = IF @.by = "task" THEN Free ELSE @]

\* Retire them, and the lock generation this frame itself acquired.
Released(w) ==
  [Retired(w) EXCEPT ![pass[w].item] =
     IF @ = Generation(pass[w].token, "item") THEN Free ELSE @]

\* A lost claim: stop, publish nothing.
Stop(w) ==
  /\ pass' = [pass EXCEPT ![w] = Idle]
  /\ lock' = Released(w)
  /\ UNCHANGED <<transfer, task, item>>

Boundary(x) == [transfer EXCEPT !.boundary = x]

\* _commit_convergence: transfer, Task, items and Results in one transaction.
Converged(forced) ==
  LET rows == [i \in Items |->
                 IF item[i].status \in {"pending", "processing"}
                   THEN InterruptedItem(item[i], i = forced) ELSE item[i]]
  IN  /\ item' = rows
      /\ transfer' = [transfer EXCEPT !.status = TransferOutcome(rows),
                                      !.boundary = Nowhere]
      /\ task' = IF task.status \in {"completed", "failed", "cancelled"}
                   THEN task
                   ELSE [status |-> IF \E i \in Items : item[i].started
                                      THEN "completed" ELSE "failed",
                         paused |-> FALSE]

\* _close_unstarted: the fenced convergence, and when that is refused a
\* terminal publish that compares the token alone.
CloseUnstarted(w) ==
  /\ pass[w].pc = "unstarted"
  /\ \/ /\ Held(w)
        /\ Converged(0)
     \/ /\ ~Held(w)
        /\ transfer' = IF Named(w)
                         THEN [transfer EXCEPT !.status = "failed",
                                               !.boundary = Nowhere]
                         ELSE transfer
        /\ UNCHANGED <<task, item>>
  /\ pass' = [pass EXCEPT ![w] = Idle]
  /\ UNCHANGED <<lock, world, ledger, uncovered, faults, requests>>

\* _converge_execution_failure: whatever was in flight, the recorded
\* evidence alone decides.
ConvergeFailure(w) ==
  /\ pass[w].pc = "erred"
  /\ IF Held(w) THEN Converged(0) ELSE UNCHANGED <<transfer, task, item>>
  /\ pass' = [pass EXCEPT ![w] = Idle]
  /\ UNCHANGED <<lock, world, ledger, uncovered, faults, requests>>

\* finish_files_transfer after a cancellation: by token alone.
FinishCancelled(w) ==
  /\ pass[w].pc = "cancelled"
  /\ transfer' = IF Named(w)
                   THEN [transfer EXCEPT !.status = "cancelled",
                                         !.boundary = Nowhere]
                   ELSE transfer
  /\ pass' = [pass EXCEPT ![w] = Idle]
  /\ UNCHANGED <<task, item, lock, world, ledger, uncovered, faults, requests>>

\* pause_files_transfer: never over an entered operation.
PauseTransfer(w) ==
  /\ pass[w].pc = "paused"
  /\ transfer' =
       IF Named(w) /\ transfer.status = "running" /\ transfer.boundary = Nowhere
         THEN [transfer EXCEPT !.status = "paused", !.owner = 0, !.live = FALSE]
         ELSE transfer
  /\ pass' = [pass EXCEPT ![w] = Idle]
  /\ UNCHANGED <<task, item, lock, world, ledger, uncovered, faults, requests>>

-----------------------------------------------------------------------------
(* An entered operation whose owner is gone.                               *)

ProvenByPresence(x) == world[x] # "untouched"   \* mutant: no byte check

\* Live Storage proves a Copy only by the confirmed bytes at its place.
Proven(x) == world[x] = "landed"

\* mutant: an unproven boundary is merely cleared and the pass continues
ResolveByClearing(w) ==
  /\ pass[w].pc = "resolve" /\ Held(w)
  /\ transfer' = Boundary(Nowhere)
  /\ Goto(w, "start")
  /\ UNCHANGED <<task, item, lock, world, ledger, uncovered, faults, requests>>

ResolveInFlight(w) ==
  /\ pass[w].pc = "resolve"
  /\ UNCHANGED <<world, uncovered, faults, requests>>
  /\ LET x == transfer.boundary
         i == x[1]
         adopted == [item[i].progress.outs EXCEPT ![x[2]] = "success"]
     IN \/ /\ ~Held(w)
           /\ Stop(w)
           /\ UNCHANGED ledger
        \/ /\ Held(w) /\ ~Proven(x)
           /\ Converged(i)
           /\ ledger' = [ledger EXCEPT ![x] = "unknown"]
           /\ pass' = [pass EXCEPT ![w] = Idle]
           /\ UNCHANGED lock
        \/ /\ Held(w) /\ Proven(x)
           /\ item' = [item EXCEPT ![i] =
                IF \A e \in Entries : adopted[e] \in {"success", "skipped"}
                                      \/ (Tree /\ e = 1)
                  THEN CompletedItem(@, adopted)
                  ELSE [@ EXCEPT !.status = "processing",
                          !.progress = [known |-> TRUE, outs |-> adopted,
                                        counted |-> TRUE]]]
           /\ transfer' = Boundary(Nowhere)
           /\ ledger' = [ledger EXCEPT ![x] = "known"]
           /\ Goto(w, "start")
           /\ UNCHANGED <<task, lock>>

-----------------------------------------------------------------------------
(* Starting: the locks are rotated in place, then the Task is published.   *)

\* _execute_claimed_transfer: the Task is read, then every lock row of the
\* Task is rewritten to this claim's takeover generation under the fence.
Start(w) ==
  /\ pass[w].pc = "start"
  /\ IF task.status \in {"pending", "running"}
       THEN /\ lock' = [i \in Items |->
                          IF Held(w) /\ lock[i].by = "task"
                            THEN Generation(pass[w].token, "takeover")
                            ELSE lock[i]]
            /\ Goto(w, "queue")
       ELSE /\ Goto(w, IF task.status = "cancelled" THEN "cancelled"
                                                    ELSE "paused")
            /\ UNCHANGED lock
  /\ UNCHANGED <<transfer, task, item, world, ledger, uncovered, faults,
                 requests>>

\* begin_queued reads the Task ...
ReadQueued(w) ==
  /\ pass[w].pc = "queue"
  /\ pass' = [pass EXCEPT ![w].pc = CASE task.status = "running" -> "list"
                                     [] task.status = "pending" -> "publish"
                                     [] OTHER -> "erred"]
  /\ UNCHANGED <<rowVars, world, ledger, uncovered, faults, requests>>

\* ... and publishes what it read as running, under the fence.
PublishRunning(w) ==
  /\ pass[w].pc = "publish"
  /\ IF Held(w)
       THEN /\ task' = [status |-> "running", paused |-> FALSE]
            /\ Goto(w, "list")
       ELSE /\ pass' = [pass EXCEPT ![w] = Idle]
            /\ UNCHANGED task
  /\ UNCHANGED <<transfer, item, lock, world, ledger, uncovered, faults,
                 requests>>

\* The item rows are read once; the loop decides on this copy.
ListItems(w) ==
  /\ pass[w].pc = "list"
  /\ pass' = [pass EXCEPT ![w].pc = "items", ![w].rows = item]
  /\ UNCHANGED <<rowVars, world, ledger, uncovered, faults, requests>>

-----------------------------------------------------------------------------
(* _run_claimed_items: one decision per listed item.                       *)

Deciding(w, i) == pass[w].pc = "items" /\ pass[w].item = i

\* The rest of a pass that goes on with the next item.
NextItem(w) ==
  pass' = [pass EXCEPT ![w] =
             [Idle EXCEPT !.pc = "items", !.token = pass[w].token,
                          !.item = pass[w].item + 1, !.rows = pass[w].rows]]

Fresh(row) == row.status = "pending" /\ ~row.started

\* The listed outcomes a continuation treats as ended.
Over(row) == row.status \in {"success", "skipped", "failed", "cancelled"}

DoubtedNever(row) == FALSE                 \* mutant: doubt is replayed
Doubted(row) == "uncertain" \in Said(row.progress.outs)

StopCancelled(w) ==
  /\ pass[w].pc = "items" /\ pass[w].item \in Items
  /\ task.status = "cancelled"
  /\ Goto(w, "cancelled")
  /\ lock' = Retired(w)
  /\ UNCHANGED <<transfer, task, item, world, ledger, uncovered, faults,
                 requests>>

\* A fresh item, or one whose recorded scope still matches, is begun.
TakeItem(w) ==
  \E i \in Items :
    LET row == pass[w].rows[i] IN
    /\ Deciding(w, i) /\ task.status # "cancelled"
    /\ Fresh(row) \/ (~Over(row) /\ row.progress.known /\ ~Doubted(row))
    /\ pass' = [pass EXCEPT ![w].pc = "acquire",
                  ![w].resuming = ~Fresh(row),
                  ![w].skip = {e \in Entries :
                                 row.progress.outs[e] = "success"}]
    /\ UNCHANGED <<rowVars, world, ledger, uncovered, faults, requests>>

PassOver(w) ==
  /\ \E i \in Items : /\ Deciding(w, i) /\ task.status # "cancelled"
                      /\ Over(pass[w].rows[i])
  /\ NextItem(w)
  /\ UNCHANGED <<rowVars, world, ledger, uncovered, faults, requests>>

\* _mark_interrupted_item: no checkpoint to continue from, or a recorded
\* doubt that must not be replayed.
MarkInterrupted(w) ==
  \E i \in Items :
    LET row == pass[w].rows[i] IN
    /\ Deciding(w, i) /\ task.status # "cancelled"
    /\ ~Fresh(row) /\ ~Over(row)
    /\ ~row.progress.known \/ Doubted(row)
    /\ IF Held(w)
         THEN /\ item' = [item EXCEPT ![i] =
                   EndedItem(row, IF row.progress.known THEN "partial" ELSE "failed",
                             EffectOf(row.progress.known, FALSE))]
              /\ NextItem(w)
              /\ UNCHANGED <<transfer, task, lock>>
         ELSE Stop(w)
    /\ UNCHANGED <<world, ledger, uncovered, faults, requests>>

-----------------------------------------------------------------------------
(* begin_item: the lock, then the started row, each under the fence.       *)

NextItemIfHeld(w, row) ==
  item' = IF Held(w) THEN [item EXCEPT ![pass[w].item] = row] ELSE item

AcquireItem(w) ==
  /\ pass[w].pc = "acquire"
  /\ UNCHANGED <<transfer, task, item, world, ledger, uncovered, faults,
                 requests>>
  /\ LET i == pass[w].item IN
     \/ /\ task.status # "running"
        /\ IF pass[w].resuming THEN NextItem(w) ELSE Goto(w, "refuse")
        /\ UNCHANGED lock
     \/ /\ task.status = "running" /\ task.paused
        /\ Goto(w, "acknowledge")
        /\ UNCHANGED lock
     \/ /\ task.status = "running" /\ ~task.paused /\ ~Held(w)
        /\ pass' = [pass EXCEPT ![w] = Idle]
        /\ lock' = Retired(w)
     \/ /\ task.status = "running" /\ ~task.paused /\ Held(w)
        /\ IF lock[i].by = "rival"
             THEN Goto(w, "conflict") /\ UNCHANGED lock
             ELSE /\ lock' = [lock EXCEPT ![i] =
                                Generation(pass[w].token, "item")]
                  /\ Goto(w, "begin")

\* Another Task holds the path: the item fails, and a fresh one is then
\* completed as refused.
LockConflict(w) ==
  /\ pass[w].pc = "conflict"
  /\ IF Held(w)
       THEN /\ item' = [item EXCEPT ![pass[w].item] =
                 [@ EXCEPT !.status = "failed", !.started = TRUE,
                           !.progress = NoProgress]]
            /\ IF pass[w].resuming THEN NextItem(w) ELSE Goto(w, "refuse")
            /\ UNCHANGED <<transfer, task, lock>>
       ELSE Stop(w)
  /\ UNCHANGED <<world, ledger, uncovered, faults, requests>>

\* The refusal goes on with the next item whether or not it was written.
RefuseItem(w) ==
  /\ pass[w].pc = "refuse"
  /\ NextItemIfHeld(w, EndedItem(pass[w].rows[pass[w].item], "failed", "none"))
  /\ NextItem(w)
  /\ UNCHANGED <<transfer, task, lock, world, ledger, uncovered, faults,
                 requests>>

\* The started row keeps the predecessor's checkpoint.
PublishStart(w) ==
  /\ pass[w].pc = "begin"
  /\ IF Held(w)
       THEN /\ item' = [item EXCEPT ![pass[w].item] =
                 [@ EXCEPT !.status = "processing", !.started = TRUE]]
            /\ Goto(w, "open item")
            /\ UNCHANGED <<transfer, task, lock>>
       ELSE Stop(w)
  /\ UNCHANGED <<world, ledger, uncovered, faults, requests>>

-----------------------------------------------------------------------------
(* _execute_item_entries: the entries of one begun item.                   *)

Here(w) == <<pass[w].item, pass[w].entry>>

\* record_transfer_progress: the snapshot of this pass alone, under the
\* fence; the same transaction clears the boundary.
Progress(w, outs) ==
  /\ item' = [item EXCEPT ![pass[w].item] =
       [@ EXCEPT !.status = "processing",
                 !.progress = [known |-> TRUE, outs |-> outs,
                               counted |-> \/ pass[w].skip # {}
                                           \/ "success" \in Said(outs)]]]
  /\ transfer' = Boundary(Nowhere)
  /\ UNCHANGED <<task, lock>>

\* What the pass does after an outcome of its current entry: a root
\* directory that cannot be made ends the item.
After(w, out) ==
  pass' = [pass EXCEPT ![w].outs[pass[w].entry] = out, ![w].answer = "none",
             ![w].pc = IF Tree /\ pass[w].entry = 1 /\ out # "success"
                         THEN "complete" ELSE "entry",
             ![w].entry = @ + 1]

Outs(w, out) == [pass[w].outs EXCEPT ![pass[w].entry] = out]

\* The destination root is looked at once, before the first snapshot: a
\* fresh item never merges into it, a continued tree with nothing recorded
\* cannot claim it.
OpenItem(w) ==
  /\ pass[w].pc = "open item"
  /\ LET exists  == pass[w].skip = {} /\ world[<<pass[w].item, 1>>] # "untouched"
         refused == exists /\ (Tree \/ ~pass[w].resuming)
     IN  IF ~Held(w) THEN Stop(w)
         ELSE IF ~refused
           THEN Progress(w, Blank) /\ Goto(w, "entry")
         ELSE \E out \in IF pass[w].resuming THEN {"uncertain"}
                                             ELSE {"failed", "skipped", "uncertain"} :
                /\ Progress(w, Outs(w, out))
                /\ pass' = [pass EXCEPT ![w].outs[1] = out, ![w].pc = "complete"]
  /\ UNCHANGED <<world, ledger, uncovered, faults, requests>>

AtEntry(w) == pass[w].pc = "entry" /\ pass[w].entry \in Entries

\* Every entry first observes cancellation, then pause, then its own claim.
Interrupted(w) ==
  /\ AtEntry(w)
  /\ \/ task.status = "cancelled" \/ task.paused
     \/ ~Named(w) \/ transfer.status # "running"
  /\ \/ /\ task.status = "cancelled" \/ task.paused
        /\ Goto(w, IF task.status = "cancelled" THEN "cancelled"
                                                ELSE "acknowledge")
        /\ lock' = IF task.status = "cancelled" THEN Released(w) ELSE
             [lock EXCEPT ![pass[w].item] =
                IF @ = Generation(pass[w].token, "item") THEN Free ELSE @]
     \/ /\ task.status # "cancelled" /\ ~task.paused
        /\ pass' = [pass EXCEPT ![w] = Idle]
        /\ lock' = Released(w)
  /\ UNCHANGED <<transfer, task, item, world, ledger, uncovered, faults,
                 requests>>

\* The check passed; its heartbeat has renewed the lease.
EntryChecked(w) ==
  /\ AtEntry(w)
  /\ task.status # "cancelled" /\ ~task.paused
  /\ Named(w) /\ transfer.status = "running"
  /\ transfer' = [transfer EXCEPT !.live = TRUE]
  /\ LET e == pass[w].entry
         dir == Tree /\ e = 1
         there == world[Here(w)]
     IN \/ /\ IF dir THEN there # "untouched" ELSE e \in pass[w].skip
           /\ pass' = [pass EXCEPT ![w].entry = @ + 1]
        \/ /\ IF dir THEN there = "untouched" ELSE e \notin pass[w].skip
           /\ Goto(w, IF there = "untouched" THEN "open"
                      ELSE IF pass[w].resuming /\ Proven(Here(w)) THEN "adopt"
                      ELSE "present")
  /\ UNCHANGED <<task, item, lock, world, ledger, uncovered, faults, requests>>

\* A continuation adopts a verified copy; anything else at the destination
\* meets the selected conflict behaviour.
RecordPresent(w) ==
  /\ pass[w].pc \in {"adopt", "present"}
  /\ \E out \in IF pass[w].pc = "adopt" THEN {"success"}
                ELSE {"failed", "skipped", "uncertain"} :
       IF Held(w) THEN Progress(w, Outs(w, out)) /\ After(w, out) ELSE Stop(w)
  /\ UNCHANGED <<world, ledger, uncovered, faults, requests>>

\* begin_files_transfer_mutation, then the provider is called.
EnterMutation(w) ==
  /\ pass[w].pc = "open"
  /\ IF Held(w) /\ transfer.boundary = Nowhere
       THEN /\ transfer' = Boundary(Here(w))
            /\ Goto(w, "calling")
            /\ UNCHANGED <<task, item, lock>>
       ELSE Stop(w)
  /\ UNCHANGED <<world, ledger, uncovered, faults, requests>>

\* The provider changes the destination while its caller waits.
Lands(w) ==
  /\ pass[w].pc = "calling"
  /\ world[Here(w)] \in {"untouched", "half"}
  /\ Outcomes \cap {"success", "uncertain", "raise"} # {}
  /\ world' = [world EXCEPT ![Here(w)] =
                 IF @ = "untouched" THEN "half" ELSE "landed"]
  /\ UNCHANGED <<rowVars, pass, ledger, uncovered, faults, requests>>

\* The executor answers: verified, refused with nothing done, unprovable,
\* or by an exception.
Return(w) ==
  /\ pass[w].pc = "calling"
  /\ \E answer \in Outcomes :
       /\ answer = "success" => Proven(Here(w))
       /\ answer = "failed" => world[Here(w)] \in {"untouched", "foreign"}
       /\ IF answer = "raise"
            THEN Goto(w, "erred") /\ lock' = Released(w)
            ELSE /\ pass' = [pass EXCEPT ![w].pc = "record",
                                         ![w].answer = answer]
                 /\ UNCHANGED lock
  /\ UNCHANGED <<transfer, task, item, world, ledger, uncovered, faults,
                 requests>>

\* The outcome and the cleared boundary are one guarded write.
RecordOutcome(w) ==
  /\ pass[w].pc = "record"
  /\ LET out == pass[w].answer IN
       IF Held(w)
         THEN /\ Progress(w, Outs(w, out))
              /\ After(w, out)
              /\ ledger' = [ledger EXCEPT ![Here(w)] =
                              CASE out = "success" -> "known"
                                [] out = "uncertain" -> "unknown"
                                [] OTHER -> "none"]
         ELSE Stop(w) /\ UNCHANGED ledger
  /\ UNCHANGED <<world, uncovered, faults, requests>>

\* complete_direct_item: what this pass collected decides the item.
CompleteItem(w) ==
  /\ \/ pass[w].pc = "complete"
     \/ pass[w].pc = "entry" /\ pass[w].entry \notin Entries
  /\ IF Held(w)
       THEN /\ item' = [item EXCEPT ![pass[w].item] =
                          CompletedItem(@, pass[w].outs)]
            /\ lock' = [lock EXCEPT ![pass[w].item] =
                 IF @ = Generation(pass[w].token, "item") THEN Free ELSE @]
            /\ NextItem(w)
            /\ UNCHANGED <<transfer, task>>
       ELSE Stop(w)
  /\ UNCHANGED <<world, ledger, uncovered, faults, requests>>

-----------------------------------------------------------------------------
(* Ending a pass over all items.                                           *)

\* _publish_terminal_task_aggregate reads the Task and its evidence ...
ReadAggregate(w) ==
  /\ pass[w].pc = "items" /\ pass[w].item \notin Items
  /\ pass' = [pass EXCEPT ![w].pc = "aggregate", ![w].seen = task.status]
  /\ UNCHANGED <<rowVars, world, ledger, uncovered, faults, requests>>

\* ... and writes the Task under the fence; a refused write is ignored.
PublishAggregate(w) ==
  /\ pass[w].pc = "aggregate"
  /\ task' = IF Held(w) /\ pass[w].seen # "cancelled"
               THEN [status |-> "completed", paused |-> FALSE] ELSE task
  /\ lock' = Retired(w)
  /\ Goto(w, "finish")
  /\ UNCHANGED <<transfer, item, world, ledger, uncovered, faults, requests>>

\* finish_files_transfer: the token alone is compared.
FinishTransfer(w) ==
  /\ pass[w].pc = "finish"
  /\ transfer' = IF Named(w)
                   THEN [transfer EXCEPT !.status = TransferOutcome(item),
                                         !.boundary = Nowhere]
                   ELSE transfer
  /\ pass' = [pass EXCEPT ![w] = Idle]
  /\ UNCHANGED <<task, item, lock, world, ledger, uncovered, faults, requests>>

Late(w) == transfer.owner # pass[w].token

\* acknowledge_pause suspends the unfinished items, whoever owns them now ...
AcknowledgeItems(w) ==
  /\ pass[w].pc = "acknowledge"
  /\ IF task.status = "running" /\ task.paused
       THEN /\ item' = [i \in Items |->
                 IF item[i].status \in {"pending", "processing"}
                   THEN [item[i] EXCEPT !.status = "paused"] ELSE item[i]]
            /\ uncovered' = (uncovered \/ Late(w))
            /\ Goto(w, "acknowledged")
            /\ UNCHANGED lock
       ELSE /\ Goto(w, "erred")
            /\ lock' = Retired(w)
            /\ UNCHANGED <<item, uncovered>>
  /\ UNCHANGED <<transfer, task, world, ledger, faults, requests>>

\* ... and then clears the request and retires every lock of the Task.
AcknowledgeTask(w) ==
  /\ pass[w].pc = "acknowledged"
  /\ task' = [status |-> "running", paused |-> FALSE]
  /\ lock' = [i \in Items |-> IF lock[i].by = "task" THEN Free ELSE lock[i]]
  /\ uncovered' = (uncovered \/ Late(w))
  /\ Goto(w, "paused")
  /\ UNCHANGED <<transfer, item, world, ledger, faults, requests>>

-----------------------------------------------------------------------------
(* The operator, the other Tasks, and crashes.                             *)

Request(control) ==
  /\ control \in Controls
  /\ requests < MaxControls
  /\ requests' = requests + 1
  /\ UNCHANGED <<world, pass, ledger, uncovered, faults>>

\* pause_task_if_current
RequestPause ==
  /\ Request("pause")
  /\ task.status = "running" /\ ~task.paused
  /\ task' = [task EXCEPT !.paused = TRUE]
  /\ UNCHANGED <<transfer, item, lock>>

\* cancel_task_if_current: the lock of an item in progress stays.
CancelTask ==
  /\ Request("cancel")
  /\ task.status \in {"pending", "running"}
  /\ task' = [task EXCEPT !.status = "cancelled"]
  /\ item' = [i \in Items |->
       IF item[i].status \in {"pending", "processing", "paused"}
         THEN [item[i] EXCEPT !.status = "cancelled"] ELSE item[i]]
  /\ lock' = [i \in Items |->
       IF lock[i].by = "task" /\ item[i].status # "processing"
         THEN Free ELSE lock[i]]
  /\ UNCHANGED transfer

\* requeue_transfer: the Task in one transaction, the row in a second one
\* that a crash may prevent.
ResumeTransfer ==
  /\ Request("resume")
  /\ transfer.status = "paused"
  /\ \/ task.status = "pending"
     \/ /\ task.status = "running"
        /\ \A i \in Items : item[i].status # "processing"
  /\ task' = [status |-> "pending",
              paused |-> IF task.status = "pending" THEN task.paused ELSE FALSE]
  /\ \/ transfer' = [transfer EXCEPT !.status = "admitted"]
     \/ transfer' = transfer
  /\ UNCHANGED <<item, lock>>

\* Another Task inserts its own exclusion for the same path, and drops it.
RivalAcquires(i) ==
  /\ lock[i] = Free
  /\ lock' = [lock EXCEPT ![i] = Rival]
  /\ UNCHANGED <<transfer, task, item, world, pass, ledger, uncovered, faults,
                 requests>>

RivalReleases(i) ==
  /\ lock[i] = Rival
  /\ lock' = [lock EXCEPT ![i] = Free]
  /\ UNCHANGED <<transfer, task, item, world, pass, ledger, uncovered, faults,
                 requests>>

\* Somebody else puts other bytes at a destination.
OthersWrite(x) ==
  /\ world[x] = "untouched"
  /\ faults < MaxFaults
  /\ faults' = faults + 1
  /\ world' = [world EXCEPT ![x] = "foreign"]
  /\ UNCHANGED <<rowVars, pass, ledger, uncovered, requests>>

Crash(w) ==
  /\ pass[w].pc # "idle"
  /\ faults < MaxFaults
  /\ faults' = faults + 1
  /\ pass' = [pass EXCEPT ![w] = Idle]
  /\ UNCHANGED <<rowVars, world, ledger, uncovered, requests>>

-----------------------------------------------------------------------------

\* What a living Worker does by itself.
Works(w) ==
  \/ ClaimNext(w) \/ ClaimExpiredMutation(w) \/ BeginTransfer(w)
  \/ CloseUnstarted(w) \/ ConvergeFailure(w) \/ FinishCancelled(w)
  \/ PauseTransfer(w) \/ ResolveInFlight(w)
  \/ Start(w) \/ ReadQueued(w) \/ PublishRunning(w) \/ ListItems(w)
  \/ StopCancelled(w) \/ TakeItem(w) \/ PassOver(w) \/ MarkInterrupted(w)
  \/ AcquireItem(w) \/ LockConflict(w) \/ RefuseItem(w) \/ PublishStart(w)
  \/ OpenItem(w) \/ Interrupted(w) \/ EntryChecked(w) \/ RecordPresent(w)
  \/ EnterMutation(w) \/ Lands(w) \/ Return(w) \/ RecordOutcome(w)
  \/ CompleteItem(w) \/ ReadAggregate(w) \/ PublishAggregate(w)
  \/ FinishTransfer(w) \/ AcknowledgeItems(w) \/ AcknowledgeTask(w)

Next ==
  \/ \E w \in Workers : \/ Works(w) \/ Heartbeat(w) \/ ReleaseIncompatible(w)
                        \/ StartFails(w) \/ Crash(w)
  \/ LeaseLapses \/ RequestPause \/ CancelTask \/ ResumeTransfer
  \/ \E i \in Items : RivalAcquires(i) \/ RivalReleases(i)
  \/ \E x \in Places : OthersWrite(x)

Spec == Init /\ [][Next]_vars

\* A resident Worker keeps polling and a provider call ends; an abandoned
\* lease runs out with time.
FairSpec ==
  /\ Spec
  /\ \A w \in Workers : WF_vars(Works(w))
  /\ WF_vars(LeaseLapses /\ Abandoned)

=============================================================================
