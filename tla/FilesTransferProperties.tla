----------------------- MODULE FilesTransferProperties ----------------------
(* What the Files transfer must never do, whatever Workers, leases,        *)
(* operators and other Tasks do in between.                                *)
EXTENDS FilesTransfer

TaskStatuses == {"pending", "running", "completed", "failed", "cancelled"}
ItemStatuses == {"pending", "processing", "paused", "success", "skipped",
                 "partial", "failed", "cancelled"}

OutcomeLists == [Entries -> Recorded]

TransferRows == [status : OpenStatus \cup Ended \cup {"paused"}, owner : Nat,
                 live : BOOLEAN, attempts : Nat, boundary : Places \cup {Nowhere}]

ItemRows == [status : ItemStatuses, started : BOOLEAN,
             progress : [known : BOOLEAN, outs : OutcomeLists, counted : BOOLEAN],
             effect : Effects]

LockRows == [by : {"none", "task", "rival"}, claim : Nat,
             kind : {"takeover", "item"}]

\* Where a pass has got to; from the first group on it is about one item,
\* and in the last group about one entry of it.
OnItem  == {"acquire", "conflict", "refuse", "begin", "open item", "entry",
            "adopt", "present", "complete"}
OnEntry == {"open", "calling", "record"}
Steps   == {"idle", "claimed", "unstarted", "resolve", "start", "queue",
            "publish", "list", "items", "acknowledge", "acknowledged", "paused",
            "cancelled", "erred", "aggregate", "finish"} \cup OnItem \cup OnEntry

Frames == [pc : Steps, token : Nat, item : Nat \ {0}, entry : Nat \ {0},
           skip : SUBSET Entries, outs : OutcomeLists,
           answer : {"none", "success", "failed", "uncertain"},
           resuming : BOOLEAN, seen : TaskStatuses, rows : [Items -> ItemRows]]

Placed(p) ==
  /\ p.pc \in OnItem \cup OnEntry => p.item \in Items
  /\ p.pc \in OnEntry => p.entry \in Entries
  /\ p.pc = "record" => p.answer # "none"

\* Every row, lock and pass has its shape: what a pass computes is a status
\* the row can hold, and the boundary names an entry of the plan.
TransferTypeOK ==
  /\ transfer \in TransferRows
  /\ task \in [status : TaskStatuses, paused : BOOLEAN]
  /\ item \in [Items -> ItemRows]
  /\ lock \in [Items -> LockRows]
  /\ world \in [Places -> {"untouched", "half", "landed", "foreign"}]
  /\ ledger \in [Places -> {"none", "known", "unknown"}]
  /\ pass \in [Workers -> Frames]
  /\ \A w \in Workers : Placed(pass[w])

\* An operation the transfer has entered is never handed to a second caller:
\* two Workers are never inside the provider call of the same entry, however
\* long the first one stalls (claim_next_files_transfer skips an entered
\* boundary, begin_files_transfer_mutation opens one only over none).
OneCallPerEntry ==
  \A v, w \in Workers :
    /\ v # w /\ pass[v].pc = "calling" /\ pass[w].pc = "calling"
    => Here(v) # Here(w)

\* An item is reported successful only when every file of it has landed and
\* its directory exists, across takeovers, adopted effects, foreign files,
\* pauses and continuations that record only what they did themselves.
SuccessIsProven ==
  \A i \in Items : item[i].status = "success" =>
    \A e \in Entries :
      world[<<i, e>>] \in IF Tree /\ e = 1 THEN {"landed", "foreign"}
                                          ELSE {"landed"}

\* While the owner of the claim is inside a provider call, no other Task can
\* hold the path: rotation, late releases, cancellation and conflicts never
\* open a gap.  The one exception the code has is recorded by "uncovered":
\* a Worker that lost its claim acknowledged a pause.
ExclusionUnlessLatePause ==
  \A w \in Workers :
    /\ pass[w].pc = "calling" /\ pass[w].token = transfer.owner
    /\ ~uncovered
    => lock[pass[w].item].by = "task"

\* The transfer keeps the promise of the effect ledger.
Ledger == INSTANCE EffectLedger WITH
  Operations <- Places,
  phase <- IF transfer.status \in Ended THEN "closed" ELSE "open",
  effect <- [x \in Places |->
               IF transfer.boundary = x THEN "entered" ELSE ledger[x]]

KeepsLedger == Ledger!LedgerSpec

\* With finitely many faults and requests a transfer comes to rest: it ends,
\* or it waits for the operator to resume it.
Settles == <>[](transfer.status \in Ended \cup {"paused"})

=============================================================================
