------------------------- MODULE FilesTransferProofs -------------------------
(* That no entered operation gets a second caller, for any number of Files  *)
(* Workers, items and entries.  While a Worker is inside a provider call,   *)
(* one of three things keeps everybody else out of that entry: the boundary *)
(* names it, the transfer has ended, or its bytes have landed (Standing);   *)
(* the owner's boundary is empty except inside an operation (Clear, Inside) *)
(* and an owner about to enter an entry has nobody inside it (Alone).       *)
(* And that the lock over the transfer's paths stays held until it has      *)
(* ended.                                                                   *)
EXTENDS FilesTransferProperties, TLAPS

\* This Worker's unfinished pass is the one that the claim names.
Mine(w) == Named(w) /\ pass[w].pc # "idle"

\* Steps at which the owner may meet a boundary that is not cleared.
Opening == {"idle", "claimed", "unstarted", "resolve", "calling", "record", "erred"}

\* A token is minted once.
Tokens ==
  /\ transfer.owner <= transfer.attempts
  /\ transfer.status = "paused" => transfer.owner = 0
  /\ \A w \in Workers :
       pass[w].pc # "idle" => pass[w].token \in 1 .. transfer.attempts
  /\ \A v, w \in Workers :
       v # w /\ pass[v].pc # "idle" /\ pass[w].pc # "idle" =>
         pass[v].token # pass[w].token

Clear(w) ==
  Mine(w) /\ pass[w].pc \notin Opening => transfer.boundary = Nowhere

Inside(w) ==
  Mine(w) /\ pass[w].pc \in {"calling", "record"} => transfer.boundary = Here(w)

Standing(w) ==
  pass[w].pc = "calling" => \/ transfer.boundary = Here(w)
                            \/ transfer.status \in Ended
                            \/ world[Here(w)] = "landed"

Alone(w) ==
  Mine(w) /\ pass[w].pc \in OnEntry =>
    \A v \in Workers : v # w /\ pass[v].pc = "calling" => Here(v) # Here(w)

CallInv ==
  /\ TransferTypeOK
  /\ Tokens
  /\ \A w \in Workers : Clear(w) /\ Inside(w) /\ Standing(w) /\ Alone(w)
  /\ OneCallPerEntry

-----------------------------------------------------------------------------
(* Types of what the operators compute.                                    *)

LEMMA Numbers ==
  /\ ItemCount \in Nat \ {0} /\ EntryCount \in Nat \ {0}
  /\ 1 \in Items /\ 1 \in Entries
  /\ Items \subseteq Nat \ {0} /\ Entries \subseteq Nat \ {0}
  /\ Nowhere \notin Places
BY TransferAssumption DEF Items, Entries, Places, Nowhere

LEMMA BlankTyped == Blank \in OutcomeLists
BY DEF Blank, OutcomeLists, Recorded

LEMMA AdmittedTyped == AdmittedItem \in ItemRows
BY BlankTyped DEF AdmittedItem, NoProgress, ItemRows, ItemStatuses, Effects

LEMMA IdleTyped == Idle \in Frames /\ Placed(Idle) /\ Idle.pc = "idle" /\ Idle.token = 0
<1>1. 1 \in Nat \ {0} /\ 0 \in Nat
  OBVIOUS
<1>2. [i \in Items |-> AdmittedItem] \in [Items -> ItemRows]
  BY AdmittedTyped
<1> QED
  BY <1>1, <1>2, BlankTyped
     DEF Idle, Frames, Placed, Steps, OnItem, OnEntry, TaskStatuses

LEMMA EffectTyped ==
  ASSUME NEW mutated, NEW doubt
  PROVE  EffectOf(mutated, doubt) \in Effects
BY DEF EffectOf, Effects

LEMMA EndedTyped ==
  ASSUME NEW row \in ItemRows, NEW status \in ItemStatuses, NEW effect \in Effects
  PROVE  EndedItem(row, status, effect) \in ItemRows
BY BlankTyped DEF EndedItem, NoProgress, ItemRows

LEMMA OutcomeTyped ==
  ASSUME NEW outs \in OutcomeLists
  PROVE  ItemOutcome(outs) \in {"success", "skipped", "partial", "failed", "uncertain"}
<1>1. CASE Said(outs) \in {{"success"}, {"skipped"}}
  <2>1. (CHOOSE s \in Said(outs) : TRUE) \in Said(outs)
    BY <1>1
  <2> QED BY <1>1, <2>1 DEF ItemOutcome
<1>2. CASE Said(outs) \notin {{"success"}, {"skipped"}}
  BY <1>2 DEF ItemOutcome
<1> QED BY <1>1, <1>2

LEMMA CompletedTyped ==
  ASSUME NEW row \in ItemRows, NEW outs \in OutcomeLists
  PROVE  CompletedItem(row, outs) \in ItemRows
<1> DEFINE o == ItemOutcome(outs)
<1>1. o \in {"success", "skipped", "partial", "failed", "uncertain"}
  BY OutcomeTyped
<1> HIDE DEF o
<1>2. (IF o = "uncertain" THEN "partial" ELSE o) \in ItemStatuses
  BY <1>1 DEF ItemStatuses
<1>3. EffectOf("success" \in Said(outs), o = "uncertain") \in Effects
  BY EffectTyped
<1> QED
  BY <1>2, <1>3, EndedTyped DEF CompletedItem, o

LEMMA InterruptedTyped ==
  ASSUME NEW row \in ItemRows, NEW forced \in BOOLEAN
  PROVE  InterruptedItem(row, forced) \in ItemRows
<1> DEFINE doubt == \/ forced \/ row.effect = "unverified"
                    \/ /\ row.effect # "verified"
                       /\ "uncertain" \in Said(row.progress.outs)
           mutated == \/ row.effect \in {"verified", "unverified"}
                      \/ "success" \in Said(row.progress.outs)
                      \/ row.progress.counted
<1>1. doubt \in BOOLEAN /\ mutated \in BOOLEAN
  BY DEF ItemRows
<1>2. InterruptedItem(row, forced) =
        EndedItem(row, IF mutated \/ doubt THEN "partial" ELSE "failed",
                  EffectOf(mutated, doubt))
  BY DEF InterruptedItem
<1> HIDE DEF doubt, mutated
<1>3. /\ (IF mutated \/ doubt THEN "partial" ELSE "failed") \in ItemStatuses
      /\ EffectOf(mutated, doubt) \in Effects
  BY <1>1, EffectTyped DEF ItemStatuses
<1> QED
  BY <1>2, <1>3, EndedTyped

LEMMA TransferOutcomeEnds ==
  ASSUME NEW rows PROVE TransferOutcome(rows) \in Ended
BY DEF TransferOutcome, Ended

-----------------------------------------------------------------------------
(* Types of the parts of a step.                                           *)

LocksOK == lock \in [Items -> LockRows]
WorldOK == /\ world \in [Places -> {"untouched", "half", "landed", "foreign"}]
           /\ ledger \in [Places -> {"none", "known", "unknown"}]
PassesOK == pass \in [Workers -> Frames] /\ \A w \in Workers : Placed(pass[w])
RowsOK  == /\ transfer \in TransferRows
           /\ task \in [status : TaskStatuses, paused : BOOLEAN]
           /\ item \in [Items -> ItemRows]

LEMMA Parts == TransferTypeOK <=> RowsOK /\ LocksOK /\ WorldOK /\ PassesOK
BY DEF TransferTypeOK, RowsOK, LocksOK, WorldOK, PassesOK

LEMMA LocksStand ==
  ASSUME LocksOK, lock' = lock PROVE LocksOK'
BY DEF LocksOK

LEMMA WorldStands ==
  ASSUME WorldOK, world' = world, ledger' = ledger PROVE WorldOK'
BY DEF WorldOK

LEMMA RowsStand ==
  ASSUME RowsOK, transfer' = transfer, task' = task, item' = item PROVE RowsOK'
BY DEF RowsOK

LEMMA LockValues ==
  ASSUME NEW token \in Nat
  PROVE  \A l \in {Free, Rival, Generation(token, "takeover"),
                    Generation(token, "item")} : l \in LockRows
BY DEF Free, Rival, Generation, LockRows

LEMMA RetiredTyped ==
  ASSUME LocksOK, NEW w \in Workers, lock' = Retired(w) PROVE LocksOK'
<1>1. Free \in LockRows
  BY DEF Free, LockRows
<1> QED
  BY <1>1 DEF LocksOK, Retired

LEMMA ReleasedTyped ==
  ASSUME LocksOK, NEW w \in Workers, lock' = Released(w) PROVE LocksOK'
<1>1. Free \in LockRows
  BY DEF Free, LockRows
<1>2. Retired(w) \in [Items -> LockRows]
  BY <1>1 DEF LocksOK, Retired
<1> QED
  BY <1>1, <1>2 DEF LocksOK, Released

\* The pass's own lock alone is given back.
LEMMA FreedTyped ==
  ASSUME LocksOK, NEW w \in Workers,
         lock' = [lock EXCEPT ![pass[w].item] =
                    IF @ = Generation(pass[w].token, "item") THEN Free ELSE @]
  PROVE  LocksOK'
<1>1. Free \in LockRows
  BY DEF Free, LockRows
<1> QED
  BY <1>1 DEF LocksOK

LEMMA BoundaryTyped ==
  ASSUME transfer \in TransferRows, NEW x \in Places \cup {Nowhere}
  PROVE  /\ Boundary(x) \in TransferRows
         /\ Boundary(x).boundary = x
         /\ Boundary(x).status = transfer.status
         /\ Boundary(x).owner = transfer.owner
         /\ Boundary(x).attempts = transfer.attempts
BY DEF Boundary, TransferRows

LEMMA ConvergedTyped ==
  ASSUME RowsOK, NEW forced, Converged(forced)
  PROVE  /\ RowsOK'
         /\ transfer'.status \in Ended
         /\ transfer'.owner = transfer.owner
         /\ transfer'.attempts = transfer.attempts
<1> DEFINE rows == [i \in Items |->
                 IF item[i].status \in {"pending", "processing"}
                   THEN InterruptedItem(item[i], i = forced) ELSE item[i]]
<1>1. /\ item' = rows
      /\ transfer' = [transfer EXCEPT !.status = TransferOutcome(rows),
                                      !.boundary = Nowhere]
      /\ task' = IF task.status \in {"completed", "failed", "cancelled"}
                   THEN task
                   ELSE [status |-> IF \E i \in Items : item[i].started
                                      THEN "completed" ELSE "failed",
                         paused |-> FALSE]
  BY DEF Converged
<1>2. rows \in [Items -> ItemRows]
  BY InterruptedTyped DEF RowsOK
<1>3. TransferOutcome(rows) \in Ended
  BY TransferOutcomeEnds
<1> HIDE DEF rows
<1>4. /\ transfer' \in TransferRows /\ transfer'.status \in Ended
      /\ transfer'.owner = transfer.owner /\ transfer'.attempts = transfer.attempts
  BY <1>1, <1>3 DEF RowsOK, TransferRows
<1>5. task' \in [status : TaskStatuses, paused : BOOLEAN]
  BY <1>1 DEF RowsOK, TaskStatuses
<1> QED
  BY <1>1, <1>2, <1>4, <1>5 DEF RowsOK

LEMMA ProgressTyped ==
  ASSUME RowsOK, LocksOK, NEW w \in Workers, pass[w] \in Frames,
         NEW outs \in OutcomeLists, Progress(w, outs)
  PROVE  /\ RowsOK' /\ LocksOK'
         /\ transfer' = Boundary(Nowhere)
<1>1. /\ transfer' = Boundary(Nowhere) /\ task' = task /\ lock' = lock
      /\ item' = [item EXCEPT ![pass[w].item] =
           [@ EXCEPT !.status = "processing",
                     !.progress = [known |-> TRUE, outs |-> outs,
                                   counted |-> \/ pass[w].skip # {}
                                               \/ "success" \in Said(outs)]]]
  BY DEF Progress
<1>2. \A row \in ItemRows : \A c \in BOOLEAN :
        [row EXCEPT !.status = "processing",
                    !.progress = [known |-> TRUE, outs |-> outs, counted |-> c]]
          \in ItemRows
  BY DEF ItemRows, ItemStatuses
<1>3. item' \in [Items -> ItemRows]
  BY <1>1, <1>2 DEF RowsOK
<1> QED
  BY <1>1, <1>3, LocksStand, BoundaryTyped DEF RowsOK

-----------------------------------------------------------------------------
(* How a pass moves.                                                       *)

\* One pass moves, the others stand.
Moves(w) ==
  /\ PassesOK'
  /\ \A v \in Workers : v # w => pass'[v] = pass[v]

\* It is the same pass.
Goes(w, c) ==
  /\ Moves(w)
  /\ pass'[w].pc = c
  /\ pass'[w].token = pass[w].token
  /\ pass'[w].item = pass[w].item

LEMMA Going ==
  ASSUME PassesOK, NEW w \in Workers, NEW c \in Steps \ {"record"}, Goto(w, c),
         c \in OnItem \cup OnEntry => pass[w].item \in Items,
         c \in OnEntry => pass[w].entry \in Entries
  PROVE  Goes(w, c) /\ pass'[w].entry = pass[w].entry
<1> DEFINE p == [pass[w] EXCEPT !.pc = c]
<1>1. pass' = [pass EXCEPT ![w] = p] /\ pass[w] \in Frames
  BY DEF Goto, PassesOK
<1>2. /\ p \in Frames /\ p.pc = c /\ p.token = pass[w].token
      /\ p.item = pass[w].item /\ p.entry = pass[w].entry
  BY <1>1 DEF Frames
<1> HIDE DEF p
<1>3. pass' \in [Workers -> Frames] /\ pass'[w] = p
  BY <1>1, <1>2 DEF PassesOK
<1>4. Placed(p)
  BY <1>2 DEF Placed
<1>5. \A v \in Workers : v # w => pass'[v] = pass[v]
  BY <1>1 DEF PassesOK
<1> QED
  BY <1>2, <1>3, <1>4, <1>5 DEF Goes, Moves, PassesOK

LEMMA Resting ==
  ASSUME PassesOK, NEW w \in Workers, pass' = [pass EXCEPT ![w] = Idle]
  PROVE  Moves(w) /\ pass'[w].pc = "idle"
BY IdleTyped DEF Moves, PassesOK

LEMMA Turning ==
  ASSUME PassesOK, NEW w \in Workers, NextItem(w)
  PROVE  Moves(w) /\ pass'[w].pc = "items" /\ pass'[w].token = pass[w].token
<1> DEFINE p == [Idle EXCEPT !.pc = "items", !.token = pass[w].token,
                   !.item = pass[w].item + 1, !.rows = pass[w].rows]
<1>1. pass' = [pass EXCEPT ![w] = p] /\ pass[w] \in Frames
  BY DEF NextItem, PassesOK
<1>2. pass[w].item + 1 \in Nat \ {0}
  BY <1>1 DEF Frames
<1>3. p \in Frames /\ p.pc = "items" /\ p.token = pass[w].token
  BY <1>1, <1>2, IdleTyped DEF Frames, Steps
<1> HIDE DEF p
<1>4. Placed(p)
  BY <1>3 DEF Placed, OnItem, OnEntry
<1> QED
  BY <1>1, <1>3, <1>4 DEF Moves, PassesOK

-----------------------------------------------------------------------------
(* Kinds of steps, by what they may disturb.                               *)

LandedStays == \A x \in Places : world[x] = "landed" => world'[x] = "landed"

\* The claim and the boundary stand.
ClaimStands ==
  /\ transfer'.owner = transfer.owner
  /\ transfer'.attempts = transfer.attempts
  /\ transfer'.boundary = transfer.boundary
  /\ \/ transfer'.status = transfer.status
     \/ transfer.status \in OpenStatus /\ transfer'.status \in OpenStatus
     \/ transfer.status = "paused" /\ transfer'.status = "admitted"

\* The claim and the boundary stand while one pass goes on outside provider
\* calls, or ends.
LEMMA Quiet ==
  ASSUME CallInv, RowsOK', LocksOK', WorldOK', ClaimStands, LandedStays,
         NEW w \in Workers, Moves(w),
         pass'[w].pc # "idle" =>
           pass[w].pc # "idle" /\ pass'[w].token = pass[w].token,
         pass'[w].pc \notin Opening =>
           pass[w].pc \notin Opening \/ transfer'.boundary = Nowhere,
         pass'[w].pc \notin OnEntry
  PROVE  CallInv'
<1>1. Tokens'
  <2>1. Tokens
    BY DEF CallInv
  <2>2. transfer'.status = "paused" => transfer.status = "paused"
    BY DEF ClaimStands, OpenStatus
  <2>3. \A v \in Workers : pass'[v].pc # "idle" =>
          pass[v].pc # "idle" /\ pass'[v].token = pass[v].token
    BY DEF Moves
  <2> QED
    BY <2>1, <2>2, <2>3 DEF Tokens, ClaimStands
<1>2. \A v \in Workers : pass'[v].pc = "calling" =>
        v # w /\ pass[v].pc = "calling" /\ Here(v)' = Here(v) /\ Here(v) \in Places
  <2> TAKE v \in Workers
  <2> HAVE pass'[v].pc = "calling"
  <2>1. v # w /\ pass'[v] = pass[v]
    BY DEF Moves, OnEntry
  <2>2. Placed(pass[v])
    BY DEF CallInv, TransferTypeOK
  <2> QED
    BY <2>1, <2>2 DEF Here, Placed, OnEntry, Places
<1>3. \A v \in Workers : Mine(v)' => Mine(v) /\ pass'[v].token = pass[v].token
  <2> TAKE v \in Workers
  <2> HAVE Mine(v)'
  <2>1. pass[v].pc # "idle" /\ pass'[v].token = pass[v].token
    BY DEF Mine, Moves
  <2>2. transfer.status # "paused"
    BY <2>1 DEF Mine, Named, CallInv, Tokens, ClaimStands
  <2> QED
    BY <2>1, <2>2 DEF Mine, Named, ClaimStands, OpenStatus
<1>4. ASSUME NEW v \in Workers PROVE Clear(v)'
  <2>1. Clear(v)
    BY DEF CallInv
  <2> QED
    BY <2>1, <1>3 DEF Clear, Moves, ClaimStands
<1>5. ASSUME NEW v \in Workers PROVE Inside(v)'
  <2>1. Inside(v)
    BY DEF CallInv
  <2> QED
    BY <2>1, <1>3 DEF Inside, Moves, ClaimStands, Here, OnEntry
<1>6. ASSUME NEW v \in Workers PROVE Standing(v)'
  <2>1. Standing(v)
    BY DEF CallInv
  <2>2. transfer.status \in Ended => transfer'.status \in Ended
    BY DEF ClaimStands, OpenStatus, Ended
  <2> QED
    BY <2>1, <2>2, <1>2 DEF Standing, ClaimStands, LandedStays
<1>7. ASSUME NEW v \in Workers PROVE Alone(v)'
  <2>1. Alone(v)
    BY DEF CallInv
  <2>2. CASE v = w
    BY <2>2 DEF Alone
  <2>3. CASE v # w
    <3>1. pass'[v] = pass[v] /\ Here(v)' = Here(v)
      BY <2>3 DEF Moves, Here
    <3> QED BY <2>1, <3>1, <1>2, <1>3 DEF Alone
  <2> QED BY <2>2, <2>3
<1>8. OneCallPerEntry'
  BY <1>2 DEF CallInv, OneCallPerEntry
<1> QED
  BY <1>1, <1>4, <1>5, <1>6, <1>7, <1>8, Parts
     DEF CallInv, Moves, RowsOK, LocksOK, WorldOK, PassesOK, TransferTypeOK

LEMMA Ends ==
  ASSUME CallInv, RowsOK', LocksOK', WorldOK', NEW w \in Workers, Moves(w),
         pass'[w].pc = "idle",
         transfer'.status \in Ended, transfer'.owner = transfer.owner,
         transfer'.attempts = transfer.attempts
  PROVE  CallInv'
<1>1. Tokens'
  BY DEF CallInv, Tokens, Moves, Ended
<1>2. \A v \in Workers : ~Mine(v)'
  BY DEF Mine, Named, OpenStatus, Ended
<1>3. \A v \in Workers : pass'[v].pc = "calling" =>
        pass[v].pc = "calling" /\ Here(v)' = Here(v)
  BY DEF Moves, Here
<1>4. OneCallPerEntry'
  BY <1>3 DEF CallInv, OneCallPerEntry
<1>5. ASSUME NEW v \in Workers
      PROVE  (Clear(v) /\ Inside(v) /\ Standing(v) /\ Alone(v))'
  BY <1>2 DEF Clear, Inside, Standing, Alone
<1> QED
  BY <1>1, <1>4, <1>5
     DEF CallInv, Moves, RowsOK, LocksOK, WorldOK, PassesOK, TransferTypeOK

\* No pass moves.
LEMMA Stands ==
  ASSUME CallInv, RowsOK', LocksOK', WorldOK', ClaimStands, LandedStays,
         pass' = pass
  PROVE  CallInv'
<1>1. PassesOK'
  BY DEF CallInv, TransferTypeOK, PassesOK
<1>2. Tokens'
  BY DEF CallInv, Tokens, ClaimStands, OpenStatus
<1>3. \A v \in Workers : Here(v)' = Here(v)
  BY DEF Here
<1>4. \A v \in Workers : pass[v].pc = "calling" => Here(v) \in Places
  BY DEF CallInv, TransferTypeOK, Placed, OnEntry, Here, Places
<1>5. \A v \in Workers : Mine(v)' => Mine(v)
  <2> TAKE v \in Workers
  <2> HAVE Mine(v)'
  <2>1. transfer.status # "paused"
    BY DEF Mine, Named, CallInv, Tokens, ClaimStands
  <2> QED
    BY <2>1 DEF Mine, Named, ClaimStands, OpenStatus
<1>6. transfer.status \in Ended => transfer'.status \in Ended
  BY DEF ClaimStands, OpenStatus, Ended
<1>7. ASSUME NEW v \in Workers
      PROVE  (Clear(v) /\ Inside(v) /\ Standing(v) /\ Alone(v))'
  <2>1. Clear(v) /\ Inside(v) /\ Standing(v) /\ Alone(v)
    BY DEF CallInv
  <2> QED
    BY <2>1, <1>3, <1>4, <1>5, <1>6
       DEF Clear, Inside, Standing, Alone, ClaimStands, LandedStays
<1>8. OneCallPerEntry'
  BY <1>3 DEF CallInv, OneCallPerEntry
<1> QED
  BY <1>1, <1>2, <1>7, <1>8
     DEF CallInv, RowsOK, LocksOK, WorldOK, PassesOK, TransferTypeOK

\* The claim goes back.
LEMMA Yields ==
  ASSUME CallInv, RowsOK', LocksOK', WorldOK', LandedStays,
         NEW w \in Workers, Moves(w), pass'[w].pc = "idle", Named(w),
         transfer'.owner = 0, transfer'.attempts = transfer.attempts,
         transfer'.boundary = transfer.boundary
  PROVE  CallInv'
<1>1. Tokens'
  BY DEF CallInv, Tokens, Moves, RowsOK, TransferRows
<1>2. \A v \in Workers : ~Mine(v)'
  BY <1>1 DEF Mine, Named, Tokens
<1>3. \A v \in Workers : pass'[v].pc = "calling" =>
        pass[v].pc = "calling" /\ Here(v)' = Here(v) /\ Here(v) \in Places
  BY DEF Moves, Here, CallInv, TransferTypeOK, Placed, OnEntry, Places
<1>4. OneCallPerEntry'
  BY <1>3 DEF CallInv, OneCallPerEntry
<1>5. ASSUME NEW v \in Workers
      PROVE  (Clear(v) /\ Inside(v) /\ Standing(v) /\ Alone(v))'
  <2>1. Standing(v) /\ transfer.status \notin Ended
    BY DEF CallInv, Named, OpenStatus, Ended
  <2>2. Standing(v)'
    BY <2>1, <1>3 DEF Standing, LandedStays
  <2> QED
    BY <2>2, <1>2 DEF Clear, Inside, Alone
<1> QED
  BY <1>1, <1>4, <1>5
     DEF CallInv, Moves, RowsOK, LocksOK, WorldOK, PassesOK, TransferTypeOK

LEMMA OneOwner ==
  ASSUME CallInv, NEW v \in Workers, NEW w \in Workers, Mine(v), Mine(w)
  PROVE  v = w
BY DEF CallInv, Tokens, Mine, Named

\* The owner clears the boundary.
LEMMA Clears ==
  ASSUME CallInv, RowsOK', LocksOK', WorldOK', LandedStays,
         NEW w \in Workers, Moves(w), Mine(w),
         pass'[w].pc \notin OnEntry, pass'[w].token = pass[w].token,
         transfer' = Boundary(Nowhere),
         \A v \in Workers : v # w /\ pass[v].pc = "calling" =>
           transfer.boundary # Here(v) \/ world[Here(v)] = "landed"
  PROVE  CallInv'
<1>1. /\ transfer'.owner = transfer.owner /\ transfer'.status = transfer.status
      /\ transfer'.attempts = transfer.attempts /\ transfer'.boundary = Nowhere
  BY BoundaryTyped DEF CallInv, TransferTypeOK
<1>2. Tokens'
  BY <1>1 DEF CallInv, Tokens, Moves, Mine
<1>3. \A v \in Workers : pass'[v].pc = "calling" =>
        v # w /\ pass[v].pc = "calling" /\ Here(v)' = Here(v) /\ Here(v) \in Places
  BY DEF Moves, Here, CallInv, TransferTypeOK, Placed, OnEntry, Places
<1>4. \A v \in Workers : Mine(v)' => v = w
  <2> TAKE v \in Workers
  <2> HAVE Mine(v)'
  <2>1. v # w => Mine(v)
    BY <1>1 DEF Mine, Named, Moves
  <2> QED BY <2>1, OneOwner
<1>5. ASSUME NEW v \in Workers
      PROVE  (Clear(v) /\ Inside(v) /\ Standing(v) /\ Alone(v))'
  <2>1. Standing(v) /\ transfer.status \notin Ended
    BY DEF CallInv, Mine, Named, OpenStatus, Ended
  <2>2. Standing(v)'
    BY <2>1, <1>3 DEF Standing, LandedStays
  <2> QED
    BY <2>2, <1>1, <1>4 DEF Clear, Inside, Alone, OnEntry
<1>6. OneCallPerEntry'
  BY <1>3 DEF CallInv, OneCallPerEntry
<1> QED
  BY <1>2, <1>5, <1>6
     DEF CallInv, Moves, RowsOK, LocksOK, WorldOK, PassesOK, TransferTypeOK

LEMMA Typed ==
  ASSUME CallInv
  PROVE  /\ RowsOK /\ LocksOK /\ WorldOK /\ PassesOK
         /\ \A w \in Workers : pass[w] \in Frames /\ Placed(pass[w])
BY DEF CallInv, RowsOK, LocksOK, WorldOK, PassesOK, TransferTypeOK

\* One pass goes on or ends, and the transfer row stands.
LEMMA QuietPass ==
  ASSUME CallInv, NEW w \in Workers, Moves(w), RowsOK', LocksOK',
         transfer' = transfer, world' = world, ledger' = ledger,
         pass'[w].pc # "idle" =>
           pass[w].pc # "idle" /\ pass'[w].token = pass[w].token,
         pass'[w].pc \notin Opening => pass[w].pc \notin Opening,
         pass'[w].pc \notin OnEntry
  PROVE  CallInv'
<1>1. WorldOK'
  BY Typed, WorldStands
<1>2. ClaimStands /\ LandedStays
  BY DEF ClaimStands, LandedStays
<1> QED
  BY <1>1, <1>2, Quiet

LEMMA QuietStop ==
  ASSUME CallInv, NEW w \in Workers, Stop(w), world' = world, ledger' = ledger
  PROVE  CallInv'
<1>1. /\ pass' = [pass EXCEPT ![w] = Idle] /\ lock' = Released(w)
      /\ transfer' = transfer /\ task' = task /\ item' = item
  BY DEF Stop
<1>2. Moves(w) /\ pass'[w].pc = "idle"
  BY <1>1, Typed, Resting
<1>3. RowsOK' /\ LocksOK'
  BY <1>1, Typed, RowsStand, ReleasedTyped
<1> QED
  BY <1>1, <1>2, <1>3, QuietPass DEF Opening, OnEntry

-----------------------------------------------------------------------------
(* The initial state.                                                      *)

LEMMA InitCalls == Init => CallInv
<1> SUFFICES ASSUME Init PROVE CallInv
  OBVIOUS
<1>1. RowsOK
  BY AdmittedTyped DEF Init, RowsOK, TransferRows, OpenStatus, TaskStatuses
<1>2. LocksOK /\ WorldOK
  BY DEF Init, LocksOK, LockRows, WorldOK, Free
<1>3. PassesOK /\ \A w \in Workers : pass[w].pc = "idle"
  BY IdleTyped DEF Init, PassesOK
<1>4. Tokens
  BY <1>3 DEF Init, Tokens
<1>5. ASSUME NEW w \in Workers PROVE Clear(w) /\ Inside(w) /\ Standing(w) /\ Alone(w)
  BY <1>3 DEF Clear, Inside, Standing, Alone, Mine
<1>6. OneCallPerEntry
  BY <1>3 DEF OneCallPerEntry
<1> QED
  BY <1>1, <1>2, <1>3, <1>4, <1>5, <1>6, Parts DEF CallInv

-----------------------------------------------------------------------------
(* Claims and leases.                                                      *)

LEMMA ClaimKeeps ==
  ASSUME CallInv, NEW w \in Workers, Claim(w) PROVE CallInv'
<1> DEFINE n == transfer.attempts + 1
           p == [Idle EXCEPT !.pc = "claimed", !.token = n]
<1>1. /\ transfer' = [transfer EXCEPT !.owner = n, !.live = TRUE, !.attempts = n]
      /\ pass' = [pass EXCEPT ![w] = p]
      /\ task' = task /\ item' = item /\ lock' = lock
      /\ world' = world /\ ledger' = ledger
      /\ transfer.status \in OpenStatus
  BY DEF Claim, Claimable
<1>2. transfer \in TransferRows /\ transfer.attempts \in Nat /\ n \in Nat
  BY Typed DEF RowsOK, TransferRows
<1>3. /\ p \in Frames /\ p.pc = "claimed" /\ p.token = n
  BY <1>2, IdleTyped DEF Frames, Steps
<1>4. Placed(p)
  BY <1>3 DEF Placed, OnItem, OnEntry
<1> HIDE DEF p
<1>5. Moves(w) /\ pass'[w] = p
  BY <1>1, <1>3, <1>4, Typed DEF Moves, PassesOK
<1>6. /\ transfer' \in TransferRows
      /\ transfer'.owner = n /\ transfer'.attempts = n
      /\ transfer'.boundary = transfer.boundary /\ transfer'.status = transfer.status
  BY <1>1, <1>2 DEF TransferRows
<1> HIDE DEF n
<1>7. RowsOK' /\ LocksOK' /\ WorldOK'
  BY <1>1, <1>6, Typed, LocksStand, WorldStands DEF RowsOK
<1>8. Tokens'
  <2>1. n = transfer.attempts + 1
    BY DEF n
  <2>2. \A v \in Workers : v # w /\ pass'[v].pc # "idle" =>
          pass'[v].token \in 1 .. transfer.attempts
    BY <1>5 DEF CallInv, Tokens, Moves
  <2>3. transfer'.status # "paused"
    BY <1>1, <1>6 DEF OpenStatus
  <2>4. \A v \in Workers : pass'[v].pc # "idle" =>
          /\ pass'[v].token \in 1 .. n
          /\ v # w => pass'[v].token # n
    <3> TAKE v \in Workers
    <3> HAVE pass'[v].pc # "idle"
    <3>1. CASE v = w
      BY <3>1, <2>1, <1>2, <1>3, <1>5
    <3>2. CASE v # w
      BY <3>2, <2>1, <2>2, <1>2
    <3> QED BY <3>1, <3>2
  <2>5. \A u, v \in Workers :
          u # v /\ pass'[u].pc # "idle" /\ pass'[v].pc # "idle" =>
            pass'[u].token # pass'[v].token
    <3> TAKE u, v \in Workers
    <3> HAVE u # v /\ pass'[u].pc # "idle" /\ pass'[v].pc # "idle"
    <3>1. CASE u # w /\ v # w
      BY <3>1, <1>5 DEF CallInv, Tokens, Moves
    <3>2. CASE u = w \/ v = w
      BY <3>2, <2>4, <1>3, <1>5
    <3> QED BY <3>1, <3>2
  <2> QED
    BY <2>3, <2>4, <2>5, <1>2, <1>6 DEF Tokens
<1>9. \A v \in Workers : Mine(v)' => v = w
  BY <1>3, <1>5, <1>6, <1>8 DEF Mine, Named, Tokens
<1>10. \A v \in Workers : pass'[v].pc = "calling" =>
         pass[v].pc = "calling" /\ Here(v)' = Here(v)
  BY <1>3, <1>5 DEF Moves, Here
<1>11. ASSUME NEW v \in Workers
       PROVE  (Clear(v) /\ Inside(v) /\ Standing(v) /\ Alone(v))'
  <2>1. Standing(v)
    BY DEF CallInv
  <2>2. Standing(v)'
    BY <2>1, <1>1, <1>6, <1>10 DEF Standing
  <2> QED
    BY <2>2, <1>3, <1>5, <1>9 DEF Clear, Inside, Alone, OnEntry, Opening
<1>12. OneCallPerEntry'
  BY <1>10 DEF CallInv, OneCallPerEntry
<1> QED
  BY <1>5, <1>7, <1>8, <1>11, <1>12
     DEF CallInv, Moves, RowsOK, LocksOK, WorldOK, PassesOK, TransferTypeOK

\* Only the lease changes.
LEMMA LeaseKeeps ==
  ASSUME CallInv, NEW live \in BOOLEAN,
         transfer' = [transfer EXCEPT !.live = live], pass' = pass,
         task' = task, item' = item, lock' = lock, world' = world, ledger' = ledger
  PROVE  CallInv'
<1>1. /\ transfer' \in TransferRows
      /\ transfer'.owner = transfer.owner /\ transfer'.status = transfer.status
      /\ transfer'.attempts = transfer.attempts
      /\ transfer'.boundary = transfer.boundary
  BY Typed DEF RowsOK, TransferRows
<1>2. RowsOK' /\ LocksOK' /\ WorldOK'
  BY <1>1, Typed, LocksStand, WorldStands DEF RowsOK
<1> QED
  BY <1>1, <1>2, Stands DEF ClaimStands, LandedStays

LEMMA ReleaseIncompatibleKeeps ==
  ASSUME CallInv, NEW w \in Workers, ReleaseIncompatible(w) PROVE CallInv'
<1>1. /\ pass' = [pass EXCEPT ![w] = Idle]
      /\ task' = task /\ item' = item /\ lock' = lock
      /\ world' = world /\ ledger' = ledger
  BY DEF ReleaseIncompatible
<1>2. Moves(w) /\ pass'[w].pc = "idle"
  BY <1>1, Typed, Resting
<1>3. LocksOK' /\ WorldOK' /\ LandedStays
  BY <1>1, Typed, LocksStand, WorldStands DEF LandedStays
<1>4. CASE Named(w)
  <2>1. transfer' = [transfer EXCEPT !.status = "admitted", !.owner = 0, !.live = FALSE]
    BY <1>4 DEF ReleaseIncompatible
  <2>2. /\ transfer' \in TransferRows /\ transfer'.owner = 0
        /\ transfer'.attempts = transfer.attempts
        /\ transfer'.boundary = transfer.boundary
    BY <2>1, Typed DEF RowsOK, TransferRows, OpenStatus
  <2>3. RowsOK'
    BY <1>1, <2>2, Typed DEF RowsOK
  <2> QED BY <1>2, <1>3, <1>4, <2>2, <2>3, Yields
<1>5. CASE ~Named(w)
  <2>1. transfer' = transfer
    BY <1>5 DEF ReleaseIncompatible
  <2>2. RowsOK'
    BY <1>1, <2>1, Typed, RowsStand
  <2> QED BY <1>1, <1>2, <1>3, <2>1, <2>2, QuietPass DEF Opening, OnEntry
<1> QED BY <1>4, <1>5

LEMMA BeginTransferKeeps ==
  ASSUME CallInv, NEW w \in Workers, BeginTransfer(w) PROVE CallInv'
<1> DEFINE c == IF ~Held(w) THEN "unstarted"
                ELSE IF transfer.boundary # Nowhere THEN "resolve" ELSE "start"
<1>1. /\ pass[w].pc = "claimed" /\ Goto(w, c)
      /\ transfer' = IF Held(w) THEN [transfer EXCEPT !.status = "running"]
                                ELSE transfer
      /\ task' = task /\ item' = item /\ lock' = lock
      /\ world' = world /\ ledger' = ledger
  BY DEF BeginTransfer
<1>2. /\ c \in {"unstarted", "resolve", "start"}
      /\ c = "start" => transfer.boundary = Nowhere
  OBVIOUS
<1> HIDE DEF c
<1>3. Goes(w, c)
  BY <1>1, <1>2, Typed, Going DEF Steps, OnItem, OnEntry
<1>4. /\ transfer' \in TransferRows /\ ClaimStands
  BY <1>1, Typed DEF RowsOK, TransferRows, ClaimStands, Held, Named, OpenStatus
<1>5. RowsOK' /\ LocksOK' /\ WorldOK' /\ LandedStays
  BY <1>1, <1>4, Typed, LocksStand, WorldStands DEF RowsOK, LandedStays
<1> QED
  BY <1>1, <1>2, <1>3, <1>4, <1>5, Quiet DEF Goes, ClaimStands, Opening, OnEntry

LEMMA StartFailsKeeps ==
  ASSUME CallInv, NEW w \in Workers, StartFails(w) PROVE CallInv'
<1>1. /\ pass[w].pc = "claimed" /\ Goto(w, "unstarted")
      /\ transfer' = transfer /\ task' = task /\ item' = item /\ lock' = lock
      /\ world' = world /\ ledger' = ledger
  BY DEF StartFails, rowVars
<1>2. Goes(w, "unstarted")
  BY <1>1, Typed, Going DEF Steps, OnItem, OnEntry
<1>3. RowsOK' /\ LocksOK'
  BY <1>1, Typed, RowsStand, LocksStand
<1> QED
  BY <1>1, <1>2, <1>3, QuietPass DEF Goes, Opening, OnEntry

-----------------------------------------------------------------------------
(* Ends of a pass.                                                         *)

\* Whatever the rows say afterwards, the pass is over and the transfer has
\* ended or stands.
LEMMA EndKeeps ==
  ASSUME CallInv, NEW w \in Workers, pass' = [pass EXCEPT ![w] = Idle],
         RowsOK', lock' = lock, world' = world, ledger' = ledger,
         \/ transfer' = transfer
         \/ /\ transfer'.status \in Ended /\ transfer'.owner = transfer.owner
            /\ transfer'.attempts = transfer.attempts
  PROVE  CallInv'
<1>1. Moves(w) /\ pass'[w].pc = "idle"
  BY Typed, Resting
<1>2. LocksOK' /\ WorldOK'
  BY Typed, LocksStand, WorldStands
<1> QED
  BY <1>1, <1>2, QuietPass, Ends DEF Opening, OnEntry

\* A terminal publish writes the status alone.
LEMMA StatusTyped ==
  ASSUME CallInv, NEW s \in Ended,
         transfer' = [transfer EXCEPT !.status = s, !.boundary = Nowhere],
         task' = task, item' = item
  PROVE  /\ RowsOK'
         /\ transfer'.status \in Ended /\ transfer'.owner = transfer.owner
         /\ transfer'.attempts = transfer.attempts
BY Typed DEF RowsOK, TransferRows

LEMMA CloseUnstartedKeeps ==
  ASSUME CallInv, NEW w \in Workers, CloseUnstarted(w) PROVE CallInv'
<1>1. /\ pass' = [pass EXCEPT ![w] = Idle]
      /\ lock' = lock /\ world' = world /\ ledger' = ledger
  BY DEF CloseUnstarted
<1>2. CASE Held(w)
  <2>1. Converged(0)
    BY <1>2 DEF CloseUnstarted
  <2> QED BY <1>1, <2>1, Typed, ConvergedTyped, EndKeeps
<1>3. CASE ~Held(w)
  <2>1. /\ task' = task /\ item' = item
        /\ transfer' = IF Named(w)
                         THEN [transfer EXCEPT !.status = "failed",
                                               !.boundary = Nowhere]
                         ELSE transfer
    BY <1>3 DEF CloseUnstarted
  <2>2. "failed" \in Ended
    BY DEF Ended
  <2>3. CASE Named(w)
    BY <1>1, <2>1, <2>2, <2>3, StatusTyped, EndKeeps
  <2>4. CASE ~Named(w)
    BY <1>1, <2>1, <2>4, Typed, RowsStand, EndKeeps
  <2> QED BY <2>3, <2>4
<1> QED BY <1>2, <1>3

LEMMA ConvergeFailureKeeps ==
  ASSUME CallInv, NEW w \in Workers, ConvergeFailure(w) PROVE CallInv'
<1>1. /\ pass' = [pass EXCEPT ![w] = Idle]
      /\ lock' = lock /\ world' = world /\ ledger' = ledger
  BY DEF ConvergeFailure
<1>2. CASE Held(w)
  <2>1. Converged(0)
    BY <1>2 DEF ConvergeFailure
  <2> QED BY <1>1, <2>1, Typed, ConvergedTyped, EndKeeps
<1>3. CASE ~Held(w)
  <2>1. transfer' = transfer /\ task' = task /\ item' = item
    BY <1>3 DEF ConvergeFailure
  <2> QED BY <1>1, <2>1, Typed, RowsStand, EndKeeps
<1> QED BY <1>2, <1>3

LEMMA FinishCancelledKeeps ==
  ASSUME CallInv, NEW w \in Workers, FinishCancelled(w) PROVE CallInv'
<1>1. /\ pass' = [pass EXCEPT ![w] = Idle]
      /\ task' = task /\ item' = item
      /\ lock' = lock /\ world' = world /\ ledger' = ledger
      /\ transfer' = IF Named(w)
                       THEN [transfer EXCEPT !.status = "cancelled",
                                             !.boundary = Nowhere]
                       ELSE transfer
      /\ "cancelled" \in Ended
  BY DEF FinishCancelled, Ended
<1>2. CASE Named(w)
  BY <1>1, <1>2, StatusTyped, EndKeeps
<1>3. CASE ~Named(w)
  BY <1>1, <1>3, Typed, RowsStand, EndKeeps
<1> QED BY <1>2, <1>3

LEMMA FinishTransferKeeps ==
  ASSUME CallInv, NEW w \in Workers, FinishTransfer(w) PROVE CallInv'
<1>1. /\ pass' = [pass EXCEPT ![w] = Idle]
      /\ task' = task /\ item' = item
      /\ lock' = lock /\ world' = world /\ ledger' = ledger
      /\ transfer' = IF Named(w)
                       THEN [transfer EXCEPT !.status = TransferOutcome(item),
                                             !.boundary = Nowhere]
                       ELSE transfer
      /\ TransferOutcome(item) \in Ended
  BY TransferOutcomeEnds DEF FinishTransfer
<1>2. CASE Named(w)
  BY <1>1, <1>2, StatusTyped, EndKeeps
<1>3. CASE ~Named(w)
  BY <1>1, <1>3, Typed, RowsStand, EndKeeps
<1> QED BY <1>2, <1>3

LEMMA PauseTransferKeeps ==
  ASSUME CallInv, NEW w \in Workers, PauseTransfer(w) PROVE CallInv'
<1> DEFINE pausing == /\ Named(w) /\ transfer.status = "running"
                      /\ transfer.boundary = Nowhere
<1>1. /\ pass' = [pass EXCEPT ![w] = Idle]
      /\ task' = task /\ item' = item /\ lock' = lock
      /\ world' = world /\ ledger' = ledger
      /\ transfer' = IF pausing
           THEN [transfer EXCEPT !.status = "paused", !.owner = 0, !.live = FALSE]
           ELSE transfer
  BY DEF PauseTransfer
<1>2. Moves(w) /\ pass'[w].pc = "idle"
  BY <1>1, Typed, Resting
<1>3. LocksOK' /\ WorldOK' /\ LandedStays
  BY <1>1, Typed, LocksStand, WorldStands DEF LandedStays
<1>4. CASE pausing
  <2>1. /\ transfer' \in TransferRows /\ transfer'.owner = 0
        /\ transfer'.attempts = transfer.attempts
        /\ transfer'.boundary = transfer.boundary
    BY <1>1, <1>4, Typed DEF RowsOK, TransferRows
  <2>2. RowsOK'
    BY <1>1, <2>1, Typed DEF RowsOK
  <2> QED BY <1>2, <1>3, <1>4, <2>1, <2>2, Yields
<1>5. CASE ~pausing
  BY <1>1, <1>5, Typed, RowsStand, EndKeeps
<1> QED BY <1>4, <1>5

LEMMA ResolveInFlightKeeps ==
  ASSUME CallInv, NEW w \in Workers, ResolveInFlight(w) PROVE CallInv'
<1> DEFINE x == transfer.boundary
           adopted == [item[x[1]].progress.outs EXCEPT ![x[2]] = "success"]
<1>1. pass[w].pc = "resolve" /\ world' = world
  BY DEF ResolveInFlight
<1>2. CASE ~Held(w)
  <2>1. Stop(w) /\ ledger' = ledger
    BY <1>2 DEF ResolveInFlight
  <2> QED BY <1>1, <2>1, QuietStop
<1>3. CASE Held(w) /\ ~Proven(x)
  <2>1. /\ Converged(x[1]) /\ ledger' = [ledger EXCEPT ![x] = "unknown"]
        /\ pass' = [pass EXCEPT ![w] = Idle] /\ lock' = lock
    BY <1>3 DEF ResolveInFlight
  <2>2. /\ RowsOK' /\ transfer'.status \in Ended
        /\ transfer'.owner = transfer.owner
        /\ transfer'.attempts = transfer.attempts
    BY <2>1, Typed, ConvergedTyped
  <2>3. LocksOK' /\ WorldOK'
    BY <1>1, <2>1, Typed, LocksStand DEF WorldOK
  <2>4. Moves(w) /\ pass'[w].pc = "idle"
    BY <2>1, Typed, Resting
  <2> QED BY <2>2, <2>3, <2>4, Ends
<1>4. CASE Held(w) /\ Proven(x)
  <2> DEFINE next(row) ==
        IF \A e \in Entries : adopted[e] \in {"success", "skipped"}
                              \/ (Tree /\ e = 1)
          THEN CompletedItem(row, adopted)
          ELSE [row EXCEPT !.status = "processing",
                  !.progress = [known |-> TRUE, outs |-> adopted,
                                counted |-> TRUE]]
  <2>1. /\ item' = [item EXCEPT ![x[1]] = next(@)]
        /\ transfer' = Boundary(Nowhere)
        /\ ledger' = [ledger EXCEPT ![x] = "known"]
        /\ Goto(w, "start") /\ task' = task /\ lock' = lock
    BY <1>4 DEF ResolveInFlight
  <2>2. x[1] \in Items => next(item[x[1]]) \in ItemRows
    <3> SUFFICES ASSUME x[1] \in Items PROVE next(item[x[1]]) \in ItemRows
      OBVIOUS
    <3>1. item[x[1]] \in ItemRows
      BY Typed DEF RowsOK
    <3>2. adopted \in OutcomeLists
      BY <3>1 DEF ItemRows, OutcomeLists, Recorded
    <3> HIDE DEF adopted
    <3>3. CompletedItem(item[x[1]], adopted) \in ItemRows
      BY <3>1, <3>2, CompletedTyped
    <3>4. [item[x[1]] EXCEPT !.status = "processing",
             !.progress = [known |-> TRUE, outs |-> adopted, counted |-> TRUE]]
            \in ItemRows
      BY <3>1, <3>2 DEF ItemRows, ItemStatuses
    <3> QED BY <3>3, <3>4
  <2> HIDE DEF next
  <2>3. item' \in [Items -> ItemRows]
    BY <2>1, <2>2, Typed DEF RowsOK
  <2>4. RowsOK' /\ LocksOK' /\ WorldOK'
    BY <1>1, <2>1, <2>3, Typed, BoundaryTyped, LocksStand DEF RowsOK, WorldOK
  <2>5. Goes(w, "start")
    BY <2>1, Typed, Going DEF Steps, OnItem, OnEntry
  <2>6. world[x] = "landed" /\ Mine(w)
    BY <1>1, <1>4 DEF Proven, Mine, Held
  <2> QED
    BY <1>1, <2>1, <2>4, <2>5, <2>6, Clears DEF Goes, LandedStays, OnEntry
<1> QED BY <1>2, <1>3, <1>4

-----------------------------------------------------------------------------
(* Between the calls.                                                      *)

LEMMA StartKeeps ==
  ASSUME CallInv, NEW w \in Workers, Start(w) PROVE CallInv'
<1>1. /\ pass[w].pc = "start"
      /\ transfer' = transfer /\ task' = task /\ item' = item
      /\ world' = world /\ ledger' = ledger
  BY DEF Start
<1>2. PICK c \in {"queue", "cancelled", "paused"} : Goto(w, c)
  BY DEF Start
<1>3. Goes(w, c)
  BY <1>2, Typed, Going DEF Steps, OnItem, OnEntry
<1>4. LocksOK'
  <2>1. CASE task.status \in {"pending", "running"}
    <3>1. lock' = [i \in Items |-> IF Held(w) /\ lock[i].by = "task"
                                     THEN Generation(pass[w].token, "takeover")
                                     ELSE lock[i]]
      BY <2>1 DEF Start
    <3>2. Generation(pass[w].token, "takeover") \in
            LockRows
      BY Typed, LockValues DEF Frames
    <3> QED BY <3>1, <3>2, Typed DEF LocksOK
  <2>2. CASE task.status \notin {"pending", "running"}
    BY <2>2, Typed, LocksStand DEF Start
  <2> QED BY <2>1, <2>2
<1>5. RowsOK'
  BY <1>1, Typed, RowsStand
<1> QED
  BY <1>1, <1>3, <1>4, <1>5, QuietPass DEF Goes, Opening, OnEntry

\* A pass goes on and touches at most the Task, its item and its locks.
LEMMA StepKeeps ==
  ASSUME CallInv, NEW w \in Workers, NEW c \in Steps \ OnEntry,
         pass[w].pc \notin Opening, Goto(w, c),
         c \in OnItem => pass[w].item \in Items,
         transfer' = transfer, world' = world, ledger' = ledger,
         task' \in [status : TaskStatuses, paused : BOOLEAN],
         item' \in [Items -> ItemRows], LocksOK'
  PROVE  CallInv'
<1>1. Goes(w, c)
  BY Typed, Going DEF OnEntry
<1>2. RowsOK'
  BY Typed DEF RowsOK
<1> QED
  BY <1>1, <1>2, QuietPass DEF Goes, Opening

\* It turns to the next item.
LEMMA TurnKeeps ==
  ASSUME CallInv, NEW w \in Workers, pass[w].pc \notin Opening, NextItem(w),
         transfer' = transfer, world' = world, ledger' = ledger, task' = task,
         item' \in [Items -> ItemRows], LocksOK'
  PROVE  CallInv'
<1>1. Moves(w) /\ pass'[w].pc = "items" /\ pass'[w].token = pass[w].token
  BY Typed, Turning
<1>2. RowsOK'
  BY Typed DEF RowsOK
<1> QED
  BY <1>1, <1>2, QuietPass DEF Opening, OnEntry

\* It ends.
LEMMA RestKeeps ==
  ASSUME CallInv, NEW w \in Workers, pass' = [pass EXCEPT ![w] = Idle],
         transfer' = transfer, world' = world, ledger' = ledger,
         task' = task, item' = item, LocksOK'
  PROVE  CallInv'
<1>1. Moves(w) /\ pass'[w].pc = "idle"
  BY Typed, Resting
<1>2. RowsOK'
  BY Typed DEF RowsOK
<1> QED
  BY <1>1, <1>2, QuietPass DEF Opening, OnEntry

LEMMA Shapes ==
  ASSUME CallInv
  PROVE  /\ task \in [status : TaskStatuses, paused : BOOLEAN]
         /\ item \in [Items -> ItemRows]
         /\ LocksOK
BY Typed DEF RowsOK

LEMMA ReadQueuedKeeps ==
  ASSUME CallInv, NEW w \in Workers, ReadQueued(w) PROVE CallInv'
<1> DEFINE c == CASE task.status = "running" -> "list"
                  [] task.status = "pending" -> "publish"
                  [] OTHER -> "erred"
<1>1. /\ pass[w].pc = "queue" /\ Goto(w, c)
      /\ transfer' = transfer /\ task' = task /\ item' = item /\ lock' = lock
      /\ world' = world /\ ledger' = ledger
  BY DEF ReadQueued, rowVars, Goto
<1>2. c \in {"list", "publish", "erred"}
  OBVIOUS
<1> HIDE DEF c
<1>3. LocksOK'
  BY <1>1, Shapes, LocksStand
<1> QED
  BY <1>1, <1>2, <1>3, Shapes, StepKeeps DEF Steps, OnItem, OnEntry, Opening

LEMMA PublishRunningKeeps ==
  ASSUME CallInv, NEW w \in Workers, PublishRunning(w) PROVE CallInv'
<1>1. /\ pass[w].pc = "publish"
      /\ transfer' = transfer /\ item' = item /\ lock' = lock
      /\ world' = world /\ ledger' = ledger
  BY DEF PublishRunning
<1>2. LocksOK'
  BY <1>1, Shapes, LocksStand
<1>3. CASE Held(w)
  <2>1. task' = [status |-> "running", paused |-> FALSE] /\ Goto(w, "list")
    BY <1>3 DEF PublishRunning
  <2>2. task' \in [status : TaskStatuses, paused : BOOLEAN]
    BY <2>1 DEF TaskStatuses
  <2> QED BY <1>1, <1>2, <2>1, <2>2, Shapes, StepKeeps
          DEF Steps, OnItem, OnEntry, Opening
<1>4. CASE ~Held(w)
  BY <1>1, <1>2, <1>4, RestKeeps DEF PublishRunning
<1> QED BY <1>3, <1>4

\* A step that rewrites more of the pass than where it stands.
LEMMA FrameKeeps ==
  ASSUME CallInv, NEW w \in Workers, NEW p \in Frames,
         pass' = [pass EXCEPT ![w] = p], Placed(p), p.token = pass[w].token,
         pass[w].pc \notin Opening, p.pc \notin OnEntry,
         transfer' = transfer, world' = world, ledger' = ledger,
         task' = task, item' = item, lock' = lock
  PROVE  CallInv'
<1>1. Moves(w) /\ pass'[w] = p
  BY Typed DEF Moves, PassesOK
<1>2. RowsOK' /\ LocksOK'
  BY Typed, RowsStand, LocksStand
<1> QED
  BY <1>1, <1>2, QuietPass DEF Opening

LEMMA ListItemsKeeps ==
  ASSUME CallInv, NEW w \in Workers, ListItems(w) PROVE CallInv'
<1> DEFINE p == [pass[w] EXCEPT !.pc = "items", !.rows = item]
<1>1. /\ pass[w].pc = "list" /\ pass' = [pass EXCEPT ![w] = p]
      /\ transfer' = transfer /\ task' = task /\ item' = item /\ lock' = lock
      /\ world' = world /\ ledger' = ledger
  BY DEF ListItems, rowVars
<1>2. p \in Frames /\ p.pc = "items" /\ p.token = pass[w].token
  BY Typed, Shapes DEF Frames, Steps
<1> HIDE DEF p
<1> QED
  BY <1>1, <1>2, FrameKeeps DEF Placed, OnItem, OnEntry, Opening

LEMMA StopCancelledKeeps ==
  ASSUME CallInv, NEW w \in Workers, StopCancelled(w) PROVE CallInv'
<1>1. /\ pass[w].pc = "items" /\ Goto(w, "cancelled") /\ lock' = Retired(w)
      /\ transfer' = transfer /\ task' = task /\ item' = item
      /\ world' = world /\ ledger' = ledger
  BY DEF StopCancelled
<1>2. LocksOK'
  BY <1>1, Shapes, RetiredTyped
<1> QED
  BY <1>1, <1>2, Shapes, StepKeeps DEF Steps, OnItem, OnEntry, Opening

LEMMA TakeItemKeeps ==
  ASSUME CallInv, NEW w \in Workers, TakeItem(w) PROVE CallInv'
<1> PICK i \in Items :
      /\ Deciding(w, i)
      /\ pass' = [pass EXCEPT ![w].pc = "acquire",
                    ![w].resuming = ~Fresh(pass[w].rows[i]),
                    ![w].skip = {e \in Entries :
                                   pass[w].rows[i].progress.outs[e] = "success"}]
      /\ UNCHANGED <<rowVars, world, ledger, uncovered, faults, requests>>
  BY DEF TakeItem
<1> DEFINE taken == {e \in Entries : pass[w].rows[i].progress.outs[e] = "success"}
           p == [pass[w] EXCEPT !.pc = "acquire",
                   !.resuming = ~Fresh(pass[w].rows[i]), !.skip = taken]
<1>1. /\ pass[w].pc = "items" /\ pass[w].item = i
      /\ pass' = [pass EXCEPT ![w] = p]
      /\ transfer' = transfer /\ task' = task /\ item' = item /\ lock' = lock
      /\ world' = world /\ ledger' = ledger
  BY DEF Deciding, rowVars
<1>2. taken \in SUBSET Entries
  OBVIOUS
<1> HIDE DEF taken
<1>3. /\ p \in Frames /\ p.pc = "acquire" /\ p.token = pass[w].token
      /\ p.item = i
  <2>1. pass[w] \in Frames
    BY Typed DEF PassesOK
  <2> DEFINE resuming == ~Fresh(pass[w].rows[i])
  <2>2. resuming \in BOOLEAN
    BY Zenon DEF Fresh
  <2>4. "acquire" \in Steps
    BY DEF Steps, OnItem
  <2> HIDE DEF resuming
  <2>3. pass[w].item = i
    BY <1>1
  <2> QED
    BY <2>1, <2>2, <2>3, <2>4, <1>2 DEF Frames
<1> HIDE DEF p
<1> QED
  BY <1>1, <1>3, FrameKeeps DEF Placed, OnItem, OnEntry, Opening

LEMMA PassOverKeeps ==
  ASSUME CallInv, NEW w \in Workers, PassOver(w) PROVE CallInv'
<1>1. /\ pass[w].pc = "items" /\ NextItem(w)
      /\ transfer' = transfer /\ task' = task /\ item' = item /\ lock' = lock
      /\ world' = world /\ ledger' = ledger
  BY DEF PassOver, Deciding, rowVars
<1>2. LocksOK'
  BY <1>1, Shapes, LocksStand
<1> QED
  BY <1>1, <1>2, Shapes, TurnKeeps DEF Opening

LEMMA MarkInterruptedKeeps ==
  ASSUME CallInv, NEW w \in Workers, MarkInterrupted(w) PROVE CallInv'
<1> PICK i \in Items :
      /\ Deciding(w, i)
      /\ IF Held(w)
           THEN /\ item' = [item EXCEPT ![i] =
                     EndedItem(pass[w].rows[i],
                       IF pass[w].rows[i].progress.known THEN "partial" ELSE "failed",
                       EffectOf(pass[w].rows[i].progress.known, FALSE))]
                /\ NextItem(w)
                /\ UNCHANGED <<transfer, task, lock>>
           ELSE Stop(w)
      /\ UNCHANGED <<world, ledger, uncovered, faults, requests>>
  BY DEF MarkInterrupted
<1>1. pass[w].pc = "items" /\ world' = world /\ ledger' = ledger
  BY DEF Deciding
<1>2. CASE Held(w)
  <2> DEFINE status == IF pass[w].rows[i].progress.known THEN "partial" ELSE "failed"
             effect == EffectOf(pass[w].rows[i].progress.known, FALSE)
  <2>1. /\ item' = [item EXCEPT ![i] = EndedItem(pass[w].rows[i], status, effect)]
        /\ NextItem(w)
        /\ transfer' = transfer /\ task' = task /\ lock' = lock
    BY <1>2
  <2>2. pass[w].rows[i] \in ItemRows
    BY Typed DEF Frames
  <2>3. status \in ItemStatuses /\ effect \in Effects
    BY EffectTyped DEF ItemStatuses
  <2> HIDE DEF status, effect
  <2>4. EndedItem(pass[w].rows[i], status, effect) \in ItemRows
    BY <2>2, <2>3, EndedTyped
  <2>5. item' \in [Items -> ItemRows] /\ LocksOK'
    BY <2>1, <2>4, Shapes, LocksStand
  <2> QED BY <1>1, <2>1, <2>5, TurnKeeps DEF Opening
<1>3. CASE ~Held(w)
  BY <1>1, <1>3, QuietStop
<1> QED BY <1>2, <1>3

-----------------------------------------------------------------------------
(* Beginning an item.                                                      *)

LEMMA AcquireItemKeeps ==
  ASSUME CallInv, NEW w \in Workers, AcquireItem(w) PROVE CallInv'
<1>1. /\ pass[w].pc = "acquire"
      /\ transfer' = transfer /\ task' = task /\ item' = item
      /\ world' = world /\ ledger' = ledger
  BY DEF AcquireItem
<1>2. pass[w].item \in Items /\ pass[w].token \in Nat
  BY <1>1, Typed DEF Placed, OnItem, Frames
<1>3. CASE /\ lock' = lock
           /\ NextItem(w) \/ Goto(w, "refuse") \/ Goto(w, "acknowledge")
                          \/ Goto(w, "conflict")
  <2>1. LocksOK'
    BY <1>3, Shapes, LocksStand
  <2> QED
    BY <1>1, <1>2, <1>3, <2>1, Shapes, StepKeeps, TurnKeeps
       DEF Steps, OnItem, OnEntry, Opening
<1>4. CASE pass' = [pass EXCEPT ![w] = Idle] /\ lock' = Retired(w)
  BY <1>1, <1>4, Shapes, RetiredTyped, RestKeeps
<1>5. CASE /\ Goto(w, "begin")
           /\ lock' = [lock EXCEPT ![pass[w].item] = Generation(pass[w].token, "item")]
  <2>1. LocksOK'
    BY <1>2, <1>5, Shapes, LockValues DEF LocksOK
  <2> QED
    BY <1>1, <1>2, <1>5, <2>1, Shapes, StepKeeps DEF Steps, OnItem, OnEntry, Opening
<1> QED
  BY <1>3, <1>4, <1>5 DEF AcquireItem

LEMMA LockConflictKeeps ==
  ASSUME CallInv, NEW w \in Workers, LockConflict(w) PROVE CallInv'
<1>1. pass[w].pc = "conflict" /\ world' = world /\ ledger' = ledger
  BY DEF LockConflict
<1>2. CASE Held(w)
  <2>1. /\ item' = [item EXCEPT ![pass[w].item] =
             [@ EXCEPT !.status = "failed", !.started = TRUE,
                       !.progress = NoProgress]]
        /\ NextItem(w) \/ Goto(w, "refuse")
        /\ transfer' = transfer /\ task' = task /\ lock' = lock
    BY <1>2 DEF LockConflict
  <2>2. pass[w].item \in Items
    BY <1>1, Typed DEF Placed, OnItem
  <2>3. item' \in [Items -> ItemRows]
    <3>1. item[pass[w].item] \in ItemRows
      BY <2>2, Shapes
    <3>2. [item[pass[w].item] EXCEPT !.status = "failed", !.started = TRUE,
             !.progress = NoProgress] \in ItemRows
      BY <3>1, BlankTyped DEF ItemRows, ItemStatuses, NoProgress
    <3> QED BY <2>1, <2>2, <3>2, Shapes
  <2>4. LocksOK'
    BY <2>1, Shapes, LocksStand
  <2> QED
    BY <1>1, <2>1, <2>2, <2>3, <2>4, Shapes, StepKeeps, TurnKeeps
       DEF Steps, OnItem, OnEntry, Opening
<1>3. CASE ~Held(w)
  BY <1>1, <1>3, QuietStop DEF LockConflict
<1> QED BY <1>2, <1>3

LEMMA RefuseItemKeeps ==
  ASSUME CallInv, NEW w \in Workers, RefuseItem(w) PROVE CallInv'
<1> DEFINE row == EndedItem(pass[w].rows[pass[w].item], "failed", "none")
<1>1. /\ pass[w].pc = "refuse" /\ NextItem(w)
      /\ item' = IF Held(w) THEN [item EXCEPT ![pass[w].item] = row] ELSE item
      /\ transfer' = transfer /\ task' = task /\ lock' = lock
      /\ world' = world /\ ledger' = ledger
  BY DEF RefuseItem, NextItemIfHeld
<1>2. row \in ItemRows
  <2>1. pass[w].rows[pass[w].item] \in ItemRows
    BY <1>1, Typed DEF Placed, OnItem, Frames
  <2> QED
    BY <2>1, EndedTyped DEF ItemStatuses, Effects
<1> HIDE DEF row
<1>3. item' \in [Items -> ItemRows] /\ LocksOK'
  BY <1>1, <1>2, Shapes, LocksStand
<1> QED
  BY <1>1, <1>3, TurnKeeps DEF Opening

LEMMA PublishStartKeeps ==
  ASSUME CallInv, NEW w \in Workers, PublishStart(w) PROVE CallInv'
<1>1. pass[w].pc = "begin" /\ world' = world /\ ledger' = ledger
  BY DEF PublishStart
<1>2. CASE Held(w)
  <2>1. /\ item' = [item EXCEPT ![pass[w].item] =
             [@ EXCEPT !.status = "processing", !.started = TRUE]]
        /\ Goto(w, "open item")
        /\ transfer' = transfer /\ task' = task /\ lock' = lock
    BY <1>2 DEF PublishStart
  <2>2. pass[w].item \in Items
    BY <1>1, Typed DEF Placed, OnItem
  <2>3. item' \in [Items -> ItemRows]
    <3>1. item[pass[w].item] \in ItemRows
      BY <2>2, Shapes
    <3>2. [item[pass[w].item] EXCEPT !.status = "processing", !.started = TRUE]
            \in ItemRows
      BY <3>1 DEF ItemRows, ItemStatuses
    <3> QED BY <2>1, <2>2, <3>2, Shapes
  <2>4. LocksOK'
    BY <2>1, Shapes, LocksStand
  <2> QED
    BY <1>1, <2>1, <2>2, <2>3, <2>4, Shapes, StepKeeps
       DEF Steps, OnItem, OnEntry, Opening
<1>3. CASE ~Held(w)
  BY <1>1, <1>3, QuietStop DEF PublishStart
<1> QED BY <1>2, <1>3

-----------------------------------------------------------------------------
(* The entries of an item.                                                 *)

\* The owner records progress outside an operation, or of its own one.
LEMMA RecordKeeps ==
  ASSUME CallInv, NEW w \in Workers, Held(w), NEW outs \in OutcomeLists,
         Progress(w, outs), Moves(w),
         pass[w].pc \notin Opening \/ pass[w].pc = "record",
         pass'[w].pc \notin OnEntry, pass'[w].token = pass[w].token,
         world' = world, WorldOK'
  PROVE  CallInv'
<1>1. RowsOK' /\ LocksOK' /\ transfer' = Boundary(Nowhere)
  BY Typed, ProgressTyped
<1>2. Mine(w)
  BY DEF Held, Mine, Opening
<1>3. ASSUME NEW v \in Workers, v # w, pass[v].pc = "calling"
      PROVE  transfer.boundary # Here(v)
  <2>1. CASE pass[w].pc = "record"
    BY <2>1, <1>2, <1>3 DEF CallInv, Inside, Alone, OnEntry
  <2>2. CASE pass[w].pc \notin Opening
    <3>1. transfer.boundary = Nowhere
      BY <2>2, <1>2 DEF CallInv, Clear
    <3>2. Here(v) \in Places
      BY <1>3, Typed DEF Placed, OnEntry, Here, Places
    <3> QED BY <3>1, <3>2, Numbers
  <2> QED BY <2>1, <2>2
<1> QED
  BY <1>1, <1>2, <1>3, Clears DEF LandedStays

\* What After leaves of the pass.
LEMMA AfterMoves ==
  ASSUME CallInv, NEW w \in Workers, pass[w].item \in Items,
         NEW out \in Recorded, After(w, out)
  PROVE  /\ Moves(w) /\ pass'[w].token = pass[w].token
         /\ pass'[w].pc \in {"complete", "entry"}
<1> DEFINE c == IF Tree /\ pass[w].entry = 1 /\ out # "success"
                  THEN "complete" ELSE "entry"
           outs == Outs(w, out)
           p == [pass[w] EXCEPT !.outs = outs, !.answer = "none", !.pc = c,
                   !.entry = @ + 1]
<1>1. c \in {"complete", "entry"}
  OBVIOUS
<1>2. pass[w] \in Frames
  BY Typed
<1>3. outs \in OutcomeLists
  BY <1>2 DEF Outs, Frames, OutcomeLists
<1>4. pass' = [pass EXCEPT ![w] = p]
  BY Typed DEF After, Outs, PassesOK
<1> HIDE DEF c, outs
<1>5. pass[w].entry + 1 \in Nat \ {0}
  BY <1>2 DEF Frames
<1>6. p \in Frames /\ p.pc = c /\ p.token = pass[w].token /\ p.item = pass[w].item
  BY <1>1, <1>2, <1>3, <1>5 DEF Frames, Steps, OnItem
<1> HIDE DEF p
<1>7. Placed(p)
  BY <1>1, <1>6 DEF Placed, OnEntry
<1> QED
  BY <1>1, <1>4, <1>6, <1>7, Typed DEF Moves, PassesOK

LEMMA OutsTyped ==
  ASSUME CallInv, NEW w \in Workers, NEW out \in Recorded
  PROVE  Outs(w, out) \in OutcomeLists
BY Typed DEF Outs, Frames, OutcomeLists

LEMMA OpenItemKeeps ==
  ASSUME CallInv, NEW w \in Workers, OpenItem(w) PROVE CallInv'
<1>1. pass[w].pc = "open item" /\ world' = world /\ ledger' = ledger
  BY DEF OpenItem
<1>2. /\ pass[w].item \in Items /\ WorldOK' /\ pass[w].pc \notin Opening
      /\ pass[w] \in Frames
  BY <1>1, Typed, WorldStands DEF Placed, OnItem, Opening
<1>3. CASE Stop(w)
  BY <1>1, <1>3, QuietStop
<1>4. CASE Held(w) /\ Progress(w, Blank) /\ Goto(w, "entry")
  <2>1. Goes(w, "entry")
    BY <1>2, <1>4, Typed, Going DEF Steps, OnItem, OnEntry
  <2> QED
    BY <1>1, <1>2, <1>4, <2>1, BlankTyped, RecordKeeps DEF Goes, OnEntry
<1>5. ASSUME Held(w), NEW out \in {"failed", "skipped", "uncertain"},
             Progress(w, Outs(w, out)),
             pass' = [pass EXCEPT ![w].outs[1] = out, ![w].pc = "complete"]
      PROVE  CallInv'
  <2> DEFINE outs == [pass[w].outs EXCEPT ![1] = out]
             p == [pass[w] EXCEPT !.outs = outs, !.pc = "complete"]
  <2>1. pass' = [pass EXCEPT ![w] = p]
    BY <1>5, Typed DEF PassesOK
  <2>2. outs \in OutcomeLists
    BY <1>2, <1>5 DEF Frames, OutcomeLists, Recorded
  <2> HIDE DEF outs
  <2>3. /\ p \in Frames /\ p.pc = "complete" /\ p.token = pass[w].token
        /\ p.item = pass[w].item
    BY <1>2, <2>2 DEF Frames, Steps, OnItem
  <2> HIDE DEF p
  <2>4. Moves(w) /\ pass'[w] = p
    BY <1>2, <2>1, <2>3, Typed DEF Moves, PassesOK, Placed, OnEntry
  <2>5. Outs(w, out) \in OutcomeLists
    BY OutsTyped DEF Recorded
  <2> QED
    BY <1>1, <1>2, <1>5, <2>3, <2>4, <2>5, RecordKeeps DEF OnEntry
<1> QED
  BY <1>3, <1>4, <1>5 DEF OpenItem

LEMMA InterruptedKeeps ==
  ASSUME CallInv, NEW w \in Workers, Interrupted(w) PROVE CallInv'
<1>1. /\ pass[w].pc = "entry"
      /\ transfer' = transfer /\ task' = task /\ item' = item
      /\ world' = world /\ ledger' = ledger
  BY DEF Interrupted, AtEntry
<1>2. CASE Goto(w, "cancelled") /\ lock' = Released(w)
  <2>1. LocksOK'
    BY <1>2, Shapes, ReleasedTyped
  <2> QED
    BY <1>1, <1>2, <2>1, Shapes, StepKeeps DEF Steps, OnItem, OnEntry, Opening
<1>3. CASE /\ Goto(w, "acknowledge")
           /\ lock' = [lock EXCEPT ![pass[w].item] =
                IF @ = Generation(pass[w].token, "item") THEN Free ELSE @]
  <2>1. LocksOK'
    BY <1>3, Shapes, FreedTyped
  <2> QED
    BY <1>1, <1>3, <2>1, Shapes, StepKeeps DEF Steps, OnItem, OnEntry, Opening
<1>4. CASE pass' = [pass EXCEPT ![w] = Idle] /\ lock' = Released(w)
  BY <1>1, <1>4, Shapes, ReleasedTyped, RestKeeps
<1> QED
  BY <1>2, <1>3, <1>4 DEF Interrupted

\* An owner that found nothing at an entry has nobody inside it.
LEMMA EntryCheckedKeeps ==
  ASSUME CallInv, NEW w \in Workers, EntryChecked(w) PROVE CallInv'
<1>1. /\ pass[w].pc = "entry" /\ pass[w].entry \in Entries
      /\ Named(w) /\ transfer.status = "running"
      /\ transfer' = [transfer EXCEPT !.live = TRUE]
      /\ task' = task /\ item' = item /\ lock' = lock
      /\ world' = world /\ ledger' = ledger
  BY DEF EntryChecked, AtEntry
<1>2. /\ transfer' \in TransferRows
      /\ transfer'.owner = transfer.owner /\ transfer'.status = transfer.status
      /\ transfer'.attempts = transfer.attempts
      /\ transfer'.boundary = transfer.boundary
  BY <1>1, Typed DEF RowsOK, TransferRows
<1>3. RowsOK' /\ LocksOK' /\ WorldOK' /\ ClaimStands /\ LandedStays
  BY <1>1, <1>2, Typed, LocksStand, WorldStands DEF RowsOK, ClaimStands, LandedStays
<1>4. pass[w] \in Frames /\ pass[w].item \in Items /\ Mine(w)
  BY <1>1, Typed DEF Placed, OnItem, Mine
<1>5. CASE pass' = [pass EXCEPT ![w].entry = @ + 1]
  <2> DEFINE p == [pass[w] EXCEPT !.entry = @ + 1]
  <2>1. pass' = [pass EXCEPT ![w] = p]
    BY <1>5, Typed DEF PassesOK
  <2>2. pass[w].entry + 1 \in Nat \ {0}
    BY <1>4 DEF Frames
  <2>3. /\ p \in Frames /\ p.pc = "entry" /\ p.token = pass[w].token
        /\ p.item = pass[w].item
    BY <1>1, <1>4, <2>2 DEF Frames
  <2> HIDE DEF p
  <2>4. Moves(w) /\ pass'[w] = p
    BY <1>4, <2>1, <2>3, Typed DEF Moves, PassesOK, Placed, OnEntry
  <2> QED
    BY <1>1, <1>3, <2>3, <2>4, Quiet DEF Opening, OnEntry
<1>6. CASE Goto(w, "adopt") \/ Goto(w, "present")
  <2>1. PICK c \in {"adopt", "present"} : Goes(w, c)
    BY <1>4, <1>6, Typed, Going DEF Steps, OnItem, OnEntry
  <2> QED
    BY <1>1, <1>3, <2>1, Quiet DEF Goes, Opening, OnEntry
<1>7. CASE Goto(w, "open") /\ world[Here(w)] = "untouched"
  <2>1. Goes(w, "open") /\ pass'[w].entry = pass[w].entry
    BY <1>1, <1>4, <1>7, Typed, Going DEF Steps, OnEntry
  <2>2. transfer.boundary = Nowhere
    BY <1>1, <1>4 DEF CallInv, Clear, Opening
  <2>3. \A v \in Workers : pass'[v].pc = "calling" =>
          v # w /\ pass[v].pc = "calling" /\ Here(v)' = Here(v) /\ Here(v) \in Places
    BY <2>1, Typed DEF Goes, Moves, Here, Placed, OnEntry, Places
  <2>4. \A v \in Workers : pass[v].pc = "calling" => Here(v) # Here(w)
    <3> TAKE v \in Workers
    <3> HAVE pass[v].pc = "calling"
    <3>1. Standing(v) /\ Here(v) \in Places
      BY Typed DEF CallInv, Placed, OnEntry, Here, Places
    <3>2. transfer.boundary # Here(v) /\ transfer.status \notin Ended
      BY <1>1, <2>2, <3>1, Numbers DEF Ended
    <3> QED BY <1>7, <3>1, <3>2 DEF Standing
  <2>5. Tokens'
    BY <1>2, <1>4, <2>1 DEF CallInv, Tokens, Goes, Moves, Mine
  <2>6. Here(w)' = Here(w)
    BY <2>1 DEF Goes, Here
  <2>7. \A v \in Workers : Mine(v)' => v = w
    <3> TAKE v \in Workers
    <3> HAVE Mine(v)'
    <3>1. v # w => Mine(v)
      BY <1>2, <2>1 DEF Mine, Named, Goes, Moves
    <3> QED BY <1>4, <3>1, OneOwner
  <2>8. ASSUME NEW v \in Workers
        PROVE  (Clear(v) /\ Inside(v) /\ Standing(v) /\ Alone(v))'
    <3>1. Standing(v)
      BY DEF CallInv
    <3>2. Standing(v)'
      BY <1>1, <1>2, <2>3, <3>1 DEF Standing
    <3>3. Clear(v)' /\ Inside(v)'
      BY <1>2, <2>1, <2>2, <2>7 DEF Clear, Inside, Goes
    <3>4. Alone(v)'
      BY <2>3, <2>4, <2>6, <2>7 DEF Alone
    <3> QED BY <3>2, <3>3, <3>4
  <2>9. OneCallPerEntry'
    BY <2>3 DEF CallInv, OneCallPerEntry
  <2> QED
    BY <1>3, <2>1, <2>5, <2>8, <2>9
       DEF CallInv, Goes, Moves, RowsOK, LocksOK, WorldOK, PassesOK, TransferTypeOK
<1> QED
  BY <1>5, <1>6, <1>7 DEF EntryChecked

LEMMA RecordPresentKeeps ==
  ASSUME CallInv, NEW w \in Workers, RecordPresent(w) PROVE CallInv'
<1>1. /\ pass[w].pc \in {"adopt", "present"}
      /\ world' = world /\ ledger' = ledger
  BY DEF RecordPresent
<1>2. PICK out \in {"success", "failed", "skipped", "uncertain"} :
        IF Held(w) THEN Progress(w, Outs(w, out)) /\ After(w, out) ELSE Stop(w)
  BY DEF RecordPresent
<1>3. /\ pass[w].item \in Items /\ WorldOK' /\ out \in Recorded
      /\ Outs(w, out) \in OutcomeLists
  BY <1>1, Typed, WorldStands, OutsTyped DEF Placed, OnItem, Recorded
<1>4. CASE Held(w)
  <2>1. /\ Moves(w) /\ pass'[w].token = pass[w].token
        /\ pass'[w].pc \in {"complete", "entry"}
    BY <1>2, <1>3, <1>4, AfterMoves
  <2> QED
    BY <1>1, <1>2, <1>3, <1>4, <2>1, RecordKeeps DEF Opening, OnEntry
<1>5. CASE ~Held(w)
  BY <1>1, <1>2, <1>5, QuietStop
<1> QED BY <1>4, <1>5

-----------------------------------------------------------------------------
(* The provider call.                                                      *)

LEMMA EnterMutationKeeps ==
  ASSUME CallInv, NEW w \in Workers, EnterMutation(w) PROVE CallInv'
<1>1. pass[w].pc = "open" /\ world' = world /\ ledger' = ledger
  BY DEF EnterMutation
<1>2. CASE Held(w) /\ transfer.boundary = Nowhere
  <2>1. /\ transfer' = Boundary(Here(w)) /\ Goto(w, "calling")
        /\ task' = task /\ item' = item /\ lock' = lock
    BY <1>2 DEF EnterMutation
  <2>2. /\ pass[w].item \in Items /\ pass[w].entry \in Entries
        /\ Here(w) \in Places /\ Mine(w)
    BY <1>1, <1>2, Typed DEF Placed, OnEntry, Here, Places, Mine, Held
  <2>3. /\ transfer' \in TransferRows /\ transfer'.boundary = Here(w)
        /\ transfer'.status = transfer.status /\ transfer'.owner = transfer.owner
        /\ transfer'.attempts = transfer.attempts
    BY <2>1, <2>2, Typed, BoundaryTyped DEF RowsOK
  <2>4. RowsOK' /\ LocksOK' /\ WorldOK'
    BY <1>1, <2>1, <2>3, Typed, LocksStand, WorldStands DEF RowsOK
  <2>5. Goes(w, "calling") /\ pass'[w].entry = pass[w].entry
    BY <2>1, <2>2, Typed, Going DEF Steps, OnEntry
  <2>6. Tokens'
    BY <2>2, <2>3, <2>5 DEF CallInv, Tokens, Goes, Moves, Mine
  <2>7. Here(w)' = Here(w)
    BY <2>5 DEF Goes, Here
  <2>8. \A v \in Workers : v # w /\ pass'[v].pc = "calling" =>
          /\ pass[v].pc = "calling" /\ Here(v)' = Here(v)
          /\ Here(v) \in Places /\ Here(v) # Here(w)
    BY <1>1, <2>2, <2>5, Typed
       DEF Goes, Moves, Here, Placed, OnEntry, Places, CallInv, Alone
  <2>9. \A v \in Workers : Mine(v)' => v = w
    <3> TAKE v \in Workers
    <3> HAVE Mine(v)'
    <3>1. v # w => Mine(v)
      BY <2>3, <2>5 DEF Mine, Named, Goes, Moves
    <3> QED BY <2>2, <3>1, OneOwner
  <2>10. ASSUME NEW v \in Workers
         PROVE  (Clear(v) /\ Inside(v) /\ Standing(v) /\ Alone(v))'
    <3>1. CASE v = w
      BY <2>3, <2>5, <2>7, <2>8, <3>1
         DEF Clear, Inside, Standing, Alone, Goes, Opening
    <3>2. CASE v # w
      <4>1. Standing(v)
        BY DEF CallInv
      <4>2. pass'[v].pc = "calling" => transfer.boundary # Here(v)
        BY <1>2, <2>8, <3>2, Numbers
      <4>3. Standing(v)'
        BY <1>1, <2>3, <2>8, <3>2, <4>1, <4>2 DEF Standing
      <4> QED BY <2>9, <3>2, <4>3 DEF Clear, Inside, Alone
    <3> QED BY <3>1, <3>2
  <2>11. OneCallPerEntry'
    <3> SUFFICES ASSUME NEW u \in Workers, NEW v \in Workers, u # v,
                        pass'[u].pc = "calling", pass'[v].pc = "calling"
                 PROVE  Here(u)' # Here(v)'
      BY DEF OneCallPerEntry
    <3>1. CASE u # w /\ v # w
      BY <2>8, <3>1 DEF CallInv, OneCallPerEntry
    <3>2. CASE u = w \/ v = w
      BY <2>7, <2>8, <3>2
    <3> QED BY <3>1, <3>2
  <2> QED
    BY <2>4, <2>5, <2>6, <2>10, <2>11
       DEF CallInv, Goes, Moves, RowsOK, LocksOK, WorldOK, PassesOK, TransferTypeOK
<1>3. CASE ~(Held(w) /\ transfer.boundary = Nowhere)
  BY <1>1, <1>3, QuietStop DEF EnterMutation
<1> QED BY <1>2, <1>3

\* Storage changes outside the database.
LEMMA WorldKeeps ==
  ASSUME CallInv, NEW x \in Places, NEW content \in {"half", "landed", "foreign"},
         world[x] # "landed", world' = [world EXCEPT ![x] = content],
         ledger' = ledger, transfer' = transfer, task' = task, item' = item,
         lock' = lock, pass' = pass
  PROVE  CallInv'
<1>1. RowsOK' /\ LocksOK'
  BY Typed, RowsStand, LocksStand
<1>2. WorldOK' /\ LandedStays
  BY Typed DEF WorldOK, LandedStays
<1> QED
  BY <1>1, <1>2, Stands DEF ClaimStands

LEMMA LandsKeeps ==
  ASSUME CallInv, NEW w \in Workers, Lands(w) PROVE CallInv'
<1>1. /\ pass[w].pc = "calling" /\ world[Here(w)] \in {"untouched", "half"}
      /\ world' = [world EXCEPT ![Here(w)] =
                     IF @ = "untouched" THEN "half" ELSE "landed"]
      /\ ledger' = ledger /\ transfer' = transfer /\ task' = task
      /\ item' = item /\ lock' = lock /\ pass' = pass
  BY DEF Lands, rowVars
<1>2. Here(w) \in Places
  BY <1>1, Typed DEF Placed, OnEntry, Here, Places
<1>3. PICK content \in {"half", "landed"} :
        world' = [world EXCEPT ![Here(w)] = content]
  BY <1>1
<1> QED
  BY <1>1, <1>2, <1>3, WorldKeeps

LEMMA OthersWriteKeeps ==
  ASSUME CallInv, NEW x \in Places, OthersWrite(x) PROVE CallInv'
BY WorldKeeps DEF OthersWrite, rowVars

LEMMA ReturnKeeps ==
  ASSUME CallInv, NEW w \in Workers, Return(w) PROVE CallInv'
<1> PICK answer \in Outcomes :
      IF answer = "raise"
        THEN Goto(w, "erred") /\ lock' = Released(w)
        ELSE /\ pass' = [pass EXCEPT ![w].pc = "record", ![w].answer = answer]
             /\ UNCHANGED lock
  BY DEF Return
<1>1. /\ pass[w].pc = "calling"
      /\ transfer' = transfer /\ task' = task /\ item' = item
      /\ world' = world /\ ledger' = ledger
  BY DEF Return
<1>2. RowsOK' /\ WorldOK' /\ pass[w] \in Frames /\ Placed(pass[w])
  BY <1>1, Typed, RowsStand, WorldStands
<1>3. CASE answer = "raise"
  <2>1. LocksOK'
    BY <1>3, Shapes, ReleasedTyped
  <2>2. Goes(w, "erred")
    BY <1>3, Typed, Going DEF Steps, OnItem, OnEntry
  <2> QED
    BY <1>1, <1>2, <2>1, <2>2, QuietPass DEF Goes, Opening, OnEntry
<1>4. CASE answer # "raise"
  <2> DEFINE p == [pass[w] EXCEPT !.pc = "record", !.answer = answer]
  <2>1. pass' = [pass EXCEPT ![w] = p] /\ lock' = lock
    BY <1>4, Typed DEF PassesOK
  <2>2. answer \in {"success", "failed", "uncertain"}
    BY <1>4, TransferAssumption
  <2>3. /\ p \in Frames /\ p.pc = "record" /\ p.token = pass[w].token
        /\ p.item = pass[w].item /\ p.entry = pass[w].entry
    BY <1>2, <2>2 DEF Frames, Steps, OnEntry
  <2> HIDE DEF p
  <2>4. p.answer = answer
    BY <1>2 DEF p, Frames
  <2>5. Placed(p)
    BY <1>1, <1>2, <2>2, <2>3, <2>4 DEF Placed, OnEntry
  <2>6. Moves(w) /\ pass'[w] = p
    BY <2>1, <2>3, <2>5, Typed DEF Moves, PassesOK
  <2>7. LocksOK'
    BY <2>1, Shapes, LocksStand
  <2>8. Tokens'
    BY <1>1, <2>3, <2>6 DEF CallInv, Tokens, Moves
  <2>9. Here(w)' = Here(w)
    BY <2>3, <2>6 DEF Here
  <2>10. \A v \in Workers : Mine(v)' => Mine(v)
    BY <1>1, <2>3, <2>6 DEF Mine, Named, Moves
  <2>11. \A v \in Workers : pass'[v].pc = "calling" =>
           v # w /\ pass[v].pc = "calling" /\ Here(v)' = Here(v)
    BY <2>3, <2>6 DEF Moves, Here
  <2>12. ASSUME NEW v \in Workers
         PROVE  (Clear(v) /\ Inside(v) /\ Standing(v) /\ Alone(v))'
    <3>1. Clear(v) /\ Inside(v) /\ Standing(v) /\ Alone(v)
      BY DEF CallInv
    <3>2. Standing(v)'
      BY <1>1, <2>11, <3>1 DEF Standing
    <3>3. CASE v = w
      BY <1>1, <2>3, <2>6, <2>9, <2>10, <2>11, <3>1, <3>2, <3>3
         DEF Clear, Inside, Alone, Opening, OnEntry
    <3>4. CASE v # w
      <4>1. pass'[v] = pass[v] /\ Here(v)' = Here(v)
        BY <2>6, <3>4 DEF Moves, Here
      <4> QED
        BY <1>1, <2>10, <2>11, <3>1, <3>2, <4>1 DEF Clear, Inside, Alone
    <3> QED BY <3>3, <3>4
  <2>13. OneCallPerEntry'
    BY <2>11 DEF CallInv, OneCallPerEntry
  <2> QED
    BY <1>2, <2>6, <2>7, <2>8, <2>12, <2>13
       DEF CallInv, Moves, RowsOK, LocksOK, WorldOK, PassesOK, TransferTypeOK
<1> QED BY <1>3, <1>4

LEMMA RecordOutcomeKeeps ==
  ASSUME CallInv, NEW w \in Workers, RecordOutcome(w) PROVE CallInv'
<1> DEFINE out == pass[w].answer
<1>1. pass[w].pc = "record" /\ world' = world
  BY DEF RecordOutcome
<1>2. CASE Held(w)
  <2>1. /\ Progress(w, Outs(w, out)) /\ After(w, out)
        /\ ledger' = [ledger EXCEPT ![Here(w)] =
                        CASE out = "success" -> "known"
                          [] out = "uncertain" -> "unknown"
                          [] OTHER -> "none"]
    BY <1>2 DEF RecordOutcome
  <2>2. WorldOK'
    BY <1>1, <2>1, Typed DEF WorldOK
  <2>3. pass[w].item \in Items
    BY <1>1, Typed DEF Placed, OnEntry
  <2>4. CASE out \in Recorded
    <3>1. /\ Moves(w) /\ pass'[w].token = pass[w].token
          /\ pass'[w].pc \in {"complete", "entry"}
      BY <2>1, <2>3, <2>4, AfterMoves
    <3>2. Outs(w, out) \in OutcomeLists
      BY <2>4, OutsTyped
    <3> QED
      BY <1>1, <1>2, <2>1, <2>2, <3>1, <3>2, RecordKeeps DEF OnEntry
  <2>5. out \in Recorded
    BY <1>1, Typed DEF Placed, Frames, Recorded
  <2> QED BY <2>4, <2>5
<1>3. CASE ~Held(w)
  BY <1>1, <1>3, QuietStop DEF RecordOutcome
<1> QED BY <1>2, <1>3

-----------------------------------------------------------------------------
(* Ending an item and a pass.                                              *)

LEMMA CompleteItemKeeps ==
  ASSUME CallInv, NEW w \in Workers, CompleteItem(w) PROVE CallInv'
<1>1. /\ pass[w].pc \in {"complete", "entry"}
      /\ world' = world /\ ledger' = ledger
  BY DEF CompleteItem
<1>2. CASE Held(w)
  <2>1. /\ item' = [item EXCEPT ![pass[w].item] = CompletedItem(@, pass[w].outs)]
        /\ lock' = [lock EXCEPT ![pass[w].item] =
             IF @ = Generation(pass[w].token, "item") THEN Free ELSE @]
        /\ NextItem(w)
        /\ transfer' = transfer /\ task' = task
    BY <1>2 DEF CompleteItem
  <2>2. pass[w].item \in Items /\ pass[w].outs \in OutcomeLists
    BY <1>1, Typed DEF Placed, OnItem, Frames
  <2>3. item' \in [Items -> ItemRows]
    <3>1. item[pass[w].item] \in ItemRows
      BY <2>2, Shapes
    <3>2. CompletedItem(item[pass[w].item], pass[w].outs) \in ItemRows
      BY <2>2, <3>1, CompletedTyped
    <3> QED BY <2>1, <2>2, <3>2, Shapes
  <2>4. LocksOK'
    BY <2>1, Shapes, FreedTyped
  <2> QED
    BY <1>1, <2>1, <2>3, <2>4, TurnKeeps DEF Opening
<1>3. CASE ~Held(w)
  BY <1>1, <1>3, QuietStop DEF CompleteItem
<1> QED BY <1>2, <1>3

LEMMA ReadAggregateKeeps ==
  ASSUME CallInv, NEW w \in Workers, ReadAggregate(w) PROVE CallInv'
<1> DEFINE p == [pass[w] EXCEPT !.pc = "aggregate", !.seen = task.status]
<1>1. /\ pass[w].pc = "items" /\ pass' = [pass EXCEPT ![w] = p]
      /\ transfer' = transfer /\ task' = task /\ item' = item /\ lock' = lock
      /\ world' = world /\ ledger' = ledger
  BY Typed DEF ReadAggregate, rowVars, PassesOK
<1>2. p \in Frames /\ p.pc = "aggregate" /\ p.token = pass[w].token
  BY Typed, Shapes DEF Frames, Steps
<1> HIDE DEF p
<1> QED
  BY <1>1, <1>2, FrameKeeps DEF Placed, OnItem, OnEntry, Opening

LEMMA PublishAggregateKeeps ==
  ASSUME CallInv, NEW w \in Workers, PublishAggregate(w) PROVE CallInv'
<1>1. /\ pass[w].pc = "aggregate" /\ Goto(w, "finish") /\ lock' = Retired(w)
      /\ transfer' = transfer /\ item' = item
      /\ world' = world /\ ledger' = ledger
  BY DEF PublishAggregate
<1>2. task' \in [status : TaskStatuses, paused : BOOLEAN]
  BY Shapes DEF PublishAggregate, TaskStatuses
<1>3. LocksOK'
  BY <1>1, Shapes, RetiredTyped
<1> QED
  BY <1>1, <1>2, <1>3, Shapes, StepKeeps DEF Steps, OnItem, OnEntry, Opening

LEMMA AcknowledgeItemsKeeps ==
  ASSUME CallInv, NEW w \in Workers, AcknowledgeItems(w) PROVE CallInv'
<1>1. /\ pass[w].pc = "acknowledge" /\ transfer' = transfer /\ task' = task
      /\ world' = world /\ ledger' = ledger
  BY DEF AcknowledgeItems
<1>2. CASE task.status = "running" /\ task.paused
  <2>1. /\ item' = [i \in Items |->
             IF item[i].status \in {"pending", "processing"}
               THEN [item[i] EXCEPT !.status = "paused"] ELSE item[i]]
        /\ Goto(w, "acknowledged") /\ lock' = lock
    BY <1>2 DEF AcknowledgeItems
  <2>2. \A row \in ItemRows : [row EXCEPT !.status = "paused"] \in ItemRows
    BY DEF ItemRows, ItemStatuses
  <2>3. item' \in [Items -> ItemRows] /\ LocksOK'
    BY <2>1, <2>2, Shapes, LocksStand
  <2> QED
    BY <1>1, <2>1, <2>3, Shapes, StepKeeps DEF Steps, OnItem, OnEntry, Opening
<1>3. CASE ~(task.status = "running" /\ task.paused)
  <2>1. Goto(w, "erred") /\ lock' = Retired(w) /\ item' = item
    BY <1>3 DEF AcknowledgeItems
  <2>2. LocksOK'
    BY <2>1, Shapes, RetiredTyped
  <2> QED
    BY <1>1, <2>1, <2>2, Shapes, StepKeeps DEF Steps, OnItem, OnEntry, Opening
<1> QED BY <1>2, <1>3

LEMMA AcknowledgeTaskKeeps ==
  ASSUME CallInv, NEW w \in Workers, AcknowledgeTask(w) PROVE CallInv'
<1>1. /\ pass[w].pc = "acknowledged" /\ Goto(w, "paused")
      /\ task' = [status |-> "running", paused |-> FALSE]
      /\ lock' = [i \in Items |-> IF lock[i].by = "task" THEN Free ELSE lock[i]]
      /\ transfer' = transfer /\ item' = item
      /\ world' = world /\ ledger' = ledger
  BY DEF AcknowledgeTask
<1>2. task' \in [status : TaskStatuses, paused : BOOLEAN]
  BY <1>1 DEF TaskStatuses
<1>3. LocksOK'
  BY <1>1, Shapes DEF LocksOK, LockRows, Free
<1> QED
  BY <1>1, <1>2, <1>3, Shapes, StepKeeps DEF Steps, OnItem, OnEntry, Opening

-----------------------------------------------------------------------------
(* The operator, the other Tasks, and crashes.                             *)

\* The rows beside the transfer change, and no pass moves.
LEMMA OthersKeep ==
  ASSUME CallInv, pass' = pass, transfer' = transfer,
         world' = world, ledger' = ledger,
         task' \in [status : TaskStatuses, paused : BOOLEAN],
         item' \in [Items -> ItemRows], LocksOK'
  PROVE  CallInv'
<1>1. RowsOK' /\ WorldOK'
  BY Typed, WorldStands DEF RowsOK
<1> QED
  BY <1>1, Stands DEF ClaimStands, LandedStays

LEMMA RequestPauseKeeps ==
  ASSUME CallInv, RequestPause PROVE CallInv'
<1>1. /\ pass' = pass /\ transfer' = transfer /\ item' = item /\ lock' = lock
      /\ world' = world /\ ledger' = ledger
      /\ task' = [task EXCEPT !.paused = TRUE]
  BY DEF RequestPause, Request
<1>2. task' \in [status : TaskStatuses, paused : BOOLEAN]
  BY <1>1, Shapes
<1>3. LocksOK'
  BY <1>1, Shapes, LocksStand
<1> QED
  BY <1>1, <1>2, <1>3, Shapes, OthersKeep

LEMMA CancelTaskKeeps ==
  ASSUME CallInv, CancelTask PROVE CallInv'
<1>1. /\ pass' = pass /\ transfer' = transfer
      /\ world' = world /\ ledger' = ledger
      /\ task' = [task EXCEPT !.status = "cancelled"]
      /\ item' = [i \in Items |->
           IF item[i].status \in {"pending", "processing", "paused"}
             THEN [item[i] EXCEPT !.status = "cancelled"] ELSE item[i]]
      /\ lock' = [i \in Items |->
           IF lock[i].by = "task" /\ item[i].status # "processing"
             THEN Free ELSE lock[i]]
  BY DEF CancelTask, Request
<1>2. task' \in [status : TaskStatuses, paused : BOOLEAN]
  BY <1>1, Shapes DEF TaskStatuses
<1>3. \A row \in ItemRows : [row EXCEPT !.status = "cancelled"] \in ItemRows
  BY DEF ItemRows, ItemStatuses
<1>4. item' \in [Items -> ItemRows]
  BY <1>1, <1>3, Shapes
<1>5. LocksOK'
  BY <1>1, Shapes DEF LocksOK, LockRows, Free
<1> QED
  BY <1>1, <1>2, <1>4, <1>5, OthersKeep

LEMMA ResumeTransferKeeps ==
  ASSUME CallInv, ResumeTransfer PROVE CallInv'
<1>1. /\ pass' = pass /\ item' = item /\ lock' = lock
      /\ world' = world /\ ledger' = ledger
      /\ transfer.status = "paused"
      /\ task' = [status |-> "pending",
                  paused |-> IF task.status = "pending" THEN task.paused ELSE FALSE]
      /\ \/ transfer' = [transfer EXCEPT !.status = "admitted"]
         \/ transfer' = transfer
  BY DEF ResumeTransfer, Request
<1>2. task' \in [status : TaskStatuses, paused : BOOLEAN]
  BY <1>1, Shapes DEF TaskStatuses
<1>3. /\ transfer' \in TransferRows /\ ClaimStands
  BY <1>1, Typed DEF RowsOK, TransferRows, OpenStatus, ClaimStands
<1>4. RowsOK' /\ LocksOK' /\ WorldOK' /\ LandedStays
  BY <1>1, <1>2, <1>3, Typed, LocksStand, WorldStands DEF RowsOK, LandedStays
<1> QED
  BY <1>1, <1>3, <1>4, Stands

LEMMA RivalKeeps ==
  ASSUME CallInv, NEW i \in Items, RivalAcquires(i) \/ RivalReleases(i)
  PROVE  CallInv'
<1>1. /\ pass' = pass /\ transfer' = transfer /\ task' = task /\ item' = item
      /\ world' = world /\ ledger' = ledger
      /\ \/ lock' = [lock EXCEPT ![i] = Rival]
         \/ lock' = [lock EXCEPT ![i] = Free]
  BY DEF RivalAcquires, RivalReleases
<1>2. LocksOK'
  BY <1>1, Shapes DEF LocksOK, LockRows, Rival, Free
<1> QED
  BY <1>1, <1>2, Shapes, OthersKeep

LEMMA CrashKeeps ==
  ASSUME CallInv, NEW w \in Workers, Crash(w) PROVE CallInv'
<1>1. /\ pass' = [pass EXCEPT ![w] = Idle]
      /\ transfer' = transfer /\ task' = task /\ item' = item /\ lock' = lock
      /\ world' = world /\ ledger' = ledger
  BY DEF Crash, rowVars
<1>2. LocksOK'
  BY <1>1, Shapes, LocksStand
<1> QED
  BY <1>1, <1>2, RestKeeps

LEMMA LeaseActionsKeep ==
  ASSUME CallInv, LeaseLapses \/ \E w \in Workers : Heartbeat(w)
  PROVE  CallInv'
<1>1. CASE LeaseLapses
  BY <1>1, LeaseKeeps DEF LeaseLapses
<1>2. CASE \E w \in Workers : Heartbeat(w)
  BY <1>2, LeaseKeeps DEF Heartbeat
<1> QED BY <1>1, <1>2

-----------------------------------------------------------------------------
(* The theorems.                                                           *)

LEMMA WorksKeeps ==
  ASSUME CallInv, NEW w \in Workers, Works(w) PROVE CallInv'
<1>1. CASE ClaimNext(w) \/ ClaimExpiredMutation(w)
  BY <1>1, ClaimKeeps DEF ClaimNext, ClaimExpiredMutation
<1>2. CASE \/ BeginTransfer(w) \/ CloseUnstarted(w) \/ ConvergeFailure(w)
           \/ FinishCancelled(w) \/ PauseTransfer(w) \/ ResolveInFlight(w)
  BY <1>2, BeginTransferKeeps, CloseUnstartedKeeps, ConvergeFailureKeeps,
     FinishCancelledKeeps, PauseTransferKeeps, ResolveInFlightKeeps
<1>3. CASE \/ Start(w) \/ ReadQueued(w) \/ PublishRunning(w) \/ ListItems(w)
           \/ StopCancelled(w) \/ TakeItem(w) \/ PassOver(w) \/ MarkInterrupted(w)
  BY <1>3, StartKeeps, ReadQueuedKeeps, PublishRunningKeeps, ListItemsKeeps,
     StopCancelledKeeps, TakeItemKeeps, PassOverKeeps, MarkInterruptedKeeps
<1>4. CASE \/ AcquireItem(w) \/ LockConflict(w) \/ RefuseItem(w) \/ PublishStart(w)
           \/ OpenItem(w) \/ Interrupted(w) \/ EntryChecked(w) \/ RecordPresent(w)
  BY <1>4, AcquireItemKeeps, LockConflictKeeps, RefuseItemKeeps, PublishStartKeeps,
     OpenItemKeeps, InterruptedKeeps, EntryCheckedKeeps, RecordPresentKeeps
<1>5. CASE \/ EnterMutation(w) \/ Lands(w) \/ Return(w) \/ RecordOutcome(w)
  BY <1>5, EnterMutationKeeps, LandsKeeps, ReturnKeeps, RecordOutcomeKeeps
<1>6. CASE \/ CompleteItem(w) \/ ReadAggregate(w) \/ PublishAggregate(w)
           \/ FinishTransfer(w) \/ AcknowledgeItems(w) \/ AcknowledgeTask(w)
  BY <1>6, CompleteItemKeeps, ReadAggregateKeeps, PublishAggregateKeeps,
     FinishTransferKeeps, AcknowledgeItemsKeeps, AcknowledgeTaskKeeps
<1> QED
  BY <1>1, <1>2, <1>3, <1>4, <1>5, <1>6 DEF Works

LEMMA NextKeeps == CallInv /\ [Next]_vars => CallInv'
<1> SUFFICES ASSUME CallInv, [Next]_vars PROVE CallInv'
  OBVIOUS
<1>1. CASE UNCHANGED vars
  <2>1. /\ pass' = pass /\ transfer' = transfer /\ task' = task /\ item' = item
        /\ lock' = lock /\ world' = world /\ ledger' = ledger
    BY <1>1 DEF vars
  <2> QED BY <2>1, Shapes, LocksStand, OthersKeep
<1>2. CASE Next
  <2>1. CASE \E w \in Workers : Works(w)
    BY <2>1, WorksKeeps
  <2>2. CASE \E w \in Workers : \/ ReleaseIncompatible(w) \/ StartFails(w)
                                \/ Crash(w)
    BY <2>2, ReleaseIncompatibleKeeps, StartFailsKeeps, CrashKeeps
  <2>3. CASE LeaseLapses \/ \E w \in Workers : Heartbeat(w)
    BY <2>3, LeaseActionsKeep
  <2>4. CASE \/ RequestPause \/ CancelTask \/ ResumeTransfer
             \/ \E i \in Items : RivalAcquires(i) \/ RivalReleases(i)
             \/ \E x \in Places : OthersWrite(x)
    BY <2>4, RequestPauseKeeps, CancelTaskKeeps, ResumeTransferKeeps,
       RivalKeeps, OthersWriteKeeps
  <2> QED
    BY <1>2, <2>1, <2>2, <2>3, <2>4 DEF Next
<1> QED
  BY <1>1, <1>2

LEMMA CallInvariant == Spec => []CallInv
<1>1. Init => CallInv
  BY InitCalls
<1>2. CallInv /\ [Next]_vars => CallInv'
  BY NextKeeps
<1> QED
  BY <1>1, <1>2, PTL DEF Spec

\* Every row, lock, lease and pass keeps its shape through takeovers,
\* requests, crashes and interrupted items.
THEOREM TransferTyped == Spec => []TransferTypeOK
<1>1. CallInv => TransferTypeOK
  BY DEF CallInv
<1> QED
  BY <1>1, CallInvariant, PTL

\* An operation that one Worker has entered is never handed to a second
\* caller, however long the first one stalls and whoever takes over.
THEOREM NoSecondCall == Spec => []OneCallPerEntry
<1>1. CallInv => OneCallPerEntry
  BY DEF CallInv
<1> QED
  BY <1>1, CallInvariant, PTL

------------------------------------------------------------------------------
(* The path of an entered operation stays locked.  From the start of an     *)
(* item on, the owner's pass has its own lock generation on it, which a     *)
(* late Worker cannot release, and the item is in processing, which keeps a *)
(* cancellation from releasing it (Covered); only before its first check of *)
(* an entry may the pass run into a cancellation that has released it.      *)

Owner(w) == pass[w].token = transfer.owner /\ pass[w].pc # "idle"

Unchecked == {"begin", "open item", "entry"}
Checked   == {"adopt", "present", "open", "calling", "record"}

Covered(w) ==
  Owner(w) /\ pass[w].pc \in Unchecked \cup Checked =>
    \/ uncovered
    \/ pass[w].pc \in Unchecked /\ task.status = "cancelled"
    \/ /\ lock[pass[w].item] = Generation(pass[w].token, "item")
       /\ \/ pass[w].pc = "begin"
          \/ item[pass[w].item].status = "processing"
          \/ task.status = "cancelled"

LockInv == CallInv /\ \A w \in Workers : Covered(w)

-----------------------------------------------------------------------------
(* Parts of a step.                                                        *)

\* No other pass's own lock is touched.
LocksApart(v) ==
  \A i \in Items, t \in Nat :
    t # pass[v].token /\ lock[i] = Generation(t, "item") => lock'[i] = lock[i]

LEMMA Distinct ==
  ASSUME NEW s, NEW t, NEW kind, s # t
  PROVE  /\ Generation(s, kind) # Generation(t, "item")
         /\ Generation(s, "takeover") # Generation(t, "item")
         /\ Generation(t, "takeover") # Generation(t, "item")
BY DEF Generation

LEMMA GivingBack ==
  ASSUME LocksOK, NEW v \in Workers, pass[v] \in Frames,
         \/ lock' = lock
         \/ lock' = Retired(v)
         \/ lock' = Released(v)
         \/ lock' = [lock EXCEPT ![pass[v].item] =
                       IF @ = Generation(pass[v].token, "item") THEN Free ELSE @]
  PROVE  LocksApart(v)
<1> SUFFICES ASSUME NEW i \in Items, NEW t \in Nat, t # pass[v].token,
                    lock[i] = Generation(t, "item")
             PROVE  lock'[i] = lock[i]
  BY DEF LocksApart
<1>1. /\ lock[i] # Generation(pass[v].token, "item")
      /\ lock[i] # Generation(pass[v].token, "takeover")
  BY DEF Generation
<1>2. Retired(v)[i] = lock[i]
  BY <1>1 DEF Retired
<1>3. Released(v)[i] = lock[i]
  BY <1>1, <1>2 DEF Released, Retired
<1> QED
  BY <1>1, <1>2, <1>3 DEF LocksOK

LEMMA Gone ==
  ASSUME PassesOK, NEW w \in Workers, NEW c, Goto(w, c)
  PROVE  pass'[w].pc = c /\ \A u \in Workers : u # w => pass'[u] = pass[u]
BY DEF PassesOK, Frames, Goto

-----------------------------------------------------------------------------
(* A Worker that lost its claim.                                           *)

\* It leaves everybody else's rows and locks alone, or its late pause is on
\* record.
Aside(v) ==
  /\ \A u \in Workers : u # v => pass'[u] = pass[u]
  /\ transfer' = transfer
  /\ \/ uncovered'
     \/ uncovered' = uncovered /\ task' = task /\ item' = item /\ LocksApart(v)

LEMMA LateUnnamed ==
  ASSUME NEW v \in Workers, Late(v) PROVE ~Named(v) /\ ~Held(v)
BY DEF Late, Named, Held

LEMMA LateEnds ==
  ASSUME CallInv, NEW v \in Workers, Late(v),
         \/ CloseUnstarted(v) \/ ConvergeFailure(v) \/ FinishCancelled(v)
         \/ FinishTransfer(v) \/ PauseTransfer(v) \/ ReleaseIncompatible(v)
         \/ StartFails(v) \/ BeginTransfer(v) \/ Crash(v)
  PROVE  Aside(v)
<1>1. /\ transfer' = transfer /\ task' = task /\ item' = item /\ lock' = lock
      /\ uncovered' = uncovered
  BY LateUnnamed DEF CloseUnstarted, ConvergeFailure, FinishCancelled,
     FinishTransfer, PauseTransfer, ReleaseIncompatible, StartFails,
     BeginTransfer, Crash, rowVars
<1>2. \A u \in Workers : u # v => pass'[u] = pass[u]
  BY Typed DEF CloseUnstarted, ConvergeFailure, FinishCancelled,
     FinishTransfer, PauseTransfer, ReleaseIncompatible, StartFails,
     BeginTransfer, Crash, Goto, PassesOK
<1>3. LocksApart(v)
  BY <1>1, Typed, GivingBack
<1> QED
  BY <1>1, <1>2, <1>3 DEF Aside

LEMMA LateStarts ==
  ASSUME CallInv, NEW v \in Workers, Late(v),
         \/ ResolveInFlight(v) \/ Start(v) \/ ReadQueued(v) \/ PublishRunning(v)
         \/ ListItems(v) \/ StopCancelled(v) \/ TakeItem(v) \/ PassOver(v)
         \/ MarkInterrupted(v)
  PROVE  Aside(v)
<1>1. /\ transfer' = transfer /\ task' = task /\ item' = item
      /\ uncovered' = uncovered
  BY LateUnnamed DEF ResolveInFlight, Start, ReadQueued, PublishRunning,
     ListItems, StopCancelled, TakeItem, PassOver, MarkInterrupted, Stop, rowVars
<1>2. \A u \in Workers : u # v => pass'[u] = pass[u]
  BY LateUnnamed, Typed DEF ResolveInFlight, Start, ReadQueued, PublishRunning,
     ListItems, StopCancelled, TakeItem, PassOver, MarkInterrupted, Stop, Goto,
     NextItem, PassesOK
<1>3. LocksApart(v)
  <2>1. \/ lock' = lock \/ lock' = Retired(v) \/ lock' = Released(v)
        \/ lock' = [i \in Items |-> lock[i]]
    BY LateUnnamed DEF ResolveInFlight, Start, ReadQueued, PublishRunning,
       ListItems, StopCancelled, TakeItem, PassOver, MarkInterrupted, Stop, rowVars
  <2>2. [i \in Items |-> lock[i]] = lock
    BY Typed DEF LocksOK
  <2> QED BY <2>1, <2>2, Typed, GivingBack
<1> QED
  BY <1>1, <1>2, <1>3 DEF Aside

LEMMA LateItems ==
  ASSUME CallInv, NEW v \in Workers, Late(v),
         \/ AcquireItem(v) \/ LockConflict(v) \/ RefuseItem(v) \/ PublishStart(v)
         \/ OpenItem(v) \/ Interrupted(v) \/ EntryChecked(v) \/ RecordPresent(v)
         \/ CompleteItem(v)
  PROVE  Aside(v)
<1>1. /\ transfer' = transfer /\ task' = task /\ item' = item
      /\ uncovered' = uncovered
  BY LateUnnamed DEF AcquireItem, LockConflict, RefuseItem, PublishStart,
     OpenItem, Interrupted, EntryChecked, RecordPresent, CompleteItem, Stop,
     NextItemIfHeld
<1>2. \A u \in Workers : u # v => pass'[u] = pass[u]
  BY LateUnnamed, Typed DEF AcquireItem, LockConflict, RefuseItem, PublishStart,
     OpenItem, Interrupted, EntryChecked, RecordPresent, CompleteItem, Stop,
     Goto, NextItem, PassesOK
<1>3. \/ lock' = lock \/ lock' = Retired(v) \/ lock' = Released(v)
      \/ lock' = [lock EXCEPT ![pass[v].item] =
                    IF @ = Generation(pass[v].token, "item") THEN Free ELSE @]
  BY LateUnnamed DEF AcquireItem, LockConflict, RefuseItem, PublishStart,
     OpenItem, Interrupted, EntryChecked, RecordPresent, CompleteItem, Stop
<1>4. LocksApart(v)
  BY <1>3, Typed, GivingBack
<1> QED
  BY <1>1, <1>2, <1>4 DEF Aside

LEMMA LateCalls ==
  ASSUME CallInv, NEW v \in Workers, Late(v),
         \/ EnterMutation(v) \/ Lands(v) \/ Return(v) \/ RecordOutcome(v)
         \/ ReadAggregate(v) \/ PublishAggregate(v)
  PROVE  Aside(v)
<1>1. /\ transfer' = transfer /\ task' = task /\ item' = item
      /\ uncovered' = uncovered
  BY LateUnnamed DEF EnterMutation, Lands, Return, RecordOutcome,
     ReadAggregate, PublishAggregate, Stop, rowVars
<1>2. \A u \in Workers : u # v => pass'[u] = pass[u]
  BY LateUnnamed, Typed DEF EnterMutation, Lands, Return, RecordOutcome,
     ReadAggregate, PublishAggregate, Stop, Goto, rowVars, PassesOK
<1>3. \/ lock' = lock \/ lock' = Retired(v) \/ lock' = Released(v)
  BY LateUnnamed DEF EnterMutation, Lands, Return, RecordOutcome,
     ReadAggregate, PublishAggregate, Stop, rowVars
<1>4. LocksApart(v)
  BY <1>3, Typed, GivingBack
<1> QED
  BY <1>1, <1>2, <1>4 DEF Aside

LEMMA LatePauses ==
  ASSUME CallInv, NEW v \in Workers, Late(v),
         AcknowledgeItems(v) \/ AcknowledgeTask(v)
  PROVE  Aside(v)
<1>1. /\ transfer' = transfer
      /\ \/ uncovered'
         \/ /\ task' = task /\ item' = item /\ uncovered' = uncovered
            /\ lock' = Retired(v)
  BY DEF AcknowledgeItems, AcknowledgeTask
<1>2. \A u \in Workers : u # v => pass'[u] = pass[u]
  BY Typed DEF AcknowledgeItems, AcknowledgeTask, Goto, PassesOK
<1>3. lock' = Retired(v) => LocksApart(v)
  BY Typed, GivingBack
<1> QED
  BY <1>1, <1>2, <1>3 DEF Aside

LEMMA AsideKeeps ==
  ASSUME LockInv, NEW v \in Workers, NEW w \in Workers, v # w, Late(v), Aside(v)
  PROVE  Covered(w)'
<1> SUFFICES ASSUME Owner(w)', pass'[w].pc \in Unchecked \cup Checked, ~uncovered'
             PROVE  Covered(w)'
  BY DEF Covered
<1>1. /\ pass'[w] = pass[w] /\ transfer' = transfer /\ task' = task
      /\ item' = item /\ ~uncovered /\ LocksApart(v)
  BY DEF Aside
<1>2. Owner(w) /\ Covered(w)
  BY <1>1 DEF LockInv, Owner
<1>3. pass[w].token # pass[v].token /\ pass[w].token \in Nat
  BY <1>2, Typed DEF LockInv, Owner, Late, Frames
<1>4. pass[w].item \in Items
  BY <1>1, Typed DEF LockInv, Placed, OnItem, OnEntry, Unchecked, Checked
<1>5. lock[pass[w].item] = Generation(pass[w].token, "item") =>
        lock'[pass[w].item] = lock[pass[w].item]
  BY <1>1, <1>3, <1>4 DEF LocksApart
<1> QED
  BY <1>1, <1>2, <1>5 DEF Covered

-----------------------------------------------------------------------------
(* The owner's steps, seen by the others.                                  *)

\* Nobody becomes the owner but by a claim.
LEMMA OwnerStands ==
  ASSUME CallInv, NEW v \in Workers,
         \/ Works(v) /\ ~ClaimNext(v) /\ ~ClaimExpiredMutation(v)
         \/ ReleaseIncompatible(v) \/ StartFails(v) \/ Crash(v)
  PROVE  /\ transfer'.owner \in {transfer.owner, 0}
         /\ \A u \in Workers : u # v => pass'[u] = pass[u]
<1>1. transfer \in TransferRows /\ PassesOK /\ RowsOK
  BY Typed DEF RowsOK
<1>2. \A f : Converged(f) => transfer'.owner = transfer.owner
  BY <1>1, ConvergedTyped
<1>3. \A x : Boundary(x).owner = transfer.owner
  BY <1>1 DEF Boundary, TransferRows
<1>4. CASE \/ BeginTransfer(v) \/ CloseUnstarted(v) \/ ConvergeFailure(v)
           \/ FinishCancelled(v) \/ PauseTransfer(v) \/ ResolveInFlight(v)
           \/ FinishTransfer(v) \/ ReleaseIncompatible(v) \/ StartFails(v)
           \/ Crash(v)
  BY <1>1, <1>2, <1>3, <1>4 DEF BeginTransfer, CloseUnstarted, ConvergeFailure,
     FinishCancelled, PauseTransfer, ResolveInFlight, FinishTransfer,
     ReleaseIncompatible, StartFails, Crash, Stop, Goto, rowVars, PassesOK,
     TransferRows
<1>5. CASE \/ Start(v) \/ ReadQueued(v) \/ PublishRunning(v) \/ ListItems(v)
           \/ StopCancelled(v) \/ TakeItem(v) \/ PassOver(v) \/ MarkInterrupted(v)
  BY <1>1, <1>5 DEF Start, ReadQueued, PublishRunning, ListItems, StopCancelled,
     TakeItem, PassOver, MarkInterrupted, Stop, Goto, NextItem, rowVars, PassesOK
<1>6. CASE \/ AcquireItem(v) \/ LockConflict(v) \/ RefuseItem(v) \/ PublishStart(v)
           \/ Interrupted(v) \/ EntryChecked(v) \/ CompleteItem(v)
  BY <1>1, <1>6 DEF AcquireItem, LockConflict, RefuseItem, PublishStart,
     Interrupted, EntryChecked, CompleteItem, Stop, Goto, NextItem, rowVars,
     PassesOK, TransferRows
<1>7. CASE \/ OpenItem(v) \/ RecordPresent(v) \/ EnterMutation(v) \/ RecordOutcome(v)
  BY <1>1, <1>3, <1>7 DEF OpenItem, RecordPresent, EnterMutation, RecordOutcome,
     Progress, After, Stop, Goto, PassesOK
<1>8. CASE \/ Lands(v) \/ Return(v) \/ ReadAggregate(v) \/ PublishAggregate(v)
           \/ AcknowledgeItems(v) \/ AcknowledgeTask(v)
  BY <1>1, <1>8 DEF Lands, Return, ReadAggregate, PublishAggregate,
     AcknowledgeItems, AcknowledgeTask, Goto, rowVars, PassesOK
<1> QED
  BY <1>4, <1>5, <1>6, <1>7, <1>8 DEF Works

LEMMA OwnerAlone ==
  ASSUME LockInv, NEW v \in Workers, NEW w \in Workers, v # w, Owner(v),
         transfer'.owner \in {transfer.owner, 0}, pass'[w] = pass[w]
  PROVE  Covered(w)'
<1>1. ~Owner(w)'
  BY DEF LockInv, CallInv, Tokens, Owner
<1> QED BY <1>1 DEF Covered

-----------------------------------------------------------------------------
(* The owner's steps, seen by itself.                                      *)

\* Most steps leave the pass outside an item it has begun.
LEMMA Elsewhere ==
  ASSUME CallInv, NEW w \in Workers,
         \/ /\ Works(w) /\ ~AcquireItem(w) /\ ~PublishStart(w) /\ ~OpenItem(w)
            /\ ~EntryChecked(w) /\ ~RecordPresent(w) /\ ~EnterMutation(w)
            /\ ~Lands(w) /\ ~Return(w) /\ ~RecordOutcome(w)
         \/ ReleaseIncompatible(w) \/ StartFails(w) \/ Crash(w)
  PROVE  pass'[w].pc \notin Unchecked \cup Checked
<1>1. PassesOK
  BY Typed
<1>2. ASSUME NEW c, Goto(w, c) PROVE pass'[w].pc = c
  BY <1>1, <1>2, Gone
<1>3. NextItem(w) => pass'[w].pc = "items"
  BY <1>1, Turning
<1>4. pass' = [pass EXCEPT ![w] = Idle] => pass'[w].pc = "idle"
  BY <1>1, Resting
<1>5. CASE \/ CloseUnstarted(w) \/ ConvergeFailure(w) \/ FinishCancelled(w)
           \/ PauseTransfer(w) \/ FinishTransfer(w) \/ ReleaseIncompatible(w)
           \/ Crash(w)
  BY <1>4, <1>5 DEF CloseUnstarted, ConvergeFailure, FinishCancelled,
     PauseTransfer, FinishTransfer, ReleaseIncompatible, Crash, Unchecked, Checked
<1>6. CASE \/ BeginTransfer(w) \/ ResolveInFlight(w) \/ StartFails(w)
           \/ Start(w) \/ ReadQueued(w) \/ PublishRunning(w)
  <2>1. \/ \E c \in {"unstarted", "resolve", "start", "queue", "cancelled",
                    "paused", "list", "publish", "erred"} : Goto(w, c)
        \/ pass' = [pass EXCEPT ![w] = Idle]
    <3>1. CASE BeginTransfer(w)
      <4> DEFINE c == IF ~Held(w) THEN "unstarted"
                      ELSE IF transfer.boundary # Nowhere THEN "resolve" ELSE "start"
      <4>1. Goto(w, c)
        BY <3>1 DEF BeginTransfer
      <4>2. c \in {"unstarted", "resolve", "start"}
        OBVIOUS
      <4> HIDE DEF c
      <4> QED BY <4>1, <4>2
    <3>2. CASE StartFails(w)
      BY <3>2 DEF StartFails
    <3>3. CASE ResolveInFlight(w)
      <4>1. Goto(w, "start") \/ pass' = [pass EXCEPT ![w] = Idle]
        BY <3>3 DEF ResolveInFlight, Stop
      <4> QED BY <4>1
    <3>4. CASE Start(w)
      <4>1. PICK c \in {"queue", "cancelled", "paused"} : Goto(w, c)
        BY <3>4 DEF Start
      <4> QED BY <4>1
    <3>5. CASE ReadQueued(w)
      <4> DEFINE c == CASE task.status = "running" -> "list"
                        [] task.status = "pending" -> "publish"
                        [] OTHER -> "erred"
      <4>1. Goto(w, c) /\ c \in {"list", "publish", "erred"}
        BY <3>5 DEF ReadQueued, Goto
      <4> HIDE DEF c
      <4> QED BY <4>1
    <3>6. CASE PublishRunning(w)
      <4>1. Goto(w, "list") \/ pass' = [pass EXCEPT ![w] = Idle]
        BY <3>6 DEF PublishRunning
      <4> QED BY <4>1
    <3> QED BY <1>6, <3>1, <3>2, <3>3, <3>4, <3>5, <3>6
  <2>2. pass'[w].pc \in {"unstarted", "resolve", "start", "queue", "cancelled",
                        "paused", "list", "publish", "erred", "idle"}
    <3>1. CASE pass' = [pass EXCEPT ![w] = Idle]
      BY <1>4, <3>1
    <3>2. ASSUME NEW c \in {"unstarted", "resolve", "start", "queue", "cancelled",
                           "paused", "list", "publish", "erred"}, Goto(w, c)
          PROVE  pass'[w].pc \in {"unstarted", "resolve", "start", "queue",
                                  "cancelled", "paused", "list", "publish", "erred"}
      BY <1>2, <3>2
    <3> QED BY <2>1, <3>1, <3>2
  <2> QED BY <2>2 DEF Unchecked, Checked
<1>7. CASE ListItems(w) \/ TakeItem(w) \/ ReadAggregate(w)
  <2>1. pass'[w].pc \in {"items", "acquire", "aggregate"}
    <3>1. CASE ListItems(w)
      BY <1>1, <3>1 DEF ListItems, PassesOK, Frames
    <3>2. CASE TakeItem(w)
      BY <1>1, <3>2 DEF TakeItem, PassesOK, Frames
    <3>3. CASE ReadAggregate(w)
      BY <1>1, <3>3 DEF ReadAggregate, PassesOK, Frames
    <3> QED BY <1>7, <3>1, <3>2, <3>3
  <2> QED BY <2>1 DEF Unchecked, Checked
<1>8. CASE \/ StopCancelled(w) \/ PassOver(w) \/ MarkInterrupted(w)
           \/ LockConflict(w) \/ RefuseItem(w) \/ Interrupted(w) \/ CompleteItem(w)
  BY <1>2, <1>3, <1>4, <1>8 DEF StopCancelled, PassOver, MarkInterrupted,
     LockConflict, RefuseItem, Interrupted, CompleteItem, Stop, Unchecked, Checked
<1>9. CASE PublishAggregate(w) \/ AcknowledgeItems(w) \/ AcknowledgeTask(w)
  BY <1>2, <1>9 DEF PublishAggregate, AcknowledgeItems, AcknowledgeTask,
     Unchecked, Checked
<1>10. CASE ClaimNext(w) \/ ClaimExpiredMutation(w)
  <2>1. pass' = [pass EXCEPT ![w] = [Idle EXCEPT !.pc = "claimed",
                                       !.token = transfer.attempts + 1]]
    BY <1>10 DEF ClaimNext, ClaimExpiredMutation, Claim
  <2>2. pass'[w].pc = "claimed"
    BY <1>1, <2>1 DEF PassesOK, Idle
  <2> QED BY <2>2 DEF Unchecked, Checked
<1> QED
  BY <1>5, <1>6, <1>7, <1>8, <1>9, <1>10 DEF Works

\* The owner goes on under its lock.
LEMMA Carries ==
  ASSUME LockInv, NEW w \in Workers,
         pass[w].pc \in Unchecked \cup Checked,
         pass'[w].pc # "begin",
         pass'[w].token = pass[w].token, pass'[w].item = pass[w].item,
         \/ pass'[w].pc \in Unchecked
         \/ pass[w].pc \in Checked
         \/ task.status # "cancelled",
         transfer'.owner = transfer.owner, task' = task, lock' = lock,
         uncovered' = uncovered,
         \/ item'[pass[w].item].status = "processing"
         \/ item' = item /\ pass[w].pc # "begin"
  PROVE  Covered(w)'
<1> SUFFICES ASSUME Owner(w)', ~uncovered' PROVE Covered(w)'
  BY DEF Covered
<1>1. pass[w].pc # "idle"
  BY DEF Unchecked, Checked
<1>2. Owner(w) /\ Covered(w)
  BY <1>1 DEF LockInv, Owner
<1>3. pass[w].pc \in Checked => pass[w].pc \notin Unchecked
  BY DEF Checked, Unchecked
<1> QED
  BY <1>2, <1>3 DEF Covered

LEMMA StopLeaves ==
  ASSUME CallInv, NEW w \in Workers, Stop(w) PROVE Covered(w)'
<1>1. pass'[w].pc = "idle"
  BY Typed, Resting DEF Stop
<1> QED
  BY <1>1 DEF Covered, Unchecked, Checked

LEMMA AcquireCovers ==
  ASSUME LockInv, NEW w \in Workers, AcquireItem(w) PROVE Covered(w)'
<1>1. PassesOK /\ LocksOK
  BY Typed DEF LockInv
<1>2. pass[w].item \in Items
  BY Typed DEF LockInv, AcquireItem, Placed, OnItem
<1>3. CASE /\ Goto(w, "begin")
           /\ lock' = [lock EXCEPT ![pass[w].item] = Generation(pass[w].token, "item")]
  <2>1. /\ pass'[w].pc = "begin" /\ pass'[w].item = pass[w].item
        /\ pass'[w].token = pass[w].token
    BY <1>1, <1>3 DEF Goto, PassesOK, Frames
  <2>2. lock'[pass[w].item] = Generation(pass[w].token, "item")
    BY <1>1, <1>2, <1>3 DEF LocksOK
  <2> QED BY <2>1, <2>2 DEF Covered
<1>4. CASE \/ NextItem(w) \/ Goto(w, "refuse") \/ Goto(w, "acknowledge")
           \/ Goto(w, "conflict") \/ pass' = [pass EXCEPT ![w] = Idle]
  <2>1. pass'[w].pc \in {"items", "refuse", "acknowledge", "conflict", "idle"}
    BY <1>1, <1>4, Turning, Gone, Resting
  <2> QED BY <2>1 DEF Covered, Unchecked, Checked
<1> QED
  BY <1>3, <1>4 DEF AcquireItem

LEMMA PublishStartCovers ==
  ASSUME LockInv, NEW w \in Workers, PublishStart(w) PROVE Covered(w)'
<1>1. CASE Held(w)
  <2>1. /\ pass[w].pc = "begin" /\ Goto(w, "open item")
        /\ item' = [item EXCEPT ![pass[w].item] =
             [@ EXCEPT !.status = "processing", !.started = TRUE]]
        /\ transfer' = transfer /\ task' = task /\ lock' = lock
        /\ uncovered' = uncovered
    BY <1>1 DEF PublishStart
  <2>2. PassesOK /\ item \in [Items -> ItemRows] /\ pass[w].item \in Items
    BY <2>1, Typed, Shapes DEF LockInv, Placed, OnItem
  <2>3. /\ pass'[w].pc = "open item" /\ pass'[w].item = pass[w].item
        /\ pass'[w].token = pass[w].token
    BY <2>1, <2>2 DEF Goto, PassesOK, Frames
  <2>4. item'[pass[w].item].status = "processing"
    BY <2>1, <2>2 DEF ItemRows
  <2> QED
    BY <2>1, <2>3, <2>4, Carries DEF Unchecked, Checked
<1>2. CASE ~Held(w)
  BY <1>2, StopLeaves DEF PublishStart, LockInv
<1> QED BY <1>1, <1>2

\* Recorded progress puts the item in processing again.
LEMMA ProgressCovers ==
  ASSUME LockInv, NEW w \in Workers, NEW outs, Progress(w, outs),
         pass[w].pc \in Unchecked \cup Checked, pass[w].item \in Items,
         pass'[w].token = pass[w].token, pass'[w].item = pass[w].item,
         pass'[w].pc \in {"entry", "complete"}, uncovered' = uncovered
  PROVE  Covered(w)'
<1>1. /\ transfer' = Boundary(Nowhere) /\ task' = task /\ lock' = lock
      /\ item' = [item EXCEPT ![pass[w].item] =
           [@ EXCEPT !.status = "processing",
                     !.progress = [known |-> TRUE, outs |-> outs,
                                   counted |-> \/ pass[w].skip # {}
                                               \/ "success" \in Said(outs)]]]
  BY DEF Progress
<1>2. transfer'.owner = transfer.owner
  BY <1>1, Typed DEF LockInv, RowsOK, TransferRows, Boundary
<1>3. item'[pass[w].item].status = "processing"
  BY <1>1, Shapes DEF LockInv, ItemRows
<1>4. CASE pass'[w].pc = "entry"
  BY <1>1, <1>2, <1>3, <1>4, Carries DEF Unchecked
<1>5. CASE pass'[w].pc = "complete"
  BY <1>5 DEF Covered, Unchecked, Checked
<1> QED BY <1>4, <1>5

LEMMA AfterStays ==
  ASSUME PassesOK, NEW w \in Workers, NEW out, After(w, out)
  PROVE  /\ pass'[w].token = pass[w].token /\ pass'[w].item = pass[w].item
         /\ pass'[w].pc \in {"entry", "complete"}
BY DEF After, PassesOK, Frames

LEMMA OpenItemCovers ==
  ASSUME LockInv, NEW w \in Workers, OpenItem(w) PROVE Covered(w)'
<1>1. PassesOK /\ pass[w].pc = "open item" /\ pass[w].item \in Items
  BY Typed DEF OpenItem, LockInv, Placed, OnItem
<1>2. CASE Stop(w)
  BY <1>2, StopLeaves DEF LockInv
<1>3. ASSUME NEW outs, Progress(w, outs), uncovered' = uncovered,
             \/ Goto(w, "entry")
             \/ \E out : pass' = [pass EXCEPT ![w].outs[1] = out, ![w].pc = "complete"]
      PROVE  Covered(w)'
  <2>1. /\ pass'[w].token = pass[w].token /\ pass'[w].item = pass[w].item
        /\ pass'[w].pc \in {"entry", "complete"}
    <3>1. pass[w] \in Frames /\ w \in DOMAIN pass
      BY <1>1 DEF PassesOK
    <3>2. CASE Goto(w, "entry")
      BY <3>1, <3>2 DEF Goto, Frames
    <3>3. ASSUME NEW out, pass' = [pass EXCEPT ![w].outs[1] = out, ![w].pc = "complete"]
          PROVE  /\ pass'[w].token = pass[w].token /\ pass'[w].item = pass[w].item
                 /\ pass'[w].pc \in {"entry", "complete"}
      BY <3>1, <3>3 DEF Frames
    <3> QED
      BY <1>3, <3>2, <3>3
  <2> QED
    BY <1>1, <1>3, <2>1, ProgressCovers DEF Unchecked
<1> QED
  BY <1>2, <1>3 DEF OpenItem

LEMMA EntryCheckedCovers ==
  ASSUME LockInv, NEW w \in Workers, EntryChecked(w) PROVE Covered(w)'
<1>1. /\ pass[w].pc = "entry" /\ task.status # "cancelled"
      /\ transfer' = [transfer EXCEPT !.live = TRUE]
      /\ task' = task /\ item' = item /\ lock' = lock /\ uncovered' = uncovered
      /\ \/ pass' = [pass EXCEPT ![w].entry = @ + 1]
         \/ \E c \in {"open", "adopt", "present"} : Goto(w, c)
  BY DEF EntryChecked, AtEntry
<1>2. PassesOK /\ transfer'.owner = transfer.owner
  BY <1>1, Typed DEF LockInv, RowsOK, TransferRows
<1>3. /\ pass'[w].token = pass[w].token /\ pass'[w].item = pass[w].item
      /\ pass'[w].pc # "begin"
  BY <1>1, <1>2 DEF Goto, PassesOK, Frames
<1> QED
  BY <1>1, <1>2, <1>3, Carries DEF Unchecked

LEMMA RecordsCover ==
  ASSUME LockInv, NEW w \in Workers, RecordPresent(w) \/ RecordOutcome(w)
  PROVE  Covered(w)'
<1>1. /\ pass[w].pc \in {"adopt", "present", "record"}
      /\ uncovered' = uncovered
      /\ \/ \E out, outs : Progress(w, outs) /\ After(w, out)
         \/ Stop(w)
  BY DEF RecordPresent, RecordOutcome
<1>2. PassesOK /\ pass[w].item \in Items
  BY <1>1, Typed DEF LockInv, Placed, OnItem, OnEntry
<1>3. CASE Stop(w)
  BY <1>3, StopLeaves DEF LockInv
<1>4. ASSUME NEW out, NEW outs, Progress(w, outs), After(w, out)
      PROVE  Covered(w)'
  <2>1. /\ pass'[w].token = pass[w].token /\ pass'[w].item = pass[w].item
        /\ pass'[w].pc \in {"entry", "complete"}
    BY <1>2, <1>4, AfterStays
  <2> QED
    BY <1>1, <1>2, <1>4, <2>1, ProgressCovers DEF Checked
<1> QED
  BY <1>1, <1>3, <1>4

LEMMA CallsCover ==
  ASSUME LockInv, NEW w \in Workers, EnterMutation(w) \/ Return(w)
  PROVE  Covered(w)'
<1>1. PassesOK /\ transfer \in TransferRows
  BY Typed DEF LockInv, RowsOK
<1>2. CASE Stop(w)
  BY <1>2, StopLeaves DEF LockInv
<1>3. CASE Goto(w, "erred")
  <2>1. pass'[w].pc = "erred"
    BY <1>1, <1>3, Gone
  <2> QED BY <2>1 DEF Covered, Unchecked, Checked
<1>4. CASE EnterMutation(w) /\ ~Stop(w)
  <2>1. /\ pass[w].pc = "open" /\ transfer' = Boundary(Here(w)) /\ Goto(w, "calling")
        /\ task' = task /\ item' = item /\ lock' = lock /\ uncovered' = uncovered
    BY <1>4 DEF EnterMutation
  <2>2. transfer'.owner = transfer.owner
    BY <1>1, <2>1 DEF Boundary, TransferRows
  <2>3. /\ pass'[w].pc = "calling" /\ pass'[w].item = pass[w].item
        /\ pass'[w].token = pass[w].token
    BY <1>1, <2>1 DEF Goto, PassesOK, Frames
  <2> QED BY <2>1, <2>2, <2>3, Carries DEF Checked
<1>5. CASE Return(w) /\ ~Goto(w, "erred")
  <2>1. PICK answer \in Outcomes :
          pass' = [pass EXCEPT ![w].pc = "record", ![w].answer = answer]
    BY <1>5 DEF Return
  <2>2. /\ pass[w].pc = "calling" /\ transfer' = transfer
        /\ task' = task /\ item' = item /\ lock' = lock /\ uncovered' = uncovered
    BY <1>5 DEF Return
  <2>3. /\ pass'[w].pc = "record" /\ pass'[w].item = pass[w].item
        /\ pass'[w].token = pass[w].token
    BY <1>1, <2>1 DEF PassesOK, Frames
  <2> QED BY <2>2, <2>3, Carries DEF Checked
<1> QED BY <1>2, <1>3, <1>4, <1>5

-----------------------------------------------------------------------------
(* Steps of no pass.                                                       *)

\* Nothing that the owner relies on changes.
LEMMA NothingKeeps ==
  ASSUME LockInv, NEW w \in Workers, pass' = pass, uncovered' = uncovered,
         transfer'.owner = transfer.owner, task'.status = task.status, item' = item,
         \A i \in Items : lock[i].by = "task" => lock'[i] = lock[i]
  PROVE  Covered(w)'
<1> SUFFICES ASSUME Owner(w)', pass[w].pc \in Unchecked \cup Checked
             PROVE  Covered(w)'
  BY DEF Covered
<1>1. Owner(w) /\ Covered(w)
  BY DEF LockInv, Owner
<1>2. pass[w].item \in Items
  BY Typed DEF LockInv, Placed, OnItem, OnEntry, Unchecked, Checked
<1>3. Generation(pass[w].token, "item").by = "task"
  BY DEF Generation
<1> QED
  BY <1>1, <1>2, <1>3 DEF Covered

\* A cancellation leaves the lock of an item in processing.
LEMMA CancelCovers ==
  ASSUME LockInv, NEW w \in Workers, CancelTask PROVE Covered(w)'
<1> SUFFICES ASSUME Owner(w)', pass[w].pc \in Checked, ~uncovered
             PROVE  Covered(w)'
  <2>1. pass' = pass /\ uncovered' = uncovered /\ task'.status = "cancelled"
    BY Shapes DEF CancelTask, Request, LockInv
  <2> QED BY <2>1 DEF Covered
<1>1. /\ pass' = pass /\ transfer' = transfer
      /\ task.status \in {"pending", "running"} /\ task'.status = "cancelled"
      /\ lock' = [i \in Items |->
           IF lock[i].by = "task" /\ item[i].status # "processing"
             THEN Free ELSE lock[i]]
  BY Shapes DEF CancelTask, Request, LockInv
<1>2. Owner(w) /\ Covered(w) /\ pass[w].item \in Items
  BY <1>1, Typed DEF LockInv, Owner, Placed, OnItem, OnEntry, Checked
<1>3. /\ lock[pass[w].item] = Generation(pass[w].token, "item")
      /\ item[pass[w].item].status = "processing"
  BY <1>1, <1>2 DEF Covered, Checked, Unchecked
<1>4. lock'[pass[w].item] = lock[pass[w].item]
  BY <1>1, <1>2, <1>3
<1> QED
  BY <1>1, <1>3, <1>4 DEF Covered

LEMMA NobodyCovers ==
  ASSUME LockInv, NEW w \in Workers,
         \/ LeaseLapses \/ RequestPause
         \/ \E v \in Workers : Heartbeat(v) \/ Lands(v)
         \/ \E i \in Items : RivalAcquires(i) \/ RivalReleases(i)
         \/ \E x \in Places : OthersWrite(x)
  PROVE  Covered(w)'
<1>1. /\ transfer \in TransferRows /\ LocksOK
      /\ task \in [status : TaskStatuses, paused : BOOLEAN]
  BY Typed, Shapes DEF LockInv, RowsOK
<1>2. /\ pass' = pass /\ uncovered' = uncovered /\ item' = item
      /\ transfer'.owner = transfer.owner /\ task'.status = task.status
  BY <1>1 DEF LeaseLapses, RequestPause, Request, Heartbeat, Lands,
     RivalAcquires, RivalReleases, OthersWrite, rowVars, TransferRows
<1>3. \A i \in Items : lock[i].by = "task" => lock'[i] = lock[i]
  <2>1. CASE lock' = lock
    BY <2>1
  <2>2. CASE \E i \in Items : RivalAcquires(i) \/ RivalReleases(i)
    BY <1>1, <2>2 DEF RivalAcquires, RivalReleases, Free, Rival, LocksOK
  <2> QED
    BY <2>1, <2>2 DEF LeaseLapses, RequestPause, Request, Heartbeat, Lands,
       OthersWrite, rowVars
<1> QED
  BY <1>2, <1>3, NothingKeeps

\* A paused transfer has no owner.
LEMMA ResumeCovers ==
  ASSUME LockInv, NEW w \in Workers, ResumeTransfer PROVE Covered(w)'
<1>1. /\ transfer.status = "paused" /\ pass' = pass
      /\ transfer'.owner = transfer.owner
  BY Typed DEF ResumeTransfer, Request, LockInv, RowsOK, TransferRows
<1>2. ~Owner(w)'
  BY <1>1 DEF LockInv, CallInv, Tokens, Owner
<1> QED
  BY <1>2 DEF Covered

\* A new owner is at its beginning.
LEMMA ClaimCovers ==
  ASSUME LockInv, NEW v \in Workers, NEW w \in Workers, Claim(v)
  PROVE  Covered(w)'
<1>1. /\ pass' = [pass EXCEPT ![v] = [Idle EXCEPT !.pc = "claimed",
                                        !.token = transfer.attempts + 1]]
      /\ transfer'.owner = transfer.attempts + 1
      /\ transfer.attempts \in Nat /\ PassesOK
  BY Typed DEF Claim, LockInv, RowsOK, TransferRows
<1>2. CASE v = w
  <2>1. pass'[w].pc = "claimed"
    BY <1>1, <1>2 DEF PassesOK, Idle
  <2> QED BY <2>1 DEF Covered, Unchecked, Checked
<1>3. CASE v # w
  <2>1. pass'[w] = pass[w]
    BY <1>1, <1>3 DEF PassesOK
  <2>2. ~Owner(w)'
    <3>1. CASE pass[w].pc = "idle"
      BY <2>1, <3>1 DEF Owner
    <3>2. CASE pass[w].pc # "idle"
      <4>1. pass[w].token \in 1 .. transfer.attempts
        BY <3>2 DEF LockInv, CallInv, Tokens
      <4>2. pass[w].token # transfer.attempts + 1
        BY <1>1, <4>1
      <4> QED BY <1>1, <2>1, <4>2 DEF Owner
    <3> QED BY <3>1, <3>2
  <2> QED BY <2>2 DEF Covered
<1> QED BY <1>2, <1>3

\* Every step but a claim is a step of an unfinished pass.
LEMMA NotIdle ==
  ASSUME NEW v \in Workers,
         \/ Works(v) /\ ~ClaimNext(v) /\ ~ClaimExpiredMutation(v)
         \/ ReleaseIncompatible(v) \/ StartFails(v) \/ Crash(v)
  PROVE  pass[v].pc # "idle"
<1>1. CASE \/ BeginTransfer(v) \/ CloseUnstarted(v) \/ ConvergeFailure(v)
           \/ FinishCancelled(v) \/ PauseTransfer(v) \/ ResolveInFlight(v)
           \/ FinishTransfer(v) \/ ReleaseIncompatible(v) \/ StartFails(v)
           \/ Crash(v) \/ Start(v) \/ ReadQueued(v) \/ PublishRunning(v)
           \/ ListItems(v) \/ StopCancelled(v) \/ TakeItem(v) \/ PassOver(v)
           \/ MarkInterrupted(v)
  BY <1>1 DEF BeginTransfer, CloseUnstarted, ConvergeFailure, FinishCancelled,
     PauseTransfer, ResolveInFlight, FinishTransfer, ReleaseIncompatible,
     StartFails, Crash, Start, ReadQueued, PublishRunning, ListItems,
     StopCancelled, TakeItem, PassOver, MarkInterrupted, Deciding
<1>2. CASE \/ AcquireItem(v) \/ LockConflict(v) \/ RefuseItem(v) \/ PublishStart(v)
           \/ OpenItem(v) \/ Interrupted(v) \/ EntryChecked(v) \/ RecordPresent(v)
           \/ EnterMutation(v) \/ Lands(v) \/ Return(v) \/ RecordOutcome(v)
           \/ CompleteItem(v) \/ ReadAggregate(v) \/ PublishAggregate(v)
           \/ AcknowledgeItems(v) \/ AcknowledgeTask(v)
  BY <1>2 DEF AcquireItem, LockConflict, RefuseItem, PublishStart, OpenItem,
     Interrupted, EntryChecked, AtEntry, RecordPresent, EnterMutation, Lands,
     Return, RecordOutcome, CompleteItem, ReadAggregate, PublishAggregate,
     AcknowledgeItems, AcknowledgeTask
<1> QED BY <1>1, <1>2 DEF Works

-----------------------------------------------------------------------------
(* The theorem.                                                            *)

LEMMA PassCovers ==
  ASSUME LockInv, NEW v \in Workers, NEW w \in Workers,
         \/ Works(v) /\ ~ClaimNext(v) /\ ~ClaimExpiredMutation(v) /\ ~Lands(v)
         \/ ReleaseIncompatible(v) \/ StartFails(v) \/ Crash(v)
  PROVE  Covered(w)'
<1>1. CASE v = w
  <2>1. CASE \/ AcquireItem(w) \/ PublishStart(w) \/ OpenItem(w)
             \/ EntryChecked(w) \/ RecordPresent(w) \/ EnterMutation(w)
             \/ Return(w) \/ RecordOutcome(w)
    BY <2>1, AcquireCovers, PublishStartCovers, OpenItemCovers,
       EntryCheckedCovers, RecordsCover, CallsCover
  <2> QED
    BY <1>1, <2>1, Elsewhere DEF LockInv, Covered
<1>2. CASE v # w /\ Late(v)
  <2>1. Aside(v)
    BY <1>2, LateEnds, LateStarts, LateItems, LateCalls, LatePauses
       DEF Works, LockInv
  <2> QED BY <1>2, <2>1, AsideKeeps
<1>3. CASE v # w /\ ~Late(v)
  <2>1. /\ transfer'.owner \in {transfer.owner, 0} /\ pass'[w] = pass[w]
    BY <1>3, OwnerStands DEF LockInv
  <2>2. pass[v].token = transfer.owner
    BY <1>3 DEF Late
  <2>3. Owner(v)
    BY <2>2, NotIdle DEF Owner
  <2> QED
    BY <1>3, <2>1, <2>3, OwnerAlone
<1> QED BY <1>1, <1>2, <1>3

LEMMA LockStep == LockInv /\ [Next]_vars => LockInv'
<1> SUFFICES ASSUME LockInv, [Next]_vars PROVE LockInv'
  OBVIOUS
<1>1. CallInv'
  BY NextKeeps DEF LockInv
<1>2. ASSUME NEW w \in Workers PROVE Covered(w)'
  <2>1. CASE UNCHANGED vars
    <3>1. /\ pass' = pass /\ uncovered' = uncovered /\ item' = item
          /\ transfer' = transfer /\ task' = task /\ lock' = lock
      BY <2>1 DEF vars
    <3> QED BY <3>1, NothingKeeps
  <2>2. CASE \E v \in Workers : ClaimNext(v) \/ ClaimExpiredMutation(v)
    BY <2>2, ClaimCovers DEF ClaimNext, ClaimExpiredMutation
  <2>3. CASE \E v \in Workers :
               \/ Works(v) /\ ~ClaimNext(v) /\ ~ClaimExpiredMutation(v) /\ ~Lands(v)
               \/ ReleaseIncompatible(v) \/ StartFails(v) \/ Crash(v)
    BY <2>3, PassCovers
  <2>4. CASE \/ LeaseLapses \/ RequestPause
             \/ \E v \in Workers : Heartbeat(v) \/ Lands(v)
             \/ \E i \in Items : RivalAcquires(i) \/ RivalReleases(i)
             \/ \E x \in Places : OthersWrite(x)
    BY <2>4, NobodyCovers
  <2>5. CASE CancelTask \/ ResumeTransfer
    BY <2>5, CancelCovers, ResumeCovers
  <2> QED
    BY <2>1, <2>2, <2>3, <2>4, <2>5 DEF Next
<1> QED
  BY <1>1, <1>2 DEF LockInv

\* While the owner of the claim is inside a provider call, its Task holds the
\* path, unless a Worker that had lost its claim acknowledged a pause.
THEOREM PathStaysLocked == Spec => []ExclusionUnlessLatePause
<1>1. Init => LockInv
  <2> SUFFICES ASSUME Init PROVE LockInv
    OBVIOUS
  <2>1. \A w \in Workers : pass[w].pc = "idle"
    BY IdleTyped DEF Init
  <2> QED
    BY <2>1, InitCalls DEF LockInv, Covered, Owner
<1>2. LockInv /\ [Next]_vars => LockInv'
  BY LockStep
<1>3. LockInv => ExclusionUnlessLatePause
  <2> SUFFICES ASSUME LockInv, NEW w \in Workers, pass[w].pc = "calling",
                      pass[w].token = transfer.owner, ~uncovered
               PROVE  lock[pass[w].item].by = "task"
    BY DEF ExclusionUnlessLatePause
  <2>1. Covered(w) /\ Owner(w)
    BY DEF LockInv, Owner
  <2> QED
    BY <2>1 DEF Covered, Checked, Unchecked, Generation
<1> QED
  BY <1>1, <1>2, <1>3, PTL DEF Spec

=============================================================================
