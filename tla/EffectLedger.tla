---------------------------- MODULE EffectLedger ----------------------------
(* What a Files transfer, and an organizing Task, promises about the       *)
(* Storage operations it enters, whichever Worker enters them: one at a    *)
(* time, never again once the effect is known or in doubt, and none after  *)
(* the work has closed (a transfer does; a Task may always be continued).  *)
(* The prose of this promise is the contract of begin_ and                 *)
(* claim_expired_files_transfer_mutation, and of begin_scheduled_mutation. *)

CONSTANT Operations

VARIABLES phase, effect

ledgerVars == <<phase, effect>>

Settled == {"none", "known", "unknown"}

LedgerInit ==
  /\ phase = "open"
  /\ effect = [x \in Operations |-> "none"]

\* The operation is about to be handed to the provider.
Enter(x) ==
  /\ phase = "open"
  /\ effect[x] = "none"
  /\ \A y \in Operations : effect[y] # "entered"
  /\ effect' = [effect EXCEPT ![x] = "entered"]
  /\ UNCHANGED phase

\* Its effect is recorded: it did nothing, it landed, or nobody can tell.
Settle(x) ==
  /\ effect[x] = "entered"
  /\ \E v \in Settled : effect' = [effect EXCEPT ![x] = v]
  /\ UNCHANGED phase

\* The work ends, and with it whatever was still entered.
Close ==
  /\ phase' = "closed"
  /\ \E v \in Settled :
       effect' = [x \in Operations |->
                    IF effect[x] = "entered" THEN v ELSE effect[x]]

LedgerNext == Close \/ \E x \in Operations : Enter(x) \/ Settle(x)

LedgerSpec == LedgerInit /\ [][LedgerNext]_ledgerVars

=============================================================================
