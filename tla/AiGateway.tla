------------------------------ MODULE AiGateway ------------------------------
(***************************************************************************)
(* AiGateway.execute for operations billed to the customer wallet: each    *)
(* call reserves, claims, tries the candidate providers, settles, and on   *)
(* any error releases the hold and leaves an unverified-cost event.  Every *)
(* await is a point where other calls, webhooks and the clock may run, and *)
(* where the process may die.                                              *)
(*                                                                         *)
(* The guards that only read configuration (operation, billing class,      *)
(* permission, route, price) happen before the first write and are left    *)
(* out: a call here is one that passed them.  TraceOf and After say what   *)
(* the callers send: the trace that goes with a key, and the key whose     *)
(* answer they wait for first.                                             *)
(***************************************************************************)
EXTENDS Billing

CONSTANTS
  Call,         \* executions of the gateway; a retry is another call
  Candidates,   \* providers in the routing policy of the operation
  AllowFallback, \* allow_fallback of the operation
  TraceOf,      \* trace id sent with each idempotency key
  After         \* the key whose answer a caller needs before it sends this one

ASSUME CallAssumption ==
  /\ Candidates \in Nat \ {0} /\ AllowFallback \in BOOLEAN
  /\ TraceOf \in [Key -> Trace] /\ After \in [Key -> Key \cup {None}]

VARIABLE call   \* the local state of each execution

gatewayVars == <<vars, call>>

-----------------------------------------------------------------------------
CallState ==
  [pc : {"idle", "claim", "route", "provider", "settle", "reject", "release",
         "record", "delivered", "failed", "crashed"},
   key : Key \cup {None},
   candidate : 1..Candidates,       \* index in the routing policy
   ran : SUBSET (1..Candidates),    \* candidates invoked so far (history)
   charge : Charge,                 \* the price of the provider's answer
   error : {"NONE", "PROVIDER", "REJECTED", "DATABASE", "P2002", "AI_BALANCE_EXHAUSTED",
            "AI_RESERVATION_NOT_ACTIVE", "AI_CHARGE_EXCEEDS_RESERVATION"},
   lost : BOOLEAN]                  \* the last write of its evidence failed (history)

Goto(c, pc) == call' = [call EXCEPT ![c].pc = pc]
Fail(c, pc, error) == call' = [call EXCEPT ![c].pc = pc, ![c].error = error]

(* A caller of one request at a time, or of a sequence such as planning and *)
(* synthesis of a chat message.                                             *)
MaySend(k) ==
  After[k] # None => \E d \in Call : call[d].key = After[k] /\ call[d].pc = "delivered"

(* reserveAiBalance: a new hold, or the reservation the key already has     *)
(* with the same amount, in whatever state it is.                           *)
ReserveStep(c, k, a) ==
  /\ call[c].pc = "idle" /\ MaySend(k)
  /\ \/ Reserve(k, a)
     \/ /\ reservation[k].status # "NONE"
        /\ reservation[k].amount = a
        /\ UNCHANGED walletVars
  /\ call' = [call EXCEPT ![c].pc = "claim", ![c].key = k]
  /\ UNCHANGED billingVars

(* claimReservationForExecution: one caller gets the hold; any other state  *)
(* of the reservation ends the call with an error.                          *)
ClaimStep(c) ==
  /\ call[c].pc = "claim"
  /\ \/ Claim(call[c].key) /\ Goto(c, "route")
     \/ /\ ~(reservation[call[c].key].status = "RESERVED" /\ ~reservation[call[c].key].expired)
        /\ UNCHANGED walletVars
        /\ Goto(c, "failed")
  /\ UNCHANGED billingVars

(* The candidate has an adapter and is invoked.  *)
Invoke(c) ==
  /\ call[c].pc = "route"
  /\ call' = [call EXCEPT ![c].pc = "provider", ![c].ran = @ \cup {call[c].candidate}]
  /\ UNCHANGED vars

(* The candidate has no adapter: the loop continues even without fallback.  *)
SkipCandidate(c) ==
  /\ call[c].pc = "route"
  /\ IF call[c].candidate < Candidates
     THEN call' = [call EXCEPT ![c].candidate = @ + 1]
     ELSE Fail(c, "release", "PROVIDER")
  /\ UNCHANGED vars

(* Mutant: the fallback forgets to move to the next candidate.  *)
ProviderRetried(c) ==
  /\ call[c].pc = "provider"
  /\ IF AllowFallback THEN Goto(c, "route") ELSE Fail(c, "release", "PROVIDER")
  /\ UNCHANGED vars

(* The adapter throws, times out included.  *)
ProviderFails(c) ==
  /\ call[c].pc = "provider"
  /\ IF AllowFallback /\ call[c].candidate < Candidates
     THEN call' = [call EXCEPT ![c].pc = "route", ![c].candidate = @ + 1]
     ELSE Fail(c, "release", "PROVIDER")
  /\ UNCHANGED vars

(* The adapter answers and the charge is priced: within the maximum and the *)
(* margin it goes to settlement, otherwise the usage is rejected; an        *)
(* invalid cost, or a pricing table that cannot be read, ends the call.     *)
ProviderAnswers(c, charge) ==
  /\ call[c].pc = "provider"
  /\ \/ /\ charge <= reservation[call[c].key].amount
        /\ call' = [call EXCEPT ![c].pc = "settle", ![c].charge = charge]
     \/ Fail(c, "reject", "REJECTED")
     \/ Fail(c, "release", "PROVIDER")
  /\ UNCHANGED vars

(* settleAiUsage commits, and the answer returns to the caller; or the      *)
(* commit goes through but its acknowledgement is lost with the connection. *)
SettleStep(c) ==
  /\ call[c].pc = "settle"
  /\ Settle(call[c].key, call[c].charge, TraceOf[call[c].key])
  /\ Goto(c, "delivered") \/ Fail(c, "release", "DATABASE")
  /\ UNCHANGED billingVars

(* Mutant: the answer is returned although the settlement failed.  *)
SettleBestEffort(c) ==
  /\ call[c].pc = "settle"
  /\ Goto(c, "delivered")
  /\ UNCHANGED vars

(* settleAiUsage refuses, or loses all its serialization attempts.  *)
SettleFails(c) ==
  /\ call[c].pc = "settle"
  /\ LET error == SettleError(call[c].key, call[c].charge, TraceOf[call[c].key])
     IN  Fail(c, "release", IF error = "NONE" THEN "DATABASE" ELSE error)
  /\ UNCHANGED vars

(* A price outside margin, rate or maximum leaves a REJECTED event and goes *)
(* on with its error.  When the unique indexes or the database refuse the   *)
(* event, or its acknowledgement is lost, that error goes on instead.       *)
RejectStep(c) ==
  /\ call[c].pc = "reject"
  /\ \/ /\ RecordUsage(call[c].key, TraceOf[call[c].key], "REJECTED")
        /\ Goto(c, "release") \/ Fail(c, "release", "DATABASE")
     \/ UNCHANGED walletVars /\ Fail(c, "release", "DATABASE")
  /\ UNCHANGED billingVars

(* Mutant: an error of the release leaves the catch block.  *)
ReleaseOrGiveUp(c) ==
  /\ call[c].pc = "release"
  /\ \/ Release(call[c].key) /\ Goto(c, "record")
     \/ UNCHANGED walletVars /\ Goto(c, "failed")
  /\ UNCHANGED billingVars

(* Mutant: the status is set to RELEASED without reading it first.  *)
ReleaseUnread(c) ==
  /\ call[c].pc = "release"
  /\ reservation' = [reservation EXCEPT ![call[c].key].status = "RELEASED"]
  /\ Goto(c, "record")
  /\ UNCHANGED <<balance, ledger, usage, billingVars>>

(* The outer catch releases the hold; an error of the release is swallowed. *)
ReleaseStep(c) ==
  /\ call[c].pc = "release"
  /\ Release(call[c].key) \/ UNCHANGED walletVars
  /\ Goto(c, "record")
  /\ UNCHANGED billingVars

(* ... and records the unverified cost.  A refusal by the unique indexes is *)
(* swallowed too, and so is a failure of the database, which loses the      *)
(* event.                                                                   *)
RecordStep(c) ==
  /\ call[c].pc = "record"
  /\ LET k == call[c].key IN
     \/ RecordUsage(k, TraceOf[k], "FAILED_COST_UNVERIFIED") /\ Goto(c, "failed")
     \/ ~UsageFree(k, TraceOf[k]) /\ UNCHANGED walletVars /\ Goto(c, "failed")
     \/ /\ UsageFree(k, TraceOf[k]) /\ UNCHANGED walletVars
        /\ call' = [call EXCEPT ![c].pc = "failed", ![c].lost = TRUE]
  /\ UNCHANGED billingVars

Running == {c \in Call : call[c].pc \notin {"idle", "delivered", "failed", "crashed"}}

(* The process that runs the call dies.  *)
Crash(c) ==
  /\ c \in Running
  /\ Goto(c, "crashed")
  /\ UNCHANGED vars

ExpireStep(k) == Expire(k) /\ UNCHANGED <<billingVars, call>>

Webhook == WebhookNext /\ UNCHANGED call

-----------------------------------------------------------------------------
GatewayInit ==
  /\ BillingInit
  /\ call = [c \in Call |->
       [pc |-> "idle", key |-> None, candidate |-> 1,
        ran |-> {}, charge |-> 0, error |-> "NONE", lost |-> FALSE]]

CallStep(c) ==
  \/ ClaimStep(c)
  \/ Invoke(c) \/ SkipCandidate(c)
  \/ ProviderFails(c) \/ \E charge \in Charge : ProviderAnswers(c, charge)
  \/ SettleStep(c) \/ SettleFails(c)
  \/ RejectStep(c) \/ ReleaseStep(c) \/ RecordStep(c)

GatewayNext ==
  \/ \E c \in Call, k \in Key, a \in Amount : ReserveStep(c, k, a)
  \/ \E c \in Call : CallStep(c)
  \/ \E c \in Call : Crash(c)
  \/ \E k \in Key : ExpireStep(k)
  \/ Webhook

(* A live process takes the next step of a call (the adapter bounds every   *)
(* provider call by a timeout), and the clock reaches every expires_at.     *)
GatewayFairness ==
  /\ \A c \in Call : WF_gatewayVars(CallStep(c))
  /\ \A k \in Key : WF_gatewayVars(ExpireStep(k))

GatewaySpec == GatewayInit /\ [][GatewayNext]_gatewayVars /\ GatewayFairness

-----------------------------------------------------------------------------
(* An idempotency key never has a provider executed by two calls, whatever  *)
(* retries, crashes and expiries lie between them.                          *)
ExecutedOnce ==
  \A c, d \in Call :
    c # d /\ call[c].key = call[d].key => call[c].ran = {} \/ call[d].ran = {}

(* An answer returned to the caller has been paid for: its charge is the    *)
(* debit of its key and the charge of its usage event.  And nothing is      *)
(* debited for a key unless a provider answered a call with that key, at    *)
(* the price of that answer: a lost acknowledgement cannot tell otherwise.  *)
DeliveredIsPaid ==
  /\ \A c \in Call : call[c].pc = "delivered" =>
       /\ ledger[<<"usage", call[c].key>>] = - call[c].charge
       /\ \E u \in usage : /\ u.key = call[c].key /\ u.status = "COMPLETED"
                           /\ u.charge = call[c].charge
  /\ \A k \in Key : reservation[k].status = "SETTLED" =>
       \E c \in Call : /\ call[c].key = k /\ call[c].ran # {}
                       /\ call[c].charge = reservation[k].charge
                       /\ call[c].error \in {"NONE", "DATABASE"}

(* When no charge was settled late and no payment taken back, a call that   *)
(* comes to settle before its hold expires finds the funds it reserved,     *)
(* whatever the other calls did meanwhile.                                  *)
UnexpiredHoldPays ==
  \A c \in Call :
    /\ call[c].pc = "settle" /\ call[c].key \in ActiveHolds
    /\ Total(LateCharges) = 0 /\ Reversal = {}
    => call[c].charge <= balance

(* The calls that invoked a provider and ended, with an answer or an error. *)
Ended == {c \in Call : call[c].pc \in {"delivered", "failed"} /\ call[c].ran # {}}

(* Every external call leaves evidence of its cost or state, as the billing *)
(* policy promises, when no write of it fails: a call that invoked a        *)
(* provider and ended left a usage event of its key, and is not refused it  *)
(* on account of another call's.                                            *)
EvidenceUnlessLost ==
  \A c \in Ended : ~call[c].lost => \E u \in usage : u.key = call[c].key

(* What the code keeps of that promise.  An answer returned to the caller   *)
(* has its usage event; and an external call that failed, on whatever path, *)
(* has an event of its key, or of the trace it shares with another key,     *)
(* unless the database failed in the very last write of the call.           *)
EvidenceKept ==
  \A c \in Ended :
    \/ \E u \in usage : u.key = call[c].key
    \/ /\ call[c].pc = "failed"
       /\ call[c].lost \/ \E u \in usage : u.trace = TraceOf[call[c].key]

(* A call that starts ends, unless its process dies.  *)
CallsEnd ==
  \A c \in Call : call[c].pc = "claim" ~> call[c].pc \in {"delivered", "failed", "crashed"}

(* No hold keeps funds from other requests for ever: not one whose process  *)
(* died, nor one whose release failed.                                      *)
HoldsDrain == \A k \in Key : k \in Held ~> k \notin ActiveHolds

(* The gateway uses the wallet as one of the callers Billing admits.  *)
UsesWallet == BillingSpec
=============================================================================
