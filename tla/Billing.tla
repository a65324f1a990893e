------------------------------- MODULE Billing -------------------------------
(***************************************************************************)
(* BillingService: the verified webhooks of the payment provider, applied  *)
(* to the AI wallet, the storage entitlement and the subscription of one   *)
(* organization, next to every caller of AiWallet.                         *)
(*                                                                         *)
(* A webhook is one SERIALIZABLE transaction: the billing event and its    *)
(* effect commit together or not at all, so the status PROCESSING of an    *)
(* event is never seen.  A repeated event id returns the first outcome, or *)
(* a conflict when type or digest differ; both write nothing.              *)
(***************************************************************************)
EXTENDS AiWallet

CONSTANTS
  Period,       \* billing periods a subscription payment may cover, in order
  Quantity,     \* quantities of the storage add-on
  AddonPrice,   \* monthly_price_minor of the add-on version in force
  AddonBytes,   \* capacity_bytes of that version
  PlanPrice,    \* monthly_price_minor of the plan version
  None          \* no value: NULL

ASSUME CatalogAssumption ==
  /\ Quantity \subseteq Nat \ {0} /\ Period \subseteq Nat \ {0}
  /\ AddonPrice \in Nat /\ AddonBytes \in Nat \ {0} /\ PlanPrice \in Nat

VARIABLES
  billingEvent, \* billing_events by provider_event_id: the payload applied
  addon,        \* tenant_storage_addons by event: quantity, 0 = no row
  addonBytes,   \* tenant_entitlements.addon_storage_bytes
  cycle,        \* billing_cycles: the paid periods
  currentPeriod \* current_period_start/end of the subscription, 0 = not set

billingVars == <<billingEvent, addon, addonBytes, cycle, currentPeriod>>
vars == <<walletVars, billingVars>>

-----------------------------------------------------------------------------
(* What a webhook carries; its digest stands for the whole of it.  *)
TopupPayload    == [type : {"AI_TOPUP_PAID"}, amount : Amount]
AddonPayload    == [type : {"STORAGE_ADDON_PAID"}, amount : Amount, quantity : Quantity]
CyclePayload    == [type : {"SUBSCRIPTION_PAID"}, amount : Amount, period : Period]
ReversalPayload == [type : {"PAYMENT_REFUNDED", "PAYMENT_CHARGEBACK"},
                    amount : Amount, original : Payment]
Payload == TopupPayload \cup AddonPayload \cup CyclePayload \cup ReversalPayload

ASSUME NoneAssumption == None \notin Payload

BillingKey(e) == <<"billing", e>>

IsType(e, types) == billingEvent[e] # None /\ billingEvent[e].type \in types
Reversal == {e \in Payment : IsType(e, {"PAYMENT_REFUNDED", "PAYMENT_CHARGEBACK"})}
Topup    == {e \in Payment : IsType(e, {"AI_TOPUP_PAID"})}

(* receiveVerifiedWebhook for an event id not seen before.  *)
Apply(e, d) ==
  /\ billingEvent[e] = None
  /\ billingEvent' = [billingEvent EXCEPT ![e] = d]

(* creditTopup  *)
CreditTopup(e, d) ==
  /\ Apply(e, d)
  /\ Post(BillingKey(e), d.amount)
  /\ UNCHANGED <<reservation, usage, addon, addonBytes, cycle, currentPeriod>>

(* Mutant: the capacity of the last add-on replaces the others'.  *)
ActivateLastAddon(e, d) ==
  /\ Apply(e, d)
  /\ d.amount = AddonPrice * d.quantity
  /\ addon' = [addon EXCEPT ![e] = d.quantity]
  /\ addonBytes' = AddonBytes * d.quantity
  /\ UNCHANGED <<walletVars, cycle, currentPeriod>>

(* activatePaidAddon: the amount must be the price in force.  *)
ActivatePaidAddon(e, d) ==
  /\ Apply(e, d)
  /\ d.amount = AddonPrice * d.quantity
  /\ addon' = [addon EXCEPT ![e] = d.quantity]
  /\ addonBytes' = addonBytes + AddonBytes * d.quantity
  /\ UNCHANGED <<walletVars, cycle, currentPeriod>>

(* recordPaidCycle: one cycle per period (unique index).  The subscription  *)
(* takes the period of the event applied last, whichever period that is.    *)
RecordPaidCycle(e, d) ==
  /\ Apply(e, d)
  /\ d.amount = PlanPrice
  /\ d.period \notin cycle
  /\ cycle' = cycle \cup {d.period}
  /\ currentPeriod' = d.period
  /\ UNCHANGED <<walletVars, addon, addonBytes>>

(* Mutant: the balance is not compared with the amount taken back.  *)
ReverseUncovered(e, d) ==
  /\ Apply(e, d)
  /\ d.original \in Topup
  /\ ledger[BillingKey(d.original)] = d.amount
  /\ Post(BillingKey(e), -d.amount)
  /\ UNCHANGED <<reservation, usage, addon, addonBytes, cycle, currentPeriod>>

(* Mutant: the amount is not compared with the top-up's.  *)
ReverseAnyAmount(e, d) ==
  /\ Apply(e, d)
  /\ d.original \in Topup
  /\ d.amount <= balance
  /\ Post(BillingKey(e), -d.amount)
  /\ UNCHANGED <<reservation, usage, addon, addonBytes, cycle, currentPeriod>>

(* reverseWalletPayment: the original is an applied top-up of the same      *)
(* amount, and the balance, holds included, covers it.                      *)
ReverseWalletPayment(e, d) ==
  /\ Apply(e, d)
  /\ d.original \in Topup
  /\ ledger[BillingKey(d.original)] = d.amount
  /\ d.amount <= balance
  /\ Post(BillingKey(e), -d.amount)
  /\ UNCHANGED <<reservation, usage, addon, addonBytes, cycle, currentPeriod>>

WebhookNext ==
  \E e \in Payment :
    \/ \E d \in TopupPayload : CreditTopup(e, d)
    \/ \E d \in AddonPayload : ActivatePaidAddon(e, d)
    \/ \E d \in CyclePayload : RecordPaidCycle(e, d)
    \/ \E d \in ReversalPayload : ReverseWalletPayment(e, d)

BillingInit ==
  /\ Init
  /\ billingEvent = [e \in Payment |-> None]
  /\ addon = [e \in Payment |-> 0]
  /\ addonBytes = 0
  /\ cycle = {}
  /\ currentPeriod = 0

BillingNext == WebhookNext \/ (WalletNext /\ UNCHANGED billingVars)

BillingSpec == BillingInit /\ [][BillingNext]_vars

-----------------------------------------------------------------------------
(* Every column holds a value of its domain; the balance and the charges    *)
(* are never negative (the CHECK constraints of the two tables).            *)
TypeOK ==
  /\ balance \in Nat
  /\ ledger \in [LedgerKey -> Int]
  /\ reservation \in [Key -> Reservation]
  /\ usage \subseteq UsageEvent
  /\ billingEvent \in [Payment -> Payload \cup {None}]
  /\ addon \in [Payment -> Quantity \cup {0}]
  /\ addonBytes \in Nat
  /\ cycle \subseteq Period
  /\ currentPeriod \in Period \cup {0}

Credits == [x \in LedgerKey |-> IF ledger[x] > 0 THEN ledger[x] ELSE 0]
Debits  == [x \in LedgerKey |-> IF ledger[x] < 0 THEN -ledger[x] ELSE 0]

(* The balance column, which every writer moves by increments, is the sum   *)
(* of the ledger rows: no movement without a row and no row twice.          *)
LedgerBalanced == balance + Total(Debits) = Total(Credits)

(* A reservation has a debit exactly when it was settled, for the charge of *)
(* its one usage event and never above the amount it held; a reservation    *)
(* released, expired or still open has moved nothing.                       *)
DebitMatches(k) ==
  /\ ledger[<<"usage", k>>] = - reservation[k].charge
  /\ reservation[k].charge <= reservation[k].amount
  /\ reservation[k].status = "SETTLED" =>
       \E u \in usage : /\ u.key = k /\ u.status = "COMPLETED"
                        /\ u.charge = reservation[k].charge
  /\ reservation[k].status # "SETTLED" =>
       /\ reservation[k].charge = 0
       /\ \A u \in usage : u.key = k => u.status # "COMPLETED"

DebitMatchesReservation == \A k \in Key : DebitMatches(k)

(* Charges settled after their hold had expired, and payments taken back.   *)
LateCharges == [k \in Key |-> IF reservation[k].expired THEN reservation[k].charge ELSE 0]
TakenBack   == Where([e \in Payment |-> -ledger[BillingKey(e)]], Reversal)

(* The holds that count are covered by the balance, up to what was settled  *)
(* on expired holds and what payment reversals took: these two, and nothing *)
(* else, can leave a request without the funds it reserved.                 *)
HoldsCovered ==
  Total(Where(Amounts, ActiveHolds)) <= balance + Total(LateCharges) + Total(TakenBack)

(* A wallet row exists for a webhook exactly when the event was applied,    *)
(* with the sign of its type; a reversal takes back what its top-up gave.   *)
PaymentPosted(e) ==
  LET row == ledger[BillingKey(e)] IN
  /\ e \in Topup => row = billingEvent[e].amount
  /\ e \in Reversal => /\ row = - billingEvent[e].amount
                       /\ billingEvent[e].original \in Topup
                       /\ row = - ledger[BillingKey(billingEvent[e].original)]
  /\ e \notin Topup \cup Reversal => row = 0

PaymentsPosted == \A e \in Payment : PaymentPosted(e)

(* The entitlement grows by exactly the capacity of the add-ons paid for.   *)
EntitlementMatchesAddons == addonBytes = AddonBytes * Total(addon)

(* The wallet seen as an account: a key is closed when its reservation was  *)
(* released or settled for nothing.                                         *)
ClosedKeys ==
  {<<"usage", k>> : k \in {j \in Key : \/ reservation[j].status = "RELEASED"
                                       \/ /\ reservation[j].status = "SETTLED"
                                          /\ reservation[j].charge = 0}}

Account == INSTANCE PrepaidAccount WITH
  PostingKey <- LedgerKey, Movement <- Amount \cup {-a : a \in Amount},
  OpeningKey <- PromoKey, Opening <- PromoCredit,
  funds <- balance, posted <- ledger, closed <- ClosedKeys

(* The wallet implements the account: a key moves the funds at most once    *)
(* and never after its reservation was released.                            *)
AccountSpec == Account!AccountSpec
=============================================================================
