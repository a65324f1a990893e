------------------------------- MODULE AiWallet -------------------------------
(***************************************************************************)
(* The prepaid AI balance of one organization: AiWalletService over the    *)
(* tables ai_wallets, ai_wallet_transactions, ai_balance_reservations and  *)
(* ai_usage_events.                                                        *)
(*                                                                         *)
(* Each service method runs in one SERIALIZABLE transaction that locks the *)
(* wallet row first, so each is one atomic action here; an attempt that is *)
(* aborted writes nothing and is a stuttering step.  The callers of this   *)
(* module's Next are unrestricted: they use any key, in any order.  The    *)
(* order the gateway imposes is added by AiGateway.                        *)
(*                                                                         *)
(* Organizations share no wallet row, reservation or ledger row, hence one *)
(* organization is modelled.  Amounts are integers of minor units, without *)
(* a width: the columns are BIGINT and the code computes with bigint.      *)
(***************************************************************************)
EXTENDS Totals

CONSTANTS
  Key,          \* idempotency keys of AI requests
  Trace,        \* trace ids of AI requests
  Payment,      \* manual top-ups and events of the payment provider
  Amount,       \* positive amounts that requests hold and payments carry
  PromoCredit   \* the credit a new organization receives, 300000

ASSUME AmountAssumption == Amount \subseteq Nat \ {0}
ASSUME PromoAssumption  == PromoCredit \in Nat \ {0}

VARIABLES
  balance,      \* ai_wallets.balance_minor
  ledger,       \* ai_wallet_transactions: amount by idempotency key, 0 = no row
  reservation,  \* ai_balance_reservations by idempotency key
  usage         \* ai_usage_events

walletVars == <<balance, ledger, reservation, usage>>

-----------------------------------------------------------------------------
PromoKey == <<"foundation", "promo-credit">>

(* Idempotency keys of the ledger, unique within the organization.  *)
LedgerKey == {PromoKey} \cup ({"usage"} \X Key) \cup ({"topup", "billing"} \X Payment)

Charge == Amount \cup {0}

(* A reservation with its expiry as a flag that the clock raises; charge is *)
(* commercial_charge_minor of the usage event a settled reservation names.  *)
Reservation ==
  [status : {"NONE", "RESERVED", "PROCESSING", "SETTLED", "RELEASED"},
   amount : Charge, charge : Charge, expired : BOOLEAN]

NoReservation == [status |-> "NONE", amount |-> 0, charge |-> 0, expired |-> FALSE]

UsageEvent ==
  [key : Key, trace : Trace, charge : Charge,
   status : {"COMPLETED", "REJECTED", "FAILED_COST_UNVERIFIED"}]

Held == {k \in Key : reservation[k].status \in {"RESERVED", "PROCESSING"}}

(* Mutant: the aggregate forgets the expiry.  *)
ActiveHoldsForEver == Held

(* The holds an aggregate over unexpired reservations counts.  *)
ActiveHolds == {k \in Held : ~reservation[k].expired}

Amounts == [k \in Key |-> reservation[k].amount]

(* available_minor of the wallet.  *)
Available == balance - Total(Where(Amounts, ActiveHolds))

(* The unique indexes (organization, idempotency key) and (organization,    *)
(* trace id) of ai_usage_events.                                            *)
UsageFree(k, tr) == \A u \in usage : u.key # k /\ u.trace # tr

AddUsage(k, tr, status, c) ==
  usage' = usage \cup {[key |-> k, trace |-> tr, charge |-> c, status |-> status]}

(* Mutant: the ledger without its unique index.  *)
PostAgain(key, amount) ==
  /\ ledger' = [ledger EXCEPT ![key] = amount]
  /\ balance' = balance + amount

(* A ledger row and the balance it moves are always written together; the   *)
(* unique index of the ledger refuses a key that has a row.                 *)
Post(key, amount) ==
  /\ ledger[key] = 0
  /\ ledger' = [ledger EXCEPT ![key] = amount]
  /\ balance' = balance + amount

-----------------------------------------------------------------------------
Init ==
  /\ balance = PromoCredit
  /\ ledger = [x \in LedgerKey |-> IF x = PromoKey THEN PromoCredit ELSE 0]
  /\ reservation = [k \in Key |-> NoReservation]
  /\ usage = {}

(* Mutant: the new hold is compared with the balance, not the available.  *)
ReserveFromBalance(k, a) ==
  /\ reservation[k].status = "NONE"
  /\ a <= balance
  /\ reservation' = [reservation EXCEPT ![k] =
        [NoReservation EXCEPT !.status = "RESERVED", !.amount = a]]
  /\ UNCHANGED <<balance, ledger, usage>>

(* reserveAiBalance, when the key is new and the balance that no unexpired  *)
(* hold claims suffices.  A key that has a reservation, whatever its state, *)
(* returns that reservation, or a conflict when the amounts differ.         *)
Reserve(k, a) ==
  /\ reservation[k].status = "NONE"
  /\ a <= Available
  /\ reservation' = [reservation EXCEPT ![k] =
        [NoReservation EXCEPT !.status = "RESERVED", !.amount = a]]
  /\ UNCHANGED <<balance, ledger, usage>>

(* Mutant: the UPDATE also matches a reservation that is being executed.  *)
ClaimAgain(k) ==
  /\ reservation[k].status \in {"RESERVED", "PROCESSING"}
  /\ ~reservation[k].expired
  /\ reservation' = [reservation EXCEPT ![k].status = "PROCESSING"]
  /\ UNCHANGED <<balance, ledger, usage>>

(* claimReservationForExecution: one conditional UPDATE.  *)
Claim(k) ==
  /\ reservation[k].status = "RESERVED"
  /\ ~reservation[k].expired
  /\ reservation' = [reservation EXCEPT ![k].status = "PROCESSING"]
  /\ UNCHANGED <<balance, ledger, usage>>

(* The conditions under which settleAiUsage refuses, in its order; one that *)
(* is settled already answers with its usage event and writes nothing.      *)
SettleError(k, c, tr) ==
  CASE reservation[k].status = "SETTLED" -> "NONE"
    [] k \notin Held                -> "AI_RESERVATION_NOT_ACTIVE"
    [] c > reservation[k].amount    -> "AI_CHARGE_EXCEEDS_RESERVATION"
    [] c > balance                  -> "AI_BALANCE_EXHAUSTED"
    [] ~UsageFree(k, tr)            -> "P2002"
    [] OTHER                        -> "NONE"

(* Mutant: the debit takes the whole hold instead of the charge.  *)
SettleWholeHold(k, c, tr) ==
  LET held == reservation[k].amount IN
  /\ k \in Held
  /\ c <= held /\ held <= balance
  /\ UsageFree(k, tr)
  /\ AddUsage(k, tr, "COMPLETED", c)
  /\ Post(<<"usage", k>>, -held)
  /\ reservation' = [reservation EXCEPT ![k].status = "SETTLED", ![k].charge = held]

(* settleAiUsage: the usage event, the debit (none for a charge of 0) and   *)
(* the settled reservation.  An expired hold may still be settled.          *)
Settle(k, c, tr) ==
  /\ k \in Held
  /\ c <= reservation[k].amount
  /\ c <= balance
  /\ UsageFree(k, tr)
  /\ AddUsage(k, tr, "COMPLETED", c)
  /\ IF c > 0 THEN Post(<<"usage", k>>, -c) ELSE UNCHANGED <<balance, ledger>>
  /\ reservation' = [reservation EXCEPT ![k].status = "SETTLED", ![k].charge = c]

(* Mutant: the status is set to RELEASED without reading it first.  *)
ReleaseSettled(k) ==
  /\ reservation[k].status # "NONE"
  /\ reservation' = [reservation EXCEPT ![k].status = "RELEASED"]
  /\ UNCHANGED <<balance, ledger, usage>>

(* releaseAiReservation of a hold; a released one is returned unchanged.  *)
Release(k) ==
  /\ k \in Held
  /\ reservation' = [reservation EXCEPT ![k].status = "RELEASED"]
  /\ UNCHANGED <<balance, ledger, usage>>

(* applyTopup: a repeated key returns the first row.  *)
ApplyTopup(p, a) ==
  /\ Post(<<"topup", p>>, a)
  /\ UNCHANGED <<reservation, usage>>

(* The gateway's own usage events, for calls that settle nothing.  *)
RecordUsage(k, tr, status) ==
  /\ UsageFree(k, tr)
  /\ AddUsage(k, tr, status, 0)
  /\ UNCHANGED <<balance, ledger, reservation>>

(* The clock passes expires_at of a hold.  *)
Expire(k) ==
  /\ k \in ActiveHolds
  /\ reservation' = [reservation EXCEPT ![k].expired = TRUE]
  /\ UNCHANGED <<balance, ledger, usage>>

WalletNext ==
  \/ \E k \in Key, a \in Amount : Reserve(k, a)
  \/ \E k \in Key : Claim(k)
  \/ \E k \in Key, c \in Charge, tr \in Trace : Settle(k, c, tr)
  \/ \E k \in Key : Release(k)
  \/ \E p \in Payment, a \in Amount : ApplyTopup(p, a)
  \/ \E k \in Key, tr \in Trace, s \in {"REJECTED", "FAILED_COST_UNVERIFIED"} :
        RecordUsage(k, tr, s)
  \/ \E k \in Key : Expire(k)
=============================================================================
