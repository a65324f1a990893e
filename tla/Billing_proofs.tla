---------------------------- MODULE Billing_proofs ----------------------------
(***************************************************************************)
(* Proofs about the wallet, the webhooks of Billing and the calls of       *)
(* AiGateway, for every set of keys, payments, calls, amounts and periods. *)
(***************************************************************************)
EXTENDS AiGateway, Totals_proofs

(* The actions of BillingNext, for the case splits below.  *)
LEMMA BillingCases ==
  ASSUME BillingNext
  PROVE  \/ \E k \in Key, a \in Amount : Reserve(k, a) /\ UNCHANGED billingVars
         \/ \E k \in Key : Claim(k) /\ UNCHANGED billingVars
         \/ \E k \in Key, c \in Charge, tr \in Trace : Settle(k, c, tr) /\ UNCHANGED billingVars
         \/ \E k \in Key : Release(k) /\ UNCHANGED billingVars
         \/ \E p \in Payment, a \in Amount : ApplyTopup(p, a) /\ UNCHANGED billingVars
         \/ \E k \in Key, tr \in Trace, s \in {"REJECTED", "FAILED_COST_UNVERIFIED"} :
               RecordUsage(k, tr, s) /\ UNCHANGED billingVars
         \/ \E k \in Key : Expire(k) /\ UNCHANGED billingVars
         \/ \E e \in Payment : \E d \in TopupPayload : CreditTopup(e, d)
         \/ \E e \in Payment : \E d \in AddonPayload : ActivatePaidAddon(e, d)
         \/ \E e \in Payment : \E d \in CyclePayload : RecordPaidCycle(e, d)
         \/ \E e \in Payment : \E d \in ReversalPayload : ReverseWalletPayment(e, d)
BY DEF BillingNext, WalletNext, WebhookNext

-----------------------------------------------------------------------------
(* Typing.  *)

LEMMA TypeInit == BillingInit => TypeOK
<1> SUFFICES ASSUME BillingInit PROVE TypeOK
  OBVIOUS
<1> USE DEF BillingInit, Init
<1>1. balance \in Nat /\ ledger \in [LedgerKey -> Int]
  BY PromoAssumption
<1>2. reservation \in [Key -> Reservation] /\ usage \subseteq UsageEvent
  BY DEF NoReservation, Reservation, Charge
<1>3. QED
  BY <1>1, <1>2 DEF TypeOK

LEMMA TypeStep == TypeOK /\ [BillingNext]_vars => TypeOK'
<1> SUFFICES ASSUME TypeOK, [BillingNext]_vars PROVE TypeOK'
  OBVIOUS
<1> USE AmountAssumption, CatalogAssumption
<1>1. ASSUME NEW k \in Key, NEW a \in Amount, Reserve(k, a), UNCHANGED billingVars
      PROVE  TypeOK'
  BY <1>1 DEF TypeOK, Reserve, NoReservation, Reservation, Charge, billingVars
<1>2. ASSUME NEW k \in Key, Claim(k), UNCHANGED billingVars
      PROVE  TypeOK'
  BY <1>2 DEF TypeOK, Claim, Reservation, billingVars
<1>3. ASSUME NEW k \in Key, NEW c \in Charge, NEW tr \in Trace, Settle(k, c, tr),
             UNCHANGED billingVars
      PROVE  TypeOK'
  <2>1. reservation' \in [Key -> Reservation]
    BY <1>3, ZenonT(60) DEF TypeOK, Settle, Reservation
  <2>2. usage' \subseteq UsageEvent
    BY <1>3 DEF TypeOK, Settle, AddUsage, UsageEvent
  <2>3. balance' \in Nat /\ ledger' \in [LedgerKey -> Int]
    BY <1>3 DEF TypeOK, Settle, Post, Charge, LedgerKey
  <2> QED
    BY <1>3, <2>1, <2>2, <2>3 DEF TypeOK, billingVars
<1>4. ASSUME NEW k \in Key, Release(k), UNCHANGED billingVars
      PROVE  TypeOK'
  BY <1>4 DEF TypeOK, Release, Reservation, billingVars
<1>5. ASSUME NEW p \in Payment, NEW a \in Amount, ApplyTopup(p, a), UNCHANGED billingVars
      PROVE  TypeOK'
  BY <1>5 DEF TypeOK, ApplyTopup, Post, LedgerKey, billingVars
<1>6. ASSUME NEW k \in Key, NEW tr \in Trace, NEW s \in {"REJECTED", "FAILED_COST_UNVERIFIED"},
             RecordUsage(k, tr, s), UNCHANGED billingVars
      PROVE  TypeOK'
  BY <1>6 DEF TypeOK, RecordUsage, AddUsage, UsageEvent, Charge, billingVars
<1>7. ASSUME NEW k \in Key, Expire(k), UNCHANGED billingVars
      PROVE  TypeOK'
  BY <1>7 DEF TypeOK, Expire, Reservation, billingVars
<1>8. ASSUME NEW e \in Payment, NEW d \in TopupPayload, CreditTopup(e, d)
      PROVE  TypeOK'
  <2>1. d.amount \in Nat /\ d \in Payload
    BY DEF TopupPayload, Payload
  <2>2. BillingKey(e) \in LedgerKey
    BY DEF BillingKey, LedgerKey
  <2> QED
    BY <1>8, <2>1, <2>2 DEF TypeOK, CreditTopup, Apply, Post
<1>9. ASSUME NEW e \in Payment, NEW d \in AddonPayload, ActivatePaidAddon(e, d)
      PROVE  TypeOK'
  <2>1. d.quantity \in Quantity /\ d \in Payload
    BY DEF AddonPayload, Payload
  <2>2. AddonBytes * d.quantity \in Nat
    BY <2>1, ProductType
  <2>3. addonBytes' \in Nat
    BY <1>9, <2>2 DEF TypeOK, ActivatePaidAddon
  <2>4. /\ billingEvent' \in [Payment -> Payload \cup {None}]
        /\ addon' \in [Payment -> Quantity \cup {0}]
    BY <1>9, <2>1 DEF TypeOK, ActivatePaidAddon, Apply
  <2> QED
    BY <1>9, <2>3, <2>4 DEF TypeOK, ActivatePaidAddon, walletVars
<1>10. ASSUME NEW e \in Payment, NEW d \in CyclePayload, RecordPaidCycle(e, d)
       PROVE  TypeOK'
  BY <1>10 DEF TypeOK, RecordPaidCycle, Apply, CyclePayload, Payload, walletVars
<1>11. ASSUME NEW e \in Payment, NEW d \in ReversalPayload, ReverseWalletPayment(e, d)
       PROVE  TypeOK'
  <2>1. d.amount \in Nat /\ d \in Payload
    BY DEF ReversalPayload, Payload
  <2>2. BillingKey(e) \in LedgerKey
    BY DEF BillingKey, LedgerKey
  <2> QED
    BY <1>11, <2>1, <2>2 DEF TypeOK, ReverseWalletPayment, Apply, Post
<1>12. CASE UNCHANGED vars
  BY <1>12 DEF TypeOK, vars, walletVars, billingVars
<1> QED
  BY <1>1, <1>2, <1>3, <1>4, <1>5, <1>6, <1>7, <1>8, <1>9, <1>10, <1>11, <1>12, BillingCases

(* Every reachable state of the wallet and the webhooks is well typed; in   *)
(* particular the balance is never negative.                                *)
THEOREM TypeCorrect == BillingSpec => []TypeOK
BY TypeInit, TypeStep, PTL DEF BillingSpec

-----------------------------------------------------------------------------
(* The debit of a reservation.  *)

LEMMA DebitInit == BillingInit => DebitMatchesReservation
BY PromoAssumption DEF BillingInit, Init, DebitMatchesReservation, DebitMatches, NoReservation, PromoKey, LedgerKey

(* Ledger keys of requests and of payments are never the same.  *)
LEMMA KeysApart ==
  /\ \A k \in Key : <<"usage", k>> \in LedgerKey /\ <<"usage", k>> # PromoKey
  /\ \A p \in Payment : BillingKey(p) \in LedgerKey /\ BillingKey(p) # PromoKey
  /\ \A p \in Payment : <<"topup", p>> \in LedgerKey
  /\ \A k \in Key, p \in Payment : /\ <<"usage", k>> # BillingKey(p)
                                   /\ <<"usage", k>> # <<"topup", p>>
  /\ \A p, q \in Payment : /\ BillingKey(p) # <<"topup", q>>
                           /\ BillingKey(p) = BillingKey(q) => p = q
  /\ \A j, k \in Key : <<"usage", j>> = <<"usage", k>> => j = k
BY DEF LedgerKey, BillingKey, PromoKey

LEMMA DebitStep ==
  TypeOK /\ DebitMatchesReservation /\ [BillingNext]_vars => DebitMatchesReservation'
<1> SUFFICES ASSUME TypeOK, DebitMatchesReservation, [BillingNext]_vars
             PROVE  DebitMatchesReservation'
  OBVIOUS
<1>0. ASSUME usage \subseteq usage', \A u \in usage' : u \in usage \/ u.status # "COMPLETED",
             \A k \in Key : /\ ledger'[<<"usage", k>>] = ledger[<<"usage", k>>]
                            /\ reservation'[k].charge = reservation[k].charge
                            /\ reservation[k].charge <= reservation'[k].amount
                            /\ (reservation'[k].status = "SETTLED" <=> reservation[k].status = "SETTLED")
      PROVE  DebitMatchesReservation'
  <2> SUFFICES ASSUME NEW k \in Key PROVE DebitMatches(k)'
    BY DEF DebitMatchesReservation
  <2> QED
    BY <1>0 DEF DebitMatchesReservation, DebitMatches
<1>a. \A j \in Key : reservation[j].charge <= reservation[j].amount
  BY DEF DebitMatchesReservation, DebitMatches
<1>b. \A j \in Key : reservation[j].status # "SETTLED" => reservation[j].charge = 0
  BY DEF DebitMatchesReservation, DebitMatches
<1>1. ASSUME NEW k \in Key, NEW a \in Amount, Reserve(k, a), UNCHANGED billingVars
      PROVE  DebitMatchesReservation'
  <2>1. /\ reservation[k].charge = 0 /\ reservation'[k].charge = 0
        /\ reservation'[k].amount = a /\ 0 <= a
        /\ reservation[k].status # "SETTLED" /\ reservation'[k].status # "SETTLED"
        /\ \A j \in Key \ {k} : reservation'[j] = reservation[j]
    <3>1. reservation[k].status = "NONE"
      BY <1>1 DEF Reserve
    <3>2. reservation[k].charge = 0
      BY <3>1, <1>b
    <3> QED
      BY <1>1, <3>1, <3>2, AmountAssumption DEF Reserve, NoReservation, TypeOK
  <2>2. \A j \in Key : /\ ledger'[<<"usage", j>>] = ledger[<<"usage", j>>]
                       /\ reservation'[j].charge = reservation[j].charge
                       /\ reservation[j].charge <= reservation'[j].amount
                       /\ (reservation'[j].status = "SETTLED" <=> reservation[j].status = "SETTLED")
    BY <1>1, <2>1, <1>a DEF Reserve
  <2> QED
    BY <1>0, <1>1, <2>2 DEF Reserve
<1>2. ASSUME NEW k \in Key, Claim(k), UNCHANGED billingVars
      PROVE  DebitMatchesReservation'
  <2>1. /\ reservation'[k].charge = reservation[k].charge
        /\ reservation'[k].amount = reservation[k].amount
        /\ reservation[k].status # "SETTLED" /\ reservation'[k].status # "SETTLED"
        /\ \A j \in Key \ {k} : reservation'[j] = reservation[j]
    BY <1>2 DEF Claim, TypeOK, Reservation
  <2>2. \A j \in Key : /\ ledger'[<<"usage", j>>] = ledger[<<"usage", j>>]
                       /\ reservation'[j].charge = reservation[j].charge
                       /\ reservation[j].charge <= reservation'[j].amount
                       /\ (reservation'[j].status = "SETTLED" <=> reservation[j].status = "SETTLED")
    BY <1>2, <2>1, <1>a DEF Claim
  <2> QED
    BY <1>0, <1>2, <2>2 DEF Claim
<1>3. ASSUME NEW k \in Key, NEW c \in Charge, NEW tr \in Trace, Settle(k, c, tr),
             UNCHANGED billingVars
      PROVE  DebitMatchesReservation'
  <2> DEFINE row == [key |-> k, trace |-> tr, charge |-> c, status |-> "COMPLETED"]
  <2>1. usage' = usage \cup {row}
    BY <1>3 DEF Settle, AddUsage
  <2>2. /\ reservation'[k].status = "SETTLED" /\ reservation'[k].charge = c
        /\ reservation'[k].amount = reservation[k].amount
        /\ \A j \in Key \ {k} : reservation'[j] = reservation[j]
    BY <1>3 DEF Settle, TypeOK, Reservation
  <2>3. reservation[k].status # "SETTLED" /\ ledger[<<"usage", k>>] = 0
    <3>1. reservation[k].status # "SETTLED"
      BY <1>3 DEF Settle, Held
    <3> QED
      BY <3>1 DEF DebitMatchesReservation, DebitMatches
  <2>4. /\ ledger'[<<"usage", k>>] = -c
        /\ \A j \in Key \ {k} : ledger'[<<"usage", j>>] = ledger[<<"usage", j>>]
    <3>1. CASE c > 0
      BY <1>3, <3>1, KeysApart DEF Settle, Post, TypeOK
    <3>2. CASE ~(c > 0)
      BY <1>3, <3>2, <2>3, AmountAssumption DEF Settle, Charge
    <3> QED
      BY <3>1, <3>2
  <2>5. c <= reservation[k].amount
    BY <1>3 DEF Settle
  <2>6. row \in usage' /\ \A u \in usage' : u \in usage \/ u = row
    BY <2>1
  <2>7. ASSUME NEW j \in Key, j # k PROVE DebitMatches(j)'
    <3>1. reservation'[j] = reservation[j] /\ ledger'[<<"usage", j>>] = ledger[<<"usage", j>>]
      BY <2>2, <2>4, <2>7
    <3>2. usage \subseteq usage' /\ \A u \in usage' : u.key = j => u \in usage
      BY <2>1, <2>6, <2>7
    <3> QED
      BY <3>1, <3>2 DEF DebitMatchesReservation, DebitMatches
  <2>8. DebitMatches(k)'
    BY <2>2, <2>4, <2>5, <2>6 DEF DebitMatches
  <2> QED
    BY <2>7, <2>8 DEF DebitMatchesReservation
<1>4. ASSUME NEW k \in Key, Release(k), UNCHANGED billingVars
      PROVE  DebitMatchesReservation'
  <2>1. /\ reservation'[k].charge = reservation[k].charge
        /\ reservation'[k].amount = reservation[k].amount
        /\ reservation[k].status # "SETTLED" /\ reservation'[k].status # "SETTLED"
        /\ \A j \in Key \ {k} : reservation'[j] = reservation[j]
    BY <1>4 DEF Release, Held, TypeOK, Reservation
  <2>2. \A j \in Key : /\ ledger'[<<"usage", j>>] = ledger[<<"usage", j>>]
                       /\ reservation'[j].charge = reservation[j].charge
                       /\ reservation[j].charge <= reservation'[j].amount
                       /\ (reservation'[j].status = "SETTLED" <=> reservation[j].status = "SETTLED")
    BY <1>4, <2>1, <1>a DEF Release
  <2> QED
    BY <1>0, <1>4, <2>2 DEF Release
<1>5. ASSUME NEW x \in LedgerKey, NEW amount \in Int, Post(x, amount),
             UNCHANGED <<reservation, usage>>, \A k \in Key : x # <<"usage", k>>
      PROVE  DebitMatchesReservation'
  <2>1. \A k \in Key : ledger'[<<"usage", k>>] = ledger[<<"usage", k>>]
    BY <1>5, KeysApart DEF Post, TypeOK
  <2>2. \A j \in Key : /\ ledger'[<<"usage", j>>] = ledger[<<"usage", j>>]
                       /\ reservation'[j].charge = reservation[j].charge
                       /\ reservation[j].charge <= reservation'[j].amount
                       /\ (reservation'[j].status = "SETTLED" <=> reservation[j].status = "SETTLED")
    BY <1>5, <2>1, <1>a
  <2> QED
    BY <1>0, <1>5, <2>2
<1>6. ASSUME NEW k \in Key, NEW tr \in Trace, NEW s \in {"REJECTED", "FAILED_COST_UNVERIFIED"},
             RecordUsage(k, tr, s), UNCHANGED billingVars
      PROVE  DebitMatchesReservation'
  <2>1. \A j \in Key : /\ ledger'[<<"usage", j>>] = ledger[<<"usage", j>>]
                       /\ reservation'[j].charge = reservation[j].charge
                       /\ reservation[j].charge <= reservation'[j].amount
                       /\ (reservation'[j].status = "SETTLED" <=> reservation[j].status = "SETTLED")
    BY <1>6, <1>a DEF RecordUsage
  <2>2. usage \subseteq usage' /\ \A u \in usage' : u \in usage \/ u.status # "COMPLETED"
    BY <1>6 DEF RecordUsage, AddUsage
  <2> QED
    BY <1>0, <2>1, <2>2
<1>7. ASSUME NEW k \in Key, Expire(k), UNCHANGED billingVars
      PROVE  DebitMatchesReservation'
  <2>1. /\ reservation'[k].charge = reservation[k].charge
        /\ reservation'[k].amount = reservation[k].amount
        /\ reservation'[k].status = reservation[k].status
        /\ \A j \in Key \ {k} : reservation'[j] = reservation[j]
    BY <1>7 DEF Expire, TypeOK, Reservation
  <2>2. \A j \in Key : /\ ledger'[<<"usage", j>>] = ledger[<<"usage", j>>]
                       /\ reservation'[j].charge = reservation[j].charge
                       /\ reservation[j].charge <= reservation'[j].amount
                       /\ (reservation'[j].status = "SETTLED" <=> reservation[j].status = "SETTLED")
    BY <1>7, <2>1, <1>a DEF Expire
  <2> QED
    BY <1>0, <1>7, <2>2 DEF Expire
<1>8. ASSUME UNCHANGED walletVars
      PROVE  DebitMatchesReservation'
  <2>1. \A j \in Key : /\ ledger'[<<"usage", j>>] = ledger[<<"usage", j>>]
                       /\ reservation'[j].charge = reservation[j].charge
                       /\ reservation[j].charge <= reservation'[j].amount
                       /\ (reservation'[j].status = "SETTLED" <=> reservation[j].status = "SETTLED")
    BY <1>8, <1>a DEF walletVars
  <2> QED
    BY <1>0, <1>8, <2>1 DEF walletVars
<1>9. ASSUME NEW p \in Payment, NEW a \in Amount, ApplyTopup(p, a)
      PROVE  DebitMatchesReservation'
  BY <1>5, <1>9, KeysApart, AmountAssumption DEF ApplyTopup
<1>10. ASSUME NEW e \in Payment, NEW d \in TopupPayload, CreditTopup(e, d)
       PROVE  DebitMatchesReservation'
  <2>1. d.amount \in Nat
    BY AmountAssumption DEF TopupPayload
  <2> QED
    BY <1>5, <1>10, <2>1, KeysApart DEF CreditTopup
<1>11. ASSUME NEW e \in Payment, NEW d \in ReversalPayload, ReverseWalletPayment(e, d)
       PROVE  DebitMatchesReservation'
  <2>1. d.amount \in Nat
    BY AmountAssumption DEF ReversalPayload
  <2>2. -d.amount \in Int
    BY <2>1
  <2> QED
    BY <1>5, <1>11, <2>2, KeysApart DEF ReverseWalletPayment
<1>12. CASE UNCHANGED vars
  BY <1>8, <1>12 DEF vars
<1>13. ASSUME NEW e \in Payment,
              \/ \E d \in AddonPayload : ActivatePaidAddon(e, d)
              \/ \E d \in CyclePayload : RecordPaidCycle(e, d)
       PROVE  DebitMatchesReservation'
  BY <1>8, <1>13 DEF ActivatePaidAddon, RecordPaidCycle
<1> QED
  BY <1>1, <1>2, <1>3, <1>4, <1>6, <1>7, <1>9, <1>10, <1>11, <1>12, <1>13, BillingCases

(* A request is debited when, and only when, its reservation is settled: at *)
(* most the amount it held, and exactly the charge of its usage event.      *)
THEOREM DebitCorrect == BillingSpec => []DebitMatchesReservation
BY TypeCorrect, DebitInit, DebitStep, PTL DEF BillingSpec

-----------------------------------------------------------------------------
(* The wallet rows of payments.  *)

LEMMA PaymentsInit == BillingInit => PaymentsPosted
BY KeysApart DEF BillingInit, Init, PaymentsPosted, PaymentPosted, Topup, Reversal, IsType

LEMMA PaymentsStep ==
  TypeOK /\ PaymentsPosted /\ [BillingNext]_vars => PaymentsPosted'
<1> SUFFICES ASSUME TypeOK, PaymentsPosted, [BillingNext]_vars
             PROVE  PaymentsPosted'
  OBVIOUS
<1>1. ASSUME billingEvent' = billingEvent,
             \A e \in Payment : ledger'[BillingKey(e)] = ledger[BillingKey(e)]
      PROVE  PaymentsPosted'
  <2>1. Topup' = Topup /\ Reversal' = Reversal
    BY <1>1 DEF Topup, Reversal, IsType
  <2> SUFFICES ASSUME NEW e \in Payment PROVE PaymentPosted(e)'
    BY DEF PaymentsPosted
  <2>2. PaymentPosted(e)
    BY DEF PaymentsPosted
  <2>3. ASSUME e \in Reversal
        PROVE  ledger'[BillingKey(billingEvent[e].original)]
                 = ledger[BillingKey(billingEvent[e].original)]
    BY <1>1, <2>2, <2>3 DEF PaymentPosted, Topup
  <2> QED
    BY <1>1, <2>1, <2>2, <2>3 DEF PaymentPosted
<1>2. ASSUME NEW e \in Payment, NEW d \in Payload, Apply(e, d),
             \A f \in Payment \ {e} : ledger'[BillingKey(f)] = ledger[BillingKey(f)],
             d.type = "AI_TOPUP_PAID" => ledger'[BillingKey(e)] = d.amount,
             d.type \in {"PAYMENT_REFUNDED", "PAYMENT_CHARGEBACK"} =>
                /\ ledger'[BillingKey(e)] = - d.amount
                /\ d.original \in Topup
                /\ ledger[BillingKey(d.original)] = d.amount,
             d.type \in {"STORAGE_ADDON_PAID", "SUBSCRIPTION_PAID"} =>
                ledger'[BillingKey(e)] = ledger[BillingKey(e)]
      PROVE  PaymentsPosted'
  <2>1. d # None /\ e \notin Topup \cup Reversal
    BY <1>2, NoneAssumption DEF Topup, Reversal, IsType, Apply
  <2>2. billingEvent'[e] = d /\ \A f \in Payment \ {e} : billingEvent'[f] = billingEvent[f]
    BY <1>2 DEF Apply, TypeOK
  <2>3. \A f \in Payment \ {e} : (f \in Topup' <=> f \in Topup) /\ (f \in Reversal' <=> f \in Reversal)
    BY <2>2 DEF Topup, Reversal, IsType
  <2>4. /\ (e \in Topup' <=> d.type = "AI_TOPUP_PAID")
        /\ (e \in Reversal' <=> d.type \in {"PAYMENT_REFUNDED", "PAYMENT_CHARGEBACK"})
    BY <2>1, <2>2 DEF Topup, Reversal, IsType
  <2>5. d.type \in {"AI_TOPUP_PAID", "STORAGE_ADDON_PAID", "SUBSCRIPTION_PAID",
                    "PAYMENT_REFUNDED", "PAYMENT_CHARGEBACK"}
    BY DEF Payload, TopupPayload, AddonPayload, CyclePayload, ReversalPayload
  <2>6. ledger[BillingKey(e)] = 0
    BY <2>1 DEF PaymentsPosted, PaymentPosted
  <2>7. ASSUME NEW f \in Payment, f # e PROVE PaymentPosted(f)'
    <3>1. PaymentPosted(f)
      BY DEF PaymentsPosted
    <3>2. ASSUME f \in Reversal
          PROVE  billingEvent[f].original \in Topup /\ billingEvent[f].original \in Payment \ {e}
      BY <3>1, <3>2, <2>1 DEF PaymentPosted, Topup
    <3>3. ASSUME f \in Reversal
          PROVE  /\ billingEvent[f].original \in Topup'
                 /\ ledger'[BillingKey(billingEvent[f].original)]
                      = ledger[BillingKey(billingEvent[f].original)]
      BY <1>2, <2>3, <3>2, <3>3
    <3> QED
      BY <1>2, <2>2, <2>3, <2>7, <3>1, <3>3 DEF PaymentPosted
  <2>8. PaymentPosted(e)'
    <3>1. ASSUME d.type \in {"PAYMENT_REFUNDED", "PAYMENT_CHARGEBACK"}
          PROVE  /\ d.original \in Topup'
                 /\ ledger'[BillingKey(d.original)] = d.amount
      <4>1. d.original \in Payment \ {e}
        BY <1>2, <2>1, <3>1 DEF Topup
      <4> QED
        BY <1>2, <2>3, <3>1, <4>1
    <3>2. CASE d.type = "AI_TOPUP_PAID"
      BY <1>2, <2>2, <2>4, <3>2 DEF PaymentPosted
    <3>3. CASE d.type \in {"PAYMENT_REFUNDED", "PAYMENT_CHARGEBACK"}
      BY <1>2, <2>2, <2>4, <3>1, <3>3 DEF PaymentPosted
    <3>4. CASE d.type \in {"STORAGE_ADDON_PAID", "SUBSCRIPTION_PAID"}
      BY <1>2, <2>4, <2>6, <3>4 DEF PaymentPosted
    <3> QED
      BY <2>5, <3>2, <3>3, <3>4
  <2> QED
    BY <2>7, <2>8 DEF PaymentsPosted
<1>3. ASSUME WalletNext, UNCHANGED billingVars
      PROVE  PaymentsPosted'
  <2>1. \A e \in Payment : ledger'[BillingKey(e)] = ledger[BillingKey(e)]
    BY <1>3, KeysApart DEF WalletNext, TypeOK, Reserve, Claim, Settle, Release, ApplyTopup,
       RecordUsage, Expire, Post
  <2> QED
    BY <1>1, <1>3, <2>1 DEF billingVars
<1>4. ASSUME NEW e \in Payment, NEW d \in TopupPayload, CreditTopup(e, d)
      PROVE  PaymentsPosted'
  <2>1. d \in Payload /\ d.type = "AI_TOPUP_PAID"
    BY DEF Payload, TopupPayload
  <2> QED
    BY <1>2, <1>4, <2>1, KeysApart DEF CreditTopup, Post, TypeOK
<1>5. ASSUME NEW e \in Payment, NEW d \in AddonPayload, ActivatePaidAddon(e, d)
      PROVE  PaymentsPosted'
  <2>1. d \in Payload /\ d.type = "STORAGE_ADDON_PAID"
    BY DEF Payload, AddonPayload
  <2> QED
    BY <1>2, <1>5, <2>1 DEF ActivatePaidAddon, walletVars
<1>6. ASSUME NEW e \in Payment, NEW d \in CyclePayload, RecordPaidCycle(e, d)
      PROVE  PaymentsPosted'
  <2>1. d \in Payload /\ d.type = "SUBSCRIPTION_PAID"
    BY DEF Payload, CyclePayload
  <2> QED
    BY <1>2, <1>6, <2>1 DEF RecordPaidCycle, walletVars
<1>7. ASSUME NEW e \in Payment, NEW d \in ReversalPayload, ReverseWalletPayment(e, d)
      PROVE  PaymentsPosted'
  <2>1. d \in Payload /\ d.type \in {"PAYMENT_REFUNDED", "PAYMENT_CHARGEBACK"}
    BY DEF Payload, ReversalPayload
  <2> QED
    BY <1>2, <1>7, <2>1, KeysApart DEF ReverseWalletPayment, Post, TypeOK
<1>8. CASE UNCHANGED vars
  BY <1>1, <1>8 DEF vars, walletVars, billingVars
<1> QED
  BY <1>3, <1>4, <1>5, <1>6, <1>7, <1>8 DEF BillingNext, WebhookNext

(* Every payment event moved the wallet once, with the sign of its type,    *)
(* and a reversal takes back exactly what its top-up gave.                  *)
THEOREM PaymentsCorrect == BillingSpec => []PaymentsPosted
BY TypeCorrect, PaymentsInit, PaymentsStep, PTL DEF BillingSpec

-----------------------------------------------------------------------------
(* The balance is the sum of the ledger.  *)

LedgerFinite == IsFiniteSet(Units(Credits)) /\ IsFiniteSet(Units(Debits))

LEMMA ColumnTypes ==
  ASSUME TypeOK
  PROVE  Credits \in [LedgerKey -> Nat] /\ Debits \in [LedgerKey -> Nat]
BY DEF TypeOK, Credits, Debits

LEMMA BalanceInit == BillingInit => LedgerFinite /\ LedgerBalanced
<1> SUFFICES ASSUME BillingInit PROVE LedgerFinite /\ LedgerBalanced
  OBVIOUS
<1> DEFINE zero == [x \in LedgerKey |-> 0]
<1>1. Debits = zero
  BY PromoAssumption DEF BillingInit, Init, Debits
<1>2. IsFiniteSet(Units(zero)) /\ Total(zero) = 0
  BY TotalZero
<1>3. PromoKey \in LedgerKey /\ PromoCredit \in Nat /\ zero[PromoKey] = 0
  BY PromoAssumption DEF LedgerKey
<1>4. /\ Credits \in [LedgerKey -> Nat] /\ Credits[PromoKey] = PromoCredit
      /\ \A y \in LedgerKey \ {PromoKey} : Credits[y] = zero[y]
  BY <1>3, PromoAssumption DEF BillingInit, Init, Credits
<1>5. zero \in [LedgerKey -> Nat]
  OBVIOUS
<1> HIDE DEF zero
<1>6. IsFiniteSet(Units(Credits)) /\ Total(Credits) = (Total(zero) - zero[PromoKey]) + PromoCredit
  BY <1>2, <1>3, <1>4, <1>5, TotalUpdate
<1>7. balance = PromoCredit
  BY DEF BillingInit, Init
<1> QED
  BY <1>1, <1>2, <1>3, <1>6, <1>7 DEF LedgerFinite, LedgerBalanced

(* Posting a row moves the balance and the sum of the ledger alike.  *)
LEMMA PostBalanced ==
  ASSUME TypeOK, LedgerFinite, LedgerBalanced,
         NEW x \in LedgerKey, NEW amount \in Int, Post(x, amount), TypeOK'
  PROVE  LedgerFinite' /\ LedgerBalanced'
<1> DEFINE up == IF amount > 0 THEN amount ELSE 0
           down == IF amount < 0 THEN -amount ELSE 0
<1>1. up \in Nat /\ down \in Nat /\ up - down = amount
  OBVIOUS
<1>2. /\ ledger[x] = 0 /\ ledger'[x] = amount /\ balance' = balance + amount
      /\ \A y \in LedgerKey \ {x} : ledger'[y] = ledger[y]
  BY DEF Post, TypeOK
<1>3. /\ Credits[x] = 0 /\ Credits'[x] = up
      /\ \A y \in LedgerKey \ {x} : Credits'[y] = Credits[y]
  BY <1>2 DEF Credits
<1>4. /\ Debits[x] = 0 /\ Debits'[x] = down
      /\ \A y \in LedgerKey \ {x} : Debits'[y] = Debits[y]
  BY <1>2 DEF Debits
<1>5. /\ Credits \in [LedgerKey -> Nat] /\ Credits' \in [LedgerKey -> Nat]
      /\ Debits \in [LedgerKey -> Nat] /\ Debits' \in [LedgerKey -> Nat]
  BY ColumnTypes DEF TypeOK, Credits, Debits
<1> HIDE DEF up, down
<1>6. IsFiniteSet(Units(Credits')) /\ Total(Credits') = (Total(Credits) - Credits[x]) + up
  BY <1>1, <1>3, <1>5, TotalUpdate DEF LedgerFinite
<1>7. IsFiniteSet(Units(Debits')) /\ Total(Debits') = (Total(Debits) - Debits[x]) + down
  <2>1. IsFiniteSet(Units(Debits)) /\ down \in Nat
    BY <1>1 DEF LedgerFinite
  <2>2. Debits \in [LedgerKey -> Nat] /\ Debits' \in [LedgerKey -> Nat]
    BY <1>5
  <2>3. Debits'[x] = down /\ \A y \in LedgerKey \ {x} : Debits'[y] = Debits[y]
    BY <1>4
  <2> QED
    BY <2>1, <2>2, <2>3, TotalUpdate
<1>8. /\ Total(Credits) \in Nat /\ Total(Debits) \in Nat /\ balance \in Nat
      /\ balance + Total(Debits) = Total(Credits)
  BY TotalType DEF LedgerFinite, LedgerBalanced, TypeOK
<1>9. LedgerFinite'
  BY <1>6, <1>7 DEF LedgerFinite, Units
<1>10. balance' + Total(Debits') = Total(Credits')
  BY <1>1, <1>2, <1>3, <1>4, <1>6, <1>7, <1>8
<1>11. LedgerBalanced'
  BY <1>10 DEF LedgerBalanced, Total, Units
<1> QED
  BY <1>9, <1>11

LEMMA BalanceStep ==
  TypeOK /\ LedgerFinite /\ LedgerBalanced /\ [BillingNext]_vars => LedgerFinite' /\ LedgerBalanced'
<1> SUFFICES ASSUME TypeOK, LedgerFinite, LedgerBalanced, [BillingNext]_vars
             PROVE  LedgerFinite' /\ LedgerBalanced'
  OBVIOUS
<1>0. TypeOK'
  BY TypeStep
<1>1. ASSUME UNCHANGED <<balance, ledger>>
      PROVE  LedgerFinite' /\ LedgerBalanced'
  BY <1>1 DEF LedgerFinite, LedgerBalanced, Credits, Debits, Units, Total
<1>2. ASSUME NEW k \in Key, NEW c \in Charge, NEW tr \in Trace, Settle(k, c, tr)
      PROVE  LedgerFinite' /\ LedgerBalanced'
  <2>1. CASE c > 0
    <3>1. Post(<<"usage", k>>, -c)
      BY <1>2, <2>1 DEF Settle
    <3>2. -c \in Int /\ <<"usage", k>> \in LedgerKey
      BY AmountAssumption, KeysApart DEF Charge
    <3> QED
      BY <1>0, <3>1, <3>2, PostBalanced
  <2>2. CASE ~(c > 0)
    BY <1>1, <1>2, <2>2 DEF Settle
  <2> QED
    BY <2>1, <2>2
<1>3. ASSUME NEW p \in Payment, NEW a \in Amount, ApplyTopup(p, a)
      PROVE  LedgerFinite' /\ LedgerBalanced'
  <2>1. a \in Int /\ <<"topup", p>> \in LedgerKey
    BY AmountAssumption, KeysApart
  <2> QED
    BY <1>0, <1>3, <2>1, PostBalanced DEF ApplyTopup
<1>4. ASSUME NEW e \in Payment, NEW d \in TopupPayload, CreditTopup(e, d)
      PROVE  LedgerFinite' /\ LedgerBalanced'
  <2>1. d.amount \in Nat
    BY AmountAssumption DEF TopupPayload
  <2> QED
    BY <1>0, <1>4, <2>1, KeysApart, PostBalanced DEF CreditTopup
<1>5. ASSUME NEW e \in Payment, NEW d \in ReversalPayload, ReverseWalletPayment(e, d)
      PROVE  LedgerFinite' /\ LedgerBalanced'
  <2>1. d.amount \in Nat
    BY AmountAssumption DEF ReversalPayload
  <2>2. -d.amount \in Int
    BY <2>1
  <2> QED
    BY <1>0, <1>5, <2>2, KeysApart, PostBalanced DEF ReverseWalletPayment
<1>6. ASSUME \/ \E k \in Key, a \in Amount : Reserve(k, a)
             \/ \E k \in Key : Claim(k) \/ Release(k) \/ Expire(k)
             \/ \E k \in Key, tr \in Trace, s \in {"REJECTED", "FAILED_COST_UNVERIFIED"} :
                   RecordUsage(k, tr, s)
             \/ \E e \in Payment : \E d \in AddonPayload : ActivatePaidAddon(e, d)
             \/ \E e \in Payment : \E d \in CyclePayload : RecordPaidCycle(e, d)
             \/ UNCHANGED vars
      PROVE  LedgerFinite' /\ LedgerBalanced'
  BY <1>1, <1>6 DEF Reserve, Claim, Release, Expire, RecordUsage, ActivatePaidAddon,
     RecordPaidCycle, walletVars, vars
<1> QED
  BY <1>2, <1>3, <1>4, <1>5, <1>6, BillingCases

(* The balance always equals the sum of the rows of the ledger, however     *)
(* requests, top-ups, refunds and chargebacks interleave.                   *)
THEOREM BalanceCorrect == BillingSpec => []LedgerBalanced
<1> DEFINE BInv == TypeOK /\ LedgerFinite /\ LedgerBalanced
<1>1. BillingInit => BInv
  BY TypeInit, BalanceInit
<1>2. BInv /\ [BillingNext]_vars => BInv'
  BY TypeStep, BalanceStep
<1>3. BInv => LedgerBalanced
  OBVIOUS
<1> HIDE DEF BInv
<1> QED
  BY <1>1, <1>2, <1>3, PTL DEF BillingSpec

-----------------------------------------------------------------------------
(* The entitlement is the capacity of the add-ons.  *)

(* An event that was not applied has no add-on row.  *)
AddonsApplied == \A e \in Payment : billingEvent[e] = None => addon[e] = 0

AddonInv == IsFiniteSet(Units(addon)) /\ AddonsApplied /\ EntitlementMatchesAddons

LEMMA AddonInit == BillingInit => AddonInv
<1> SUFFICES ASSUME BillingInit PROVE AddonInv
  OBVIOUS
<1>1. addon = [e \in Payment |-> 0] /\ addonBytes = 0
  BY DEF BillingInit
<1>2. IsFiniteSet(Units(addon)) /\ Total(addon) = 0
  BY <1>1, TotalZero
<1>3. AddonBytes * 0 = 0
  BY CatalogAssumption
<1> QED
  BY <1>1, <1>2, <1>3 DEF AddonInv, AddonsApplied, EntitlementMatchesAddons

LEMMA AddonStep == TypeOK /\ AddonInv /\ [BillingNext]_vars => AddonInv'
<1> SUFFICES ASSUME TypeOK, AddonInv, [BillingNext]_vars PROVE AddonInv'
  OBVIOUS
<1>1. ASSUME NEW e \in Payment, NEW d \in AddonPayload, ActivatePaidAddon(e, d)
      PROVE  AddonInv'
  <2>1. d.quantity \in Nat /\ d # None
    BY CatalogAssumption, NoneAssumption DEF AddonPayload, Payload
  <2>2. addon[e] = 0 /\ addon \in [Payment -> Nat]
    <3>1. billingEvent[e] = None
      BY <1>1 DEF ActivatePaidAddon, Apply
    <3>2. addon \in [Payment -> Quantity \cup {0}] /\ Quantity \cup {0} \subseteq Nat
      BY CatalogAssumption DEF TypeOK
    <3> QED
      BY <3>1, <3>2 DEF AddonInv, AddonsApplied
  <2>3. /\ addon' \in [Payment -> Nat] /\ addon'[e] = d.quantity
        /\ \A f \in Payment \ {e} : addon'[f] = addon[f]
    BY <1>1, <2>1, <2>2 DEF ActivatePaidAddon
  <2>4. /\ IsFiniteSet(Units(addon'))
        /\ Total(addon') = (Total(addon) - addon[e]) + d.quantity
    BY <2>1, <2>2, <2>3, TotalUpdate DEF AddonInv
  <2>5. Total(addon) \in Nat
    BY TotalType DEF AddonInv
  <2>6. addonBytes' = addonBytes + AddonBytes * d.quantity
    BY <1>1 DEF ActivatePaidAddon
  <2>7. AddonBytes * (Total(addon) + d.quantity) = AddonBytes * Total(addon) + AddonBytes * d.quantity
    BY <2>1, <2>5, CatalogAssumption, ProductAdd
  <2>8. Total(addon') = Total(addon) + d.quantity
    BY <2>1, <2>2, <2>4, <2>5
  <2>9. addonBytes' = AddonBytes * Total(addon')
    BY <2>6, <2>7, <2>8 DEF AddonInv, EntitlementMatchesAddons
  <2>10. AddonsApplied'
    BY <1>1, <2>1, <2>3 DEF ActivatePaidAddon, Apply, TypeOK, AddonInv, AddonsApplied
  <2>11. IsFiniteSet(Units(addon))'
    BY <2>4 DEF Units
  <2>12. EntitlementMatchesAddons'
    BY <2>9 DEF EntitlementMatchesAddons, Total, Units
  <2> QED
    BY <2>10, <2>11, <2>12 DEF AddonInv
<1>2. ASSUME UNCHANGED <<addon, addonBytes>>,
             \A e \in Payment : billingEvent'[e] = None => billingEvent[e] = None
      PROVE  AddonInv'
  BY <1>2 DEF AddonInv, AddonsApplied, EntitlementMatchesAddons, Total, Units
<1>3. ASSUME NEW e \in Payment, NEW d, Apply(e, d), UNCHANGED <<addon, addonBytes>>
      PROVE  AddonInv'
  <2>1. \A f \in Payment : billingEvent'[f] = None => billingEvent[f] = None
    BY <1>3 DEF Apply, TypeOK
  <2> QED
    BY <1>2, <1>3, <2>1
<1> QED
  BY <1>1, <1>2, <1>3 DEF BillingNext, WebhookNext, CreditTopup, RecordPaidCycle,
     ReverseWalletPayment, billingVars, vars

(* The storage entitlement is the capacity of the add-ons paid for, each    *)
(* counted once, whatever events come between and however often they come.  *)
THEOREM EntitlementCorrect == BillingSpec => []EntitlementMatchesAddons
<1>1. AddonInv => EntitlementMatchesAddons
  BY DEF AddonInv
<1> QED
  BY <1>1, TypeCorrect, AddonInit, AddonStep, PTL DEF BillingSpec

-----------------------------------------------------------------------------
(* The wallet implements PrepaidAccount.  *)

LEMMA AccountInitial == BillingInit => Account!AccountInit
BY DEF BillingInit, Init, Account!AccountInit, ClosedKeys, NoReservation

LEMMA PaymentKeyOpen ==
  \A p \in Payment : BillingKey(p) \notin ClosedKeys /\ <<"topup", p>> \notin ClosedKeys
BY KeysApart DEF ClosedKeys

(* A row posted under a key that is not closed is a movement.  *)
LEMMA PostMoves ==
  ASSUME TypeOK, NEW x \in LedgerKey, x \notin ClosedKeys, UNCHANGED ClosedKeys,
         NEW a \in Amount \cup {-b : b \in Amount}, balance + a >= 0, Post(x, a)
  PROVE  Account!AccountNext
<1>1. a # 0
  BY AmountAssumption
<1>2. Account!Move(x, a)
  BY <1>1 DEF Post, Account!Move
<1> QED
  BY <1>2 DEF Account!AccountNext

LEMMA AccountStep ==
  TypeOK /\ DebitMatchesReservation /\ [BillingNext]_vars
    => [Account!AccountNext]_(Account!accountVars)
<1> SUFFICES ASSUME TypeOK, DebitMatchesReservation, [BillingNext]_vars
             PROVE  Account!AccountNext \/ UNCHANGED <<balance, ledger, ClosedKeys>>
  BY DEF Account!accountVars
<1>0. \A k \in Key : <<"usage", k>> \in ClosedKeys <=>
        \/ reservation[k].status = "RELEASED"
        \/ reservation[k].status = "SETTLED" /\ reservation[k].charge = 0
  BY DEF ClosedKeys
<1>1. ASSUME NEW k \in Key, \A j \in Key \ {k} : reservation'[j] = reservation[j],
             ~(<<"usage", k>> \in ClosedKeys), 
             /\ reservation'[k].status # "RELEASED"
             /\ reservation'[k].status = "SETTLED" => reservation'[k].charge # 0
      PROVE  UNCHANGED ClosedKeys
  BY <1>0, <1>1 DEF ClosedKeys
<1>2. ASSUME NEW k \in Key, \A j \in Key \ {k} : reservation'[j] = reservation[j],
             k \in Held, UNCHANGED <<balance, ledger>>,
             \/ reservation'[k].status = "RELEASED"
             \/ reservation'[k].status = "SETTLED" /\ reservation'[k].charge = 0
      PROVE  Account!AccountNext
  <2>1. <<"usage", k>> \notin ClosedKeys /\ ClosedKeys' = ClosedKeys \cup {<<"usage", k>>}
    BY <1>2 DEF ClosedKeys, Held
  <2>2. ledger[<<"usage", k>>] = 0
    BY <1>2 DEF Held, DebitMatchesReservation, DebitMatches
  <2>3. Account!Close(<<"usage", k>>)
    BY <1>2, <2>1, <2>2 DEF Account!Close
  <2> QED
    BY <2>3, KeysApart DEF Account!AccountNext
<1>3. ASSUME NEW k \in Key, NEW a \in Amount, Reserve(k, a)
      PROVE  UNCHANGED <<balance, ledger, ClosedKeys>>
  BY <1>0, <1>1, <1>3 DEF Reserve, TypeOK, NoReservation
<1>4. ASSUME NEW k \in Key, Claim(k)
      PROVE  UNCHANGED <<balance, ledger, ClosedKeys>>
  BY <1>0, <1>1, <1>4 DEF Claim, TypeOK, Reservation
<1>5. ASSUME NEW k \in Key, NEW c \in Charge, NEW tr \in Trace, Settle(k, c, tr)
      PROVE  Account!AccountNext
  <2>1. /\ \A j \in Key \ {k} : reservation'[j] = reservation[j]
        /\ reservation'[k].status = "SETTLED" /\ reservation'[k].charge = c
        /\ k \in Held /\ c <= balance
    BY <1>5 DEF Settle, TypeOK, Reservation
  <2>2. CASE c > 0
    <3>1. <<"usage", k>> \notin ClosedKeys
      BY <1>0, <2>1 DEF Held
    <3>2. UNCHANGED ClosedKeys
      BY <1>1, <2>1, <2>2, <3>1
    <3>3. c \in Amount /\ c \in Nat /\ balance \in Nat
      BY <2>2, AmountAssumption DEF Charge, TypeOK
    <3>4. -c \in Amount \cup {-b : b \in Amount} /\ balance + (-c) >= 0
      BY <2>1, <3>3
    <3>5. Post(<<"usage", k>>, -c) /\ <<"usage", k>> \in LedgerKey
      BY <1>5, <2>2, KeysApart DEF Settle
    <3> QED
      BY <3>1, <3>2, <3>4, <3>5, PostMoves
  <2>3. CASE ~(c > 0)
    <3>1. c = 0 /\ UNCHANGED <<balance, ledger>>
      BY <1>5, <2>3, AmountAssumption DEF Settle, Charge
    <3> QED
      BY <1>2, <2>1, <3>1
  <2> QED
    BY <2>2, <2>3
<1>6. ASSUME NEW k \in Key, Release(k)
      PROVE  Account!AccountNext
  BY <1>2, <1>6 DEF Release, TypeOK, Reservation
<1>7. ASSUME NEW k \in Key, Expire(k)
      PROVE  UNCHANGED <<balance, ledger, ClosedKeys>>
  <2>1. \A j \in Key : /\ reservation'[j].status = reservation[j].status
                       /\ reservation'[j].charge = reservation[j].charge
    BY <1>7 DEF Expire, TypeOK, Reservation
  <2> QED
    BY <1>7, <2>1 DEF ClosedKeys, Expire
<1>8. ASSUME UNCHANGED reservation
      PROVE  UNCHANGED ClosedKeys
  BY <1>8 DEF ClosedKeys
<1>9. ASSUME NEW p \in Payment, NEW a \in Amount, ApplyTopup(p, a)
      PROVE  Account!AccountNext
  <2>1. balance + a >= 0
    BY AmountAssumption DEF TypeOK
  <2> QED
    BY <1>8, <1>9, <2>1, PostMoves, PaymentKeyOpen, KeysApart DEF ApplyTopup
<1>10. ASSUME NEW e \in Payment, NEW d \in TopupPayload, CreditTopup(e, d)
       PROVE  Account!AccountNext
  <2>1. d.amount \in Amount
    BY DEF TopupPayload
  <2>2. balance + d.amount >= 0
    <3>1. d.amount \in Nat /\ balance \in Nat
      BY <2>1, AmountAssumption DEF TypeOK
    <3> QED
      BY <3>1
  <2> QED
    BY <1>8, <1>10, <2>1, <2>2, PostMoves, PaymentKeyOpen, KeysApart DEF CreditTopup
<1>11. ASSUME NEW e \in Payment, NEW d \in ReversalPayload, ReverseWalletPayment(e, d)
       PROVE  Account!AccountNext
  <2>1. d.amount \in Amount /\ d.amount <= balance
    BY <1>11 DEF ReversalPayload, ReverseWalletPayment
  <2>2. balance + (-d.amount) >= 0 /\ -d.amount \in Amount \cup {-b : b \in Amount}
    <3>1. d.amount \in Nat /\ balance \in Nat
      BY <2>1, AmountAssumption DEF TypeOK
    <3> QED
      BY <2>1, <3>1
  <2> QED
    BY <1>8, <1>11, <2>2, PostMoves, PaymentKeyOpen, KeysApart DEF ReverseWalletPayment
<1>12. ASSUME \/ \E k \in Key, tr \in Trace, s \in {"REJECTED", "FAILED_COST_UNVERIFIED"} :
                    RecordUsage(k, tr, s)
              \/ \E e \in Payment : \E d \in AddonPayload : ActivatePaidAddon(e, d)
              \/ \E e \in Payment : \E d \in CyclePayload : RecordPaidCycle(e, d)
              \/ UNCHANGED vars
       PROVE  UNCHANGED <<balance, ledger, ClosedKeys>>
  BY <1>8, <1>12 DEF RecordUsage, ActivatePaidAddon, RecordPaidCycle, vars, walletVars
<1> QED
  BY <1>3, <1>4, <1>5, <1>6, <1>7, <1>9, <1>10, <1>11, <1>12, BillingCases

(* The wallet, whatever its callers do, is a prepaid account: each key      *)
(* moves the funds at most once, for good, and a key whose reservation was  *)
(* released or settled for nothing never does.                              *)
THEOREM WalletImplementsAccount == BillingSpec => AccountSpec
BY TypeCorrect, DebitCorrect, AccountInitial, AccountStep, PTL
   DEF BillingSpec, AccountSpec, Account!AccountSpec

-----------------------------------------------------------------------------
(* The holds are covered.  *)

Holds == Where(Amounts, ActiveHolds)

HoldsFinite ==
  /\ IsFiniteSet(Units(Holds))
  /\ IsFiniteSet(Units(LateCharges))
  /\ IsFiniteSet(Units(TakenBack))

(* What one row adds to the holds, to the late charges and to the reversals. *)
HoldRows ==
  /\ Holds \in [Key -> Nat]
  /\ LateCharges \in [Key -> Nat]
  /\ TakenBack \in [Payment -> Nat]
  /\ \A k \in Key :
       /\ k \in ActiveHolds => Holds[k] = reservation[k].amount
       /\ k \notin ActiveHolds => Holds[k] = 0
       /\ reservation[k].expired => LateCharges[k] = reservation[k].charge
       /\ ~reservation[k].expired => LateCharges[k] = 0
  /\ \A e \in Payment :
       /\ e \in Reversal => TakenBack[e] = billingEvent[e].amount
       /\ e \notin Reversal => TakenBack[e] = 0

LEMMA HoldRowsType == TypeOK /\ PaymentsPosted => HoldRows
<1> SUFFICES ASSUME TypeOK, PaymentsPosted PROVE HoldRows
  OBVIOUS
<1>1. \A k \in Key : reservation[k].amount \in Nat /\ reservation[k].charge \in Nat
  <2>1. Charge \subseteq Nat
    BY AmountAssumption DEF Charge
  <2>2. \A k \in Key : reservation[k].amount \in Charge /\ reservation[k].charge \in Charge
    BY DEF TypeOK, Reservation
  <2> QED
    BY <2>1, <2>2
<1>2. Holds \in [Key -> Nat] /\ LateCharges \in [Key -> Nat]
  BY <1>1 DEF Holds, Where, Amounts, LateCharges
<1>3. ASSUME NEW e \in Payment, e \in Reversal
      PROVE  /\ billingEvent[e].amount \in Nat
             /\ ledger[BillingKey(e)] = - billingEvent[e].amount
             /\ - ledger[BillingKey(e)] = billingEvent[e].amount
  <2>1. billingEvent[e] \in ReversalPayload
    BY <1>3 DEF Reversal, IsType, TypeOK, Payload, TopupPayload, AddonPayload, CyclePayload
  <2>2. billingEvent[e].amount \in Nat
    BY <2>1, AmountAssumption DEF ReversalPayload
  <2>3. ledger[BillingKey(e)] = - billingEvent[e].amount
    BY <1>3 DEF PaymentsPosted, PaymentPosted
  <2> QED
    BY <2>2, <2>3
<1>4. \A e \in Payment :
         /\ e \in Reversal => TakenBack[e] = billingEvent[e].amount
         /\ e \notin Reversal => TakenBack[e] = 0
  BY <1>3 DEF TakenBack, Where
<1>5. TakenBack \in [Payment -> Nat]
  BY <1>3, <1>4 DEF TakenBack, Where
<1>6. ASSUME NEW k \in Key
      PROVE  /\ k \in ActiveHolds => Holds[k] = reservation[k].amount
             /\ k \notin ActiveHolds => Holds[k] = 0
             /\ reservation[k].expired => LateCharges[k] = reservation[k].charge
             /\ ~reservation[k].expired => LateCharges[k] = 0
  BY DEF Holds, Where, Amounts, LateCharges
<1> QED
  BY <1>2, <1>4, <1>5, <1>6 DEF HoldRows

LEMMA HoldsInit == BillingInit => HoldsFinite /\ HoldsCovered
<1> SUFFICES ASSUME BillingInit PROVE HoldsFinite /\ HoldsCovered
  OBVIOUS
<1>1. ActiveHolds = {} /\ Reversal = {}
  BY DEF BillingInit, Init, ActiveHolds, Held, NoReservation, Reversal, IsType
<1>2. /\ Holds = [k \in Key |-> 0]
      /\ LateCharges = [k \in Key |-> 0]
      /\ TakenBack = [e \in Payment |-> 0]
  BY <1>1 DEF BillingInit, Init, Holds, LateCharges, TakenBack, Where, Amounts, NoReservation
<1>3. /\ HoldsFinite
      /\ Total(Holds) = 0 /\ Total(LateCharges) = 0 /\ Total(TakenBack) = 0
  BY <1>2, TotalZero DEF HoldsFinite
<1>4. balance \in Nat
  BY PromoAssumption DEF BillingInit, Init
<1> QED
  BY <1>3, <1>4 DEF HoldsCovered, Holds

(* The step of one reservation moves two of the sums by its own row.  *)
LEMMA ReservationStep ==
  ASSUME HoldRows, HoldRows', HoldsFinite,
         NEW k \in Key, \A j \in Key \ {k} : reservation'[j] = reservation[j],
         TakenBack' = TakenBack
  PROVE  /\ HoldsFinite'
         /\ Total(Holds)' = (Total(Holds) - Holds[k]) + Holds'[k]
         /\ Total(LateCharges)' = (Total(LateCharges) - LateCharges[k]) + LateCharges'[k]
<1>1. /\ Holds \in [Key -> Nat] /\ LateCharges \in [Key -> Nat]
      /\ Holds' \in [Key -> Nat] /\ LateCharges' \in [Key -> Nat]
  BY DEF HoldRows
<1>2. \A j \in Key \ {k} : Holds'[j] = Holds[j] /\ LateCharges'[j] = LateCharges[j]
  BY DEF Holds, Where, Amounts, ActiveHolds, Held, LateCharges
<1>3. /\ IsFiniteSet(Units(Holds'))
      /\ Total(Holds') = (Total(Holds) - Holds[k]) + Holds'[k]
  <2>1. IsFiniteSet(Units(Holds)) /\ Holds'[k] \in Nat
    BY <1>1 DEF HoldsFinite
  <2> QED
    BY ONLY <1>1, <1>2, <2>1, TotalUpdate
<1>4. /\ IsFiniteSet(Units(LateCharges'))
      /\ Total(LateCharges') = (Total(LateCharges) - LateCharges[k]) + LateCharges'[k]
  <2>1. IsFiniteSet(Units(LateCharges)) /\ LateCharges'[k] \in Nat
    BY <1>1 DEF HoldsFinite
  <2> QED
    BY ONLY <1>1, <1>2, <2>1, TotalUpdate
<1>5. IsFiniteSet(Units(TakenBack'))
  BY DEF HoldsFinite
<1> QED
  BY <1>3, <1>4, <1>5 DEF HoldsFinite, Units, Total

(* The columns of payments are those of the events applied as reversals.  *)
LEMMA TakenBackSame ==
  ASSUME HoldRows, HoldRows', Reversal' = Reversal,
         \A e \in Reversal : billingEvent'[e] = billingEvent[e]
  PROVE  TakenBack' = TakenBack
<1>1. TakenBack \in [Payment -> Nat] /\ TakenBack' \in [Payment -> Nat]
  BY DEF HoldRows
<1>2. \A e \in Payment : TakenBack'[e] = TakenBack[e]
  <2>1. \A e \in Payment : e \in Reversal => TakenBack'[e] = TakenBack[e]
    BY DEF HoldRows
  <2>2. \A e \in Payment : e \notin Reversal => TakenBack'[e] = TakenBack[e]
    BY DEF HoldRows
  <2> QED
    BY <2>1, <2>2
<1> QED
  BY ONLY <1>1, <1>2

(* The holds stay covered when the reservations and reversals stay and the  *)
(* balance does not fall.                                                   *)
LEMMA HoldsUnchanged ==
  ASSUME HoldsFinite, HoldsCovered, UNCHANGED <<reservation, TakenBack>>,
         balance \in Nat, balance' \in Nat, balance <= balance'
  PROVE  HoldsFinite' /\ HoldsCovered'
<1>1. UNCHANGED <<Holds, LateCharges, TakenBack>>
  BY DEF Holds, Where, Amounts, ActiveHolds, Held, LateCharges
<1>2. /\ Total(Holds) \in Nat /\ Total(LateCharges) \in Nat /\ Total(TakenBack) \in Nat
      /\ Total(Holds) <= balance + Total(LateCharges) + Total(TakenBack)
  BY TotalType DEF HoldsFinite, HoldsCovered, Holds
<1>3. Total(Holds) <= balance' + Total(LateCharges) + Total(TakenBack)
  BY <1>2
<1>4. /\ Total(Holds)' = Total(Holds) /\ Total(LateCharges)' = Total(LateCharges)
      /\ Total(TakenBack)' = Total(TakenBack)
  BY <1>1 DEF Total, Units
<1>5. Total(Holds)' <= balance' + Total(LateCharges)' + Total(TakenBack)'
  BY ONLY <1>3, <1>4
<1>6. HoldsFinite'
  BY <1>1 DEF HoldsFinite, Units
<1> QED
  BY <1>5, <1>6 DEF HoldsCovered, Holds

(* A step of one reservation keeps the holds covered when what its hold     *)
(* grows by is available, and what the balance pays comes out of the hold   *)
(* or is a late charge.                                                     *)
LEMMA ReservationCovered ==
  ASSUME HoldRows, HoldRows', HoldsFinite, HoldsCovered,
         NEW k \in Key, \A j \in Key \ {k} : reservation'[j] = reservation[j],
         TakenBack' = TakenBack, balance \in Nat, balance' \in Nat,
         \/ Total(Holds) + (Holds'[k] - Holds[k]) <= balance /\ balance' = balance
                 /\ LateCharges'[k] = LateCharges[k]
         \/ Holds'[k] - Holds[k] <= (balance' - balance) + (LateCharges'[k] - LateCharges[k])
  PROVE  HoldsFinite' /\ HoldsCovered'
<1>1. /\ HoldsFinite'
      /\ Total(Holds)' = (Total(Holds) - Holds[k]) + Holds'[k]
      /\ Total(LateCharges)' = (Total(LateCharges) - LateCharges[k]) + LateCharges'[k]
  BY ReservationStep
<1>2. /\ Total(Holds) \in Nat /\ Total(LateCharges) \in Nat /\ Total(TakenBack) \in Nat
      /\ Total(Holds) <= balance + Total(LateCharges) + Total(TakenBack)
  BY TotalType DEF HoldsFinite, HoldsCovered, Holds
<1>3. Total(TakenBack)' = Total(TakenBack)
  BY DEF Total, Units
<1>4. /\ Holds[k] \in Nat /\ Holds'[k] \in Nat
      /\ LateCharges[k] \in Nat /\ LateCharges'[k] \in Nat
  BY DEF HoldRows
<1>5. Total(Holds)' <= balance' + Total(LateCharges)' + Total(TakenBack)'
  BY <1>1, <1>2, <1>3, <1>4
<1> QED
  BY <1>1, <1>5 DEF HoldsCovered, Holds

LEMMA HoldsStep ==
  /\ TypeOK /\ DebitMatchesReservation /\ PaymentsPosted
  /\ HoldsFinite /\ HoldsCovered /\ HoldRows
  /\ TypeOK' /\ PaymentsPosted' /\ HoldRows'
  /\ [BillingNext]_vars
  => HoldsFinite' /\ HoldsCovered'
<1> SUFFICES ASSUME TypeOK, DebitMatchesReservation, PaymentsPosted,
                    HoldsFinite, HoldsCovered, HoldRows,
                    TypeOK', PaymentsPosted', HoldRows', [BillingNext]_vars
             PROVE  HoldsFinite' /\ HoldsCovered'
  OBVIOUS
<1>0. balance \in Nat /\ balance' \in Nat
  BY DEF TypeOK
<1>a. ASSUME UNCHANGED billingEvent
      PROVE  TakenBack' = TakenBack
  BY <1>a, TakenBackSame DEF Reversal, IsType
<1>b. \A k \in Held : reservation[k].charge = 0
  BY DEF Held, DebitMatchesReservation, DebitMatches
<1>c. \A k \in Key : reservation[k].charge \in Nat /\ reservation[k].amount \in Nat
  <2>1. Charge \subseteq Nat
    BY AmountAssumption DEF Charge
  <2>2. \A k \in Key : reservation[k].amount \in Charge /\ reservation[k].charge \in Charge
    BY DEF TypeOK, Reservation
  <2> QED
    BY <2>1, <2>2
<1>1. ASSUME NEW k \in Key, NEW a \in Amount, Reserve(k, a), UNCHANGED billingVars
      PROVE  HoldsFinite' /\ HoldsCovered'
  <2>1. /\ a \in Nat /\ a <= balance - Total(Holds) /\ balance' = balance
        /\ reservation[k].status = "NONE" /\ reservation'[k].status = "RESERVED"
        /\ reservation'[k].amount = a /\ ~reservation'[k].expired
        /\ \A j \in Key \ {k} : reservation'[j] = reservation[j]
    BY <1>1, AmountAssumption DEF Reserve, Available, Holds, TypeOK, NoReservation
  <2>2. k \notin ActiveHolds /\ k \in ActiveHolds'
    BY <2>1 DEF ActiveHolds, Held
  <2>3. Holds[k] = 0 /\ Holds'[k] = a
    BY <2>1, <2>2 DEF HoldRows
  <2>4. LateCharges'[k] = 0 /\ LateCharges[k] = 0
    <3>1. reservation[k].charge = 0
      BY <2>1 DEF DebitMatchesReservation, DebitMatches
    <3> QED
      BY <2>1, <3>1 DEF HoldRows
  <2>5. Total(Holds) \in Nat
    BY TotalType DEF HoldsFinite
  <2>6. Total(Holds) + (Holds'[k] - Holds[k]) <= balance
    BY <1>0, <2>1, <2>3, <2>5
  <2>7. TakenBack' = TakenBack
    BY <1>1, <1>a DEF billingVars
  <2> QED
    BY <1>0, <2>1, <2>4, <2>6, <2>7, ReservationCovered
<1>2. ASSUME NEW k \in Key, Claim(k), UNCHANGED billingVars
      PROVE  HoldsFinite' /\ HoldsCovered'
  <2>1. /\ balance' = balance /\ k \in ActiveHolds /\ k \in ActiveHolds'
        /\ reservation'[k].amount = reservation[k].amount
        /\ ~reservation[k].expired /\ ~reservation'[k].expired
        /\ \A j \in Key \ {k} : reservation'[j] = reservation[j]
    BY <1>2 DEF Claim, TypeOK, Reservation, ActiveHolds, Held
  <2>2. /\ Holds'[k] = Holds[k] /\ LateCharges'[k] = LateCharges[k]
        /\ Holds[k] \in Nat /\ LateCharges[k] \in Nat
    BY <2>1 DEF HoldRows
  <2>3. Holds'[k] - Holds[k] <= (balance' - balance) + (LateCharges'[k] - LateCharges[k])
    BY <1>0, <2>1, <2>2
  <2>4. TakenBack' = TakenBack
    BY <1>2, <1>a DEF billingVars
  <2> QED
    BY <1>0, <2>1, <2>3, <2>4, ReservationCovered
<1>3. ASSUME NEW k \in Key, NEW c \in Charge, NEW tr \in Trace, Settle(k, c, tr),
             UNCHANGED billingVars
      PROVE  HoldsFinite' /\ HoldsCovered'
  <2>1. /\ k \in Held /\ k \notin Held' /\ c <= reservation[k].amount
        /\ reservation'[k].charge = c
        /\ reservation'[k].expired = reservation[k].expired
        /\ \A j \in Key \ {k} : reservation'[j] = reservation[j]
    BY <1>3 DEF Settle, TypeOK, Reservation, Held
  <2>2. c \in Nat /\ balance' = balance - c
    <3>1. c \in Nat
      BY AmountAssumption DEF Charge
    <3>2. CASE c > 0
      BY <1>0, <1>3, <3>1, <3>2 DEF Settle, Post
    <3>3. CASE ~(c > 0)
      BY <1>0, <1>3, <3>1, <3>3 DEF Settle
    <3> QED
      BY <3>1, <3>2, <3>3
  <2>3. Holds'[k] = 0
    BY <2>1 DEF HoldRows, ActiveHolds
  <2>4. Holds'[k] - Holds[k] <= (balance' - balance) + (LateCharges'[k] - LateCharges[k])
    <3>1. CASE reservation[k].expired
      <4>1. /\ Holds[k] = 0 /\ LateCharges[k] = 0 /\ LateCharges'[k] = c
        BY <1>b, <2>1, <3>1 DEF HoldRows, ActiveHolds
      <4> QED
        BY <1>0, <2>2, <2>3, <4>1
    <3>2. CASE ~reservation[k].expired
      <4>1. /\ Holds[k] = reservation[k].amount /\ LateCharges[k] = 0 /\ LateCharges'[k] = 0
        BY <2>1, <3>2 DEF HoldRows, ActiveHolds
      <4> QED
        BY <1>0, <1>c, <2>1, <2>2, <2>3, <4>1
    <3> QED
      BY <3>1, <3>2
  <2>5. TakenBack' = TakenBack
    BY <1>3, <1>a DEF billingVars
  <2> QED
    BY <1>0, <2>1, <2>4, <2>5, ReservationCovered
<1>4. ASSUME NEW k \in Key, Release(k) \/ Expire(k), UNCHANGED billingVars
      PROVE  HoldsFinite' /\ HoldsCovered'
  <2>1. /\ k \in Held /\ k \notin ActiveHolds' /\ balance' = balance
        /\ reservation'[k].charge = reservation[k].charge
        /\ \A j \in Key \ {k} : reservation'[j] = reservation[j]
    BY <1>4 DEF Release, Expire, TypeOK, Reservation, ActiveHolds, Held
  <2>2. LateCharges[k] = 0 /\ LateCharges'[k] = 0
    BY <1>b, <2>1 DEF HoldRows
  <2>3. Holds'[k] = 0 /\ Holds[k] \in Nat
    BY <2>1 DEF HoldRows
  <2>4. Holds'[k] - Holds[k] <= (balance' - balance) + (LateCharges'[k] - LateCharges[k])
    BY <1>0, <2>1, <2>2, <2>3
  <2>5. TakenBack' = TakenBack
    BY <1>4, <1>a DEF billingVars
  <2> QED
    BY <1>0, <2>1, <2>4, <2>5, ReservationCovered
<1>5. ASSUME NEW p \in Payment, NEW a \in Amount, ApplyTopup(p, a), UNCHANGED billingVars
      PROVE  HoldsFinite' /\ HoldsCovered'
  <2>1. balance <= balance' /\ TakenBack' = TakenBack
    BY <1>0, <1>5, <1>a, AmountAssumption DEF ApplyTopup, Post, billingVars
  <2> QED
    BY <1>0, <1>5, <2>1, HoldsUnchanged DEF ApplyTopup
<1>6. ASSUME NEW e \in Payment, NEW d \in Payload, Apply(e, d),
             d.type \notin {"PAYMENT_REFUNDED", "PAYMENT_CHARGEBACK"},
             balance <= balance', UNCHANGED reservation
      PROVE  HoldsFinite' /\ HoldsCovered'
  <2>1. Reversal' = Reversal /\ \A f \in Reversal : billingEvent'[f] = billingEvent[f]
    BY <1>6 DEF Apply, Reversal, IsType, TypeOK
  <2>2. TakenBack' = TakenBack
    BY <2>1, TakenBackSame
  <2> QED
    BY <1>0, <1>6, <2>2, HoldsUnchanged
<1>7. ASSUME NEW e \in Payment, NEW d \in TopupPayload, CreditTopup(e, d)
      PROVE  HoldsFinite' /\ HoldsCovered'
  <2>1. d \in Payload /\ d.type = "AI_TOPUP_PAID" /\ d.amount \in Nat
    BY AmountAssumption DEF Payload, TopupPayload
  <2>2. balance <= balance'
    BY <1>0, <1>7, <2>1 DEF CreditTopup, Post
  <2> QED
    BY <1>6, <1>7, <2>1, <2>2 DEF CreditTopup
<1>8. ASSUME NEW e \in Payment, NEW d \in AddonPayload, ActivatePaidAddon(e, d)
      PROVE  HoldsFinite' /\ HoldsCovered'
  <2>1. d \in Payload /\ d.type = "STORAGE_ADDON_PAID"
    BY DEF Payload, AddonPayload
  <2> QED
    BY <1>0, <1>6, <1>8, <2>1 DEF ActivatePaidAddon, walletVars
<1>9. ASSUME NEW e \in Payment, NEW d \in CyclePayload, RecordPaidCycle(e, d)
      PROVE  HoldsFinite' /\ HoldsCovered'
  <2>1. d \in Payload /\ d.type = "SUBSCRIPTION_PAID"
    BY DEF Payload, CyclePayload
  <2> QED
    BY <1>0, <1>6, <1>9, <2>1 DEF RecordPaidCycle, walletVars
<1>10. ASSUME NEW e \in Payment, NEW d \in ReversalPayload, ReverseWalletPayment(e, d)
       PROVE  HoldsFinite' /\ HoldsCovered'
  <2>1. /\ d \in Payload /\ d.type \in {"PAYMENT_REFUNDED", "PAYMENT_CHARGEBACK"}
        /\ d.amount \in Nat
    BY AmountAssumption DEF Payload, ReversalPayload
  <2>2. d # None
    BY <2>1, NoneAssumption
  <2>3. /\ billingEvent[e] = None /\ billingEvent'[e] = d
        /\ \A f \in Payment \ {e} : billingEvent'[f] = billingEvent[f]
        /\ balance' = balance - d.amount /\ reservation' = reservation
    BY <1>0, <1>10, <2>1 DEF ReverseWalletPayment, Apply, Post, TypeOK
  <2>4. e \notin Reversal /\ e \in Reversal'
        /\ \A f \in Payment \ {e} : f \in Reversal' <=> f \in Reversal
    BY <2>1, <2>2, <2>3 DEF Reversal, IsType
  <2>5. /\ TakenBack \in [Payment -> Nat] /\ TakenBack' \in [Payment -> Nat]
        /\ TakenBack[e] = 0 /\ TakenBack'[e] = d.amount
    BY <2>3, <2>4 DEF HoldRows
  <2>6. \A f \in Payment \ {e} : TakenBack'[f] = TakenBack[f]
    <3> SUFFICES ASSUME NEW f \in Payment \ {e} PROVE TakenBack'[f] = TakenBack[f]
      OBVIOUS
    <3>1. CASE f \in Reversal
      BY <2>3, <2>4, <3>1 DEF HoldRows
    <3>2. CASE f \notin Reversal
      BY <2>4, <3>2 DEF HoldRows
    <3> QED
      BY <3>1, <3>2
  <2>7. IsFiniteSet(Units(TakenBack))
    BY DEF HoldsFinite
  <2>8. /\ IsFiniteSet(Units(TakenBack'))
        /\ Total(TakenBack') = (Total(TakenBack) - TakenBack[e]) + d.amount
    BY ONLY <2>1, <2>5, <2>6, <2>7, TotalUpdate
  <2>9. UNCHANGED <<Holds, LateCharges>>
    BY <2>3 DEF Holds, Where, Amounts, ActiveHolds, Held, LateCharges
  <2>10. HoldsFinite'
    BY <2>8, <2>9 DEF HoldsFinite, Units
  <2>11. /\ Total(Holds)' = Total(Holds) /\ Total(LateCharges)' = Total(LateCharges)
         /\ Total(TakenBack)' = (Total(TakenBack) - TakenBack[e]) + d.amount
    BY <2>8, <2>9 DEF Total, Units
  <2>12. /\ Total(Holds) \in Nat /\ Total(LateCharges) \in Nat /\ Total(TakenBack) \in Nat
         /\ Total(Holds) <= balance + Total(LateCharges) + Total(TakenBack)
    BY TotalType DEF HoldsFinite, HoldsCovered, Holds
  <2>13. Total(Holds)' <= balance' + Total(LateCharges)' + Total(TakenBack)'
    BY ONLY <1>0, <2>1, <2>3, <2>5, <2>11, <2>12
  <2> QED
    BY <2>10, <2>13 DEF HoldsCovered, Holds
<1>11. ASSUME UNCHANGED <<balance, reservation, billingEvent>>
       PROVE  HoldsFinite' /\ HoldsCovered'
  BY <1>0, <1>11, <1>a, HoldsUnchanged
<1>12. ASSUME NEW k \in Key, NEW tr \in Trace, NEW s \in {"REJECTED", "FAILED_COST_UNVERIFIED"},
              RecordUsage(k, tr, s), UNCHANGED billingVars
       PROVE  HoldsFinite' /\ HoldsCovered'
  BY <1>11, <1>12 DEF RecordUsage, billingVars
<1>13. CASE UNCHANGED vars
  BY <1>11, <1>13 DEF vars, walletVars, billingVars
<1> QED
  BY <1>1, <1>2, <1>3, <1>4, <1>5, <1>7, <1>8, <1>9, <1>10, <1>12, <1>13, BillingCases

LEMMA HoldsInvCorrect == BillingSpec => [](HoldsFinite /\ HoldsCovered)
<1> DEFINE HInv == HoldsFinite /\ HoldsCovered
<1>1. BillingInit => HInv
  BY HoldsInit
<1>2. TypeOK /\ PaymentsPosted => HoldRows
  BY HoldRowsType
<1>3. /\ TypeOK /\ DebitMatchesReservation /\ PaymentsPosted /\ HInv /\ HoldRows
      /\ TypeOK' /\ PaymentsPosted' /\ HoldRows' /\ [BillingNext]_vars
      => HInv'
  BY HoldsStep
<1> HIDE DEF HInv
<1>4. BillingSpec => []HInv
  BY <1>1, <1>2, <1>3, TypeCorrect, DebitCorrect, PaymentsCorrect, PTL DEF BillingSpec
<1> QED
  BY <1>4 DEF HInv

(* However requests, expiries, top-ups, refunds and chargebacks interleave, *)
(* the unexpired holds exceed the balance by no more than what was settled  *)
(* on expired holds and what reversals took back.                           *)
THEOREM HoldsCoveredCorrect == BillingSpec => []HoldsCovered
BY HoldsInvCorrect, PTL

-----------------------------------------------------------------------------
(* The calls of the gateway.  *)

(* A call took the hold of its key when it claimed it.  *)
Claimed(c) ==
  call[c].pc \in {"route", "provider", "settle", "reject"} \/ call[c].ran # {}

(* What the program counter of a call says of the call.  *)
CallOrder(x) ==
  /\ x.pc # "idle" => x.key \in Key
  /\ x.pc \in {"idle", "claim"} => x.ran = {}
  /\ x.pc \in {"provider", "settle", "reject"} => x.ran # {}
  /\ x.pc \in {"idle", "claim", "route", "provider", "settle"} => x.error = "NONE"

CallTypeOK ==
  /\ call \in [Call -> CallState]
  /\ \A c \in Call : CallOrder(call[c])

(* ... and what it says of the reservation of its key.  *)
HoldOfCall(c) ==
  LET r == reservation[call[c].key] IN
  /\ call[c].pc # "idle" => r.status # "NONE"
  /\ Claimed(c) => r.status \notin {"NONE", "RESERVED"}
  /\ call[c].pc = "settle" => call[c].charge <= r.amount
  /\ call[c].pc = "delivered" => r.status = "SETTLED" /\ r.charge = call[c].charge

OneClaimant ==
  \A c, d \in Call : Claimed(c) /\ Claimed(d) /\ call[c].key = call[d].key => c = d

(* The call that settled a reservation has left the steps that could change *)
(* what it knows of it.                                                     *)
SettledBy(c, k) ==
  /\ call[c].pc \in {"delivered", "release", "record", "failed", "crashed"}
  /\ call[c].key = k /\ call[c].ran # {} /\ call[c].charge = reservation[k].charge
  /\ call[c].error \in {"NONE", "DATABASE"}

SettledByCall ==
  \A k \in Key : reservation[k].status = "SETTLED" => \E c \in Call : SettledBy(c, k)

(* Usage events carry the trace of their key.  *)
UsageTraced == \A u \in usage : u.trace = TraceOf[u.key]

CallInv ==
  /\ \A c \in Call : HoldOfCall(c)
  /\ OneClaimant /\ SettledByCall /\ UsageTraced

(* What no step of the wallet undoes.  *)
ReservationKept ==
  /\ \A k \in Key :
       LET r == reservation[k] s == reservation'[k] IN
       /\ r.status # "NONE" => s.status # "NONE" /\ s.amount = r.amount
       /\ r.status \notin {"NONE", "RESERVED"} => s.status \notin {"NONE", "RESERVED"}
       /\ r.status = "SETTLED" => s.status = "SETTLED" /\ s.charge = r.charge
  /\ usage \subseteq usage'

LEMMA ReservationStays == TypeOK /\ [BillingNext]_vars => ReservationKept
<1> SUFFICES ASSUME TypeOK, [BillingNext]_vars PROVE ReservationKept
  OBVIOUS
<1>1. ASSUME NEW k \in Key, NEW a \in Amount, Reserve(k, a)
      PROVE  ReservationKept
  BY <1>1 DEF Reserve, ReservationKept, TypeOK
<1>2. ASSUME NEW k \in Key, Claim(k)
      PROVE  ReservationKept
  BY <1>2 DEF Claim, ReservationKept, TypeOK, Reservation
<1>3. ASSUME NEW k \in Key, NEW c \in Charge, NEW tr \in Trace, Settle(k, c, tr)
      PROVE  ReservationKept
  <2>1. /\ reservation'[k].status = "SETTLED" /\ reservation'[k].amount = reservation[k].amount
        /\ reservation[k].status \in {"RESERVED", "PROCESSING"}
        /\ \A j \in Key \ {k} : reservation'[j] = reservation[j]
    BY <1>3 DEF Settle, Held, TypeOK, Reservation
  <2>2. usage \subseteq usage'
    BY <1>3 DEF Settle, AddUsage
  <2> QED
    BY <2>1, <2>2 DEF ReservationKept
<1>4. ASSUME NEW k \in Key, Release(k)
      PROVE  ReservationKept
  BY <1>4 DEF Release, Held, ReservationKept, TypeOK, Reservation
<1>5. ASSUME NEW k \in Key, Expire(k)
      PROVE  ReservationKept
  BY <1>5 DEF Expire, ReservationKept, TypeOK, Reservation
<1>6. ASSUME UNCHANGED reservation, usage \subseteq usage'
      PROVE  ReservationKept
  BY <1>6 DEF ReservationKept
<1> QED
  BY <1>1, <1>2, <1>3, <1>4, <1>5, <1>6, BillingCases
  DEF ApplyTopup, RecordUsage, AddUsage, CreditTopup, ActivatePaidAddon, RecordPaidCycle,
      ReverseWalletPayment, vars, walletVars

-----------------------------------------------------------------------------
(* The calls.  *)

LEMMA GatewayCases ==
  ASSUME GatewayNext
  PROVE  \/ \E c \in Call, k \in Key, a \in Amount : ReserveStep(c, k, a)
         \/ \E c \in Call : ClaimStep(c)
         \/ \E c \in Call : Invoke(c)
         \/ \E c \in Call : SkipCandidate(c)
         \/ \E c \in Call : ProviderFails(c)
         \/ \E c \in Call, charge \in Charge : ProviderAnswers(c, charge)
         \/ \E c \in Call : SettleStep(c)
         \/ \E c \in Call : SettleFails(c)
         \/ \E c \in Call : RejectStep(c)
         \/ \E c \in Call : ReleaseStep(c)
         \/ \E c \in Call : RecordStep(c)
         \/ \E c \in Call : Crash(c)
         \/ \E k \in Key : ExpireStep(k)
         \/ Webhook
BY DEF GatewayNext, CallStep

LEMMA CallTypeInit == GatewayInit => CallTypeOK
BY CallAssumption DEF GatewayInit, CallTypeOK, CallState, CallOrder, Charge

LEMMA SettleErrorType ==
  ASSUME NEW k, NEW c, NEW tr
  PROVE  SettleError(k, c, tr) \in {"NONE", "P2002", "AI_BALANCE_EXHAUSTED",
           "AI_RESERVATION_NOT_ACTIVE", "AI_CHARGE_EXCEEDS_RESERVATION"}
BY DEF SettleError

LEMMA CallTypeStep == CallTypeOK /\ [GatewayNext]_gatewayVars => CallTypeOK'
<1> SUFFICES ASSUME CallTypeOK, [GatewayNext]_gatewayVars PROVE CallTypeOK'
  OBVIOUS
<1>1. ASSUME NEW c \in Call, NEW x \in CallState, CallOrder(x), call' = [call EXCEPT ![c] = x]
      PROVE  CallTypeOK'
  BY <1>1 DEF CallTypeOK
<1>2. \A c \in Call : call[c] \in CallState /\ CallOrder(call[c])
  BY DEF CallTypeOK
<1>3. ASSUME NEW c \in Call, NEW k \in Key, NEW a \in Amount, ReserveStep(c, k, a)
      PROVE  CallTypeOK'
  <2> DEFINE x == [call[c] EXCEPT !.pc = "claim", !.key = k]
  <2>1. x \in CallState /\ CallOrder(x)
    BY <1>2, <1>3 DEF ReserveStep, CallState, CallOrder
  <2>2. call' = [call EXCEPT ![c] = x]
    BY <1>3 DEF ReserveStep
  <2> QED
    BY <1>1, <2>1, <2>2
<1>4. ASSUME NEW c \in Call, ClaimStep(c)
      PROVE  CallTypeOK'
  <2>1. PICK pc \in {"route", "failed"} : call' = [call EXCEPT ![c].pc = pc]
    BY <1>4 DEF ClaimStep, Goto
  <2> DEFINE x == [call[c] EXCEPT !.pc = pc]
  <2>2. x \in CallState /\ CallOrder(x)
    BY <1>2, <1>4 DEF ClaimStep, CallState, CallOrder
  <2>3. call' = [call EXCEPT ![c] = x]
    BY <2>1
  <2> QED
    BY <1>1, <2>2, <2>3
<1>5. ASSUME NEW c \in Call, Invoke(c)
      PROVE  CallTypeOK'
  <2> DEFINE x == [call[c] EXCEPT !.pc = "provider", !.ran = @ \cup {call[c].candidate}]
  <2>1. x \in CallState /\ CallOrder(x)
    BY <1>2, <1>5 DEF Invoke, CallState, CallOrder
  <2>2. call' = [call EXCEPT ![c] = x]
    BY <1>5 DEF Invoke
  <2> QED
    BY <1>1, <2>1, <2>2
<1>6. ASSUME NEW c \in Call, NEW pc \in {"release", "reject"},
             NEW error \in {"PROVIDER", "REJECTED", "DATABASE", "P2002", "AI_BALANCE_EXHAUSTED",
                            "AI_RESERVATION_NOT_ACTIVE", "AI_CHARGE_EXCEEDS_RESERVATION"},
             call[c].pc \in {"route", "provider", "settle", "reject"},
             pc = "reject" => call[c].ran # {},
             Fail(c, pc, error)
      PROVE  CallTypeOK'
  <2> DEFINE x == [call[c] EXCEPT !.pc = pc, !.error = error]
  <2>1. x \in CallState
    BY <1>2, <1>6 DEF CallState
  <2>2. CallOrder(x)
    BY <1>2, <1>6 DEF CallState, CallOrder
  <2>3. call' = [call EXCEPT ![c] = x]
    BY <1>6 DEF Fail
  <2> QED
    BY <1>1, <2>1, <2>2, <2>3
<1>7. ASSUME NEW c \in Call, call[c].pc \in {"route", "provider"}, call[c].candidate < Candidates,
             call' = [call EXCEPT ![c].pc = "route", ![c].candidate = @ + 1]
      PROVE  CallTypeOK'
  <2> DEFINE x == [call[c] EXCEPT !.pc = "route", !.candidate = @ + 1]
  <2>1. call[c].candidate + 1 \in 1..Candidates
    BY <1>2, <1>7, CallAssumption DEF CallState
  <2>2. x \in CallState /\ CallOrder(x)
    BY <1>2, <1>7, <2>1 DEF CallState, CallOrder
  <2>3. call' = [call EXCEPT ![c] = x]
    BY <1>7
  <2> QED
    BY <1>1, <2>2, <2>3
<1>8. ASSUME NEW c \in Call, SkipCandidate(c)
      PROVE  CallTypeOK'
  <2>1. CASE call[c].candidate < Candidates
    <3>1. call' = [call EXCEPT ![c].pc = "route", ![c].candidate = @ + 1]
      BY <1>8, <2>1 DEF SkipCandidate
    <3> QED
      BY <1>7, <1>8, <2>1, <3>1 DEF SkipCandidate
  <2>2. CASE ~(call[c].candidate < Candidates)
    BY <1>6, <1>8, <2>2 DEF SkipCandidate
  <2> QED
    BY <2>1, <2>2
<1>9. ASSUME NEW c \in Call, ProviderFails(c)
      PROVE  CallTypeOK'
  BY <1>6, <1>7, <1>9 DEF ProviderFails
<1>10. ASSUME NEW c \in Call, NEW charge \in Charge, ProviderAnswers(c, charge)
       PROVE  CallTypeOK'
  <2> DEFINE x == [call[c] EXCEPT !.pc = "settle", !.charge = charge]
  <2>1. call[c].pc = "provider" /\ call[c].ran # {}
    BY <1>2, <1>10 DEF ProviderAnswers, CallOrder
  <2>2. CASE call' = [call EXCEPT ![c].pc = "settle", ![c].charge = charge]
    <3>1. x \in CallState /\ CallOrder(x)
      BY <1>2, <2>1 DEF CallState, CallOrder
    <3>2. call' = [call EXCEPT ![c] = x]
      BY <2>2
    <3> QED
      BY <1>1, <3>1, <3>2
  <2> QED
    BY <1>6, <1>10, <2>1, <2>2 DEF ProviderAnswers
<1>11. ASSUME NEW c \in Call, NEW pc \in {"record", "release", "failed", "crashed", "delivered"},
              call[c].pc # "idle", Goto(c, pc)
       PROVE  CallTypeOK'
  <2> DEFINE x == [call[c] EXCEPT !.pc = pc]
  <2>1. x \in CallState /\ CallOrder(x)
    BY <1>2, <1>11 DEF CallState, CallOrder
  <2>2. call' = [call EXCEPT ![c] = x]
    BY <1>11 DEF Goto
  <2> QED
    BY <1>1, <2>1, <2>2
<1>12. ASSUME NEW c \in Call, SettleStep(c)
       PROVE  CallTypeOK'
  BY <1>6, <1>11, <1>12 DEF SettleStep
<1>13. ASSUME NEW c \in Call, SettleFails(c)
       PROVE  CallTypeOK'
  BY <1>6, <1>13, SettleErrorType DEF SettleFails
<1>14. ASSUME NEW c \in Call, RejectStep(c)
       PROVE  CallTypeOK'
  BY <1>6, <1>11, <1>14 DEF RejectStep
<1>16. ASSUME NEW c \in Call, RecordStep(c)
       PROVE  CallTypeOK'
  <2> DEFINE x == [call[c] EXCEPT !.pc = "failed", !.lost = TRUE]
  <2>1. CASE call' = [call EXCEPT ![c].pc = "failed", ![c].lost = TRUE]
    <3>1. x \in CallState /\ CallOrder(x)
      BY <1>2, <1>16 DEF RecordStep, CallState, CallOrder
    <3>2. call' = [call EXCEPT ![c] = x]
      BY <2>1
    <3> QED
      BY <1>1, <3>1, <3>2
  <2>2. CASE Goto(c, "failed")
    BY <1>11, <1>16, <2>2 DEF RecordStep
  <2> QED
    BY <1>16, <2>1, <2>2 DEF RecordStep
<1>17. ASSUME NEW c \in Call, ReleaseStep(c) \/ Crash(c)
       PROVE  CallTypeOK'
  BY <1>11, <1>17 DEF ReleaseStep, Crash, Running
<1>15. ASSUME UNCHANGED call
       PROVE  CallTypeOK'
  BY <1>15 DEF CallTypeOK
<1> QED
  BY <1>3, <1>4, <1>5, <1>8, <1>9, <1>10, <1>12, <1>13, <1>14, <1>15, <1>16, <1>17,
     GatewayCases DEF ExpireStep, Webhook, gatewayVars

-----------------------------------------------------------------------------
(* The gateway is a caller of the wallet.  *)

LEMMA UsesWalletStep == CallTypeOK /\ [GatewayNext]_gatewayVars => [BillingNext]_vars
<1> SUFFICES ASSUME CallTypeOK, [GatewayNext]_gatewayVars PROVE [BillingNext]_vars
  OBVIOUS
<1>1. \A c \in Call : /\ call[c].pc # "idle" => call[c].key \in Key /\ TraceOf[call[c].key] \in Trace
                      /\ call[c].charge \in Charge
  BY CallAssumption DEF CallTypeOK, CallState, CallOrder
<1>2. ASSUME UNCHANGED billingVars, WalletNext \/ UNCHANGED walletVars
      PROVE  [BillingNext]_vars
  BY <1>2 DEF BillingNext, vars
<1>3. ASSUME NEW c \in Call, NEW k \in Key, NEW a \in Amount, ReserveStep(c, k, a)
      PROVE  [BillingNext]_vars
  BY <1>2, <1>3 DEF ReserveStep, WalletNext
<1>4. ASSUME NEW c \in Call, ClaimStep(c)
      PROVE  [BillingNext]_vars
  BY <1>1, <1>2, <1>4 DEF ClaimStep, WalletNext
<1>5. ASSUME NEW c \in Call, SettleStep(c)
      PROVE  [BillingNext]_vars
  BY <1>1, <1>2, <1>5 DEF SettleStep, WalletNext
<1>6. ASSUME NEW c \in Call, RejectStep(c) \/ RecordStep(c)
      PROVE  [BillingNext]_vars
  <2>1. \/ RecordUsage(call[c].key, TraceOf[call[c].key], "REJECTED")
        \/ RecordUsage(call[c].key, TraceOf[call[c].key], "FAILED_COST_UNVERIFIED")
        \/ UNCHANGED walletVars
    BY <1>6 DEF RejectStep, RecordStep
  <2>2. call[c].key \in Key /\ TraceOf[call[c].key] \in Trace /\ UNCHANGED billingVars
    BY <1>1, <1>6 DEF RejectStep, RecordStep
  <2>3. WalletNext \/ UNCHANGED walletVars
    BY <2>1, <2>2 DEF WalletNext
  <2> QED
    BY <1>2, <2>2, <2>3
<1>7. ASSUME NEW c \in Call, ReleaseStep(c)
      PROVE  [BillingNext]_vars
  BY <1>1, <1>2, <1>7 DEF ReleaseStep, WalletNext
<1>8. ASSUME NEW k \in Key, ExpireStep(k)
      PROVE  [BillingNext]_vars
  BY <1>2, <1>8 DEF ExpireStep, WalletNext
<1>9. ASSUME Webhook
      PROVE  [BillingNext]_vars
  BY <1>9 DEF Webhook, BillingNext
<1>10. ASSUME UNCHANGED vars
       PROVE  [BillingNext]_vars
  BY <1>10
<1> QED
  BY <1>3, <1>4, <1>5, <1>6, <1>7, <1>8, <1>9, <1>10, GatewayCases
     DEF Invoke, SkipCandidate, ProviderFails, ProviderAnswers, SettleFails, Crash, gatewayVars

LEMMA CallTypeCorrect == GatewaySpec => []CallTypeOK
BY CallTypeInit, CallTypeStep, PTL DEF GatewaySpec

(* Whatever the providers, the crashes and the retries do, the gateway uses *)
(* the wallet as Billing allows: what is proved of the wallet holds in it.  *)
THEOREM GatewayUsesWallet == GatewaySpec => UsesWallet
<1>1. GatewayInit => BillingInit
  BY DEF GatewayInit
<1> QED
  BY <1>1, CallTypeCorrect, UsesWalletStep, PTL DEF GatewaySpec, UsesWallet, BillingSpec

(* What holds of the wallet holds of it under the gateway too, with every   *)
(* call that crashes, retries or loses an answer: it is the prepaid account *)
(* of its abstract specification, and its holds stay covered.               *)
COROLLARY GatewayKeepsAccount == GatewaySpec => AccountSpec /\ []HoldsCovered
BY GatewayUsesWallet, WalletImplementsAccount, HoldsCoveredCorrect, PTL DEF UsesWallet

-----------------------------------------------------------------------------
(* A hold has one claimant, and a settled reservation one call that knows.  *)

LEMMA CallInvInit == GatewayInit => CallInv
BY DEF GatewayInit, BillingInit, Init, CallInv, HoldOfCall, Claimed, OneClaimant,
       SettledByCall, UsageTraced, NoReservation

(* What one call has to keep when it moves.  *)
CallKeeps(c) ==
  /\ HoldOfCall(c)'
  /\ Claimed(c)' => \/ Claimed(c) /\ call'[c].key = call[c].key
                    \/ reservation[call'[c].key].status = "RESERVED"
  /\ \A k \in Key : SettledBy(c, k) =>
       /\ call'[c].pc \in {"delivered", "release", "record", "failed", "crashed"}
       /\ call'[c].key = call[c].key /\ call'[c].ran = call[c].ran
       /\ call'[c].charge = call[c].charge /\ call'[c].error = call[c].error

(* A step moves one call at most; c stands for that call.  *)
LEMMA CallMoves ==
  ASSUME CallTypeOK, CallInv, ReservationKept, UsageTraced',
         NEW c, \A d \in Call : d # c => call'[d] = call[d],
         c \in Call => call'[c] = call[c] \/ CallKeeps(c),
         \A k \in Key : reservation'[k].status = "SETTLED" =>
            \/ reservation[k].status = "SETTLED"
            \/ c \in Call /\ SettledBy(c, k)'
  PROVE  CallInv'
<1>1. \A d \in Call : Claimed(d) => call[d].pc # "idle" /\ call[d].key \in Key
  BY DEF CallTypeOK, CallOrder, Claimed
<1>2. ASSUME NEW d \in Call, call'[d] = call[d]
      PROVE  HoldOfCall(d)'
  <2>1. HoldOfCall(d) /\ (call[d].pc # "idle" => call[d].key \in Key)
    BY DEF CallInv, CallTypeOK, CallOrder
  <2>2. Claimed(d)' <=> Claimed(d)
    BY <1>2 DEF Claimed
  <2> QED
    BY <1>1, <1>2, <2>1, <2>2 DEF HoldOfCall, ReservationKept
<1>3. \A d \in Call : HoldOfCall(d)'
  BY <1>2 DEF CallKeeps
<1>4. ASSUME NEW d \in Call, Claimed(d)'
      PROVE  \/ Claimed(d) /\ call'[d].key = call[d].key
             \/ d = c /\ reservation[call'[d].key].status = "RESERVED"
  BY <1>4 DEF CallKeeps, Claimed
<1>5. ASSUME NEW d \in Call, NEW e \in Call, Claimed(d)', Claimed(e)',
             call'[d].key = call'[e].key
      PROVE  d = e
  <2>1. \A f \in Call : Claimed(f) => reservation[call[f].key].status # "RESERVED"
    BY DEF CallInv, HoldOfCall
  <2> QED
    BY <1>4, <1>5, <2>1 DEF CallInv, OneClaimant
<1>6. ASSUME NEW k \in Key, NEW d \in Call, SettledBy(d, k), reservation[k].status = "SETTLED"
      PROVE  SettledBy(d, k)'
  <2>1. reservation'[k].charge = reservation[k].charge
    BY <1>6 DEF ReservationKept
  <2> QED
    BY <1>6, <2>1 DEF SettledBy, CallKeeps
<1>7. SettledByCall'
  BY <1>6 DEF CallInv, SettledByCall
<1> QED
  BY <1>3, <1>5, <1>7 DEF CallInv, OneClaimant

NothingSettled ==
  \A k \in Key : reservation'[k].status = "SETTLED" => reservation[k].status = "SETTLED"

LEMMA CallInvStep ==
  TypeOK /\ CallTypeOK /\ CallTypeOK' /\ CallInv /\ [GatewayNext]_gatewayVars => CallInv'
<1> SUFFICES ASSUME TypeOK, CallTypeOK, CallTypeOK', CallInv, [GatewayNext]_gatewayVars
             PROVE  CallInv'
  OBVIOUS
<1>0. ReservationKept
  BY UsesWalletStep, ReservationStays
<1>1. \A c \in Call : /\ call[c] \in CallState /\ CallOrder(call[c]) /\ HoldOfCall(c)
                      /\ call[c].pc # "idle" => call[c].key \in Key
  BY DEF CallTypeOK, CallOrder, CallInv
<1>2. UsageTraced
  BY DEF CallInv
<1>a. ASSUME UNCHANGED <<reservation, usage>>
      PROVE  NothingSettled /\ UsageTraced'
  BY <1>2, <1>a DEF NothingSettled, UsageTraced
<1>b. ASSUME NEW k \in Key, NEW s, RecordUsage(k, TraceOf[k], s)
      PROVE  NothingSettled /\ UsageTraced'
  BY <1>2, <1>b DEF NothingSettled, UsageTraced, RecordUsage, AddUsage
(* A step of c that leaves the wallet, or only adds a usage event, and       *)
(* moves c beyond the steps of the claim.                                    *)
<1>c. ASSUME NEW c \in Call, \A d \in Call : d # c => call'[d] = call[d],
             CallKeeps(c), NothingSettled, UsageTraced'
      PROVE  CallInv'
  BY <1>0, <1>c, CallMoves DEF NothingSettled
<1>3. ASSUME NEW c \in Call, NEW k \in Key, NEW a \in Amount, ReserveStep(c, k, a)
      PROVE  CallInv'
  <2>1. /\ call[c].pc = "idle" /\ call'[c].pc = "claim" /\ call'[c].key = k
        /\ call'[c].ran = {} /\ \A d \in Call : d # c => call'[d] = call[d]
    BY <1>1, <1>3 DEF ReserveStep, CallTypeOK, CallState, CallOrder
  <2>2. reservation'[k].status # "NONE"
    <3>1. CASE Reserve(k, a)
      BY <3>1 DEF Reserve, TypeOK, NoReservation
    <3>2. CASE ~Reserve(k, a)
      BY <1>3, <3>2 DEF ReserveStep, walletVars
    <3> QED
      BY <3>1, <3>2
  <2>3. CallKeeps(c)
    BY <2>1, <2>2 DEF CallKeeps, HoldOfCall, Claimed, SettledBy
  <2>4. NothingSettled /\ UNCHANGED usage
    BY <1>3 DEF ReserveStep, Reserve, walletVars, NothingSettled, TypeOK, NoReservation
  <2>5. UsageTraced'
    BY <1>2, <2>4 DEF UsageTraced
  <2> QED
    BY <1>c, <2>1, <2>3, <2>4, <2>5
<1>4. ASSUME NEW c \in Call, ClaimStep(c)
      PROVE  CallInv'
  <2>1. /\ call[c].pc = "claim" /\ call[c].ran = {} /\ call[c].key \in Key
        /\ \A d \in Call : d # c => call'[d] = call[d]
    BY <1>1, <1>4 DEF ClaimStep, Goto, CallTypeOK, CallOrder
  <2>2. NothingSettled /\ UNCHANGED usage
    BY <1>4, <2>1 DEF ClaimStep, Claim, walletVars, NothingSettled, TypeOK, Reservation
  <2>3. UsageTraced'
    BY <1>2, <2>2 DEF UsageTraced
  <2>4. CASE Claim(call[c].key) /\ Goto(c, "route")
    <3>1. /\ call'[c].pc = "route" /\ call'[c].key = call[c].key
      BY <1>1, <2>4 DEF Goto, CallTypeOK, CallState
    <3>2. /\ reservation[call[c].key].status = "RESERVED"
          /\ reservation'[call[c].key].status = "PROCESSING"
      BY <2>1, <2>4 DEF Claim, TypeOK, Reservation
    <3>3. CallKeeps(c)
      BY <2>1, <3>1, <3>2 DEF CallKeeps, HoldOfCall, SettledBy
    <3> QED
      BY <1>c, <2>1, <2>2, <2>3, <3>3
  <2>5. CASE UNCHANGED walletVars /\ Goto(c, "failed")
    <3>1. call'[c].pc = "failed" /\ call'[c].key = call[c].key /\ call'[c].ran = {}
      BY <1>1, <2>1, <2>5 DEF Goto, CallTypeOK, CallState
    <3>2. CallKeeps(c)
      BY <1>1, <2>1, <2>5, <3>1 DEF CallKeeps, HoldOfCall, Claimed, SettledBy, walletVars
    <3> QED
      BY <1>c, <2>1, <2>2, <2>3, <3>2
  <2> QED
    BY <1>4, <2>4, <2>5 DEF ClaimStep
(* The steps between the claim and the end of the call.  *)
<1>5. ASSUME NEW c \in Call, Claimed(c),
             call[c].pc \in {"route", "provider", "settle", "reject"},
             \A d \in Call : d # c => call'[d] = call[d],
             call'[c].key = call[c].key,
             call'[c].pc \in {"route", "provider", "settle", "reject", "release", "crashed"},
             call'[c].pc = "settle" => call'[c].charge <= reservation'[call[c].key].amount,
             NothingSettled, UsageTraced'
      PROVE  CallInv'
  <2>1. /\ HoldOfCall(c) /\ call[c].key \in Key
    BY <1>1, <1>5
  <2>2. /\ reservation'[call[c].key].status \notin {"NONE", "RESERVED"}
    BY <1>0, <1>5, <2>1 DEF HoldOfCall, ReservationKept
  <2>3. CallKeeps(c)
    BY <1>5, <2>2 DEF CallKeeps, HoldOfCall, SettledBy
  <2> QED
    BY <1>c, <1>5, <2>3
<1>6. ASSUME NEW c \in Call, Invoke(c)
      PROVE  CallInv'
  <2>1. /\ call[c].pc = "route" /\ call'[c].pc = "provider" /\ call'[c].key = call[c].key
        /\ \A d \in Call : d # c => call'[d] = call[d]
    BY <1>1, <1>6 DEF Invoke, CallTypeOK, CallState
  <2> QED
    BY <1>a, <1>5, <1>6, <2>1 DEF Invoke, Claimed, vars, walletVars
<1>7. ASSUME NEW c \in Call, SkipCandidate(c)
      PROVE  CallInv'
  <2>1. /\ call[c].pc = "route" /\ call'[c].pc \in {"route", "release"}
        /\ call'[c].key = call[c].key /\ \A d \in Call : d # c => call'[d] = call[d]
    BY <1>1, <1>7 DEF SkipCandidate, Fail, CallTypeOK, CallState
  <2> QED
    BY <1>a, <1>5, <1>7, <2>1 DEF SkipCandidate, Claimed, vars, walletVars
<1>8. ASSUME NEW c \in Call, ProviderFails(c)
      PROVE  CallInv'
  <2>1. /\ call[c].pc = "provider" /\ call'[c].pc \in {"route", "release"}
        /\ call'[c].key = call[c].key /\ \A d \in Call : d # c => call'[d] = call[d]
    BY <1>1, <1>8 DEF ProviderFails, Fail, CallTypeOK, CallState
  <2> QED
    BY <1>a, <1>5, <1>8, <2>1 DEF ProviderFails, Claimed, vars, walletVars
<1>9. ASSUME NEW c \in Call, NEW charge \in Charge, ProviderAnswers(c, charge)
      PROVE  CallInv'
  <2>1. /\ call[c].pc = "provider" /\ call'[c].pc \in {"settle", "reject", "release"}
        /\ call'[c].key = call[c].key /\ \A d \in Call : d # c => call'[d] = call[d]
        /\ call'[c].pc = "settle" => call'[c].charge <= reservation[call[c].key].amount
    BY <1>1, <1>9 DEF ProviderAnswers, Fail, CallTypeOK, CallState
  <2> QED
    BY <1>a, <1>5, <1>9, <2>1 DEF ProviderAnswers, Claimed, vars, walletVars
<1>10. ASSUME NEW c \in Call, SettleStep(c)
       PROVE  CallInv'
  <2>0. PICK k \in Key : k = call[c].key
    BY <1>1, <1>10 DEF SettleStep
  <2>1. /\ call[c].pc = "settle" /\ call[c].ran # {} /\ call[c].error = "NONE"
    BY <1>1, <1>10 DEF SettleStep, CallOrder
  <2>2. /\ call'[c].key = k /\ call'[c].charge = call[c].charge /\ call'[c].ran # {}
        /\ \/ call'[c].pc = "delivered" /\ call'[c].error = "NONE"
           \/ call'[c].pc = "release" /\ call'[c].error = "DATABASE"
        /\ \A d \in Call : d # c => call'[d] = call[d]
    BY <1>1, <1>10, <2>0, <2>1 DEF SettleStep, Goto, Fail, CallTypeOK, CallState
  <2>3. /\ reservation'[k].status = "SETTLED" /\ reservation'[k].charge = call[c].charge
        /\ \A j \in Key \ {k} : reservation'[j] = reservation[j]
    BY <1>10, <2>0, <2>1 DEF SettleStep, Settle, TypeOK, Reservation
  <2>4. UsageTraced'
    BY <1>2, <1>10 DEF SettleStep, Settle, AddUsage, UsageTraced
  <2>5. SettledBy(c, k)'
    BY <2>2, <2>3 DEF SettledBy
  <2>6. \A j \in Key : reservation'[j].status = "SETTLED" =>
          reservation[j].status = "SETTLED" \/ SettledBy(c, j)'
    BY <2>3, <2>5
  <2>7. CallKeeps(c)
    BY <2>0, <2>1, <2>2, <2>3 DEF CallKeeps, HoldOfCall, Claimed, SettledBy
  <2> QED
    BY <1>0, <2>2, <2>4, <2>6, <2>7, CallMoves
<1>11. ASSUME NEW c \in Call, SettleFails(c)
       PROVE  CallInv'
  <2>1. /\ call[c].pc = "settle" /\ call'[c].pc = "release"
        /\ call'[c].key = call[c].key /\ \A d \in Call : d # c => call'[d] = call[d]
    BY <1>1, <1>11 DEF SettleFails, Fail, CallTypeOK, CallState
  <2> QED
    BY <1>a, <1>5, <1>11, <2>1 DEF SettleFails, Claimed, vars, walletVars
<1>12. ASSUME NEW c \in Call, RejectStep(c)
       PROVE  CallInv'
  <2>1. /\ call[c].pc = "reject" /\ call'[c].pc = "release" /\ call[c].key \in Key
        /\ call'[c].key = call[c].key /\ \A d \in Call : d # c => call'[d] = call[d]
    BY <1>1, <1>12 DEF RejectStep, Goto, Fail, CallTypeOK, CallState
  <2>2. NothingSettled /\ UsageTraced'
    BY <1>a, <1>b, <1>12, <2>1 DEF RejectStep, walletVars
  <2> QED
    BY <1>5, <2>1, <2>2 DEF Claimed
(* The steps of the error path, and the death of a process on any of them.   *)
<1>13. ASSUME NEW c \in Call, call[c].pc \notin {"idle", "delivered"},
              NEW pc \in {"record", "failed", "crashed"}, NEW lost,
              Goto(c, pc) \/ call' = [call EXCEPT ![c].pc = pc, ![c].lost = lost],
              NothingSettled, UsageTraced'
       PROVE  CallInv'
  <2>1. /\ call'[c].pc = pc /\ call'[c].key = call[c].key /\ call'[c].ran = call[c].ran
        /\ call'[c].charge = call[c].charge /\ call'[c].error = call[c].error
        /\ call[c].key \in Key /\ \A d \in Call : d # c => call'[d] = call[d]
    BY <1>1, <1>13 DEF Goto, CallTypeOK, CallState
  <2>2. /\ reservation'[call[c].key].status # "NONE"
        /\ Claimed(c) => reservation'[call[c].key].status \notin {"NONE", "RESERVED"}
    BY <1>0, <1>1, <1>13, <2>1 DEF HoldOfCall, ReservationKept
  <2>3. Claimed(c)' => Claimed(c)
    BY <2>1 DEF Claimed
  <2>4. CallKeeps(c)
    BY <2>1, <2>2, <2>3 DEF CallKeeps, HoldOfCall, SettledBy
  <2> QED
    BY <1>c, <1>13, <2>1, <2>4
<1>14. ASSUME NEW c \in Call, ReleaseStep(c)
       PROVE  CallInv'
  <2>1. call[c].pc = "release" /\ call[c].key \in Key
    BY <1>1, <1>14 DEF ReleaseStep
  <2>2. NothingSettled /\ UNCHANGED usage
    BY <1>14, <2>1 DEF ReleaseStep, Release, walletVars, NothingSettled, TypeOK, Reservation
  <2>3. UsageTraced'
    BY <1>2, <2>2 DEF UsageTraced
  <2> QED
    BY <1>13, <1>14, <2>1, <2>2, <2>3 DEF ReleaseStep
<1>15. ASSUME NEW c \in Call, RecordStep(c)
       PROVE  CallInv'
  <2>1. call[c].pc = "record" /\ call[c].key \in Key
    BY <1>1, <1>15 DEF RecordStep
  <2>2. NothingSettled /\ UsageTraced'
    BY <1>a, <1>b, <1>15, <2>1 DEF RecordStep, walletVars
  <2> QED
    BY <1>13, <1>15, <2>1, <2>2 DEF RecordStep
<1>16. ASSUME NEW c \in Call, Crash(c)
       PROVE  CallInv'
  <2>1. NothingSettled /\ UsageTraced'
    BY <1>a, <1>16 DEF Crash, vars, walletVars
  <2> QED
    BY <1>13, <1>16, <2>1 DEF Crash, Running
<1>17. ASSUME UNCHANGED call, NothingSettled, UNCHANGED usage
       PROVE  CallInv'
  <2>1. UsageTraced'
    BY <1>2, <1>17 DEF UsageTraced
  <2> QED
    BY <1>0, <1>17, <2>1, CallMoves DEF NothingSettled
<1>18. ASSUME NEW k \in Key, ExpireStep(k)
       PROVE  CallInv'
  <2>1. NothingSettled /\ UNCHANGED usage
    BY <1>18 DEF ExpireStep, Expire, NothingSettled, TypeOK, Reservation
  <2> QED
    BY <1>17, <1>18, <2>1 DEF ExpireStep
<1>19. ASSUME Webhook
       PROVE  CallInv'
  <2>1. UNCHANGED <<reservation, usage, call>>
    BY <1>19 DEF Webhook, WebhookNext, CreditTopup, ActivatePaidAddon, RecordPaidCycle,
       ReverseWalletPayment, walletVars
  <2> QED
    BY <1>17, <2>1 DEF NothingSettled
<1>20. ASSUME UNCHANGED gatewayVars
       PROVE  CallInv'
  BY <1>17, <1>20 DEF gatewayVars, vars, walletVars, NothingSettled
<1> QED
  BY <1>3, <1>4, <1>6, <1>7, <1>8, <1>9, <1>10, <1>11, <1>12, <1>14, <1>15, <1>16,
     <1>18, <1>19, <1>20, GatewayCases

LEMMA CallInvCorrect == GatewaySpec => []CallInv
<1>1. GatewaySpec => []TypeOK
  BY GatewayUsesWallet, TypeCorrect, PTL DEF UsesWallet
<1> QED
  BY <1>1, CallTypeCorrect, CallInvInit, CallInvStep, PTL DEF GatewaySpec

(* An idempotency key has a provider executed by one call at most, however  *)
(* many calls are sent with it and wherever they fail, crash or expire.     *)
THEOREM ExecutedOnceCorrect == GatewaySpec => []ExecutedOnce
<1>1. CallInv => ExecutedOnce
  BY DEF CallInv, OneClaimant, Claimed, ExecutedOnce
<1> QED
  BY <1>1, CallInvCorrect, PTL

(* An answer that reached the caller is debited and has its usage event,    *)
(* and a debit is the price some call's provider answered, even when the    *)
(* acknowledgement of the commit was lost.                                  *)
THEOREM DeliveredIsPaidCorrect == GatewaySpec => []DeliveredIsPaid
<1>1. ASSUME DebitMatchesReservation, CallTypeOK, CallInv
      PROVE  DeliveredIsPaid
  <2>1. ASSUME NEW c \in Call, call[c].pc = "delivered"
        PROVE  /\ ledger[<<"usage", call[c].key>>] = - call[c].charge
               /\ \E u \in usage : /\ u.key = call[c].key /\ u.status = "COMPLETED"
                                   /\ u.charge = call[c].charge
    <3>1. call[c].key \in Key
      BY <1>1, <2>1 DEF CallTypeOK, CallOrder
    <3>2. /\ reservation[call[c].key].status = "SETTLED"
          /\ reservation[call[c].key].charge = call[c].charge
      BY <1>1, <2>1 DEF CallInv, HoldOfCall
    <3> QED
      BY <1>1, <3>1, <3>2 DEF DebitMatchesReservation, DebitMatches
  <2>2. ASSUME NEW k \in Key, reservation[k].status = "SETTLED"
        PROVE  \E c \in Call : /\ call[c].key = k /\ call[c].ran # {}
                               /\ call[c].charge = reservation[k].charge
                               /\ call[c].error \in {"NONE", "DATABASE"}
    BY <1>1, <2>2 DEF CallInv, SettledByCall, SettledBy
  <2> QED
    BY <2>1, <2>2 DEF DeliveredIsPaid
<1> QED
  BY <1>1, GatewayUsesWallet, DebitCorrect, CallTypeCorrect, CallInvCorrect, PTL DEF UsesWallet

(* While no charge was settled late and no payment taken back, a call that  *)
(* settles before its hold expires finds the funds, whatever the other      *)
(* calls and the webhooks did since it reserved them.                       *)
THEOREM UnexpiredHoldPaysCorrect == GatewaySpec => []UnexpiredHoldPays
<1>1. ASSUME TypeOK, PaymentsPosted, HoldsFinite, HoldsCovered, CallTypeOK, CallInv
      PROVE  UnexpiredHoldPays
  <2>1. SUFFICES ASSUME NEW c \in Call, call[c].pc = "settle", call[c].key \in ActiveHolds,
                        Total(LateCharges) = 0, Reversal = {}
                 PROVE  call[c].charge <= balance
    BY DEF UnexpiredHoldPays
  <2>2. HoldRows
    BY <1>1, HoldRowsType
  <2>3. TakenBack = [e \in Payment |-> 0]
    BY <2>1 DEF TakenBack, Where
  <2>4. Total(TakenBack) = 0
    BY <2>3, TotalZero
  <2>5. /\ call[c].key \in Key /\ call[c].charge \in Nat
        /\ call[c].charge <= reservation[call[c].key].amount
    <3>1. call[c].charge \in Nat
      <4>1. Charge \subseteq Nat
        BY AmountAssumption DEF Charge
      <4>2. call[c].charge \in Charge
        BY <1>1 DEF CallTypeOK, CallState
      <4> QED
        BY <4>1, <4>2
    <3>2. call[c].key \in Key
      BY <1>1, <2>1 DEF CallTypeOK, CallOrder
    <3>3. call[c].charge <= reservation[call[c].key].amount
      BY <1>1, <2>1 DEF CallInv, HoldOfCall
    <3> QED
      BY <3>1, <3>2, <3>3
  <2>6. Holds[call[c].key] = reservation[call[c].key].amount /\ Holds \in [Key -> Nat]
    BY <2>1, <2>2, <2>5 DEF HoldRows
  <2>7. Holds[call[c].key] <= Total(Holds)
    BY <1>1, <2>5, <2>6, TotalRow DEF HoldsFinite
  <2>8. Total(Holds) <= balance + Total(LateCharges) + Total(TakenBack)
    BY <1>1 DEF HoldsCovered, Holds
  <2>9. Total(Holds) \in Nat /\ balance \in Nat
    BY <1>1, TotalType DEF HoldsFinite, TypeOK
  <2>10. Holds[call[c].key] \in Nat
    BY <2>5, <2>6
  <2> QED
    BY <2>1, <2>4, <2>5, <2>6, <2>7, <2>8, <2>9, <2>10
<1> QED
  BY <1>1, GatewayUsesWallet, TypeCorrect, PaymentsCorrect, HoldsInvCorrect,
     CallTypeCorrect, CallInvCorrect, PTL DEF UsesWallet

-----------------------------------------------------------------------------
(* Evidence of every external call.  *)

LEMMA EvidenceInit == GatewayInit => EvidenceKept
BY DEF GatewayInit, EvidenceKept, Ended

LEMMA EvidenceStep ==
  /\ TypeOK /\ DebitMatchesReservation' /\ CallTypeOK /\ CallTypeOK' /\ CallInv'
  /\ EvidenceKept /\ [GatewayNext]_gatewayVars
  => EvidenceKept'
<1> SUFFICES ASSUME TypeOK, DebitMatchesReservation', CallTypeOK, CallTypeOK', CallInv',
                    EvidenceKept, [GatewayNext]_gatewayVars,
                    NEW c \in Call, call'[c].pc \in {"delivered", "failed"}, call'[c].ran # {}
             PROVE  \/ \E u \in usage' : u.key = call'[c].key
                    \/ /\ call'[c].pc = "failed"
                       /\ \/ call'[c].lost
                          \/ \E u \in usage' : u.trace = TraceOf[call'[c].key]
  BY DEF EvidenceKept, Ended
<1>0. usage \subseteq usage'
  BY UsesWalletStep, ReservationStays DEF ReservationKept
<1>1. call'[c].key \in Key
  BY DEF CallTypeOK, CallOrder
<1>2. CASE call'[c].pc = "delivered"
  <2>1. reservation'[call'[c].key].status = "SETTLED"
    BY <1>2 DEF CallInv, HoldOfCall
  <2> QED
    BY <1>1, <2>1 DEF DebitMatchesReservation, DebitMatches
<1>3. CASE call'[c] = call[c]
  BY <1>0, <1>3 DEF EvidenceKept, Ended
<1>4. CASE RecordStep(c)
  <2>1. /\ call'[c].pc = "failed" /\ call'[c].key = call[c].key
    BY <1>4 DEF RecordStep, Goto, CallTypeOK, CallState
  <2>2. CASE RecordUsage(call[c].key, TraceOf[call[c].key], "FAILED_COST_UNVERIFIED")
    <3> DEFINE row == [key |-> call[c].key, trace |-> TraceOf[call[c].key], charge |-> 0,
                       status |-> "FAILED_COST_UNVERIFIED"]
    <3>1. row \in usage' /\ row.key = call[c].key
      BY <2>2 DEF RecordUsage, AddUsage
    <3> QED
      BY ONLY <2>1, <3>1
  <2>3. CASE ~UsageFree(call[c].key, TraceOf[call[c].key])
    <3>1. PICK u \in usage : u.key = call[c].key \/ u.trace = TraceOf[call[c].key]
      BY <2>3 DEF UsageFree
    <3> QED
      BY <1>0, <2>1, <3>1
  <2>4. CASE call' = [call EXCEPT ![c].pc = "failed", ![c].lost = TRUE]
    <3>1. call'[c].lost
      BY <2>4 DEF CallTypeOK, CallState
    <3> QED
      BY <2>1, <3>1
  <2> QED
    BY <1>4, <2>2, <2>3, <2>4 DEF RecordStep
<1>5. ASSUME ClaimStep(c), call'[c].pc = "failed"
      PROVE  FALSE
  BY <1>5 DEF ClaimStep, Goto, CallTypeOK, CallOrder, CallState
<1>6. ASSUME NEW d \in Call, d # c,
             \/ \E k \in Key, a \in Amount : ReserveStep(d, k, a)
             \/ CallStep(d) \/ Crash(d)
      PROVE  call'[c] = call[c]
  BY <1>6 DEF ReserveStep, CallStep, ClaimStep, Invoke, SkipCandidate, ProviderFails,
     ProviderAnswers, SettleStep, SettleFails, RejectStep, ReleaseStep, RecordStep, Crash,
     Goto, Fail, CallTypeOK
<1>7. ASSUME \/ \E k \in Key, a \in Amount : ReserveStep(c, k, a)
             \/ Invoke(c) \/ SkipCandidate(c) \/ ProviderFails(c)
             \/ \E charge \in Charge : ProviderAnswers(c, charge)
             \/ SettleStep(c) \/ SettleFails(c) \/ RejectStep(c) \/ ReleaseStep(c) \/ Crash(c)
      PROVE  call'[c].pc # "failed"
  BY <1>7 DEF ReserveStep, Invoke, SkipCandidate, ProviderFails,
     ProviderAnswers, SettleStep, SettleFails, RejectStep, ReleaseStep, Crash,
     Goto, Fail, CallTypeOK, CallState
<1>8. ASSUME (\E k \in Key : ExpireStep(k)) \/ Webhook \/ UNCHANGED gatewayVars
      PROVE  call'[c] = call[c]
  BY <1>8 DEF ExpireStep, Webhook, gatewayVars
<1> QED
  BY <1>2, <1>3, <1>4, <1>5, <1>6, <1>7, <1>8 DEF GatewayNext, CallStep

(* What is left of a failed or an answered external call: its usage event,  *)
(* or that of the trace it shares with another key, unless the database     *)
(* failed in its very last write; for any candidates, traces and order in   *)
(* which the callers send their keys.                                       *)
THEOREM EvidenceCorrect == GatewaySpec => []EvidenceKept
BY EvidenceInit, EvidenceStep, GatewayUsesWallet, TypeCorrect, DebitCorrect, CallTypeCorrect,
   CallInvCorrect, PTL DEF UsesWallet, GatewaySpec
=============================================================================
