--------------------------- MODULE PrepaidAccount ---------------------------
(***************************************************************************)
(* What the wallet promises, without reservations, usage events or         *)
(* webhooks: an account whose funds never go below zero, where each        *)
(* idempotency key moves the funds at most once, for good, and a key that  *)
(* was closed without a movement never moves them afterwards.              *)
(***************************************************************************)
EXTENDS Integers

CONSTANTS
  PostingKey,   \* idempotency keys
  Movement,     \* amounts that move the funds, in or out
  OpeningKey, Opening

VARIABLES
  funds,    \* the funds of the account
  posted,   \* the movement of each key, 0 = none
  closed    \* keys that will never move the funds

accountVars == <<funds, posted, closed>>

AccountInit ==
  /\ funds = Opening
  /\ posted = [x \in PostingKey |-> IF x = OpeningKey THEN Opening ELSE 0]
  /\ closed = {}

Move(x, amount) ==
  /\ posted[x] = 0 /\ x \notin closed
  /\ amount # 0 /\ funds + amount >= 0
  /\ funds' = funds + amount
  /\ posted' = [posted EXCEPT ![x] = amount]
  /\ UNCHANGED closed

Close(x) ==
  /\ posted[x] = 0 /\ x \notin closed
  /\ closed' = closed \cup {x}
  /\ UNCHANGED <<funds, posted>>

AccountNext == \E x \in PostingKey : Close(x) \/ \E amount \in Movement : Move(x, amount)

AccountSpec == AccountInit /\ [][AccountNext]_accountVars
=============================================================================
