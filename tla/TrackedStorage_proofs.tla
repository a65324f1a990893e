------------------------ MODULE TrackedStorage_proofs ------------------------
(***************************************************************************)
(* Proofs about TrackedSpec, for any objects, calls, tasks, sizes and      *)
(* add-ons: the quota is kept, and what is available is charged.           *)
(***************************************************************************)
EXTENDS TrackedStorage, Totals_proofs

LocationStatus ==
  {"NONE", "ACCOUNTING_PENDING", "AVAILABLE", "DELETING", "DELETED", "DELETE_ACCOUNTING_PENDING"}

(* The types the two invariants rest on.  That the counters stay above zero *)
(* is not needed.                                                           *)
Typed ==
  /\ usage \in [Columns -> Int]
  /\ capacity \in Int
  /\ reservation \in [Object -> {"NONE", "RESERVED", "COMMITTED", "ABORTED"}]
  /\ storageLedger \in [LedgerKey -> [Columns -> Int]]
  /\ location \in [Object -> LocationStatus]
  /\ task \in Tasks

(* Deletes count only what was committed, and an object stays charged while *)
(* its delete is under way, since the store may refuse it.                  *)
Charged ==
  \A o \in Object :
    /\ location[o] \in {"AVAILABLE", "DELETING"} =>
         reservation[o] = "COMMITTED" /\ storageLedger[<<"delete", o>>] = NoBytes
    /\ storageLedger[<<"delete", o>>] # NoBytes => reservation[o] = "COMMITTED"

-----------------------------------------------------------------------------
(* The task of a call is about an object.  *)
LEMMA TaskObject ==
  ASSUME task \in Tasks, NEW c \in Call
  PROVE  ObjectOf(c) \in Object
BY TaskAssumption DEF ObjectOf, Task

(* What each transaction moves.  *)
LEMMA DeltaTypes ==
  ASSUME NEW o \in Object
  PROVE  /\ Reserving(o) \in [Columns -> Int] /\ Committing(o) \in [Columns -> Int]
         /\ Aborting(o) \in [Columns -> Int] /\ Deleting(o) \in [Columns -> Int]
         /\ NoBytes \in [Columns -> Int]
<1>1. BytesOf[o] \in Nat \ {0}
  BY StorageAssumption
<1>2. Claimed(o) \in Int /\ -Claimed(o) \in Int
  BY <1>1 DEF Claimed
<1>3. NoBytes \in [Columns -> Int]
  BY DEF NoBytes, Columns
<1>4. ColumnOf(o) \in Columns
  BY DEF ColumnOf, Columns
<1>5. Reserving(o) \in [Columns -> Int]
  BY <1>2, <1>3 DEF Reserving
<1>6. Aborting(o) \in [Columns -> Int]
  BY <1>2, <1>3 DEF Aborting
<1>7. Committing(o) \in [Columns -> Int]
  BY <1>1, <1>2, <1>3, <1>4 DEF Committing
<1>8. Deleting(o) \in [Columns -> Int]
  BY <1>1, <1>3, <1>4 DEF Deleting
<1> QED
  BY <1>3, <1>5, <1>7, <1>8, <1>6

(* The sum that the quota bounds changes by these amounts.  *)
LEMMA DeltaSums ==
  ASSUME NEW o \in Object
  PROVE  /\ Reserving(o)["production"] + Reserving(o)["reserved"] = Claimed(o)
         /\ Committing(o)["production"] + Committing(o)["reserved"] = 0
         /\ Aborting(o)["production"] + Aborting(o)["reserved"] <= 0
         /\ Deleting(o)["production"] + Deleting(o)["reserved"] <= 0
<1>1. BytesOf[o] \in Nat \ {0}
  BY StorageAssumption
<1>2. CASE o \in Temporary
  BY <1>1, <1>2 DEF Reserving, Committing, Aborting, Deleting, NoBytes, Columns, ColumnOf, Claimed
<1>3. CASE o \notin Temporary
  BY <1>1, <1>3 DEF Reserving, Committing, Aborting, Deleting, NoBytes, Columns, ColumnOf, Claimed
<1> QED
  BY <1>2, <1>3

(* A recorded movement keeps the types and moves the sum by its delta.  *)
LEMMA RecordMoves ==
  ASSUME Typed, NEW key \in LedgerKey, NEW delta \in [Columns -> Int], Record(key, delta)
  PROVE  /\ usage' \in [Columns -> Int] /\ capacity' = capacity
         /\ storageLedger' \in [LedgerKey -> [Columns -> Int]]
         /\ usage'["production"] + usage'["reserved"]
              = (usage["production"] + usage["reserved"])
                  + (delta["production"] + delta["reserved"])
BY DEF Typed, Record, Columns

(* The quota through each transaction of the accounting.  *)
LEMMA AccountingKeepsQuota ==
  ASSUME Typed, QuotaKept, NEW o \in Object,
         Reserve(o) \/ Commit(o) \/ Abort(o) \/ CountDelete(o)
  PROVE  /\ usage' \in [Columns -> Int] /\ capacity' \in Int
         /\ reservation' \in [Object -> {"NONE", "RESERVED", "COMMITTED", "ABORTED"}]
         /\ storageLedger' \in [LedgerKey -> [Columns -> Int]]
         /\ QuotaKept'
<1>0. /\ <<"reserve", o>> \in LedgerKey /\ <<"commit", o>> \in LedgerKey
      /\ <<"abort", o>> \in LedgerKey /\ <<"delete", o>> \in LedgerKey
  BY DEF LedgerKey
<1>1. /\ Claimed(o) \in Nat
      /\ usage["production"] \in Int /\ usage["reserved"] \in Int /\ capacity \in Int
  BY StorageAssumption DEF Claimed, Typed, Columns
<1>2. CASE Reserve(o)
  <2>1. Record(<<"reserve", o>>, Reserving(o))
    BY <1>2 DEF Reserve
  <2>2. usage["production"] + usage["reserved"] + Claimed(o) <= capacity
    BY <1>1, <1>2, StorageAssumption DEF Reserve, Claimed, QuotaKept
  <2>3. reservation' \in [Object -> {"NONE", "RESERVED", "COMMITTED", "ABORTED"}]
    BY <1>2 DEF Reserve, Typed
  <2> QED
    BY <1>0, <1>1, <2>1, <2>2, <2>3, RecordMoves, DeltaTypes, DeltaSums DEF QuotaKept
<1>3. CASE Commit(o)
  <2>1. Record(<<"commit", o>>, Committing(o))
    BY <1>3 DEF Commit
  <2>2. reservation' \in [Object -> {"NONE", "RESERVED", "COMMITTED", "ABORTED"}]
    BY <1>3 DEF Commit, Typed
  <2> QED
    BY <1>0, <1>1, <2>1, <2>2, RecordMoves, DeltaTypes, DeltaSums DEF QuotaKept
<1>4. CASE Abort(o)
  <2>1. Record(<<"abort", o>>, Aborting(o))
    BY <1>4 DEF Abort
  <2>2. reservation' \in [Object -> {"NONE", "RESERVED", "COMMITTED", "ABORTED"}]
    BY <1>4 DEF Abort, Typed
  <2>3. Aborting(o)["production"] \in Int /\ Aborting(o)["reserved"] \in Int
    BY DeltaTypes DEF Columns
  <2> QED
    BY <1>0, <1>1, <2>1, <2>2, <2>3, RecordMoves, DeltaTypes, DeltaSums DEF QuotaKept
<1>5. CASE CountDelete(o)
  <2>1. Record(<<"delete", o>>, Deleting(o))
    BY <1>5 DEF CountDelete
  <2>2. reservation' \in [Object -> {"NONE", "RESERVED", "COMMITTED", "ABORTED"}]
    BY <1>5 DEF CountDelete, Typed
  <2>3. Deleting(o)["production"] \in Int /\ Deleting(o)["reserved"] \in Int
    BY DeltaTypes DEF Columns
  <2> QED
    BY <1>0, <1>1, <2>1, <2>2, <2>3, RecordMoves, DeltaTypes, DeltaSums DEF QuotaKept
<1> QED
  BY <1>2, <1>3, <1>4, <1>5

(* Only the accounting of a delete writes a delete row.  *)
LEMMA OtherRowsKept ==
  ASSUME Typed, NEW key \in LedgerKey, NEW delta \in [Columns -> Int], Record(key, delta),
         NEW o \in Object, key # <<"delete", o>>
  PROVE  storageLedger'[<<"delete", o>>] = storageLedger[<<"delete", o>>]
BY DEF Typed, Record, LedgerKey

-----------------------------------------------------------------------------
(* The three together are inductive.  *)
Inv == Typed /\ QuotaKept /\ Charged

LEMMA InvInit == TrackedInit => Inv
<1> SUFFICES ASSUME TrackedInit PROVE Inv
  OBVIOUS
<1>1. Typed
  BY StorageAssumption, DeltaTypes
     DEF TrackedInit, AccountingInit, Typed, LocationStatus, NoBytes, Columns
<1>2. QuotaKept
  BY StorageAssumption DEF TrackedInit, AccountingInit, QuotaKept, NoBytes, Columns
<1>3. Charged
  BY DEF TrackedInit, AccountingInit, Charged, LedgerKey
<1> QED
  BY <1>1, <1>2, <1>3 DEF Inv

(* A step that leaves the accounting alone only has to move its location    *)
(* the right way.                                                           *)
LEMMA InvLocation ==
  ASSUME Inv, UNCHANGED <<accountingVars, task>>, NEW o \in Object, NEW status \in LocationStatus,
         location' = [location EXCEPT ![o] = status],
         status \in {"AVAILABLE", "DELETING"} => location[o] \in {"AVAILABLE", "DELETING"}
  PROVE  Inv'
<1>1. Typed'
  BY DEF Inv, Typed, accountingVars
<1>2. QuotaKept'
  BY DEF Inv, QuotaKept, accountingVars
<1>3. Charged'
  BY DEF Inv, Typed, Charged, accountingVars
<1> QED
  BY <1>1, <1>2, <1>3 DEF Inv

(* Neither a location nor a counter moves.  *)
LEMMA InvIdle ==
  ASSUME Inv, UNCHANGED <<accountingVars, location, task>>
  PROVE  Inv'
BY DEF Inv, Typed, QuotaKept, Charged, accountingVars

(* The steps with a transaction of the accounting.  *)
LEMMA InvReserve ==
  ASSUME Inv, NEW o \in Object, Reserve(o), UNCHANGED <<location, task>>
  PROVE  Inv'
<1>1. Typed' /\ QuotaKept'
  BY AccountingKeepsQuota DEF Inv, Typed
<1>2. \A p \in Object : storageLedger'[<<"delete", p>>] = storageLedger[<<"delete", p>>]
  <2>1. Record(<<"reserve", o>>, Reserving(o)) /\ <<"reserve", o>> \in LedgerKey
    BY DEF Reserve, LedgerKey
  <2>2. \A p \in Object : <<"reserve", o>> # <<"delete", p>>
    OBVIOUS
  <2> QED
    BY <2>1, <2>2, OtherRowsKept, DeltaTypes DEF Inv
<1>3. reservation' = [reservation EXCEPT ![o] = "RESERVED"] /\ reservation[o] = "NONE"
  BY DEF Reserve
<1>4. Charged'
  BY <1>2, <1>3 DEF Inv, Typed, Charged
<1> QED
  BY <1>1, <1>4 DEF Inv

LEMMA InvCommit ==
  ASSUME Inv, NEW o \in Object, Commit(o), UNCHANGED task,
         location' = [location EXCEPT ![o] = "AVAILABLE"]
  PROVE  Inv'
<1>1. Typed' /\ QuotaKept'
  BY AccountingKeepsQuota DEF Inv, Typed, LocationStatus
<1>2. \A p \in Object : storageLedger'[<<"delete", p>>] = storageLedger[<<"delete", p>>]
  <2>1. Record(<<"commit", o>>, Committing(o)) /\ <<"commit", o>> \in LedgerKey
    BY DEF Commit, LedgerKey
  <2>2. \A p \in Object : <<"commit", o>> # <<"delete", p>>
    OBVIOUS
  <2> QED
    BY <2>1, <2>2, OtherRowsKept, DeltaTypes DEF Inv
<1>3. reservation' = [reservation EXCEPT ![o] = "COMMITTED"] /\ reservation[o] = "RESERVED"
  BY DEF Commit
<1>4. Charged'
  BY <1>2, <1>3 DEF Inv, Typed, Charged
<1> QED
  BY <1>1, <1>4 DEF Inv

LEMMA InvAbort ==
  ASSUME Inv, NEW o \in Object, Abort(o), UNCHANGED <<location, task>>
  PROVE  Inv'
<1>1. Typed' /\ QuotaKept'
  BY AccountingKeepsQuota DEF Inv, Typed
<1>2. \A p \in Object : storageLedger'[<<"delete", p>>] = storageLedger[<<"delete", p>>]
  <2>1. Record(<<"abort", o>>, Aborting(o)) /\ <<"abort", o>> \in LedgerKey
    BY DEF Abort, LedgerKey
  <2>2. \A p \in Object : <<"abort", o>> # <<"delete", p>>
    OBVIOUS
  <2> QED
    BY <2>1, <2>2, OtherRowsKept, DeltaTypes DEF Inv
<1>3. reservation' = [reservation EXCEPT ![o] = "ABORTED"] /\ reservation[o] = "RESERVED"
  BY DEF Abort
<1>4. Charged'
  BY <1>2, <1>3 DEF Inv, Typed, Charged
<1> QED
  BY <1>1, <1>4 DEF Inv

LEMMA InvCount ==
  ASSUME Inv, NEW o \in Object, CountDelete(o), UNCHANGED task,
         location[o] = "DELETING", location' = [location EXCEPT ![o] = "DELETED"]
  PROVE  Inv'
<1>1. Typed' /\ QuotaKept'
  BY AccountingKeepsQuota DEF Inv, Typed, LocationStatus
<1>2. \A p \in Object : p # o =>
        storageLedger'[<<"delete", p>>] = storageLedger[<<"delete", p>>]
  BY OtherRowsKept, DeltaTypes DEF Inv, CountDelete, LedgerKey
<1>3. UNCHANGED reservation /\ reservation[o] = "COMMITTED"
  BY DEF CountDelete, Inv, Charged
<1>4. Charged'
  BY <1>2, <1>3 DEF Inv, Typed, Charged
<1> QED
  BY <1>1, <1>4 DEF Inv

LEMMA InvActivate ==
  ASSUME Inv, NEW a \in Addon, Activate(a)
  PROVE  Inv'
<1>1. capacity' = capacity + AddonBytes /\ AddonBytes \in Nat
  BY StorageAssumption DEF Activate, ActivateAddon
<1>2. Typed'
  BY <1>1 DEF Inv, Typed, Activate, ActivateAddon, storageVars, others
<1>3. QuotaKept'
  BY <1>1 DEF Inv, Typed, QuotaKept, Columns, Activate, ActivateAddon
<1>4. Charged'
  BY DEF Inv, Charged, Activate, ActivateAddon, storageVars
<1> QED
  BY <1>2, <1>3, <1>4 DEF Inv

-----------------------------------------------------------------------------
LEMMA InvNext == Inv /\ [TrackedNext]_trackedVars => Inv'
<1> SUFFICES ASSUME Inv, [TrackedNext]_trackedVars PROVE Inv'
  OBVIOUS
<1>1. ASSUME NEW c \in Call, UploadStep(c) PROVE Inv'
  <2>0. ObjectOf(c) \in Object
    BY TaskObject DEF Inv, Typed
  <2>1. CASE BeginUpload(c)
    BY <2>1, InvIdle DEF BeginUpload, storageVars
  <2>2. CASE ReserveStep(c)
    BY <2>0, <2>2, InvIdle, InvReserve DEF ReserveStep, storageVars, others
  <2>3. CASE PutStep(c)
    BY <2>3, InvIdle DEF PutStep, others
  <2>4. CASE PlaceStep(c)
    BY <2>0, <2>4, InvIdle, InvLocation DEF PlaceStep, others, LocationStatus
  <2>5. CASE CommitStep(c)
    BY <2>0, <2>5, InvIdle, InvCommit DEF CommitStep
  <2>6. CASE UnputStep(c)
    BY <2>6, InvIdle DEF UnputStep, others
  <2>7. CASE UnplaceStep(c)
    BY <2>0, <2>7, InvIdle, InvLocation DEF UnplaceStep, others, LocationStatus
  <2>8. CASE AbortStep(c)
    BY <2>0, <2>8, InvIdle, InvAbort DEF AbortStep, storageVars, others
  <2> QED
    BY <1>1, <2>1, <2>2, <2>3, <2>4, <2>5, <2>6, <2>7, <2>8 DEF UploadStep
<1>2. ASSUME NEW c \in Call, KeepStep(c) PROVE Inv'
  BY <1>2, InvIdle DEF KeepStep, RegisterStep, LinkStep, CheckStep, storageVars, others
<1>3. ASSUME NEW c \in Call, DeleteStep(c) PROVE Inv'
  <2>0. ObjectOf(c) \in Object
    BY TaskObject DEF Inv, Typed
  <2>1. CASE UnlinkStep(c)
    BY <2>1, InvIdle DEF UnlinkStep, others
  <2>2. CASE LocateStep(c)
    BY <2>2, InvIdle DEF LocateStep, storageVars, others
  <2>3. CASE LockStep(c)
    BY <2>0, <2>3, InvIdle, InvLocation DEF LockStep, others, LocationStatus
  <2>4. CASE EraseStep(c)
    BY <2>4, InvIdle DEF EraseStep
  <2>5. CASE RestoreStep(c)
    BY <2>0, <2>5, InvIdle, InvLocation DEF RestoreStep, others, LocationStatus
  <2>6. CASE CountStep(c)
    BY <2>0, <2>6, InvIdle, InvCount DEF CountStep, others
  <2>7. CASE PendingStep(c)
    BY <2>0, <2>7, InvIdle, InvLocation DEF PendingStep, others, LocationStatus
  <2>8. CASE UnregisterStep(c)
    BY <2>8, InvIdle DEF UnregisterStep, others
  <2> QED
    BY <1>3, <2>1, <2>2, <2>3, <2>4, <2>5, <2>6, <2>7, <2>8 DEF DeleteStep
<1>4. ASSUME NEW c \in Call, Crash(c) PROVE Inv'
  BY <1>4, InvIdle DEF Crash, storageVars, others
<1>5. ASSUME NEW a \in Addon, Activate(a) PROVE Inv'
  BY <1>5, InvActivate
<1>6. CASE UNCHANGED trackedVars
  BY <1>6, InvIdle DEF trackedVars, storageVars, others
<1> QED
  BY <1>1, <1>2, <1>3, <1>4, <1>5, <1>6 DEF TrackedNext

-----------------------------------------------------------------------------
(* The bytes in use and on hold stay within the capacity, for any uploads,  *)
(* failures, deletes and add-ons in any order.                              *)
THEOREM QuotaCorrect == TrackedSpec => []QuotaKept
<1>1. Inv => QuotaKept
  BY DEF Inv
<1> QED
  BY InvInit, InvNext, <1>1, PTL DEF TrackedSpec

(* What is available is charged.  *)
THEOREM ChargeCorrect == TrackedSpec => []AvailableIsCharged
<1>1. Inv => AvailableIsCharged
  BY DEF Inv, Charged, AvailableIsCharged
<1> QED
  BY InvInit, InvNext, <1>1, PTL DEF TrackedSpec

-----------------------------------------------------------------------------
(* The counters against the reservations.  *)

StoredColumns == {"production", "temporary"}

(* The columns that UsageMatchesReservations adds up.  *)
Held == [o \in Object |-> IF reservation[o] = "RESERVED" THEN Claimed(o) ELSE 0]

Used(column) == [o \in Object |->
  IF reservation[o] = "COMMITTED" /\ ColumnOf(o) = column THEN BytesOf[o] ELSE 0]

Gone(column) == [o \in Object |->
  IF storageLedger[<<"delete", o>>] # NoBytes /\ ColumnOf(o) = column THEN BytesOf[o] ELSE 0]

UsageFinite ==
  /\ IsFiniteSet(Units(Held))
  /\ \A column \in StoredColumns :
       IsFiniteSet(Units(Used(column))) /\ IsFiniteSet(Units(Gone(column)))

UsageMatches ==
  /\ usage["reserved"] = Total(Held)
  /\ \A column \in StoredColumns :
       usage[column] >= 0 /\ usage[column] + Total(Gone(column)) = Total(Used(column))

UsageInv == UsageFinite /\ UsageMatches

LEMMA Bytes ==
  ASSUME NEW o \in Object
  PROVE  BytesOf[o] \in Nat /\ BytesOf[o] > 0 /\ Claimed(o) \in Nat
BY StorageAssumption DEF Claimed

LEMMA UsageTypes ==
  /\ Held \in [Object -> Nat]
  /\ \A column : Used(column) \in [Object -> Nat] /\ Gone(column) \in [Object -> Nat]
BY Bytes DEF Held, Used, Gone

LEMMA UsageInvInit == TrackedInit => UsageInv
<1> SUFFICES ASSUME TrackedInit PROVE UsageInv
  OBVIOUS
<1> DEFINE zero == [o \in Object |-> 0]
<1>1. Held = zero /\ \A column : Used(column) = zero /\ Gone(column) = zero
  BY DEF TrackedInit, AccountingInit, Held, Used, Gone, LedgerKey
<1>2. IsFiniteSet(Units(zero)) /\ Total(zero) = 0
  BY TotalZero
<1>3. usage["reserved"] = 0 /\ \A column \in StoredColumns : usage[column] = 0
  BY DEF TrackedInit, AccountingInit, NoBytes, Columns, StoredColumns
<1> HIDE DEF zero
<1> QED
  BY <1>1, <1>2, <1>3 DEF UsageInv, UsageFinite, UsageMatches

(* A step about one object moves each sum by the row of that object.  *)
LEMMA UsageMoves ==
  ASSUME UsageFinite, NEW o \in Object,
         \A p \in Object \ {o} : /\ reservation'[p] = reservation[p]
                                 /\ storageLedger'[<<"delete", p>>] = storageLedger[<<"delete", p>>]
  PROVE  /\ UsageFinite'
         /\ Total(Held)' = (Total(Held) - Held[o]) + Held'[o]
         /\ \A column \in StoredColumns :
              /\ Total(Used(column))' = (Total(Used(column)) - Used(column)[o]) + Used(column)'[o]
              /\ Total(Gone(column))' = (Total(Gone(column)) - Gone(column)[o]) + Gone(column)'[o]
<1>1. /\ IsFiniteSet(Units(Held'))
      /\ Total(Held') = (Total(Held) - Held[o]) + Held'[o]
  <2>1. Held \in [Object -> Nat] /\ Held' \in [Object -> Nat]
    BY UsageTypes, Bytes DEF Held
  <2>2. \A p \in Object \ {o} : Held'[p] = Held[p]
    BY DEF Held
  <2>3. IsFiniteSet(Units(Held))
    BY DEF UsageFinite
  <2>4. Held'[o] \in Nat
    BY <2>1
  <2> QED
    BY <2>1, <2>2, <2>3, <2>4, TotalUpdate
<1>2. ASSUME NEW column \in StoredColumns
      PROVE  /\ IsFiniteSet(Units(Used(column)'))
             /\ Total(Used(column)') = (Total(Used(column)) - Used(column)[o]) + Used(column)'[o]
  <2>1. Used(column) \in [Object -> Nat] /\ Used(column)' \in [Object -> Nat]
    BY UsageTypes, Bytes DEF Used
  <2>2. \A p \in Object \ {o} : Used(column)'[p] = Used(column)[p]
    BY DEF Used
  <2>3. IsFiniteSet(Units(Used(column)))
    BY DEF UsageFinite
  <2>4. Used(column)'[o] \in Nat
    BY <2>1
  <2> QED
    BY <2>1, <2>2, <2>3, <2>4, TotalUpdate
<1>3. ASSUME NEW column \in StoredColumns
      PROVE  /\ IsFiniteSet(Units(Gone(column)'))
             /\ Total(Gone(column)') = (Total(Gone(column)) - Gone(column)[o]) + Gone(column)'[o]
  <2>1. Gone(column) \in [Object -> Nat] /\ Gone(column)' \in [Object -> Nat]
    BY UsageTypes, Bytes DEF Gone
  <2>2. \A p \in Object \ {o} : Gone(column)'[p] = Gone(column)[p]
    BY DEF Gone
  <2>3. IsFiniteSet(Units(Gone(column)))
    BY DEF UsageFinite
  <2>4. Gone(column)'[o] \in Nat
    BY <2>1
  <2> QED
    BY <2>1, <2>2, <2>3, <2>4, TotalUpdate
<1>4. UsageFinite'
  BY <1>1, <1>2, <1>3 DEF UsageFinite, Units
<1> QED
  BY <1>1, <1>2, <1>3, <1>4 DEF Total, Units

(* The sums in the state before, as numbers.  *)
LEMMA UsageNumbers ==
  ASSUME Typed, UsageInv, NEW o \in Object
  PROVE  /\ Total(Held) \in Nat /\ Held[o] \in Nat /\ Held'[o] \in Nat
         /\ usage["reserved"] \in Int
         /\ \A column \in StoredColumns :
              /\ Total(Used(column)) \in Nat /\ Total(Gone(column)) \in Nat
              /\ Used(column)[o] \in Nat /\ Gone(column)[o] \in Nat
              /\ usage[column] \in Int
<1>1. Total(Held) \in Nat /\ \A column \in StoredColumns :
        Total(Used(column)) \in Nat /\ Total(Gone(column)) \in Nat
  BY TotalType DEF UsageInv, UsageFinite
<1>2. Held'[o] \in Nat
  BY Bytes DEF Held
<1>3. Held[o] \in Nat /\ \A column \in StoredColumns :
        Used(column)[o] \in Nat /\ Gone(column)[o] \in Nat
  BY UsageTypes
<1>4. usage["reserved"] \in Int /\ \A column \in StoredColumns : usage[column] \in Int
  BY DEF Typed, Columns, StoredColumns
<1> QED
  BY <1>1, <1>2, <1>3, <1>4

LEMMA Deltas ==
  ASSUME NEW o \in Object, NEW column \in StoredColumns
  PROVE  /\ Reserving(o)["reserved"] = Claimed(o) /\ Reserving(o)[column] = 0
         /\ Committing(o)["reserved"] = -Claimed(o)
         /\ Committing(o)[column] = IF ColumnOf(o) = column THEN BytesOf[o] ELSE 0
         /\ Aborting(o)["reserved"] = -Claimed(o) /\ Aborting(o)[column] = 0
         /\ Deleting(o)["reserved"] = 0
         /\ Deleting(o)[column] = IF ColumnOf(o) = column THEN -BytesOf[o] ELSE 0
         /\ Deleting(o) # NoBytes
<1>1. ColumnOf(o) \in StoredColumns /\ "reserved" \in Columns /\ StoredColumns \subseteq Columns
      /\ "reserved" \notin StoredColumns
  BY DEF ColumnOf, StoredColumns, Columns
<1>2. \A x \in Columns : NoBytes[x] = 0
  BY DEF NoBytes
<1>3. DOMAIN NoBytes = Columns
  BY DEF NoBytes
<1>4. /\ Reserving(o)["reserved"] = Claimed(o) /\ Reserving(o)[column] = 0
      /\ Aborting(o)["reserved"] = -Claimed(o) /\ Aborting(o)[column] = 0
  BY <1>1, <1>2, <1>3 DEF Reserving, Aborting
<1>5. /\ Committing(o)["reserved"] = -Claimed(o)
      /\ Committing(o)[column] = IF ColumnOf(o) = column THEN BytesOf[o] ELSE 0
  BY <1>1, <1>2, <1>3 DEF Committing
<1>6. /\ Deleting(o)["reserved"] = 0
      /\ Deleting(o)[column] = IF ColumnOf(o) = column THEN -BytesOf[o] ELSE 0
      /\ Deleting(o)[ColumnOf(o)] = -BytesOf[o]
  BY <1>1, <1>2, <1>3 DEF Deleting
<1>7. Deleting(o) # NoBytes
  BY <1>1, <1>2, <1>6, Bytes
<1> QED
  BY <1>4, <1>5, <1>6, <1>7

LEMMA UsageTransaction ==
  ASSUME Typed, UsageInv, NEW o \in Object,
         Reserve(o) \/ Commit(o) \/ Abort(o) \/ CountDelete(o)
  PROVE  UsageInv'
<1>0. /\ <<"reserve", o>> \in LedgerKey /\ <<"commit", o>> \in LedgerKey
      /\ <<"abort", o>> \in LedgerKey /\ <<"delete", o>> \in LedgerKey
  BY DEF LedgerKey
<1>a. \A p \in Object : <<"delete", p>> \in LedgerKey
  BY DEF LedgerKey
<1>1. ASSUME NEW key \in LedgerKey, NEW delta, Record(key, delta)
      PROVE  /\ usage'["reserved"] = usage["reserved"] + delta["reserved"]
             /\ \A column \in StoredColumns : usage'[column] = usage[column] + delta[column]
             /\ storageLedger[key] = NoBytes /\ storageLedger'[key] = delta
             /\ \A other \in LedgerKey \ {key} : storageLedger'[other] = storageLedger[other]
  BY <1>1 DEF Record, StoredColumns, Columns, Typed
(* It is enough to account for the row of o in each sum.  *)
<1>2. ASSUME \A p \in Object \ {o} :
               /\ reservation'[p] = reservation[p]
               /\ storageLedger'[<<"delete", p>>] = storageLedger[<<"delete", p>>],
             usage'["reserved"] = usage["reserved"] + (Held'[o] - Held[o]),
             \A column \in StoredColumns :
               /\ Used(column)'[o] \in Nat /\ Gone(column)'[o] \in Nat
               /\ usage'[column] >= 0
               /\ usage'[column] = (usage[column] + (Used(column)'[o] - Used(column)[o]))
                                     - (Gone(column)'[o] - Gone(column)[o])
      PROVE  UsageInv'
  <2>1. /\ UsageFinite'
        /\ Total(Held)' = (Total(Held) - Held[o]) + Held'[o]
        /\ \A column \in StoredColumns :
             /\ Total(Used(column))' = (Total(Used(column)) - Used(column)[o]) + Used(column)'[o]
             /\ Total(Gone(column))' = (Total(Gone(column)) - Gone(column)[o]) + Gone(column)'[o]
    BY <1>2, UsageMoves DEF UsageInv
  <2>2. usage'["reserved"] = Total(Held)'
    BY <1>2, <2>1, UsageNumbers DEF UsageInv, UsageMatches
  <2>3. ASSUME NEW column \in StoredColumns
        PROVE  usage'[column] + Total(Gone(column))' = Total(Used(column))'
    <3>1. usage[column] + Total(Gone(column)) = Total(Used(column))
      BY DEF UsageInv, UsageMatches
    <3>2. /\ Total(Used(column)) \in Nat /\ Total(Gone(column)) \in Nat
          /\ Used(column)[o] \in Nat /\ Gone(column)[o] \in Nat /\ usage[column] \in Int
      BY UsageNumbers
    <3> QED
      BY <1>2, <2>1, <3>1, <3>2
  <2> QED
    BY <1>2, <2>1, <2>2, <2>3 DEF UsageInv, UsageMatches
<1>b. ASSUME NEW column \in StoredColumns PROVE usage[column] \in Int /\ usage[column] >= 0
  BY <1>b, UsageNumbers DEF UsageInv, UsageMatches
<1>c. usage["reserved"] \in Int
  BY UsageNumbers
<1>3. CASE Reserve(o)
  <2>1. /\ reservation[o] = "NONE" /\ reservation'[o] = "RESERVED"
        /\ \A p \in Object \ {o} : reservation'[p] = reservation[p]
        /\ Record(<<"reserve", o>>, Reserving(o))
    BY <1>3 DEF Reserve, Typed
  <2>2. \A p \in Object : storageLedger'[<<"delete", p>>] = storageLedger[<<"delete", p>>]
    BY <1>0, <1>1, <1>a, <2>1
  <2>3. Held[o] = 0 /\ Held'[o] = Claimed(o) /\ Claimed(o) \in Nat
    BY <2>1, Bytes DEF Held
  <2>4. ASSUME NEW column \in StoredColumns
        PROVE  /\ Used(column)'[o] = 0 /\ Used(column)[o] = 0
               /\ Gone(column)'[o] = Gone(column)[o] /\ Gone(column)[o] \in Nat
               /\ usage'[column] = usage[column]
    <3>1. usage'[column] = usage[column] + Reserving(o)[column] /\ Reserving(o)[column] = 0
      BY <1>0, <1>1, <2>1, Deltas
    <3>2. Gone(column)'[o] = Gone(column)[o]
      BY <2>2 DEF Gone
    <3>3. Used(column)'[o] = 0 /\ Used(column)[o] = 0
      BY <2>1 DEF Used
    <3>4. Gone(column)[o] \in Nat
      BY UsageNumbers
    <3> QED
      BY <1>b, <3>1, <3>2, <3>3, <3>4
  <2>5. usage'["reserved"] = usage["reserved"] + Reserving(o)["reserved"]
        /\ Reserving(o)["reserved"] = Claimed(o)
    BY <1>0, <1>1, <2>1, Deltas DEF StoredColumns
  <2> QED
    BY <1>2, <1>b, <2>1, <2>2, <2>3, <2>4, <2>5
<1>4. CASE Commit(o)
  <2>1. /\ reservation[o] = "RESERVED" /\ reservation'[o] = "COMMITTED"
        /\ \A p \in Object \ {o} : reservation'[p] = reservation[p]
        /\ Record(<<"commit", o>>, Committing(o))
    BY <1>4 DEF Commit, Typed
  <2>2. \A p \in Object : storageLedger'[<<"delete", p>>] = storageLedger[<<"delete", p>>]
    BY <1>0, <1>1, <1>a, <2>1
  <2>3. Held[o] = Claimed(o) /\ Held'[o] = 0 /\ Claimed(o) \in Nat
    BY <2>1, Bytes DEF Held
  <2>4. ASSUME NEW column \in StoredColumns
        PROVE  /\ Used(column)'[o] \in Nat /\ Used(column)[o] = 0
               /\ Gone(column)'[o] = Gone(column)[o] /\ Gone(column)[o] \in Nat
               /\ usage'[column] = usage[column] + Used(column)'[o]
    <3>1. usage'[column] = usage[column] + Committing(o)[column]
      BY <1>0, <1>1, <2>1
    <3>2. Committing(o)[column] = IF ColumnOf(o) = column THEN BytesOf[o] ELSE 0
      BY Deltas
    <3>3. Used(column)'[o] = IF ColumnOf(o) = column THEN BytesOf[o] ELSE 0
      BY <2>1 DEF Used
    <3>4. Gone(column)'[o] = Gone(column)[o]
      BY <2>2 DEF Gone
    <3>5. Used(column)[o] = 0
      BY <2>1 DEF Used
    <3> QED
      BY <1>b, <3>1, <3>2, <3>3, <3>4, <3>5, UsageNumbers, Bytes
  <2>5. usage'["reserved"] = usage["reserved"] + Committing(o)["reserved"]
        /\ Committing(o)["reserved"] = -Claimed(o)
    BY <1>0, <1>1, <2>1, Deltas DEF StoredColumns
  <2>6. usage'["reserved"] = usage["reserved"] + (Held'[o] - Held[o])
    BY <1>c, <2>3, <2>5
  <2>7. ASSUME NEW column \in StoredColumns
        PROVE  /\ usage'[column] >= 0
               /\ usage'[column] = (usage[column] + (Used(column)'[o] - Used(column)[o]))
                                     - (Gone(column)'[o] - Gone(column)[o])
    BY <1>b, <2>4
  <2> QED
    BY <1>2, <2>1, <2>2, <2>4, <2>6, <2>7
<1>5. CASE Abort(o)
  <2>1. /\ reservation[o] = "RESERVED" /\ reservation'[o] = "ABORTED"
        /\ \A p \in Object \ {o} : reservation'[p] = reservation[p]
        /\ Record(<<"abort", o>>, Aborting(o))
    BY <1>5 DEF Abort, Typed
  <2>2. \A p \in Object : storageLedger'[<<"delete", p>>] = storageLedger[<<"delete", p>>]
    BY <1>0, <1>1, <1>a, <2>1
  <2>3. Held[o] = Claimed(o) /\ Held'[o] = 0 /\ Claimed(o) \in Nat
    BY <2>1, Bytes DEF Held
  <2>4. ASSUME NEW column \in StoredColumns
        PROVE  /\ Used(column)'[o] = 0 /\ Used(column)[o] = 0
               /\ Gone(column)'[o] = Gone(column)[o] /\ Gone(column)[o] \in Nat
               /\ usage'[column] = usage[column]
    <3>1. usage'[column] = usage[column] + Aborting(o)[column] /\ Aborting(o)[column] = 0
      BY <1>0, <1>1, <2>1, Deltas
    <3>2. Gone(column)'[o] = Gone(column)[o]
      BY <2>2 DEF Gone
    <3>3. Used(column)'[o] = 0 /\ Used(column)[o] = 0
      BY <2>1 DEF Used
    <3>4. Gone(column)[o] \in Nat
      BY UsageNumbers
    <3> QED
      BY <1>b, <3>1, <3>2, <3>3, <3>4
  <2>5. usage'["reserved"] = usage["reserved"] + Aborting(o)["reserved"]
        /\ Aborting(o)["reserved"] = -Claimed(o)
    BY <1>0, <1>1, <2>1, Deltas DEF StoredColumns
  <2>6. usage'["reserved"] = usage["reserved"] + (Held'[o] - Held[o])
    BY <1>c, <2>3, <2>5
  <2> QED
    BY <1>2, <1>b, <2>1, <2>2, <2>4, <2>6
<1>6. CASE CountDelete(o)
  <2>1. /\ reservation' = reservation /\ usage[ColumnOf(o)] >= BytesOf[o]
        /\ Record(<<"delete", o>>, Deleting(o))
    BY <1>6 DEF CountDelete
  <2>2. /\ storageLedger[<<"delete", o>>] = NoBytes
        /\ storageLedger'[<<"delete", o>>] # NoBytes
        /\ \A p \in Object \ {o} :
             storageLedger'[<<"delete", p>>] = storageLedger[<<"delete", p>>]
    BY <1>0, <1>1, <1>a, <2>1, Deltas DEF StoredColumns
  <2>3. Held'[o] = Held[o]
    BY <2>1 DEF Held
  <2>4. ASSUME NEW column \in StoredColumns
        PROVE  /\ Used(column)'[o] = Used(column)[o] /\ Used(column)[o] \in Nat
               /\ Gone(column)[o] = 0 /\ Gone(column)'[o] \in Nat
               /\ usage'[column] = usage[column] - Gone(column)'[o]
               /\ usage[column] >= Gone(column)'[o]
    <3>1. usage'[column] = usage[column] + Deleting(o)[column]
      BY <1>0, <1>1, <2>1
    <3>2. Deleting(o)[column] = IF ColumnOf(o) = column THEN -BytesOf[o] ELSE 0
      BY Deltas
    <3>3. Gone(column)'[o] = IF ColumnOf(o) = column THEN BytesOf[o] ELSE 0
      BY <2>2 DEF Gone
    <3>4. Gone(column)[o] = 0
      BY <2>2 DEF Gone
    <3>5. Used(column)'[o] = Used(column)[o]
      BY <2>1 DEF Used
    <3> QED
      BY <1>b, <2>1, <3>1, <3>2, <3>3, <3>4, <3>5, UsageNumbers, Bytes
  <2>5. usage'["reserved"] = usage["reserved"] + Deleting(o)["reserved"]
        /\ Deleting(o)["reserved"] = 0
    BY <1>0, <1>1, <2>1, Deltas DEF StoredColumns
  <2>6. usage'["reserved"] = usage["reserved"] + (Held'[o] - Held[o])
    BY <1>c, <2>3, <2>5, UsageNumbers
  <2>7. ASSUME NEW column \in StoredColumns
        PROVE  /\ usage'[column] >= 0
               /\ usage'[column] = (usage[column] + (Used(column)'[o] - Used(column)[o]))
                                     - (Gone(column)'[o] - Gone(column)[o])
    BY <1>b, <2>4
  <2> QED
    BY <1>2, <2>1, <2>2, <2>4, <2>6, <2>7
<1> QED
  BY <1>3, <1>4, <1>5, <1>6

LEMMA UsageKept == UsageInv /\ UNCHANGED <<usage, reservation, storageLedger>> => UsageInv'
<1> SUFFICES ASSUME UsageInv, UNCHANGED <<usage, reservation, storageLedger>> PROVE UsageInv'
  OBVIOUS
<1>1. Held' = Held /\ \A column : Used(column)' = Used(column) /\ Gone(column)' = Gone(column)
  BY DEF Held, Used, Gone
<1>2. /\ Units(Held)' = Units(Held) /\ Total(Held)' = Total(Held)
      /\ \A column : /\ Units(Used(column))' = Units(Used(column))
                     /\ Units(Gone(column))' = Units(Gone(column))
                     /\ Total(Used(column))' = Total(Used(column))
                     /\ Total(Gone(column))' = Total(Gone(column))
  BY <1>1 DEF Total, Units
<1> QED
  BY <1>2 DEF UsageInv, UsageFinite, UsageMatches

LEMMA UsageInvStep == Typed /\ UsageInv /\ [TrackedNext]_trackedVars => UsageInv'
<1> SUFFICES ASSUME Typed, UsageInv, [TrackedNext]_trackedVars PROVE UsageInv'
  OBVIOUS
<1>1. ASSUME NEW c \in Call, UploadStep(c) \/ KeepStep(c) \/ DeleteStep(c) \/ Crash(c)
      PROVE  \/ UNCHANGED accountingVars
             \/ Reserve(ObjectOf(c)) \/ Commit(ObjectOf(c))
             \/ Abort(ObjectOf(c)) \/ CountDelete(ObjectOf(c))
  <2>1. CASE UploadStep(c)
    BY <2>1 DEF UploadStep, BeginUpload, ReserveStep, PutStep, PlaceStep, CommitStep, UnputStep,
                UnplaceStep, AbortStep
  <2>2. CASE KeepStep(c)
    BY <2>2 DEF KeepStep, RegisterStep, LinkStep, CheckStep
  <2>3. CASE DeleteStep(c)
    BY <2>3 DEF DeleteStep, UnlinkStep, LocateStep, LockStep, EraseStep, RestoreStep, CountStep,
                PendingStep, UnregisterStep
  <2>4. CASE Crash(c)
    BY <2>4 DEF Crash
  <2> QED
    BY <1>1, <2>1, <2>2, <2>3, <2>4
<1>2. ASSUME NEW c \in Call PROVE ObjectOf(c) \in Object
  BY TaskObject DEF Typed
<1>3. CASE UNCHANGED accountingVars
  BY <1>3, UsageKept DEF accountingVars
<1>4. ASSUME NEW a \in Addon, Activate(a) PROVE UsageInv'
  BY <1>4, UsageKept DEF Activate, ActivateAddon
<1>5. CASE UNCHANGED trackedVars
  BY <1>3, <1>5 DEF trackedVars
<1> QED
  BY <1>1, <1>2, <1>3, <1>4, <1>5, UsageTransaction DEF TrackedNext

(* The counters that transactions move by increments agree with the         *)
(* reservations, and none is ever negative, for any uploads and deletes.    *)
THEOREM UsageCorrect == TrackedSpec => []UsageMatchesReservations
<1>1. Typed /\ UsageInv => UsageMatchesReservations
  <2> SUFFICES ASSUME Typed, UsageInv PROVE UsageMatchesReservations
    OBVIOUS
  <2>1. /\ BytesWhere("reserved", "RESERVED") = Total(Held)
        /\ \A column \in StoredColumns :
             /\ BytesWhere(column, "COMMITTED") = Total(Used(column))
             /\ BytesDeleted(column) = Total(Gone(column))
    <3>1. BytesWhere("reserved", "RESERVED") = Total(Held)
      BY DEF BytesWhere, Held
    <3>2. ASSUME NEW column \in StoredColumns
          PROVE  /\ BytesWhere(column, "COMMITTED") = Total(Used(column))
                 /\ BytesDeleted(column) = Total(Gone(column))
      <4> DEFINE sum == [o \in Object |->
             IF reservation[o] = "COMMITTED"
             THEN (IF column = "reserved" THEN Claimed(o)
                   ELSE IF ColumnOf(o) = column THEN BytesOf[o] ELSE 0)
             ELSE 0]
      <4>1. column # "reserved"
        BY DEF StoredColumns
      <4>2. sum = Used(column)
        BY <4>1 DEF Used
      <4>3. BytesWhere(column, "COMMITTED") = Total(sum)
        BY DEF BytesWhere
      <4> QED
        BY <4>2, <4>3 DEF BytesDeleted, Gone
    <3> QED
      BY <3>1, <3>2
  <2>2. usage["reserved"] >= 0
    BY TotalType DEF UsageInv, UsageFinite, UsageMatches
  <2> QED
    BY <2>1, <2>2 DEF UsageInv, UsageMatches, UsageMatchesReservations, StoredColumns, Columns
<1>2. TrackedInit => Inv /\ UsageInv
  BY InvInit, UsageInvInit
<1>3. Inv /\ UsageInv /\ [TrackedNext]_trackedVars => (Inv /\ UsageInv)'
  BY InvNext, UsageInvStep DEF Inv
<1> QED
  BY <1>1, <1>2, <1>3, PTL DEF TrackedSpec, Inv

-----------------------------------------------------------------------------
(* Objects and their locations.  *)

Uploading == {"reserve", "put", "place", "commit", "unput", "unplace", "abort"}
Erasing == {"erase", "restore", "count", "pending"}

(* The objects that the exceptions of ObjectsKept are about.  *)
Exempt(o) == o \in shared \cup lost

(* What a suspended call relies on about its object: nothing is available   *)
(* before it was counted, an object about to be counted or erased is there, *)
(* and a location being erased is on its way out.                           *)
Relies(c) ==
  LET o == ObjectOf(c) IN
  /\ at[c] \in Uploading => Kind(c) # "remove"
  /\ at[c] = "commit" => c \in placed
  /\ c \in placed => /\ at[c] \in {"commit", "unput", "unplace"}
                     /\ location[o] # "NONE"
                     /\ location[o] = "ACCOUNTING_PENDING" \/ o \in lost
  /\ ~Exempt(o) =>
       /\ at[c] \in Uploading => location[o] \in {"NONE", "ACCOUNTING_PENDING"}
       /\ at[c] \in {"place", "commit", "erase", "restore"} => o \in stored
       /\ at[c] = "register" /\ Kind(c) = "import" => location[o] = "AVAILABLE"
       /\ at[c] \in Erasing => location[o] = "DELETING" \/ (at[c] = "pending" /\ location[o] = "DELETED")

(* Two calls that work on one object.  *)
Apart(c, d) ==
  c # d /\ ObjectOf(c) = ObjectOf(d) =>
    /\ ~(c \in placed /\ d \in placed)
    /\ Kind(c) = "import" /\ Kind(d) = "import" /\ Live(c) /\ Live(d) => ObjectOf(c) \in shared
    /\ ~Exempt(ObjectOf(c)) => ~(at[c] \in Erasing /\ at[d] \in Erasing)

Uncounted(o) == storageLedger[<<"delete", o>>] = NoBytes

(* ObjectsKept and ChargedIsLocated for one object, and: a location whose   *)
(* bytes were taken off stays closed.                                       *)
ObjectOK(o) ==
  /\ location[o] = "AVAILABLE"  => o \in stored \/ Exempt(o)
  /\ o \in record \ Temporary   => location[o] = "AVAILABLE" \/ Exempt(o)
  /\ o \in reference            => location[o] = "AVAILABLE" \/ o \in lost
  /\ reservation[o] = "COMMITTED" /\ Uncounted(o) /\ o \notin lost =>
       location[o] \in {"AVAILABLE", "DELETING", "DELETE_ACCOUNTING_PENDING"}
  /\ ~Uncounted(o) /\ o \notin lost =>
       location[o] \in {"DELETED", "DELETE_ACCOUNTING_PENDING"}

StoreTypeOK ==
  /\ at \in [Call -> At] /\ placed \subseteq Call
  /\ stored \subseteq Object /\ record \subseteq Object /\ reference \subseteq Object
  /\ shared \subseteq Object /\ lost \subseteq Object

StoreInv ==
  /\ StoreTypeOK
  /\ \A c \in Call : Relies(c)
  /\ \A c, d \in Call : Apart(c, d)
  /\ \A o \in Object : ObjectOK(o)

LEMMA StoreInvInit == TrackedInit => StoreInv
<1> SUFFICES ASSUME TrackedInit PROVE StoreInv
  OBVIOUS
<1>1. StoreTypeOK
  BY DEF TrackedInit, StoreTypeOK, At
<1>2. ASSUME NEW c \in Call PROVE Relies(c)
  BY DEF TrackedInit, Relies, Uploading, Erasing
<1>3. ASSUME NEW c \in Call, NEW d \in Call PROVE Apart(c, d)
  BY DEF TrackedInit, Apart, Live, Erasing
<1>4. ASSUME NEW o \in Object PROVE ObjectOK(o)
  <2>1. Uncounted(o)
    BY DEF TrackedInit, AccountingInit, LedgerKey, Uncounted
  <2> QED
    BY <2>1 DEF TrackedInit, AccountingInit, ObjectOK
<1> QED
  BY <1>1, <1>2, <1>3, <1>4 DEF StoreInv

(* The tasks of two calls about one object.  *)
LEMMA TaskFacts ==
  ASSUME task \in Tasks, NEW c \in Call
  PROVE  /\ ObjectOf(c) \in Object /\ Kind(c) \in {"import", "export", "remove"}
         /\ Kind(c) = "import" <=> ObjectOf(c) \notin Temporary
         /\ \A d \in Call : Kind(c) = "export" /\ Kind(d) = "export" /\ ObjectOf(c) = ObjectOf(d)
              => c = d
<1>1. task \in [Call -> Task]
  BY TaskAssumption
<1>2. ASSUME NEW d \in Call, Kind(c) = Kind(d), ObjectOf(c) = ObjectOf(d)
      PROVE  task[c] = task[d]
  BY <1>1, <1>2 DEF Task, Kind, ObjectOf
<1>3. ObjectOf(c) \in Object /\ Kind(c) \in {"import", "export", "remove"}
  BY <1>1 DEF Task, Kind, ObjectOf
<1>4. Kind(c) = "import" <=> ObjectOf(c) \notin Temporary
  BY TaskAssumption DEF Kind, ObjectOf
<1>5. ASSUME NEW d \in Call, Kind(c) = "export", Kind(d) = "export", ObjectOf(c) = ObjectOf(d)
      PROVE  c = d
  <2>1. task[c] = task[d] /\ task[c].kind = "export"
    BY <1>2, <1>5 DEF Kind
  <2> QED
    BY <2>1, TaskAssumption
<1> QED
  BY <1>3, <1>4, <1>5

(* No two uploads of an object run at once, unless imports share it.  *)
LEMMA OneUpload ==
  ASSUME Typed, StoreInv, NEW c \in Call, NEW d \in Call, ObjectOf(c) = ObjectOf(d),
         at[c] \in Uploading, at[d] \in Uploading, ~Exempt(ObjectOf(c))
  PROVE  c = d
<1>1. Live(c) /\ Live(d) /\ Kind(c) # "remove" /\ Kind(d) # "remove"
  BY DEF Live, Uploading, StoreInv, Relies
<1>2. Kind(c) = Kind(d)
  BY <1>1, TaskFacts DEF Typed
<1>3. Kind(c) \in {"import", "export"}
  BY <1>1, TaskFacts DEF Typed
<1> QED
  BY <1>1, <1>2, <1>3, TaskFacts DEF Typed, StoreInv, Apart, Exempt

(* How call c moves what its object shares with other calls.  *)
LocationMoves(c) ==
  LET o == ObjectOf(c) IN
  \/ location'[o] = location[o]
  \/ location[o] = "NONE" /\ location'[o] = "ACCOUNTING_PENDING"
  \/ at[c] = "commit" /\ location'[o] = "AVAILABLE"
  \/ at[c] = "lock" /\ location[o] = "AVAILABLE" /\ location'[o] = "DELETING"
  \/ at[c] \in Erasing /\ location[o] \in {"DELETING", "DELETED"} /\ location'[o] # "NONE"
  \/ c \in placed /\ location'[o] = "NONE"

CallMoves(c) ==
  LET o == ObjectOf(c) IN
  /\ at'[c] \in At /\ placed' \subseteq placed \cup {c}
  /\ at'[c] \in Erasing => at[c] \in Erasing \/ location[o] = "AVAILABLE"
  /\ c \in placed' => c \in placed \/ location[o] = "NONE"
  /\ at'[c] \notin {"idle", "ended"} /\ Kind(c) = "import" =>
       Live(c) \/ \A d \in Call \ {c} :
         Kind(d) = "import" /\ ObjectOf(d) = o /\ Live(d) => o \in shared'
  /\ o \in stored => o \in stored' \/ at[c] \in {"unput", "erase"}

(* Nothing else changes.  *)
OthersKept(c) ==
  /\ task' = task
  /\ \A d \in Call \ {c} : at'[d] = at[d] /\ (d \in placed' <=> d \in placed)
  /\ \A p \in Object \ {ObjectOf(c)} :
       /\ location'[p] = location[p] /\ reservation'[p] = reservation[p]
       /\ Uncounted(p)' = Uncounted(p)
       /\ p \in stored' <=> p \in stored
       /\ p \in record' <=> p \in record
       /\ p \in reference' <=> p \in reference
  /\ \E S \in {{}, {ObjectOf(c)}}, L \in {{}, {ObjectOf(c)}} :
       shared' = shared \cup S /\ lost' = lost \cup L

Moves(c) == CallMoves(c) /\ OthersKept(c) /\ LocationMoves(c)

LEMMA ExemptGrows ==
  ASSUME NEW c \in Call, OthersKept(c), NEW o
  PROVE  /\ Exempt(o) => Exempt(o)'
         /\ o \in shared => o \in shared'
         /\ o \in lost => o \in lost'
         /\ o # ObjectOf(c) => (o \in lost' <=> o \in lost) /\ (Exempt(o)' <=> Exempt(o))
BY DEF OthersKept, Exempt

LEMMA SameTask ==
  ASSUME task' = task, NEW c
  PROVE  ObjectOf(c)' = ObjectOf(c) /\ Kind(c)' = Kind(c)
BY DEF ObjectOf, Kind

LEMMA OthersRely ==
  ASSUME Typed, StoreInv, NEW c \in Call, Moves(c), NEW d \in Call, d # c
  PROVE  Relies(d)'
<1>0. PICK o \in Object : o = ObjectOf(d)
  BY TaskFacts DEF Typed
<1>1. /\ at'[d] = at[d] /\ (d \in placed' <=> d \in placed)
      /\ ObjectOf(d)' = o /\ Kind(d)' = Kind(d) /\ Relies(d) /\ Relies(c)
  BY <1>0, SameTask, TaskFacts DEF Moves, OthersKept, StoreInv, Typed
<1>2. (Exempt(o) => Exempt(o)') /\ (o \in lost => o \in lost')
  BY ExemptGrows DEF Moves
<1>3. CASE o # ObjectOf(c)
  <2>1. location'[o] = location[o] /\ (o \in stored' <=> o \in stored)
    BY <1>0, <1>1, <1>3 DEF Moves, OthersKept
  <2> QED
    BY <1>0, <1>1, <1>2, <2>1 DEF Relies
<1>4. CASE o = ObjectOf(c)
  <2>1. LocationMoves(c) /\ CallMoves(c)
    BY DEF Moves
  <2>2. ASSUME ~Exempt(o) PROVE ~(at[c] \in Uploading /\ at[d] \in Uploading)
    BY <1>0, <1>4, <2>2, OneUpload
  <2>3. ASSUME ~Exempt(o) PROVE ~(at[c] \in Erasing /\ at[d] \in Erasing)
    BY <1>0, <1>4, <2>3 DEF StoreInv, Apart
  <2>4. ~(c \in placed /\ d \in placed)
    BY <1>0, <1>4 DEF StoreInv, Apart
  <2>5. ASSUME ~Exempt(o), Kind(c) = "import", Kind(d) = "import", Live(c) PROVE ~Live(d)
    BY <1>0, <1>4, <2>5 DEF StoreInv, Apart, Exempt
  <2>6. at[c] = "commit" => c \in placed
    BY <1>1 DEF Relies
  <2>7. c \in placed => location[o] = "ACCOUNTING_PENDING" \/ o \in lost
    BY <1>0, <1>1, <1>4 DEF Relies
  <2>8. ASSUME d \in placed
        PROVE  location'[o] # "NONE" /\ (location'[o] = "ACCOUNTING_PENDING" \/ o \in lost')
    <3>1. location[o] # "NONE" /\ (location[o] = "ACCOUNTING_PENDING" \/ o \in lost)
      BY <1>0, <1>1, <2>8 DEF Relies
    <3> QED
      BY <1>0, <1>2, <1>4, <2>1, <2>4, <2>6, <2>8, <3>1 DEF LocationMoves
  <2>9. ASSUME ~Exempt(o)', at[d] \in Uploading
        PROVE  location'[o] \in {"NONE", "ACCOUNTING_PENDING"}
    <3>1. ~Exempt(o) /\ location[o] \in {"NONE", "ACCOUNTING_PENDING"}
      BY <1>0, <1>1, <1>2, <2>9 DEF Relies
    <3>2. at[c] \notin Uploading
      BY <2>2, <2>9, <3>1
    <3> QED
      BY <1>0, <1>4, <2>1, <3>1, <3>2 DEF LocationMoves, Uploading
  <2>10. ASSUME ~Exempt(o)', at[d] \in Erasing
         PROVE  location'[o] = "DELETING" \/ (at[d] = "pending" /\ location'[o] = "DELETED")
    <3>1. ~Exempt(o) /\ (location[o] = "DELETING" \/ (at[d] = "pending" /\ location[o] = "DELETED"))
      BY <1>0, <1>1, <1>2, <2>10 DEF Relies
    <3>2. at[c] \notin Erasing /\ c \notin placed
      BY <2>3, <2>7, <2>10, <3>1 DEF Exempt
    <3> QED
      BY <1>0, <1>4, <2>1, <2>6, <3>1, <3>2 DEF LocationMoves
  <2>11. ASSUME ~Exempt(o)', at[d] \in {"place", "commit", "erase", "restore"}
         PROVE  o \in stored'
    <3>1. ~Exempt(o) /\ o \in stored
      BY <1>0, <1>1, <1>2, <2>11 DEF Relies
    <3>2. CASE at[c] = "unput"
      <4>1. location[o] \in {"NONE", "ACCOUNTING_PENDING"} /\ at[c] \in Uploading
        BY <1>0, <1>1, <1>4, <3>1, <3>2 DEF Relies, Uploading
      <4>2. at[d] \notin Uploading
        BY <2>2, <3>1, <4>1
      <4>3. at[d] \notin Erasing
        BY <1>0, <1>1, <3>1, <4>1 DEF Relies
      <4> QED
        BY <2>11, <4>2, <4>3 DEF Uploading, Erasing
    <3>3. CASE at[c] = "erase"
      <4>1. location[o] = "DELETING" /\ at[c] \in Erasing
        BY <1>0, <1>1, <1>4, <3>1, <3>3 DEF Relies, Erasing
      <4>2. at[d] \notin Erasing
        BY <2>3, <3>1, <4>1
      <4>3. at[d] \notin Uploading
        BY <1>0, <1>1, <3>1, <4>1 DEF Relies
      <4> QED
        BY <2>11, <4>2, <4>3 DEF Uploading, Erasing
    <3> QED
      BY <1>0, <1>4, <2>1, <3>1, <3>2, <3>3 DEF CallMoves
  <2>12. ASSUME ~Exempt(o)', at[d] = "register", Kind(d) = "import"
         PROVE  location'[o] = "AVAILABLE"
    <3>1. ~Exempt(o) /\ location[o] = "AVAILABLE"
      BY <1>0, <1>1, <1>2, <2>12 DEF Relies
    <3>2. Kind(c) = "import"
      BY <1>0, <1>4, <2>12, TaskFacts DEF Typed
    <3>3. ~Live(c)
      BY <2>5, <2>12, <3>1, <3>2 DEF Live
    <3>4. at[c] # "commit" /\ at[c] \notin Erasing
      BY <3>3 DEF Live, Erasing
    <3>5. c \notin placed
      BY <1>0, <1>1, <3>3 DEF Relies, Live
    <3>6. at[c] # "lock"
      BY <3>3 DEF Live
    <3> QED
      BY <1>0, <1>4, <2>1, <3>1, <3>3, <3>4, <3>5, <3>6 DEF LocationMoves
  <2> QED
    BY <1>0, <1>1, <1>2, <2>8, <2>9, <2>10, <2>11, <2>12 DEF Relies
<1> QED
  BY <1>3, <1>4

LEMMA OthersApart ==
  ASSUME Typed, StoreInv, NEW c \in Call, Moves(c), NEW d \in Call, NEW e \in Call
  PROVE  Apart(d, e)'
<1>1. PICK o \in Object : o = ObjectOf(c)
  BY TaskFacts DEF Typed
<1>2. \A f : ObjectOf(f)' = ObjectOf(f) /\ Kind(f)' = Kind(f)
  BY SameTask DEF Moves, OthersKept
<1>3. /\ \A f \in Call \ {c} : at'[f] = at[f] /\ (f \in placed' <=> f \in placed)
      /\ \A p : (Exempt(p) => Exempt(p)') /\ (p \in shared => p \in shared')
  BY ExemptGrows DEF Moves, OthersKept
<1>4. CASE d # c /\ e # c
  <2>1. Apart(d, e)
    BY DEF StoreInv
  <2> QED
    BY <1>2, <1>3, <1>4, <2>1 DEF Apart, Live
(* What c does keeps it apart from any other call.  *)
<1>5. ASSUME NEW f \in Call, f # c, ObjectOf(f) = o
      PROVE  /\ ~(c \in placed' /\ f \in placed')
             /\ Kind(c) = "import" /\ Kind(f) = "import" /\ at'[c] \notin {"idle", "ended"} /\ Live(f)
                  => o \in shared'
             /\ ~Exempt(o)' => ~(at'[c] \in Erasing /\ at'[f] \in Erasing)
  <2>1. Apart(c, f) /\ Relies(f) /\ CallMoves(c)
    BY DEF StoreInv, Moves
  <2>2. ~(c \in placed' /\ f \in placed')
    BY <1>1, <1>3, <1>5, <2>1 DEF Apart, Relies, CallMoves
  <2>3. ASSUME Kind(c) = "import", Kind(f) = "import", at'[c] \notin {"idle", "ended"}, Live(f)
        PROVE  o \in shared'
    BY <1>1, <1>3, <1>5, <2>1, <2>3 DEF Apart, CallMoves
  <2>4. ASSUME ~Exempt(o)' PROVE ~(at'[c] \in Erasing /\ at'[f] \in Erasing)
    <3>1. ~Exempt(o)
      BY <1>3, <2>4
    <3>2. at'[f] = at[f]
      BY <1>3, <1>5
    <3>3. at[c] \in Erasing => at[f] \notin Erasing
      BY <1>1, <1>5, <2>1, <3>1 DEF Apart
    <3>4. location[o] = "AVAILABLE" => at[f] \notin Erasing
      BY <1>5, <2>1, <3>1 DEF Relies
    <3> QED
      BY <1>1, <2>1, <3>2, <3>3, <3>4 DEF CallMoves
  <2> QED
    BY <2>2, <2>3, <2>4
<1>6. ASSUME NEW f \in Call, f # c PROVE Apart(c, f)' /\ Apart(f, c)'
  <2>1. CASE ObjectOf(f) # o
    BY <1>1, <1>2, <2>1 DEF Apart
  <2>2. CASE ObjectOf(f) = o
    <3>1. /\ ~(c \in placed' /\ f \in placed')
          /\ Kind(c) = "import" /\ Kind(f) = "import" /\ at'[c] \notin {"idle", "ended"} /\ Live(f)
               => o \in shared'
          /\ ~Exempt(o)' => ~(at'[c] \in Erasing /\ at'[f] \in Erasing)
      BY <1>5, <1>6, <2>2
    <3>2. Live(c)' <=> at'[c] \notin {"idle", "ended"}
      BY DEF Live
    <3>3. Live(f)' <=> Live(f)
      BY <1>3, <1>6 DEF Live
    <3>4. /\ ObjectOf(c)' = o /\ ObjectOf(f)' = o
          /\ Kind(c)' = Kind(c) /\ Kind(f)' = Kind(f)
      BY <1>1, <1>2, <2>2
    <3>5. /\ Exempt(ObjectOf(c))' <=> Exempt(o)'
          /\ Exempt(ObjectOf(f))' <=> Exempt(o)'
      BY <3>4 DEF Exempt
    <3> QED
      BY <3>1, <3>2, <3>3, <3>4, <3>5 DEF Apart
  <2> QED
    BY <2>1, <2>2
<1>8. CASE d = e
  BY <1>8 DEF Apart
<1> QED
  BY <1>4, <1>6, <1>8

(* The step of a call keeps the invariant if it keeps what the call relies  *)
(* on and its object.                                                       *)
LEMMA CallStep ==
  ASSUME Typed, StoreInv, NEW c \in Call, Moves(c),
         StoreTypeOK', Relies(c)', ObjectOK(ObjectOf(c))'
  PROVE  StoreInv'
<1>1. \A d \in Call : Relies(d)'
  BY OthersRely
<1>2. \A d, e \in Call : Apart(d, e)'
  BY OthersApart
<1>3. ASSUME NEW p \in Object PROVE ObjectOK(p)'
  <2>1. CASE p = ObjectOf(c)
    <3>1. ObjectOf(c)' = p
      BY <2>1, SameTask DEF Moves, OthersKept
    <3> QED
      BY <3>1 DEF ObjectOK
  <2>2. CASE p # ObjectOf(c)
    <3>1. ObjectOK(p)
      BY DEF StoreInv
    <3> QED
      BY <2>2, <3>1, ExemptGrows DEF ObjectOK, Moves, OthersKept
  <2> QED
    BY <2>1, <2>2
<1> QED
  BY <1>1, <1>2, <1>3 DEF StoreInv

(* The rows of an object that its transactions leave alone.  *)
LEMMA TransactionRows ==
  ASSUME Typed, NEW o \in Object, Reserve(o) \/ Commit(o) \/ Abort(o)
  PROVE  /\ \A p \in Object : Uncounted(p)' = Uncounted(p)
         /\ \A p \in Object \ {o} : reservation'[p] = reservation[p]
         /\ Reserve(o) \/ Abort(o) => reservation'[o] # "COMMITTED"
<1>1. PICK key \in LedgerKey, delta \in [Columns -> Int] :
        Record(key, delta) /\ \A p : key # <<"delete", p>>
  <2>1. /\ <<"reserve", o>> \in LedgerKey /\ <<"commit", o>> \in LedgerKey
        /\ <<"abort", o>> \in LedgerKey
    BY DEF LedgerKey
  <2> QED
    BY <2>1, DeltaTypes DEF Reserve, Commit, Abort
<1>2. \A p \in Object : Uncounted(p)' = Uncounted(p)
  BY <1>1, OtherRowsKept DEF Uncounted
<1> QED
  BY <1>2 DEF Reserve, Commit, Abort, Typed

LEMMA DeleteRows ==
  ASSUME Typed, NEW o \in Object, CountDelete(o)
  PROVE  /\ ~Uncounted(o)' /\ reservation' = reservation
         /\ \A p \in Object \ {o} : Uncounted(p)' = Uncounted(p)
<1>1. Record(<<"delete", o>>, Deleting(o)) /\ reservation' = reservation
  BY DEF CountDelete
<1>2. \A p \in Object : <<"delete", p>> \in LedgerKey
  BY DEF LedgerKey
<1>3. Deleting(o) # NoBytes
  BY Deltas DEF StoredColumns
<1> QED
  BY <1>1, <1>2, <1>3 DEF Record, Uncounted, Typed

(* What every step of a call may use.  *)
LEMMA CallFacts ==
  ASSUME Typed, StoreInv, NEW c \in Call
  PROVE  /\ ObjectOf(c) \in Object /\ Kind(c) \in {"import", "export", "remove"}
         /\ Kind(c) = "import" <=> ObjectOf(c) \notin Temporary
         /\ Relies(c) /\ ObjectOK(ObjectOf(c)) /\ StoreTypeOK
         /\ \A x : at' = [at EXCEPT ![c] = x] =>
              at'[c] = x /\ \A d \in Call \ {c} : at'[d] = at[d]
         /\ \A x : location' = [location EXCEPT ![ObjectOf(c)] = x] =>
              location'[ObjectOf(c)] = x /\ \A p \in Object \ {ObjectOf(c)} : location'[p] = location[p]
<1>1. ObjectOf(c) \in Object
  BY TaskFacts DEF Typed
<1>2. at \in [Call -> At] /\ location \in [Object -> LocationStatus]
  BY DEF StoreInv, StoreTypeOK, Typed
<1> QED
  BY <1>1, <1>2, TaskFacts DEF Typed, StoreInv

(* A step that moves neither location nor store, and takes off no bytes.  *)
LEMMA PlainStep ==
  ASSUME Typed, StoreInv, NEW c \in Call, NEW x \in At, Goto(c, x),
         UNCHANGED <<location, stored, shared, lost, task>>,
         \A p \in Object : Uncounted(p)' = Uncounted(p),
         \A p \in Object \ {ObjectOf(c)} : reservation'[p] = reservation[p],
         placed' \subseteq placed, \A d \in Call \ {c} : d \in placed' <=> d \in placed,
         \A p \in Object \ {ObjectOf(c)} :
           (p \in record' <=> p \in record) /\ (p \in reference' <=> p \in reference),
         record' \subseteq Object, reference' \subseteq Object,
         Live(c) \/ x = "ended" \/ Kind(c) # "import",
         x \in Erasing => at[c] \in Erasing,
         Relies(c)', ObjectOK(ObjectOf(c))'
  PROVE  StoreInv'
<1>1. StoreTypeOK'
  BY DEF StoreInv, StoreTypeOK, Goto
<1>2. at'[c] = x /\ \A d \in Call \ {c} : at'[d] = at[d]
  BY CallFacts DEF Goto
<1>3. CallMoves(c)
  BY <1>2 DEF CallMoves, Live
<1>5. OthersKept(c)
  BY <1>2 DEF OthersKept
<1>6. LocationMoves(c)
  BY DEF LocationMoves
<1> QED
  BY <1>1, <1>3, <1>5, <1>6, CallStep DEF Moves

LEMMA SameAccounts ==
  ASSUME UNCHANGED accountingVars
  PROVE  reservation' = reservation /\ \A p : Uncounted(p)' = Uncounted(p)
BY DEF accountingVars, Uncounted

(* The steps of an upload that leave location and store alone.  *)
LEMMA ReserveKeeps ==
  ASSUME Typed, StoreInv, NEW c \in Call, ReserveStep(c) \/ AbortStep(c)
  PROVE  StoreInv'
<1>1. PICK o \in Object : o = ObjectOf(c)
  BY CallFacts
<1>2. /\ UNCHANGED <<location, stored, record, reference, placed, shared, lost, task>>
      /\ at[c] \in {"reserve", "abort"}
      /\ Reserve(o) \/ Abort(o) \/ UNCHANGED accountingVars
  BY <1>1 DEF ReserveStep, AbortStep, storageVars, others
<1>3. PICK x \in {"put", "ended", "unlink"} : Goto(c, x) /\ (x = "put" => at[c] = "reserve")
  BY DEF ReserveStep, AbortStep, UploadFailed
<1>4. /\ \A p \in Object : Uncounted(p)' = Uncounted(p)
      /\ \A p \in Object \ {o} : reservation'[p] = reservation[p]
      /\ reservation'[o] = reservation[o] \/ reservation'[o] # "COMMITTED"
  BY <1>2, TransactionRows, SameAccounts
<1>5. at'[c] = x
  BY <1>3, CallFacts DEF Goto
<1>6. ObjectOf(c)' = o /\ Kind(c)' = Kind(c)
  BY <1>1, <1>2, SameTask
<1>7. Relies(c)'
  BY <1>1, <1>2, <1>3, <1>5, <1>6, CallFacts DEF Relies, Uploading, Erasing, Exempt
<1>8. ObjectOK(ObjectOf(c))'
  BY <1>1, <1>2, <1>4, <1>6, CallFacts DEF ObjectOK, Exempt
<1>9. Live(c) /\ x \in At /\ x \notin Erasing
  BY <1>2, <1>3 DEF Live, At, Erasing
<1> QED
  BY <1>1, <1>2, <1>3, <1>4, <1>7, <1>8, <1>9, PlainStep DEF StoreInv, StoreTypeOK

(* The callers' own steps.  *)
CallerPlaces ==
  {"ended", "link", "check", "unlink", "register", "locate", "lock", "unregister"}

LEMMA CallerStep ==
  ASSUME Typed, StoreInv, NEW c \in Call, NEW x \in CallerPlaces, Goto(c, x),
         UNCHANGED <<location, stored, shared, lost, task, accountingVars>>,
         placed' = placed \ {c},
         x = "register" => Kind(c) # "import",
         Live(c) \/ Kind(c) # "import",
         \A p \in Object \ {ObjectOf(c)} :
           (p \in record' <=> p \in record) /\ (p \in reference' <=> p \in reference),
         record' \subseteq Object, reference' \subseteq Object,
         ObjectOf(c) \in record' \ Temporary =>
           \/ ObjectOf(c) \in record
           \/ location[ObjectOf(c)] = "AVAILABLE" \/ Exempt(ObjectOf(c)),
         ObjectOf(c) \in reference' =>
           ObjectOf(c) \in reference \/ location[ObjectOf(c)] = "AVAILABLE"
  PROVE  StoreInv'
<1>1. PICK o \in Object : o = ObjectOf(c)
  BY CallFacts
<1>2. at'[c] = x
  BY CallFacts DEF Goto
<1>3. ObjectOf(c)' = o /\ Kind(c)' = Kind(c)
  BY <1>1, SameTask
<1>4. Relies(c)'
  BY <1>2, <1>3 DEF Relies, CallerPlaces, Uploading, Erasing, Exempt
<1>5. /\ \A p \in Object : Uncounted(p)' = Uncounted(p)
      /\ reservation' = reservation
  BY SameAccounts
<1>6. ObjectOK(ObjectOf(c))'
  BY <1>1, <1>3, <1>5, CallFacts DEF ObjectOK, Exempt
<1>7. x \in At /\ x \notin Erasing
  BY DEF At, Erasing, CallerPlaces
<1> QED
  BY <1>1, <1>4, <1>5, <1>6, <1>7, PlainStep

LEMMA NotPlaced ==
  ASSUME StoreInv, NEW c \in Call, at[c] \notin {"commit", "unput", "unplace"}
  PROVE  placed \ {c} = placed
BY DEF StoreInv, Relies

LEMMA CallerKeeps ==
  ASSUME Typed, StoreInv, NEW c \in Call,
         RegisterStep(c) \/ LinkStep(c) \/ CheckStep(c) \/ UnlinkStep(c) \/ LocateStep(c)
           \/ UnregisterStep(c) \/ Crash(c)
  PROVE  StoreInv'
<1>1. PICK o \in Object : o = ObjectOf(c)
  BY CallFacts
<1>2. record \subseteq Object /\ reference \subseteq Object
  BY DEF StoreInv, StoreTypeOK
<1>3. CASE RegisterStep(c)
  <2>1. PICK x \in {"link", "ended", "check", "unlink"} : Goto(c, x)
    BY <1>3 DEF RegisterStep, LinkFailed, UploadFailed
  <2>2. /\ at[c] = "register"
        /\ record' = record \/ record' = record \cup {o}
        /\ UNCHANGED <<accountingVars, stored, location, reference, placed, task, shared, lost>>
    BY <1>1, <1>3 DEF RegisterStep, others
  <2>3. o \in record' \ Temporary => o \in record \/ location[o] = "AVAILABLE" \/ Exempt(o)
    BY <1>1, <2>2, CallFacts DEF Relies
  <2>4. placed' = placed \ {c} /\ Live(c) /\ x \in CallerPlaces
    BY <2>1, <2>2, NotPlaced DEF Live, CallerPlaces
  <2> QED
    BY <1>1, <1>2, <2>1, <2>2, <2>3, <2>4, CallerStep
<1>4. CASE LinkStep(c)
  <2>1. PICK x \in {"ended", "register", "check", "unlink"} :
          Goto(c, x) /\ (x = "register" => Kind(c) # "import")
    BY <1>4 DEF LinkStep, LinkFailed, UploadFailed
  <2>2. /\ at[c] \in {"link", "relink"}
        /\ \/ reference' = reference
           \/ reference' = reference \cup {o} /\ location[o] = "AVAILABLE"
        /\ UNCHANGED <<accountingVars, stored, location, record, placed, task, shared, lost>>
    BY <1>1, <1>4 DEF LinkStep, others
  <2>3. placed' = placed \ {c} /\ Live(c) /\ x \in CallerPlaces
    BY <2>1, <2>2, NotPlaced DEF Live, CallerPlaces
  <2> QED
    BY <1>1, <1>2, <2>1, <2>2, <2>3, CallerStep
<1>5. CASE CheckStep(c) \/ LocateStep(c) \/ UnregisterStep(c)
  <2>1. PICK x \in {"ended", "locate", "lock", "unregister"} : Goto(c, x)
    BY <1>5 DEF CheckStep, LocateStep, UnregisterStep, Deleted
  <2>2. /\ at[c] \in {"check", "locate", "unregister"}
        /\ record' = record \/ record' = record \ {o}
        /\ UNCHANGED <<accountingVars, stored, location, reference, placed, task, shared, lost>>
    BY <1>1, <1>5 DEF CheckStep, LocateStep, UnregisterStep, storageVars, others
  <2>3. placed' = placed \ {c} /\ Live(c) /\ x \in CallerPlaces
    BY <2>1, <2>2, NotPlaced DEF Live, CallerPlaces
  <2> QED
    BY <1>1, <1>2, <2>1, <2>2, <2>3, CallerStep
<1>6. CASE UnlinkStep(c)
  <2>1. PICK x \in {"ended", "locate"} : Goto(c, x)
    BY <1>6 DEF UnlinkStep
  <2>2. /\ at[c] = "unlink" \/ (at[c] = "idle" /\ Kind(c) = "remove")
        /\ record' = record \/ record' = record \ {o}
        /\ reference' = reference \/ reference' = reference \ {o}
        /\ UNCHANGED <<accountingVars, stored, location, placed, task, shared, lost>>
    BY <1>1, <1>6 DEF UnlinkStep, others
  <2>3. placed' = placed \ {c} /\ (Live(c) \/ Kind(c) # "import") /\ x \in CallerPlaces
    BY <2>1, <2>2, NotPlaced DEF Live, CallerPlaces
  <2> QED
    BY <1>1, <1>2, <2>1, <2>2, <2>3, CallerStep
<1>7. CASE Crash(c)
  BY <1>1, <1>2, <1>7, CallerStep DEF Crash, storageVars, others, CallerPlaces
<1> QED
  BY <1>3, <1>4, <1>5, <1>6, <1>7

(* The begin of an upload.  *)
LEMMA BeginKeeps ==
  ASSUME Typed, StoreInv, NEW c \in Call, BeginUpload(c)
  PROVE  StoreInv'
<1>1. PICK o \in Object : o = ObjectOf(c)
  BY CallFacts
<1>2. /\ UNCHANGED <<location, stored, record, reference, placed, lost, task, accountingVars>>
      /\ at[c] = "idle" /\ Kind(c) # "remove"
      /\ shared' = IF \E d \in Call \ {c} : ObjectOf(d) = o /\ Kind(d) = "import" /\ Live(d)
                   THEN shared \cup {o} ELSE shared
  BY <1>1 DEF BeginUpload, storageVars
<1>3. PICK x \in {"relink", "reserve", "register", "link", "ended", "unlink"} :
        /\ Goto(c, x)
        /\ x = "reserve" => location[o] = "NONE"
        /\ x = "register" => location[o] = "AVAILABLE"
  <2>1. CASE Goto(c, "relink")
    BY <2>1
  <2>2. CASE location[o] = "NONE" /\ Goto(c, "reserve")
    BY <2>2
  <2>3. CASE location[o] = "AVAILABLE" /\ Uploaded(c)
    BY <2>3 DEF Uploaded
  <2>4. CASE UploadFailed(c)
    BY <2>4 DEF UploadFailed
  <2> QED
    BY <1>1, <2>1, <2>2, <2>3, <2>4 DEF BeginUpload
<1>4. at'[c] = x /\ \A d \in Call \ {c} : at'[d] = at[d]
  BY <1>3, CallFacts DEF Goto
<1>5. ObjectOf(c)' = o /\ Kind(c)' = Kind(c)
  BY <1>1, <1>2, SameTask
<1>6. c \notin placed
  BY <1>2, CallFacts DEF Relies
<1>7. Relies(c)'
  BY <1>2, <1>3, <1>4, <1>5, <1>6 DEF Relies, Uploading, Erasing
<1>8. /\ \A p \in Object : Uncounted(p)' = Uncounted(p)
      /\ reservation' = reservation
  BY <1>2, SameAccounts
<1>9. ObjectOK(ObjectOf(c))'
  BY <1>1, <1>2, <1>5, <1>8, CallFacts DEF ObjectOK, Exempt
<1>10. StoreTypeOK'
  BY <1>1, <1>2, <1>3 DEF StoreInv, StoreTypeOK, Goto, At
<1>11. CallMoves(c)
  BY <1>1, <1>2, <1>3, <1>4 DEF CallMoves, At, Erasing
<1>12. OthersKept(c)
  <2>1. \E S \in {{}, {o}} : shared' = shared \cup S
    BY <1>2
  <2>2. \E L \in {{}, {o}} : lost' = lost \cup L
    BY <1>2
  <2> QED
    BY <1>1, <1>2, <1>4, <1>8, <2>1, <2>2 DEF OthersKept
<1>13. LocationMoves(c)
  BY <1>2 DEF LocationMoves
<1> QED
  BY <1>7, <1>9, <1>10, <1>11, <1>12, <1>13, CallStep DEF Moves

(* A step that moves the object in the store, or its location.  *)
LEMMA ObjectStep ==
  ASSUME Typed, StoreInv, NEW c \in Call, NEW x \in At, Goto(c, x), Live(c),
         NEW o \in Object, o = ObjectOf(c),
         UNCHANGED <<record, reference, task, shared>>,
         NEW status \in LocationStatus, location' = [location EXCEPT ![o] = status],
         LocationMoves(c),
         stored' = stored \/ stored' = stored \cup {o}
           \/ (stored' = stored \ {o} /\ at[c] \in {"unput", "erase"}),
         lost' = lost \/ lost' = lost \cup {o},
         placed' = placed \/ placed' = placed \ {c}
           \/ (placed' = placed \cup {c} /\ location[o] = "NONE"),
         \A p \in Object \ {o} : Uncounted(p)' = Uncounted(p) /\ reservation'[p] = reservation[p],
         x \in Erasing => at[c] \in Erasing \/ location[o] = "AVAILABLE",
         Relies(c)', ObjectOK(o)'
  PROVE  StoreInv'
<1>1. StoreTypeOK'
  BY DEF StoreInv, StoreTypeOK, Goto
<1>2. at'[c] = x /\ \A d \in Call \ {c} : at'[d] = at[d]
  BY CallFacts DEF Goto
<1>3. \A p \in Object \ {o} : location'[p] = location[p]
  BY DEF Typed
<1>4. CallMoves(c)
  BY <1>2 DEF CallMoves, StoreInv, StoreTypeOK
<1>5. OthersKept(c)
  <2>1. \E S \in {{}, {o}} : shared' = shared \cup S
    OBVIOUS
  <2>2. \E L \in {{}, {o}} : lost' = lost \cup L
    OBVIOUS
  <2> QED
    BY <1>2, <1>3, <2>1, <2>2 DEF OthersKept
<1>6. ObjectOK(ObjectOf(c))'
  <2>1. ObjectOf(c)' = o
    BY SameTask
  <2> QED
    BY <2>1 DEF ObjectOK, Exempt, Uncounted
<1> QED
  BY <1>1, <1>4, <1>5, <1>6, CallStep DEF Moves

LEMMA PutKeeps ==
  ASSUME Typed, StoreInv, NEW c \in Call, PutStep(c) \/ UnputStep(c)
  PROVE  StoreInv'
<1>1. PICK o \in Object : o = ObjectOf(c)
  BY CallFacts
<1>2. /\ UNCHANGED <<location, record, reference, placed, task, shared, lost, accountingVars>>
      /\ at[c] \in {"put", "unput"}
      /\ stored' = stored \/ stored' = stored \cup {o} \/ (stored' = stored \ {o} /\ at[c] = "unput")
  BY <1>1 DEF PutStep, UnputStep, others
<1>3. PICK x \in {"place", "abort", "unplace"} :
        /\ Goto(c, x)
        /\ x = "place" => stored' = stored \cup {o}
        /\ x = "unplace" <=> at[c] = "unput"
  BY <1>1 DEF PutStep, UnputStep
<1>4. at'[c] = x
  BY <1>3, CallFacts DEF Goto
<1>5. ObjectOf(c)' = o /\ Kind(c)' = Kind(c)
  BY <1>1, <1>2, SameTask
<1>6. /\ location' = [location EXCEPT ![o] = location[o]] /\ location[o] \in LocationStatus
      /\ LocationMoves(c)
  BY <1>1, <1>2 DEF Typed, LocationMoves
<1>7. /\ \A p \in Object : Uncounted(p)' = Uncounted(p)
      /\ reservation' = reservation
  BY <1>2, SameAccounts
<1>8. Relies(c)'
  BY <1>1, <1>2, <1>3, <1>4, <1>5, CallFacts DEF Relies, Uploading, Erasing, Exempt
<1>9. ~Exempt(o) => location[o] # "AVAILABLE"
  BY <1>1, <1>2, CallFacts DEF Relies, Uploading
<1>10. ObjectOK(o)'
  BY <1>1, <1>2, <1>7, <1>9, CallFacts DEF ObjectOK, Exempt
<1>11. Live(c) /\ x \in At /\ x \notin Erasing
  BY <1>2, <1>3 DEF Live, At, Erasing
<1> QED
  BY <1>1, <1>2, <1>3, <1>6, <1>7, <1>8, <1>10, <1>11, ObjectStep

LEMMA PlaceKeeps ==
  ASSUME Typed, StoreInv, NEW c \in Call, PlaceStep(c) \/ UnplaceStep(c)
  PROVE  StoreInv'
<1>1. PICK o \in Object : o = ObjectOf(c)
  BY CallFacts
<1>2. /\ UNCHANGED <<stored, record, reference, task, shared, lost, accountingVars>>
      /\ at[c] \in {"place", "unplace"}
  BY <1>1 DEF PlaceStep, UnplaceStep, others
<1>3. PICK x \in {"commit", "unput", "abort"}, status \in LocationStatus :
        /\ Goto(c, x) /\ location' = [location EXCEPT ![o] = status]
        /\ x = "abort" <=> at[c] = "unplace"
        /\ \/ status = location[o]
           \/ at[c] = "place" /\ location[o] = "NONE" /\ status = "ACCOUNTING_PENDING"
           \/ at[c] = "unplace" /\ c \in placed /\ status = "NONE"
        /\ IF x = "commit"
           THEN placed' = placed \cup {c} /\ location[o] = "NONE" /\ status = "ACCOUNTING_PENDING"
           ELSE placed' = placed \ {c}
  <2>1. location[o] \in LocationStatus /\ location = [location EXCEPT ![o] = location[o]]
    BY DEF Typed
  <2>2. CASE PlaceStep(c)
    BY <1>1, <2>1, <2>2, NotPlaced DEF PlaceStep, LocationStatus
  <2>3. CASE UnplaceStep(c)
    BY <1>1, <2>1, <2>3 DEF UnplaceStep, LocationStatus
  <2> QED
    BY <2>2, <2>3
<1>4. at'[c] = x /\ location'[o] = status
  BY <1>1, <1>3, CallFacts DEF Goto
<1>5. ObjectOf(c)' = o /\ Kind(c)' = Kind(c)
  BY <1>1, <1>2, SameTask
<1>6. LocationMoves(c)
  BY <1>1, <1>3, <1>4 DEF LocationMoves
<1>7. /\ \A p \in Object : Uncounted(p)' = Uncounted(p)
      /\ reservation' = reservation
  BY <1>2, SameAccounts
<1>8. Relies(c)'
  BY <1>1, <1>2, <1>3, <1>4, <1>5, CallFacts DEF Relies, Uploading, Erasing, Exempt
<1>9. c \in placed => location[o] = "ACCOUNTING_PENDING" \/ o \in lost
  BY <1>1, CallFacts DEF Relies
<1>10. ObjectOK(o)'
  BY <1>1, <1>2, <1>3, <1>4, <1>7, <1>9, CallFacts DEF ObjectOK, Exempt
<1>11. Live(c) /\ x \in At /\ x \notin Erasing
  BY <1>2, <1>3 DEF Live, At, Erasing
<1> QED
  BY <1>1, <1>2, <1>3, <1>6, <1>7, <1>8, <1>10, <1>11, ObjectStep

LEMMA CommitKeeps ==
  ASSUME Typed, StoreInv, NEW c \in Call, CommitStep(c)
  PROVE  StoreInv'
<1>1. PICK o \in Object : o = ObjectOf(c)
  BY CallFacts
<1>2. /\ UNCHANGED <<stored, record, reference, task, shared>> /\ at[c] = "commit"
      /\ ObjectOf(c)' = o /\ Kind(c)' = Kind(c)
  BY <1>1, SameTask DEF CommitStep
<1>3. /\ c \in placed /\ (location[o] = "ACCOUNTING_PENDING" \/ o \in lost)
      /\ Exempt(o) \/ o \in stored
      /\ Kind(c) # "remove" /\ Live(c)
  BY <1>1, <1>2, CallFacts DEF Relies, Uploading, Live
<1>4. location[o] \in LocationStatus /\ location = [location EXCEPT ![o] = location[o]]
  BY DEF Typed
<1>5. CASE Commit(o) /\ location[o] = "ACCOUNTING_PENDING"
             /\ location' = [location EXCEPT ![o] = "AVAILABLE"]
             /\ \/ Uploaded(c) /\ placed' = placed \ {c} /\ UNCHANGED lost
                \/ Goto(c, "unput") /\ lost' = lost \cup {o} /\ UNCHANGED placed
  <2>1. PICK x \in {"register", "link", "unput"} :
          /\ Goto(c, x)
          /\ IF x = "unput" THEN lost' = lost \cup {o} /\ placed' = placed
             ELSE lost' = lost /\ placed' = placed \ {c}
    BY <1>5 DEF Uploaded
  <2>2. at'[c] = x /\ location'[o] = "AVAILABLE"
    BY <1>1, <1>5, <2>1, CallFacts, ZenonT(60) DEF Goto
  <2>3. LocationMoves(c)
    BY <1>1, <1>2, <2>2 DEF LocationMoves
  <2>4. /\ \A p \in Object : Uncounted(p)' = Uncounted(p)
        /\ \A p \in Object \ {o} : reservation'[p] = reservation[p]
    BY <1>5, TransactionRows
  <2>5. Relies(c)'
    BY <1>2, <1>3, <2>1, <2>2 DEF Relies, Uploading, Erasing, Exempt
  <2>6. ObjectOK(o)'
    BY <1>1, <1>2, <1>3, <1>5, <2>1, <2>2, <2>4, CallFacts DEF ObjectOK, Exempt
  <2>7. x \in At /\ x \notin Erasing /\ "AVAILABLE" \in LocationStatus
    BY <2>1 DEF At, Erasing, LocationStatus
  <2> QED
    BY <1>1, <1>2, <1>3, <1>5, <2>1, <2>3, <2>4, <2>5, <2>6, <2>7, ObjectStep
(* Its bytes are counted already: only if an answer was lost.  *)
<1>6. CASE reservation[o] = "COMMITTED" /\ Uploaded(c) /\ placed' = placed \ {c}
             /\ UNCHANGED <<accountingVars, location, lost>>
  <2>1. PICK x \in {"register", "link"} : Goto(c, x)
    BY <1>6 DEF Uploaded
  <2>2. at'[c] = x
    BY <2>1, CallFacts DEF Goto
  <2>3. o \in lost
    BY <1>1, <1>3, <1>6, CallFacts DEF ObjectOK
  <2>4. Relies(c)'
    BY <1>2, <1>6, <2>1, <2>2, <2>3 DEF Relies, Uploading, Erasing, Exempt
  <2>5. /\ \A p \in Object : Uncounted(p)' = Uncounted(p)
        /\ reservation' = reservation
    BY <1>6, SameAccounts
  <2>6. ObjectOK(o)'
    BY <1>1, <1>2, <1>6, <2>5, CallFacts DEF ObjectOK, Exempt
  <2>7. LocationMoves(c) /\ x \in At /\ x \notin Erasing
    BY <1>6, <2>1 DEF At, Erasing, LocationMoves
  <2> QED
    BY <1>1, <1>2, <1>3, <1>4, <1>6, <2>1, <2>4, <2>5, <2>6, <2>7, ObjectStep
<1>7. CASE Goto(c, "unput") /\ UNCHANGED <<accountingVars, location, lost, placed>>
  <2>1. at'[c] = "unput"
    BY <1>7, CallFacts DEF Goto
  <2>2. Relies(c)'
    BY <1>1, <1>2, <1>3, <1>7, <2>1, CallFacts DEF Relies, Uploading, Erasing, Exempt
  <2>3. /\ \A p \in Object : Uncounted(p)' = Uncounted(p)
        /\ reservation' = reservation
    BY <1>7, SameAccounts
  <2>4. ObjectOK(o)'
    BY <1>1, <1>2, <1>7, <2>3, CallFacts DEF ObjectOK, Exempt
  <2>5. LocationMoves(c) /\ "unput" \in At /\ "unput" \notin Erasing
    BY <1>7 DEF At, Erasing, LocationMoves
  <2> QED
    BY <1>1, <1>2, <1>3, <1>4, <1>7, <2>2, <2>3, <2>4, <2>5, ObjectStep
<1> QED
  BY <1>1, <1>5, <1>6, <1>7 DEF CommitStep

LEMMA LockKeeps ==
  ASSUME Typed, StoreInv, NEW c \in Call, LockStep(c)
  PROVE  StoreInv'
<1>1. PICK o \in Object : o = ObjectOf(c)
  BY CallFacts
<1>2. /\ UNCHANGED <<stored, record, reference, placed, task, shared, lost, accountingVars>>
      /\ at[c] = "lock"
  BY <1>1 DEF LockStep, others
<1>3. CASE /\ location[o] = "AVAILABLE" /\ o \notin record \ Temporary /\ o \notin reference
           /\ location' = [location EXCEPT ![o] = "DELETING"] /\ Goto(c, "erase")
  <2>1. at'[c] = "erase" /\ location'[o] = "DELETING"
    BY <1>1, <1>3, CallFacts, ZenonT(60) DEF Goto
  <2>2. ObjectOf(c)' = o /\ Kind(c)' = Kind(c)
    BY <1>1, <1>2, SameTask
  <2>3. Exempt(o) \/ o \in stored
    BY <1>1, <1>3, CallFacts DEF ObjectOK
  <2>4. Relies(c)'
    BY <1>1, <1>2, <2>1, <2>2, <2>3, CallFacts DEF Relies, Uploading, Erasing, Exempt
  <2>5. /\ \A p \in Object : Uncounted(p)' = Uncounted(p)
        /\ reservation' = reservation
    BY <1>2, SameAccounts
  <2>6. ObjectOK(o)'
    BY <1>1, <1>2, <1>3, <2>1, <2>5, CallFacts DEF ObjectOK, Exempt
  <2>7. LocationMoves(c) /\ Live(c) /\ "erase" \in At /\ "DELETING" \in LocationStatus
    BY <1>1, <1>2, <1>3, <2>1 DEF LocationMoves, At, Live, LocationStatus
  <2> QED
    BY <1>1, <1>2, <1>3, <2>4, <2>5, <2>6, <2>7, ObjectStep
<1>4. CASE UNCHANGED location /\ Goto(c, "ended")
  <2>1. placed' = placed \ {c} /\ Live(c) /\ "ended" \in CallerPlaces
    BY <1>2, NotPlaced DEF Live, CallerPlaces
  <2>2. record \subseteq Object /\ reference \subseteq Object
    BY DEF StoreInv, StoreTypeOK
  <2> QED
    BY <1>1, <1>2, <1>4, <2>1, <2>2, CallerStep
<1> QED
  BY <1>1, <1>3, <1>4 DEF LockStep

LEMMA EraseKeeps ==
  ASSUME Typed, StoreInv, NEW c \in Call, EraseStep(c)
  PROVE  StoreInv'
<1>1. PICK o \in Object : o = ObjectOf(c)
  BY CallFacts
<1>2. /\ UNCHANGED <<location, record, reference, placed, task, shared, accountingVars>>
      /\ at[c] = "erase"
  BY <1>1 DEF EraseStep
<1>3. PICK x \in {"count", "restore"} :
        /\ Goto(c, x)
        /\ stored' = stored \/ stored' = stored \ {o}
        /\ lost' = lost \/ lost' = lost \cup {o}
        /\ x = "restore" => stored' = stored \/ o \in lost'
  BY <1>1 DEF EraseStep
<1>4. at'[c] = x
  BY <1>3, CallFacts DEF Goto
<1>5. ObjectOf(c)' = o /\ Kind(c)' = Kind(c)
  BY <1>1, <1>2, SameTask
<1>6. /\ location' = [location EXCEPT ![o] = location[o]] /\ location[o] \in LocationStatus
      /\ LocationMoves(c)
  BY <1>1, <1>2 DEF Typed, LocationMoves
<1>7. /\ \A p \in Object : Uncounted(p)' = Uncounted(p)
      /\ reservation' = reservation
  BY <1>2, SameAccounts
<1>8. ~Exempt(o) => location[o] = "DELETING" /\ o \in stored
  BY <1>1, <1>2, CallFacts DEF Relies, Erasing
<1>9. c \notin placed
  BY <1>2, CallFacts DEF Relies
<1>10. Relies(c)'
  BY <1>2, <1>3, <1>4, <1>5, <1>8, <1>9 DEF Relies, Uploading, Erasing, Exempt
<1>11. ObjectOK(o)'
  BY <1>1, <1>2, <1>3, <1>7, <1>8, CallFacts DEF ObjectOK, Exempt
<1>12. Live(c) /\ x \in At /\ at[c] \in Erasing
  BY <1>2, <1>3 DEF Live, At, Erasing
<1> QED
  BY <1>1, <1>2, <1>3, <1>6, <1>7, <1>10, <1>11, <1>12, ObjectStep

(* The end of a delete: the location gets its status back, or is closed.  *)
LEMMA CloseKeeps ==
  ASSUME Typed, StoreInv, NEW c \in Call, RestoreStep(c) \/ CountStep(c) \/ PendingStep(c)
  PROVE  StoreInv'
<1>1. PICK o \in Object : o = ObjectOf(c)
  BY CallFacts
<1>2. /\ UNCHANGED <<stored, record, reference, placed, task, shared, lost>>
      /\ at[c] \in {"restore", "count", "pending"}
  BY <1>1 DEF RestoreStep, CountStep, PendingStep, others
<1>3. location[o] \in LocationStatus /\ location = [location EXCEPT ![o] = location[o]]
  BY DEF Typed
<1>4. PICK x \in {"ended", "unregister", "pending"}, status \in LocationStatus :
        /\ Goto(c, x) /\ location' = [location EXCEPT ![o] = status]
        /\ x = "pending" => at[c] = "count"
        /\ \/ status = location[o] /\ UNCHANGED accountingVars
           \/ /\ location[o] = "DELETING" /\ status = "AVAILABLE" /\ at[c] = "restore"
              /\ UNCHANGED accountingVars
           \/ /\ location[o] = "DELETING" /\ status = "DELETED" /\ at[c] = "count"
              /\ CountDelete(o)
           \/ /\ location[o] \in {"DELETING", "DELETED"} /\ status = "DELETE_ACCOUNTING_PENDING"
              /\ at[c] = "pending" /\ UNCHANGED accountingVars
  <2>1. CASE RestoreStep(c)
    BY <1>1, <1>3, <2>1 DEF RestoreStep, LocationStatus
  <2>2. CASE CountStep(c)
    BY <1>1, <1>3, <2>2 DEF CountStep, Deleted, LocationStatus
  <2>3. CASE PendingStep(c)
    BY <1>1, <1>3, <2>3 DEF PendingStep, LocationStatus
  <2> QED
    BY <2>1, <2>2, <2>3
<1>5. at'[c] = x /\ location'[o] = status
  <2>1. at' = [at EXCEPT ![c] = x] /\ location' = [location EXCEPT ![o] = status]
    BY <1>4 DEF Goto
  <2>2. at'[c] = x
    BY <2>1, CallFacts
  <2>3. location'[o] = status
    BY <2>1 DEF Typed
  <2> QED
    BY <2>2, <2>3
<1>6. ObjectOf(c)' = o /\ Kind(c)' = Kind(c)
  BY <1>1, <1>2, SameTask
<1>7. at[c] \in Erasing /\ Live(c) /\ x \in At
  BY <1>2, <1>4 DEF Erasing, Live, At
<1>8. LocationMoves(c)
  BY <1>1, <1>4, <1>5, <1>7 DEF LocationMoves
<1>9. c \notin placed
  BY <1>2, CallFacts DEF Relies
<1>10. ~Exempt(o) => /\ location[o] = "DELETING" \/ (at[c] = "pending" /\ location[o] = "DELETED")
                     /\ at[c] = "restore" => o \in stored
  BY <1>1, <1>7, CallFacts DEF Relies
<1>11. Relies(c)'
  BY <1>2, <1>4, <1>5, <1>6, <1>9, <1>10 DEF Relies, Uploading, Erasing, Exempt
<1>12. /\ reservation' = reservation
       /\ \A p \in Object \ {o} : Uncounted(p)' = Uncounted(p)
       /\ UNCHANGED accountingVars => Uncounted(o)' = Uncounted(o)
       /\ CountDelete(o) => ~Uncounted(o)'
  BY <1>4, SameAccounts, DeleteRows
<1>13. ObjectOK(o)'
  BY <1>1, <1>2, <1>4, <1>5, <1>10, <1>12, CallFacts DEF ObjectOK, Exempt
<1> QED
  BY <1>1, <1>2, <1>4, <1>7, <1>8, <1>11, <1>12, <1>13, ObjectStep

LEMMA StoreInvStep == Typed /\ StoreInv /\ [TrackedNext]_trackedVars => StoreInv'
<1> SUFFICES ASSUME Typed, StoreInv, [TrackedNext]_trackedVars PROVE StoreInv'
  OBVIOUS
<1>1. ASSUME NEW c \in Call, UploadStep(c) PROVE StoreInv'
  BY <1>1, BeginKeeps, ReserveKeeps, PutKeeps, PlaceKeeps, CommitKeeps DEF UploadStep
<1>2. ASSUME NEW c \in Call, KeepStep(c) \/ Crash(c) PROVE StoreInv'
  BY <1>2, CallerKeeps DEF KeepStep
<1>3. ASSUME NEW c \in Call, DeleteStep(c) PROVE StoreInv'
  BY <1>3, CallerKeeps, LockKeeps, EraseKeeps, CloseKeeps DEF DeleteStep
<1>4. ASSUME UNCHANGED <<storageVars, at, placed, others>>,
             UNCHANGED <<reservation, storageLedger>>
      PROVE  StoreInv'
  BY <1>4 DEF StoreInv, StoreTypeOK, Relies, Apart, ObjectOK, Uncounted, Exempt, Live, ObjectOf,
     Kind, storageVars, others
<1>5. ASSUME NEW a \in Addon, Activate(a) PROVE StoreInv'
  BY <1>4, <1>5 DEF Activate, ActivateAddon
<1>6. CASE UNCHANGED trackedVars
  BY <1>4, <1>6 DEF trackedVars, accountingVars
<1> QED
  BY <1>1, <1>2, <1>3, <1>5, <1>6 DEF TrackedNext

LEMMA StoreInvCorrect == TrackedSpec => []StoreInv
<1>1. TrackedInit => Inv /\ StoreInv
  BY InvInit, StoreInvInit
<1>2. Inv /\ StoreInv /\ [TrackedNext]_trackedVars => (Inv /\ StoreInv)'
  BY InvNext, StoreInvStep DEF Inv
<1> QED
  BY <1>1, <1>2, PTL DEF TrackedSpec

(* Whatever uploads, clean-ups and deletes do and wherever they die, what   *)
(* is available is in the store, and what has a reference or a document is  *)
(* available, save for shared keys and lost answers.                        *)
THEOREM ObjectsKeptCorrect == TrackedSpec => []ObjectsKept
<1>1. StoreInv => ObjectsKept
  BY DEF StoreInv, ObjectOK, Exempt, ObjectsKept
<1> QED
  BY StoreInvCorrect, <1>1, PTL

(* Bytes in use belong to an object that a location still accounts for,     *)
(* unless an answer about it was lost.                                      *)
THEOREM ChargedIsLocatedCorrect == TrackedSpec => []ChargedIsLocated
<1>1. StoreInv => ChargedIsLocated
  BY DEF StoreInv, ObjectOK, Uncounted, ChargedIsLocated
<1> QED
  BY StoreInvCorrect, <1>1, PTL
=============================================================================
