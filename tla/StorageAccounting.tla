--------------------------- MODULE StorageAccounting ---------------------------
(***************************************************************************)
(* The storage quota of one organization: StorageAccountingService and the *)
(* add-ons of StorageEntitlementsService over tenant_storage_usage,        *)
(* tenant_entitlements, storage_reservations and storage_ledger_events.    *)
(*                                                                         *)
(* Each method is one SERIALIZABLE transaction behind the lock of its row, *)
(* and so one atomic action.  The idempotency key of a reservation is the  *)
(* digest of the object key and of the content; a key never carries two    *)
(* contents, so reservations are indexed by object.  Usage alerts are left *)
(* out, and so is the mark that cancels an add-on, which changes no bytes. *)
(***************************************************************************)
EXTENDS Totals

CONSTANTS
  Object,      \* object keys
  BytesOf,     \* size of the content of each
  Temporary,   \* the objects stored as TEMPORARY, the others as PRODUCTION
  Included,    \* included_storage_bytes
  Addon,       \* idempotency keys of add-ons
  AddonBytes   \* capacity of one

ASSUME StorageAssumption ==
  /\ BytesOf \in [Object -> Nat \ {0}]
  /\ Temporary \subseteq Object
  /\ Included \in Nat /\ AddonBytes \in Nat \ {0}

VARIABLES
  usage,         \* tenant_storage_usage
  capacity,      \* total_storage_capacity_bytes
  addon,         \* tenant_storage_addons
  reservation,   \* storage_reservations: status by idempotency key
  storageLedger  \* storage_ledger_events by idempotency key

accountingVars == <<usage, capacity, addon, reservation, storageLedger>>

-----------------------------------------------------------------------------
(* The columns of the counter, and of a row of the ledger.  *)
Columns == {"production", "temporary", "reserved"}

LedgerKey == {"reserve", "commit", "abort", "delete"} \X Object

NoBytes == [column \in Columns |-> 0]

(* The column that counts the bytes of a stored object.  *)
ColumnOf(o) == IF o \in Temporary THEN "temporary" ELSE "production"

(* Temporary objects reserve nothing.  *)
Claimed(o) == IF o \in Temporary THEN 0 ELSE BytesOf[o]

(* What each transaction adds to the counter and writes to the ledger.  *)
Reserving(o)  == [NoBytes EXCEPT !["reserved"] = Claimed(o)]
Committing(o) == [NoBytes EXCEPT !["reserved"] = -Claimed(o), ![ColumnOf(o)] = BytesOf[o]]
Aborting(o)   == [NoBytes EXCEPT !["reserved"] = -Claimed(o)]
Deleting(o)   == [NoBytes EXCEPT ![ColumnOf(o)] = -BytesOf[o]]

(* The counter moves by a new row of the ledger.  *)
Record(key, delta) ==
  /\ storageLedger[key] = NoBytes
  /\ storageLedger' = [storageLedger EXCEPT ![key] = delta]
  /\ usage' = [column \in Columns |-> usage[column] + delta[column]]
  /\ UNCHANGED <<capacity, addon>>

-----------------------------------------------------------------------------
(* Mutant: bytes that others reserved are taken for free.  *)
ReserveUnused(o) ==
  /\ reservation[o] = "NONE"
  /\ o \notin Temporary => usage["production"] + BytesOf[o] <= capacity
  /\ reservation' = [reservation EXCEPT ![o] = "RESERVED"]
  /\ Record(<<"reserve", o>>, Reserving(o))

(* reserveStorageCapacity for a new key.  *)
Reserve(o) ==
  /\ reservation[o] = "NONE"
  /\ o \notin Temporary => usage["production"] + usage["reserved"] + BytesOf[o] <= capacity
  /\ reservation' = [reservation EXCEPT ![o] = "RESERVED"]
  /\ Record(<<"reserve", o>>, Reserving(o))

(* commitStorageUpload of an active reservation.  *)
Commit(o) ==
  /\ reservation[o] = "RESERVED"
  /\ reservation' = [reservation EXCEPT ![o] = "COMMITTED"]
  /\ Record(<<"commit", o>>, Committing(o))

(* abortStorageUpload of an active reservation.  *)
Abort(o) ==
  /\ reservation[o] = "RESERVED"
  /\ reservation' = [reservation EXCEPT ![o] = "ABORTED"]
  /\ Record(<<"abort", o>>, Aborting(o))

(* Mutant: the bytes of a deleted object return to the free ones twice.  *)
CountDeleteTwice(o) ==
  /\ usage[ColumnOf(o)] >= BytesOf[o]
  /\ storageLedger[<<"delete", o>>] = NoBytes
  /\ storageLedger' = [storageLedger EXCEPT ![<<"delete", o>>] = Deleting(o)]
  /\ usage' = [usage EXCEPT ![ColumnOf(o)] = @ - BytesOf[o], !["reserved"] = @ - Claimed(o)]
  /\ UNCHANGED <<reservation, capacity, addon>>

(* The accounting of a delete, unless the counter would fall below zero.  *)
CountDelete(o) ==
  /\ usage[ColumnOf(o)] >= BytesOf[o]
  /\ Record(<<"delete", o>>, Deleting(o))
  /\ UNCHANGED reservation

(* activateAddon, once for each key.  *)
ActivateAddon(a) ==
  /\ a \notin addon
  /\ addon' = addon \cup {a}
  /\ capacity' = capacity + AddonBytes
  /\ UNCHANGED <<usage, reservation, storageLedger>>

AccountingInit ==
  /\ usage = NoBytes
  /\ capacity = Included
  /\ addon = {}
  /\ reservation = [o \in Object |-> "NONE"]
  /\ storageLedger = [key \in LedgerKey |-> NoBytes]

-----------------------------------------------------------------------------
(* The bytes in a column come from the reservations in a state.  *)
BytesWhere(column, status) ==
  Total([o \in Object |->
    IF reservation[o] = status
    THEN (IF column = "reserved" THEN Claimed(o) ELSE IF ColumnOf(o) = column THEN BytesOf[o] ELSE 0)
    ELSE 0])

(* Deleted objects of the reservations that were committed.  *)
BytesDeleted(column) ==
  Total([o \in Object |->
    IF storageLedger[<<"delete", o>>] # NoBytes /\ ColumnOf(o) = column THEN BytesOf[o] ELSE 0])

(* The counters that transactions move by increments say what the           *)
(* reservations say: bytes on hold are those of open reservations, bytes in *)
(* use those committed and not deleted, and no counter is negative (the     *)
(* CHECK constraint of tenant_storage_usage).                               *)
UsageMatchesReservations ==
  /\ \A column \in Columns : usage[column] >= 0
  /\ usage["reserved"] = BytesWhere("reserved", "RESERVED")
  /\ \A column \in {"production", "temporary"} :
       usage[column] + BytesDeleted(column) = BytesWhere(column, "COMMITTED")

(* The quota holds for the bytes in use and on hold together, however       *)
(* uploads, failures and deletes interleave.                                *)
QuotaKept == usage["production"] + usage["reserved"] <= capacity
=============================================================================
