---------------------------- MODULE TrackedStorage ----------------------------
(***************************************************************************)
(* TrackedStorageService and its callers: files live in an object store,   *)
(* their locations, references and byte counts in the database, and no     *)
(* transaction spans both.  Every await is a step, at which other calls    *)
(* run, the database or the store may fail, or the process may die.        *)
(*                                                                         *)
(* A call is one of                                                        *)
(*   import  an item of a migration: upload, register a document, link it; *)
(*           when registering or linking fails, delete the object again    *)
(*   export  an artifact of an export job: upload, link, register; on any  *)
(*           error clean the attempt up                                    *)
(*   remove  the clean-up of an artifact that expired or was revoked       *)
(* An import that is retried, or that two workers run, uploads under the   *)
(* same key again; an export makes a new key for each attempt.             *)
(*                                                                         *)
(* Each object has content of its own, so that a blob has one location and *)
(* the reference of a blob is that of its object.  Left out: the blob rows, *)
(* LEGACY_UNVERIFIED locations and keys outside an organization.           *)
(***************************************************************************)
EXTENDS StorageAccounting

CONSTANTS
  Call,   \* executions; a retry is another call
  Tasks   \* what they may be asked to do: a task for each call

Task == [kind : {"import", "export", "remove"}, object : Object]

ASSUME TaskAssumption ==
  \A asked \in Tasks :
    /\ asked \in [Call -> Task]
    /\ \A c \in Call : asked[c].kind = "import" <=> asked[c].object \notin Temporary
    /\ \A c, d \in Call : asked[c].kind = "export" /\ asked[c] = asked[d] => c = d

VARIABLES
  stored,     \* keys present in the object store
  location,   \* storage_blob_locations: status by key
  record,     \* objects with a row in documentos, or in export_artifacts
  reference,  \* objects with a row in storage_blob_references
  task,       \* what each call was asked to do
  at,         \* where each call is suspended; ended when it returned, threw or died
  placed,     \* uploads that know the id of their location row
  shared,     \* objects that two live imports handled at once (history)
  lost        \* objects about which an answer was lost that mattered (history)

storageVars == <<stored, location, record, reference>>
others == <<task, shared, lost>>
trackedVars == <<accountingVars, storageVars, at, placed, others>>

-----------------------------------------------------------------------------
At == {"idle", "reserve", "put", "place", "commit", "unput", "unplace", "abort",
       "register", "link", "relink", "check", "unlink",
       "locate", "lock", "erase", "restore", "count", "pending", "unregister", "ended"}

Live(c) == at[c] \notin {"idle", "ended"}

Kind(c) == task[c].kind
ObjectOf(c) == task[c].object

Goto(c, pc) == at' = [at EXCEPT ![c] = pc]

(* Where the callers go on when the upload returned, when it threw, when a  *)
(* later step threw, and when the delete returned.                          *)
Uploaded(c)     == Goto(c, IF Kind(c) = "import" THEN "register" ELSE "link")
UploadFailed(c) == \/ Goto(c, "ended")
                   \/ Kind(c) = "export" /\ Goto(c, "unlink")
LinkFailed(c)   == IF Kind(c) = "import"
                   THEN Goto(c, IF at[c] = "relink" THEN "ended" ELSE "check")
                   ELSE UploadFailed(c)
Deleted(c)      == Goto(c, IF Kind(c) = "remove" THEN "unregister" ELSE "ended")

-----------------------------------------------------------------------------
(* An item whose document exists is linked again; otherwise the upload looks *)
(* at the location: an available object is there already, any other status  *)
(* retires the key.                                                         *)
BeginUpload(c) ==
  /\ at[c] = "idle" /\ Kind(c) # "remove"
  /\ LET o == ObjectOf(c)
     IN  /\ \/ o \in record /\ Kind(c) = "import" /\ Goto(c, "relink")
            \/ /\ o \notin record
               /\ CASE location[o] = "NONE"      -> Goto(c, "reserve")
                    [] location[o] = "AVAILABLE" -> Uploaded(c)
                    [] OTHER                     -> UploadFailed(c)
         /\ shared' = IF \E d \in Call \ {c} : ObjectOf(d) = o /\ Kind(d) = "import" /\ Live(d)
                      THEN shared \cup {o} ELSE shared
  /\ UNCHANGED <<accountingVars, storageVars, placed, task, lost>>

(* The bytes are reserved, or the reservation the content already has under *)
(* this key is taken, whatever its status; or the call fails, for lack of   *)
(* capacity or of a connection.                                             *)
ReserveStep(c) ==
  /\ at[c] = "reserve"
  /\ \/ Reserve(ObjectOf(c)) /\ (Goto(c, "put") \/ UploadFailed(c))
     \/ reservation[ObjectOf(c)] # "NONE" /\ UNCHANGED accountingVars /\ Goto(c, "put")
     \/ UNCHANGED accountingVars /\ UploadFailed(c)
  /\ UNCHANGED <<storageVars, placed, others>>

(* The store takes the object; or it fails, having written it or not.  *)
PutStep(c) ==
  /\ at[c] = "put"
  /\ \/ stored' = stored \cup {ObjectOf(c)} /\ (Goto(c, "place") \/ Goto(c, "abort"))
     \/ UNCHANGED stored /\ Goto(c, "abort")
  /\ UNCHANGED <<accountingVars, location, record, reference, placed, others>>

(* Mutant: the location is available before its bytes are counted.  *)
PlaceAvailable(c) ==
  /\ at[c] = "place" /\ location[ObjectOf(c)] = "NONE"
  /\ location' = [location EXCEPT ![ObjectOf(c)] = "AVAILABLE"]
  /\ placed' = placed \cup {c}
  /\ Goto(c, "commit")
  /\ UNCHANGED <<accountingVars, stored, record, reference, others>>

(* The location row is created under the unique index of the key; a second  *)
(* row is refused; the commit may be lost on its way back.                  *)
PlaceStep(c) ==
  /\ at[c] = "place"
  /\ \/ /\ location[ObjectOf(c)] = "NONE"
        /\ location' = [location EXCEPT ![ObjectOf(c)] = "ACCOUNTING_PENDING"]
        /\ \/ Goto(c, "commit") /\ placed' = placed \cup {c}
           \/ Goto(c, "unput") /\ UNCHANGED placed
     \/ UNCHANGED <<location, placed>> /\ Goto(c, "unput")
  /\ UNCHANGED <<accountingVars, stored, record, reference, others>>

(* commitStorageUpload counts the bytes and makes the location available in *)
(* one transaction; on a committed reservation it returns without either.   *)
CommitStep(c) ==
  /\ at[c] = "commit"
  /\ LET o == ObjectOf(c)
     IN  \/ /\ location[o] = "ACCOUNTING_PENDING"
            /\ Commit(o)
            /\ location' = [location EXCEPT ![o] = "AVAILABLE"]
            /\ \/ Uploaded(c) /\ placed' = placed \ {c} /\ UNCHANGED lost
               \/ Goto(c, "unput") /\ lost' = lost \cup {o} /\ UNCHANGED placed
         \/ /\ reservation[o] = "COMMITTED"
            /\ Uploaded(c) /\ placed' = placed \ {c}
            /\ UNCHANGED <<accountingVars, location, lost>>
         \/ Goto(c, "unput") /\ UNCHANGED <<accountingVars, location, lost, placed>>
  /\ UNCHANGED <<stored, record, reference, task, shared>>

-----------------------------------------------------------------------------
(* The upload failed after the object was written: it is deleted, as far as *)
(* the store lets it.                                                       *)
UnputStep(c) ==
  /\ at[c] = "unput"
  /\ stored' = stored \ {ObjectOf(c)} \/ UNCHANGED stored
  /\ Goto(c, "unplace")
  /\ UNCHANGED <<accountingVars, location, record, reference, placed, others>>

(* Its own location row goes as well, in whatever status.  *)
UnplaceStep(c) ==
  /\ at[c] = "unplace"
  /\ \/ c \in placed /\ location' = [location EXCEPT ![ObjectOf(c)] = "NONE"]
     \/ UNCHANGED location
  /\ placed' = placed \ {c}
  /\ Goto(c, "abort")
  /\ UNCHANGED <<accountingVars, stored, record, reference, others>>

(* The reservation is aborted, unless it is not active or the call fails.  *)
AbortStep(c) ==
  /\ at[c] = "abort"
  /\ Abort(ObjectOf(c)) \/ UNCHANGED accountingVars
  /\ UploadFailed(c)
  /\ UNCHANGED <<storageVars, placed, others>>

-----------------------------------------------------------------------------
(* The document of an import is created if a location row exists, and if no *)
(* document has the key; or the row of an export's artifact.                *)
RegisterStep(c) ==
  /\ at[c] = "register"
  /\ \/ /\ Kind(c) = "import" => location[ObjectOf(c)] # "NONE" /\ ObjectOf(c) \notin record
        /\ record' = record \cup {ObjectOf(c)}
        /\ Goto(c, IF Kind(c) = "import" THEN "link" ELSE "ended") \/ LinkFailed(c)
     \/ UNCHANGED record /\ LinkFailed(c)
  /\ UNCHANGED <<accountingVars, stored, location, reference, placed, others>>

(* linkReference, under the lock of the location row.  *)
LinkStep(c) ==
  /\ at[c] \in {"link", "relink"}
  /\ \/ /\ location[ObjectOf(c)] = "AVAILABLE"
        /\ reference' = reference \cup {ObjectOf(c)}
        /\ Goto(c, IF Kind(c) = "import" THEN "ended" ELSE "register") \/ LinkFailed(c)
     \/ UNCHANGED reference /\ LinkFailed(c)
  /\ UNCHANGED <<accountingVars, stored, location, record, placed, others>>

(* An import that failed deletes its object if it finds no document, or     *)
(* cannot look.                                                             *)
CheckStep(c) ==
  /\ at[c] = "check"
  /\ \/ ObjectOf(c) \in record /\ Goto(c, "ended")
     \/ Goto(c, "locate")
  /\ UNCHANGED <<accountingVars, storageVars, placed, others>>

(* The clean-up of an artifact, or of a failed attempt, starts with its     *)
(* references; a failed attempt gives up its artifact row too.              *)
UnlinkStep(c) ==
  /\ \/ at[c] = "idle" /\ Kind(c) = "remove" /\ ObjectOf(c) \in record
     \/ at[c] = "unlink"
  /\ \/ /\ reference' = reference \ {ObjectOf(c)}
        /\ record' = IF Kind(c) = "export" THEN record \ {ObjectOf(c)} ELSE record
        /\ Goto(c, "locate")
     \/ UNCHANGED <<reference, record>> /\ Goto(c, "ended")
  /\ UNCHANGED <<accountingVars, stored, location, placed, others>>

-----------------------------------------------------------------------------
(* delete looks for an available location.  Without one it throws, or there *)
(* is nothing left to do.                                                   *)
LocateStep(c) ==
  /\ at[c] = "locate"
  /\ \/ location[ObjectOf(c)] = "AVAILABLE" /\ Goto(c, "lock")
     \/ location[ObjectOf(c)] # "AVAILABLE" /\ Deleted(c)
     \/ Goto(c, "ended")
  /\ UNCHANGED <<accountingVars, storageVars, placed, others>>

(* Mutant: the caller is trusted to know that no document has the key.  *)
LockUnchecked(c) ==
  /\ at[c] = "lock" /\ location[ObjectOf(c)] = "AVAILABLE"
  /\ ObjectOf(c) \notin reference
  /\ location' = [location EXCEPT ![ObjectOf(c)] = "DELETING"]
  /\ Goto(c, "erase")
  /\ UNCHANGED <<accountingVars, stored, record, reference, placed, others>>

(* Under the lock of the location row: still available, no document with    *)
(* the key, no reference.                                                   *)
LockStep(c) ==
  /\ at[c] = "lock"
  /\ LET o == ObjectOf(c)
     IN  \/ /\ location[o] = "AVAILABLE"
            /\ o \notin record \ Temporary
            /\ o \notin reference
            /\ location' = [location EXCEPT ![o] = "DELETING"]
            /\ Goto(c, "erase")
         \/ UNCHANGED location /\ Goto(c, "ended")
  /\ UNCHANGED <<accountingVars, stored, record, reference, placed, others>>

(* The store deletes the object; or it fails, having deleted it or not.  *)
EraseStep(c) ==
  /\ at[c] = "erase"
  /\ \/ stored' = stored \ {ObjectOf(c)} /\ Goto(c, "count") /\ UNCHANGED lost
     \/ stored' = stored \ {ObjectOf(c)} /\ Goto(c, "restore") /\ lost' = lost \cup {ObjectOf(c)}
     \/ UNCHANGED <<stored, lost>> /\ Goto(c, "restore")
  /\ UNCHANGED <<accountingVars, location, record, reference, placed, task, shared>>

(* The store threw: the location gets its status back, if it is still there. *)
RestoreStep(c) ==
  /\ at[c] = "restore"
  /\ \/ /\ location[ObjectOf(c)] = "DELETING"
        /\ location' = [location EXCEPT ![ObjectOf(c)] = "AVAILABLE"]
     \/ UNCHANGED location
  /\ Goto(c, "ended")
  /\ UNCHANGED <<accountingVars, stored, record, reference, placed, others>>

(* Mutant: the location is closed without the accounting.  *)
CloseUncounted(c) ==
  /\ at[c] = "count"
  /\ location' = [location EXCEPT ![ObjectOf(c)] = "DELETED"]
  /\ Deleted(c)
  /\ UNCHANGED <<accountingVars, stored, record, reference, placed, others>>

(* The bytes are taken off and the location is closed in one transaction.   *)
(* It may fail, or its answer be lost, or the refresh of the alerts fail    *)
(* that follows it.                                                         *)
CountStep(c) ==
  /\ at[c] = "count"
  /\ \/ /\ location[ObjectOf(c)] = "DELETING"
        /\ CountDelete(ObjectOf(c))
        /\ location' = [location EXCEPT ![ObjectOf(c)] = "DELETED"]
        /\ Deleted(c) \/ Goto(c, "pending")
     \/ UNCHANGED <<accountingVars, location>> /\ Goto(c, "pending")
  /\ UNCHANGED <<stored, record, reference, placed, others>>

(* The row, if it is still there, is left for a reconciliation.  *)
PendingStep(c) ==
  /\ at[c] = "pending"
  /\ \/ /\ location[ObjectOf(c)] \in {"DELETING", "DELETED"}
        /\ location' = [location EXCEPT ![ObjectOf(c)] = "DELETE_ACCOUNTING_PENDING"]
     \/ UNCHANGED location
  /\ Goto(c, "ended")
  /\ UNCHANGED <<accountingVars, stored, record, reference, placed, others>>

(* The clean-up of an artifact ends with its row.  *)
UnregisterStep(c) ==
  /\ at[c] = "unregister"
  /\ \/ record' = record \ {ObjectOf(c)} /\ Goto(c, "ended")
     \/ UNCHANGED record /\ Goto(c, "ended")
  /\ UNCHANGED <<accountingVars, stored, location, reference, placed, others>>

(* The process dies.  *)
Crash(c) ==
  /\ Live(c)
  /\ Goto(c, "ended") /\ placed' = placed \ {c}
  /\ UNCHANGED <<accountingVars, storageVars, others>>

Activate(a) ==
  /\ ActivateAddon(a)
  /\ UNCHANGED <<storageVars, at, placed, others>>

-----------------------------------------------------------------------------
TrackedInit ==
  /\ AccountingInit
  /\ stored = {} /\ record = {} /\ reference = {}
  /\ location = [o \in Object |-> "NONE"]
  /\ task \in Tasks
  /\ at = [c \in Call |-> "idle"]
  /\ placed = {}
  /\ shared = {} /\ lost = {}

UploadStep(c) ==
  BeginUpload(c) \/ ReserveStep(c) \/ PutStep(c) \/ PlaceStep(c) \/ CommitStep(c)
    \/ UnputStep(c) \/ UnplaceStep(c) \/ AbortStep(c)

KeepStep(c) == RegisterStep(c) \/ LinkStep(c) \/ CheckStep(c)

DeleteStep(c) ==
  UnlinkStep(c) \/ LocateStep(c) \/ LockStep(c) \/ EraseStep(c) \/ RestoreStep(c)
    \/ CountStep(c) \/ PendingStep(c) \/ UnregisterStep(c)

TrackedNext ==
  \/ \E c \in Call : UploadStep(c) \/ KeepStep(c) \/ DeleteStep(c) \/ Crash(c)
  \/ \E a \in Addon : Activate(a)

TrackedSpec == TrackedInit /\ [][TrackedNext]_trackedVars

-----------------------------------------------------------------------------
(* Objects outlive their uses, whatever uploads, clean-ups and deletes do   *)
(* and wherever they die: an AVAILABLE location has its object in the       *)
(* store, and a referenced object and the document of an import are never   *)
(* given up (references and deletes serialize on the location row).         *)
(* Exceptions: imports that handle one key together delete each other's     *)
(* object and look for the document outside the lock, and an answer that    *)
(* was lost makes the code undo what was done.                              *)
ObjectsKept ==
  \A o \in Object :
    /\ location[o] = "AVAILABLE"  => o \in stored \cup shared \cup lost
    /\ o \in record \ Temporary   => location[o] = "AVAILABLE" \/ o \in shared \cup lost
    /\ o \in reference           => location[o] = "AVAILABLE" \/ o \in lost

(* An AVAILABLE object is charged: its bytes were committed and no delete   *)
(* took them off.                                                           *)
AvailableIsCharged ==
  \A o \in Object : location[o] = "AVAILABLE" =>
    reservation[o] = "COMMITTED" /\ storageLedger[<<"delete", o>>] = NoBytes

(* The tenant is charged only for what a location still accounts for:       *)
(* unless an answer was lost, bytes in use belong to an object that is      *)
(* available or whose delete is under way or broke off.                     *)
ChargedIsLocated ==
  \A o \in Object :
    reservation[o] = "COMMITTED" /\ storageLedger[<<"delete", o>>] = NoBytes /\ o \notin lost =>
      location[o] \in {"AVAILABLE", "DELETING", "DELETE_ACCOUNTING_PENDING"}
=============================================================================
