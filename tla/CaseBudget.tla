------------------------------ MODULE CaseBudget ------------------------------
(***************************************************************************)
(* The budget of an expediente (EXP-007) and the documents generated from  *)
(* it.  A save replaces the concepts and counts the version, whole under   *)
(* one lock.  A document is generated in steps: the budget row and its     *)
(* concepts are two queries outside any transaction, the rendered file is  *)
(* stored, and a transaction under another lock records it if the version  *)
(* is still the one first read.                                            *)
(***************************************************************************)
EXTENDS Naturals, Sequences, FiniteSets

CONSTANTS
  Sesion,      \* the requests that may be in progress at one time
  Captura,     \* sets of concepts a person captures, each one value
  Archivo,     \* storage keys
  ClavePdf,    \* idempotency keys of a generation
  MaxVersion   \* bound: versions of the expediente's budget

VARIABLES
  historial,   \* the budget's concepts at each version; <<>> without expediente
  documentos,  \* expediente_presupuesto_documentos
  almacen,     \* objects in storage
  tx           \* what each request has read and not yet committed

caseVars == <<historial, documentos, almacen, tx>>

(* No request in progress. *)
Idle == [tipo |-> "LIBRE"]

(* No transaction holds the lock. *)
LockFree(tipo) == \A s \in Sesion : tx[s].tipo # tipo

CaseInit ==
  /\ historial = <<>>
  /\ documentos = {}
  /\ almacen = {}
  /\ tx = [s \in Sesion |-> Idle]

(* The budget is saved at the version its author read; a stale one is      *)
(* refused.  Reads and writes are under the budget's lock: one step.       *)
SaveBudget(conceptos) ==
  /\ historial # <<>> /\ Len(historial) < MaxVersion
  /\ historial' = Append(historial, {conceptos})
  /\ UNCHANGED <<documentos, almacen, tx>>

(* A generation starts: its key has no document yet, and the budget row    *)
(* has the version the author asked for.                                   *)
ReadBudgetRow(s, clave) ==
  /\ tx[s] = Idle /\ historial # <<>>
  /\ \A d \in documentos : d.clave # clave
  /\ tx' = [tx EXCEPT ![s] = [tipo |-> "PDF", clave |-> clave, version |-> Len(historial)]]
  /\ UNCHANGED <<historial, documentos, almacen>>

(* The concepts of the budget, a second query; they are rendered and the   *)
(* file is stored under a new key.                                         *)
RenderBudget(s, archivo) ==
  /\ tx[s].tipo = "PDF"
  /\ archivo \notin almacen
  /\ \A d \in documentos : d.archivo # archivo
  /\ tx' = [tx EXCEPT ![s] =
              [tipo |-> "SUBIDO", clave |-> tx[s].clave, version |-> tx[s].version,
               contenido |-> historial[Len(historial)], archivo |-> archivo]]
  /\ almacen' = almacen \cup {archivo}
  /\ UNCHANGED <<historial, documentos>>

(* Mutant: the transaction does not read the version again. *)
SameVersionUnchecked(t) == t.version <= Len(historial)

(* The budget still has the version the document was asked for. *)
SameVersion(t) == t.version = Len(historial)

(* Another request with this key recorded its document first. *)
Duplicate(t) == \E d \in documentos : d.clave = t.clave

(* The document a request records; oido tells, for the properties alone,   *)
(* whether the request heard its commit.                                   *)
Document(t, oido) ==
  [clave |-> t.clave, version |-> t.version, contenido |-> t.contenido, archivo |-> t.archivo,
   eliminado |-> FALSE, oido |-> oido]

(* The transaction commits the document.  *)
Records(s, oido) ==
  /\ tx[s].tipo = "SUBIDO"
  /\ ~Duplicate(tx[s]) /\ SameVersion(tx[s])
  /\ documentos' = documentos \cup {Document(tx[s], oido)}
  /\ tx' = [tx EXCEPT ![s] = Idle]
  /\ UNCHANGED historial

(* The request deletes the file it stored; a failure to do so is swallowed. *)
DeletesFile(s) == almacen' \in {almacen, almacen \ {tx[s].archivo}}

(* The document is recorded. *)
RecordDocument(s) == Records(s, TRUE) /\ UNCHANGED almacen

(* The document is recorded and the answer of the commit lost: the request *)
(* takes it for a failure and deletes the file.                            *)
RecordUnheard(s) == Records(s, FALSE) /\ DeletesFile(s)

(* The document is not recorded, the key being taken, the version gone or  *)
(* the transaction failing or timing out: the request deletes the file.    *)
DiscardUpload(s) ==
  /\ tx[s].tipo = "SUBIDO"
  /\ DeletesFile(s)
  /\ tx' = [tx EXCEPT ![s] = Idle]
  /\ UNCHANGED <<historial, documentos>>

(* A document is withdrawn; the row and the file stay. *)
DeletePdf(d) ==
  /\ d \in documentos /\ ~d.eliminado
  /\ documentos' = (documentos \ {d}) \cup {[d EXCEPT !.eliminado = TRUE]}
  /\ UNCHANGED <<historial, almacen, tx>>

(* The process stops, a document is not rendered, or a transaction of      *)
(* another kind fails: what was not committed is rolled back, and a stored *)
(* file nobody recorded stays.                                             *)
Stop(s) ==
  /\ tx[s] # Idle
  /\ tx' = [tx EXCEPT ![s] = Idle]
  /\ UNCHANGED <<historial, documentos, almacen>>

(* A document shows the concepts its recorded version had, though its row  *)
(* and its concepts are read by two queries with saves in between; no two  *)
(* documents have one key, and the file of each is in storage whatever the *)
(* requests that lost the race delete.  A document whose request did not   *)
(* hear its commit may have lost its file, and is left out of that clause. *)
PdfShowsItsVersion ==
  /\ \A d \in documentos : d.contenido = historial[d.version]
  /\ \A d \in documentos : d.oido => d.archivo \in almacen
  /\ \A d, e \in documentos : d.clave = e.clave => d = e

=============================================================================
