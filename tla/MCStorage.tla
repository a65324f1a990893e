------------------------------ MODULE MCStorage ------------------------------
(***************************************************************************)
(* Three calls that import documents, retries and second workers among     *)
(* them, or export an artifact and clean it up.  The capacity takes both   *)
(* documents only once an add-on was bought.                               *)
(***************************************************************************)
EXTENDS TrackedStorage, TLC

CONSTANTS d1, d2, t, a1

MCObject == {d1, d2, t}
MCBytes == d1 :> 2 @@ d2 :> 1 @@ t :> 1
MCTemporary == {t}
MCAddon == {a1}
MCCall == 1..3
Import(o) == [kind |-> "import", object |-> o]
Export(o) == [kind |-> "export", object |-> o]
Remove(o) == [kind |-> "remove", object |-> o]
MCTasks ==
  {<<Import(d1), Import(d1), Import(d1)>>,
   <<Import(d1), Import(d1), Import(d2)>>,
   <<Export(t), Remove(t), Remove(t)>>}
=============================================================================
