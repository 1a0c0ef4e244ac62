------------------------------ MODULE MCStores -------------------------------
(***************************************************************************)
(* Three models in one run: the directory of an entity (EntityService),    *)
(* the LanceDB table of a collection (IndexView) and the lock file of the  *)
(* reconciler (ReconcileLock).  They share no variable, so a behaviour is  *)
(* one of a single model, `part`, while the other two stay as they began.  *)
(***************************************************************************)
EXTENDS MCEntityService, IndexView, ReconcileLock

VARIABLE part

StoresInit ==
    /\ part \in {"entity", "view", "lock"}
    /\ Init /\ ViewInit /\ LockInit

StoresNext ==
    /\ UNCHANGED part
    /\ \/ part = "entity" /\ Next /\ UNCHANGED <<viewVars, lockVars>>
       \/ part = "view" /\ ViewNext /\ UNCHANGED <<vars, lockVars>>
       \/ part = "lock" /\ LockNext /\ UNCHANGED <<vars, viewVars>>

StoresSpec == StoresInit /\ [][StoresNext]_<<part, vars, viewVars, lockVars>>

=============================================================================
