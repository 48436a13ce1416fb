--------------------------- MODULE MCTransactions ---------------------------
(***************************************************************************)
(* Where transactions of several processes overlap on PostgreSQL: the job  *)
(* queue, and the versions and sessions of authoring. The two share no     *)
(* state: the initial state picks the one in focus, the other one rests.   *)
(***************************************************************************)
EXTENDS MCJobQueue, Authoring

VARIABLE focus   \* the component that takes steps

transactionsVars == <<focus, queueVars, authoringVars>>

TransactionsInit ==
    /\ focus \in {"queue", "authoring"}
    /\ QueueInit
    /\ AuthoringInit

TransactionsNext ==
    /\ UNCHANGED focus
    /\ \/ focus = "queue" /\ QueueNext /\ UNCHANGED authoringVars
       \/ focus = "authoring" /\ AuthoringNext /\ UNCHANGED queueVars

TransactionsSpec == TransactionsInit /\ [][TransactionsNext]_transactionsVars
=============================================================================
