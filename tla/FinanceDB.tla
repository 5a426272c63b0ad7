------------------------------ MODULE FinanceDB -----------------------------
(***************************************************************************)
(* The users of the finance pool together: tenant sessions and the         *)
(* provisioning loader, in one process that can be killed and started      *)
(* again at any moment.                                                    *)
(***************************************************************************)
EXTENDS TenantSessions, ProvisionLoader

\* A goroutine is in one call at a time.
ASSUME UsersAssumption == Client \cap Caller = {}

vars == <<conns, queue, registry, call, want, step, mutex, script, applied>>

TypeOK == PoolTypeOK /\ SessionTypeOK /\ LoaderTypeOK

Init == PoolInit /\ SessionInit /\ LoaderInit

\* The registry outlives the process.
Restart ==
    /\ conns' = [c \in Conn |-> Closed]
    /\ queue' = << >>
    /\ call' = [c \in Client |-> "none"]
    /\ want' = [c \in Client |-> NULL]
    /\ step' = [c \in Caller |-> "none"]
    /\ mutex' = Unlocked
    /\ script' = "unread"
    /\ applied' = FALSE
    /\ UNCHANGED registry

Next ==
    \/ SessionNext /\ UNCHANGED loaderVars
    \/ LoaderNext /\ UNCHANGED sessionVars
    \/ Upkeep /\ UNCHANGED <<sessionVars, loaderVars>>
    \/ Restart

Spec == Init /\ [][Next]_vars

\* A client gives its session back; an Exec answers or fails; the pool
\* serves whoever is first in line; sync.Mutex hands itself to a goroutine
\* it has starved.
Fairness ==
    /\ \A c \in Client :
        WF_vars(SessionProceeds(c) /\ UNCHANGED loaderVars)
    /\ \A c \in Caller :
        /\ SF_vars(Lock(c) /\ UNCHANGED sessionVars)
        /\ WF_vars(LoaderProceeds(c) /\ UNCHANGED sessionVars)
FairSpec == Spec /\ Fairness

-----------------------------------------------------------------------------
\* The pool is neither leaked nor shared: each user between Acquire and
\* Release holds exactly one connection, and every other connection is idle.
NoLeak ==
    LET holders == {c \in Client : call[c] \in {"set", "serving"}}
                   \cup {c \in Caller : step[c] = "exec"}
    IN  \A u \in User : Cardinality(HeldBy(u)) = IF u \in holders THEN 1 ELSE 0
=============================================================================
