--------------------------- MODULE ProvisionLoader --------------------------
(***************************************************************************)
(* internal/db/provision.go: concurrent calls of                           *)
(* EnsureFinanceTenantProvisioning, which loads the provisioning script    *)
(* once per process (sync.Once keeps a failure as well) and executes it    *)
(* once per process, under a mutex and on a connection of the finance      *)
(* pool.                                                                   *)
(***************************************************************************)
EXTENDS ConnPool

CONSTANTS Caller,   \* goroutines that call it
          Unlocked  \* nobody holds financeProvisionMu

ASSUME CallerAssumption == Caller \subseteq User /\ Unlocked \notin Caller

VARIABLES step,       \* Caller -> where its call is
          mutex,      \* holder of financeProvisionMu
          script,     \* what financeProvisionLoadOnce left behind
          applied     \* financeProvisionApplied

loaderVars == <<step, mutex, script, applied>>

LoaderTypeOK ==
    /\ step \in [Caller -> {"none", "lock", "locked", "acquire", "exec"}]
    /\ mutex \in Caller \cup {Unlocked}
    /\ script \in {"unread", "loaded", "error"}
    /\ applied \in BOOLEAN

LoaderInit ==
    /\ step = [c \in Caller |-> "none"]
    /\ mutex = Unlocked
    /\ script = "unread"
    /\ applied = FALSE

\* Mutant of Return: the returns before Acquire forget the Unlock.
ReturnLocked(c) ==
    /\ step' = [step EXCEPT ![c] = "none"]
    /\ mutex' = IF step[c] = "locked" THEN mutex ELSE Unlocked
\* The deferred Unlock runs on every return.
Return(c) ==
    /\ step' = [step EXCEPT ![c] = "none"]
    /\ mutex' = Unlocked

Ensure(c) ==
    /\ step[c] = "none"
    /\ step' = [step EXCEPT ![c] = "lock"]
    /\ UNCHANGED <<mutex, script, applied, poolVars>>

\* Mutant of Lock: no mutex.
LockAlways(c) ==
    /\ step[c] = "lock"
    /\ mutex' = c
    /\ step' = [step EXCEPT ![c] = "locked"]
    /\ UNCHANGED <<script, applied, poolVars>>

Lock(c) ==
    /\ step[c] = "lock"
    /\ mutex = Unlocked
    /\ mutex' = c
    /\ step' = [step EXCEPT ![c] = "locked"]
    /\ UNCHANGED <<script, applied, poolVars>>

\* Already applied: nothing to do.
Skip(c) ==
    /\ step[c] = "locked" /\ applied
    /\ Return(c)
    /\ UNCHANGED <<script, applied, poolVars>>

\* loadFinanceProvisionScript: a candidate is read, or none can be or it is
\* empty; whichever comes first is kept for the life of the process.
Load(c) ==
    /\ step[c] = "locked" /\ ~applied
    /\ script' \in IF script = "unread" THEN {"loaded", "error"} ELSE {script}
    /\ IF script' = "loaded"
       THEN Join(c) /\ step' = [step EXCEPT ![c] = "acquire"] /\ UNCHANGED mutex
       ELSE Return(c) /\ UNCHANGED queue
    /\ UNCHANGED <<applied, conns>>

LoaderAcquired(c) ==
    /\ step[c] = "acquire"
    /\ Grant(c)
    /\ step' = [step EXCEPT ![c] = "exec"]
    /\ UNCHANGED <<mutex, script, applied>>

LoaderAcquireFails(c) ==
    /\ step[c] = "acquire"
    /\ Leave(c)
    /\ Return(c)
    /\ UNCHANGED <<script, applied, conns>>

\* The script's Exec answers: only a success is remembered.
ExecDone(c) ==
    /\ step[c] = "exec"
    /\ applied' \in {applied, TRUE}
    /\ Release(c)
    /\ Return(c)
    /\ UNCHANGED <<script, queue>>

\* The steps of the mutex's holder that do not wait for anybody's decision.
LoaderProceeds(c) == Skip(c) \/ Load(c) \/ LoaderAcquired(c) \/ ExecDone(c)

LoaderNext ==
    \E c \in Caller :
        Ensure(c) \/ Lock(c) \/ LoaderAcquireFails(c) \/ LoaderProceeds(c)

-----------------------------------------------------------------------------
\* Concurrent CREATE OR REPLACE of one procedure makes PostgreSQL fail one of
\* them: within a process the script is never executed twice at a time, nor
\* started again once it has been applied.
OneExecution ==
    /\ Cardinality({c \in Caller : step[c] = "exec"}) <= 1
    /\ applied => \A c \in Caller : step[c] # "exec"

\* A call of EnsureFinanceTenantProvisioning returns, whichever step fails.
EnsureReturns == \A c \in Caller : step[c] # "none" ~> step[c] = "none"
=============================================================================
