-------------------------- MODULE ServiceLifecycle --------------------------
(***************************************************************************)
(* The service from start to exit: main (cmd/server/main.go), the          *)
(* goroutine that runs Server.Start, Server.Shutdown                       *)
(* (internal/server/server.go) and the requests in flight.                 *)
(*                                                                         *)
(* SIGINT and SIGTERM cancel the context that the start-up calls take and  *)
(* main waits for; a second signal changes nothing, since stop is deferred *)
(* too.  Times are left out: the graceful delay ends some time, the 30     *)
(* seconds of the drain may or may not suffice.  A request may hang: its   *)
(* calls to the pool and the identity provider have no deadline.           *)
(***************************************************************************)
EXTENDS Naturals, FiniteSets

CONSTANTS Request

VARIABLES stage,     \* where main is
          signalled, \* the context of NotifyContext is done
          listener,  \* the goroutine of Server.Start
          pools,     \* pools open: tenant, finance
          request    \* Request -> its state

vars == <<stage, signalled, listener, pools, request>>

Starting == {"config", "auth", "tenantPool", "financePool", "storage"}
Stopping == {"grace", "drain", "closeFinance", "closeTenant"}
Exited == {"exit0", "exit1"}

TypeOK ==
    /\ stage \in Starting \cup {"serve"} \cup Stopping \cup Exited
    /\ signalled \in BOOLEAN
    /\ listener \in {"none", "started", "open", "failed", "closed"}
    /\ pools \subseteq {"tenant", "finance"}
    /\ request \in [Request -> {"new", "running", "answered", "cut", "refused"}]

Init ==
    /\ stage = "config"
    /\ signalled = FALSE
    /\ listener = "none"
    /\ pools = {}
    /\ request = [r \in Request |-> "new"]

Running == {r \in Request : request[r] = "running"}

-----------------------------------------------------------------------------
(* main.                                                                   *)

\* Mutant of Exit: the status of a process that a signal kills.
ExitKilled(status) == stage' = "exit2" /\ UNCHANGED <<request, listener>>
\* os.Exit and the return of main alike end every goroutine.
Exit(status) ==
    /\ stage' = status
    /\ request' = [r \in Request |-> IF r \in Running THEN "cut" ELSE request[r]]
    /\ listener' = IF listener \in {"started", "open"} THEN "closed" ELSE listener

\* A start-up step that fails; authentication and the pings of NewPool fail
\* once the context is done.
StartFails ==
    /\ stage \in Starting
    /\ Exit("exit1")
    /\ UNCHANGED <<signalled, pools>>

LoadConfig ==
    /\ stage = "config"
    /\ stage' = "auth"
    /\ UNCHANGED <<signalled, listener, pools, request>>

NewAuthenticator ==
    /\ stage = "auth" /\ ~signalled
    /\ stage' = "tenantPool"
    /\ UNCHANGED <<signalled, listener, pools, request>>

NewTenantPool ==
    /\ stage = "tenantPool" /\ ~signalled
    /\ stage' = "financePool"
    /\ pools' = pools \cup {"tenant"}
    /\ UNCHANGED <<signalled, listener, request>>

NewFinancePool ==
    /\ stage = "financePool" /\ ~signalled
    /\ stage' = "storage"
    /\ pools' = pools \cup {"finance"}
    /\ UNCHANGED <<signalled, listener, request>>

\* The uploader, S3 or none, the wiring and the go statement.
Serve ==
    /\ stage = "storage"
    /\ stage' = "serve"
    /\ listener' = "started"
    /\ UNCHANGED <<signalled, pools, request>>

ContextDone ==
    /\ stage = "serve" /\ signalled
    /\ stage' = "grace"
    /\ UNCHANGED <<signalled, listener, pools, request>>

\* Mutant of ShutDown: the listener stays open during the drain.
ShutDownOpen ==
    /\ stage = "grace"
    /\ stage' = "drain"
    /\ UNCHANGED <<signalled, listener, pools, request>>

\* The end of the graceful delay and the call of http.Server.Shutdown, which
\* closes the listener and keeps a late ListenAndServe from opening one.
ShutDown ==
    /\ stage = "grace"
    /\ stage' = "drain"
    /\ listener' = IF listener \in {"started", "open"} THEN "closed" ELSE listener
    /\ UNCHANGED <<signalled, pools, request>>

\* Mutant of Drained: Close instead of Shutdown.
DrainedEarly ==
    /\ stage = "drain"
    /\ stage' = "closeFinance"
    /\ UNCHANGED <<signalled, listener, pools, request>>

\* Shutdown returns nil: every connection is idle.
Drained ==
    /\ stage = "drain" /\ Running = {}
    /\ stage' = "closeFinance"
    /\ UNCHANGED <<signalled, listener, pools, request>>

\* Mutant of DrainTimesOut: Shutdown gets no deadline.
DrainNeverTimesOut == FALSE

\* Shutdown returns the error of its context, and main exits past its defers.
DrainTimesOut ==
    /\ stage = "drain" /\ Running # {}
    /\ Exit("exit1")
    /\ UNCHANGED <<signalled, pools>>

\* The deferred calls of Close, last pool first.
CloseFinancePool ==
    /\ stage = "closeFinance"
    /\ stage' = "closeTenant"
    /\ pools' = pools \ {"finance"}
    /\ UNCHANGED <<signalled, listener, request>>

CloseTenantPool ==
    /\ stage = "closeTenant"
    /\ pools' = pools \ {"tenant"}
    /\ Exit("exit0")
    /\ UNCHANGED signalled

Main ==
    \/ LoadConfig \/ NewAuthenticator \/ NewTenantPool \/ NewFinancePool
    \/ StartFails \/ Serve \/ ContextDone
    \/ ShutDown \/ Drained \/ DrainTimesOut
    \/ CloseFinancePool \/ CloseTenantPool

-----------------------------------------------------------------------------
(* The rest of the world.                                                  *)

Signal ==
    /\ stage \notin Exited
    /\ signalled' = TRUE
    /\ UNCHANGED <<stage, listener, pools, request>>

\* ListenAndServe, whenever the goroutine gets to run; its failure is logged
\* and nothing else.
Listen ==
    /\ listener = "started"
    /\ listener' \in {"open", "failed"}
    /\ UNCHANGED <<stage, signalled, pools, request>>

\* Mutant of Accept: the server takes requests without a look at its listener.
AcceptAny(r) ==
    /\ request[r] = "new"
    /\ stage \notin Exited
    /\ request' = [request EXCEPT ![r] = "running"]
    /\ UNCHANGED <<stage, signalled, listener, pools>>

Accept(r) ==
    /\ request[r] = "new"
    /\ request' = [request EXCEPT ![r] = IF listener = "open" THEN "running" ELSE "refused"]
    /\ UNCHANGED <<stage, signalled, listener, pools>>

Answer(r) ==
    /\ request[r] = "running"
    /\ request' = [request EXCEPT ![r] = "answered"]
    /\ UNCHANGED <<stage, signalled, listener, pools>>

Next ==
    \/ Main
    \/ Signal \/ Listen
    \/ \E r \in Request : Accept(r) \/ Answer(r)

Spec == Init /\ [][Next]_vars

\* main runs on; requests need not end.
FairSpec == Spec /\ WF_vars(Main)

-----------------------------------------------------------------------------
\* A request in flight finds both pools open: the pools outlive the drain,
\* whichever way main ends, and are there before the first request.
PoolsOutliveRequests == Running # {} => pools = {"tenant", "finance"}

\* Exit status 0 means a clean end: no request was cut off and no pool is
\* left open.
CleanExit ==
    stage = "exit0" => /\ pools = {}
                       /\ \A r \in Request : request[r] # "cut"

\* Once http.Server.Shutdown has been called no request starts to run,
\* however late the goroutine of Start gets to listen.
NoneAfterShutdown ==
    [][\A r \in Request : request[r] = "new" /\ request'[r] = "running"
        => stage \in {"serve", "grace"}]_vars

\* A signal ends the process, during start-up, service or failure of the
\* listener, and even if a request hangs.
SignalEnds == signalled ~> stage \in Exited
=============================================================================
