------------------------- MODULE RequestPipelineProofs -------------------------
(***************************************************************************)
(* Proofs about ServiceLifecycle and about RequestPipeline, which extends  *)
(* it, for any requests, tokens, environments, tenants and changes of the  *)
(* registry.                                                               *)
(*                                                                         *)
(* What ties the requests to the pools is the stage of main: LifecycleInv  *)
(* says which pools are open in each stage and in which stages requests    *)
(* can run.  A step of the pipeline is a step of ServiceLifecycle or       *)
(* leaves the service alone, so that what is proved about the service      *)
(* holds with requests in it.  The rest follows from Sound: what is known  *)
(* of a request in each place it can be in.                                *)
(***************************************************************************)
EXTENDS RequestPipeline, PositionsProofs

-----------------------------------------------------------------------------
(* The service.                                                            *)

\* The stages in which both pools are open.
WithPools == {"storage", "serve", "grace", "drain"}

LifecycleInv ==
    /\ stage \in WithPools => pools = {"tenant", "finance"}
    /\ stage = "exit0" => pools = {} /\ \A r \in Request : request[r] # "cut"
    /\ stage = "closeTenant" => pools \subseteq {"tenant"}
    /\ stage = "financePool" => "tenant" \in pools
    /\ stage \notin Exited => \A r \in Request : request[r] # "cut"
    /\ listener \in {"started", "open"} => stage \in {"serve", "grace"}
    /\ Running # {} => stage \in {"serve", "grace", "drain"}

-----------------------------------------------------------------------------
\* Every step of the service keeps its variables well-typed.
THEOREM LifecycleTyped == Spec => []TypeOK
<1>1. Init => TypeOK
  BY DEF Init, TypeOK, Starting, Stopping, Exited
<1>2. TypeOK /\ [Next]_vars => TypeOK'
  <2> USE DEF TypeOK, Starting, Stopping, Exited
  <2> SUFFICES ASSUME TypeOK, [Next]_vars PROVE TypeOK'
    OBVIOUS
  <2>1. CASE LoadConfig \/ NewAuthenticator \/ NewTenantPool \/ NewFinancePool
    BY <2>1 DEF LoadConfig, NewAuthenticator, NewTenantPool, NewFinancePool
  <2>2. CASE StartFails \/ DrainTimesOut \/ CloseTenantPool
    BY <2>2 DEF StartFails, DrainTimesOut, CloseTenantPool, Exit
  <2>3. CASE Serve \/ ContextDone \/ ShutDown \/ Drained \/ CloseFinancePool
    BY <2>3 DEF Serve, ContextDone, ShutDown, Drained, CloseFinancePool
  <2>4. CASE Signal \/ Listen
    BY <2>4 DEF Signal, Listen
  <2>5. ASSUME NEW r \in Request, Accept(r) \/ Answer(r) PROVE TypeOK'
    BY <2>5 DEF Accept, Answer
  <2>6. CASE UNCHANGED vars
    BY <2>6 DEF vars
  <2> QED
    BY <2>1, <2>2, <2>3, <2>4, <2>5, <2>6 DEF Next, Main
<1> QED
  BY <1>1, <1>2, PTL DEF Spec

-----------------------------------------------------------------------------
LEMMA LifecycleInvHolds == Spec => []LifecycleInv
<1>1. Init => LifecycleInv
  BY DEF Init, LifecycleInv, WithPools, Exited, Running
<1>2. TypeOK /\ LifecycleInv /\ [Next]_vars => LifecycleInv'
  <2> SUFFICES ASSUME TypeOK, LifecycleInv, [Next]_vars PROVE LifecycleInv'
    OBVIOUS
  <2> USE DEF TypeOK, LifecycleInv, WithPools, Starting, Stopping, Exited, Running
  <2>1. CASE LoadConfig \/ NewAuthenticator \/ NewTenantPool \/ NewFinancePool
    BY <2>1 DEF LoadConfig, NewAuthenticator, NewTenantPool, NewFinancePool
  <2>2. CASE StartFails
    BY <2>2 DEF StartFails, Exit
  <2>3. CASE DrainTimesOut
    BY <2>3 DEF DrainTimesOut, Exit
  <2>4. CASE CloseTenantPool
    BY <2>4 DEF CloseTenantPool, Exit
  <2>5. CASE Serve \/ ContextDone
    BY <2>5 DEF Serve, ContextDone
  <2>6. CASE ShutDown \/ Drained \/ CloseFinancePool
    BY <2>6 DEF ShutDown, Drained, CloseFinancePool
  <2>7. CASE Signal \/ Listen
    BY <2>7 DEF Signal, Listen
  <2>8. ASSUME NEW r \in Request, Accept(r) PROVE LifecycleInv'
    BY <2>8 DEF Accept
  <2>9. ASSUME NEW r \in Request, Answer(r) PROVE LifecycleInv'
    BY <2>9 DEF Answer
  <2>10. CASE UNCHANGED vars
    BY <2>10 DEF vars
  <2> QED
    BY <2>1, <2>2, <2>3, <2>4, <2>5, <2>6, <2>7, <2>8, <2>9, <2>10 DEF Next, Main
<1> QED
  BY <1>1, <1>2, LifecycleTyped, PTL DEF Spec

\* Any number of requests finds both pools open for as long as it runs.
THEOREM PoolsStayOpen == Spec => []PoolsOutliveRequests
<1>1. LifecycleInv => PoolsOutliveRequests
  BY DEF LifecycleInv, PoolsOutliveRequests, WithPools
<1> QED
  BY <1>1, LifecycleInvHolds, PTL

\* Exit status 0 is given only after every request was answered and both
\* pools were closed.
THEOREM ExitIsClean == Spec => []CleanExit
<1>1. LifecycleInv => CleanExit
  BY DEF LifecycleInv, CleanExit
<1> QED
  BY <1>1, LifecycleInvHolds, PTL

\* No request starts to run once http.Server.Shutdown has been called.
THEOREM NothingStartsLate == Spec => NoneAfterShutdown
<1>1. TypeOK /\ LifecycleInv /\ [Next]_vars =>
        \A r \in Request : request[r] = "new" /\ request'[r] = "running"
            => stage \in {"serve", "grace"}
  <2> SUFFICES ASSUME TypeOK, LifecycleInv, [Next]_vars,
                      NEW r \in Request, request[r] = "new", request'[r] = "running"
               PROVE  stage \in {"serve", "grace"}
    OBVIOUS
  <2>1. CASE \E q \in Request : Accept(q) \/ Answer(q)
    BY <2>1 DEF Accept, Answer, TypeOK, LifecycleInv
  <2>2. CASE Main
    BY <2>2 DEF Main, LoadConfig, NewAuthenticator, NewTenantPool, NewFinancePool,
        StartFails, Serve, ContextDone, ShutDown, Drained, DrainTimesOut,
        CloseFinancePool, CloseTenantPool, Exit, TypeOK, Running
  <2>3. CASE Signal \/ Listen \/ UNCHANGED vars
    BY <2>3 DEF Signal, Listen, vars
  <2> QED
    BY <2>1, <2>2, <2>3 DEF Next
<1> QED
  BY <1>1, LifecycleTyped, LifecycleInvHolds, PTL DEF Spec, NoneAfterShutdown

-----------------------------------------------------------------------------
(* The pipeline.                                                           *)

\* The service's own type invariant and that of the pipeline, with the
\* domains of the functions.
PipelineTyped ==
    /\ request \in [Request -> {"new", "running", "answered", "cut", "refused"}]
    /\ env \in Environments
    /\ active \subseteq Tenant \ {NilTenant}
    /\ at \in [Request -> {"new", "route", "auth", "tenant", "query", "operation",
                           "respond", "done"}]
    /\ DOMAIN asked = Request
    /\ context \in [Request -> [principal : Principal \cup {Nothing},
                                tenant : Tenant \cup {Nothing}]]
    /\ ran \in [Request -> Operation \cup {NoOperation}]
    /\ status \in [Request -> {0, 200, 201, 400, 401, 403, 404, 405, 500}]
    /\ hung \subseteq Request
    /\ vouched \subseteq Request

PoolLimited == IsFiniteSet(Holding) /\ Cardinality(Holding) <= MaxConns

\* Where a request is agrees with what the service makes of it and with what
\* was answered.
Placed(r) ==
    /\ request[r] = "new" => at[r] = "new"
    /\ request[r] = "running" => at[r] \notin {"new", "done"}
    /\ at[r] = "new" => asked[r] = Nothing
    /\ at[r] # "new" => asked[r] \in MayAsk[r]
    /\ at[r] \notin {"respond", "done"} => ran[r] = NoOperation
    /\ at[r] = "respond" => ran[r] # NoOperation
    /\ at[r] # "done" => status[r] = 0
    /\ r \in hung => at[r] \in {"auth", "query"}

\* The operation runs for this request or is about to.
Cleared(r) == at[r] = "operation" \/ ran[r] # NoOperation

\* A running request whose tenant is active has been vouched for; one that
\* was cleared carries its tenant.
VouchedFor(r) ==
    /\ request[r] = "running" /\ TenantOf(asked[r].tenant) \in active => r \in vouched
    /\ Cleared(r) => context[r].tenant = TenantOf(asked[r].tenant) /\ r \in vouched

\* Past authentication a request has a principal or looks like a health
\* check, and what ran was selected and let in by the generated code.
Identified(r) ==
    /\ at[r] \in {"tenant", "query"} \/ Cleared(r) =>
           Bypass(asked[r]) \/ context[r].principal # Nothing
    /\ ran[r] # NoOperation => ran[r] \in Selected(asked[r]) /\ Admits(ran[r], asked[r])

TellsRun(r) ==
    status[r] # 0 =>
        /\ status[r] >= 400 => ran[r] = NoOperation
        /\ status[r] < 400 /\ RouterPart(asked[r]) = "api" => ran[r] # NoOperation

Sound(r) == Placed(r) /\ VouchedFor(r) /\ Identified(r) /\ TellsRun(r)

PipelineInv ==
    /\ PipelineTyped
    /\ PoolLimited
    /\ \A r \in Request : Sound(r)

-----------------------------------------------------------------------------
(* The service under the pipeline.                                         *)

\* A step of the pipeline is a step of the service or none.
LEMMA ServiceStep == [PipelineNext]_pipelineVars => [Next]_vars
<1> SUFFICES ASSUME [PipelineNext]_pipelineVars PROVE [Next]_vars
  OBVIOUS
<1> USE DEF Next
<1>1. CASE MainStep \/ World
  BY <1>1 DEF MainStep, World
<1>2. CASE ChangeRegistry \/ UNCHANGED pipelineVars
  BY <1>2 DEF ChangeRegistry, pipelineVars
<1>3. ASSUME NEW r \in Request, Arrive(r) \/ Hang(r) \/ ClientLeaves(r) PROVE [Next]_vars
  BY <1>3 DEF Arrive, Hang, ClientLeaves, Reply
<1>4. ASSUME NEW r \in Request, Handle(r) PROVE [Next]_vars
  BY <1>4 DEF Handle, RouteRequest, SkipAuthentication, Unauthorized, Authenticate,
      AcquireConn, CheckTenant, CheckFails, NotRouted, Reject, Operate, Respond,
      Reply, Proceed
<1> QED
  BY <1>1, <1>2, <1>3, <1>4 DEF PipelineNext

\* The pipeline implements the service: with requests, their calls and the
\* registry in it, main, the listener and the pools behave as they do alone.
THEOREM PipelineImplementsService == PipelineSpec => Spec
<1>1. PipelineInit => Init
  BY DEF PipelineInit
<1> QED
  BY <1>1, ServiceStep, PTL DEF PipelineSpec, Spec

\* What is proved of the service holds of it with requests in the pipeline.
THEOREM ServiceUnderRequests ==
    PipelineSpec => []TypeOK /\ []PoolsOutliveRequests /\ []CleanExit /\ NoneAfterShutdown
BY PipelineImplementsService, LifecycleTyped, PoolsStayOpen, ExitIsClean,
   NothingStartsLate, PTL

-----------------------------------------------------------------------------
(* The routes.                                                             *)

LEMMA OperationRoutes ==
    /\ Route("ListInvoices")[2] = <<"invoices">>
    /\ Route("ListReceipts")[2] = <<"receipts">>
    /\ \A op \in Operation \ {"HealthCheck", "ListInvoices", "GetInvoice", "ListReceipts"} :
           Route(op)[1] = "POST"
BY DEF Route, Operation

\* Of the requests that are let through without a principal the generated
\* code lets only health checks into an operation: the only path that ends in
\* any word is that of an invoice, and no uuid is such a word.
LEMMA BypassReachesHealth ==
    ASSUME NEW r \in Request, NEW q \in MayAsk[r], Bypass(q),
           NEW op \in Selected(q), Admits(op, q)
    PROVE  op = "HealthCheck"
<1> DEFINE end == q.path[Len(q.path)]
           full == BaseURL \o Route(op)[2]
<1>1. /\ q.method = "GET"
      /\ end \in {"health", "swagger", "swagger.yaml"}
  BY DEF Bypass
<1>2. /\ op \in Operation
      /\ Route(op)[1] = "GET"
      /\ Fits(full, Tail(q.path))
  BY <1>1 DEF Selected, PathOperations
<1>3. q.path \in Seq(Range(q.path))
  BY PathsAssumption
<1>4. op \in {"HealthCheck", "ListInvoices", "GetInvoice", "ListReceipts"}
  BY <1>2, OperationRoutes DEF Operation
<1>5. CASE op = "GetInvoice"
  BY <1>1, <1>5, InvoiceIdAssumption DEF Admits, Binds
<1>6. CASE op \in {"ListInvoices", "ListReceipts"}
  <2>1. PICK word \in {"invoices", "receipts"} : Route(op)[2] = <<word>>
    BY <1>6, OperationRoutes
  <2>2. Len(full) = 2 /\ full[2] = word
    BY <2>1 DEF BaseURL
  <2>3. Len(Tail(q.path)) = 2
    BY <1>2, <2>2 DEF Fits
  <2>4. Len(q.path) = 3 /\ Tail(q.path)[2] = end
    <3> HIDE DEF full
    <3>1. Len(q.path) = 3
      BY <1>3, <2>3
    <3> QED
      BY <1>3, <2>3, <3>1
  <2>5. 2 \in DOMAIN Tail(q.path)
    BY <1>3, <2>3, <2>4
  <2>6. end = word
    BY <1>2, <2>2, <2>4, <2>5 DEF Fits
  <2> QED
    BY <1>1, <2>6
<1> QED
  BY <1>4, <1>5, <1>6

-----------------------------------------------------------------------------
(* One request at a time.                                                  *)

\* A step that leaves q, the environment and the registry alone.
Untouched(q) ==
    /\ <<request'[q], at'[q], asked'[q]>> = <<request[q], at[q], asked[q]>>
    /\ <<context'[q], ran'[q], status'[q]>> = <<context[q], ran[q], status[q]>>
    /\ q \in hung' <=> q \in hung
    /\ q \in vouched' <=> q \in vouched
    /\ UNCHANGED <<env, active>>

LEMMA StaysSound ==
    ASSUME NEW q \in Request, Sound(q), Untouched(q)
    PROVE  Sound(q)'
<1> USE DEF Untouched
<1>1. Placed(q)'
  BY DEF Sound, Placed
<1>2. VouchedFor(q)'
  BY DEF Sound, VouchedFor, Cleared, TenantOf, Config
<1>3. Identified(q)'
  BY DEF Sound, Identified, Cleared
<1>4. TellsRun(q)'
  BY DEF Sound, TellsRun
<1> QED
  BY <1>1, <1>2, <1>3, <1>4 DEF Sound

LEMMA NoNewHolders ==
    ASSUME PoolLimited, Holding' \subseteq Holding
    PROVE  PoolLimited'
<1>1. IsFiniteSet(Holding') /\ Cardinality(Holding') <= Cardinality(Holding)
  BY FS_Subset DEF PoolLimited
<1>2. Cardinality(Holding) \in Nat /\ Cardinality(Holding') \in Nat
  BY <1>1, FS_CardinalityType DEF PoolLimited
<1> QED
  BY <1>1, <1>2, ConnsAssumption DEF PoolLimited

\* A step of one request that takes no connection keeps the invariant if it
\* leaves this request sound and the others alone.
LEMMA OneRequestSteps ==
    ASSUME PipelineInv, PipelineTyped', NEW r \in Request,
           r \in Holding' => r \in Holding,
           Sound(r)', \A q \in Request \ {r} : Untouched(q)
    PROVE  PipelineInv'
<1>1. \A q \in Request : Sound(q)'
  BY StaysSound DEF PipelineInv
<1>2. Holding' \subseteq Holding
  BY DEF Holding, Running, Untouched
<1> QED
  BY <1>1, <1>2, NoNewHolders DEF PipelineInv

\* An answer that says whether the operation ran.
LEMMA ReplySound ==
    ASSUME PipelineInv, NEW r \in Request,
           NEW code \in {200, 201, 400, 401, 403, 404, 405, 500}, Reply(r, code),
           code >= 400 => ran[r] = NoOperation,
           code < 400 /\ RouterPart(asked[r]) = "api" => ran[r] # NoOperation
    PROVE  PipelineInv'
<1> USE DEF PipelineInv
<1>1. /\ PipelineTyped'
      /\ at'[r] = "done" /\ status'[r] = code /\ request'[r] = "answered"
      /\ r \notin hung'
  BY DEF PipelineTyped, Reply, Answer, outside
<1>2. \A q \in Request \ {r} : Untouched(q)
  BY DEF PipelineTyped, Reply, Answer, outside, Untouched
<1>3. Sound(r)'
  <2> UNCHANGED <<asked, context, ran, vouched, env, active>>
    BY DEF Reply, outside
  <2>1. Sound(r) /\ request[r] = "running"
    BY DEF Reply, Answer
  <2>2. Placed(r)'
    BY <1>1, <2>1 DEF Sound, Placed
  <2>3. VouchedFor(r)'
    BY <1>1, <2>1 DEF Sound, VouchedFor, Cleared, TenantOf, Config
  <2>4. Identified(r)'
    BY <1>1, <2>1 DEF Sound, Identified, Cleared
  <2>5. TellsRun(r)'
    BY <1>1 DEF TellsRun
  <2> QED
    BY <2>2, <2>3, <2>4, <2>5 DEF Sound
<1>4. r \notin Holding'
  BY <1>1 DEF Holding
<1> QED
  BY <1>1, <1>2, <1>3, <1>4, OneRequestSteps

\* The same for one that goes on to the next handler.
LEMMA ProceedSound ==
    ASSUME PipelineInv, NEW r \in Request, NEW step \in {"auth", "tenant", "operation", "respond"},
           request[r] = "running", r \notin hung, Proceed(r, step),
           NEW ctx \in [principal : Principal \cup {Nothing}, tenant : Tenant \cup {Nothing}],
           NEW op \in Operation \cup {NoOperation},
           context' = [context EXCEPT ![r] = ctx],
           ran' = [ran EXCEPT ![r] = op],
           op # NoOperation <=> step = "respond",
           op # NoOperation => op \in Selected(asked[r]) /\ Admits(op, asked[r]),
           step # "auth" => Bypass(asked[r]) \/ ctx.principal # Nothing,
           step \in {"operation", "respond"} =>
               ctx.tenant = TenantOf(asked[r].tenant) /\ r \in vouched
    PROVE  PipelineInv'
<1> USE DEF PipelineInv
<1> UNCHANGED <<asked, status, hung, vouched, env, active, request>>
  BY DEF Proceed, outside, vars
<1>1. PipelineTyped' /\ at'[r] = step /\ context'[r] = ctx /\ ran'[r] = op
  BY DEF PipelineTyped, Proceed
<1>2. \A q \in Request \ {r} : Untouched(q)
  BY DEF PipelineTyped, Proceed, Untouched
<1>3. Sound(r)'
  <2>1. Sound(r)
    OBVIOUS
  <2>2. Placed(r)'
    BY <1>1, <2>1 DEF Sound, Placed
  <2>3. VouchedFor(r)'
    BY <1>1, <2>1 DEF Sound, VouchedFor, Cleared, TenantOf, Config
  <2>4. Identified(r)'
    BY <1>1, <2>1 DEF Sound, Identified, Cleared
  <2>5. TellsRun(r)'
    BY <1>1, <2>1 DEF Sound, Placed, TellsRun
  <2> QED
    BY <2>2, <2>3, <2>4, <2>5 DEF Sound
<1>4. r \notin Holding'
  BY <1>1 DEF Holding
<1> QED
  BY <1>1, <1>2, <1>3, <1>4, OneRequestSteps

-----------------------------------------------------------------------------
(* The steps.                                                              *)

LEMMA ArriveSound == ASSUME PipelineInv, NEW r \in Request, Arrive(r) PROVE PipelineInv'
<1> USE DEF PipelineInv
<1> UNCHANGED <<context, ran, status, hung, env, active>>
  BY DEF Arrive, outside
<1>1. Sound(r) /\ request[r] = "new"
  BY DEF Arrive, Accept
<1>2. CASE request'[r] = "running"
  <2>1. /\ at' = [at EXCEPT ![r] = "route"]
        /\ \E q \in MayAsk[r] : asked' = [asked EXCEPT ![r] = q]
        /\ vouched' = vouched \cup Vouched(r, asked'[r], active)
    BY <1>2 DEF Arrive
  <2>2. PipelineTyped'
    BY <2>1 DEF PipelineTyped, Arrive, Accept, Vouched
  <2>3. \A q \in Request \ {r} : Untouched(q)
    BY <2>1 DEF PipelineTyped, Arrive, Accept, Untouched, Vouched
  <2>4. Placed(r)'
    BY <1>1, <1>2, <2>1 DEF PipelineTyped, Sound, Placed
  <2>5. VouchedFor(r)'
    <3>1. at'[r] = "route" /\ ran'[r] = NoOperation
      BY <1>1, <2>1 DEF PipelineTyped, Sound, Placed
    <3>2. TenantOf(asked'[r].tenant) \in active => r \in vouched'
      BY <2>1 DEF Vouched
    <3> QED
      BY <3>1, <3>2 DEF VouchedFor, Cleared, TenantOf, Config
  <2>6. Identified(r)' /\ TellsRun(r)'
    BY <1>1, <2>1 DEF PipelineTyped, Sound, Placed, Identified, Cleared, TellsRun
  <2>7. r \notin Holding'
    BY <2>1 DEF PipelineTyped, Holding
  <2> QED
    BY <2>2, <2>3, <2>4, <2>5, <2>6, <2>7, OneRequestSteps DEF Sound
<1>3. CASE request'[r] # "running"
  <2>1. UNCHANGED <<asked, at, vouched>> /\ request'[r] = "refused"
    BY <1>1, <1>3 DEF Arrive, Accept, PipelineTyped
  <2>2. PipelineTyped'
    BY <2>1 DEF PipelineTyped, Arrive, Accept
  <2>3. \A q \in Request \ {r} : Untouched(q)
    BY <2>1 DEF PipelineTyped, Arrive, Accept, Untouched
  <2>4. Placed(r)'
    BY <1>1, <2>1 DEF Sound, Placed
  <2>5. VouchedFor(r)'
    BY <1>1, <2>1 DEF Sound, VouchedFor, Cleared, TenantOf, Config
  <2>6. Identified(r)' /\ TellsRun(r)'
    BY <1>1, <2>1 DEF Sound, Identified, Cleared, TellsRun
  <2>7. r \notin Holding'
    BY <2>1 DEF Holding, Running
  <2> QED
    BY <2>2, <2>3, <2>4, <2>5, <2>6, <2>7, OneRequestSteps DEF Sound
<1> QED
  BY <1>2, <1>3

LEMMA RouteSound == ASSUME PipelineInv, NEW r \in Request, RouteRequest(r) PROVE PipelineInv'
<1> USE DEF PipelineInv, RouteRequest, AtStep
<1>1. Sound(r) /\ ran[r] = NoOperation
  BY DEF Sound, Placed
<1>2. CASE RouterPart(asked[r]) = "health" /\ Reply(r, 200)
  BY <1>1, <1>2, ReplySound
<1>3. CASE RouterPart(asked[r]) = "tenants" /\ Reply(r, TenantRouterStatus(asked[r]))
  <2>1. TenantRouterStatus(asked[r]) \in {200, 404, 405}
    BY DEF TenantRouterStatus
  <2> QED
    BY <1>1, <1>3, <2>1, ReplySound
<1>4. CASE Proceed(r, "auth") /\ UNCHANGED <<context, ran>>
  BY <1>1, <1>4, ProceedSound DEF PipelineTyped
<1> QED
  BY <1>2, <1>3, <1>4

\* What Authenticate makes of a token it accepts is a principal.
LEMMA AuthenticateSound ==
    ASSUME PipelineInv, NEW r \in Request, Authenticate(r)
    PROVE  PipelineInv'
<1> USE DEF PipelineInv, AtStep
<1> DEFINE token == BearerToken(asked[r].authorization)
<1>1. Sound(r) /\ ran[r] = NoOperation
  BY DEF Authenticate, Sound, Placed
<1>2. token \in Token
  BY DEF Authenticate
<1>3. CASE Refusal(Verifier, token) # 0 /\ Reply(r, Refusal(Verifier, token))
  <2>1. Refusal(Verifier, token) = 403
    BY <1>3 DEF Refusal
  <2> QED
    BY <1>1, <1>3, <2>1, ReplySound
<1>4. ASSUME NEW order \in Orders(token.claims),
             context' = [context EXCEPT ![r].principal = PrincipalOf(Verifier, token, order)],
             Proceed(r, "tenant"), UNCHANGED ran
      PROVE  PipelineInv'
  <2> DEFINE p == PrincipalOf(Verifier, token, order)
             ctx == [context[r] EXCEPT !.principal = p]
  <2>1. p \in Principal
    <3> DEFINE Made(e, t) == {PrincipalOf(AuthenticatorOf(Load(e)), t, o) : o \in Orders(t.claims)}
    <3>1. p \in Made(env, token)
      BY <1>4 DEF Verifier, Config
    <3>2. env \in Environments
      BY DEF PipelineTyped
    <3> HIDE DEF Made
    <3>3. p \in UNION {Made(e, t) : e \in Environments, t \in Token}
      BY <1>2, <3>1, <3>2
    <3> QED
      BY <3>3 DEF Made, Principal
  <2>2. p # Nothing
    BY <2>1, NothingAssumption
  <2> HIDE DEF p
  <2>3. /\ ctx \in [principal : Principal \cup {Nothing}, tenant : Tenant \cup {Nothing}]
        /\ ctx.principal # Nothing
    BY <2>1, <2>2 DEF PipelineTyped
  <2>4. context' = [context EXCEPT ![r] = ctx]
    BY <1>4 DEF p
  <2>5. ran' = [ran EXCEPT ![r] = NoOperation]
    BY <1>1, <1>4 DEF PipelineTyped
  <2>6. request[r] = "running" /\ r \notin hung
    BY DEF Authenticate
  <2> HIDE DEF ctx
  <2> QED
    BY <1>4, <2>3, <2>4, <2>5, <2>6, ProceedSound
<1> QED
  BY <1>3, <1>4 DEF Authenticate

LEMMA SkipSound ==
    ASSUME PipelineInv, NEW r \in Request, SkipAuthentication(r) PROVE PipelineInv'
<1> USE DEF PipelineInv, SkipAuthentication, AtStep
<1>1. Sound(r) /\ ran[r] = NoOperation
  BY DEF Sound, Placed
<1> QED
  BY <1>1, ProceedSound DEF PipelineTyped

\* Only here a request takes a connection, and only if one is left.
LEMMA AcquireSound ==
    ASSUME PipelineInv, NEW r \in Request, AcquireConn(r) PROVE PipelineInv'
<1> USE DEF PipelineInv, AcquireConn, AtStep, Proceed
<1> UNCHANGED <<request, context, ran, asked, status, hung, vouched, env, active>>
  BY DEF vars, outside
<1>1. /\ Sound(r) /\ request[r] = "running" /\ r \notin hung
      /\ at[r] = "tenant" /\ at' = [at EXCEPT ![r] = "query"]
  OBVIOUS
<1>2. PipelineTyped'
  BY <1>1 DEF PipelineTyped
<1>3. \A q \in Request : Sound(q)'
  <2>1. \A q \in Request \ {r} : Untouched(q)
    BY <1>1 DEF PipelineTyped, Untouched
  <2>2. Placed(r)' /\ Identified(r)' /\ TellsRun(r)'
    BY <1>1 DEF PipelineTyped, Sound, Placed, Identified, Cleared, TellsRun
  <2>3. VouchedFor(r)'
    BY <1>1 DEF PipelineTyped, Sound, Placed, VouchedFor, Cleared, TenantOf, Config
  <2> QED
    BY <2>1, <2>2, <2>3, StaysSound DEF Sound
<1>4. PoolLimited'
  <2>1. Holding' = Holding \cup {r} /\ r \notin Holding
    BY <1>1 DEF PipelineTyped, Holding, Running
  <2>2. IsFiniteSet(Holding') /\ Cardinality(Holding') = Cardinality(Holding) + 1
    BY <2>1, FS_AddElement DEF PoolLimited
  <2>3. Cardinality(Holding) \in Nat /\ Cardinality(Holding) < MaxConns
    BY FS_CardinalityType DEF PoolLimited
  <2> QED
    BY <2>2, <2>3, ConnsAssumption DEF PoolLimited
<1> QED
  BY <1>2, <1>3, <1>4

\* A tenant that the query finds is active, and a running request whose
\* tenant is active has been vouched for.
LEMMA CheckSound ==
    ASSUME PipelineInv, NEW r \in Request, CheckTenant(r) PROVE PipelineInv'
<1> USE DEF PipelineInv, AtStep
<1> DEFINE t == TenantOf(asked[r].tenant)
<1>1. Sound(r) /\ ran[r] = NoOperation
  BY DEF CheckTenant, Sound, Placed
<1>2. CASE ~TenantFound(t) /\ Reply(r, 403)
  BY <1>1, <1>2, ReplySound
<1>3. CASE /\ TenantFound(t)
           /\ context' = [context EXCEPT ![r].tenant = t]
           /\ Proceed(r, "operation") /\ UNCHANGED ran
  <2> DEFINE ctx == [context[r] EXCEPT !.tenant = t]
  <2>1. t \in active /\ r \in vouched
    BY <1>1, <1>3 DEF CheckTenant, TenantFound, Sound, VouchedFor
  <2>2. t \in Tenant
    BY <2>1 DEF PipelineTyped
  <2>3. Bypass(asked[r]) \/ context[r].principal # Nothing
    BY <1>1 DEF CheckTenant, Sound, Identified
  <2> HIDE DEF t
  <2>4. /\ ctx \in [principal : Principal \cup {Nothing}, tenant : Tenant \cup {Nothing}]
        /\ ctx.tenant = t
        /\ ctx.principal = context[r].principal
    BY <2>2 DEF PipelineTyped
  <2>5. context' = [context EXCEPT ![r] = ctx] /\ ran' = [ran EXCEPT ![r] = NoOperation]
    BY <1>1, <1>3 DEF PipelineTyped
  <2>6. request[r] = "running" /\ r \notin hung
    BY DEF CheckTenant
  <2> HIDE DEF ctx
  <2> QED
    BY <1>3, <2>1, <2>3, <2>4, <2>5, <2>6, ProceedSound DEF t
<1> QED
  BY <1>2, <1>3 DEF CheckTenant

\* The answers that the operation has not run for.
LEMMA RefusalSound ==
    ASSUME PipelineInv, NEW r \in Request,
           Unauthorized(r) \/ CheckFails(r) \/ NotRouted(r) \/ Reject(r) \/ ClientLeaves(r)
    PROVE  PipelineInv'
<1>1. Sound(r)
  BY DEF PipelineInv
<1>2. PICK code \in {400, 401, 404, 405, 500} : Reply(r, code)
  BY DEF Unauthorized, CheckFails, NotRouted, Unrouted, Reject, ClientLeaves
<1>3. at[r] \notin {"respond", "done"}
  BY <1>1 DEF Unauthorized, CheckFails, NotRouted, Reject, ClientLeaves, AtStep,
      Sound, Placed
<1>4. ran[r] = NoOperation
  BY <1>1, <1>3 DEF Sound, Placed
<1> QED
  BY <1>2, <1>4, ReplySound

LEMMA OperateSound ==
    ASSUME PipelineInv, NEW r \in Request, Operate(r) PROVE PipelineInv'
<1> USE DEF PipelineInv, AtStep, Operate
<1>1. Sound(r) /\ at[r] = "operation"
  OBVIOUS
<1>2. PICK op \in Selected(asked[r]) : Admits(op, asked[r]) /\ ran' = [ran EXCEPT ![r] = op]
  OBVIOUS
<1>3. op \in Operation /\ op # NoOperation
  BY DEF Selected, PathOperations, Operation, NoOperation
<1>4. /\ context[r] \in [principal : Principal \cup {Nothing}, tenant : Tenant \cup {Nothing}]
      /\ context' = [context EXCEPT ![r] = context[r]]
  BY DEF PipelineTyped
<1>5. /\ context[r].tenant = TenantOf(asked[r].tenant) /\ r \in vouched
      /\ Bypass(asked[r]) \/ context[r].principal # Nothing
  BY <1>1 DEF Sound, VouchedFor, Identified, Cleared
<1> QED
  BY <1>2, <1>3, <1>4, <1>5, ProceedSound

LEMMA RespondSound ==
    ASSUME PipelineInv, NEW r \in Request, Respond(r) PROVE PipelineInv'
<1>1. Sound(r) /\ at[r] = "respond"
  BY DEF PipelineInv, Respond, AtStep
<1>2. ran[r] # NoOperation
  BY <1>1 DEF Sound, Placed
<1>3. Response(ran[r]) \in {200, 201} /\ Reply(r, Response(ran[r]))
  BY DEF Respond, Response
<1> QED
  BY <1>2, <1>3, ReplySound

\* Every tenant that becomes active vouches for the running requests it is
\* the tenant of.
LEMMA RegistrySound == ASSUME PipelineInv, ChangeRegistry PROVE PipelineInv'
<1> USE DEF PipelineInv, ChangeRegistry
<1> UNCHANGED <<request, env, at, asked, context, ran, status, hung>>
  BY DEF vars
<1>1. vouched \subseteq vouched' /\ vouched' \subseteq Request
  BY DEF Vouched, Running, PipelineTyped
<1>2. PipelineTyped'
  <2>1. active' \subseteq Tenant \ {NilTenant}
    BY DEF PipelineTyped
  <2> HIDE DEF ChangeRegistry
  <2> QED
    BY <1>1, <2>1 DEF PipelineTyped
<1>3. Holding' \subseteq Holding
  BY DEF Holding, Running
<1>4. ASSUME NEW r \in Request PROVE Sound(r)'
  <2>1. Sound(r)
    OBVIOUS
  <2>2. Placed(r)' /\ Identified(r)' /\ TellsRun(r)'
    BY <2>1 DEF Sound, Placed, Identified, Cleared, TellsRun
  <2>3. request[r] = "running" /\ TenantOf(asked[r].tenant) \in active' => r \in vouched'
    BY DEF Vouched, Running
  <2>4. VouchedFor(r)'
    BY <1>1, <2>1, <2>3 DEF Sound, VouchedFor, Cleared, TenantOf, Config
  <2> QED
    BY <2>2, <2>4 DEF Sound
<1> QED
  BY <1>2, <1>3, <1>4, NoNewHolders

\* main may cut requests off where they are.
LEMMA MainSound == ASSUME PipelineInv, MainStep \/ World PROVE PipelineInv'
<1> USE DEF PipelineInv
<1> UNCHANGED <<at, asked, context, ran, status, hung, vouched, env, active>>
  BY DEF MainStep, World, own, outside
<1>1. \/ request' = request
      \/ request' = [r \in Request |-> IF r \in Running THEN "cut" ELSE request[r]]
  BY DEF MainStep, World, Signal, Listen, Main, LoadConfig, NewAuthenticator,
      NewTenantPool, NewFinancePool, StartFails, Serve, ContextDone, ShutDown,
      Drained, DrainTimesOut, CloseFinancePool, CloseTenantPool, Exit
<1>2. PipelineTyped'
  <2>1. request' \in [Request -> {"new", "running", "answered", "cut", "refused"}]
    BY <1>1 DEF PipelineTyped
  <2> QED
    BY <2>1 DEF PipelineTyped
<1>3. Holding' \subseteq Holding
  BY <1>1 DEF Holding, Running
<1>4. ASSUME NEW r \in Request PROVE Sound(r)'
  <2>1. Sound(r) /\ (request'[r] = request[r] \/ (request[r] = "running" /\ request'[r] = "cut"))
    BY <1>1 DEF Running, PipelineTyped
  <2>2. Placed(r)' /\ Identified(r)' /\ TellsRun(r)'
    BY <2>1 DEF Sound, Placed, Identified, Cleared, TellsRun
  <2>3. VouchedFor(r)'
    BY <2>1 DEF Sound, VouchedFor, Cleared, TenantOf, Config
  <2> QED
    BY <2>2, <2>3 DEF Sound
<1> QED
  BY <1>2, <1>3, <1>4, NoNewHolders

LEMMA HangSound == ASSUME PipelineInv, NEW r \in Request, Hang(r) PROVE PipelineInv'
<1> USE DEF PipelineInv
<1> UNCHANGED <<request, at, asked, context, ran, status, vouched, env, active>>
  BY DEF Hang, vars, outside
<1>1. Sound(r) /\ at[r] \in {"auth", "query"}
  BY DEF Hang, AtStep
<1>2. PipelineTyped' /\ \A q \in Request \ {r} : Untouched(q)
  BY DEF Hang, PipelineTyped, Untouched
<1>3. Sound(r)'
  <2>1. Placed(r)' /\ Identified(r)' /\ TellsRun(r)'
    BY <1>1 DEF Hang, Sound, Placed, Identified, Cleared, TellsRun
  <2>2. VouchedFor(r)'
    BY <1>1 DEF Sound, VouchedFor, Cleared, TenantOf, Config
  <2> QED
    BY <2>1, <2>2 DEF Sound
<1>4. r \in Holding' => r \in Holding
  BY DEF Holding, Running
<1> QED
  BY <1>2, <1>3, <1>4, OneRequestSteps

LEMMA StutterSound == ASSUME PipelineInv, UNCHANGED pipelineVars PROVE PipelineInv'
<1> USE DEF PipelineInv, pipelineVars, vars, own, outside
<1>1. PipelineTyped' /\ \A q \in Request : Untouched(q)
  BY DEF PipelineTyped, Untouched
<1>2. Holding' \subseteq Holding
  BY DEF Holding, Running
<1> QED
  BY <1>1, <1>2, NoNewHolders, StaysSound

-----------------------------------------------------------------------------
LEMMA PipelineInvHolds == PipelineSpec => []PipelineInv
<1>1. PipelineInit => PipelineInv
  <2> SUFFICES ASSUME PipelineInit PROVE PipelineInv
    OBVIOUS
  <2>1. PipelineTyped
    BY DEF PipelineInit, PipelineTyped, Init, NoContext
  <2>2. Holding = {}
    BY DEF PipelineInit, Init, Holding, Running
  <2>3. PoolLimited
    BY <2>2, FS_EmptySet, ConnsAssumption DEF PoolLimited
  <2>4. \A r \in Request : Sound(r)
    BY DEF PipelineInit, Init, Sound, Placed, VouchedFor, Identified, Cleared, TellsRun
  <2> QED
    BY <2>1, <2>3, <2>4 DEF PipelineInv
<1>2. PipelineInv /\ [PipelineNext]_pipelineVars => PipelineInv'
  BY MainSound, RegistrySound, ArriveSound, RouteSound, SkipSound, AuthenticateSound,
     AcquireSound, CheckSound, RefusalSound, OperateSound, RespondSound, HangSound,
     StutterSound DEF PipelineNext, Handle
<1> QED
  BY <1>1, <1>2, PTL DEF PipelineSpec

\* Every step of the pipeline keeps its variables well-typed, and never more
\* requests hold a connection of the tenant pool than it has, however many
\* there are.
THEOREM PipelineTypeCorrect == PipelineSpec => []PipelineTypeOK
<1>1. PipelineInv => PipelineTypeOK
  BY DEF PipelineInv, PipelineTyped, PoolLimited, Sound, Placed, PipelineTypeOK
<1> QED
  BY <1>1, PipelineInvHolds, PTL

\* No operation but the health check runs without a principal, although the
\* middleware lets any GET through whose path ends in one of its words.
THEOREM OperationsAreAuthenticated == PipelineSpec => []OperationsHavePrincipal
<1>1. PipelineInv => OperationsHavePrincipal
  <2> SUFFICES ASSUME PipelineInv, NEW r \in Request,
                      ran[r] \notin {NoOperation, "HealthCheck"}
               PROVE  context[r].principal # Nothing
    BY DEF OperationsHavePrincipal
  <2>1. Sound(r)
    BY DEF PipelineInv
  <2>2. asked[r] \in MayAsk[r]
    BY <2>1 DEF Sound, Placed
  <2>3. ran[r] \in Selected(asked[r]) /\ Admits(ran[r], asked[r])
    BY <2>1 DEF Sound, Identified
  <2>4. ~Bypass(asked[r])
    BY <2>2, <2>3, BypassReachesHealth
  <2> QED
    BY <2>1, <2>4 DEF Sound, Identified, Cleared
<1> QED
  BY <1>1, PipelineInvHolds, PTL

\* An operation runs for the tenant its request names, and that tenant was
\* active at some moment since the request came.
THEOREM OperationsRunForActiveTenants == PipelineSpec => []RunsForActiveTenant
<1>1. PipelineInv => RunsForActiveTenant
  BY DEF PipelineInv, Sound, VouchedFor, Cleared, RunsForActiveTenant
<1> QED
  BY <1>1, PipelineInvHolds, PTL

\* The status a client sees says whether the operation ran for it.
THEOREM AnswersTellTheTruth == PipelineSpec => []StatusTellsRun
<1>1. PipelineInv => StatusTellsRun
  BY DEF PipelineInv, Sound, TellsRun, StatusTellsRun
<1> QED
  BY <1>1, PipelineInvHolds, PTL

-----------------------------------------------------------------------------
(* The roles of a principal.                                               *)

\* toStringSlice keeps the texts of the elements that have one.
LEMMA SliceTexts ==
    ASSUME NEW value,
           value.is = "list" => value.items \in Seq(Range(value.items))
    PROVE  LET texts == IF value.is = "list" THEN {Element(x) : x \in Range(value.items)}
                        ELSE {Scalar(value)}
           IN  /\ ToStringSlice(value) \in Seq(texts \ {NoText})
               /\ Range(ToStringSlice(value)) = texts \ {NoText}
<1> DEFINE listed == IF value.is = "list"
                     THEN [i \in DOMAIN value.items |-> Element(value.items[i])]
                     ELSE <<StringClaim(value)>>
           texts == IF value.is = "list" THEN {Element(x) : x \in Range(value.items)}
                    ELSE {Scalar(value)}
           K == {i \in DOMAIN listed : listed[i] # NoText}
<1>1. listed \in Seq(texts) /\ Range(listed) = texts
  <2>1. CASE value.is = "list"
    <3> DEFINE items == value.items
               one == [i \in DOMAIN items |-> Element(items[i])]
               many == {Element(x) : x \in Range(items)}
    <3>1. items \in Seq(Range(items))
      BY <2>1
    <3>2. DOMAIN items = 1 .. Len(items) /\ Len(items) \in Nat
      BY <3>1
    <3>3. Range(one) = many
      BY DEF Range
    <3>4. one \in Seq(many)
      <4>1. \A i \in 1 .. Len(items) : Element(items[i]) \in many
        BY <3>2 DEF Range
      <4> HIDE DEF many
      <4> QED
        BY <3>2, <4>1
    <3>5. listed = one /\ texts = many
      BY <2>1
    <3> QED
      BY <3>3, <3>4, <3>5
  <2>2. CASE value.is # "list"
    <3>1. listed = <<Scalar(value)>> /\ texts = {Scalar(value)}
      BY <2>2 DEF StringClaim
    <3> DEFINE text == Scalar(value)
    <3>2. <<text>> \in Seq({text}) /\ DOMAIN <<text>> = {1} /\ <<text>>[1] = text
      OBVIOUS
    <3> HIDE DEF text
    <3>3. Range(<<text>>) = {text}
      BY <3>2 DEF Range
    <3> QED
      BY <3>1, <3>2, <3>3 DEF text
  <2> QED
    BY <2>1, <2>2
<1>2. ToStringSlice(value) = Pick(listed, K)
  BY DEF ToStringSlice
<1> HIDE DEF listed, texts
<1>3. Range(Pick(listed, K)) = {listed[i] : i \in K} /\ Pick(listed, K) \in Seq(texts)
  BY <1>1, Picked, PickedRange
<1>4. {listed[i] : i \in K} = texts \ {NoText}
  BY <1>1 DEF Range
<1>5. Pick(listed, K) \in Seq(Range(Pick(listed, K)))
  BY <1>3, OwnRange
<1> QED
  BY <1>2, <1>3, <1>4, <1>5 DEF texts

LEMMA SectionTexts ==
    ASSUME NEW section, RolesListed(section)
    PROVE  /\ SectionRoles(section) \in Seq(RoleTexts(section))
           /\ Range(SectionRoles(section)) = RoleTexts(section)
<1>1. CASE ~HasField(section, "roles")
  <2>1. SectionRoles(section) = << >> /\ RoleTexts(section) = {}
    BY <1>1 DEF SectionRoles, RoleTexts
  <2> QED
    BY <2>1 DEF Range
<1>2. CASE HasField(section, "roles")
  <2> DEFINE value == section.fields["roles"]
             texts == IF value.is = "list" THEN {Element(x) : x \in Range(value.items)}
                      ELSE {Scalar(value)}
  <2>1. SectionRoles(section) = ToStringSlice(value) /\ RoleTexts(section) = texts \ {NoText}
    BY <1>2 DEF SectionRoles, RoleTexts
  <2>2. value.is = "list" => value.items \in Seq(Range(value.items))
    BY <1>2 DEF RolesListed
  <2> HIDE DEF value
  <2>3. /\ ToStringSlice(value) \in Seq(texts \ {NoText})
        /\ Range(ToStringSlice(value)) = texts \ {NoText}
    BY <2>2, SliceTexts
  <2> QED
    BY <2>1, <2>3
<1> QED
  BY <1>1, <1>2

\* dedupe keeps every text that is not empty, once.
LEMMA DedupeTexts ==
    ASSUME NEW S, NEW values \in Seq(S)
    PROVE  Range(Dedupe(values)) = Range(values) \ {NoText} /\ IsInjective(Dedupe(values))
<1> DEFINE K == {i \in DOMAIN values :
                    values[i] # NoText /\ \A k \in 1 .. i - 1 : values[k] # values[i]}
           n == Len(values)
<1>1. n \in Nat /\ DOMAIN values = 1 .. n /\ K \in SUBSET DOMAIN values
  OBVIOUS
<1>2. Dedupe(values) = Pick(values, K)
  BY DEF Dedupe
<1>3. \A i, k \in K : values[i] = values[k] => i = k
  <2> SUFFICES ASSUME NEW i \in K, NEW k \in K, values[i] = values[k], i # k PROVE FALSE
    OBVIOUS
  <2>1. i \in 1 .. n /\ k \in 1 .. n /\ (i < k \/ k < i)
    BY <1>1
  <2>2. i \in 1 .. k - 1 \/ k \in 1 .. i - 1
    BY <1>1, <2>1
  <2> QED
    BY <2>2
<1>4. ASSUME NEW i \in DOMAIN values, values[i] # NoText
      PROVE  \E k \in K : values[k] = values[i]
  <2> DEFINE T == {k \in 1 .. n : values[k] = values[i]}
  <2>1. T \in SUBSET Nat /\ i \in T
    BY <1>1
  <2>2. PICK m \in T : \A k \in T : m <= k
    BY <2>1, LeastNumber
  <2>3. ASSUME NEW k \in 1 .. m - 1 PROVE values[k] # values[m]
    <3>1. k \in 1 .. n /\ ~(m <= k)
      BY <1>1, <2>2
    <3> QED
      BY <2>2, <3>1
  <2>4. m \in K
    BY <1>1, <1>4, <2>2, <2>3
  <2> QED
    BY <2>2, <2>4
<1> HIDE DEF K
<1>5. Range(Pick(values, K)) = {values[i] : i \in K}
  BY <1>1, PickedRange
<1>6. IsInjective(Pick(values, K))
  BY <1>1, <1>3, PickedInjective
<1>7. {values[i] : i \in K} = Range(values) \ {NoText}
  <2>1. \A i \in K : values[i] # NoText /\ i \in DOMAIN values
    BY DEF K
  <2> QED
    BY <1>4, <2>1 DEF Range
<1> QED
  BY <1>2, <1>5, <1>6, <1>7

\* The iteration over the sections takes every one.
LEMMA OrderCovers ==
    ASSUME NEW S, IsFiniteSet(S), NEW order \in SetToSeqs(S)
    PROVE  order \in Seq(S) /\ Range(order) = S
<1> DEFINE D == 1 .. Cardinality(S)
<1>1. Cardinality(S) \in Nat
  BY FS_CardinalityType
<1>2. order \in [D -> S] /\ \A i, j \in D : i # j => order[i] # order[j]
  BY DEF SetToSeqs
<1>3. order \in Seq(S)
  BY <1>1, <1>2
<1>4. IsFiniteSet(D) /\ Cardinality(D) = Cardinality(S)
  BY <1>1, FS_Interval
<1> HIDE DEF D
<1>5. DOMAIN order = D
  BY <1>2
<1>6. \A x \in S : \E i \in D : order[i] = x
  <2> SUFFICES ASSUME NEW x \in S, \A i \in D : order[i] # x PROVE FALSE
    OBVIOUS
  <2> DEFINE T == S \ {x}
  <2>1. IsFiniteSet(T) /\ Cardinality(T) = Cardinality(S) - 1
    BY FS_RemoveElement
  <2>2. order \in [D -> T]
    BY <1>2
  <2>3. Cardinality(T) < Cardinality(D)
    BY <1>1, <1>4, <2>1
  <2> HIDE DEF T
  <2>4. \E i, j \in D : i # j /\ order[i] = order[j]
    BY <1>4, <2>1, <2>2, <2>3, FS_PigeonHole
  <2> QED
    BY <1>2, <2>4
<1>7. Range(order) = S
  BY <1>2, <1>5, <1>6 DEF Range
<1> QED
  BY <1>3, <1>7

\* extractRoles: whichever order the iteration takes, the roles are those of the token, each
\* once.
LEMMA RolesComplete ==
    ASSUME NEW token \in Token, NEW order \in Orders(token.claims)
    PROVE  LET roles == ExtractRoles(token.claims, order) IN
           Range(roles) = TokenRoles(token.claims) /\ IsInjective(roles)
<1> DEFINE claims == token.claims
           realm == SectionRoles(Claim(claims, "realm_access"))
           access == Claim(claims, "resource_access")
           sections == [i \in DOMAIN order |-> SectionRoles(access.fields[order[i]])]
           Names == IF access.is = "object" THEN DOMAIN access.fields ELSE {}
           Resources == UNION {RoleTexts(access.fields[f]) : f \in Names}
           S == RoleTexts(Claim(claims, "realm_access")) \cup Resources
<1>1. /\ RolesListed(Claim(claims, "realm_access"))
      /\ access.is = "object" => IsFiniteSet(DOMAIN access.fields)
      /\ access.is = "object" => \A f \in DOMAIN access.fields : RolesListed(access.fields[f])
  BY ClaimsAssumption
<1>2. realm \in Seq(S) /\ Range(realm) = RoleTexts(Claim(claims, "realm_access"))
  <2>1. /\ realm \in Seq(RoleTexts(Claim(claims, "realm_access")))
        /\ Range(realm) = RoleTexts(Claim(claims, "realm_access"))
    BY <1>1, SectionTexts
  <2>2. realm \in Seq(S)
    BY <2>1, SeqMonotonic
  <2> QED
    BY <2>1, <2>2
<1>3. order \in Seq(Names) /\ Range(order) = Names
  <2>1. CASE access.is = "object"
    <3>1. order \in SetToSeqs(DOMAIN access.fields) /\ IsFiniteSet(DOMAIN access.fields)
      BY <1>1, <2>1 DEF Orders
    <3> QED
      BY <2>1, <3>1, OrderCovers
  <2>2. CASE access.is # "object"
    <3>1. order = << >> /\ Names = {}
      BY <2>2 DEF Orders
    <3> QED
      BY <3>1 DEF Range
  <2> QED
    BY <2>1, <2>2
<1>4. DOMAIN order = 1 .. Len(order) /\ Len(order) \in Nat /\ \A i \in DOMAIN order : order[i] \in Names
  BY <1>3
<1>5. ASSUME NEW f \in Names
      PROVE  /\ SectionRoles(access.fields[f]) \in Seq(S)
             /\ Range(SectionRoles(access.fields[f])) = RoleTexts(access.fields[f])
  <2>1. RolesListed(access.fields[f])
    BY <1>1
  <2>2. /\ SectionRoles(access.fields[f]) \in Seq(RoleTexts(access.fields[f]))
        /\ Range(SectionRoles(access.fields[f])) = RoleTexts(access.fields[f])
    BY <2>1, SectionTexts
  <2>3. RoleTexts(access.fields[f]) \subseteq S
    OBVIOUS
  <2>4. SectionRoles(access.fields[f]) \in Seq(S)
    BY <2>2, <2>3, SeqMonotonic
  <2> QED
    BY <2>2, <2>4
<1>6. TokenRoles(claims) = S
  BY DEF TokenRoles
<1>7. ExtractRoles(claims, order) = Dedupe(realm \o FlattenSeq(sections))
  BY DEF ExtractRoles
<1> HIDE DEF S, Names, realm, access
<1>8. sections \in Seq(Seq(S)) /\ DOMAIN sections = DOMAIN order
  BY <1>4, <1>5
<1>9. /\ FlattenSeq(sections) \in Seq(S)
      /\ Range(FlattenSeq(sections)) = UNION {Range(sections[i]) : i \in DOMAIN sections}
  BY <1>8, FlattenedRange
<1>10. \A x : x \in Range(FlattenSeq(sections)) <=> \E f \in Names : x \in RoleTexts(access.fields[f])
  <2>1. ASSUME NEW i \in DOMAIN sections
        PROVE  order[i] \in Names /\ Range(sections[i]) = RoleTexts(access.fields[order[i]])
    BY <1>4, <1>5, <1>8
  <2>2. \A f \in Names : \E i \in DOMAIN sections : order[i] = f
    BY <1>3, <1>8 DEF Range
  <2> HIDE DEF sections
  <2> QED
    BY <1>9, <2>1, <2>2
<1> HIDE DEF sections
<1>11. /\ realm \o FlattenSeq(sections) \in Seq(S)
       /\ Range(realm \o FlattenSeq(sections)) = Range(realm) \cup Range(FlattenSeq(sections))
  <2>1. realm \o FlattenSeq(sections) \in Seq(S)
    BY <1>2, <1>9, Joined
  <2>2. Range(realm \o FlattenSeq(sections)) = Range(realm) \cup Range(FlattenSeq(sections))
    BY <1>2, <1>9, JoinedRange
  <2> QED
    BY <2>1, <2>2
<1>12. Range(realm \o FlattenSeq(sections)) = S
  <2>1. \A x : x \in S <=> x \in Range(realm) \/ \E f \in Names : x \in RoleTexts(access.fields[f])
    BY <1>2 DEF S
  <2>2. \A x : x \in Range(realm \o FlattenSeq(sections)) <=> x \in S
    BY <1>10, <1>11, <2>1
  <2> QED
    BY <2>2, Zenon
<1>13. NoText \notin S
  BY DEF S, RoleTexts
<1>14. /\ Range(Dedupe(realm \o FlattenSeq(sections))) = S \ {NoText}
       /\ IsInjective(Dedupe(realm \o FlattenSeq(sections)))
  BY <1>11, <1>12, DedupeTexts
<1> QED
  BY <1>6, <1>7, <1>13, <1>14

\* A principal in a context was made of the token of the request, when the
\* configuration accepted it.
Granted(r) ==
    /\ at[r] = "new" => context[r].principal = Nothing
    /\ context[r].principal # Nothing =>
           \E token \in Token : \E order \in Orders(token.claims) :
               /\ token = BearerToken(asked[r].authorization)
               /\ Refusal(Verifier, token) = 0
               /\ context[r].principal = PrincipalOf(Verifier, token, order)

\* What a request asks, once it is there, and what its principal was made of
\* stay as they are.
LEMMA GrantedStays ==
    ASSUME NEW r \in Request, Granted(r), UNCHANGED env,
           context'[r].principal = context[r].principal,
           at'[r] = "new" => at[r] = "new",
           asked'[r] = asked[r] \/ at[r] = "new"
    PROVE  Granted(r)'
<1>1. Verifier' = Verifier
  BY DEF Verifier, Config
<1>2. CASE context[r].principal = Nothing
  BY <1>2 DEF Granted
<1>3. CASE context[r].principal # Nothing
  <2>1. asked'[r] = asked[r] /\ at'[r] # "new"
    BY <1>3 DEF Granted
  <2>2. PICK token \in Token : \E order \in Orders(token.claims) :
            /\ token = BearerToken(asked[r].authorization)
            /\ Refusal(Verifier, token) = 0
            /\ context[r].principal = PrincipalOf(Verifier, token, order)
    BY <1>3 DEF Granted
  <2>3. PICK order \in Orders(token.claims) :
            /\ token = BearerToken(asked[r].authorization)
            /\ Refusal(Verifier, token) = 0
            /\ context[r].principal = PrincipalOf(Verifier, token, order)
    BY <2>2
  <2>4. /\ token = BearerToken(asked'[r].authorization)
        /\ Refusal(Verifier', token) = 0
        /\ context'[r].principal = PrincipalOf(Verifier', token, order)
    BY <1>1, <2>1, <2>3
  <2> QED
    BY <2>1, <2>4 DEF Granted
<1> QED
  BY <1>2, <1>3

LEMMA GrantedStep ==
    ASSUME PipelineInv, [PipelineNext]_pipelineVars, NEW r \in Request, Granted(r)
    PROVE  Granted(r)'
<1>1. /\ at \in [Request -> {"new", "route", "auth", "tenant", "query", "operation",
                             "respond", "done"}]
      /\ DOMAIN asked = Request /\ DOMAIN context = Request
      /\ request[r] = "new" => at[r] = "new"
  BY DEF PipelineInv, PipelineTyped, Sound, Placed
<1>2. ASSUME UNCHANGED <<env, asked, context, at>> PROVE Granted(r)'
  BY <1>2, GrantedStays
<1>3. ASSUME NEW q \in Request, NEW code, Reply(q, code) PROVE Granted(r)'
  <2>1. UNCHANGED <<env, asked, context>> /\ at' = [at EXCEPT ![q] = "done"]
    BY <1>3 DEF Reply, outside
  <2> QED
    BY <1>1, <2>1, GrantedStays
<1>4. ASSUME NEW q \in Request, NEW step \in {"auth", "tenant", "query", "operation", "respond"},
             Proceed(q, step), \A p \in Request : context'[p].principal = context[p].principal
      PROVE  Granted(r)'
  <2>1. UNCHANGED <<env, asked>> /\ at' = [at EXCEPT ![q] = step]
    BY <1>4 DEF Proceed, outside
  <2>2. at'[r] = "new" => at[r] = "new"
    BY <1>1, <1>4, <2>1
  <2> QED
    BY <1>4, <2>1, <2>2, GrantedStays
<1>5. ASSUME NEW q \in Request, Arrive(q) PROVE Granted(r)'
  <2>1. UNCHANGED <<env, context>> /\ request[q] = "new"
    BY <1>5 DEF Arrive, Accept, outside
  <2>2. \/ UNCHANGED <<asked, at>>
        \/ /\ \E a : asked' = [asked EXCEPT ![q] = a]
           /\ at' = [at EXCEPT ![q] = "route"]
    BY <1>5 DEF Arrive
  <2>3. at'[r] = "new" => at[r] = "new"
    BY <1>1, <2>2
  <2>4. asked'[r] = asked[r] \/ r = q
    BY <1>1, <2>2
  <2> QED
    BY <1>1, <2>1, <2>3, <2>4, GrantedStays
<1>6. ASSUME NEW q \in Request, Authenticate(q) PROVE Granted(r)'
  <2> DEFINE token == BearerToken(asked[q].authorization)
  <2>1. CASE Reply(q, Refusal(Verifier, token))
    BY <1>3, <2>1
  <2>2. ASSUME NEW order \in Orders(token.claims), token \in Token,
               Refusal(Verifier, token) = 0,
               context' = [context EXCEPT ![q].principal = PrincipalOf(Verifier, token, order)],
               Proceed(q, "tenant")
        PROVE  Granted(r)'
    <3>1. UNCHANGED <<env, asked>> /\ at' = [at EXCEPT ![q] = "tenant"]
      BY <2>2 DEF Proceed, outside
    <3>2. CASE r # q
      <4>1. context'[r] = context[r] /\ at'[r] = at[r]
        BY <1>1, <2>2, <3>1, <3>2
      <4> QED
        BY <3>1, <4>1, GrantedStays
    <3>3. CASE r = q
      <4>1. context'[r].principal = PrincipalOf(Verifier, token, order) /\ at'[r] = "tenant"
        BY <1>1, <2>2, <3>1, <3>3 DEF PipelineInv, PipelineTyped
      <4>2. Verifier' = Verifier /\ token = BearerToken(asked'[r].authorization)
        BY <3>1, <3>3 DEF Verifier, Config
      <4> HIDE DEF token
      <4> QED
        BY <2>2, <4>1, <4>2 DEF Granted
    <3> QED
      BY <3>2, <3>3
  <2> QED
    BY <1>6, <2>1, <2>2 DEF Authenticate
<1>7. ASSUME NEW q \in Request, CheckTenant(q) PROVE Granted(r)'
  <2> DEFINE t == TenantOf(asked[q].tenant)
  <2>1. CASE Reply(q, 403)
    BY <1>3, <2>1
  <2>2. CASE context' = [context EXCEPT ![q].tenant = t] /\ Proceed(q, "operation")
    <3>1. \A p \in Request : context'[p].principal = context[p].principal
      BY <2>2 DEF PipelineInv, PipelineTyped
    <3> QED
      BY <1>4, <2>2, <3>1
  <2> QED
    BY <1>7, <2>1, <2>2 DEF CheckTenant
<1>8. ASSUME NEW q \in Request,
             SkipAuthentication(q) \/ AcquireConn(q) \/ Operate(q) \/ RouteRequest(q)
      PROVE  Granted(r)'
  <2>1. \/ \E code : Reply(q, code)
        \/ /\ \E step \in {"auth", "tenant", "query", "operation", "respond"} : Proceed(q, step)
           /\ UNCHANGED context
    BY <1>8 DEF SkipAuthentication, AcquireConn, Operate, RouteRequest
  <2> QED
    BY <1>3, <1>4, <2>1
<1>9. ASSUME NEW q \in Request,
             \/ Unauthorized(q) \/ CheckFails(q) \/ NotRouted(q)
             \/ Reject(q) \/ Respond(q) \/ ClientLeaves(q)
      PROVE  Granted(r)'
  <2>1. \E code : Reply(q, code)
    BY <1>9 DEF Unauthorized, CheckFails, NotRouted, Reject, Respond, ClientLeaves
  <2> QED
    BY <1>3, <2>1
<1>10. CASE MainStep \/ World \/ ChangeRegistry \/ UNCHANGED pipelineVars
  BY <1>2, <1>10 DEF MainStep, World, ChangeRegistry, pipelineVars, own, outside
<1>11. ASSUME NEW q \in Request, Hang(q) PROVE Granted(r)'
  BY <1>2, <1>11 DEF Hang, outside
<1> QED
  BY <1>5, <1>6, <1>7, <1>8, <1>9, <1>10, <1>11 DEF PipelineNext, Handle

\* The principal of a request has every role its token grants, each once, and
\* the tenant; the token was meant for an audience of the service.
THEOREM PrincipalsAreFaithful == PipelineSpec => []PrincipalFaithful
<1> DEFINE AllGranted == \A r \in Request : Granted(r)
<1>1. PipelineInit => AllGranted
  BY DEF PipelineInit, NoContext, Granted
<1>2. PipelineInv /\ AllGranted /\ [PipelineNext]_pipelineVars => AllGranted'
  BY GrantedStep
<1>3. AllGranted => PrincipalFaithful
  <2> SUFFICES ASSUME AllGranted, NEW r \in Request, context[r].principal # Nothing
               PROVE  LET token == BearerToken(asked[r].authorization)
                          p     == context[r].principal
                      IN  /\ Range(p.roles) = TokenRoles(token.claims)
                          /\ IsInjective(p.roles)
                          /\ p.tenant # NoText
                          /\ Verifier.audiences = {} \/ token.audience \cap Verifier.audiences # {}
    BY DEF PrincipalFaithful
  <2>1. PICK token \in Token : \E order \in Orders(token.claims) :
            /\ token = BearerToken(asked[r].authorization)
            /\ Refusal(Verifier, token) = 0
            /\ context[r].principal = PrincipalOf(Verifier, token, order)
    BY DEF Granted
  <2>2. PICK order \in Orders(token.claims) :
            /\ token = BearerToken(asked[r].authorization)
            /\ Refusal(Verifier, token) = 0
            /\ context[r].principal = PrincipalOf(Verifier, token, order)
    BY <2>1
  <2>3. /\ Range(ExtractRoles(token.claims, order)) = TokenRoles(token.claims)
        /\ IsInjective(ExtractRoles(token.claims, order))
    BY RolesComplete
  <2>4. /\ context[r].principal.roles = ExtractRoles(token.claims, order)
        /\ context[r].principal.tenant = TenantClaim(Verifier, token)
    BY <2>2 DEF PrincipalOf
  <2>5. AudienceAllowed(Verifier, token) /\ TenantClaim(Verifier, token) # NoText
    BY <2>2 DEF Refusal
  <2> QED
    BY <2>2, <2>3, <2>4, <2>5 DEF AudienceAllowed
<1> HIDE DEF AllGranted
<1> QED
  BY <1>1, <1>2, <1>3, PipelineInvHolds, PTL DEF PipelineSpec
=============================================================================
