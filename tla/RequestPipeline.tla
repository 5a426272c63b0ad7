--------------------------- MODULE RequestPipeline ---------------------------
(***************************************************************************)
(* A request from the listener to its answer, inside the life of the       *)
(* service (ServiceLifecycle, extended here): router, authentication,      *)
(* tenant check against the registry, generated code, operation, response. *)
(*                                                                         *)
(* Three things happen around a request that runs: main goes on to its end *)
(* and cuts it off; the registry changes between any two of its steps; and *)
(* a call without a deadline, to the provider's keys or to the registry,   *)
(* hangs.  The tenant check holds one of the MaxConns connections of the   *)
(* tenant pool while its query runs.  A body is read under the 30 seconds  *)
(* of ReadTimeout, so reading it ends.                                     *)
(*                                                                         *)
(* CORS, request ids, logging and Recoverer do not decide over an answer   *)
(* and are left out; no handler of the service panics.                     *)
(***************************************************************************)
EXTENDS ServiceLifecycle, Authenticator, ApiRoutes

CONSTANTS Environments, \* environments the process may start in
          Tenant,       \* tenant uuids, NilTenant among them
          Token,        \* tokens a client may send
          MayAsk,       \* Request -> the HTTP requests it may be
          Malformed,    \* an X-Tenant-ID that is no uuid
          Nothing,      \* no principal, no tenant, no request yet
          MaxConns,     \* connections of the tenant pool
          MaxChanges    \* bound on the changes of the registry

\* What Authenticate may make of a token, whatever the environment.
Principal ==
    UNION {{PrincipalOf(AuthenticatorOf(Load(e)), token, order) : order \in Orders(token.claims)} :
               e \in Environments, token \in Token}

ASSUME ConnsAssumption == MaxConns \in Nat \ {0}
ASSUME NothingAssumption == Nothing \notin Principal
ASSUME PathsAssumption ==
    \A r \in Request : \A q \in MayAsk[r] : q.path \in Seq(Range(q.path))

\* Claims are JSON: a list is a sequence, an object has finitely many fields.
RolesListed(section) ==
    HasField(section, "roles") /\ section.fields["roles"].is = "list" =>
        section.fields["roles"].items \in Seq(Range(section.fields["roles"].items))
ASSUME ClaimsAssumption ==
    \A token \in Token :
        LET access == Claim(token.claims, "resource_access")
        IN  /\ RolesListed(Claim(token.claims, "realm_access"))
            /\ access.is = "object" =>
                   /\ IsFiniteSet(DOMAIN access.fields)
                   /\ \A f \in DOMAIN access.fields : RolesListed(access.fields[f])

VARIABLES env,       \* the environment of the process
          active,    \* tenants active in registry.tenant_registry
          changes,   \* how often the registry changed
          at,        \* Request -> what it does next
          asked,     \* Request -> the HTTP request
          context,   \* Request -> principal and tenant in its context
          ran,       \* Request -> the operation that ran for it
          status,    \* Request -> the status sent, 0 if none
          hung,      \* requests whose call never returns
          vouched    \* requests whose tenant was active at some time since they came

own == <<at, asked, context, ran, status, hung, vouched>>
outside == <<env, active, changes>>
pipelineVars == <<vars, own, outside>>

NoContext == [principal |-> Nothing, tenant |-> Nothing]

PipelineInit ==
    /\ Init
    /\ env \in Environments
    /\ active \in SUBSET (Tenant \ {NilTenant})
    /\ changes = 0
    /\ at = [r \in Request |-> "new"]
    /\ asked = [r \in Request |-> Nothing]
    /\ context = [r \in Request |-> NoContext]
    /\ ran = [r \in Request |-> NoOperation]
    /\ status = [r \in Request |-> 0]
    /\ hung = {}
    /\ vouched = {}

Config == Load(env)
Verifier == AuthenticatorOf(Config)

\* The tenant a header names; one that is no uuid counts as none.
TenantOf(header) ==
    IF header \in {Nothing, Malformed} THEN Config.defaultTenant ELSE header

\* Bookkeeping of the model: r alone if the tenant of its request q is among
\* these.
Vouched(r, q, tenants) == IF TenantOf(q.tenant) \in tenants THEN {r} ELSE {}

-----------------------------------------------------------------------------
(* Steps of a request.                                                     *)

\* On to the next handler, nothing answered yet.
Proceed(r, step) ==
    /\ at' = [at EXCEPT ![r] = step]
    /\ UNCHANGED <<vars, asked, status, hung, vouched, outside>>

\* The handlers return, with this status.
Reply(r, code) ==
    /\ Answer(r)
    /\ at' = [at EXCEPT ![r] = "done"]
    /\ status' = [status EXCEPT ![r] = code]
    /\ hung' = hung \ {r}
    /\ UNCHANGED <<asked, context, ran, vouched, outside>>

AtStep(r, step) == request[r] = "running" /\ at[r] = step /\ r \notin hung

\* The server reads a request, if it listens.
Arrive(r) ==
    /\ Accept(r)
    /\ IF request'[r] = "running"
       THEN /\ \E q \in MayAsk[r] : asked' = [asked EXCEPT ![r] = q]
            /\ at' = [at EXCEPT ![r] = "route"]
            /\ vouched' = vouched \cup Vouched(r, asked'[r], active)
       ELSE UNCHANGED <<asked, at, vouched>>
    /\ UNCHANGED <<context, ran, status, hung, outside>>

\* BuildRouter's router: its own health route, the tenant router, the API.
RouteRequest(r) ==
    /\ AtStep(r, "route")
    /\ LET part == RouterPart(asked[r])
       IN  \/ part = "health" /\ Reply(r, 200)
           \/ part = "tenants" /\ Reply(r, TenantRouterStatus(asked[r]))
           \/ part = "api" /\ Proceed(r, "auth") /\ UNCHANGED <<context, ran>>

\* Middleware of auth lets these through, whatever mounts below the API.
Bypass(q) ==
    q.method = "GET" /\ q.path[Len(q.path)] \in {"health", "swagger", "swagger.yaml"}

SkipAuthentication(r) ==
    /\ AtStep(r, "auth") /\ Bypass(asked[r])
    /\ Proceed(r, "tenant") /\ UNCHANGED <<context, ran>>

\* No usable Authorization header, or a token whose verification fails: it
\* is not valid, or the keys could not be fetched.
Unauthorized(r) ==
    /\ AtStep(r, "auth") /\ ~Bypass(asked[r])
    /\ Reply(r, 401)

\* The token verifies.
Authenticate(r) ==
    /\ AtStep(r, "auth") /\ ~Bypass(asked[r])
    /\ LET token == BearerToken(asked[r].authorization)
       IN  /\ token \in Token /\ token.valid
           /\ \/ Refusal(Verifier, token) # 0 /\ Reply(r, Refusal(Verifier, token))
              \/ /\ Refusal(Verifier, token) = 0
                 /\ \E order \in Orders(token.claims) :
                        context' = [context EXCEPT ![r].principal =
                                        PrincipalOf(Verifier, token, order)]
                 /\ Proceed(r, "tenant") /\ UNCHANGED ran

\* Mutant of Holding: a refused request keeps its connection.
HoldingRefused == {r \in Request : (r \in Running /\ at[r] = "query") \/ status[r] = 403}
\* The requests that hold a connection of the tenant pool.
Holding == {r \in Running : at[r] = "query"}

\* Mutant of AcquireConn: the pool has no limit.
AcquireConnAny(r) ==
    /\ AtStep(r, "tenant")
    /\ Proceed(r, "query") /\ UNCHANGED <<context, ran>>
\* TenantMiddleware takes a connection of the tenant pool, waiting for one
\* as long as it takes.
AcquireConn(r) ==
    /\ AtStep(r, "tenant")
    /\ Cardinality(Holding) < MaxConns
    /\ Proceed(r, "query") /\ UNCHANGED <<context, ran>>

\* Mutant of TenantFound: is_active is not looked at.
TenantFoundAny(t) == TRUE
\* SELECT EXISTS ... AND is_active = true.
TenantFound(t) == t \in active

\* The query answers and the connection goes back.
CheckTenant(r) ==
    /\ AtStep(r, "query")
    /\ LET t == TenantOf(asked[r].tenant)
       IN  \/ ~TenantFound(t) /\ Reply(r, 403)
           \/ /\ TenantFound(t)
              /\ context' = [context EXCEPT ![r].tenant = t]
              /\ Proceed(r, "operation") /\ UNCHANGED ran

\* The query fails.
CheckFails(r) == AtStep(r, "query") /\ Reply(r, 500)

\* The generated router finds no operation.
NotRouted(r) ==
    /\ AtStep(r, "operation") /\ Selected(asked[r]) = {}
    /\ Reply(r, Unrouted(asked[r]))

\* Mutant of Reject: the return after the answer is missing.
RejectAndRun(r) ==
    /\ AtStep(r, "operation")
    /\ \E op \in Selected(asked[r]) :
        /\ ~Admits(op, asked[r])
        /\ ran' = [ran EXCEPT ![r] = op]
    /\ Answer(r)
    /\ at' = [at EXCEPT ![r] = "done"]
    /\ status' = [status EXCEPT ![r] = 400]
    /\ UNCHANGED <<asked, context, hung, vouched, outside>>
\* A parameter or the body does not parse.
Reject(r) ==
    /\ AtStep(r, "operation")
    /\ \E op \in Selected(asked[r]) : ~Admits(op, asked[r])
    /\ Reply(r, 400)

\* The operation runs.
Operate(r) ==
    /\ AtStep(r, "operation")
    /\ \E op \in Selected(asked[r]) :
        /\ Admits(op, asked[r])
        /\ ran' = [ran EXCEPT ![r] = op]
    /\ Proceed(r, "respond") /\ UNCHANGED context

\* Visit...Response writes header, status and body.  A body that cannot be
\* written changes nothing: the status is out.
Respond(r) ==
    /\ AtStep(r, "respond")
    /\ Reply(r, Response(ran[r]))

Handle(r) ==
    \/ RouteRequest(r) \/ SkipAuthentication(r) \/ Unauthorized(r) \/ Authenticate(r)
    \/ AcquireConn(r) \/ CheckTenant(r) \/ CheckFails(r)
    \/ NotRouted(r) \/ Reject(r) \/ Operate(r) \/ Respond(r)

-----------------------------------------------------------------------------
(* Around the requests.                                                    *)

\* main goes on; the environment decides over its first two steps.
MainStep ==
    /\ Main
    /\ stage = "config" /\ LoadFails(env) => stage' = "exit1"
    /\ stage = "auth" /\ IssuerMissing(Config) => stage' = "exit1"
    /\ UNCHANGED <<own, outside>>

World == (Signal \/ Listen) /\ UNCHANGED <<own, outside>>

\* A tenant is registered, or is_active is changed.
ChangeRegistry ==
    /\ changes < MaxChanges
    /\ changes' = changes + 1
    /\ \E t \in Tenant \ {NilTenant} :
        active' = IF t \in active THEN active \ {t} ELSE active \cup {t}
    /\ vouched' = vouched \cup UNION {Vouched(r, asked[r], active') : r \in Running}
    /\ UNCHANGED <<vars, env, at, asked, context, ran, status, hung>>

\* A call without a deadline does not return.
Hang(r) ==
    /\ \/ /\ AtStep(r, "auth") /\ ~Bypass(asked[r])
          /\ BearerToken(asked[r].authorization) # NoToken
       \/ AtStep(r, "query")
    /\ hung' = hung \cup {r}
    /\ UNCHANGED <<vars, at, asked, context, ran, status, vouched, outside>>

\* The client closes its connection, which ends the context of a request
\* that waits for a connection or for a call.
ClientLeaves(r) ==
    /\ r \in Running
    /\ r \in hung \/ at[r] = "tenant"
    /\ Reply(r, IF at[r] = "auth" THEN 401 ELSE 500)

PipelineNext ==
    \/ MainStep \/ World \/ ChangeRegistry
    \/ \E r \in Request : Arrive(r) \/ Handle(r) \/ Hang(r) \/ ClientLeaves(r)

PipelineSpec == PipelineInit /\ [][PipelineNext]_pipelineVars

\* main and every handler that is not stuck in a call run on; no request
\* need come, no signal, no change.
FairPipeline ==
    /\ PipelineSpec
    /\ WF_pipelineVars(MainStep)
    /\ \A r \in Request : WF_pipelineVars(Handle(r))

-----------------------------------------------------------------------------
(* Properties.                                                             *)

PipelineTypeOK ==
    /\ active \subseteq Tenant \ {NilTenant}
    /\ at \in [Request -> {"new", "route", "auth", "tenant", "query", "operation",
                           "respond", "done"}]
    /\ \A r \in Request :
        /\ asked[r] \in MayAsk[r] \cup {Nothing}
        /\ context[r].tenant \in Tenant \cup {Nothing}
        /\ ran[r] \in Operation \cup {NoOperation}
        /\ status[r] \in {0, 200, 201, 400, 401, 403, 404, 405, 500}
    /\ hung \cup vouched \subseteq Request
    /\ Cardinality(Holding) <= MaxConns

\* The middleware lets every GET through whose path ends in /health or
\* /swagger, and the router knows a path that ends in any id
\* (auth/middleware.go:20): no operation but HealthCheck runs without a
\* principal all the same.
OperationsHavePrincipal ==
    \A r \in Request :
        ran[r] \notin {NoOperation, "HealthCheck"} => context[r].principal # Nothing

\* An operation runs for the tenant its header names, or the default one, and
\* only if that tenant was active at some moment since the request came,
\* however the registry changes around the check.
RunsForActiveTenant ==
    \A r \in Request : ran[r] # NoOperation =>
        /\ context[r].tenant = TenantOf(asked[r].tenant)
        /\ r \in vouched

\* The texts of a roles claim, read without the code's order or copies.
RoleTexts(section) ==
    IF ~HasField(section, "roles") THEN {}
    ELSE LET roles == section.fields["roles"]
         IN  (IF roles.is = "list" THEN {Element(i) : i \in Range(roles.items)}
              ELSE {Scalar(roles)}) \ {NoText}
TokenRoles(claims) ==
    LET access == Claim(claims, "resource_access")
    IN  RoleTexts(Claim(claims, "realm_access"))
        \cup (IF access.is = "object"
              THEN UNION {RoleTexts(access.fields[f]) : f \in DOMAIN access.fields}
              ELSE {})

\* A principal has every role its token grants in any section, each once,
\* whichever order the iteration over the sections takes, and a tenant; its
\* token was meant for an audience of the service, if it has any.
PrincipalFaithful ==
    \A r \in Request : context[r].principal # Nothing =>
        LET token == BearerToken(asked[r].authorization)
            p     == context[r].principal
        IN  /\ Range(p.roles) = TokenRoles(token.claims)
            /\ IsInjective(p.roles)
            /\ p.tenant # NoText
            /\ Verifier.audiences = {} \/ token.audience \cap Verifier.audiences # {}

\* An answer says whether the operation ran: an error means that it did not,
\* so that a client may try again, and inside the API a success means that it
\* did.
StatusTellsRun ==
    \A r \in Request : status[r] # 0 =>
        /\ status[r] >= 400 => ran[r] = NoOperation
        /\ status[r] < 400 /\ RouterPart(asked[r]) = "api" => ran[r] # NoOperation

\* A request that runs is answered or cut off, unless it hangs itself or
\* the requests that hang hold every connection of the tenant pool.
RequestAnswered ==
    \A r \in Request :
        request[r] = "running" ~>
            \/ request[r] # "running" \/ r \in hung
            \/ Cardinality(Holding \cap hung) = MaxConns

-----------------------------------------------------------------------------
\* "POST /finance/api/v1/invoices" (README.md:118), and with it every path of
\* the OpenAPI document below "/finance/api/v1" (finance_openapi.yaml:11): a
\* request to one of them is not answered 404.
DocumentedRoutesServed ==
    \A r \in Request : status[r] = 404 =>
        ~\E op \in Operation : /\ asked[r].method = Route(op)[1]
                               /\ Fits(MountPoint \o Route(op)[2], asked[r].path)
=============================================================================
