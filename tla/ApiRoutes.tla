------------------------------ MODULE ApiRoutes ------------------------------
(***************************************************************************)
(* The routes and the operations of the HTTP API: the router main builds   *)
(* (BuildRouter), the generated router below it (HandlerWithOptions), and  *)
(* what the generated code asks of a request before an operation runs and  *)
(* answers after it (internal/api/finance.gen.go).                         *)
(*                                                                         *)
(* A path is the sequence of its segments, with "api" for the three        *)
(* segments of the prefix finance/api/v1.  chi, a library, is modelled as  *)
(* far as these routes use it: a fixed segment wins over a wildcard, a     *)
(* mounted router sees what follows the prefix it is mounted at, a path    *)
(* with another method is 405, no path is 404.                             *)
(*                                                                         *)
(* A request is a record: method, path, slash (the path ends in one),      *)
(* authorization (Authenticator), tenant (the X-Tenant-ID header), query   *)
(* (the query parameters that do not parse), secrets (how many Secret      *)
(* headers), body ("valid" or not).                                        *)
(***************************************************************************)
EXTENDS Naturals, Sequences

CONSTANTS InvoiceId   \* path segments that parse as a uuid

\* None of the words Bypass looks for is a uuid.
ASSUME InvoiceIdAssumption ==
    InvoiceId \cap {"health", "swagger", "swagger.yaml"} = {}

Operation == {"HealthCheck", "ListInvoices", "CreateInvoice", "GetInvoice",
              "ListReceipts", "CreateReceipt", "ProvisionTenant"}
NoOperation == "none"

\* The routes of the OpenAPI document, below the BaseURL.
Route(op) ==
    CASE op = "HealthCheck"     -> <<"GET", <<"health">>>>
      [] op = "ListInvoices"    -> <<"GET", <<"invoices">>>>
      [] op = "CreateInvoice"   -> <<"POST", <<"invoices">>>>
      [] op = "GetInvoice"      -> <<"GET", <<"invoices", "{invoice_id}">>>>
      [] op = "ListReceipts"    -> <<"GET", <<"receipts">>>>
      [] op = "CreateReceipt"   -> <<"POST", <<"receipts">>>>
      [] op = "ProvisionTenant" -> <<"POST", <<"tenants", "provision">>>>

\* The prefix BuildRouter mounts the API at, and the BaseURL main passes to
\* HandlerWithOptions, which puts it before every route once more.
MountPoint == <<"api">>
BaseURL == <<"api">>

\* Which of the three parts of BuildRouter's router takes a request.  The
\* API's routes are the longest fixed prefix; what is left falls to the
\* tenant router, mounted at "/".
RouterPart(q) ==
    IF q.path # << >> /\ Head(q.path) = "api" THEN "api"
    ELSE IF q.method = "GET" /\ q.path = <<"health">> /\ ~q.slash THEN "health"
    ELSE "tenants"

Fits(pattern, path) ==
    /\ Len(pattern) = Len(path)
    /\ \A i \in DOMAIN path : pattern[i] \in {path[i], "{invoice_id}"}

\* The operations whose path is that of the request, below the mount point.
PathOperations(q) ==
    IF q.slash THEN {}
    ELSE {op \in Operation : Fits(BaseURL \o Route(op)[2], Tail(q.path))}
Selected(q) == {op \in PathOperations(q) : Route(op)[1] = q.method}
Unrouted(q) == IF PathOperations(q) = {} THEN 404 ELSE 405

\* The tenant router has one route.
TenantRouterStatus(q) ==
    IF q.path # <<"tenants", "provision">> \/ q.slash
    THEN IF q.path = <<"health">> /\ ~q.slash THEN 405 ELSE 404
    ELSE IF q.method = "POST" THEN 200 ELSE 405

-----------------------------------------------------------------------------
(* The generated code around an operation.                                 *)

\* Mutant of Binds: an id that is no uuid is let through.
BindsAnyId(op, q) == op = "ListInvoices" => q.query = {}
\* ServerInterfaceWrapper: every query parameter, and the path parameter of
\* GetInvoice, parses; the other operations of these lines have none.
Binds(op, q) ==
    /\ op = "ListInvoices" => q.query = {}
    /\ op = "GetInvoice" => q.path[Len(q.path)] \in InvoiceId
\* ServerInterfaceWrapper.ProvisionTenant: one Secret header, of any value.
SecretBinds(op, q) == op = "ProvisionTenant" => q.secrets = 1

\* strictHandler decodes the body of three operations.
HasBody == {"CreateInvoice", "CreateReceipt", "ProvisionTenant"}
Decodes(op, q) == op \in HasBody => q.body = "valid"

\* The generated code runs the operation, or answers 400 and does not.
Admits(op, q) == Binds(op, q) /\ SecretBinds(op, q) /\ Decodes(op, q)

\* The operations of FinanceHandler: each answers at once, without error and
\* without a look at tenant, principal or database.
Response(op) == IF op \in {"CreateInvoice", "CreateReceipt"} THEN 201 ELSE 200
=============================================================================
