------------------------- MODULE MCRequestPipeline -------------------------
(***************************************************************************)
(* Inputs for model-checking RequestPipeline: environments that start and  *)
(* that do not, tokens that are accepted and refused for each reason, and  *)
(* one HTTP request for every way through the pipeline.                    *)
(***************************************************************************)
EXTENDS RequestPipeline, TLC

CONSTANTS r1, r2, t1, id1

MCTenant == {t1, NilTenant}

Plain == [v \in Variable |-> IF v \in Required THEN "set" ELSE Unset]
MCEnvironments ==
    {[Plain EXCEPT !["KEYCLOAK_AUDIENCE"] = <<"finance", Blank>>, !["DEFAULT_TENANT"] = t1],
     [Plain EXCEPT !["KEYCLOAK_AUDIENCE"] = <<Blank>>, !["KEYCLOAK_TENANT_CLAIM"] = Blank],
     [Plain EXCEPT !["DB_URL"] = Unset],
     [Plain EXCEPT !["KEYCLOAK_ISSUER"] = Blank]}

Text(s) == [is |-> "text", text |-> s]
List(items) == [is |-> "list", items |-> items]
Object(fields) == [is |-> "object", fields |-> fields]
Section(roles) == Object([k \in {"roles"} |-> roles])

\* Roles in three sections, one of them twice, one as a bare text, and an
\* element that is no text; the tenant as a list.
Rich == [valid |-> TRUE, audience |-> {"finance", "account"}, subject |-> "s1",
         claims |-> [tenant_id |-> List(<<Text(""), Text("acme")>>),
                     tenantId  |-> Text("acme"),
                     preferred_username |-> Text("ann"),
                     realm_access |-> Section(List(<<Text("viewer"), [is |-> "other"]>>)),
                     resource_access |->
                        Object([finance |-> Section(List(<<Text("viewer"), Text("poster")>>)),
                                account |-> Section(Text("owner"))])]]
Other == [Rich EXCEPT !.audience = {"account"},
                      !.claims = [tenantId |-> Text("acme"), realm_access |-> [is |-> "other"]]]
NoTenant == [Rich EXCEPT !.claims = [tenant_id |-> List(<< >>)]]
Expired == [Rich EXCEPT !.valid = FALSE]
MCToken == {Rich, Other, NoTenant, Expired}

Ask(method, path, token, tenant) ==
    [method |-> method, path |-> path, slash |-> FALSE,
     authorization |-> IF token = NoToken THEN <<"Bearer">> ELSE <<"bearer", token>>,
     tenant |-> tenant, query |-> {}, secrets |-> 0, body |-> "valid"]
Api(rest) == BaseURL \o MountPoint \o rest

Listing == Ask("GET", Api(<<"invoices">>), Rich, t1)
Creation == Ask("POST", Api(<<"invoices">>), Rich, t1)

AnyAsk ==
    {\* outside the API
     Ask("GET", <<"health">>, NoToken, Nothing), Ask("POST", <<"health">>, NoToken, Nothing),
     Ask("POST", <<"tenants", "provision">>, NoToken, Nothing),
     \* health checks and what looks like one
     [Ask("GET", Api(<<"health">>), NoToken, Nothing) EXCEPT !.slash = TRUE],
     Ask("GET", Api(<<"health">>), NoToken, Nothing),
     Ask("GET", Api(<<"invoices", "health">>), NoToken, Malformed),
     \* as documented
     Ask("POST", MountPoint \o <<"invoices">>, Rich, t1),
     \* refused, or not, by authentication
     Ask("GET", Api(<<"receipts">>), NoToken, t1), Ask("GET", Api(<<"receipts">>), Expired, t1),
     Ask("GET", Api(<<"receipts">>), Other, t1), Ask("GET", Api(<<"receipts">>), NoTenant, t1),
     \* operations and their inputs
     Listing, [Listing EXCEPT !.query = {"limit"}],
     Creation, [Creation EXCEPT !.body = "cut off"], [Creation EXCEPT !.method = "PUT"],
     Ask("GET", Api(<<"invoices", id1>>), Rich, Malformed),
     Ask("POST", Api(<<"tenants", "provision">>), Rich, t1),
     [Ask("POST", Api(<<"tenants", "provision">>), Rich, t1) EXCEPT !.secrets = 1]}

\* One request of any kind next to one that does its work.
MCMayAsk == (r1 :> AnyAsk) @@ (r2 :> {Listing})
=============================================================================
