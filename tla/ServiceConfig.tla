---------------------------- MODULE ServiceConfig ----------------------------
(***************************************************************************)
(* The configuration of the service as a function of its environment       *)
(* (internal/config/config.go), and what the authenticator keeps of it.    *)
(* Values the requests do not tell apart (addresses, credentials, origins, *)
(* delays) are left out; the document store reads its own in               *)
(* DocumentStore.                                                          *)
(*                                                                         *)
(* The environment is a function from variables to values.  Unset and      *)
(* Blank, a value of white space, are values; KEYCLOAK_AUDIENCE is a       *)
(* sequence, split at its commas already.                                  *)
(***************************************************************************)
EXTENDS Sequences

CONSTANTS Unset, Blank, NilTenant

Variable == {"TENANT_DB_URL", "DB_URL", "KEYCLOAK_ISSUER", "KEYCLOAK_AUDIENCE",
             "KEYCLOAK_TENANT_CLAIM", "DEFAULT_TENANT"}

OrDefault(value, default) == IF value = Unset THEN default ELSE value

\* The fields tagged required.
Required == {"TENANT_DB_URL", "DB_URL", "KEYCLOAK_ISSUER"}

\* Load returns an error: a required variable is missing, or the tenant is no
\* uuid.
LoadFails(env) ==
    (\E v \in Required : env[v] = Unset) \/ env["DEFAULT_TENANT"] = Blank

\* Load.  getEnv returns "" for every key, so that ENVIRONMENT, HTTP_ADDRESS
\* and GRACEFUL_DELAY are no variables of it: their defaults are constants.
Load(env) ==
    [issuer        |-> env["KEYCLOAK_ISSUER"],
     audiences     |-> OrDefault(env["KEYCLOAK_AUDIENCE"], << >>),
     tenantClaim   |-> OrDefault(env["KEYCLOAK_TENANT_CLAIM"], "tenant_id"),
     defaultTenant |-> OrDefault(env["DEFAULT_TENANT"], NilTenant)]

\* normalizeAudiences drops blank entries.
NormalizeAudiences(auds) == {auds[i] : i \in DOMAIN auds} \ {Blank}

\* NewAuthenticator returns an error whatever the provider says.
IssuerMissing(config) == config.issuer = Blank

\* What NewAuthenticator builds.  No audience left means that none is checked.
AuthenticatorOf(config) ==
    [audiences   |-> NormalizeAudiences(config.audiences),
     tenantClaim |-> IF config.tenantClaim = Blank THEN "tenantId" ELSE config.tenantClaim]
=============================================================================
