--------------------------- MODULE TenantRegistry ---------------------------
(***************************************************************************)
(* The shared tenant registry (db/tenant_registry_schema.sql): the table   *)
(* tenant_registry, the provisioning log tenant_module_log, the three      *)
(* procedures that write them and the two functions that read them, as     *)
(* operators over the two tables.  Names, contact and audit columns are    *)
(* left out; is_active keeps its default, which no procedure changes.      *)
(***************************************************************************)
EXTENDS Integers, Sequences, FiniteSets

CONSTANTS Tenant,      \* tenant uuids
          Slug,        \* texts given as a slug
          WellFormed,  \* those that match ^[a-z0-9_]+$
          NULL,        \* SQL NULL
          NoRow        \* tenant not registered

ASSUME SlugAssumption == WellFormed \subseteq Slug

Module == {"operations", "finance"}
\* Schema names: a prefix and the slug that follows it.
SchemaName == {"operations", "finance", "tenant"} \X Slug

RegistryRow == [slug : WellFormed, schema : [Module -> SchemaName \cup {NULL}]]
LogRow == [tenant : Tenant, module : Module, schema : SchemaName,
           status : {"pending", "success", "failed"}]

ASSUME NoRowAssumption == NoRow \notin RegistryRow

-----------------------------------------------------------------------------
Known(reg, t) == reg[t] # NoRow

\* Mutant of SlugFree: tenant_slug without UNIQUE.
SlugShared(reg, s) == s \in WellFormed
\* Mutant of SlugFree: tenant_slug without its format CHECK.
SlugUnchecked(reg, s) == \A t \in Tenant : Known(reg, t) => reg[t].slug # s
\* UNIQUE NOT NULL and the format CHECK on tenant_slug.
SlugFree(reg, s) ==
    s \in WellFormed /\ \A t \in Tenant : Known(reg, t) => reg[t].slug # s

\* register_tenant: an upsert on tenant_id that leaves an old row's slug and
\* schemas alone.  It raises when RegisterRaises.
RegisterRaises(reg, t, s) == ~Known(reg, t) /\ ~SlugFree(reg, s)
Registered(reg, t, s) ==
    IF Known(reg, t) THEN reg
    ELSE [reg EXCEPT ![t] = [slug |-> s, schema |-> [m \in Module |-> NULL]]]

\* The schema subscribe_tenant_to_module takes when none is given.
DefaultSchema(reg, t, m) == <<m, reg[t].slug>>

\* Mutant of Subscribed: a tenant that has a schema keeps it.
SubscribedOnce(reg, t, m, name) ==
    IF reg[t].schema[m] = NULL THEN [reg EXCEPT ![t].schema[m] = name] ELSE reg
\* subscribe_tenant_to_module for a Known tenant (it raises for another).
Subscribed(reg, t, m, name) == [reg EXCEPT ![t].schema[m] = name]
Pending(t, m, name) ==
    [tenant |-> t, module |-> m, schema |-> name, status |-> "pending"]

\* Mutant of Markable: rows of any status.
MarkableAny(log, t, m) ==
    {i \in 1..Len(log) : log[i].tenant = t /\ log[i].module = m}
Markable(log, t, m) ==
    {i \in 1..Len(log) : /\ log[i].tenant = t
                         /\ log[i].module = m
                         /\ log[i].status = "pending"}
\* mark_module_provisioned: the latest pending row, if there is one.
Marked(log, t, m, status) ==
    LET rows == Markable(log, t, m)
    IN  IF rows = {} THEN log
        ELSE [log EXCEPT ![CHOOSE i \in rows : \A j \in rows : j <= i].status = status]

\* tenant_has_module and get_tenant_schema.
TenantSchema(reg, t, m) == IF Known(reg, t) THEN reg[t].schema[m] ELSE NULL
HasModule(reg, t, m) == TenantSchema(reg, t, m) # NULL
=============================================================================
