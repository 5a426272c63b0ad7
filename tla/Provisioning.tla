---------------------------- MODULE Provisioning ----------------------------
(***************************************************************************)
(* Tenants being provisioned over three databases: concurrent runs of      *)
(* scripts/provision_tenant_complete.sh, and operators calling the         *)
(* registry's procedures by hand (docs/QUICK_REFERENCE.md:55-73).          *)
(*                                                                         *)
(* A run is named by the uuid it generates.  Its psql calls read SQL from  *)
(* standard input without ON_ERROR_STOP: a procedure that raises prints an *)
(* error and psql exits 0, so the run goes on; only a connection that      *)
(* cannot be made, or a signal, ends it (Abort).                           *)
(*                                                                         *)
(* ensure_finance_tenant_schema and ensure_party_tenant_schema are not in  *)
(* the repository: a call either creates the schema it names, if need be,  *)
(* or raises.                                                              *)
(***************************************************************************)
EXTENDS TenantRegistry

CONSTANTS Run,      \* uuids the script generates
          Plans,    \* the module lists runs are given
          MaxLog    \* bound on the rows of tenant_module_log

ASSUME RunAssumption == Run \subseteq Tenant
ASSUME PlansAssumption == Plans \subseteq Seq(Module \cup {"inventory"})

VARIABLES registry,  \* tenant_registry
          log,       \* tenant_module_log, in order of provisioned_at
          ensured,   \* ensure_* calls that succeeded: tenant, module, schema
          pc,        \* Run -> what the run does next
          slug,      \* Run -> TENANT_SLUG
          todo       \* Run -> modules to come, the current one first

vars == <<registry, log, ensured, pc, slug, todo>>
tables == <<registry, log>>

Active == {"register", "module", "subscribe", "probe", "ensure", "success", "failed"}

TypeOK ==
    /\ registry \in [Tenant -> RegistryRow \cup {NoRow}]
    /\ log \in Seq(LogRow)
    /\ ensured \subseteq Tenant \X Module \X SchemaName
    /\ pc \in [Run -> Active \cup {"idle", "done", "aborted"}]
    /\ slug \in [Run -> Slug]
    /\ todo \in [Run -> Seq(Module \cup {"inventory"})]

Init ==
    /\ registry = [t \in Tenant |-> NoRow]
    /\ log = << >>
    /\ ensured = {}
    /\ pc = [r \in Run |-> "idle"]
    /\ slug \in [Run -> Slug]
    /\ todo \in [Run -> Plans]

-----------------------------------------------------------------------------
(* The script.                                                             *)

Goto(r, label) == pc' = [pc EXCEPT ![r] = label]
Current(r) == Head(todo[r])
\* OPERATIONS_SCHEMA and FINANCE_SCHEMA.
SchemaOf(r) == <<IF Current(r) = "operations" THEN "tenant" ELSE "finance", slug[r]>>

Start(r) ==
    /\ pc[r] = "idle"
    /\ Goto(r, "register")
    /\ UNCHANGED <<registry, log, ensured, slug, todo>>

Register(r) ==
    /\ pc[r] = "register"
    /\ registry' = IF RegisterRaises(registry, r, slug[r]) THEN registry
                   ELSE Registered(registry, r, slug[r])
    /\ Goto(r, "module")
    /\ UNCHANGED <<log, ensured, slug, todo>>

\* The loop's head; an unknown module is skipped.  After the last module two
\* queries print what is recorded, whatever they return.
NextModule(r) ==
    /\ pc[r] = "module"
    /\ \/ todo[r] = << >> /\ Goto(r, "done") /\ UNCHANGED todo
       \/ todo[r] # << >> /\ Current(r) \in Module /\ Goto(r, "subscribe") /\ UNCHANGED todo
       \/ /\ todo[r] # << >> /\ Current(r) \notin Module
          /\ todo' = [todo EXCEPT ![r] = Tail(@)]
          /\ UNCHANGED pc
    /\ UNCHANGED <<registry, log, ensured, slug>>

Subscribe(r) ==
    /\ pc[r] = "subscribe"
    /\ IF Known(registry, r)
       THEN /\ Len(log) < MaxLog
            /\ registry' = Subscribed(registry, r, Current(r), SchemaOf(r))
            /\ log' = Append(log, Pending(r, Current(r), SchemaOf(r)))
       ELSE UNCHANGED tables
    /\ Goto(r, "probe")
    /\ UNCHANGED <<ensured, slug, todo>>

\* The probe of the module's database: answered or not.
Probe(r) ==
    /\ pc[r] = "probe"
    /\ Goto(r, "ensure") \/ Goto(r, "failed")
    /\ UNCHANGED <<registry, log, ensured, slug, todo>>

\* CALL ensure_*: it succeeds or it raises, and psql exits 0 either way.
Ensure(r) ==
    /\ pc[r] = "ensure"
    /\ \/ ensured' = ensured \cup {<<r, Current(r), SchemaOf(r)>>}
       \/ UNCHANGED ensured
    /\ Goto(r, "success")
    /\ UNCHANGED <<registry, log, slug, todo>>

\* Mutant of Mark: the branch of an unavailable database forgets the log.
MarkSuccess(r) ==
    /\ pc[r] \in {"success", "failed"}
    /\ log' = IF pc[r] = "success" THEN Marked(log, r, Current(r), pc[r]) ELSE log
    /\ todo' = [todo EXCEPT ![r] = Tail(@)]
    /\ Goto(r, "module")
    /\ UNCHANGED <<registry, ensured, slug>>

\* mark_module_provisioned, with 'success' or with 'failed'.
Mark(r) ==
    /\ pc[r] \in {"success", "failed"}
    /\ log' = Marked(log, r, Current(r), pc[r])
    /\ todo' = [todo EXCEPT ![r] = Tail(@)]
    /\ Goto(r, "module")
    /\ UNCHANGED <<registry, ensured, slug>>

\* set -e on a psql that cannot connect, or a signal.
Abort(r) ==
    /\ pc[r] \in Active
    /\ Goto(r, "aborted")
    /\ UNCHANGED <<registry, log, ensured, slug, todo>>

Script ==
    \E r \in Run :
        \/ Start(r) \/ Register(r) \/ NextModule(r) \/ Subscribe(r)
        \/ Probe(r) \/ Ensure(r) \/ Mark(r) \/ Abort(r)

-----------------------------------------------------------------------------
(* The procedures, called by hand with the default schema name: for a      *)
(* tenant of their own, or for one whose run is over, in any order.  Two   *)
(* marks of one row at the same moment are serialised: one of them then    *)
(* settles an older row or, in PostgreSQL, possibly none.                  *)

ByHand(t) == t \in Run => pc[t] \in {"done", "aborted"}

CallRegister(t, s) ==
    /\ ~RegisterRaises(registry, t, s)
    /\ registry' = Registered(registry, t, s)
    /\ UNCHANGED <<log, ensured, pc, slug, todo>>

CallSubscribe(t, m) ==
    /\ Known(registry, t)
    /\ Len(log) < MaxLog
    /\ LET name == DefaultSchema(registry, t, m)
       IN  /\ registry' = Subscribed(registry, t, m, name)
           /\ log' = Append(log, Pending(t, m, name))
    /\ UNCHANGED <<ensured, pc, slug, todo>>

CallEnsure(t, m) ==
    /\ HasModule(registry, t, m)
    /\ ensured' = ensured \cup {<<t, m, TenantSchema(registry, t, m)>>}
    /\ UNCHANGED <<registry, log, pc, slug, todo>>

CallMark(t, m, status) ==
    /\ log' = Marked(log, t, m, status)
    /\ UNCHANGED <<registry, ensured, pc, slug, todo>>

Calls ==
    \E t \in Tenant :
        /\ ByHand(t)
        /\ \/ \E s \in Slug : CallRegister(t, s)
           \/ \E m \in Module :
                 \/ CallSubscribe(t, m)
                 \/ CallEnsure(t, m)
                 \/ \E status \in {"success", "failed"} : CallMark(t, m, status)

Next == Script \/ Calls

\* The script alone.
SpecScript == Init /\ [][Script]_vars
Spec == Init /\ [][Next]_vars

-----------------------------------------------------------------------------
(* Properties.                                                             *)

\* "Each tenant gets a dedicated PostgreSQL schema" (docs/ARCHITECTURE.md:13),
\* as far as the registry goes: no two tenants are recorded with one schema,
\* whatever names concurrent runs and callers were given.
RegistryDedicated ==
    \A t, u \in Tenant, m \in Module :
        t # u /\ HasModule(registry, t, m)
            => TenantSchema(registry, t, m) # TenantSchema(registry, u, m)

RowsOf(t, m) == {i \in 1..Len(log) : log[i].tenant = t /\ log[i].module = m}

\* The registry and the log of a tenant tell the same story: a module with a
\* schema has log rows, the newest of which names that schema.
LogMatchesRegistry ==
    \A t \in Tenant, m \in Module :
        LET rows == RowsOf(t, m)
        IN  IF rows = {} THEN ~HasModule(registry, t, m)
            ELSE \E i \in rows : /\ \A j \in rows : j <= i
                                 /\ TenantSchema(registry, t, m) = log[i].schema

\* The log is an audit trail: its rows stay, and a row that says success or
\* failed is never rewritten by another run or call.
SettledStep ==
    \A i \in 1..Len(log) :
        /\ i <= Len(log')
        /\ log[i].status # "pending" => log'[i] = log[i]
SettledStays == [][SettledStep]_vars

\* A run that reaches its end has settled every row it logged.
EndStep ==
    \A r \in Run : pc[r] # "done" /\ pc'[r] = "done" =>
        \A i \in 1..Len(log) : log[i].tenant = r => log[i].status # "pending"
EndsSettled == [][EndStep]_vars

\* "Mark as provisioned" (provision_tenant_complete.sh:73 and 103): a row the
\* script marks success names a schema that exists.
SuccessMeansSchema ==
    \A i \in 1..Len(log) : log[i].status = "success" =>
        \E t \in Tenant : <<t, log[i].module, log[i].schema>> \in ensured
=============================================================================
