--------------------------- MODULE TenantSessions ---------------------------
(***************************************************************************)
(* internal/db/tenant_session.go: goroutines that open a session for a     *)
(* tenant with GetSession, work on it and give it back with                *)
(* ReleaseSession, while the shared registry changes under them.           *)
(*                                                                         *)
(* The registry is frego-backend's and is modelled from the query that     *)
(* reads it.  No handler calls GetSession yet: a client is any goroutine   *)
(* that does, and releases every session it got.                           *)
(***************************************************************************)
EXTENDS ConnPool

CONSTANTS Client, Tenant, Schema,
          NULL,   \* SQL NULL
          Empty,  \* the empty text
          Rows    \* the registry rows considered, NoRow among them
\* What getTenantSchema's query reads; a tenant without a row is inactive.
RegistryRow == [active : BOOLEAN, subscribed : BOOLEAN, schema : Schema \cup {NULL, Empty}]

ASSUME ClientAssumption == Client \subseteq User
ASSUME SchemaAssumption == Schema \subseteq Path /\ DefaultPath \notin Schema
ASSUME RowsAssumption == Rows \subseteq RegistryRow

VARIABLES registry,  \* Tenant -> row
          call,      \* Client -> where its call of GetSession is
          want       \* Client -> schemaName

sessionVars == <<registry, call, want>>

SessionTypeOK ==
    /\ registry \in [Tenant -> Rows]
    /\ call \in [Client -> {"none", "acquire", "set", "serving"}]
    /\ want \in [Client -> Schema \cup {NULL}]

SessionInit ==
    /\ registry \in [Tenant -> Rows]
    /\ call = [c \in Client |-> "none"]
    /\ want = [c \in Client |-> NULL]

\* Mutant of HasSchema: no check for a missing schema name.
HasRow(t) == registry[t].active /\ registry[t].subscribed
\* getTenantSchema: no row, a NULL that does not scan and '' are all errors.
HasSchema(t) ==
    /\ registry[t].active
    /\ registry[t].subscribed
    /\ registry[t].schema \notin {NULL, Empty}

\* GetSession up to Acquire; a lookup that fails ends the call at once.
GetSession(c, t) ==
    /\ call[c] = "none"
    /\ HasSchema(t)
    /\ want' = [want EXCEPT ![c] = registry[t].schema]
    /\ call' = [call EXCEPT ![c] = "acquire"]
    /\ Join(c)
    /\ UNCHANGED <<conns, registry>>

Acquired(c) ==
    /\ call[c] = "acquire"
    /\ Grant(c)
    /\ call' = [call EXCEPT ![c] = "set"]
    /\ UNCHANGED <<registry, want>>

AcquireFails(c) ==
    /\ call[c] = "acquire"
    /\ Leave(c)
    /\ call' = [call EXCEPT ![c] = "none"]
    /\ want' = [want EXCEPT ![c] = NULL]
    /\ UNCHANGED <<conns, registry>>

\* Mutant of SetPath: only a connection with the default path is set.
SetPathOnce(c) ==
    /\ call[c] = "set"
    /\ conns' = [k \in Conn |-> IF k \in HeldBy(c) /\ conns[k].path = DefaultPath
                                THEN [conns[k] EXCEPT !.path = want[c]] ELSE conns[k]]
    /\ call' = [call EXCEPT ![c] = "serving"]
    /\ UNCHANGED <<queue, registry, want>>

\* SET search_path TO "<schema>", public.
SetPath(c) ==
    /\ call[c] = "set"
    /\ conns' = [k \in Conn |-> IF k \in HeldBy(c)
                                THEN [conns[k] EXCEPT !.path = want[c]] ELSE conns[k]]
    /\ call' = [call EXCEPT ![c] = "serving"]
    /\ UNCHANGED <<queue, registry, want>>

\* Mutant of SetPathFails: the error path forgets conn.Release.
SetPathLeaks(c) ==
    /\ call[c] = "set"
    /\ call' = [call EXCEPT ![c] = "none"]
    /\ want' = [want EXCEPT ![c] = NULL]
    /\ UNCHANGED <<conns, queue, registry>>

SetPathFails(c) ==
    /\ call[c] = "set"
    /\ Release(c)
    /\ call' = [call EXCEPT ![c] = "none"]
    /\ want' = [want EXCEPT ![c] = NULL]
    /\ UNCHANGED <<queue, registry>>

ReleaseSession(c) ==
    /\ call[c] = "serving"
    /\ Release(c)
    /\ call' = [call EXCEPT ![c] = "none"]
    /\ want' = [want EXCEPT ![c] = NULL]
    /\ UNCHANGED <<queue, registry>>

\* The backend changes a tenant: subscription, schema, deactivation.
RegistryChanges ==
    /\ \E t \in Tenant, r \in Rows : registry' = [registry EXCEPT ![t] = r]
    /\ UNCHANGED <<call, want, poolVars>>

\* The steps of a call under way that do not wait for anybody's decision.
SessionProceeds(c) == Acquired(c) \/ SetPath(c) \/ SetPathFails(c) \/ ReleaseSession(c)

SessionNext ==
    \/ \E c \in Client :
        \/ \E t \in Tenant : GetSession(c, t)
        \/ AcquireFails(c) \/ SessionProceeds(c)
    \/ RegistryChanges

-----------------------------------------------------------------------------
\* A session's connection has the search_path of the schema this call looked
\* up, whoever had the connection before and whatever they set.
ServesLookedUp ==
    \A c \in Client : call[c] = "serving" =>
        /\ HeldBy(c) # {}
        /\ \A k \in HeldBy(c) : conns[k].path = want[c]

\* Every call of GetSession that waits for a connection gets one or an error.
SessionAnswered == \A c \in Client : call[c] = "acquire" ~> call[c] # "acquire"
=============================================================================
