------------------------- MODULE ProvisioningProofs -------------------------
(***************************************************************************)
(* Theorems about Provisioning for every set of tenants, runs, slugs and   *)
(* module lists.                                                           *)
(*                                                                         *)
(* That the registry gives no schema to two tenants rests on three facts:  *)
(* slugs are unique (the UNIQUE constraint), every recorded schema ends in *)
(* the slug of its tenant, and a run under way that finds its tenant       *)
(* registered registered it itself, with the slug the run computed.  The   *)
(* last is what a run's schema names depend on: the script never reads the *)
(* slug back from the registry.                                            *)
(***************************************************************************)
EXTENDS Provisioning, SequenceTheorems, WellFoundedInduction, TLAPS

SlugsUnique ==
    \A t, u \in Tenant :
        Known(registry, t) /\ Known(registry, u) /\ t # u
            => registry[t].slug # registry[u].slug

SchemasEndInSlug ==
    \A t \in Tenant, m \in Module :
        HasModule(registry, t, m)
            => registry[t].schema[m][2] = registry[t].slug

RunsKeepTheirSlug ==
    \A r \in Run :
        Known(registry, r) /\ pc[r] \notin {"done", "aborted"}
            => registry[r].slug = slug[r]

\* A run between the head of the loop and its end has a module it knows.
AtModule ==
    \A r \in Run : pc[r] \in {"subscribe", "probe", "ensure", "success", "failed"}
        => todo[r] # << >> /\ Current(r) \in Module

TypeInv == TypeOK /\ AtModule
RegistryInv == SlugsUnique /\ SchemasEndInSlug /\ RunsKeepTheirSlug

-----------------------------------------------------------------------------
(* What the procedures do to the two tables.                               *)

\* A mark keeps the log a log.
LEMMA MarkedType ==
    ASSUME NEW l \in Seq(LogRow), NEW t, NEW m,
           NEW status \in {"pending", "success", "failed"}
    PROVE  Marked(l, t, m, status) \in Seq(LogRow)
<1>1. ASSUME NEW x
      PROVE  [l EXCEPT ![x].status = status] \in Seq(LogRow)
  <2>1. CASE x \in 1..Len(l)
    <3>1. l[x] \in LogRow
      BY <2>1, ElementOfSeq
    <3>2. [l[x] EXCEPT !.status = status] \in LogRow
      BY <3>1 DEF LogRow
    <3> QED BY <2>1, <3>2, ExceptSeq
  <2>2. CASE x \notin 1..Len(l)
    <3>1. [l EXCEPT ![x].status = status] = l
      BY <2>2, LenProperties
    <3> QED BY <3>1
  <2> QED BY <2>1, <2>2
<1>2. CASE Markable(l, t, m) = {}
  BY <1>2 DEF Marked
<1>3. CASE Markable(l, t, m) # {}
  BY <1>1, <1>3 DEF Marked
<1> QED BY <1>2, <1>3

\* A new log row is one.
LEMMA PendingType ==
    ASSUME NEW t \in Tenant, NEW m \in Module, NEW name \in SchemaName
    PROVE  Pending(t, m, name) \in LogRow
BY DEF Pending, LogRow

\* register_tenant keeps the table a table of tenants.
LEMMA RegisteredType ==
    ASSUME NEW reg \in [Tenant -> RegistryRow \cup {NoRow}],
           NEW t \in Tenant, NEW s \in Slug, ~RegisterRaises(reg, t, s)
    PROVE  Registered(reg, t, s) \in [Tenant -> RegistryRow \cup {NoRow}]
BY DEF Registered, RegisterRaises, SlugFree, RegistryRow

\* The row it adds has the slug given, which was free, and no schema.
LEMMA RegisteredNew ==
    ASSUME NEW reg \in [Tenant -> RegistryRow \cup {NoRow}],
           NEW t \in Tenant, NEW s, ~RegisterRaises(reg, t, s), ~Known(reg, t)
    PROVE  /\ SlugFree(reg, s)
           /\ Registered(reg, t, s)[t] = [slug |-> s, schema |-> [m \in Module |-> NULL]]
BY DEF Registered, RegisterRaises

\* register_tenant leaves the row of a known tenant, and of any other, alone.
LEMMA RegisteredKnown ==
    ASSUME NEW reg, NEW t, NEW s, Known(reg, t)
    PROVE  Registered(reg, t, s) = reg
BY DEF Registered

LEMMA RegisteredOther ==
    ASSUME NEW reg \in [Tenant -> RegistryRow \cup {NoRow}],
           NEW t, NEW s, NEW u \in Tenant, u # t
    PROVE  Registered(reg, t, s)[u] = reg[u]
BY DEF Registered

\* subscribe_tenant_to_module sets one schema of one known tenant.
LEMMA SubscribedEffect ==
    ASSUME NEW reg \in [Tenant -> RegistryRow \cup {NoRow}],
           NEW t \in Tenant, NEW m \in Module, NEW name \in SchemaName,
           Known(reg, t)
    PROVE  /\ Subscribed(reg, t, m, name) \in [Tenant -> RegistryRow \cup {NoRow}]
           /\ \A u \in Tenant : u # t => Subscribed(reg, t, m, name)[u] = reg[u]
           /\ Subscribed(reg, t, m, name)[t].slug = reg[t].slug
           /\ \A k \in Module : Subscribed(reg, t, m, name)[t].schema[k]
                = IF k = m THEN name ELSE reg[t].schema[k]
           /\ Subscribed(reg, t, m, name)[t] \in RegistryRow
BY DEF Subscribed, RegistryRow, Known

-----------------------------------------------------------------------------
(* Types.                                                                  *)

\* A run's schema name is a prefix and its slug.
LEMMA SchemaOfType ==
    ASSUME TypeOK, NEW r \in Run
    PROVE  SchemaOf(r) \in SchemaName /\ SchemaOf(r)[2] = slug[r]
BY DEF SchemaOf, SchemaName, TypeOK

\* The default schema name is the module and the slug.
LEMMA DefaultSchemaType ==
    ASSUME TypeOK, NEW t \in Tenant, NEW m \in Module, Known(registry, t)
    PROVE  /\ DefaultSchema(registry, t, m) \in SchemaName
           /\ DefaultSchema(registry, t, m)[2] = registry[t].slug
BY SlugAssumption DEF DefaultSchema, SchemaName, TypeOK, RegistryRow, Known, Module

\* Every step keeps the state well-typed and the runs on a module they know.
LEMMA TypeInvStep == TypeInv /\ [Next]_vars => TypeInv'
<1> USE RunAssumption
<1> SUFFICES ASSUME TypeInv, [Next]_vars PROVE TypeInv'
  OBVIOUS
<1>1. ASSUME NEW r \in Run, Start(r) \/ Probe(r) \/ Abort(r)
      PROVE  TypeInv'
  BY <1>1 DEF TypeInv, TypeOK, AtModule, Current, Start, Probe, Abort, Goto, Active
<1>2. ASSUME NEW r \in Run, Register(r) PROVE TypeInv'
  <2>1. registry' \in [Tenant -> RegistryRow \cup {NoRow}]
    BY <1>2, RunAssumption, RegisteredType DEF TypeInv, TypeOK, Register
  <2> QED
    BY <1>2, <2>1 DEF TypeInv, TypeOK, AtModule, Current, Register, Goto, Active
<1>3. ASSUME NEW r \in Run, NextModule(r) PROVE TypeInv'
  <2>1. todo' \in [Run -> Seq(Module \cup {"inventory"})]
    <3>1. todo[r] \in Seq(Module \cup {"inventory"})
      BY DEF TypeInv, TypeOK
    <3>2. todo[r] # << >> => Tail(todo[r]) \in Seq(Module \cup {"inventory"})
      BY <3>1
    <3>3. \/ todo' = todo
          \/ todo[r] # << >> /\ todo' = [todo EXCEPT ![r] = Tail(todo[r])]
      BY <1>3 DEF NextModule
    <3> QED BY <3>2, <3>3 DEF TypeInv, TypeOK
  <2> QED
    BY <1>3, <2>1 DEF TypeInv, TypeOK, AtModule, Current, NextModule, Goto, Active
<1>4. ASSUME NEW r \in Run, Subscribe(r) PROVE TypeInv'
  <2>1. SchemaOf(r) \in SchemaName /\ Current(r) \in Module
    BY <1>4, SchemaOfType DEF TypeInv, AtModule, Subscribe
  <2>2. registry' \in [Tenant -> RegistryRow \cup {NoRow}]
    <3>1. registry \in [Tenant -> RegistryRow \cup {NoRow}]
      BY DEF TypeInv, TypeOK
    <3>2. CASE Known(registry, r)
      <4>1. Subscribed(registry, r, Current(r), SchemaOf(r))
                \in [Tenant -> RegistryRow \cup {NoRow}]
        BY <2>1, <3>1, <3>2, SubscribedEffect
      <4> QED BY <1>4, <3>2, <4>1 DEF Subscribe
    <3>3. CASE ~Known(registry, r)
      BY <1>4, <3>1, <3>3 DEF Subscribe, tables
    <3> QED BY <3>2, <3>3
  <2>3. log' \in Seq(LogRow)
    <3>1. Pending(r, Current(r), SchemaOf(r)) \in LogRow /\ log \in Seq(LogRow)
      BY <2>1, PendingType DEF TypeInv, TypeOK
    <3>2. log' \in {log, Append(log, Pending(r, Current(r), SchemaOf(r)))}
      BY <1>4 DEF Subscribe, tables
    <3> QED BY <3>1, <3>2
  <2> QED
    BY <1>4, <2>2, <2>3 DEF TypeInv, TypeOK, AtModule, Current, Subscribe, Goto, Active
<1>5. ASSUME NEW r \in Run, Ensure(r) PROVE TypeInv'
  <2>1. SchemaOf(r) \in SchemaName /\ Current(r) \in Module
    BY <1>5, SchemaOfType DEF TypeInv, AtModule, Ensure
  <2>2. ensured' \subseteq Tenant \X Module \X SchemaName
    BY <1>5, <2>1 DEF TypeInv, TypeOK, Ensure
  <2> QED
    BY <1>5, <2>2 DEF TypeInv, TypeOK, AtModule, Current, Ensure, Goto, Active
<1>6. ASSUME NEW r \in Run, Mark(r) PROVE TypeInv'
  <2>1. log' \in Seq(LogRow)
    BY <1>6, MarkedType DEF TypeInv, TypeOK, Mark
  <2>2. todo' \in [Run -> Seq(Module \cup {"inventory"})]
    BY <1>6 DEF TypeInv, TypeOK, AtModule, Mark
  <2> QED
    BY <1>6, <2>1, <2>2 DEF TypeInv, TypeOK, AtModule, Current, Mark, Goto, Active
<1>7. ASSUME NEW t \in Tenant, NEW s \in Slug, CallRegister(t, s) PROVE TypeInv'
  <2>1. registry' \in [Tenant -> RegistryRow \cup {NoRow}]
    BY <1>7, RegisteredType DEF TypeInv, TypeOK, CallRegister
  <2> QED BY <1>7, <2>1 DEF TypeInv, TypeOK, AtModule, Current, CallRegister
<1>8. ASSUME NEW t \in Tenant, NEW m \in Module, CallSubscribe(t, m) PROVE TypeInv'
  <2>1. DefaultSchema(registry, t, m) \in SchemaName
    BY <1>8, DefaultSchemaType DEF TypeInv, CallSubscribe
  <2>2. registry' \in [Tenant -> RegistryRow \cup {NoRow}]
    BY <1>8, <2>1, SubscribedEffect DEF TypeInv, TypeOK, CallSubscribe
  <2>3. log' \in Seq(LogRow)
    BY <1>8, <2>1, PendingType DEF TypeInv, TypeOK, CallSubscribe
  <2> QED BY <1>8, <2>2, <2>3 DEF TypeInv, TypeOK, AtModule, Current, CallSubscribe
<1>9. ASSUME NEW t \in Tenant, NEW m \in Module, CallEnsure(t, m) PROVE TypeInv'
  <2>1. TenantSchema(registry, t, m) \in SchemaName
    BY <1>9 DEF TypeInv, TypeOK, CallEnsure, HasModule, TenantSchema, Known, RegistryRow
  <2> QED BY <1>9, <2>1 DEF TypeInv, TypeOK, AtModule, Current, CallEnsure
<1>10. ASSUME NEW t \in Tenant, NEW m \in Module, NEW status \in {"success", "failed"},
              CallMark(t, m, status)
       PROVE  TypeInv'
  <2>1. log' \in Seq(LogRow)
    BY <1>10, MarkedType DEF TypeInv, TypeOK, CallMark
  <2> QED BY <1>10, <2>1 DEF TypeInv, TypeOK, AtModule, Current, CallMark
<1>11. CASE UNCHANGED vars
  BY <1>11 DEF TypeInv, TypeOK, AtModule, Current, vars
<1> QED
  BY <1>1, <1>2, <1>3, <1>4, <1>5, <1>6, <1>7, <1>8, <1>9, <1>10, <1>11
  DEF Next, Script, Calls

\* Every step of the script and every call by hand keeps the types
\* and the runs in their loops.
LEMMA TypeInvHolds == Spec => []TypeInv
<1>1. Init => TypeInv
  <2> SUFFICES ASSUME Init PROVE TypeInv
    OBVIOUS
  <2>1. log \in Seq(LogRow)
    BY EmptySeq DEF Init
  <2>2. todo \in [Run -> Seq(Module \cup {"inventory"})]
    BY PlansAssumption DEF Init
  <2> QED BY <2>1, <2>2 DEF Init, TypeInv, TypeOK, AtModule
<1> QED BY <1>1, TypeInvStep, PTL DEF Spec

\* Registry, log, calls and runs keep their types, whatever happens.
THEOREM ProvisioningTyped == Spec => []TypeOK
<1>1. TypeInv => TypeOK
  BY DEF TypeInv
<1> QED BY <1>1, TypeInvHolds, PTL

-----------------------------------------------------------------------------
(* No schema for two tenants.                                              *)

\* What a step that registers t with slug s must respect.
LEMMA RegisterKeeps ==
    ASSUME TypeOK, RegistryInv, NEW t \in Tenant, NEW s \in Slug,
           ~RegisterRaises(registry, t, s),
           registry' = Registered(registry, t, s),
           slug' = slug,
           \A r \in Run : pc'[r] \notin {"done", "aborted"}
                            => pc[r] \notin {"done", "aborted"},
           t \in Run /\ pc[t] \notin {"done", "aborted"} => s = slug[t]
    PROVE  RegistryInv'
<1>1. \A u \in Tenant : u # t => registry'[u] = registry[u]
  <2>1. registry \in [Tenant -> RegistryRow \cup {NoRow}]
    BY DEF TypeOK
  <2>2. ASSUME NEW u \in Tenant, u # t PROVE Registered(registry, t, s)[u] = registry[u]
    BY <2>1, <2>2, RegisteredOther
  <2> QED BY <2>2
<1>2. CASE Known(registry, t)
  <2>1. Registered(registry, t, s) = registry
    BY <1>2, RegisteredKnown
  <2>2. registry' = registry
    BY <2>1
  <2> QED
    BY <2>2 DEF RegistryInv, SlugsUnique, SchemasEndInSlug, RunsKeepTheirSlug,
                HasModule, TenantSchema, Known
<1>3. CASE ~Known(registry, t)
  <2>1. /\ SlugFree(registry, s)
        /\ registry'[t] = [slug |-> s, schema |-> [m \in Module |-> NULL]]
    <3>1. registry \in [Tenant -> RegistryRow \cup {NoRow}]
      BY DEF TypeOK
    <3>2. /\ SlugFree(registry, s)
          /\ Registered(registry, t, s)[t]
                = [slug |-> s, schema |-> [m \in Module |-> NULL]]
      BY <1>3, <3>1, RegisteredNew
    <3> QED BY <3>2
  <2>2. SlugsUnique'
    BY <1>1, <2>1 DEF RegistryInv, SlugsUnique, SlugFree, Known
  <2>3. SchemasEndInSlug'
    BY <1>1, <2>1 DEF RegistryInv, SchemasEndInSlug, HasModule, TenantSchema, Known
  <2>4. RunsKeepTheirSlug'
    BY <1>1, <2>1, RunAssumption DEF RegistryInv, RunsKeepTheirSlug, Known
  <2> QED BY <2>2, <2>3, <2>4 DEF RegistryInv
<1> QED BY <1>2, <1>3

\* What a step that subscribes t to m under a name must respect.
LEMMA SubscribeKeeps ==
    ASSUME TypeOK, RegistryInv, NEW t \in Tenant, NEW m \in Module,
           NEW name \in SchemaName,
           Known(registry, t), name[2] = registry[t].slug,
           registry' = Subscribed(registry, t, m, name),
           slug' = slug,
           \A r \in Run : pc'[r] \notin {"done", "aborted"}
                            => pc[r] \notin {"done", "aborted"}
    PROVE  RegistryInv'
<1>1. /\ \A u \in Tenant : u # t => registry'[u] = registry[u]
      /\ registry'[t].slug = registry[t].slug
      /\ \A k \in Module : registry'[t].schema[k]
            = IF k = m THEN name ELSE registry[t].schema[k]
  BY SubscribedEffect DEF TypeOK
<1>2. ASSUME NEW u \in Tenant, Known(registry', u) PROVE Known(registry, u)
  <2>1. CASE u = t
    BY <2>1
  <2>2. CASE u # t
    BY <1>1, <1>2, <2>2 DEF Known
  <2> QED BY <2>1, <2>2
<1>3. ASSUME NEW u \in Tenant PROVE registry'[u].slug = registry[u].slug
  <2>1. CASE u = t
    BY <1>1, <2>1
  <2>2. CASE u # t
    BY <1>1, <2>2
  <2> QED BY <2>1, <2>2
<1>4. SlugsUnique'
  BY <1>2, <1>3 DEF RegistryInv, SlugsUnique
<1>5. SchemasEndInSlug'
  BY <1>1, <1>2 DEF RegistryInv, SchemasEndInSlug, HasModule, TenantSchema, Known
<1>6. RunsKeepTheirSlug'
  BY <1>2, <1>3, RunAssumption DEF RegistryInv, RunsKeepTheirSlug
<1> QED BY <1>4, <1>5, <1>6 DEF RegistryInv

LEMMA RegistryInvStep == TypeInv /\ RegistryInv /\ [Next]_vars => RegistryInv'
<1> SUFFICES ASSUME TypeInv, RegistryInv, [Next]_vars PROVE RegistryInv'
  OBVIOUS
<1> USE DEF TypeInv
\* A step that leaves the registry alone ends runs at most.
<1>1. ASSUME UNCHANGED <<registry, slug>>,
             \A r \in Run : pc'[r] \notin {"done", "aborted"}
                              => pc[r] \notin {"done", "aborted"}
      PROVE  RegistryInv'
  BY <1>1 DEF RegistryInv, SlugsUnique, SchemasEndInSlug, RunsKeepTheirSlug,
              HasModule, TenantSchema, Known
<1>2. ASSUME NEW r \in Run,
             \/ Start(r) \/ NextModule(r) \/ Probe(r) \/ Ensure(r) \/ Mark(r) \/ Abort(r)
      PROVE  RegistryInv'
  BY <1>1, <1>2
  DEF TypeOK, Start, NextModule, Probe, Ensure, Mark, Abort, Goto, Active
<1>3. ASSUME NEW r \in Run, Register(r) PROVE RegistryInv'
  <2>1. /\ slug' = slug /\ r \in Tenant /\ slug[r] \in Slug
        /\ \A q \in Run : pc'[q] \notin {"done", "aborted"}
                            => pc[q] \notin {"done", "aborted"}
    BY <1>3, RunAssumption DEF TypeOK, Register, Goto
  <2>2. CASE RegisterRaises(registry, r, slug[r])
    BY <1>1, <1>3, <2>1, <2>2 DEF Register
  <2>3. CASE ~RegisterRaises(registry, r, slug[r])
    BY <1>3, <2>1, <2>3, RegisterKeeps DEF Register
  <2> QED BY <2>2, <2>3
<1>4. ASSUME NEW r \in Run, Subscribe(r) PROVE RegistryInv'
  <2>1. /\ slug' = slug /\ r \in Tenant /\ pc[r] = "subscribe"
        /\ \A q \in Run : pc'[q] \notin {"done", "aborted"}
                            => pc[q] \notin {"done", "aborted"}
    BY <1>4, RunAssumption DEF TypeOK, Subscribe, Goto
  <2>2. /\ SchemaOf(r) \in SchemaName /\ Current(r) \in Module
        /\ SchemaOf(r)[2] = slug[r]
    BY <2>1, SchemaOfType DEF AtModule
  <2>3. CASE ~Known(registry, r)
    BY <1>1, <1>4, <2>1, <2>3 DEF Subscribe, tables
  <2>4. CASE Known(registry, r)
    <3>1. registry[r].slug = slug[r]
      BY <2>1, <2>4 DEF RegistryInv, RunsKeepTheirSlug
    <3>2. registry' = Subscribed(registry, r, Current(r), SchemaOf(r))
      BY <1>4, <2>4 DEF Subscribe
    <3> QED BY <2>1, <2>2, <2>4, <3>1, <3>2, SubscribeKeeps
  <2> QED BY <2>3, <2>4
<1>5. ASSUME NEW t \in Tenant, NEW s \in Slug, ByHand(t), CallRegister(t, s)
      PROVE  RegistryInv'
  BY <1>5, RegisterKeeps DEF CallRegister, ByHand
<1>6. ASSUME NEW t \in Tenant, NEW m \in Module, CallSubscribe(t, m)
      PROVE  RegistryInv'
  BY <1>6, DefaultSchemaType, SubscribeKeeps DEF CallSubscribe
<1>7. ASSUME NEW t \in Tenant, NEW m \in Module,
             CallEnsure(t, m) \/ \E status \in {"success", "failed"} : CallMark(t, m, status)
      PROVE  RegistryInv'
  BY <1>1, <1>7 DEF CallEnsure, CallMark
<1>8. CASE UNCHANGED vars
  BY <1>1, <1>8 DEF vars
<1> QED
  BY <1>2, <1>3, <1>4, <1>5, <1>6, <1>7, <1>8 DEF Next, Script, Calls

\* However many runs and callers there are and whatever names they give, the
\* registry never records one schema for two tenants.
THEOREM SchemasDedicated == Spec => []RegistryDedicated
<1>1. Init => RegistryInv
  BY RunAssumption
  DEF Init, RegistryInv, SlugsUnique, SchemasEndInSlug, RunsKeepTheirSlug,
      HasModule, TenantSchema, Known
<1>2. RegistryInv => RegistryDedicated
  <2> SUFFICES ASSUME RegistryInv, NEW t \in Tenant, NEW u \in Tenant,
                      NEW m \in Module, t # u, HasModule(registry, t, m),
                      TenantSchema(registry, t, m) = TenantSchema(registry, u, m)
               PROVE  FALSE
    BY DEF RegistryDedicated
  <2>1. HasModule(registry, u, m)
    BY DEF HasModule
  <2>2. Known(registry, t) /\ Known(registry, u)
    BY <2>1 DEF HasModule, TenantSchema
  <2>3. registry[t].schema[m] = registry[u].schema[m]
    BY <2>2 DEF TenantSchema
  <2>4. registry[t].slug = registry[u].slug
    BY <2>1, <2>3 DEF RegistryInv, SchemasEndInSlug
  <2> QED BY <2>2, <2>4 DEF RegistryInv, SlugsUnique
<1> QED BY <1>1, <1>2, TypeInvHolds, RegistryInvStep, PTL DEF Spec

-----------------------------------------------------------------------------
(* The log.                                                                *)

\* A set of row numbers has a last one.
LEMMA LatestExists ==
    ASSUME NEW n \in Nat, NEW S \in SUBSET (1..n), S # {}
    PROVE  \E i \in S : \A j \in S : j <= i
<1> DEFINE Less == {p \in Nat \X Nat : p[1] < p[2]}
           T == {n - i : i \in S}
<1>1. IsWellFoundedOn(Less, Nat)
  BY NatLessThanWellFounded DEF OpToRel
<1>2. T \in SUBSET Nat
  <2>1. ASSUME NEW i \in S PROVE n - i \in Nat
    OBVIOUS
  <2> QED BY <2>1
<1>3. T # {}
  <2>1. PICK i : i \in S
    OBVIOUS
  <2>2. n - i \in T
    BY <2>1
  <2> QED BY <2>2
<1> HIDE DEF Less, T
<1>4. PICK x \in T : \A y \in T : <<y, x>> \notin Less
  BY <1>1, <1>2, <1>3, WFMin
<1>5. PICK i \in S : x = n - i
  BY DEF T
<1>6. ASSUME NEW j \in S PROVE j <= i
  <2>1. n - j \in T
    BY DEF T
  <2>2. n - j \in Nat /\ n - i \in Nat /\ ~(n - j < n - i)
    BY <1>2, <1>4, <1>5, <2>1 DEF Less
  <2> QED BY <2>2
<1> QED BY <1>6

\* mark_module_provisioned keeps the log's length and its rows, but for the
\* status of at most one pending row of that tenant and module.
LEMMA MarkedRows ==
    ASSUME NEW l \in Seq(LogRow), NEW t \in Tenant, NEW m \in Module,
           NEW status \in {"success", "failed"}
    PROVE  /\ Len(Marked(l, t, m, status)) = Len(l)
           /\ \A i \in 1..Len(l) :
                /\ Marked(l, t, m, status)[i].tenant = l[i].tenant
                /\ Marked(l, t, m, status)[i].module = l[i].module
                /\ Marked(l, t, m, status)[i].schema = l[i].schema
                /\ \/ Marked(l, t, m, status)[i] = l[i]
                   \/ /\ i \in Markable(l, t, m)
                      /\ Marked(l, t, m, status)[i].status = status
<1>1. CASE Markable(l, t, m) = {}
  <2>1. Marked(l, t, m, status) = l
    BY <1>1 DEF Marked
  <2> QED BY <2>1
<1>2. CASE Markable(l, t, m) # {}
  <2> DEFINE x == CHOOSE i \in Markable(l, t, m) : \A j \in Markable(l, t, m) : j <= i
             new == [l[x] EXCEPT !.status = status]
  <2>1. Markable(l, t, m) \in SUBSET (1..Len(l)) /\ Len(l) \in Nat
    BY DEF Markable
  <2>2. \E i \in Markable(l, t, m) : \A j \in Markable(l, t, m) : j <= i
    BY <1>2, <2>1, LatestExists
  <2>3. x \in Markable(l, t, m)
    BY <2>2
  <2>4. Marked(l, t, m, status) = [l EXCEPT ![x] = new]
    BY <1>2 DEF Marked
  <2>5. x \in 1..Len(l)
    BY <2>1, <2>3
  <2> HIDE DEF x
  <2>6. /\ l[x] \in LogRow /\ new \in LogRow
        /\ new.tenant = l[x].tenant /\ new.module = l[x].module
        /\ new.schema = l[x].schema /\ new.status = status
    <3>1. l[x] \in LogRow
      BY <2>5, ElementOfSeq
    <3> QED BY <3>1 DEF LogRow
  <2> HIDE DEF new
  <2>7. /\ Len([l EXCEPT ![x] = new]) = Len(l)
        /\ \A i \in 1..Len(l) : [l EXCEPT ![x] = new][i] = IF i = x THEN new ELSE l[i]
    BY <2>5, <2>6, ExceptSeq
  <2> QED BY <2>3, <2>4, <2>6, <2>7
<1> QED BY <1>1, <1>2

\* What any step does to the two tables: nothing, or a call of one of the
\* three procedures.
Registers ==
    /\ log' = log
    /\ \E t \in Tenant, s \in Slug :
          /\ ~RegisterRaises(registry, t, s)
          /\ registry' = Registered(registry, t, s)
Subscribes ==
    \E t \in Tenant, m \in Module, name \in SchemaName :
        /\ Known(registry, t)
        /\ registry' = Subscribed(registry, t, m, name)
        /\ log' = Append(log, Pending(t, m, name))
Marks ==
    /\ registry' = registry
    /\ \E t \in Tenant, m \in Module, status \in {"success", "failed"} :
          log' = Marked(log, t, m, status)
TableStep == UNCHANGED tables \/ Registers \/ Subscribes \/ Marks

LEMMA EveryTableStep == TypeInv /\ [Next]_vars => TableStep
<1> USE RunAssumption
<1> SUFFICES ASSUME TypeInv, [Next]_vars PROVE TableStep
  OBVIOUS
<1>1. ASSUME NEW r \in Run,
             Start(r) \/ NextModule(r) \/ Probe(r) \/ Ensure(r) \/ Abort(r)
      PROVE  TableStep
  <2>1. registry' = registry /\ log' = log
    BY <1>1 DEF Start, NextModule, Probe, Ensure, Abort
  <2> QED BY <2>1 DEF TableStep, tables
<1>2. ASSUME NEW r \in Run, Register(r) PROVE TableStep
  <2>1. slug[r] \in Slug /\ r \in Tenant
    BY DEF TypeInv, TypeOK
  <2> QED BY <1>2, <2>1 DEF Register, TableStep, Registers, tables
<1>3. ASSUME NEW r \in Run, Subscribe(r) PROVE TableStep
  <2>1. SchemaOf(r) \in SchemaName /\ Current(r) \in Module /\ r \in Tenant
    BY <1>3, SchemaOfType DEF TypeInv, AtModule, Subscribe
  <2> QED BY <1>3, <2>1 DEF Subscribe, TableStep, Subscribes, tables
<1>4. ASSUME NEW r \in Run, Mark(r) PROVE TableStep
  <2>1. Current(r) \in Module /\ r \in Tenant /\ pc[r] \in {"success", "failed"}
    BY <1>4 DEF TypeInv, AtModule, Mark
  <2> QED BY <1>4, <2>1 DEF Mark, TableStep, Marks
<1>5. ASSUME NEW t \in Tenant, NEW s \in Slug, CallRegister(t, s) PROVE TableStep
  BY <1>5 DEF CallRegister, TableStep, Registers
<1>6. ASSUME NEW t \in Tenant, NEW m \in Module, CallSubscribe(t, m) PROVE TableStep
  <2>1. DefaultSchema(registry, t, m) \in SchemaName
    BY <1>6, DefaultSchemaType DEF TypeInv, CallSubscribe
  <2> QED BY <1>6, <2>1 DEF CallSubscribe, TableStep, Subscribes
<1>7. ASSUME NEW t \in Tenant, NEW m \in Module, CallEnsure(t, m) PROVE TableStep
  BY <1>7 DEF CallEnsure, TableStep, tables
<1>8. ASSUME NEW t \in Tenant, NEW m \in Module, NEW status \in {"success", "failed"},
             CallMark(t, m, status)
      PROVE  TableStep
  BY <1>8 DEF CallMark, TableStep, Marks
<1>9. CASE UNCHANGED vars
  BY <1>9 DEF vars, TableStep, tables
<1> QED
  BY <1>1, <1>2, <1>3, <1>4, <1>5, <1>6, <1>7, <1>8, <1>9 DEF Next, Script, Calls

\* Rows of the log stay, and a settled row is never rewritten, by whichever
\* run or call.
THEOREM SettledRowsStay == Spec => SettledStays
<1>1. ASSUME TypeInv, [Next]_vars PROVE SettledStep
  <2>1. log \in Seq(LogRow)
    BY <1>1 DEF TypeInv, TypeOK
  <2>2. CASE log' = log
    BY <2>1, <2>2 DEF SettledStep
  <2>3. ASSUME NEW row, log' = Append(log, row) PROVE SettledStep
    BY <2>1, <2>3 DEF SettledStep
  <2>4. ASSUME NEW t \in Tenant, NEW m \in Module, NEW status \in {"success", "failed"},
               log' = Marked(log, t, m, status)
        PROVE  SettledStep
    <3>1. /\ Len(log') = Len(log)
          /\ \A i \in 1..Len(log) : log'[i] = log[i] \/ i \in Markable(log, t, m)
      BY <2>1, <2>4, MarkedRows
    <3> QED BY <2>1, <3>1 DEF SettledStep, Markable
  <2> QED
    BY <1>1, <2>2, <2>3, <2>4, EveryTableStep
    DEF TableStep, tables, Registers, Subscribes, Marks
<1>2. TypeInv /\ [Next]_vars => [SettledStep]_vars
  BY <1>1
<1> QED BY <1>2, TypeInvHolds, PTL DEF Spec, SettledStays

\* For one tenant and module, the newest row names the recorded schema.
NewestNames(t, m) ==
    IF RowsOf(t, m) = {} THEN ~HasModule(registry, t, m)
    ELSE \E i \in RowsOf(t, m) : /\ \A j \in RowsOf(t, m) : j <= i
                                 /\ TenantSchema(registry, t, m) = log[i].schema

LEMMA NewestNamesStep ==
    ASSUME TypeInv, TableStep, NEW t \in Tenant, NEW m \in Module, NewestNames(t, m)
    PROVE  NewestNames(t, m)'
<1>0. /\ registry \in [Tenant -> RegistryRow \cup {NoRow}]
      /\ log \in Seq(LogRow) /\ Len(log) \in Nat
  BY DEF TypeInv, TypeOK
<1>1. ASSUME log' = log, TenantSchema(registry', t, m) = TenantSchema(registry, t, m)
      PROVE  NewestNames(t, m)'
  BY <1>1 DEF NewestNames, RowsOf, HasModule
<1>2. CASE UNCHANGED tables
  BY <1>1, <1>2 DEF tables
<1>3. CASE Registers
  <2>1. PICK u \in Tenant, s \in Slug : /\ ~RegisterRaises(registry, u, s)
                                        /\ registry' = Registered(registry, u, s)
    BY <1>3 DEF Registers
  <2>2. CASE Known(registry, u) \/ u # t
    <3>1. registry'[t] = registry[t]
      <4>1. CASE Known(registry, u)
        BY <2>1, <4>1, RegisteredKnown
      <4>2. CASE u # t
        BY <1>0, <2>1, <4>2, RegisteredOther
      <4> QED BY <2>2, <4>1, <4>2
    <3>2. TenantSchema(registry', t, m) = TenantSchema(registry, t, m)
      BY <3>1 DEF TenantSchema, Known
    <3> QED BY <1>1, <1>3, <3>2 DEF Registers
  <2>3. CASE ~Known(registry, u) /\ u = t
    <3>1. registry'[t] = [slug |-> s, schema |-> [k \in Module |-> NULL]]
      BY <1>0, <2>1, <2>3, RegisteredNew
    <3>2. TenantSchema(registry', t, m) = NULL /\ TenantSchema(registry, t, m) = NULL
      BY <2>3, <3>1 DEF TenantSchema
    <3> QED BY <1>1, <1>3, <3>2 DEF Registers
  <2> QED BY <2>2, <2>3
<1>4. CASE Subscribes
  <2>1. PICK u \in Tenant, k \in Module, name \in SchemaName :
            /\ Known(registry, u)
            /\ registry' = Subscribed(registry, u, k, name)
            /\ log' = Append(log, Pending(u, k, name))
    BY <1>4 DEF Subscribes
  <2>2. /\ Len(log') = Len(log) + 1
        /\ \A i \in 1..Len(log) : log'[i] = log[i]
        /\ log'[Len(log) + 1] = Pending(u, k, name)
    BY <1>0, <2>1
  <2>3. /\ \A v \in Tenant : v # u => registry'[v] = registry[v]
        /\ \A l \in Module : registry'[u].schema[l]
                = IF l = k THEN name ELSE registry[u].schema[l]
        /\ registry'[u] \in RegistryRow
    BY <1>0, <2>1, SubscribedEffect
  <2>4. CASE u = t /\ k = m
    <3>1. Len(log) + 1 \in RowsOf(t, m)' /\ \A j \in RowsOf(t, m)' : j <= Len(log) + 1
      BY <1>0, <2>2, <2>4 DEF RowsOf, Pending
    <3>2. Known(registry', t)
      BY <2>3, <2>4, NoRowAssumption DEF Known
    <3>3. TenantSchema(registry', t, m) = name
      BY <2>3, <2>4, <3>2 DEF TenantSchema
    <3>4. log'[Len(log) + 1].schema = name
      BY <2>2 DEF Pending
    <3> QED BY <3>1, <3>3, <3>4 DEF NewestNames
  <2>5. CASE ~(u = t /\ k = m)
    <3>1. RowsOf(t, m)' = RowsOf(t, m)
      BY <1>0, <2>2, <2>5 DEF RowsOf, Pending
    <3>2. TenantSchema(registry', t, m) = TenantSchema(registry, t, m)
      <4>1. CASE u = t
        <5>1. Known(registry', t) /\ Known(registry, t)
          BY <2>1, <2>3, <4>1, NoRowAssumption DEF Known
        <5> QED BY <2>3, <2>5, <4>1, <5>1 DEF TenantSchema
      <4>2. CASE u # t
        BY <2>3, <4>2 DEF TenantSchema, Known
      <4> QED BY <4>1, <4>2
    <3>3. \A i \in RowsOf(t, m) : log'[i] = log[i]
      BY <2>2 DEF RowsOf
    <3> QED BY <3>1, <3>2, <3>3 DEF NewestNames, HasModule
  <2> QED BY <2>4, <2>5
<1>5. CASE Marks
  <2>1. PICK u \in Tenant, k \in Module, status \in {"success", "failed"} :
            log' = Marked(log, u, k, status)
    BY <1>5 DEF Marks
  <2>2. /\ Len(log') = Len(log)
        /\ \A i \in 1..Len(log) : /\ log'[i].tenant = log[i].tenant
                                  /\ log'[i].module = log[i].module
                                  /\ log'[i].schema = log[i].schema
    BY <1>0, <2>1, MarkedRows
  <2>3. RowsOf(t, m)' = RowsOf(t, m)
    BY <2>2 DEF RowsOf
  <2>4. \A i \in RowsOf(t, m) : log'[i].schema = log[i].schema
    BY <2>2 DEF RowsOf
  <2> QED BY <1>5, <2>3, <2>4 DEF NewestNames, HasModule, Marks
<1> QED BY <1>2, <1>3, <1>4, <1>5 DEF TableStep

\* The registry and the log tell the same story about every tenant.
THEOREM LogTellsTheTruth == Spec => []LogMatchesRegistry
<1>1. LogMatchesRegistry <=> \A t \in Tenant, m \in Module : NewestNames(t, m)
  BY DEF LogMatchesRegistry, NewestNames
<1>2. Init => LogMatchesRegistry
  BY DEF Init, LogMatchesRegistry, RowsOf, HasModule, TenantSchema, Known
<1>3. TypeInv /\ LogMatchesRegistry /\ [Next]_vars => LogMatchesRegistry'
  <2> SUFFICES ASSUME TypeInv, LogMatchesRegistry, [Next]_vars,
                      NEW t \in Tenant, NEW m \in Module
               PROVE  NewestNames(t, m)'
    BY DEF LogMatchesRegistry, NewestNames
  <2>1. TableStep /\ NewestNames(t, m)
    BY <1>1, EveryTableStep
  <2> QED BY <2>1, NewestNamesStep
<1> QED BY <1>2, <1>3, TypeInvHolds, PTL DEF Spec

-----------------------------------------------------------------------------
(* What a run leaves in the log.                                           *)

PendingOf(t) == {i \in 1..Len(log) : log[i].tenant = t /\ log[i].status = "pending"}

\* A run under way has at most one pending row: that of the module it is
\* provisioning.  It is what lets mark_module_provisioned, which takes the
\* newest pending row, find the run's own.
OnePending ==
    \A r \in Run : pc[r] \notin {"done", "aborted"} =>
        \A i, j \in PendingOf(r) :
            /\ i = j
            /\ pc[r] \in {"probe", "ensure", "success", "failed"}
            /\ log[i].module = Current(r)

\* A new row is pending for its tenant and for nobody else.
LEMMA PendingAppended ==
    ASSUME log \in Seq(LogRow), NEW t, NEW m, NEW name,
           log' = Append(log, Pending(t, m, name)), NEW u
    PROVE  /\ PendingOf(u)' = IF u = t THEN PendingOf(u) \cup {Len(log) + 1}
                              ELSE PendingOf(u)
           /\ \A i \in PendingOf(u) : log'[i] = log[i]
           /\ log'[Len(log) + 1].module = m
<1>1. /\ Len(log') = Len(log) + 1 /\ Len(log) \in Nat
      /\ \A i \in 1..Len(log) : log'[i] = log[i]
      /\ log'[Len(log) + 1] = Pending(t, m, name)
  OBVIOUS
<1> QED BY <1>1 DEF PendingOf, Pending

\* The only row a mark may settle is the one it settles.
LEMMA MarkedOnly ==
    ASSUME NEW l \in Seq(LogRow), NEW t \in Tenant, NEW m \in Module,
           NEW status \in {"success", "failed"}, NEW x, Markable(l, t, m) = {x}
    PROVE  Marked(l, t, m, status)[x].status = status
<1>1. x \in 1..Len(l) /\ x \in Nat
  BY DEF Markable
<1>2. l[x] \in LogRow
  BY <1>1, ElementOfSeq
<1>3. (CHOOSE i \in {x} : \A j \in {x} : j <= i) = x
  BY <1>1
<1>4. Marked(l, t, m, status) = [l EXCEPT ![x].status = status]
  BY <1>3 DEF Marked
<1>5. [l EXCEPT ![x].status = status][x] = [l[x] EXCEPT !.status = status]
  BY <1>1, LenProperties
<1> QED BY <1>2, <1>4, <1>5 DEF LogRow

\* A mark settles no row of another tenant and makes none pending; if its
\* tenant has one pending row for the module, that one is settled.
LEMMA PendingMarked ==
    ASSUME log \in Seq(LogRow), NEW t \in Tenant, NEW m \in Module,
           NEW status \in {"success", "failed"},
           log' = Marked(log, t, m, status)
    PROVE  /\ \A u : u # t => PendingOf(u)' = PendingOf(u)
           /\ PendingOf(t)' \subseteq PendingOf(t)
           /\ \A u : \A i \in PendingOf(u)' : log'[i].module = log[i].module
           /\ \A x : Markable(log, t, m) = {x} => x \notin PendingOf(t)'
<1>1. /\ Len(log') = Len(log)
      /\ \A i \in 1..Len(log) :
            /\ log'[i].tenant = log[i].tenant
            /\ log'[i].module = log[i].module
            /\ log'[i] = log[i] \/ (i \in Markable(log, t, m) /\ log'[i].status = status)
  BY MarkedRows
<1>2. \A u : u # t => PendingOf(u)' = PendingOf(u)
  BY <1>1 DEF PendingOf, Markable
<1>3. PendingOf(t)' \subseteq PendingOf(t)
  BY <1>1 DEF PendingOf, Markable
<1>4. \A u : \A i \in PendingOf(u)' : log'[i].module = log[i].module
  BY <1>1 DEF PendingOf
<1>5. \A x : Markable(log, t, m) = {x} => x \notin PendingOf(t)'
  BY MarkedOnly DEF PendingOf
<1> QED BY <1>2, <1>3, <1>4, <1>5

\* Steps that touch neither the log's rows of a run under way nor its place.
LEMMA OthersKeepPending ==
    ASSUME OnePending, NEW q \in Run, pc[q] \notin {"done", "aborted"},
           pc'[q] = pc[q], todo'[q] = todo[q], PendingOf(q)' = PendingOf(q),
           \A i \in PendingOf(q) : log'[i].module = log[i].module,
           NEW i \in PendingOf(q)', NEW j \in PendingOf(q)'
    PROVE  /\ i = j
           /\ pc'[q] \in {"probe", "ensure", "success", "failed"}
           /\ log'[i].module = Current(q)'
BY DEF OnePending, Current

LEMMA OnePendingStep == TypeInv /\ OnePending /\ [Next]_vars => OnePending'
<1> USE RunAssumption DEF TypeInv
<1> SUFFICES ASSUME TypeInv, OnePending, [Next]_vars,
                    NEW q \in Run, pc'[q] \notin {"done", "aborted"},
                    NEW i \in PendingOf(q)', NEW j \in PendingOf(q)'
             PROVE  /\ i = j
                    /\ pc'[q] \in {"probe", "ensure", "success", "failed"}
                    /\ log'[i].module = Current(q)'
  BY DEF OnePending
<1> DEFINE Goal == /\ i = j
                   /\ pc'[q] \in {"probe", "ensure", "success", "failed"}
                   /\ log'[i].module = Current(q)'
<1>0. log \in Seq(LogRow)
  BY DEF TypeOK
<1>1. ASSUME log' = log, pc'[q] = pc[q], todo'[q] = todo[q] PROVE Goal
  <2>1. PendingOf(q)' = PendingOf(q)
    BY <1>1 DEF PendingOf
  <2> QED BY <1>1, <2>1, OthersKeepPending
<1>2. ASSUME NEW r \in Run,
             \/ Start(r) \/ Register(r) \/ NextModule(r) \/ Probe(r) \/ Ensure(r) \/ Abort(r)
      PROVE  Goal
  <2>1. log' = log /\ PendingOf(q)' = PendingOf(q)
    BY <1>2 DEF Start, Register, NextModule, Probe, Ensure, Abort, PendingOf
  <2>2. CASE q # r
    BY <1>1, <1>2, <2>1, <2>2
    DEF TypeOK, Start, Register, NextModule, Probe, Ensure, Abort, Goto
  <2>3. CASE q = r
    <3>1. pc[q] \notin {"done", "aborted"}
      BY <1>2, <2>3 DEF Start, Register, NextModule, Probe, Ensure, Abort, Active
    <3>2. /\ i = j /\ pc[q] \in {"probe", "ensure", "success", "failed"}
          /\ log[i].module = Current(q)
      BY <2>1, <3>1 DEF OnePending
    <3>3. Probe(q) \/ Ensure(q)
      BY <1>2, <2>3, <3>2 DEF TypeOK, Start, Register, NextModule, Abort, Goto
    <3> QED
      BY <2>1, <3>2, <3>3 DEF TypeOK, Probe, Ensure, Goto, Current
  <2> QED BY <2>2, <2>3
<1>3. ASSUME NEW r \in Run, Subscribe(r) PROVE Goal
  <2>1. pc[r] = "subscribe" /\ pc' = [pc EXCEPT ![r] = "probe"] /\ todo' = todo
    BY <1>3 DEF Subscribe, Goto
  <2>2. CASE log' = log /\ q # r
    BY <1>1, <2>1, <2>2 DEF TypeOK
  <2>3. CASE log' = Append(log, Pending(r, Current(r), SchemaOf(r))) /\ q # r
    <3>1. /\ PendingOf(q)' = PendingOf(q)
          /\ \A k \in PendingOf(q) : log'[k] = log[k]
      BY <1>0, <2>3, PendingAppended
    <3> QED BY <2>1, <2>3, <3>1, OthersKeepPending DEF TypeOK
  <2>4. PendingOf(r) = {}
    BY <2>1 DEF OnePending
  <2>5. CASE log' = log /\ q = r
    BY <2>4, <2>5 DEF PendingOf
  <2>6. CASE log' = Append(log, Pending(r, Current(r), SchemaOf(r))) /\ q = r
    <3>1. /\ PendingOf(q)' = {Len(log) + 1}
          /\ log'[Len(log) + 1].module = Current(r)
      BY <1>0, <2>4, <2>6, PendingAppended
    <3> QED BY <2>1, <2>6, <3>1 DEF TypeOK, Current
  <2> QED BY <1>3, <2>2, <2>3, <2>5, <2>6 DEF Subscribe, tables
<1>4. ASSUME NEW r \in Run, Mark(r) PROVE Goal
  <2>1. /\ pc[r] \in {"success", "failed"} /\ Current(r) \in Module /\ r \in Tenant
        /\ log' = Marked(log, r, Current(r), pc[r])
        /\ pc' = [pc EXCEPT ![r] = "module"]
        /\ todo' = [todo EXCEPT ![r] = Tail(todo[r])]
    BY <1>4 DEF Mark, Goto, AtModule
  <2>2. /\ \A u : u # r => PendingOf(u)' = PendingOf(u)
        /\ PendingOf(r)' \subseteq PendingOf(r)
        /\ \A u : \A k \in PendingOf(u)' : log'[k].module = log[k].module
        /\ \A x : Markable(log, r, Current(r)) = {x} => x \notin PendingOf(r)'
    BY <1>0, <2>1, PendingMarked
  <2>3. CASE q # r
    <3>1. /\ PendingOf(q)' = PendingOf(q) /\ pc'[q] = pc[q] /\ todo'[q] = todo[q]
          /\ \A k \in PendingOf(q) : log'[k].module = log[k].module
      BY <2>1, <2>2, <2>3 DEF TypeOK
    <3> QED BY <3>1, OthersKeepPending
  <2>4. CASE q = r
    <3>1. i \in PendingOf(r)
      BY <2>2, <2>4
    <3>2. \A k \in PendingOf(r) : k = i /\ log[k].module = Current(r)
      BY <2>1, <3>1 DEF OnePending
    <3>3. Markable(log, r, Current(r)) = {i}
      BY <3>1, <3>2 DEF Markable, PendingOf
    <3> QED BY <2>2, <2>4, <3>3
  <2> QED BY <2>3, <2>4
\* A call by hand is for no run under way.
<1>5. ASSUME NEW t \in Tenant, ByHand(t),
             \/ \E s \in Slug : CallRegister(t, s)
             \/ \E m \in Module : \/ CallSubscribe(t, m) \/ CallEnsure(t, m)
                                  \/ \E status \in {"success", "failed"} :
                                        CallMark(t, m, status)
      PROVE  Goal
  <2>1. pc' = pc /\ todo' = todo /\ q # t
    BY <1>5 DEF CallRegister, CallSubscribe, CallEnsure, CallMark, ByHand
  <2>2. CASE log' = log
    BY <1>1, <2>1, <2>2
  <2>3. ASSUME NEW m \in Module, CallSubscribe(t, m) PROVE Goal
    <3>1. log' = Append(log, Pending(t, m, DefaultSchema(registry, t, m)))
      BY <2>3 DEF CallSubscribe
    <3>2. PendingOf(q)' = PendingOf(q) /\ \A k \in PendingOf(q) : log'[k] = log[k]
      BY <1>0, <2>1, <3>1, PendingAppended
    <3> QED BY <2>1, <3>2, OthersKeepPending
  <2>4. ASSUME NEW m \in Module, NEW status \in {"success", "failed"}, CallMark(t, m, status)
        PROVE  Goal
    <3>1. log' = Marked(log, t, m, status)
      BY <2>4 DEF CallMark
    <3>2. /\ PendingOf(q)' = PendingOf(q)
          /\ \A k \in PendingOf(q)' : log'[k].module = log[k].module
      BY <1>0, <2>1, <3>1, PendingMarked
    <3> QED BY <2>1, <3>2, OthersKeepPending
  <2> QED BY <1>5, <2>2, <2>3, <2>4 DEF CallRegister, CallEnsure
<1>6. CASE UNCHANGED vars
  BY <1>1, <1>6 DEF vars
<1> QED
  BY <1>2, <1>3, <1>4, <1>5, <1>6 DEF Next, Script, Calls

\* A run that comes to its end leaves no row of its own pending.
THEOREM RunsSettle == Spec => EndsSettled
<1>1. Init => OnePending
  BY DEF Init, OnePending, PendingOf
<1>2. ASSUME TypeInv, OnePending, [Next]_vars PROVE EndStep
  <2> SUFFICES ASSUME NEW r \in Run, pc[r] # "done", pc'[r] = "done",
                      NEW i \in 1..Len(log), log[i].tenant = r, log[i].status = "pending"
               PROVE  FALSE
    BY DEF EndStep
  <2>1. pc[r] = "module"
    BY <1>2
    DEF Next, Script, Calls, Start, Register, NextModule, Subscribe, Probe, Ensure,
        Mark, Abort, CallRegister, CallSubscribe, CallEnsure, CallMark, Goto,
        TypeInv, TypeOK, vars
  <2> QED BY <1>2, <2>1 DEF OnePending, PendingOf
<1>3. TypeInv /\ OnePending /\ [Next]_vars => [EndStep]_vars
  BY <1>2
<1> QED BY <1>1, <1>3, TypeInvHolds, OnePendingStep, PTL DEF Spec, EndsSettled
=============================================================================
