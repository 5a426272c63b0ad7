# A TLA+ model of frego-finance

This directory holds TLA+ modules, TLC configurations and TLAPS proofs for
frego-finance, the finance micro-service of Frego ERP: a Go HTTP service (most
of whose handlers are still stubs) over PostgreSQL databases whose schema
carries most of the business rules as constraints and triggers. Paths below are
relative to `src/`.

## 1. The system

| Component | Source | State | Operations | Interacts with |
|---|---|---|---|---|
| Ledger engine | `db/schema.sql:255-495`, `db/queries/finance.sql:83-168` | journal entry headers, lines, general ledger rows | the three queries, every INSERT/UPDATE/DELETE the triggers guard | called by the finance repository; concurrent transactions meet in its tables |
| Documents and approval audit | `db/schema.sql:497-1075`, `db/queries/finance.sql:1-81`, `db/finance_lookups_insert.sql` | AR/AP documents with an `approval_status`, `approval_history` | create, change status, soft-delete; audit trigger | lookup seeds give the status codes |
| Tenant registry | `db/tenant_registry_schema.sql`, `db/migration_to_shared_tenant_registry.sql` | tenants, module subscriptions, provisioning log | register, subscribe, mark provisioned, has-module | scripts write it, the service reads it |
| Provisioning script | `scripts/provision_tenant_complete.sh` | the operator's run through four steps | register, subscribe, CALL ensure procedure, mark | registry DB and finance DB, over psql |
| Migration script | `scripts/migrate_to_shared_tenant_db.sh` | the registry being rebuilt | drop, recreate, copy, convert | registry DB, old ERP DB |
| Tenant sessions | `internal/db/tenant_session.go`, `internal/db/pool.go` | pooled connections and their `search_path` | GetSession, ReleaseSession, VerifyTenantAccess, GetTenantInfo | reads the registry, shares the finance pool |
| Provision loader | `internal/db/provision.go` | loaded script, its load error, applied flag | EnsureFinanceTenantProvisioning | shares the finance pool |
| HTTP pipeline | `internal/server/*.go`, `internal/auth/*.go` | one request through routing, authentication, tenant check, handler; its context | BuildRouter, Middleware, Authenticate, TenantMiddleware | token issuer, registry pool, API handlers |
| Service lifecycle | `cmd/server/main.go`, `internal/server/server.go` | start-up stages, listener, pools, shutdown | main, Start, Shutdown | signals; requests in flight |
| API handlers | `internal/api/*.go` | none (fixed answers) | generated routes, parameters and bodies; seven operations | called by the pipeline |
| Services, repositories | `internal/service/**`, `internal/repository/**` | none (mostly TODO stubs) | tenant schema query | pools |
| Document storage | `internal/storage/*.go` | objects in a bucket, locations handed out | upload, download, key building | S3; any callers |
| Configuration, logging, utilities | `internal/config`, `internal/logging`, `internal/common`, `internal/dto` | configuration record | load | main |

### How the parts interact

- **Three databases.** The *shared registry* belongs to another service
  (frego-backend); this repository ships its schema, writes it from scripts and
  reads it from Go. The *finance database* holds one schema per tenant with the
  tables of `db/schema.sql`. The *operations database* is only probed and
  provisioned by the script. No transaction spans two of them.
- **Two pools.** `main` opens one pool for the registry and one for finance.
  The finance pool is shared by tenant sessions (`GetSession` to
  `ReleaseSession`) and the provisioning loader; a connection goes back to the
  pool with whatever `search_path` it was last given.
- **Triggers instead of code.** The services and repositories are still stubs.
  The rules of the ledger (what may be written when an entry is POSTED, totals
  equal to sums, the audit trail of approvals) live in CHECK constraints,
  foreign keys and row triggers of the schema; the queries of
  `db/queries/finance.sql` are the statements they will meet.
- **Shell script over SQL.** `provision_tenant_complete.sh` is a sequence of
  `psql` calls, each a transaction of its own, interleaved with other runs and
  with operators calling the same procedures as `docs/QUICK_REFERENCE.md` shows.
- **Requests.** A request passes the router, `auth.Middleware`,
  `TenantMiddleware` and the generated code. It reads the registry through the
  tenant pool on its way, and main can cut it off at any step.
- **Lifecycle.** `main` is one goroutine, `Server.Start` another, each request
  another; they share the listener, the pools and the signal context.

### What is hard about it

| Hard behaviour | Where it bites | What makes the component correct |
|---|---|---|
| Rules split over row triggers that each see one table at one moment | header trigger on UPDATE only, line trigger on lines only | an entry with lines and both totals has the right totals; a POSTED entry is frozen; no orphan lines |
| READ COMMITTED transactions | triggers read rows another transaction is changing | the above, per commit; the foreign key; postings commit with their entry |
| Unversioned audit by trigger | status changes of concurrent writers, rollback | each document's trail is one unbroken chain that ends in its status |
| Many small steps over several databases | script killed or failing at any step; two runs with one slug | one schema per tenant in the registry; registry and log agree; settled rows stay |
| Connections with session state, reused | error paths between Acquire and Release; registry changing | the session's path is that of the tenant looked up; no leak; nobody waits for ever |
| `sync.Once`, mutex and pool in one call | a load error is kept, a failed Exec is retried | one execution at a time; every call returns |
| Middlewares that decide one after another, over state that changes meanwhile | health-check bypass against routing; tenant check before the operation; calls without a deadline on a bounded pool | no operation without a principal; only for a tenant that was active; a status that tells whether it ran; every request answered |
| Claims of any shape, sections in random order | `extractRoles`, `stringClaim` | a principal with exactly the token's roles |
| Requests to a bucket lost, late or repeated; locations that outlive a configuration | `PutObject`, keys made of names | a location leads to its document for good; nothing overwritten; tenants apart |
| Shutdown against start-up, late listen and hanging requests | defers, `os.Exit`, `http.Server.Shutdown` | pools outlive requests; status 0 means clean; a signal always ends the process |

`PROJECT.json` lists each hazard at its line with the properties that watch it.

## 2. The modules

```
JournalRows ---- JournalLedger --- MCJournalLedger      TenantRegistry
     |                |   \                                    |
     |                |    JournalLedgerProofs             Provisioning --- MCProvisioning
     |                v                                        \
     |          EntryLifecycle   (abstract)                     ProvisioningProofs
     |                ^
     +---------- JournalTxn ------ MCJournalTxn         ConnPool
                      \                                  /      \
                       JournalTxnProofs       TenantSessions   ProvisionLoader
                                                         \      /
ApprovalAudit -- MCApprovalAudit                        FinanceDB --- MCFinanceDB
     \                                                       \
      ApprovalAuditProofs                                     FinanceDBProofs

ServiceLifecycle   ApiRoutes   ServiceConfig   Positions
         \            |             \          /      |  \
          \           |            Authenticator     |   DocumentStore --- MCDocumentStore
           \          |                /             |          |
            +--- RequestPipeline ----+        PositionsProofs   |
                  |        \                    /       \       |
    MCRequestPipeline     RequestPipelineProofs    DocumentStoreProofs
```

Lines mean EXTENDS, arrows INSTANCE. `MC*` modules only define the small sets of
rows, codes and plans of the runs, and symmetry sets. `*Proofs` modules hold the
theorems. `Positions` has one operator, `Pick`: what a loop makes of a sequence when
it appends some elements and skips the others. `extractRoles` and the sanitizers of
file names are such loops.

### Ledger engine: JournalRows, JournalLedger, JournalTxn, EntryLifecycle

`JournalRows` has the rules one statement must satisfy, as operators over the
contents of the tables: `HeaderCheck` and `LineCheck` are the CHECK constraints
(an expression that is NULL passes), `LinesOpen` and `LinesValid` the two line
triggers, `AmendAllowed` the two header triggers, `WithoutEntry` the cascade,
`PostingOf` the rows `PostJournalToGL` selects (a function from line
to amounts, `NoRow` where nothing is copied; `RowsOf` are the lines copied). `InsertAllowed`,
`UpdateAllowed`, `MoveAllowed` and `DeleteAllowed` put them together for the
four kinds of statement on a line.

`JournalLedger` applies them one statement at a time. Its variables are the three
tables: `header` (je_id to row, `NoRow` before the INSERT, `Gone` after the
DELETE), `line` (the pair je_id, line_no to row) and `gl` (batches of postings).
The actions `CreateJournalEntry`, `CreateJournalLine` and `PostJournalToGL` are
the repository's queries; the other actions are the remaining kinds of INSERT,
UPDATE and DELETE the triggers are written for. A rejected statement changes
nothing, so it is not a step. `SpecInPlace` has every statement except the one
that changes the je_id of a line (`MoveLine`); `Spec` has that one too. The two
are separate because the triggers look only at the entry a line arrives at, so
the totals and the freeze hold for `SpecInPlace` and not for `Spec` (finding 1).

`JournalTxn` runs the same rules under READ COMMITTED: a transaction keeps its
writes (`wHeader`, `wLine`, `wGL`), each statement and its triggers see committed
rows overlaid with them, and row locks and the foreign key's KEY SHARE locks
(`share`) are held to the end. A statement that would wait is not enabled.

`EntryLifecycle` is the abstract promise about a header: created once, amended
while open, immutable once POSTED, deleted for good. Both ledgers implement it
(`HeaderLifecycle`), with the header table as the abstract state.

Left out: the descriptive columns, `je_number` and `gl_account_id`, which no
trigger reads; an UPDATE of a header's own je_id or of a line's line_no; amounts
wider than the small integers (`numeric(14,2)` rejects overflow, it does not
wrap).

### Approvals: ApprovalAudit

`doc` and `history` are the committed documents and `approval_history`; `wDoc`
and `wHistory` what each transaction has pending. `Create` is an INSERT (the
trigger is not attached to it), `Update` an UPDATE with the trigger's row
(`Audit`, with the action of `ActionFor` and the actor of `ActorOf`), `Delete` a
DELETE. `UpdateInvoiceStatus` names columns `ar_invoice` does not have, so its
only effect is the failure of its transaction. The status lookup is the constant
`Label`, from code to description; the two settings of `MCApprovalAudit` are the
codes in the schema's comment and those the seed file inserts.

### Registry and script: TenantRegistry, Provisioning

`TenantRegistry` has the procedures and functions as operators over the tables:
`RegisterRaises`/`Registered`, `Subscribed` with `Pending`, `Marked`,
`TenantSchema`, `HasModule`. `Provisioning` has one action per `psql` call of the
script (`Register`, `Subscribe`, `Probe`, `Ensure`, `Mark`), the loop head
(`NextModule`) and `Abort` for set -e or a signal between any two steps. `psql`
reading SQL from standard input without ON_ERROR_STOP exits 0 when a statement
fails, so `Register`, `Subscribe` and `Ensure` go on after an exception. The
`Calls` are the procedures called by hand, for tenants that no run is working on.
The ensure procedures are not in the repository (external): they create the
schema or raise. A slug the CHECK refuses is one value (`empty`), since the script
derives the slug from a name that may have no letter or digit.

### The finance pool: ConnPool, TenantSessions, ProvisionLoader, FinanceDB

`ConnPool` is pgxpool as the code uses it (external): bounded, first come first
served, connections handed on without a reset, closed or opened by upkeep.
`TenantSessions` has the steps of `GetSession` (lookup, Acquire, SET), with the
failure of each, and `ReleaseSession`, while `RegistryChanges` rewrites the row
the lookup read. `ProvisionLoader` has the steps of
`EnsureFinanceTenantProvisioning`: mutex, applied flag, load once, Acquire, Exec.
`FinanceDB` composes the two on one pool and adds `Restart`, a kill and a new
process at any moment. No handler calls `GetSession` or the loader yet, so the
callers are any goroutines that follow the functions' contract.

### Lifecycle: ServiceLifecycle

`stage` is where `main` is, from `config` to one of the two exits; `listener` is
the goroutine of `Server.Start`; `pools` the open pools; `request` each request.
Every start-up step may fail or find its context cancelled; `Signal` may come at
any moment, before the listener is up included. `Exit` cuts the running requests
and stops the listening goroutine. Times are abstracted: the graceful delay ends,
the 30 seconds of the drain may not suffice.

### Requests: ServiceConfig, Authenticator, ApiRoutes, RequestPipeline

Three modules of operators and one state machine. `ServiceConfig` is
`config.Load` as a function of the environment, and what `NewAuthenticator` keeps
of it. `Authenticator` has `bearerToken`, the readers of claims and the principal
they make; a token is what the verifier (go-oidc, external) returns, a claim a JSON
value. `ApiRoutes` has the three parts of `BuildRouter`'s router, the generated
routes with the prefix in both places where the code has it, what the generated
code asks of parameters and body, and the operations' answers. chi is external and
modelled as far as these routes use it.

`RequestPipeline` extends `ServiceLifecycle`: every action of `main` is there with
its effect on the requests, and a request's life (`Accept`, `Answer`) is refined
into steps. `at` is the next step of a request, `asked` the HTTP request it is,
`context` what the middlewares put into its context, `ran` the operation that ran,
`status` what was sent. `AcquireConn`, `CheckTenant` and `CheckFails` are the query
of `TenantMiddleware` on a pool of `MaxConns` connections. `Hang` takes away the
answer of a call that has no deadline (the provider's keys, the registry query);
`ClientLeaves` ends the context such a request waits in. `ChangeRegistry` registers,
activates or deactivates a tenant between any two steps. `env` is drawn from a set
of environments, two of which end the process in its first two steps. `vouched`
is bookkeeping of the model: the requests whose tenant was active at some moment
since they came. Reading a body ends after the 30 seconds of `ReadTimeout`, so it
does not hang. The roles' order is the random order of Go's map iteration
(`Orders`).

Left out: CORS (a preflight is answered before the other middlewares), request ids,
logging, `Recoverer` (nothing panics), e-mail and scopes of a principal.
The code never compares the principal's tenant claim with X-Tenant-ID, and the
model has no property that says it should.

### Documents: DocumentStore

`objects` is the bucket, `sent` the requests to put an object that it may still
receive: at once, late or again, since a call that failed says nothing of its
request. `call` is the upload a caller waits for, `given` the locations returned so
far with their documents, `got` the last download. `Restart` starts a process with
any of the configurations. A key is built as a sequence of characters, because what
could go wrong is in the characters: `SanitizeFileName` is applied twice, and only
the second pass makes sure that no key ends in a blank, which `DownloadDocument`
would trim. A prefix such as "/ finance", with a blank after the outer slash, makes
keys begin with one (section 6); the configurations of the run have none, and the
theorem about downloads names that as its hypothesis. `Folders` reads a key back: the
root, the folder of the tenant, the folder of its parties, the folder of the party. No
code calls the uploader yet, so its callers are any. Left out: the date in a key, metadata,
credentials, and a change of bucket, which a location does not record.

## 3. The runs

Deadlock checking is off in every run, because each system may really stop: the
ids of a behaviour are used up, the bounds on postings, history or log are
reached, or the process has exited. Symmetry is over interchangeable ids and only
in runs without liveness.

| Run | Instance | Distinct states | What it shows |
|---|---|---|---|
| `ledger_inplace` | SpecInPlace; 1 entry, 2 lines, headers over {NULL,0,1,2}, lines with NULL, 0, negative, two-sided, inactive; 1 posting | 50,571 | types; no orphan lines; totals equal sums; POSTED is frozen; validated postings balance; headers follow EntryLifecycle |
| `txn_entries` | 2 transactions, 2 entries, 1 line number, 1 posting | 85,627 | foreign key, postings and header lifecycle survive interleaving |
| `approval_trail` | 1 document, 2 transactions, documented codes, 4 history rows | 30,363 | the trail is one chain; no silent change |
| `provisioning` | 2 runs, slugs well-formed and empty, one plan naming a module twice and one with an unknown module, 2 log rows, calls by hand | 209,923 | dedicated schemas in the registry; log and registry agree; settled rows stay; a finished run leaves nothing pending |
| `finance_db` | 2 clients, 2 loader callers, 2 connections, 1 tenant with 3 possible rows, restarts | 91,872 | right path, no leak, one execution; every call answered (about a minute) |
| `service_requests` | 2 requests, one of 19 kinds and one that lists invoices; 4 environments, 4 tokens, 1 tenant that comes or goes, 1 connection | 275,545 | the life of the service with its requests: pools, exit status, late listen, who reaches an operation and for which tenant, roles, statuses; requests are answered and a signal ends the process (under two minutes) |
| `document_store` | 2 callers, 2 uploads of 10 kinds, 4 configurations | 183,832 | a location leads to its document for good; nothing is overwritten; the folders of tenants and of parties stay apart |

Five more runs must end in a counterexample; they are the findings of section 6.

Why these bounds are enough to be interesting:

- Every rule of the ledger relates one entry to its lines, so one entry with two
  lines (a debit and a credit, or two that add up) reaches every trigger branch;
  two entries are needed only where lines move or deletes race. `MaxPostings` is 0
  where a run asks nothing of `gl`, whose content no other action reads.
- Two transactions suffice for every conflict the row locks resolve pairwise.
  `txn_entries` uses no totals (they do not hold there, finding 2); 4 history rows
  let both transactions change a status twice.
- Two runs of the script meet on the slug and the log; the log's bound of 2 rows
  lets a module be subscribed twice, which is when "the latest pending row" matters.
- Two connections and four users make users wait for each other and for the
  mutex holder. Two schemas of one tenant stand for different tenants as well: a
  connection can carry another path than the one wanted.
- Of two requests one can hang, hold the only connection or be refused while the
  other needs it, and both can be in different states at shutdown. The 19 kinds have
  one for every way through the pipeline; the environments one with and one without
  audiences, with the two tenant claims, and one for each failure of the first two
  steps.
- Two uploads are enough for one to overwrite another, or for a retry; the ten kinds
  have names for each branch of the sanitizers, a second tenant and a second party of the
  same slug, and a tenant and a party whose names have none.

### Fairness

- `finance_db` (`FairSpec`). Weak fairness of a call's own steps: a client gives
  its session back, SET and Exec answer or fail, and the pool serves the first in
  line, as its semaphore does. Strong fairness of `Lock`: `sync.Mutex` hands
  itself to a goroutine that has waited a millisecond, so a waiter cannot be passed
  over for ever. Nothing forces a caller to call, the registry to change, an
  acquire to fail or the process to restart.
- `service_requests` (`FairPipeline`). Weak fairness of `main`, which runs as long
  as the process does, and of a request's own handler, which runs on unless it is
  stuck in a call (`Hang`). Nothing forces a request to come, a signal, a change or
  a client to leave, and the listening goroutine may never be scheduled. `SignalEnds`
  needs the first only, because the drain has a deadline. `RequestAnswered` leaves out
  a request that hangs itself and one that waits while hanging queries hold every
  connection: the code has no deadline for either.
- The other specifications state no fairness: a client may stop at any point and
  nothing they promise is about progress.

## 4. What is proved

Every safety invariant and every action property that a passing run checks is also a
theorem: it holds for any sets of entries, transactions, documents, tenants, runs,
requests, callers and uploads, and for any bounds.

### Assumptions

They are the named ASSUMEs of the modules, and TLC evaluates each of them in the runs.

| Assumptions | What they say |
|---|---|
| `NullAssumption`, `MarkerAssumption`, `NoRowAssumption`, `SameAssumption`, `ClosedAssumption`, `NothingAssumption` | markers (NULL, no row, deleted, not written, no connection, no principal) differ from the data |
| `RowsAssumption`, `SlugAssumption`, `SchemaAssumption`, `PlansAssumption`, `LabelAssumption`, `CharacterAssumption`, `TextAssumption`, `PathsAssumption` | rows, slugs, plans, labels, texts and paths supplied are well-typed |
| `RunAssumption`, `ClientAssumption`, `CallerAssumption`, `UsersAssumption` | who uses a pool or a tenant id; a session's goroutine is not a loader's |
| `PostingsAssumption`, `HistoryAssumption`, `PoolAssumption`, `ConnsAssumption` | bounds are naturals; a pool has a connection |
| `ClaimsAssumption` | claims are JSON: a list is a sequence, an object has finitely many fields |
| `InvoiceIdAssumption`, `UuidAssumption` | no uuid is the word `health` or `swagger`, or a sign of a file name |

One theorem has a hypothesis of its own: `DownloadsAreExact` asks that no configured
prefix begins with a blank once its slashes are off (`PrefixesTrimmed`), because with
one the property does not hold of the code (section 6).

From the library come facts about finite sets, appending to and updating sequences, and
the well-founded order on the naturals. TLC checked the longer inductive invariants
below on the instances of section 3 before they were proved: `TxnInv` on `txn_entries`,
`AuditInv` on `approval_trail`, `FinanceInv` on `finance_db`, `PipelineInv` and `Granted`
on `service_requests`, `StoreInv` on `document_store`.

### The ledger, one statement at a time: JournalLedgerProofs

- `TypeCorrect`: the type invariant, for Spec.
- `TotalsSound` (`TotalsMatchLines` for SpecInPlace). The property alone is not
  inductive: an entry created with totals must have no lines yet, which is
  `LinesHaveHeader`. `LedgerInv` is the conjunction of TypeOK, LinesHaveHeader and
  TotalsMatchLines. The lemma `SumsAreLocal` says that sums of one entry depend on
  that entry's lines only, so a statement on one entry leaves the others alone.
- `PostingsBalance` (`PostingBalanced` for SpecInPlace). It joins two mechanisms that
  know nothing of each other: a CHECK keeps the two totals of a header equal
  (`HeadersChecked`, an invariant of its own) and the triggers keep them equal to the
  sums of the active lines; where all lines are active, the rows copied are those lines.
- `NoOrphanLines` (`LinesHaveHeader` for Spec): inductive with TypeOK; the deletion of
  an entry rests on the cascade, every other statement on the foreign key.
- `PostedStaysFrozen` (`PostedFrozen` for SpecInPlace) and `PostedLinesOnlyEverLeave`
  (`PostedLinesOnlyLeave` for Spec): one case per statement; each either works on
  another entry, is refused by the status trigger, or deletes the whole entry.
- `LedgerImplementsLifecycle` (`HeaderLifecycle` for Spec): initial states map to
  initial states, each statement is one step of `EntryLifecycle` or a stutter.

### The ledger under transactions: JournalTxnProofs

- `TxnTypeCorrect`: the type invariant.
- `ForeignKeyHolds` (`LinesHaveHeader`). A commit may bring a line whose header another
  transaction is about to delete, so the proof is about locks. `TxnInv` says that a row
  is in the write set of one transaction at most (`OneWriter`), that a line in a write
  set is a committed line or has its entry locked (`WritesLocked`), that whoever deleted
  a header deleted its lines and shares it with nobody (`DeletedAlone`), and that the
  foreign key holds in what each transaction sees (`ViewsLinked`).
- `PostingsFollowEntries` (`GLKnowsEntry`): pending postings are of entries their
  transaction sees (`PostingsKnown`), and its commit brings both.
- `TxnImplementsLifecycle` (`HeaderLifecycle`): every header a transaction has written
  is a step forward from the committed one (`WritesForward`), however many statements
  made it. It stays one until the commit, because nobody else writes that header
  (`OneWriter`).

### Approvals: ApprovalAuditProofs

`AuditTypeCorrect`, `TrailsAreLinked` (`TrailLinked`) and `ChangesAreRecorded`
(`NoSilentChange`), for any number of documents and transactions. A trail grows at commit
by all the rows a transaction held back, so `AuditInv` says of each transaction and
document that the pending rows are a chain of their own which starts in the committed
status and ends in the status the transaction sees (`Pending`), and of the committed rows
that they are one chain which ends in the committed status (`Linked`). What puts the two
together is that the lock of a document has one holder (`OneWriter`): nobody else can
have moved the committed status since the first pending row.

### Registry and script: ProvisioningProofs

- `ProvisioningTyped`: TypeOK with the fact that a run between the loop head and
  the mark has a current module, without which `Head(todo)` has no type (`TypeInv`).
- `SchemasDedicated` (`RegistryDedicated`): slugs are unique among tenants, every
  recorded schema ends in its tenant's slug, and a registered run keeps the slug it
  registered (`RegistryInv`). The last conjunct is what ties the name the script
  computes itself to the row in the registry.
- `LogTellsTheTruth` (`LogMatchesRegistry`): every step either leaves both tables,
  registers, subscribes, or marks (`TableStep`); marking changes a status only, so
  the newest row of a tenant and module still names the schema.
- `SettledRowsStay` (`SettledStays`): a mark touches only rows that are pending.
- `RunsSettle` (`EndsSettled`): a run under way has at most one pending row, that of
  the module it is provisioning, and only between subscribing and marking
  (`OnePending`). So "the latest pending row" that a mark settles is the run's own.

### The finance pool: FinanceDBProofs

`FinanceTyped`, `SessionsServeTheirSchema` (`ServesLookedUp`),
`PoolNeitherLeaksNorShares` (`NoLeak`) and `ScriptRunsAlone` (`OneExecution`), restarts
included. `FinanceInv` says who holds connections without counting (`HeldExactly`: who is
between Acquire and Release has exactly one, everybody else none), from which the counts
of `NoLeak` follow; that a call past its lookup knows its schema (`WantsSchema`), which is
what SET puts into the path; and that whoever is past `Lock` has the mutex and has seen
that the script is not applied (`OwnMutex`).

### Service and requests: RequestPipelineProofs

- The service on its own: `LifecycleTyped`, `PoolsStayOpen`, `ExitIsClean` and
  `NothingStartsLate`. The inductive `LifecycleInv` says which pools are open at each
  stage, at which stages the listener can be open, and at which stages a request can be
  running; without the stages the pools and the requests have nothing to do with each
  other, and the properties follow from it at once.
- `PipelineImplementsService`: the pipeline implements the service (every step of a
  request is a step of `ServiceLifecycle` or a stutter), and `ServiceUnderRequests`
  carries the service's properties over to it.
- `PipelineTypeCorrect`, `OperationsAreAuthenticated` (`OperationsHavePrincipal`),
  `OperationsRunForActiveTenants` (`RunsForActiveTenant`) and `AnswersTellTheTruth`
  (`StatusTellsRun`). `PipelineInv` ties the step a request is at to what its context
  has: where it is (`Placed`), that its tenant was active at some moment since it came
  (`VouchedFor`), that past authentication it has a principal or looks like a health check
  (`Identified`), what its status says (`TellsRun`). `Identified` alone does not give
  the property: the lemma `BypassReachesHealth` shows that, of the requests let through
  without a principal, the generated code lets only health checks into an operation.
- `PrincipalsAreFaithful` (`PrincipalFaithful`): the roles of a principal are exactly
  those of the token's claims, once each, in whatever order Go visits the sections.
  `Granted` says that a principal was made of the request's token under the process's
  configuration; `RolesComplete` says what `extractRoles` computes for any claims.

### Documents: DocumentStoreProofs

- `StoreTypeCorrect` and `NothingIsOverwritten` (`NeverOverwritten`). `StoreInv` has the
  requests that may still reach the bucket: each has the key of its own upload
  (`SentInv`), every object, call and location goes back to one of them (`PutFor`).
  `KeysApart` says that a key names its id: what follows the last slash begins with the
  uuid, since no name leaves a slash in a key.
- `DownloadsAreExact` (`DownloadsExact`): the key in a location is the key that was put,
  so trimming must not change it (`KeyTrimmed`). A file name is sanitized twice, and
  the lemma `SanitizedTwice` is what makes the second pass end without a blank.
- `FoldersStayApart` (`FoldersApart`): `Layout` locates the slashes of a key, `KeyFolders`
  reads its folders back.

### What these share: PositionsProofs

Lemmas about `Pick`, concatenation and `FlattenSeq` over
arguments of any length. They need induction over numbers. The library's induction
theorems take an operator as a parameter, which the provers cannot instantiate, so the
induction is over a set: one that has 0, and with each number the next, is all of Nat
(`AllNumbers`), because its complement would have a least element (`LeastNumber`).
`FlatExists` shows in the same way that the recursive function `FlattenSeq` is defined by does exist.

## 5. What is only model-checked

- Liveness (`SessionAnswered`, `EnsureReturns`, `SignalEnds`, `RequestAnswered`): fairness
  and ENABLED are outside what the proof system handles.
- Statements about sums as values: the proofs use that equal sets of lines have
  equal sums, never what the fold computes.
- The counterexamples of section 6, which are facts about one behaviour each.

## 6. Findings

Each is a run that ends in a counterexample to what the repository says.

1. `ledger_posted_move`: "prevent modifications to journal entry lines when header
   is POSTED" (`db/schema.sql:353`). The trigger checks the entry a line goes to, so
   an UPDATE of je_id takes a line out of a POSTED entry. `PostedLinesOnlyLeave`
   says what is left of the promise, and is proved.
2. `txn_write_skew`: "validate header totals match sum of line totals" (`413`). Under
   READ COMMITTED a header update and a line change that each pass their trigger
   commit to totals that differ from the lines, since neither locks what it read.
3. `approval_seeded`: actions are documented as Submitted, Approved and so on (`995`),
   but the trigger compares with 'Approved' while the seeds insert 'APPROVED', so
   every approval is recorded as StatusChanged.
4. `provision_success`: "Mark as provisioned"
   (`scripts/provision_tenant_complete.sh:103`). A CALL that raises does not stop
   the script, which then marks success for a schema that does not exist.
5. `documented_routes`: "POST /finance/api/v1/invoices" (`README.md:118`; the server
   URL of `api/finance_openapi.yaml:11` and `QUICKSTART.md:100` agree). `main` gives the
   generated router the BaseURL `/finance/api/v1` and `BuildRouter` mounts it there
   once more, which strips the prefix once: the documented paths are answered 404, and
   the operations are below `/finance/api/v1/finance/api/v1`.

Met on the way, without a run of their own:

- A header with one total and the other NULL passes its CHECKs and is never compared
  with its lines, although `db/schema.sql:440` says that the totals are validated.
- `getEnv` (`internal/config/config.go:104`) returns "" for every key, so that
  ENVIRONMENT, HTTP_ADDRESS (`README.md:188`) and GRACEFUL_DELAY are never read;
  FREGO_INTERNAL_SECRET is never parsed.
- `NewS3Uploader` trims white space from the prefix before it trims slashes
  (`internal/storage/s3.go:84`), and `DownloadDocument` trims the key it is given
  (`s3.go:132`). With a prefix such as "/ finance" uploads succeed and every download of
  the location they return asks for another key. The hypothesis `PrefixesTrimmed` of
  `DownloadsAreExact` excludes it.
- `DEPLOYMENT.md:121` calls GET /health a readiness check of the database; the handler
  touches none. The health check of the API, on the other hand, is answered 403 unless
  the default tenant is active.

## 7. What is not modelled

- **Migration to the shared registry** (`scripts/migrate_to_shared_tenant_db.sh`,
  `db/migration_to_shared_tenant_registry.sql`): the script has one behaviour. It drops
  the old registry, creates the new one, and fails at the copy, which leaves out
  `tenant_slug` although the new table declares it NOT NULL; `set -e` ends it there.
- **Services and repositories**: constructors, and methods that are TODOs. No code
  under an operation touches a session or a table yet, so `RequestPipeline` and
  `FinanceDB` have no call between them to compose.
- **Logging, helpers, DTOs**: records, conversions and types without state.
- **Configuration** in part: addresses, credentials, origins, delays and pool settings
  decide over nothing that is modelled.
- **The other document tables** (lines, allocations, taxes, budgets): column checks
  only; no query or trigger of the repository changes two of them together.
- **PostgreSQL itself**: isolation levels above READ COMMITTED, lock timeouts and
  deadlock detection; a transaction that is chosen as a victim is `Rollback`.

## 8. Plan

Built in this order, the most important behaviour first: the ledger serially, the
ledger under transactions, approvals, registry and script, the finance pool, the
lifecycle, the requests inside it, the documents. What remains:

1. Proofs: what sums compute, by the induction over numbers of `PositionsProofs`; the
   fold of the community modules has to be unfolded first. Progress short of liveness:
   in which states of `FinanceDB` no step of a call is possible, and that somebody then
   holds a connection.
   More about the operators where callers will rely on them: the slugs of
   `SlugifyName`, the answers of the router for paths that differ in one segment.
2. As the code grows: operations that open a session compose `RequestPipeline` with
   `FinanceDB`; the question is whether a request works in the schema of the tenant it
   was admitted for when the registry changes between check and lookup.
