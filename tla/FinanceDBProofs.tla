--------------------------- MODULE FinanceDBProofs --------------------------
(***************************************************************************)
(* Proofs about FinanceDB, for any pool, clients, callers and registry.    *)
(***************************************************************************)
EXTENDS FinanceDB, FiniteSetTheorems, TLAPS

-----------------------------------------------------------------------------
(* The invariant.                                                          *)

Holders == {c \in Client : call[c] \in {"set", "serving"}}
           \cup {c \in Caller : step[c] = "exec"}

\* Who holds connections, in a form that needs no counting.
HeldExactly ==
    \A u \in User :
        IF u \in Holders THEN \E k \in Conn : HeldBy(u) = {k} ELSE HeldBy(u) = {}

\* A call past the lookup knows its schema.
WantsSchema == \A c \in Client : call[c] # "none" => want[c] \in Schema

\* Whoever is past Lock has the mutex and has seen that the script is still to
\* be applied if it goes on to execute it.
OwnMutex ==
    \A c \in Caller :
        /\ step[c] \in {"locked", "acquire", "exec"} => mutex = c
        /\ step[c] \in {"acquire", "exec"} => ~applied

FinanceInv ==
    /\ TypeOK
    /\ HeldExactly
    /\ WantsSchema
    /\ ServesLookedUp
    /\ OwnMutex

-----------------------------------------------------------------------------
(* Lemmas about the pool.                                                  *)

\* Joining and leaving the line keep it a line of users.
LEMMA LineType ==
    ASSUME PoolTypeOK, NEW u \in User, Join(u) \/ Leave(u)
    PROVE  queue' \in Seq(User)
<1>1. CASE Join(u)
  BY <1>1 DEF Join, PoolTypeOK
<1>2. CASE Leave(u)
  <2>1. PICK i \in DOMAIN queue :
            queue' = SubSeq(queue, 1, i - 1) \o SubSeq(queue, i + 1, Len(queue))
    BY <1>2 DEF Leave
  <2>2. /\ queue \in Seq(User) /\ i \in 1 .. Len(queue)
        /\ \A n \in 1 .. Len(queue) : queue[n] \in User
    BY DEF PoolTypeOK
  <2>3. SubSeq(queue, 1, i - 1) \in Seq(User) /\ SubSeq(queue, i + 1, Len(queue)) \in Seq(User)
    BY <2>2
  <2> QED BY <2>1, <2>3
<1> QED BY <1>1, <1>2

\* Grant lends one connection to its user, who need not have had one, and
\* leaves everybody else's as they are.
LEMMA GrantEffect ==
    ASSUME PoolTypeOK, NEW u \in User, Grant(u), HeldBy(u) = {}
    PROVE  /\ PoolTypeOK'
           /\ \E k \in Conn : HeldBy(u)' = {k}
           /\ \A v \in User \ {u} : /\ HeldBy(v)' = HeldBy(v)
                                    /\ \A k \in HeldBy(v) : conns'[k] = conns[k]
<1> USE PoolAssumption, ClosedAssumption
<1>1. PICK k \in Conn :
          \/ /\ Idle(k)
             /\ conns' = [conns EXCEPT ![k].by = u]
          \/ /\ ~Open(k)
             /\ conns' = [conns EXCEPT ![k] = Fresh(u)]
  BY DEF Grant
<1>2. /\ conns'[k] \in Connection /\ conns'[k].by = u
      /\ \A l \in Conn \ {k} : conns'[l] = conns[l]
      /\ conns' \in [Conn -> Connection \cup {Closed}]
  BY <1>1 DEF PoolTypeOK, Connection, Idle, Open, Fresh
<1>3. HeldBy(u)' = {k}
  BY <1>2 DEF HeldBy, Open
<1>4. ASSUME NEW v \in User \ {u}
      PROVE  /\ HeldBy(v)' = HeldBy(v)
             /\ \A l \in HeldBy(v) : conns'[l] = conns[l]
  <2>1. k \notin HeldBy(v)
    BY <1>1 DEF HeldBy, Idle, Open
  <2> QED BY <1>2, <2>1 DEF HeldBy, Open
<1>5. queue' \in Seq(User)
  BY DEF Grant, PoolTypeOK
<1> QED BY <1>2, <1>3, <1>4, <1>5 DEF PoolTypeOK

\* Release takes back what its user has and nothing else.
LEMMA ReleaseEffect ==
    ASSUME PoolTypeOK, NEW u \in User, Release(u)
    PROVE  /\ conns' \in [Conn -> Connection \cup {Closed}]
           /\ HeldBy(u)' = {}
           /\ \A v \in User \ {u} : /\ HeldBy(v)' = HeldBy(v)
                                    /\ \A k \in HeldBy(v) : conns'[k] = conns[k]
<1> USE PoolAssumption, ClosedAssumption
<1>1. \A k \in Conn : k \in HeldBy(u) => conns[k] \in Connection
  BY DEF HeldBy, Open, PoolTypeOK
<1>2. \A k \in Conn :
          /\ k \notin HeldBy(u) => conns'[k] = conns[k]
          /\ k \in HeldBy(u) => \/ conns'[k] = Closed
                                \/ conns'[k] = [conns[k] EXCEPT !.by = Nobody]
  BY DEF Release
<1>3. \A k \in HeldBy(u) : conns'[k] = Closed \/ (conns'[k] \in Connection /\ conns'[k].by = Nobody)
  BY <1>1, <1>2 DEF Connection, HeldBy
<1>4. conns' \in [Conn -> Connection \cup {Closed}]
  <2>1. /\ DOMAIN conns' = Conn
        /\ conns' = [k \in Conn |-> conns'[k]]
    BY DEF Release
  <2>2. \A k \in Conn : conns'[k] \in Connection \cup {Closed}
    BY <1>2, <1>3 DEF PoolTypeOK
  <2> QED BY <2>1, <2>2
<1>5. HeldBy(u)' = {}
  <2>1. ASSUME NEW k \in Conn, conns'[k] # Closed PROVE conns'[k].by # u
    <3>1. CASE k \in HeldBy(u)
      BY <1>3, <2>1, <3>1
    <3>2. CASE k \notin HeldBy(u)
      BY <1>2, <2>1, <3>2 DEF HeldBy, Open
    <3> QED BY <3>1, <3>2
  <2> QED BY <2>1 DEF HeldBy, Open
<1>6. ASSUME NEW v \in User \ {u}
      PROVE  /\ HeldBy(v)' = HeldBy(v)
             /\ \A k \in HeldBy(v) : conns'[k] = conns[k]
  <2>1. \A k \in HeldBy(v) : k \in Conn /\ k \notin HeldBy(u)
    BY DEF HeldBy, Open
  <2>2. \A k \in HeldBy(u) : k \notin HeldBy(v)'
    BY <1>3 DEF HeldBy, Open
  <2>3. \A k : k \in HeldBy(v)' <=> k \in HeldBy(v)
    BY <1>2, <2>1, <2>2 DEF HeldBy, Open
  <2> QED BY <1>2, <2>1, <2>3
<1> QED BY <1>4, <1>5, <1>6

\* The pool's upkeep touches nobody's connection.
LEMMA UpkeepEffect ==
    ASSUME PoolTypeOK, Upkeep
    PROVE  /\ PoolTypeOK'
           /\ \A v \in User : /\ HeldBy(v)' = HeldBy(v)
                              /\ \A k \in HeldBy(v) : conns'[k] = conns[k]
<1> USE PoolAssumption, ClosedAssumption
<1>1. PICK k \in Conn :
          \/ Idle(k) /\ conns' = [conns EXCEPT ![k] = Closed]
          \/ ~Open(k) /\ conns' = [conns EXCEPT ![k] = Fresh(Nobody)]
  BY DEF Upkeep
<1>2. /\ \A v \in User : k \notin HeldBy(v)
      /\ conns'[k] = Closed \/ conns'[k] = Fresh(Nobody)
      /\ \A l \in Conn \ {k} : conns'[l] = conns[l]
      /\ conns' \in [Conn -> Connection \cup {Closed}]
  BY <1>1 DEF PoolTypeOK, Connection, Idle, Open, Fresh, HeldBy
<1>3. \A v \in User : k \notin HeldBy(v)'
  BY <1>2 DEF HeldBy, Open, Fresh
<1>4. ASSUME NEW v \in User
      PROVE  HeldBy(v)' = HeldBy(v) /\ \A l \in HeldBy(v) : conns'[l] = conns[l]
  BY <1>2, <1>3 DEF HeldBy, Open
<1>5. queue' = queue
  BY DEF Upkeep
<1> QED BY <1>2, <1>4, <1>5 DEF PoolTypeOK

-----------------------------------------------------------------------------
(* Steps of a session.                                                     *)

\* A client's step keeps the invariant if it leaves the connections of the
\* others alone and gives the client one exactly where its call says so.
LEMMA ClientStepKeeps ==
    ASSUME FinanceInv, PoolTypeOK', NEW c \in Client,
           NEW x \in {"none", "acquire", "set", "serving"}, NEW w \in Schema \cup {NULL},
           call' = [call EXCEPT ![c] = x], want' = [want EXCEPT ![c] = w],
           UNCHANGED <<registry, loaderVars>>,
           x # "none" => w \in Schema,
           IF x \in {"set", "serving"} THEN \E k \in Conn : HeldBy(c)' = {k}
                                       ELSE HeldBy(c)' = {},
           x = "serving" => \A k \in HeldBy(c)' : conns'[k].path = w,
           \A v \in User \ {c} : /\ HeldBy(v)' = HeldBy(v)
                                /\ \A k \in HeldBy(v) : conns'[k].path = conns[k].path
    PROVE  FinanceInv'
<1> USE ClientAssumption, CallerAssumption, UsersAssumption
<1>1. TypeOK'
  BY DEF FinanceInv, TypeOK, SessionTypeOK, LoaderTypeOK, loaderVars
<1>2. /\ call'[c] = x /\ want'[c] = w
      /\ \A d \in Client \ {c} : call'[d] = call[d] /\ want'[d] = want[d]
  BY DEF FinanceInv, TypeOK, SessionTypeOK
<1>3. /\ c \in Holders' <=> x \in {"set", "serving"}
      /\ \A v \in User \ {c} : v \in Holders' <=> v \in Holders
  BY <1>2 DEF Holders, loaderVars
<1>4. HeldExactly'
  <2> SUFFICES ASSUME NEW v \in User
               PROVE  IF v \in Holders' THEN \E k \in Conn : HeldBy(v)' = {k}
                                        ELSE HeldBy(v)' = {}
    BY DEF HeldExactly
  <2>1. CASE v = c
    BY <1>3, <2>1
  <2>2. CASE v # c
    <3>1. IF v \in Holders THEN \E k \in Conn : HeldBy(v) = {k} ELSE HeldBy(v) = {}
      BY DEF FinanceInv, HeldExactly
    <3> QED BY <1>3, <2>2, <3>1
  <2> QED BY <2>1, <2>2
<1>5. WantsSchema'
  BY <1>2 DEF FinanceInv, WantsSchema
<1>6. ServesLookedUp'
  <2> SUFFICES ASSUME NEW d \in Client, call'[d] = "serving"
               PROVE  HeldBy(d)' # {} /\ \A k \in HeldBy(d)' : conns'[k].path = want'[d]
    BY DEF ServesLookedUp
  <2>1. CASE d = c
    BY <1>2, <2>1
  <2>2. CASE d # c
    BY <1>2, <2>2 DEF FinanceInv, ServesLookedUp
  <2> QED BY <2>1, <2>2
<1>7. OwnMutex'
  BY DEF FinanceInv, OwnMutex, loaderVars
<1> QED BY <1>1, <1>4, <1>5, <1>6, <1>7 DEF FinanceInv

\* Every step of a session keeps the invariant.
LEMMA SessionKeeps ==
    ASSUME FinanceInv, NEW c \in Client, UNCHANGED loaderVars,
           \/ \E t \in Tenant : GetSession(c, t)
           \/ Acquired(c) \/ AcquireFails(c) \/ SetPath(c) \/ SetPathFails(c)
           \/ ReleaseSession(c)
    PROVE  FinanceInv'
<1> USE ClientAssumption
<1> USE DEF SessionTypeOK, TypeOK, FinanceInv
<1>1. c \in User
  OBVIOUS
<1>2. c \in Holders <=> call[c] \in {"set", "serving"}
  BY UsersAssumption DEF Holders
<1>3. /\ call[c] \in {"none", "acquire"} => HeldBy(c) = {}
      /\ call[c] \in {"set", "serving"} => \E k \in Conn : HeldBy(c) = {k}
  BY <1>1, <1>2 DEF HeldExactly
<1>4. ASSUME conns' = conns
      PROVE  \A v \in User : /\ HeldBy(v)' = HeldBy(v)
                            /\ \A k \in HeldBy(v) : conns'[k].path = conns[k].path
  BY <1>4 DEF HeldBy, Open
<1>5. ASSUME NEW t \in Tenant, GetSession(c, t) PROVE FinanceInv'
  <2>1. registry[t].schema \in Schema
    BY <1>5, RowsAssumption DEF GetSession, HasSchema, RegistryRow
  <2>2. PoolTypeOK'
    BY <1>5, LineType DEF GetSession, PoolTypeOK
  <2>3. /\ conns' = conns /\ registry' = registry /\ HeldBy(c) = {}
        /\ call' = [call EXCEPT ![c] = "acquire"]
        /\ want' = [want EXCEPT ![c] = registry[t].schema]
    BY <1>3, <1>5 DEF GetSession
  <2>4. HeldBy(c)' = {}
    BY <1>4, <2>3
  <2> QED BY <1>4, <2>1, <2>2, <2>3, <2>4, ClientStepKeeps
<1>6. ASSUME Acquired(c) PROVE FinanceInv'
  <2>1. /\ Grant(c) /\ HeldBy(c) = {} /\ registry' = registry
        /\ call' = [call EXCEPT ![c] = "set"]
        /\ want' = [want EXCEPT ![c] = want[c]] /\ want[c] \in Schema
    BY <1>3, <1>6 DEF Acquired, WantsSchema
  <2>2. /\ PoolTypeOK'
        /\ \E k \in Conn : HeldBy(c)' = {k}
        /\ \A v \in User \ {c} : /\ HeldBy(v)' = HeldBy(v)
                                 /\ \A k \in HeldBy(v) : conns'[k].path = conns[k].path
    BY <2>1, GrantEffect
  <2> QED BY <2>1, <2>2, ClientStepKeeps
<1>7. ASSUME AcquireFails(c) PROVE FinanceInv'
  <2>1. PoolTypeOK'
    BY <1>7, LineType DEF AcquireFails, PoolTypeOK
  <2>2. /\ conns' = conns /\ registry' = registry /\ HeldBy(c) = {}
        /\ call' = [call EXCEPT ![c] = "none"]
        /\ want' = [want EXCEPT ![c] = NULL]
    BY <1>3, <1>7 DEF AcquireFails
  <2>3. HeldBy(c)' = {}
    BY <1>4, <2>2
  <2> QED BY <1>4, <2>1, <2>2, <2>3, ClientStepKeeps
<1>8. ASSUME SetPath(c) PROVE FinanceInv'
  <2>1. /\ registry' = registry /\ queue' = queue
        /\ call' = [call EXCEPT ![c] = "serving"]
        /\ want' = [want EXCEPT ![c] = want[c]] /\ want[c] \in Schema
        /\ \E k \in Conn : HeldBy(c) = {k}
    BY <1>3, <1>8 DEF SetPath, WantsSchema
  <2>2. /\ \A k \in Conn \ HeldBy(c) : conns'[k] = conns[k]
        /\ \A k \in HeldBy(c) : conns'[k] = [conns[k] EXCEPT !.path = want[c]]
    BY <1>8 DEF SetPath, HeldBy
  <2>3. want[c] \in Path
    BY <2>1, SchemaAssumption
  <2>4. ASSUME NEW k \in HeldBy(c)
        PROVE  /\ conns[k] \in Connection /\ conns'[k] \in Connection
               /\ conns'[k].by = conns[k].by /\ conns'[k].path = want[c]
    <3>1. conns[k] \in Connection
      BY DEF PoolTypeOK, HeldBy, Open
    <3>2. conns'[k] = [conns[k] EXCEPT !.path = want[c]]
      BY <2>2
    <3> QED BY <2>3, <3>1, <3>2 DEF Connection
  <2>5. PoolTypeOK'
    <3>1. conns' = [k \in Conn |-> conns'[k]]
      BY <1>8 DEF SetPath
    <3>2. \A k \in Conn : conns'[k] \in Connection \cup {Closed}
      BY <2>2, <2>4 DEF PoolTypeOK
    <3> QED BY <2>1, <3>1, <3>2 DEF PoolTypeOK
  <2>6. \A k \in Conn : /\ conns'[k] # Closed <=> conns[k] # Closed
                        /\ conns[k] # Closed => conns'[k].by = conns[k].by
    BY <2>2, <2>4, ClosedAssumption DEF HeldBy, Open
  <2>7. ASSUME NEW v \in User PROVE HeldBy(v)' = HeldBy(v)
    BY <2>6 DEF HeldBy, Open
  <2>8. \A v \in User \ {c} : \A k \in HeldBy(v) : conns'[k].path = conns[k].path
    BY <2>2 DEF HeldBy
  <2>9. /\ \E k \in Conn : HeldBy(c)' = {k}
        /\ \A k \in HeldBy(c)' : conns'[k].path = want[c]
    BY <1>1, <2>1, <2>4, <2>7
  <2> QED BY <2>1, <2>5, <2>7, <2>8, <2>9, ClientStepKeeps
<1>9. ASSUME SetPathFails(c) \/ ReleaseSession(c) PROVE FinanceInv'
  <2>1. /\ Release(c) /\ registry' = registry /\ queue' = queue
        /\ call' = [call EXCEPT ![c] = "none"]
        /\ want' = [want EXCEPT ![c] = NULL]
    BY <1>9 DEF SetPathFails, ReleaseSession
  <2>2. /\ conns' \in [Conn -> Connection \cup {Closed}]
        /\ HeldBy(c)' = {}
        /\ \A v \in User \ {c} : /\ HeldBy(v)' = HeldBy(v)
                                 /\ \A k \in HeldBy(v) : conns'[k].path = conns[k].path
    BY <2>1, ReleaseEffect
  <2>3. PoolTypeOK'
    BY <2>1, <2>2 DEF PoolTypeOK
  <2> QED BY <2>1, <2>2, <2>3, ClientStepKeeps
<1> QED BY <1>5, <1>6, <1>7, <1>8, <1>9

-----------------------------------------------------------------------------
(* Steps of a loader.                                                      *)

\* A caller's step keeps the invariant if it leaves the connections of the
\* others alone, gives the caller one exactly while it executes the script,
\* and goes by the mutex.
LEMMA CallerStepKeeps ==
    ASSUME FinanceInv, PoolTypeOK', LoaderTypeOK', NEW c \in Caller,
           NEW x \in {"none", "lock", "locked", "acquire", "exec"},
           step' = [step EXCEPT ![c] = x], UNCHANGED sessionVars,
           mutex' # mutex => mutex \in {c, Unlocked},
           applied' # applied => mutex = c,
           x \in {"locked", "acquire", "exec"} => mutex' = c,
           x \in {"acquire", "exec"} => ~applied',
           IF x = "exec" THEN \E k \in Conn : HeldBy(c)' = {k} ELSE HeldBy(c)' = {},
           \A v \in User \ {c} : /\ HeldBy(v)' = HeldBy(v)
                                 /\ \A k \in HeldBy(v) : conns'[k].path = conns[k].path
    PROVE  FinanceInv'
<1> USE ClientAssumption, CallerAssumption, UsersAssumption
<1>1. TypeOK'
  BY DEF FinanceInv, TypeOK, SessionTypeOK, sessionVars
<1>2. step'[c] = x /\ \A d \in Caller \ {c} : step'[d] = step[d]
  BY DEF FinanceInv, TypeOK, LoaderTypeOK
<1>3. /\ c \in Holders' <=> x = "exec"
      /\ \A v \in User \ {c} : v \in Holders' <=> v \in Holders
  BY <1>2 DEF Holders, sessionVars
<1>4. HeldExactly'
  <2> SUFFICES ASSUME NEW v \in User
               PROVE  IF v \in Holders' THEN \E k \in Conn : HeldBy(v)' = {k}
                                        ELSE HeldBy(v)' = {}
    BY DEF HeldExactly
  <2>1. CASE v = c
    BY <1>3, <2>1
  <2>2. CASE v # c
    <3>1. IF v \in Holders THEN \E k \in Conn : HeldBy(v) = {k} ELSE HeldBy(v) = {}
      BY DEF FinanceInv, HeldExactly
    <3> QED BY <1>3, <2>2, <3>1
  <2> QED BY <2>1, <2>2
<1>5. WantsSchema'
  BY DEF FinanceInv, WantsSchema, sessionVars
<1>6. ServesLookedUp'
  <2> SUFFICES ASSUME NEW d \in Client, call'[d] = "serving"
               PROVE  HeldBy(d)' # {} /\ \A k \in HeldBy(d)' : conns'[k].path = want'[d]
    BY DEF ServesLookedUp
  <2>1. d \in User \ {c} /\ call[d] = "serving" /\ want'[d] = want[d]
    BY DEF sessionVars
  <2> QED BY <2>1 DEF FinanceInv, ServesLookedUp
<1>7. OwnMutex'
  <2> SUFFICES ASSUME NEW d \in Caller
               PROVE  /\ step'[d] \in {"locked", "acquire", "exec"} => mutex' = d
                      /\ step'[d] \in {"acquire", "exec"} => ~applied'
    BY DEF OwnMutex
  <2>1. CASE d = c
    BY <1>2, <2>1
  <2>2. CASE d # c
    BY <1>2, <2>2 DEF FinanceInv, OwnMutex
  <2> QED BY <2>1, <2>2
<1> QED BY <1>1, <1>4, <1>5, <1>6, <1>7 DEF FinanceInv

\* Every step of a loader keeps the invariant.
LEMMA LoaderKeeps ==
    ASSUME FinanceInv, NEW c \in Caller, UNCHANGED sessionVars,
           \/ Ensure(c) \/ Lock(c) \/ Skip(c) \/ Load(c)
           \/ LoaderAcquired(c) \/ LoaderAcquireFails(c) \/ ExecDone(c)
    PROVE  FinanceInv'
<1> USE CallerAssumption
<1>1. c \in User /\ PoolTypeOK /\ LoaderTypeOK
  BY DEF FinanceInv, TypeOK
<1>2. c \in Holders <=> step[c] = "exec"
  BY UsersAssumption DEF Holders
<1>3. /\ step[c] # "exec" => HeldBy(c) = {}
      /\ step[c] = "exec" => \E k \in Conn : HeldBy(c) = {k}
  BY <1>1, <1>2 DEF HeldExactly, FinanceInv
<1>4. ASSUME conns' = conns
      PROVE  \A v \in User : /\ HeldBy(v)' = HeldBy(v)
                             /\ \A k \in HeldBy(v) : conns'[k].path = conns[k].path
  BY <1>4 DEF HeldBy, Open
<1>5. /\ step[c] \in {"locked", "acquire", "exec"} => mutex = c
      /\ step[c] \in {"acquire", "exec"} => ~applied
  BY DEF FinanceInv, OwnMutex
<1>6. ASSUME Ensure(c) \/ Lock(c) \/ Skip(c) PROVE FinanceInv'
  <2>1. conns' = conns /\ PoolTypeOK' /\ HeldBy(c)' = {}
    BY <1>1, <1>3, <1>4, <1>6 DEF Ensure, Lock, Skip, poolVars, PoolTypeOK
  <2>2. CASE Ensure(c)
    BY <1>1, <1>4, <2>1, <2>2, CallerStepKeeps DEF Ensure, LoaderTypeOK
  <2>3. CASE Lock(c)
    BY <1>1, <1>4, <2>1, <2>3, CallerStepKeeps DEF Lock, LoaderTypeOK
  <2>4. CASE Skip(c)
    BY <1>1, <1>4, <1>5, <2>1, <2>4, CallerStepKeeps DEF Skip, Return, LoaderTypeOK
  <2> QED BY <1>6, <2>2, <2>3, <2>4
<1>7. ASSUME Load(c) PROVE FinanceInv'
  <2>1. /\ conns' = conns /\ applied' = applied /\ ~applied /\ step[c] = "locked"
        /\ mutex = c
        /\ script' \in {"unread", "loaded", "error"}
        /\ \/ Join(c) /\ step' = [step EXCEPT ![c] = "acquire"] /\ mutex' = mutex
           \/ step' = [step EXCEPT ![c] = "none"] /\ mutex' = Unlocked /\ queue' = queue
    BY <1>1, <1>5, <1>7 DEF Load, Return, LoaderTypeOK
  <2>2. PoolTypeOK'
    BY <1>1, <2>1, LineType DEF PoolTypeOK
  <2>3. HeldBy(c)' = {}
    BY <1>1, <1>3, <1>4, <2>1
  <2>4. LoaderTypeOK'
    BY <1>1, <2>1 DEF LoaderTypeOK
  <2> QED BY <1>4, <2>1, <2>2, <2>3, <2>4, CallerStepKeeps
<1>8. ASSUME LoaderAcquired(c) PROVE FinanceInv'
  <2>1. /\ Grant(c) /\ HeldBy(c) = {} /\ mutex = c /\ ~applied
        /\ step' = [step EXCEPT ![c] = "exec"] /\ UNCHANGED <<mutex, script, applied>>
    BY <1>3, <1>5, <1>8 DEF LoaderAcquired
  <2>2. /\ PoolTypeOK'
        /\ \E k \in Conn : HeldBy(c)' = {k}
        /\ \A v \in User \ {c} : /\ HeldBy(v)' = HeldBy(v)
                                 /\ \A k \in HeldBy(v) : conns'[k].path = conns[k].path
    BY <1>1, <2>1, GrantEffect
  <2>3. LoaderTypeOK'
    BY <1>1, <2>1 DEF LoaderTypeOK
  <2> QED BY <2>1, <2>2, <2>3, CallerStepKeeps
<1>9. ASSUME LoaderAcquireFails(c) PROVE FinanceInv'
  <2>1. /\ Leave(c) /\ conns' = conns /\ HeldBy(c) = {} /\ mutex = c
        /\ step' = [step EXCEPT ![c] = "none"] /\ mutex' = Unlocked
        /\ UNCHANGED <<script, applied>>
    BY <1>3, <1>5, <1>9 DEF LoaderAcquireFails, Return
  <2>2. PoolTypeOK'
    BY <1>1, <2>1, LineType DEF PoolTypeOK
  <2>3. HeldBy(c)' = {}
    BY <1>1, <1>4, <2>1
  <2>4. LoaderTypeOK'
    BY <1>1, <2>1 DEF LoaderTypeOK
  <2> QED BY <1>4, <2>1, <2>2, <2>3, <2>4, CallerStepKeeps
<1>10. ASSUME ExecDone(c) PROVE FinanceInv'
  <2>1. /\ Release(c) /\ queue' = queue /\ mutex = c
        /\ step' = [step EXCEPT ![c] = "none"] /\ mutex' = Unlocked
        /\ script' = script /\ applied' \in BOOLEAN
    BY <1>1, <1>5, <1>10 DEF ExecDone, Return, LoaderTypeOK
  <2>2. /\ conns' \in [Conn -> Connection \cup {Closed}]
        /\ HeldBy(c)' = {}
        /\ \A v \in User \ {c} : /\ HeldBy(v)' = HeldBy(v)
                                 /\ \A k \in HeldBy(v) : conns'[k].path = conns[k].path
    BY <1>1, <2>1, ReleaseEffect
  <2>3. PoolTypeOK'
    BY <1>1, <2>1, <2>2 DEF PoolTypeOK
  <2>4. LoaderTypeOK'
    BY <1>1, <2>1 DEF LoaderTypeOK
  <2> QED BY <2>1, <2>2, <2>3, <2>4, CallerStepKeeps
<1> QED BY <1>6, <1>7, <1>8, <1>9, <1>10

-----------------------------------------------------------------------------
(* The theorems.                                                           *)

LEMMA FinanceInvHolds == Spec => []FinanceInv
<1>1. ASSUME PoolInit, call = [c \in Client |-> "none"], want = [c \in Client |-> NULL],
             LoaderInit, registry \in [Tenant -> Rows]
      PROVE  FinanceInv
  <2>1. TypeOK
    <3>1. PoolTypeOK
      BY <1>1 DEF PoolInit, PoolTypeOK
    <3>2. SessionTypeOK
      BY <1>1 DEF SessionTypeOK
    <3>3. LoaderTypeOK
      BY <1>1 DEF LoaderInit, LoaderTypeOK
    <3> QED BY <3>1, <3>2, <3>3 DEF TypeOK
  <2>2. \A u \in User : u \notin Holders /\ HeldBy(u) = {}
    BY <1>1 DEF PoolInit, LoaderInit, Holders, HeldBy, Open
  <2>3. HeldExactly
    BY <2>2 DEF HeldExactly
  <2>4. WantsSchema /\ ServesLookedUp /\ OwnMutex
    BY <1>1 DEF LoaderInit, WantsSchema, ServesLookedUp, OwnMutex
  <2> QED BY <2>1, <2>3, <2>4 DEF FinanceInv
<1>2. Init => FinanceInv
  BY <1>1 DEF Init, SessionInit
<1>3. FinanceInv /\ [Next]_vars => FinanceInv'
  <2> SUFFICES ASSUME FinanceInv, [Next]_vars PROVE FinanceInv'
    OBVIOUS
  <2>1. ASSUME SessionNext, UNCHANGED loaderVars PROVE FinanceInv'
    <3>1. ASSUME RegistryChanges PROVE FinanceInv'
      <4>1. registry' \in [Tenant -> Rows]
        BY <3>1 DEF RegistryChanges, FinanceInv, TypeOK, SessionTypeOK
      <4>2. UNCHANGED <<call, want, conns, queue, step, mutex, script, applied>>
        BY <2>1, <3>1 DEF RegistryChanges, poolVars, loaderVars
      <4>3. TypeOK'
        BY <4>1, <4>2 DEF FinanceInv, TypeOK, PoolTypeOK, SessionTypeOK, LoaderTypeOK
      <4>4. HeldExactly'
        BY <4>2 DEF FinanceInv, HeldExactly, Holders, HeldBy, Open
      <4>5. WantsSchema' /\ ServesLookedUp' /\ OwnMutex'
        BY <4>2 DEF FinanceInv, WantsSchema, ServesLookedUp, OwnMutex, HeldBy, Open
      <4> QED BY <4>3, <4>4, <4>5 DEF FinanceInv
    <3> QED BY <2>1, <3>1, SessionKeeps DEF SessionNext, SessionProceeds
  <2>2. ASSUME LoaderNext, UNCHANGED sessionVars PROVE FinanceInv'
    BY <2>2, LoaderKeeps DEF LoaderNext, LoaderProceeds
  <2>3. ASSUME Upkeep, UNCHANGED <<sessionVars, loaderVars>> PROVE FinanceInv'
    <3>1. /\ PoolTypeOK'
          /\ \A v \in User : /\ HeldBy(v)' = HeldBy(v)
                             /\ \A k \in HeldBy(v) : conns'[k].path = conns[k].path
      BY <2>3, UpkeepEffect DEF FinanceInv, TypeOK
    <3>2. UNCHANGED <<registry, call, want, step, mutex, script, applied>>
      BY <2>3 DEF sessionVars, loaderVars
    <3>3. TypeOK'
      BY <3>1, <3>2 DEF FinanceInv, TypeOK, SessionTypeOK, LoaderTypeOK
    <3>4. HeldExactly'
      BY <3>1, <3>2 DEF FinanceInv, HeldExactly, Holders
    <3>5. ServesLookedUp'
      BY <3>1, <3>2, ClientAssumption DEF FinanceInv, ServesLookedUp
    <3>6. WantsSchema' /\ OwnMutex'
      BY <3>2 DEF FinanceInv, WantsSchema, OwnMutex
    <3> QED BY <3>3, <3>4, <3>5, <3>6 DEF FinanceInv
  <2>4. ASSUME Restart PROVE FinanceInv'
    <3>1. TypeOK'
      <4>1. PoolTypeOK'
        BY <2>4 DEF Restart, PoolTypeOK
      <4>2. SessionTypeOK'
        BY <2>4 DEF Restart, SessionTypeOK, FinanceInv, TypeOK
      <4>3. LoaderTypeOK'
        BY <2>4 DEF Restart, LoaderTypeOK
      <4> QED BY <4>1, <4>2, <4>3 DEF TypeOK
    <3>2. \A u \in User : u \notin Holders' /\ HeldBy(u)' = {}
      BY <2>4 DEF Restart, Holders, HeldBy, Open
    <3>3. HeldExactly'
      BY <3>2 DEF HeldExactly
    <3>4. WantsSchema' /\ ServesLookedUp' /\ OwnMutex'
      BY <2>4 DEF Restart, WantsSchema, ServesLookedUp, OwnMutex
    <3> QED BY <3>1, <3>3, <3>4 DEF FinanceInv
  <2>5. CASE UNCHANGED vars
    <3>1. UNCHANGED <<conns, queue, registry, call, want, step, mutex, script, applied>>
      BY <2>5 DEF vars
    <3>2. TypeOK'
      BY <3>1 DEF FinanceInv, TypeOK, PoolTypeOK, SessionTypeOK, LoaderTypeOK
    <3>3. HeldExactly'
      BY <3>1 DEF FinanceInv, HeldExactly, Holders, HeldBy, Open
    <3>4. WantsSchema' /\ ServesLookedUp' /\ OwnMutex'
      BY <3>1 DEF FinanceInv, WantsSchema, ServesLookedUp, OwnMutex, HeldBy, Open
    <3> QED BY <3>2, <3>3, <3>4 DEF FinanceInv
  <2> QED BY <2>1, <2>2, <2>3, <2>4, <2>5 DEF Next
<1> QED BY <1>2, <1>3, PTL DEF Spec

\* The pool, the sessions and the loader stay well-typed; the schema a session
\* asks for is one of the registry's, never NULL or ''.
THEOREM FinanceTyped == Spec => []TypeOK
<1>1. FinanceInv => TypeOK
  BY DEF FinanceInv
<1> QED BY <1>1, FinanceInvHolds, PTL

\* A session works in the schema its own call looked up, whoever had its
\* connection before (Release does not reset the search_path).
THEOREM SessionsServeTheirSchema == Spec => []ServesLookedUp
<1>1. FinanceInv => ServesLookedUp
  BY DEF FinanceInv
<1> QED BY <1>1, FinanceInvHolds, PTL

\* Between Acquire and Release a goroutine holds exactly one connection, and
\* before and after it none, whichever step of the two fails.
THEOREM PoolNeitherLeaksNorShares == Spec => []NoLeak
<1>1. FinanceInv => NoLeak
  <2> SUFFICES ASSUME FinanceInv, NEW u \in User
               PROVE  Cardinality(HeldBy(u)) = IF u \in Holders THEN 1 ELSE 0
    BY DEF NoLeak, Holders
  <2>1. CASE u \in Holders
    <3>1. PICK k \in Conn : HeldBy(u) = {k}
      BY <2>1 DEF FinanceInv, HeldExactly
    <3> QED BY <2>1, <3>1, FS_Singleton
  <2>2. CASE u \notin Holders
    BY <2>2, FS_EmptySet DEF FinanceInv, HeldExactly
  <2> QED BY <2>1, <2>2
<1> QED BY <1>1, FinanceInvHolds, PTL

\* The provisioning script is executed by one goroutine at a time and not
\* started again once it has been applied.
THEOREM ScriptRunsAlone == Spec => []OneExecution
<1>1. FinanceInv => OneExecution
  <2> SUFFICES ASSUME FinanceInv PROVE OneExecution
    OBVIOUS
  <2> DEFINE executing == {c \in Caller : step[c] = "exec"}
  <2>1. \A c, d \in executing : c = d
    BY DEF FinanceInv, OwnMutex
  <2>2. executing = {} \/ \E c \in Caller : executing = {c}
    BY <2>1
  <2>3. Cardinality(executing) <= 1
    <3>1. CASE executing = {}
      BY <3>1, FS_EmptySet
    <3>2. CASE \E c \in Caller : executing = {c}
      <4>1. PICK c \in Caller : executing = {c}
        BY <3>2
      <4>2. Cardinality({c}) = 1
        BY FS_Singleton
      <4> HIDE DEF executing
      <4> QED BY <4>1, <4>2
    <3> QED BY <2>2, <3>1, <3>2
  <2>4. applied => \A c \in Caller : step[c] # "exec"
    BY DEF FinanceInv, OwnMutex
  <2> QED BY <2>3, <2>4 DEF OneExecution
<1> QED BY <1>1, FinanceInvHolds, PTL
=============================================================================
