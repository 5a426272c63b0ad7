------------------------------ MODULE ConnPool ------------------------------
(***************************************************************************)
(* A pgxpool.Pool as internal/db uses it: at most MaxConns connections,    *)
(* each with the search_path it was last given, lent to one user at a time *)
(* in the order of the Acquire calls.  The library is not in the           *)
(* repository; what matters here is that Release hands a connection on as  *)
(* it is, without resetting its session.                                   *)
(***************************************************************************)
EXTENDS Sequences, FiniteSets, Naturals

CONSTANTS Conn,         \* as many as config.MaxConns
          User,         \* goroutines that acquire
          Path,         \* search_path settings
          DefaultPath,  \* that of a new connection
          Nobody,       \* holder of an idle connection
          Closed        \* no connection in this place

ASSUME PoolAssumption ==
    /\ DefaultPath \in Path
    /\ Nobody \notin User
    /\ Conn # {}

VARIABLES conns,  \* Conn -> the connection
          queue   \* users blocked in Acquire

poolVars == <<conns, queue>>

Connection == [path : Path, by : User \cup {Nobody}]

ASSUME ClosedAssumption == Closed \notin Connection

PoolTypeOK ==
    /\ conns \in [Conn -> Connection \cup {Closed}]
    /\ queue \in Seq(User)

PoolInit ==
    /\ conns = [c \in Conn |-> Closed]
    /\ queue = << >>

Fresh(u) == [path |-> DefaultPath, by |-> u]
Open(c) == conns[c] # Closed
Idle(c) == Open(c) /\ conns[c].by = Nobody
HeldBy(u) == {c \in Conn : Open(c) /\ conns[c].by = u}

\* Acquire: wait in line, then an idle connection or, if none, a new one.
Join(u) == queue' = Append(queue, u)
Grant(u) ==
    /\ queue # << >> /\ u = Head(queue)
    /\ queue' = Tail(queue)
    /\ \E c \in Conn :
        \/ /\ Idle(c)
           /\ conns' = [conns EXCEPT ![c].by = u]
        \/ /\ ~Open(c) /\ \A d \in Conn : ~Idle(d)
           /\ conns' = [conns EXCEPT ![c] = Fresh(u)]

\* Acquire returns an error: the context is done, or no connection opens.
Leave(u) ==
    \E i \in DOMAIN queue :
        /\ queue[i] = u
        /\ queue' = SubSeq(queue, 1, i - 1) \o SubSeq(queue, i + 1, Len(queue))

\* Release: back to the pool, unless it broke or is past its lifetime.
Release(u) ==
    \/ conns' = [c \in Conn |->
                    IF c \in HeldBy(u) THEN [conns[c] EXCEPT !.by = Nobody] ELSE conns[c]]
    \/ conns' = [c \in Conn |-> IF c \in HeldBy(u) THEN Closed ELSE conns[c]]

\* The pool's own upkeep: lifetimes run out, MinConns are opened.
Upkeep ==
    /\ \E c \in Conn :
        \/ Idle(c) /\ conns' = [conns EXCEPT ![c] = Closed]
        \/ ~Open(c) /\ conns' = [conns EXCEPT ![c] = Fresh(Nobody)]
    /\ UNCHANGED queue
=============================================================================
