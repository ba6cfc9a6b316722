--------------------------- MODULE ConnectionPool ---------------------------
(***************************************************************************)
(* The database connections of one process: init_db_pool, get_db, close_db *)
(* and transaction of src/app/db.py, GET /health, and the requests of      *)
(* several threads that borrow connections while PostgreSQL goes down and  *)
(* comes back.                                                             *)
(*                                                                         *)
(* What a request reads and writes is left out (OrderService and           *)
(* Idempotency have that): it executes statements, enters and leaves       *)
(* transaction(), and answers.  psycopg2.pool.ThreadedConnectionPool is    *)
(* external: Getconn, Exhausted and Putconn say what db.py relies on.      *)
(***************************************************************************)
EXTENDS Naturals, FiniteSets

CONSTANTS
  Threads,      \* threads of the server, each with one request at a time
  Connections,  \* names for connections; a discarded one is used again
  DB_POOL_MIN,
  DB_POOL_MAX,
  Retries,      \* parameter retries of init_db_pool
  None          \* no connection in g

ASSUME ConnectionsAssumption == IsFiniteSet(Connections) /\ None \notin Connections

\* The code does not compare the two sizes; the defaults are 2 and 10.
ASSUME PoolAssumption ==
  /\ DB_POOL_MIN \in Nat
  /\ DB_POOL_MAX \in Nat
  /\ DB_POOL_MIN <= DB_POOL_MAX

ASSUME RetriesAssumption == Retries \in Nat \ {0}

VARIABLES
  dbUp,        \* PostgreSQL accepts connections
  boot,        \* has init_db_pool returned?
  attempt,     \* its loop variable
  idle,        \* connections that wait in the pool
  used,        \* connections the pool has lent
  link,        \* connection: see Links
  autocommit,  \* connection: attribute autocommit
  open,        \* connection: PostgreSQL has a transaction open on it
  db,          \* thread: g.db of its request
  pc,          \* thread: where its request is
  status       \* thread: HTTP status of its request, 0 before the answer

bootVars == <<boot, attempt>>
vars == <<dbUp, boot, attempt, idle, used, link, autocommit, open, db, pc, status>>

\* stale: PostgreSQL has gone, the client has not noticed.  closed: it has.
Links == {"absent", "live", "stale", "closed"}

Steps == {"free", "health", "api", "probe", "work", "writing", "closing"}

TypeOK ==
  /\ dbUp \in BOOLEAN
  /\ boot \in {"booting", "serving", "failed"}
  /\ attempt \in 1 .. Retries
  /\ idle \subseteq Connections
  /\ used \subseteq Connections
  /\ link \in [Connections -> Links]
  /\ autocommit \in [Connections -> BOOLEAN]
  /\ open \in [Connections -> BOOLEAN]
  /\ db \in [Threads -> Connections \union {None}]
  /\ pc \in [Threads -> Steps]
  /\ status \in [Threads -> {0, 200, 500, 503}]

-----------------------------------------------------------------------------
Init ==
  /\ dbUp \in BOOLEAN
  /\ boot = "booting"
  /\ attempt = 1
  /\ idle = {}
  /\ used = {}
  /\ link = [c \in Connections |-> "absent"]
  /\ autocommit = [c \in Connections |-> FALSE]
  /\ open = [c \in Connections |-> FALSE]
  /\ db = [t \in Threads |-> None]
  /\ pc = [t \in Threads |-> "free"]
  /\ status = [t \in Threads |-> 0]

-----------------------------------------------------------------------------
(* PostgreSQL *)

StartDatabase ==
  /\ ~dbUp
  /\ dbUp' = TRUE
  /\ UNCHANGED <<bootVars, idle, used, link, autocommit, open, db, pc, status>>

\* Open transactions are rolled back; clients notice at their next statement.
StopDatabase ==
  /\ dbUp
  /\ dbUp' = FALSE
  /\ link' = [c \in Connections |-> IF link[c] = "live" THEN "stale" ELSE link[c]]
  /\ open' = [c \in Connections |-> FALSE]
  /\ UNCHANGED <<bootVars, idle, used, autocommit, db, pc, status>>

-----------------------------------------------------------------------------
(* init_db_pool *)

\* A bug to detect: the two sizes are passed in the wrong order.
SwappedPoolSize == [minconn |-> DB_POOL_MAX, maxconn |-> DB_POOL_MIN]

\* The arguments of ThreadedConnectionPool.
PoolSize == [minconn |-> DB_POOL_MIN, maxconn |-> DB_POOL_MAX]

InitDbPool ==
  /\ boot = "booting"
  /\ dbUp
  /\ boot' = "serving"
  /\ \E C \in SUBSET Connections :
       /\ Cardinality(C) = PoolSize.minconn
       /\ idle' = C
       /\ link' = [c \in Connections |-> IF c \in C THEN "live" ELSE "absent"]
  /\ UNCHANGED <<dbUp, attempt, used, autocommit, open, db, pc, status>>

\* OperationalError, and a pause before the next attempt.
RetryInit ==
  /\ boot = "booting"
  /\ ~dbUp
  /\ attempt < Retries
  /\ attempt' = attempt + 1
  /\ UNCHANGED <<dbUp, boot, idle, used, link, autocommit, open, db, pc, status>>

\* RuntimeError: the process does not start.
GiveUp ==
  /\ boot = "booting"
  /\ ~dbUp
  /\ attempt = Retries
  /\ boot' = "failed"
  /\ UNCHANGED <<dbUp, attempt, idle, used, link, autocommit, open, db, pc, status>>

-----------------------------------------------------------------------------
(* The pool.  Waiting for a connection is not among what it offers. *)

\* A waiting connection, whatever its state, or a new one if none waits.
Getconn(c) ==
  /\ used' = used \union {c}
  /\ \/ /\ c \in idle
        /\ idle' = idle \ {c}
        /\ UNCHANGED link
     \/ /\ idle = {}
        /\ Cardinality(used) # PoolSize.maxconn
        /\ dbUp
        /\ link[c] = "absent"
        /\ link' = [link EXCEPT ![c] = "live"]
        /\ UNCHANGED idle

\* PoolError, or OperationalError of a new connection.
NoConnection == idle = {} /\ (Cardinality(used) = PoolSize.maxconn \/ ~dbUp)

\* Keep it if fewer than minconn wait and it is not known to be closed.
Putconn(c) ==
  LET kept == Cardinality(idle) < PoolSize.minconn /\ link[c] # "closed"
  IN /\ used' = used \ {c}
     /\ idle' = IF kept THEN idle \union {c} ELSE idle
     /\ link' = IF kept THEN link ELSE [link EXCEPT ![c] = "absent"]
     /\ autocommit' = IF kept THEN autocommit ELSE [autocommit EXCEPT ![c] = FALSE]

-----------------------------------------------------------------------------
(* Requests *)

Arrive(t) ==
  /\ boot = "serving"
  /\ pc[t] = "free"
  /\ \E route \in {"health", "api"} : pc' = [pc EXCEPT ![t] = route]
  /\ UNCHANGED <<dbUp, bootVars, idle, used, link, autocommit, open, db, status>>

\* The error handler, or the except clause of health().
Raise(t) ==
  /\ pc' = [pc EXCEPT ![t] = "closing"]
  /\ status' = [status EXCEPT ![t] = IF pc[t] \in {"health", "probe"} THEN 503 ELSE 500]

\* A bug to detect: autocommit stays what it was, FALSE on a new connection.
RollbackOnly(c) ==
  /\ open' = [open EXCEPT ![c] = FALSE]
  /\ UNCHANGED autocommit

\* rollback() and autocommit = True; neither talks to PostgreSQL on a
\* connection without a transaction, so neither finds out that it is stale.
Normalize(c) ==
  /\ open' = [open EXCEPT ![c] = FALSE]
  /\ autocommit' = [autocommit EXCEPT ![c] = TRUE]

GetDb(t) ==
  /\ pc[t] \in {"health", "api"}
  /\ \E c \in Connections :
       /\ Getconn(c)
       /\ Normalize(c)
       /\ db' = [db EXCEPT ![t] = c]
  /\ pc' = [pc EXCEPT ![t] = IF pc[t] = "health" THEN "probe" ELSE "work"]
  /\ UNCHANGED <<dbUp, bootVars, status>>

GetDbRaises(t) ==
  /\ pc[t] \in {"health", "api"}
  /\ NoConnection
  /\ Raise(t)
  /\ UNCHANGED <<dbUp, bootVars, idle, used, link, autocommit, open, db>>

\* Without autocommit, a statement opens a transaction.
Execute(c) ==
  /\ link[c] = "live"
  /\ open' = [open EXCEPT ![c] = ~autocommit[c]]

\* health(): SELECT 1.
Probe(t) ==
  /\ pc[t] = "probe"
  /\ Execute(db[t])
  /\ pc' = [pc EXCEPT ![t] = "closing"]
  /\ status' = [status EXCEPT ![t] = 200]
  /\ UNCHANGED <<dbUp, bootVars, idle, used, link, autocommit, db>>

Statement(t) ==
  /\ pc[t] \in {"work", "writing"}
  /\ Execute(db[t])
  /\ UNCHANGED <<dbUp, bootVars, idle, used, link, autocommit, db, pc, status>>

\* A statement or a COMMIT finds the session gone.  In transaction(), rollback()
\* and autocommit = True raise in their turn: the connection is closed by now.
NoticeClosed(t) ==
  /\ pc[t] \in {"probe", "work", "writing"}
  /\ link[db[t]] = "stale"
  /\ link' = [link EXCEPT ![db[t]] = "closed"]
  /\ Raise(t)
  /\ UNCHANGED <<dbUp, bootVars, idle, used, autocommit, open, db>>

\* transaction(), on entry.
Begin(t) ==
  /\ pc[t] = "work"
  /\ autocommit' = [autocommit EXCEPT ![db[t]] = FALSE]
  /\ pc' = [pc EXCEPT ![t] = "writing"]
  /\ UNCHANGED <<dbUp, bootVars, idle, used, link, open, db, status>>

\* commit() or rollback(), and the finally clause.
EndTransaction(t) ==
  /\ pc[t] = "writing"
  /\ link[db[t]] = "live"
  /\ open[db[t]]
  /\ open' = [open EXCEPT ![db[t]] = FALSE]
  /\ autocommit' = [autocommit EXCEPT ![db[t]] = TRUE]
  /\ UNCHANGED <<dbUp, bootVars, idle, used, link, db>>

Commit(t) ==
  /\ EndTransaction(t)
  /\ pc' = [pc EXCEPT ![t] = "work"]
  /\ UNCHANGED status

Rollback(t) ==
  /\ EndTransaction(t)
  /\ Raise(t)

\* The handler returns.
Respond(t) ==
  /\ pc[t] = "work"
  /\ pc' = [pc EXCEPT ![t] = "closing"]
  /\ status' = [status EXCEPT ![t] = 200]
  /\ UNCHANGED <<dbUp, bootVars, idle, used, link, autocommit, open, db>>

\* It raises although its connection is sound: an ApiError, a statement timeout.
Fail(t) ==
  /\ pc[t] = "work"
  /\ Raise(t)
  /\ UNCHANGED <<dbUp, bootVars, idle, used, link, autocommit, open, db>>

\* A bug to detect: the test of conn is missing.
PutBackAlways(t) ==
  /\ pc[t] = "closing"
  /\ idle' = idle \union {db[t]}
  /\ used' = used \ {db[t]}
  /\ db' = [db EXCEPT ![t] = None]
  /\ pc' = [pc EXCEPT ![t] = "free"]
  /\ status' = [status EXCEPT ![t] = 0]
  /\ UNCHANGED <<dbUp, bootVars, link, autocommit, open>>

\* A bug to detect: putconn only if the connection is not closed.
PutBackUnlessClosed(t) ==
  /\ pc[t] = "closing"
  /\ IF db[t] # None /\ link[db[t]] # "closed"
     THEN /\ open' = [open EXCEPT ![db[t]] = FALSE]
          /\ Putconn(db[t])
     ELSE UNCHANGED <<idle, used, link, autocommit, open>>
  /\ db' = [db EXCEPT ![t] = None]
  /\ pc' = [pc EXCEPT ![t] = "free"]
  /\ status' = [status EXCEPT ![t] = 0]
  /\ UNCHANGED <<dbUp, bootVars>>

\* Teardown: close_db.
CloseDb(t) ==
  /\ pc[t] = "closing"
  /\ IF db[t] # None
     THEN /\ open' = [open EXCEPT ![db[t]] = FALSE]
          /\ Putconn(db[t])
     ELSE UNCHANGED <<idle, used, link, autocommit, open>>
  /\ db' = [db EXCEPT ![t] = None]
  /\ pc' = [pc EXCEPT ![t] = "free"]
  /\ status' = [status EXCEPT ![t] = 0]
  /\ UNCHANGED <<dbUp, bootVars>>

Boot == InitDbPool \/ RetryInit \/ GiveUp

Handle(t) ==
  \/ GetDb(t) \/ GetDbRaises(t)
  \/ Probe(t) \/ Statement(t) \/ NoticeClosed(t)
  \/ Begin(t) \/ Commit(t) \/ Rollback(t)
  \/ Respond(t) \/ Fail(t)
  \/ CloseDb(t)

Next ==
  \/ StartDatabase \/ StopDatabase
  \/ Boot
  \/ \E t \in Threads : Arrive(t) \/ Handle(t)

Spec == Init /\ [][Next]_vars

FairSpec == Spec /\ WF_vars(Boot) /\ \A t \in Threads : WF_vars(Handle(t))

-----------------------------------------------------------------------------
(* Safety *)

Lent == {db[t] : t \in Threads} \ {None}

(***************************************************************************)
(* What the pool has lent is held by a request in flight, and by one only: *)
(* no path through get_db and close_db, with whatever raises on it, loses  *)
(* a connection (the pool would shrink for good) or gives it to two        *)
(* threads (their statements would mix in one session).                    *)
(***************************************************************************)
ConnectionsAccounted ==
  /\ used = Lent
  /\ used \intersect idle = {}
  /\ \A t, u \in Threads : db[t] = db[u] /\ db[t] # None => t = u

(***************************************************************************)
(* PostgreSQL has a transaction open only on the connection of a request   *)
(* that is inside transaction(): reads leave none, and none comes back to  *)
(* the pool, where it would keep its row locks (db.py:55-60, 75).          *)
(***************************************************************************)
TransactionsScoped ==
  \A c \in Connections :
    open[c] => \E t \in Threads : db[t] = c /\ pc[t] = "writing"

(***************************************************************************)
(* A process never has more than DB_POOL_MAX sessions with PostgreSQL, on  *)
(* which the sizing of max_connections rests (config.py:12-15).            *)
(***************************************************************************)
SessionsBounded ==
  Cardinality({c \in Connections : link[c] \in {"live", "stale"}}) <= DB_POOL_MAX

-----------------------------------------------------------------------------
(* Liveness *)

Calm ==
  /\ boot = "serving"
  /\ dbUp
  /\ Cardinality({t \in Threads : pc[t] # "free"}) <= DB_POOL_MAX

(***************************************************************************)
(* The pool heals by itself: when PostgreSQL is back for good, and there   *)
(* are no more requests than connections, a time comes after which /health *)
(* never again reports that the database is unreachable.                   *)
(***************************************************************************)
HealthRecovers ==
  <>[]Calm => <>[](\A t \in Threads : ~(pc[t] = "closing" /\ status[t] = 503))
=============================================================================
