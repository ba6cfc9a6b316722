------------------------ MODULE ConnectionPoolProofs ------------------------
(***************************************************************************)
(* For any number of threads and any sizes of the pool with DB_POOL_MIN <= *)
(* DB_POOL_MAX: no connection is lost or shared, transactions stay inside  *)
(* transaction(), and the number of sessions is bounded.                   *)
(***************************************************************************)
EXTENDS ConnectionPool, FiniteSetTheorems, TLAPS

-----------------------------------------------------------------------------
(* The inductive invariant *)

\* The pool knows every connection that exists.
LinksKnown ==
  \A c \in Connections : link[c] = "absent" <=> c \notin idle \union used

\* Requests come after init_db_pool.
BootFirst ==
  boot # "serving" => idle = {} /\ used = {} /\ \A t \in Threads : pc[t] = "free"

\* From get_db on a request has a connection; before it, it has none.
HeldByStep ==
  \A t \in Threads :
    /\ pc[t] \in {"probe", "work", "writing"} => db[t] # None
    /\ pc[t] \in {"free", "health", "api"} => db[t] = None

\* Outside transaction(), a request runs in autocommit mode.
ReadsAutocommit ==
  \A t \in Threads : pc[t] \in {"probe", "work"} => autocommit[db[t]]

\* PostgreSQL keeps transactions on sessions that exist.
OpenOnLive == \A c \in Connections : open[c] => link[c] = "live"

ScopeInv == ReadsAutocommit /\ TransactionsScoped /\ OpenOnLive

PoolNotExceeded == Cardinality(used) + Cardinality(idle) <= DB_POOL_MAX

PoolInv == TypeOK /\ ConnectionsAccounted /\ LinksKnown /\ BootFirst /\ HeldByStep

IInv == PoolInv /\ ScopeInv /\ PoolNotExceeded

-----------------------------------------------------------------------------
LEMMA InitInv == Init => IInv
<1> SUFFICES ASSUME Init PROVE IInv
  OBVIOUS
<1>1. PoolInv
  BY RetriesAssumption, ConnectionsAssumption
  DEF Init, PoolInv, TypeOK, Steps, Links, ConnectionsAccounted, Lent, LinksKnown,
      BootFirst, HeldByStep
<1>2. ScopeInv
  BY DEF Init, ScopeInv, ReadsAutocommit, TransactionsScoped, OpenOnLive
<1>3. PoolNotExceeded
  BY FS_EmptySet, PoolAssumption DEF Init, PoolNotExceeded
<1> QED
  BY <1>1, <1>2, <1>3 DEF IInv

LEMMA FlagUpdate ==
  ASSUME NEW f \in [Connections -> BOOLEAN], NEW c, NEW b \in BOOLEAN
  PROVE  [f EXCEPT ![c] = b] \in [Connections -> BOOLEAN]
OBVIOUS

\* The steps of get_db and close_db that move connections.
LEMMA StepPool == PoolInv /\ [Next]_vars => PoolInv'
<1> SUFFICES ASSUME PoolInv, [Next]_vars PROVE PoolInv'
  OBVIOUS
<1> USE ConnectionsAssumption, RetriesAssumption
    DEF PoolInv, TypeOK, Steps, Links, ConnectionsAccounted, Lent, LinksKnown, BootFirst,
        HeldByStep, bootVars, Raise
<1>1. CASE StartDatabase
  BY <1>1 DEF StartDatabase
<1>2. CASE StopDatabase
  <2>1. link' \in [Connections -> Links]
    BY <1>2 DEF StopDatabase
  <2>2. \A c \in Connections : link'[c] = "absent" <=> link[c] = "absent"
    BY <1>2 DEF StopDatabase
  <2>3. /\ open' \in [Connections -> BOOLEAN]
        /\ dbUp' \in BOOLEAN
        /\ UNCHANGED <<boot, attempt, idle, used, autocommit, db, pc, status>>
    BY <1>2 DEF StopDatabase
  <2> QED
    BY <2>1, <2>2, <2>3
<1>3. CASE InitDbPool
  BY <1>3 DEF InitDbPool
<1>4. CASE RetryInit
  BY <1>4 DEF RetryInit
<1>5. CASE GiveUp
  BY <1>5 DEF GiveUp
<1>6. ASSUME NEW t \in Threads, Arrive(t) PROVE PoolInv'
  BY <1>6 DEF Arrive
<1>7. ASSUME NEW t \in Threads, GetDb(t) PROVE PoolInv'
  BY <1>7 DEF GetDb, Getconn, Normalize
<1>8. ASSUME NEW t \in Threads, GetDbRaises(t) PROVE PoolInv'
  BY <1>8 DEF GetDbRaises
<1>9. ASSUME NEW t \in Threads, Probe(t) PROVE PoolInv'
  BY <1>9 DEF Probe, Execute
<1>10. ASSUME NEW t \in Threads, Statement(t) PROVE PoolInv'
  BY <1>10 DEF Statement, Execute
<1>11. ASSUME NEW t \in Threads, NoticeClosed(t) PROVE PoolInv'
  BY <1>11 DEF NoticeClosed
<1>12. ASSUME NEW t \in Threads, Begin(t) PROVE PoolInv'
  BY <1>12 DEF Begin
<1>13. ASSUME NEW t \in Threads, Commit(t) \/ Rollback(t) PROVE PoolInv'
  <2>1. /\ pc[t] = "writing"
        /\ UNCHANGED <<dbUp, boot, attempt, idle, used, link, db>>
        /\ open' \in [Connections -> BOOLEAN]
        /\ autocommit' \in [Connections -> BOOLEAN]
    <3>1. EndTransaction(t)
      BY <1>13 DEF Commit, Rollback
    <3> QED
      BY <3>1, FlagUpdate DEF EndTransaction
  <2>2. CASE Commit(t)
    <3>1. pc' = [pc EXCEPT ![t] = "work"] /\ status' = status
      BY <2>2 DEF Commit
    <3> QED
      BY <2>1, <3>1
  <2>3. CASE Rollback(t)
    <3>1. /\ pc' = [pc EXCEPT ![t] = "closing"]
          /\ status' = [status EXCEPT ![t] = 500]
      BY <2>1, <2>3 DEF Rollback
    <3> QED
      BY <2>1, <3>1
  <2> QED
    BY <1>13, <2>2, <2>3
<1>14. ASSUME NEW t \in Threads, Respond(t) PROVE PoolInv'
  BY <1>14 DEF Respond
<1>15. ASSUME NEW t \in Threads, Fail(t) PROVE PoolInv'
  BY <1>15 DEF Fail
<1>16. ASSUME NEW t \in Threads, CloseDb(t) PROVE PoolInv'
  <2>1. /\ pc[t] = "closing"
        /\ pc' = [pc EXCEPT ![t] = "free"]
        /\ db' = [db EXCEPT ![t] = None]
        /\ status' = [status EXCEPT ![t] = 0]
        /\ UNCHANGED <<dbUp, boot, attempt>>
    BY <1>16 DEF CloseDb
  <2>2. CASE db[t] = None
    BY <1>16, <2>1, <2>2 DEF CloseDb
  <2>3. CASE db[t] # None
    <3>1. Putconn(db[t]) /\ open' \in [Connections -> BOOLEAN]
      BY <1>16, <2>3, FlagUpdate DEF CloseDb
    <3>2. db[t] \in used /\ db[t] \notin idle
      BY <2>3
    <3>3. /\ link' \in [Connections -> Links]
          /\ autocommit' \in [Connections -> BOOLEAN]
          /\ idle' \subseteq Connections
          /\ used' = used \ {db[t]}
      BY <3>1, <3>2 DEF Putconn
    <3>4. LinksKnown' /\ used' \intersect idle' = {}
      BY <3>1, <3>2 DEF Putconn
    <3>5. used' = Lent'
      BY <2>1, <2>3, <3>3
    <3>6. \A u, v \in Threads : db'[u] = db'[v] /\ db'[u] # None => u = v
      BY <2>1
    <3>7. BootFirst' /\ HeldByStep'
      BY <2>1, <3>3
    <3>8. TypeOK'
      BY <2>1, <3>1, <3>3
    <3> QED
      BY <3>4, <3>5, <3>6, <3>7, <3>8
  <2> QED
    BY <2>2, <2>3
<1>17. CASE UNCHANGED vars
  BY <1>17 DEF vars
<1> QED
  BY <1>1, <1>2, <1>3, <1>4, <1>5, <1>6, <1>7, <1>8, <1>9, <1>10, <1>11, <1>12, <1>13,
     <1>14, <1>15, <1>16, <1>17 DEF Next, Boot, Handle

\* Who opens a transaction is inside transaction(), who leaves it has closed it.
LEMMA StepScope == PoolInv /\ ScopeInv /\ [Next]_vars => ScopeInv'
<1> SUFFICES ASSUME PoolInv, ScopeInv, [Next]_vars PROVE ScopeInv'
  OBVIOUS
<1> USE ConnectionsAssumption
    DEF PoolInv, TypeOK, Steps, Links, ConnectionsAccounted, Lent, LinksKnown, HeldByStep,
        ScopeInv, ReadsAutocommit, TransactionsScoped, OpenOnLive, bootVars, Raise
<1>1. CASE StartDatabase
  BY <1>1 DEF StartDatabase
<1>2. CASE StopDatabase
  BY <1>2 DEF StopDatabase
<1>3. CASE InitDbPool
  BY <1>3 DEF InitDbPool, BootFirst
<1>4. CASE RetryInit \/ GiveUp
  BY <1>4 DEF RetryInit, GiveUp
<1>5. ASSUME NEW t \in Threads, Arrive(t) PROVE ScopeInv'
  BY <1>5 DEF Arrive
<1>6. ASSUME NEW t \in Threads, GetDb(t) PROVE ScopeInv'
  BY <1>6 DEF GetDb, Getconn, Normalize
<1>7. ASSUME NEW t \in Threads, GetDbRaises(t) PROVE ScopeInv'
  BY <1>7 DEF GetDbRaises
<1>8. ASSUME NEW t \in Threads, Probe(t) PROVE ScopeInv'
  BY <1>8 DEF Probe, Execute
<1>9. ASSUME NEW t \in Threads, Statement(t) PROVE ScopeInv'
  BY <1>9 DEF Statement, Execute
<1>10. ASSUME NEW t \in Threads, NoticeClosed(t) PROVE ScopeInv'
  BY <1>10 DEF NoticeClosed
<1>11. ASSUME NEW t \in Threads, Begin(t) PROVE ScopeInv'
  BY <1>11 DEF Begin
<1>12. ASSUME NEW t \in Threads, Commit(t) PROVE ScopeInv'
  BY <1>12 DEF Commit, EndTransaction
<1>13. ASSUME NEW t \in Threads, Rollback(t) PROVE ScopeInv'
  BY <1>13 DEF Rollback, EndTransaction
<1>14. ASSUME NEW t \in Threads, Respond(t) PROVE ScopeInv'
  BY <1>14 DEF Respond
<1>15. ASSUME NEW t \in Threads, Fail(t) PROVE ScopeInv'
  BY <1>15 DEF Fail
<1>16. ASSUME NEW t \in Threads, CloseDb(t) PROVE ScopeInv'
  BY <1>16 DEF CloseDb, Putconn
<1>17. CASE UNCHANGED vars
  BY <1>17 DEF vars
<1> QED
  BY <1>1, <1>2, <1>3, <1>4, <1>5, <1>6, <1>7, <1>8, <1>9, <1>10, <1>11, <1>12, <1>13,
     <1>14, <1>15, <1>16, <1>17 DEF Next, Boot, Handle

LEMMA OneMore ==
  ASSUME NEW S, IsFiniteSet(S), Cardinality(S) \in Nat, NEW x
  PROVE  Cardinality(S \union {x}) \in Nat /\ Cardinality(S \union {x}) <= Cardinality(S) + 1
<1>1. CASE x \in S
  BY <1>1, FS_AddElement
<1>2. CASE x \notin S
  BY <1>2, FS_AddElement
<1> QED
  BY <1>1, <1>2

\* A connection is opened only while none waits and fewer than DB_POOL_MAX are lent.
LEMMA StepSize == PoolInv /\ PoolNotExceeded /\ [Next]_vars => PoolNotExceeded'
<1> SUFFICES ASSUME PoolInv, PoolNotExceeded, [Next]_vars PROVE PoolNotExceeded'
  OBVIOUS
<1>1. /\ IsFiniteSet(idle) /\ Cardinality(idle) \in Nat
      /\ IsFiniteSet(used) /\ Cardinality(used) \in Nat
  BY ConnectionsAssumption, FS_Subset, FS_CardinalityType DEF PoolInv, TypeOK
<1> USE PoolAssumption DEF PoolNotExceeded
<1>2. CASE InitDbPool
  <2>1. used' = {} /\ Cardinality(idle') = DB_POOL_MIN
    BY <1>2 DEF InitDbPool, PoolSize, PoolInv, BootFirst
  <2> QED
    BY <2>1, FS_EmptySet
<1>3. ASSUME NEW t \in Threads, GetDb(t) PROVE PoolNotExceeded'
  <2>1. PICK c \in Connections : Getconn(c)
    BY <1>3 DEF GetDb
  <2>2. Cardinality(used') <= Cardinality(used) + 1 /\ Cardinality(used') \in Nat
    <3>1. used' = used \union {c}
      BY <2>1 DEF Getconn
    <3> QED
      BY <3>1, <1>1, OneMore
  <2>3. CASE c \in idle
    <3>1. Cardinality(idle') = Cardinality(idle) - 1
      BY <2>1, <2>3, <1>1, FS_RemoveElement DEF Getconn
    <3> QED
      BY <1>1, <2>2, <3>1
  <2>4. CASE c \notin idle
    <3>1. idle = {} /\ idle' = {} /\ Cardinality(used) # DB_POOL_MAX
      BY <2>1, <2>4 DEF Getconn, PoolSize
    <3> QED
      BY <1>1, <2>2, <3>1, FS_EmptySet
  <2> QED
    BY <2>3, <2>4
<1>4. ASSUME NEW t \in Threads, CloseDb(t) PROVE PoolNotExceeded'
  <2>1. CASE db[t] = None
    BY <1>4, <2>1 DEF CloseDb
  <2>2. CASE db[t] # None
    <3>1. Putconn(db[t]) /\ db[t] \in used
      BY <1>4, <2>2 DEF CloseDb, PoolInv, ConnectionsAccounted, Lent
    <3>2. Cardinality(used') = Cardinality(used) - 1
      BY <1>1, <3>1, FS_RemoveElement DEF Putconn
    <3>3. Cardinality(idle') <= Cardinality(idle) + 1 /\ Cardinality(idle') \in Nat
      <4>1. idle' = idle \/ idle' = idle \union {db[t]}
        BY <3>1 DEF Putconn
      <4>2. CASE idle' = idle
        BY <4>2, <1>1
      <4>3. CASE idle' = idle \union {db[t]}
        BY <4>3, <1>1, OneMore
      <4> QED
        BY <4>1, <4>2, <4>3
    <3> QED
      BY <1>1, <3>2, <3>3
  <2> QED
    BY <2>1, <2>2
<1>5. CASE UNCHANGED <<idle, used>>
  BY <1>5
<1> QED
  BY <1>2, <1>3, <1>4, <1>5
  DEF Next, Boot, Handle, vars, StartDatabase, StopDatabase, RetryInit, GiveUp, Arrive,
      GetDbRaises, Probe, Statement, NoticeClosed, Begin, Commit, Rollback, EndTransaction,
      Respond, Fail

-----------------------------------------------------------------------------
THEOREM Invariance == Spec => []IInv
<1>1. IInv /\ [Next]_vars => IInv'
  BY StepPool, StepScope, StepSize DEF IInv
<1> QED
  BY InitInv, <1>1, PTL DEF Spec

(***************************************************************************)
(* The state of the pool, of its connections and of the requests is typed. *)
(***************************************************************************)
THEOREM Types == Spec => []TypeOK
<1>1. IInv => TypeOK
  BY DEF IInv, PoolInv
<1> QED
  BY <1>1, Invariance, PTL

(***************************************************************************)
(* get_db and close_db lose no connection and share none between threads.  *)
(***************************************************************************)
THEOREM NoConnectionLost == Spec => []ConnectionsAccounted
<1>1. IInv => ConnectionsAccounted
  BY DEF IInv, PoolInv
<1> QED
  BY <1>1, Invariance, PTL

(***************************************************************************)
(* No transaction stays open outside transaction() of src/app/db.py.       *)
(***************************************************************************)
THEOREM NoStrayTransaction == Spec => []TransactionsScoped
<1>1. IInv => TransactionsScoped
  BY DEF IInv, ScopeInv
<1> QED
  BY <1>1, Invariance, PTL

(***************************************************************************)
(* A process has at most DB_POOL_MAX sessions, if DB_POOL_MIN is not the   *)
(* larger of the two.                                                      *)
(***************************************************************************)
THEOREM SessionLimit == Spec => []SessionsBounded
<1>1. ASSUME IInv PROVE SessionsBounded
  <2> DEFINE sessions == {c \in Connections : link[c] \in {"live", "stale"}}
  <2>1. /\ IsFiniteSet(idle) /\ IsFiniteSet(used)
        /\ Cardinality(idle) \in Nat /\ Cardinality(used) \in Nat
    BY <1>1, ConnectionsAssumption, FS_Subset, FS_CardinalityType DEF IInv, PoolInv, TypeOK
  <2>2. sessions \subseteq idle \union used
    BY <1>1 DEF IInv, PoolInv, LinksKnown
  <2>3. /\ IsFiniteSet(idle \union used)
        /\ Cardinality(idle \union used)
             = Cardinality(idle) + Cardinality(used) - Cardinality(idle \intersect used)
    BY <2>1, FS_Union
  <2>4. Cardinality(idle \intersect used) = 0
    BY <1>1, FS_EmptySet DEF IInv, PoolInv, ConnectionsAccounted
  <2>5. Cardinality(sessions) <= Cardinality(idle \union used)
    BY <2>2, <2>3, FS_Subset
  <2>6. Cardinality(sessions) \in Nat
    BY <2>2, <2>3, FS_Subset, FS_CardinalityType
  <2>7. Cardinality(sessions) <= DB_POOL_MAX
    BY <1>1, <2>1, <2>3, <2>4, <2>5, <2>6, PoolAssumption DEF IInv, PoolNotExceeded
  <2> QED
    BY <2>7 DEF SessionsBounded
<1> QED
  BY <1>1, Invariance, PTL
=============================================================================
