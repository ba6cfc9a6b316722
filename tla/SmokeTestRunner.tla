-------------------------- MODULE SmokeTestRunner ---------------------------
(***************************************************************************)
(* The dashboard (src/app/routes/dashboard.py, src/app/static/dashboard.js)*)
(* on the server of src/Dockerfile: a few synchronous workers that take    *)
(* requests from one backlog.                                              *)
(*                                                                         *)
(* run_smoke_test keeps its worker while a subprocess calls this same      *)
(* server, so that suites started from several pages wait for each other's *)
(* workers; what ends them is a timeout.  A worker that gunicorn aborts is *)
(* replaced by one that has to reach the database first (init_db_pool in   *)
(* src/app/db.py), and one that gives up takes the whole server down.      *)
(* Meanwhile every page polls /health and shows what arrives last.         *)
(***************************************************************************)
EXTENDS Integers, Sequences, FiniteSets

CONSTANTS
  Pages,     \* browsers that show the dashboard
  Watching,  \* the pages whose badge is followed
  Workers,   \* gunicorn --workers
  Calls,     \* HTTP calls of scripts/smoke_test.py ...
  Burst,     \* ... the last of which are made at once, by the threads of its test 7
  Polls,     \* the fetches of /health a page may have under way at once (bound)
  MaxRuns,   \* how often the buttons are pressed (bound)
  Idle,      \* a worker without a request
  NoSuite    \* no subprocess

ASSUME WorkersAssumption == IsFiniteSet(Workers)
ASSUME CallsAssumption == Calls \in Nat \ {0} /\ Burst \in 1 .. Calls
ASSUME MaxRunsAssumption == MaxRuns \in Nat
ASSUME WatchingAssumption == Watching \subseteq Pages /\ Polls \subseteq Nat

VARIABLES
  backlog,   \* accepted by the kernel, not yet by a worker
  worker,    \* the request each worker is busy with
  booting,   \* the workers that are new and still in init_db_pool
  server,    \* gunicorn: serving, halting once a worker failed to boot, or halted
  suite,     \* the subprocess started for a page: calls to make, calls unanswered
  presses,   \* how often a button was pressed
  disabled,  \* button.disabled
  poll,      \* fetches of /health: none, sent, or what the response says
  badge,     \* what the page shows of the database
  database   \* whether the database is up

gunicorn == <<booting, server>>
vars == <<backlog, worker, gunicorn, suite, presses, disabled, poll, badge, database>>

\* A request: which call, poll or run of its page it is.
Job(kind, p, no) == [kind |-> kind, page |-> p, no |-> no]

Jobs ==
  [kind : {"run", "call"}, page : Pages, no : 1 .. MaxRuns]
    \union [kind : {"health"}, page : Watching, no : Polls]

Suite == [no : 1 .. MaxRuns, left : 0 .. Calls, open : 0 .. Burst]

ASSUME IdleAssumption == Idle \notin [kind : {"run", "call", "health"}, page : Pages, no : Nat]
ASSUME NoSuiteAssumption == NoSuite \notin [no : Nat, left : Int, open : Int]

TypeOK ==
  /\ backlog \in Seq(Jobs)
  /\ worker \in [Workers -> Jobs \union {Idle}]
  /\ booting \subseteq Workers
  /\ server \in {"serving", "halting", "halted"}
  /\ suite \in [Pages -> Suite \union {NoSuite}]
  /\ presses \in 0 .. MaxRuns
  /\ disabled \in [Pages -> BOOLEAN]
  /\ poll \in [Watching -> [Polls -> {"none", "sent", "up", "down"}]]
  /\ badge \in [Watching -> {"up", "down"}]
  /\ database \in {"up", "down"}

Init ==
  /\ backlog = <<>>
  /\ worker = [w \in Workers |-> Idle]
  /\ booting = {}
  /\ server = "serving"
  /\ suite = [p \in Pages |-> NoSuite]
  /\ presses = 0
  /\ disabled = [p \in Pages |-> FALSE]
  /\ poll = [p \in Watching |-> [i \in Polls |-> "none"]]
  /\ badge \in [Watching -> {"up", "down"}]
  /\ database \in {"up", "down"}

Arrives(job) == backlog' = Append(backlog, job)

Leaves(w) == worker' = [worker EXCEPT ![w] = Idle]

BusyWith(w, kind) == worker[w] # Idle /\ worker[w].kind = kind

\* What a worker, and the suite of a page, can do without a timeout.
CanAccept(w) ==
  /\ server = "serving"
  /\ worker[w] = Idle /\ w \notin booting
  /\ backlog # <<>>

\* A bug to detect: without a timeout, a health check waits until the database is back.
CanAnswerWhileUp(w, kind) == BusyWith(w, kind) /\ (kind = "health" => database = "up")

CanAnswer(w, kind) == BusyWith(w, kind)

CanExit(w) ==
  /\ BusyWith(w, "run")
  /\ suite[worker[w].page].left = 0 /\ suite[worker[w].page].open = 0

CanCall(p) ==
  /\ suite[p] # NoSuite
  /\ suite[p].left > 0
  /\ suite[p].open = 0 \/ suite[p].left < Burst

-----------------------------------------------------------------------------
(* The page *)

\* A fetch of a server that has halted is refused: the button is enabled again at once.
Press(p) ==
  /\ server # "halted"
  /\ ~disabled[p]
  /\ presses < MaxRuns
  /\ disabled' = [disabled EXCEPT ![p] = TRUE]
  /\ presses' = presses + 1
  /\ Arrives(Job("run", p, presses + 1))
  /\ UNCHANGED <<worker, gunicorn, suite, poll, badge, database>>

\* The fetch has ended: finally.
FetchEnds(p) == disabled' = [disabled EXCEPT ![p] = FALSE]

\* A bug to detect: the button is enabled after a response, not in finally.
StaysDisabled(p) == UNCHANGED disabled

\* The connection has broken: catch, and finally as well.
FetchFails(p) == FetchEnds(p)

\* loadHealth, every ten seconds or after another action of the page; refused
\* by a server that has halted, which the badge shows like a database that is down.
LoadHealth(p, i) ==
  /\ poll[p][i] = "none"
  /\ \/ /\ server # "halted"
        /\ poll' = [poll EXCEPT ![p][i] = "sent"]
        /\ Arrives(Job("health", p, i))
     \/ /\ server = "halted"
        /\ poll' = [poll EXCEPT ![p][i] = "down"]
        /\ UNCHANGED backlog
  /\ UNCHANGED <<worker, gunicorn, suite, presses, disabled, badge, database>>

\* Responses may arrive in another order than they were sent.
ShowHealth(p, i) ==
  /\ poll[p][i] \in {"up", "down"}
  /\ badge' = [badge EXCEPT ![p] = poll[p][i]]
  /\ poll' = [poll EXCEPT ![p][i] = "none"]
  /\ UNCHANGED <<backlog, worker, gunicorn, suite, presses, disabled, database>>

-----------------------------------------------------------------------------
(* The workers *)

\* An idle worker accepts the oldest request; a run starts its subprocess.
Accept(w) ==
  /\ CanAccept(w)
  /\ LET job == Head(backlog) IN
       /\ worker' = [worker EXCEPT ![w] = job]
       /\ suite' = IF job.kind # "run" THEN suite
                   ELSE [suite EXCEPT ![job.page] = [no |-> job.no, left |-> Calls, open |-> 0]]
  /\ backlog' = Tail(backlog)
  /\ UNCHANGED <<gunicorn, presses, disabled, poll, badge, database>>

\* A bug to detect: the answer reaches the suite that runs by then.
AnswerAnySuite(w) ==
  /\ BusyWith(w, "call")
  /\ LET p == worker[w].page IN
       suite' = IF suite[p] # NoSuite THEN [suite EXCEPT ![p].open = @ - 1] ELSE suite
  /\ Leaves(w)
  /\ UNCHANGED <<backlog, gunicorn, presses, disabled, poll, badge, database>>

\* A call is answered.  Nobody reads the answer if its suite has been killed.
AnswerCall(w) ==
  /\ CanAnswer(w, "call")
  /\ LET p == worker[w].page IN
       suite' = IF suite[p] # NoSuite /\ suite[p].no = worker[w].no
                THEN [suite EXCEPT ![p].open = @ - 1] ELSE suite
  /\ Leaves(w)
  /\ UNCHANGED <<backlog, gunicorn, presses, disabled, poll, badge, database>>

AnswerHealth(w) ==
  /\ CanAnswer(w, "health")
  /\ poll' = [poll EXCEPT ![worker[w].page][worker[w].no] = database]
  /\ Leaves(w)
  /\ UNCHANGED <<backlog, gunicorn, suite, presses, disabled, badge, database>>

\* The subprocess has exited: run() returns, and so does the route.
SuiteExits(w) ==
  /\ CanExit(w)
  /\ suite' = [suite EXCEPT ![worker[w].page] = NoSuite]
  /\ FetchEnds(worker[w].page)
  /\ Leaves(w)
  /\ UNCHANGED <<backlog, gunicorn, presses, poll, badge, database>>

\* After SMOKE_TEST_TIMEOUT_SECONDS run() kills the subprocess and the route
\* answers 504.
RunTimesOut(w) ==
  /\ BusyWith(w, "run")
  /\ suite' = [suite EXCEPT ![worker[w].page] = NoSuite]
  /\ FetchEnds(worker[w].page)
  /\ Leaves(w)
  /\ UNCHANGED <<backlog, gunicorn, presses, poll, badge, database>>

\* A bug to detect: the worker dies with its subprocess left behind.
AbandonSuite(w) ==
  /\ server = "serving"
  /\ BusyWith(w, "run")
  /\ FetchFails(worker[w].page)
  /\ Leaves(w)
  /\ booting' = booting \union {w}
  /\ UNCHANGED <<backlog, server, suite, presses, poll, badge, database>>

\* After gunicorn's --timeout, the shorter one in src/Dockerfile, the worker is
\* aborted: run() kills the subprocess on the way out, the connection breaks, and
\* another worker starts in its place.
AbortWorker(w) ==
  /\ server = "serving"
  /\ BusyWith(w, "run")
  /\ suite' = [suite EXCEPT ![worker[w].page] = NoSuite]
  /\ FetchFails(worker[w].page)
  /\ Leaves(w)
  /\ booting' = booting \union {w}
  /\ UNCHANGED <<backlog, server, presses, poll, badge, database>>

-----------------------------------------------------------------------------
(* A new worker imports run:app, which calls init_db_pool *)

CanBoot(w) == server = "serving" /\ w \in booting

\* One of the attempts reaches the database.
Boots(w) ==
  /\ CanBoot(w)
  /\ database = "up"
  /\ booting' = booting \ {w}
  /\ UNCHANGED <<backlog, worker, server, suite, presses, disabled, poll, badge, database>>

\* A bug to detect: init_db_pool tries again for ever, and nobody answers the polls.
TriesForEver(w) == FALSE

\* The last attempt has been refused and init_db_pool raises: to gunicorn a boot
\* error, on which it closes down instead of starting one more worker.
GivesUp(w) ==
  /\ CanBoot(w)
  /\ database = "down"
  /\ server' = "halting"
  /\ booting' = booting \ {w}
  /\ UNCHANGED <<backlog, worker, suite, presses, disabled, poll, badge, database>>

\* Every fetch of /health that was under way breaks: catch in loadHealth.
PollsBreak ==
  poll' = [p \in Watching |->
             [i \in Polls |-> IF poll[p][i] = "sent" THEN "down" ELSE poll[p][i]]]

\* Until the workers are gone they may finish what they have in hand but accept
\* nothing.  With gunicorn the container stops, with its subprocesses and the
\* connections to it, and nothing restarts it (src/docker-compose.yml).
Halt ==
  /\ server = "halting"
  /\ server' = "halted"
  /\ backlog' = <<>>
  /\ worker' = [w \in Workers |-> Idle]
  /\ booting' = {}
  /\ suite' = [p \in Pages |-> NoSuite]
  /\ disabled' = [p \in Pages |-> FALSE]
  /\ PollsBreak
  /\ UNCHANGED <<presses, badge, database>>

-----------------------------------------------------------------------------
(* scripts/smoke_test.py: http() waits for its answer, without a timeout *)

MakeCall(p) ==
  /\ CanCall(p)
  /\ suite' = [suite EXCEPT ![p].left = @ - 1, ![p].open = @ + 1]
  /\ Arrives(Job("call", p, suite[p].no))
  /\ UNCHANGED <<worker, gunicorn, presses, disabled, poll, badge, database>>

DatabaseChanges ==
  /\ database' = IF database = "up" THEN "down" ELSE "up"
  /\ UNCHANGED <<backlog, worker, gunicorn, suite, presses, disabled, poll, badge>>

-----------------------------------------------------------------------------
Next ==
  \/ \E p \in Pages : Press(p) \/ MakeCall(p)
  \/ \E p \in Watching, i \in Polls : LoadHealth(p, i) \/ ShowHealth(p, i)
  \/ \E w \in Workers :
       \/ Accept(w) \/ AnswerCall(w) \/ AnswerHealth(w)
       \/ SuiteExits(w) \/ RunTimesOut(w) \/ AbortWorker(w)
       \/ Boots(w) \/ GivesUp(w)
  \/ Halt
  \/ DatabaseChanges

(***************************************************************************)
(* Workers and subprocesses run, timers expire, a database that is down    *)
(* refuses connections rather than let them hang, pages poll and responses *)
(* arrive.  Nobody has to press the button.                                *)
(***************************************************************************)
Fairness ==
  /\ \A p \in Pages : WF_vars(MakeCall(p))
  /\ \A p \in Watching, i \in Polls : WF_vars(LoadHealth(p, i)) /\ WF_vars(ShowHealth(p, i))
  /\ \A w \in Workers :
       /\ WF_vars(Accept(w))
       /\ WF_vars(AnswerCall(w) \/ AnswerHealth(w))
       /\ WF_vars(SuiteExits(w))
       /\ WF_vars(RunTimesOut(w) \/ AbortWorker(w))
       /\ WF_vars(Boots(w) \/ GivesUp(w))
  /\ WF_vars(Halt)

Spec == Init /\ [][Next]_vars /\ Fairness

-----------------------------------------------------------------------------
RunningAt(p) == {w \in Workers : BusyWith(w, "run") /\ worker[w].page = p}

WaitingAt(p) == {i \in DOMAIN backlog : backlog[i].kind = "run" /\ backlog[i].page = p}

(***************************************************************************)
(* No subprocess is left behind, whichever timeout ends its request: a     *)
(* suite runs exactly while a worker waits for it, the one of its run, and *)
(* its page shows the button disabled.  A page never has two runs under    *)
(* way (runSmokeTests, run_smoke_test).                                    *)
(***************************************************************************)
SuitesSupervised ==
  \A p \in Pages :
    /\ suite[p] # NoSuite <=> RunningAt(p) # {}
    /\ disabled[p] <=> RunningAt(p) # {} \/ WaitingAt(p) # {}
    /\ RunningAt(p) = {} \/ WaitingAt(p) = {}
    /\ \A v, w \in RunningAt(p) : v = w /\ worker[w].no = suite[p].no
    /\ \A i, j \in WaitingAt(p) : i = j

\* A suite waits for an answer, and nothing but a timeout gets the server going.
Stalled ==
  /\ server = "serving"
  /\ \E p \in Pages : suite[p] # NoSuite /\ suite[p].open > 0
  /\ \A w \in Workers :
       ~(\/ CanAccept(w) \/ CanAnswer(w, "call") \/ CanAnswer(w, "health")
         \/ CanExit(w) \/ CanBoot(w))
  /\ \A p \in Pages : ~CanCall(p)

(***************************************************************************)
(* The dashboard blocks the server only if there are as many suites as     *)
(* workers: with one worker left, every call of every suite gets through.  *)
(***************************************************************************)
StallNeedsEveryWorker == Stalled => \A w \in Workers : BusyWith(w, "run")

(***************************************************************************)
(* However suites and polls get into each other's way, every run ends and  *)
(* its page has its button back, even if the server goes down meanwhile.   *)
(***************************************************************************)
EveryRunEnds == \A p \in Pages : disabled[p] ~> ~disabled[p]

(***************************************************************************)
(* The badge is right in the end: once the database stays up, or down,     *)
(* every page shows that and nothing else, although polls queue behind the *)
(* suites and an older response may overtake a newer one.  Only if a       *)
(* worker was replaced while the database refused connections, every page  *)
(* shows a dead server instead, for good and even if the database is back. *)
(***************************************************************************)
BadgeConverges ==
  \A p \in Watching, state \in {"up", "down"} :
    <>[](database = state) =>
      <>[](badge[p] = IF server = "serving" THEN state ELSE "down")
=============================================================================
