----------------------- MODULE SmokeTestRunnerProofs ------------------------
(***************************************************************************)
(* The smoke tests of the dashboard are supervised, the server answers     *)
(* each of their calls once at most, and it stands still only while every  *)
(* worker waits for a suite: for any number of pages, workers, calls and   *)
(* presses.                                                                *)
(***************************************************************************)
EXTENDS SmokeTestRunner, DataProofs

Request == [kind : {"run", "call", "health"}, page : Pages, no : Nat]

(***************************************************************************)
(* As much of TypeOK as supervision needs: how many answers a suite waits  *)
(* for does not matter to it.                                              *)
(***************************************************************************)
Shapes ==
  /\ backlog \in Seq(Request)
  /\ worker \in [Workers -> Request \union {Idle}]
  /\ suite \in [Pages -> [no : Nat, left : Int, open : Int] \union {NoSuite}]
  /\ presses \in Nat
  /\ disabled \in [Pages -> BOOLEAN]

IInv == Shapes /\ SuitesSupervised

\* SuitesSupervised, as a relation on the variables it is about.
Supervised(p) ==
  /\ suite[p] # NoSuite <=> RunningAt(p) # {}
  /\ disabled[p] <=> RunningAt(p) # {} \/ WaitingAt(p) # {}
  /\ RunningAt(p) = {} \/ WaitingAt(p) = {}
  /\ \A v, w \in RunningAt(p) : v = w /\ worker[w].no = suite[p].no
  /\ \A i, j \in WaitingAt(p) : i = j

LEMMA SupervisedPageByPage == SuitesSupervised <=> \A p \in Pages : Supervised(p)
BY DEF SuitesSupervised, Supervised

-----------------------------------------------------------------------------
(* The backlog *)

\* A request joins the backlog at its end.
LEMMA WaitingAfterArrival ==
  ASSUME Shapes, NEW job \in Request, Arrives(job), NEW p \in Pages
  PROVE  /\ backlog' \in Seq(Request)
         /\ WaitingAt(p)' = WaitingAt(p) \union
              (IF job.kind = "run" /\ job.page = p THEN {Len(backlog) + 1} ELSE {})
<1>1. backlog' = Append(backlog, job) /\ backlog \in Seq(Request)
  BY DEF Arrives, Shapes
<1>2. backlog' \in Seq(Request) /\ DOMAIN backlog = 1 .. Len(backlog) /\ Len(backlog) \in Nat
      /\ DOMAIN backlog' = 1 .. Len(backlog) + 1
  BY <1>1
<1>3. \A i \in 1 .. Len(backlog) : backlog'[i] = backlog[i]
  BY <1>1
<1>4. backlog'[Len(backlog) + 1] = job
  BY <1>1
<1>5. \A i : i \in 1 .. Len(backlog) + 1 <=> i \in 1 .. Len(backlog) \/ i = Len(backlog) + 1
  BY <1>2
<1> QED
  BY <1>2, <1>3, <1>4, <1>5 DEF WaitingAt

\* The oldest request leaves, and the others move up.
LEMMA WaitingAfterAccept ==
  ASSUME Shapes, backlog # <<>>, backlog' = Tail(backlog), NEW p \in Pages
  PROVE  /\ backlog' \in Seq(Request) /\ Head(backlog) \in Request
         /\ \A i \in WaitingAt(p)' : i + 1 \in WaitingAt(p)
         /\ \A i \in WaitingAt(p) : i # 1 => i - 1 \in WaitingAt(p)'
         /\ 1 \in WaitingAt(p) <=> Head(backlog).kind = "run" /\ Head(backlog).page = p
         /\ WaitingAt(p) \subseteq Nat /\ WaitingAt(p)' \subseteq Nat \ {0}
<1>1. backlog \in Seq(Request) /\ Len(backlog) \in Nat \ {0}
      /\ DOMAIN backlog = 1 .. Len(backlog) /\ Head(backlog) = backlog[1]
  BY DEF Shapes
<1>2. backlog' \in Seq(Request) /\ DOMAIN backlog' = 1 .. Len(backlog) - 1
      /\ Head(backlog) \in Request
  BY <1>1
<1>3. \A i \in 1 .. Len(backlog) - 1 : backlog'[i] = backlog[i + 1]
  BY <1>1
<1>4. \A i \in WaitingAt(p)' : i + 1 \in WaitingAt(p)
  BY <1>1, <1>2, <1>3 DEF WaitingAt
<1>5. ASSUME NEW i \in WaitingAt(p), i # 1 PROVE i - 1 \in WaitingAt(p)'
  <2>1. i - 1 \in 1 .. Len(backlog) - 1 /\ (i - 1) + 1 = i
    BY <1>1, <1>5 DEF WaitingAt
  <2>2. backlog'[i - 1] = backlog[i]
    BY <1>3, <2>1
  <2> QED
    BY <1>2, <1>5, <2>1, <2>2 DEF WaitingAt
<1>6. 1 \in WaitingAt(p) <=> Head(backlog).kind = "run" /\ Head(backlog).page = p
  BY <1>1 DEF WaitingAt
<1>7. WaitingAt(p) \subseteq Nat /\ WaitingAt(p)' \subseteq Nat \ {0}
  BY <1>1, <1>2 DEF WaitingAt
<1> QED
  BY <1>2, <1>4, <1>5, <1>6, <1>7

-----------------------------------------------------------------------------
(* The workers *)

\* Who takes a job, and who drops one.
LEMMA RunningAfterChange ==
  ASSUME Shapes, NEW w \in Workers, NEW job \in Request \union {Idle},
         worker' = [worker EXCEPT ![w] = job], NEW p \in Pages
  PROVE  /\ worker' \in [Workers -> Request \union {Idle}]
         /\ RunningAt(p)' = (RunningAt(p) \ {w}) \union
              (IF job # Idle /\ job.kind = "run" /\ job.page = p THEN {w} ELSE {})
BY DEF Shapes, RunningAt, BusyWith

LEMMA RunningUnchanged ==
  ASSUME worker' = worker, NEW p PROVE RunningAt(p)' = RunningAt(p)
BY DEF RunningAt, BusyWith

LEMMA WaitingUnchanged ==
  ASSUME backlog' = backlog, NEW p PROVE WaitingAt(p)' = WaitingAt(p)
BY DEF WaitingAt

-----------------------------------------------------------------------------
LEMMA InitInv == Init => IInv
<1> SUFFICES ASSUME Init PROVE IInv
  OBVIOUS
<1>1. Shapes
  BY DEF Init, Shapes
<1>2. \A p \in Pages : RunningAt(p) = {} /\ WaitingAt(p) = {}
  <2>1. \A w \in Workers : worker[w] = Idle
    BY DEF Init
  <2>2. DOMAIN backlog = {}
    BY DEF Init
  <2> QED
    BY <2>1, <2>2 DEF RunningAt, BusyWith, WaitingAt
<1>3. SuitesSupervised
  BY <1>2 DEF Init, SuitesSupervised
<1> QED
  BY <1>1, <1>3 DEF IInv

\* A worker drops a request that is not a run; its suite, if any, stays.
LEMMA WorkerFree ==
  ASSUME IInv, NEW w \in Workers, BusyWith(w, "call") \/ BusyWith(w, "health"), Leaves(w),
         UNCHANGED <<backlog, presses, disabled>>,
         suite' \in [Pages -> [no : Nat, left : Int, open : Int] \union {NoSuite}],
         \A p \in Pages : suite'[p] = NoSuite <=> suite[p] = NoSuite,
         \A p \in Pages : suite[p] # NoSuite => suite'[p].no = suite[p].no
  PROVE  IInv'
<1>1. Shapes /\ SuitesSupervised
  BY DEF IInv
<1>2. Shapes'
  BY <1>1, RunningAfterChange DEF Shapes, Leaves
<1>3. ASSUME NEW p \in Pages PROVE Supervised(p)'
  <2>1. RunningAt(p)' = RunningAt(p) /\ \A v \in RunningAt(p) : worker'[v] = worker[v]
    BY <1>1 DEF RunningAt, BusyWith, Leaves, Shapes
  <2>2. WaitingAt(p)' = WaitingAt(p)
    BY WaitingUnchanged
  <2>3. Supervised(p)
    BY <1>1, SupervisedPageByPage
  <2> QED
    BY <2>1, <2>2, <2>3 DEF Supervised
<1> QED
  BY <1>2, <1>3 DEF IInv, SuitesSupervised, Supervised

\* A run ends: its suite goes, and its page gets the button back.
LEMMA RunEnds ==
  ASSUME IInv, NEW w \in Workers, BusyWith(w, "run"),
         suite' = [suite EXCEPT ![worker[w].page] = NoSuite],
         FetchEnds(worker[w].page), Leaves(w), UNCHANGED <<backlog, presses>>
  PROVE  IInv'
<1>1. Shapes /\ SuitesSupervised
  BY DEF IInv
<1>2. PICK q \in Pages : q = worker[w].page
  <2>1. worker[w] \in Request
    BY <1>1 DEF Shapes, BusyWith
  <2> QED
    BY <2>1 DEF Request
<1>6. suite' = [suite EXCEPT ![q] = NoSuite] /\ FetchEnds(q) /\ w \in RunningAt(q)
  BY <1>2 DEF RunningAt
<1>3. Shapes'
  BY <1>1, <1>2, <1>6 DEF Shapes, Leaves, FetchEnds
<1>4. Supervised(q)'
  <2>1. Supervised(q)
    BY <1>1, <1>2, SupervisedPageByPage
  <2>2. RunningAt(q)' = {}
    BY <1>1, <1>2, <1>6, <2>1 DEF RunningAt, BusyWith, Leaves, Shapes, Supervised
  <2>3. WaitingAt(q)' = {}
    BY <1>6, <2>1, WaitingUnchanged DEF Supervised
  <2>4. suite'[q] = NoSuite /\ disabled'[q] = FALSE
    BY <1>1, <1>2, <1>6 DEF Shapes, FetchEnds
  <2> QED
    BY <2>2, <2>3, <2>4 DEF Supervised
<1>5. ASSUME NEW p \in Pages, p # q PROVE Supervised(p)'
  <2>1. RunningAt(p)' = RunningAt(p) /\ \A v \in RunningAt(p) : worker'[v] = worker[v]
    BY <1>1, <1>2, <1>5 DEF RunningAt, BusyWith, Leaves, Shapes
  <2>2. WaitingAt(p)' = WaitingAt(p)
    BY WaitingUnchanged
  <2>3. suite'[p] = suite[p] /\ disabled'[p] = disabled[p]
    BY <1>1, <1>2, <1>5, <1>6 DEF Shapes, FetchEnds
  <2>4. Supervised(p)
    BY <1>1, SupervisedPageByPage
  <2> QED
    BY <2>1, <2>2, <2>3, <2>4 DEF Supervised
<1>7. \A p \in Pages : Supervised(p)'
  BY <1>4, <1>5
<1> QED
  BY <1>3, <1>7 DEF IInv, SuitesSupervised, Supervised

\* The workers and buttons as they are, and at most a request more that is not a run.
LEMMA NothingMore ==
  ASSUME IInv, UNCHANGED <<worker, presses, disabled>>, backlog' \in Seq(Request),
         \A p \in Pages : WaitingAt(p)' = WaitingAt(p),
         suite' \in [Pages -> [no : Nat, left : Int, open : Int] \union {NoSuite}],
         \A p \in Pages : suite'[p] = NoSuite <=> suite[p] = NoSuite,
         \A p \in Pages : suite[p] # NoSuite => suite'[p].no = suite[p].no
  PROVE  IInv'
<1>1. Shapes /\ SuitesSupervised
  BY DEF IInv
<1>2. Shapes'
  BY <1>1 DEF Shapes
<1>3. ASSUME NEW p \in Pages PROVE Supervised(p)'
  <2>1. RunningAt(p)' = RunningAt(p)
    BY RunningUnchanged
  <2>2. Supervised(p)
    BY <1>1, SupervisedPageByPage
  <2> QED
    BY <2>1, <2>2 DEF Supervised
<1> QED
  BY <1>2, <1>3 DEF IInv, SuitesSupervised, Supervised

LEMMA PressInv == ASSUME IInv, NEW p \in Pages, Press(p) PROVE IInv'
<1> DEFINE job == Job("run", p, presses + 1)
<1>1. Shapes /\ SuitesSupervised
  BY DEF IInv
<1>2. PICK run \in Request : run = job /\ run.kind = "run" /\ run.page = p /\ Arrives(run)
  BY <1>1 DEF Press, Request, Job, Shapes
<1>3. backlog' \in Seq(Request)
      /\ \A q \in Pages : WaitingAt(q)' = WaitingAt(q) \union
                            (IF q = p THEN {Len(backlog) + 1} ELSE {})
  BY <1>1, <1>2, WaitingAfterArrival
<1>4. Shapes'
  BY <1>1, <1>3 DEF Shapes, Press
<1>5. ASSUME NEW q \in Pages PROVE Supervised(q)'
  <2>1. RunningAt(q)' = RunningAt(q)
    BY RunningUnchanged DEF Press
  <2>2. Supervised(q)
    BY <1>1, SupervisedPageByPage
  <2>3. UNCHANGED <<worker, suite>> /\ ~disabled[p] /\ disabled' = [disabled EXCEPT ![p] = TRUE]
    BY DEF Press
  <2>4. CASE q = p
    <3>1. RunningAt(p)' = {} /\ WaitingAt(p)' = {Len(backlog) + 1}
      BY <1>3, <2>1, <2>2, <2>3, <2>4 DEF Supervised
    <3>2. disabled'[p] = TRUE
      BY <1>1, <2>3 DEF Shapes
    <3> QED
      BY <2>1, <2>2, <2>3, <2>4, <3>1, <3>2 DEF Supervised
  <2>5. CASE q # p
    <3>1. WaitingAt(q)' = WaitingAt(q) /\ disabled'[q] = disabled[q]
      BY <1>1, <1>3, <2>3, <2>5 DEF Shapes
    <3> QED
      BY <2>1, <2>2, <2>3, <3>1 DEF Supervised
  <2> QED
    BY <2>4, <2>5
<1> QED
  BY <1>4, <1>5 DEF IInv, SuitesSupervised, Supervised

LEMMA AcceptInv == ASSUME IInv, NEW w \in Workers, Accept(w) PROVE IInv'
<1>1. Shapes /\ SuitesSupervised
  BY DEF IInv
<1>2. backlog # <<>> /\ backlog' = Tail(backlog) /\ worker[w] = Idle
      /\ UNCHANGED <<presses, disabled>>
  BY DEF Accept, CanAccept
<1>3. PICK job \in Request :
        /\ job = Head(backlog)
        /\ worker' = [worker EXCEPT ![w] = job]
        /\ suite' = IF job.kind # "run" THEN suite
                    ELSE [suite EXCEPT ![job.page] = [no |-> job.no, left |-> Calls, open |-> 0]]
  <2>1. Head(backlog) \in Request
    BY <1>1, <1>2 DEF Shapes
  <2> QED
    BY <2>1 DEF Accept, CanAccept
<1>4. job # Idle /\ job.page \in Pages /\ job.no \in Nat
  BY IdleAssumption DEF Request
<1>5. Shapes'
  BY <1>1, <1>2, <1>3, <1>4, CallsAssumption DEF Shapes
<1>6. ASSUME NEW p \in Pages PROVE Supervised(p)'
  <2>1. Supervised(p)
    BY <1>1, SupervisedPageByPage
  <2>2. /\ \A i \in WaitingAt(p)' : i + 1 \in WaitingAt(p)
        /\ \A i \in WaitingAt(p) : i # 1 => i - 1 \in WaitingAt(p)'
        /\ 1 \in WaitingAt(p) <=> job.kind = "run" /\ job.page = p
        /\ WaitingAt(p) \subseteq Nat /\ WaitingAt(p)' \subseteq Nat \ {0}
    BY <1>1, <1>2, <1>3, WaitingAfterAccept
  <2>3. RunningAt(p)' = RunningAt(p) \union
          (IF job.kind = "run" /\ job.page = p THEN {w} ELSE {})
    <3>1. w \notin RunningAt(p)
      BY <1>2 DEF RunningAt, BusyWith
    <3>2. RunningAt(p)' = (RunningAt(p) \ {w}) \union
            (IF job # Idle /\ job.kind = "run" /\ job.page = p THEN {w} ELSE {})
      BY <1>1, <1>3, RunningAfterChange
    <3> QED
      BY <1>4, <3>1, <3>2
  <2>4. \A i, j \in WaitingAt(p)' : i = j
    BY <2>1, <2>2 DEF Supervised
  <2>5. CASE job.kind = "run" /\ job.page = p
    <3>1. WaitingAt(p)' = {} /\ RunningAt(p)' = {w} /\ disabled[p]
      BY <2>1, <2>2, <2>3, <2>5 DEF Supervised
    <3>2. suite'[p] = [no |-> job.no, left |-> Calls, open |-> 0] /\ worker'[w] = job
      BY <1>1, <1>3, <2>5 DEF Shapes
    <3>3. suite'[p] # NoSuite /\ worker'[w].no = suite'[p].no
      BY <1>4, <3>2, CallsAssumption, NoSuiteAssumption
    <3> QED
      BY <1>2, <3>1, <3>3 DEF Supervised
  <2>6. CASE ~(job.kind = "run" /\ job.page = p)
    <3>1. RunningAt(p)' = RunningAt(p) /\ \A v \in RunningAt(p) : worker'[v] = worker[v]
      BY <1>1, <1>2, <1>3, <2>3, <2>6 DEF RunningAt, BusyWith, Shapes
    <3>2. suite'[p] = suite[p]
      BY <1>1, <1>3, <1>4, <2>6 DEF Shapes
    <3>3. WaitingAt(p)' = {} <=> WaitingAt(p) = {}
      BY <2>2, <2>6
    <3> QED
      BY <1>2, <2>1, <2>4, <3>1, <3>2, <3>3 DEF Supervised
  <2> QED
    BY <2>5, <2>6
<1> QED
  BY <1>5, <1>6 DEF IInv, SuitesSupervised, Supervised

LEMMA MakeCallInv == ASSUME IInv, NEW p \in Pages, MakeCall(p) PROVE IInv'
<1>1. Shapes /\ suite[p] \in [no : Nat, left : Int, open : Int]
  BY DEF IInv, Shapes, MakeCall, CanCall
<1>2. PICK call \in Request : call.kind = "call" /\ Arrives(call)
  BY <1>1 DEF MakeCall, CanCall, Request, Job
<1>3. backlog' \in Seq(Request) /\ \A q \in Pages : WaitingAt(q)' = WaitingAt(q)
  BY <1>1, <1>2, WaitingAfterArrival
<1>4. PICK s \in [no : Nat, left : Int, open : Int] :
        suite' = [suite EXCEPT ![p] = s] /\ s.no = suite[p].no
  <2>1. [no |-> suite[p].no, left |-> suite[p].left - 1, open |-> suite[p].open + 1]
          \in [no : Nat, left : Int, open : Int]
    BY <1>1
  <2>2. suite' = [suite EXCEPT ![p] =
          [no |-> suite[p].no, left |-> suite[p].left - 1, open |-> suite[p].open + 1]]
    BY <1>1 DEF MakeCall, CanCall, Shapes
  <2> QED
    BY <2>1, <2>2
<1>5. \A q \in Pages : suite'[q] = IF q = p THEN s ELSE suite[q]
  BY <1>1, <1>4 DEF Shapes
<1> QED
  BY <1>1, <1>3, <1>4, <1>5, NothingMore, NoSuiteAssumption DEF MakeCall, CanCall, Shapes

LEMMA AnswerCallInv == ASSUME IInv, NEW w \in Workers, AnswerCall(w) PROVE IInv'
<1>1. Shapes /\ worker[w] \in Request
  BY DEF IInv, Shapes, AnswerCall, CanAnswer, BusyWith
<1>2. PICK p \in Pages : p = worker[w].page
  BY <1>1 DEF Request
<1>3. CASE suite' = suite
  BY <1>1, <1>3, WorkerFree DEF AnswerCall, CanAnswer, Shapes
<1>4. CASE suite' # suite
  <2>1. suite[p] \in [no : Nat, left : Int, open : Int]
        /\ suite' = [suite EXCEPT ![p].open = @ - 1]
    BY <1>1, <1>2, <1>4 DEF AnswerCall, CanAnswer, Shapes
  <2>2. PICK s \in [no : Nat, left : Int, open : Int] :
          suite' = [suite EXCEPT ![p] = s] /\ s.no = suite[p].no
    <3>1. [no |-> suite[p].no, left |-> suite[p].left, open |-> suite[p].open - 1]
            \in [no : Nat, left : Int, open : Int]
      BY <2>1
    <3>2. suite' = [suite EXCEPT ![p] =
            [no |-> suite[p].no, left |-> suite[p].left, open |-> suite[p].open - 1]]
      <4>1. [suite[p] EXCEPT !.open = @ - 1]
              = [no |-> suite[p].no, left |-> suite[p].left, open |-> suite[p].open - 1]
        BY <2>1
      <4>2. suite' = [suite EXCEPT ![p] = [suite[p] EXCEPT !.open = @ - 1]]
        BY <2>1
      <4> QED
        BY <4>1, <4>2
    <3> QED
      BY <3>1, <3>2
  <2>3. \A q \in Pages : suite'[q] = IF q = p THEN s ELSE suite[q]
    BY <1>1, <2>2 DEF Shapes
  <2> QED
    BY <1>1, <2>1, <2>2, <2>3, WorkerFree, NoSuiteAssumption DEF AnswerCall, CanAnswer, Shapes
<1> QED
  BY <1>3, <1>4

\* With the server everything goes that was under way.
LEMMA HaltInv == ASSUME Shapes, Halt PROVE IInv'
<1>1. /\ backlog' = <<>>
      /\ worker' = [w \in Workers |-> Idle]
      /\ suite' = [p \in Pages |-> NoSuite]
      /\ disabled' = [p \in Pages |-> FALSE]
      /\ presses' = presses
  BY DEF Halt
<1>2. Shapes'
  BY <1>1 DEF Shapes
<1>3. \A p \in Pages : RunningAt(p)' = {} /\ WaitingAt(p)' = {}
  <2>1. DOMAIN backlog' = {}
    BY <1>1
  <2> QED
    BY <1>1, <2>1 DEF RunningAt, BusyWith, WaitingAt
<1>4. SuitesSupervised'
  BY <1>1, <1>3 DEF SuitesSupervised
<1> QED
  BY <1>2, <1>4 DEF IInv

\* A step that only a worker in init_db_pool, the badge or the database notices.
QuietStep ==
  \/ \E p \in Watching, i \in Polls : ShowHealth(p, i)
  \/ \E w \in Workers : Boots(w) \/ GivesUp(w)
  \/ DatabaseChanges \/ UNCHANGED vars

LEMMA StepInv == IInv /\ [Next]_vars => IInv'
<1> SUFFICES ASSUME IInv, [Next]_vars PROVE IInv'
  OBVIOUS
<1>0. Shapes
  BY DEF IInv
<1>1. CASE \E p \in Pages : Press(p)
  BY <1>1, PressInv
<1>2. CASE \E p \in Pages : MakeCall(p)
  BY <1>2, MakeCallInv
<1>3. CASE \E p \in Watching, i \in Polls : LoadHealth(p, i)
  <2>1. PICK p \in Watching, i \in Polls : LoadHealth(p, i)
    BY <1>3
  <2>2. ASSUME Arrives(Job("health", p, i))
        PROVE  backlog' \in Seq(Request) /\ \A q \in Pages : WaitingAt(q)' = WaitingAt(q)
    <3>1. Job("health", p, i) \in Request /\ Job("health", p, i).kind = "health"
      BY WatchingAssumption DEF Request, Job
    <3>2. PICK job \in Request : job.kind = "health" /\ Arrives(job)
      BY <2>2, <3>1
    <3>3. backlog' \in Seq(Request)
      BY <1>0, <3>2 DEF Arrives, Shapes
    <3>4. ASSUME NEW q \in Pages PROVE WaitingAt(q)' = WaitingAt(q)
      <4>1. WaitingAt(q)' = WaitingAt(q) \union
              (IF job.kind = "run" /\ job.page = q THEN {Len(backlog) + 1} ELSE {})
        BY <1>0, <3>2, WaitingAfterArrival
      <4> QED
        BY <3>2, <4>1
    <3> QED
      BY <3>3, <3>4
  <2>3. backlog' \in Seq(Request) /\ \A q \in Pages : WaitingAt(q)' = WaitingAt(q)
    <3>1. CASE UNCHANGED backlog
      BY <1>0, <3>1, WaitingUnchanged DEF Shapes
    <3> QED
      BY <2>1, <2>2, <3>1 DEF LoadHealth
  <2> QED
    BY <1>0, <2>1, <2>3, NothingMore DEF LoadHealth, Shapes
<1>4. CASE QuietStep
  <2>1. UNCHANGED <<backlog, worker, suite, presses, disabled>>
    BY <1>4 DEF QuietStep, ShowHealth, Boots, GivesUp, DatabaseChanges, vars
  <2> QED
    BY <1>0, <2>1, WaitingUnchanged, NothingMore DEF Shapes
<1>5. CASE \E w \in Workers : Accept(w)
  BY <1>5, AcceptInv
<1>6. CASE \E w \in Workers : AnswerCall(w)
  BY <1>6, AnswerCallInv
<1>7. CASE \E w \in Workers : AnswerHealth(w)
  BY <1>0, <1>7, WorkerFree DEF AnswerHealth, CanAnswer, Shapes
<1>8. CASE \E w \in Workers : SuiteExits(w) \/ RunTimesOut(w) \/ AbortWorker(w)
  BY <1>8, RunEnds DEF SuiteExits, CanExit, RunTimesOut, AbortWorker, FetchFails
<1>9. CASE Halt
  BY <1>0, <1>9, HaltInv
<1> QED
  BY <1>1, <1>2, <1>3, <1>4, <1>5, <1>6, <1>7, <1>8, <1>9 DEF Next, QuietStep

(***************************************************************************)
(* However presses, timeouts and the calls of killed suites interleave, a  *)
(* suite runs exactly while the worker of its run waits for it and its     *)
(* page shows the button disabled (run_smoke_test, runSmokeTests).         *)
(***************************************************************************)
THEOREM SuitesAreSupervised == Spec => []SuitesSupervised
<1>1. IInv => SuitesSupervised
  BY DEF IInv
<1> QED
  BY <1>1, InitInv, StepInv, PTL DEF Spec

-----------------------------------------------------------------------------
(* Calls and their answers *)

(***************************************************************************)
(* What a suite believes to be unanswered is under way: in the backlog or  *)
(* with a worker, under the number of its run.  A run that still waits     *)
(* will find no calls of its number, although those of a suite that was    *)
(* killed may be under way for long.                                       *)
(***************************************************************************)
QueuedCalls(p, n) == {i \in DOMAIN backlog : backlog[i] = Job("call", p, n)}

HandledCalls(p, n) == {w \in Workers : worker[w] = Job("call", p, n)}

Unanswered ==
  [p \in Pages |-> [n \in Nat |-> Cardinality(QueuedCalls(p, n)) + Cardinality(HandledCalls(p, n))]]

Counted(p) ==
  suite[p] # NoSuite =>
    /\ suite[p].left \in 0 .. Calls
    /\ suite[p].open = Unanswered[p][suite[p].no]
    /\ suite[p].open <= 1 \/ suite[p].open + suite[p].left <= Burst

Fresh(p) == \A i \in WaitingAt(p) : Unanswered[p][backlog[i].no] = 0

Numbered(job) == job.kind = "health" \/ job.no \in 1 .. presses

CallInv ==
  /\ \A i \in DOMAIN backlog : Numbered(backlog[i])
  /\ \A w \in Workers : worker[w] # Idle => Numbered(worker[w])
  /\ \A p \in Pages : suite[p] # NoSuite => suite[p].no \in 1 .. presses
  /\ \A p \in Pages : Counted(p) /\ Fresh(p)

LEMMA CallsAreFinite ==
  ASSUME Shapes, NEW p, NEW n
  PROVE  /\ IsFiniteSet(QueuedCalls(p, n)) /\ IsFiniteSet(HandledCalls(p, n))
         /\ Cardinality(QueuedCalls(p, n)) \in Nat /\ Cardinality(HandledCalls(p, n)) \in Nat
<1>1. DOMAIN backlog = 1 .. Len(backlog) /\ Len(backlog) \in Nat
  BY DEF Shapes
<1>2. IsFiniteSet(DOMAIN backlog)
  BY <1>1, FS_Interval
<1>3. IsFiniteSet(QueuedCalls(p, n)) /\ IsFiniteSet(HandledCalls(p, n))
  BY <1>2, FS_Subset, WorkersAssumption DEF QueuedCalls, HandledCalls
<1> QED
  BY <1>3, FS_CardinalityType

LEMMA QueuedAfterArrival ==
  ASSUME Shapes, NEW job \in Request, Arrives(job), NEW p, NEW n
  PROVE  Cardinality(QueuedCalls(p, n)')
           = Cardinality(QueuedCalls(p, n)) + Count(job = Job("call", p, n))
<1> DEFINE last == Len(backlog) + 1
<1>1. backlog' = Append(backlog, job) /\ backlog \in Seq(Request) /\ Len(backlog) \in Nat
  BY DEF Arrives, Shapes
<1>2. /\ DOMAIN backlog = 1 .. Len(backlog) /\ DOMAIN backlog' = 1 .. last
      /\ backlog'[last] = job
      /\ \A i \in 1 .. Len(backlog) : backlog'[i] = backlog[i]
  BY <1>1
<1>3. \A i : i # last => (i \in QueuedCalls(p, n) <=> i \in QueuedCalls(p, n)')
  BY <1>1, <1>2 DEF QueuedCalls
<1>4. last \notin QueuedCalls(p, n) /\ (last \in QueuedCalls(p, n)' <=> job = Job("call", p, n))
  BY <1>1, <1>2 DEF QueuedCalls
<1>5. IsFiniteSet(QueuedCalls(p, n)) /\ IsFiniteSet(QueuedCalls(p, n)')
  <2>1. IsFiniteSet(1 .. last)
    BY <1>1, FS_Interval
  <2> QED
    BY <1>1, <1>2, <2>1, FS_Subset, CallsAreFinite DEF QueuedCalls
<1> QED
  BY <1>3, <1>4, <1>5, ChangeAtOne DEF Count

LEMMA QueuedAfterAccept ==
  ASSUME Shapes, backlog # <<>>, backlog' = Tail(backlog), NEW p, NEW n
  PROVE  /\ Cardinality(QueuedCalls(p, n)') \in Nat
         /\ Cardinality(QueuedCalls(p, n)') + Count(Head(backlog) = Job("call", p, n))
              = Cardinality(QueuedCalls(p, n))
<1>1. /\ backlog \in Seq(Request) /\ Len(backlog) \in Nat \ {0}
      /\ DOMAIN backlog = 1 .. Len(backlog) /\ Head(backlog) = backlog[1]
  BY DEF Shapes
<1>2. /\ DOMAIN backlog' = 1 .. Len(backlog) - 1
      /\ \A i \in 1 .. Len(backlog) - 1 : backlog'[i] = backlog[i + 1]
  BY <1>1
<1>3. \A i \in Nat \ {0} : i \in QueuedCalls(p, n)' <=> i + 1 \in QueuedCalls(p, n)
  BY <1>1, <1>2 DEF QueuedCalls
<1>4. QueuedCalls(p, n) \subseteq Nat \ {0} /\ QueuedCalls(p, n)' \subseteq Nat \ {0}
  BY <1>1, <1>2 DEF QueuedCalls
<1>5. 1 \in QueuedCalls(p, n) <=> Head(backlog) = Job("call", p, n)
  BY <1>1 DEF QueuedCalls
<1> QED
  BY <1>3, <1>4, <1>5, CallsAreFinite, ShiftDown, FS_CardinalityType DEF Count

LEMMA HandledAfterChange ==
  ASSUME NEW w \in Workers, \A v \in Workers : v # w => worker'[v] = worker[v], NEW p, NEW n
  PROVE  /\ Cardinality(HandledCalls(p, n)') \in Nat
         /\ Cardinality(HandledCalls(p, n)') + Count(worker[w] = Job("call", p, n))
              = Cardinality(HandledCalls(p, n)) + Count(worker'[w] = Job("call", p, n))
<1>1. \A v : v # w => (v \in HandledCalls(p, n) <=> v \in HandledCalls(p, n)')
  BY DEF HandledCalls
<1>2. /\ w \in HandledCalls(p, n) <=> worker[w] = Job("call", p, n)
      /\ w \in HandledCalls(p, n)' <=> worker'[w] = Job("call", p, n)
  BY DEF HandledCalls
<1>3. IsFiniteSet(HandledCalls(p, n)) /\ IsFiniteSet(HandledCalls(p, n)')
  BY FS_Subset, WorkersAssumption DEF HandledCalls
<1> QED
  BY <1>1, <1>2, <1>3, ChangeAtOne DEF Count

LEMMA CallsUnchanged ==
  ASSUME NEW p, NEW n
  PROVE  /\ backlog' = backlog => QueuedCalls(p, n)' = QueuedCalls(p, n)
         /\ worker' = worker => HandledCalls(p, n)' = HandledCalls(p, n)
BY DEF QueuedCalls, HandledCalls

LEMMA InitCalls == Init => CallInv
<1> SUFFICES ASSUME Init PROVE CallInv
  OBVIOUS
<1>1. DOMAIN backlog = {} /\ (\A w \in Workers : worker[w] = Idle) /\ \A p \in Pages : suite[p] = NoSuite
  BY DEF Init
<1> QED
  BY <1>1 DEF CallInv, Counted, Fresh, WaitingAt

\* A request that is not a call arrives; a run has a number of its own.
LEMMA ArrivalKeepsCalls ==
  ASSUME IInv, CallInv, NEW job \in Request, job.kind # "call", Arrives(job),
         UNCHANGED <<worker, suite>>, presses' \in Nat, presses <= presses',
         job.kind = "run" => job.no \in 1 .. presses' /\ job.no > presses
  PROVE  CallInv'
<1>1. Shapes
  BY DEF IInv
<1>2. /\ DOMAIN backlog = 1 .. Len(backlog) /\ DOMAIN backlog' = 1 .. Len(backlog) + 1
      /\ Len(backlog) \in Nat
      /\ backlog'[Len(backlog) + 1] = job
      /\ \A i \in 1 .. Len(backlog) : backlog'[i] = backlog[i]
  BY <1>1 DEF Arrives, Shapes
<1>3. Unanswered' = Unanswered
  <2> SUFFICES ASSUME NEW p \in Pages, NEW n \in Nat
               PROVE  Cardinality(QueuedCalls(p, n)') + Cardinality(HandledCalls(p, n)')
                        = Cardinality(QueuedCalls(p, n)) + Cardinality(HandledCalls(p, n))
    BY DEF Unanswered
  <2>1. job # Job("call", p, n)
    BY DEF Job
  <2>2. Cardinality(QueuedCalls(p, n)') = Cardinality(QueuedCalls(p, n))
    BY <1>1, <2>1, QueuedAfterArrival, CallsAreFinite DEF Count
  <2> QED
    BY <2>2, CallsUnchanged
<1>4. \A n \in 1 .. presses : n \in 1 .. presses'
  BY <1>1 DEF Shapes
<1>5. (\A i \in DOMAIN backlog : Numbered(backlog[i]))'
  BY <1>1, <1>2, <1>4 DEF CallInv, Numbered, Request
<1>6. (\A w \in Workers : worker[w] # Idle => Numbered(worker[w]))'
  BY <1>4 DEF CallInv, Numbered
<1>7. \A p \in Pages : suite'[p] # NoSuite => suite'[p].no \in 1 .. presses'
  BY <1>4 DEF CallInv
<1>8. \A p \in Pages : Counted(p)'
  BY <1>3 DEF CallInv, Counted
<1>9. ASSUME NEW p \in Pages, NEW i \in WaitingAt(p)'
      PROVE  Unanswered[p][backlog'[i].no] = 0
  <2>1. CASE i \in 1 .. Len(backlog)
    <3>1. i \in WaitingAt(p) /\ backlog'[i] = backlog[i]
      BY <1>2, <2>1 DEF WaitingAt
    <3> QED
      BY <3>1 DEF CallInv, Fresh
  <2>2. CASE i = Len(backlog) + 1
    <3>1. backlog'[i] = job /\ job.no > presses
      BY <1>2, <2>2 DEF WaitingAt
    <3>2. \A n \in 1 .. presses : job.no # n
      BY <1>1, <3>1 DEF Shapes, Request
    <3>3. QueuedCalls(p, job.no) = {} /\ HandledCalls(p, job.no) = {}
      BY <3>2, IdleAssumption DEF QueuedCalls, HandledCalls, CallInv, Numbered, Job, Request
    <3>4. job.no \in Nat
      BY DEF Request
    <3>5. Cardinality(QueuedCalls(p, job.no)) + Cardinality(HandledCalls(p, job.no)) = 0
      BY <3>3, FS_EmptySet
    <3> QED
      BY <3>1, <3>4, <3>5 DEF Unanswered
  <2> QED
    BY <1>2, <2>1, <2>2 DEF WaitingAt
<1> QED
  BY <1>3, <1>5, <1>6, <1>7, <1>8, <1>9 DEF CallInv, Fresh

\* A worker is done with something else than a call; a suite may end.
LEMMA LeavingKeepsCalls ==
  ASSUME IInv, CallInv, NEW w \in Workers, BusyWith(w, "health") \/ BusyWith(w, "run"), Leaves(w),
         UNCHANGED <<backlog, presses>>, \A p \in Pages : suite'[p] \in {suite[p], NoSuite}
  PROVE  CallInv'
<1>1. Shapes
  BY DEF IInv
<1>2. Unanswered' = Unanswered
  <2> SUFFICES ASSUME NEW p \in Pages, NEW n \in Nat
               PROVE  Cardinality(QueuedCalls(p, n)') + Cardinality(HandledCalls(p, n)')
                        = Cardinality(QueuedCalls(p, n)) + Cardinality(HandledCalls(p, n))
    BY DEF Unanswered
  <2>1. Idle # Job("call", p, n) /\ worker[w] # Job("call", p, n)
    BY IdleAssumption DEF Job, BusyWith
  <2>2. /\ Cardinality(HandledCalls(p, n)') \in Nat
        /\ Cardinality(HandledCalls(p, n)') + Count(worker[w] = Job("call", p, n))
             = Cardinality(HandledCalls(p, n)) + Count(worker'[w] = Job("call", p, n))
    BY <1>1, HandledAfterChange DEF Leaves, Shapes
  <2>3. Cardinality(HandledCalls(p, n)') = Cardinality(HandledCalls(p, n))
    BY <1>1, <2>1, <2>2, CallsAreFinite DEF Count, Leaves, Shapes
  <2> QED
    BY <2>3, CallsUnchanged
<1>3. (\A v \in Workers : worker[v] # Idle => Numbered(worker[v]))'
  BY <1>1 DEF CallInv, Numbered, Leaves, Shapes
<1>4. \A p \in Pages : Counted(p)' /\ Fresh(p)'
  BY <1>2 DEF CallInv, Counted, Fresh, WaitingAt
<1> QED
  BY <1>3, <1>4 DEF CallInv, Numbered

\* A new suite has made no calls, whatever its predecessors have left behind.
LEMMA AcceptKeepsCalls == ASSUME IInv, CallInv, NEW w \in Workers, Accept(w) PROVE CallInv'
<1>1. Shapes
  BY DEF IInv
<1>2. /\ backlog # <<>> /\ backlog' = Tail(backlog) /\ worker[w] = Idle
      /\ UNCHANGED presses
  BY DEF Accept, CanAccept
<1>3. PICK job \in Request :
        /\ job = Head(backlog)
        /\ worker' = [worker EXCEPT ![w] = job]
        /\ suite' = IF job.kind # "run" THEN suite
                    ELSE [suite EXCEPT ![job.page] = [no |-> job.no, left |-> Calls, open |-> 0]]
  <2>1. Head(backlog) \in Request
    BY <1>1, <1>2 DEF Shapes
  <2> QED
    BY <2>1 DEF Accept
<1>4. /\ DOMAIN backlog = 1 .. Len(backlog) /\ Len(backlog) \in Nat \ {0}
      /\ DOMAIN backlog' = 1 .. Len(backlog) - 1
      /\ \A i \in 1 .. Len(backlog) - 1 : backlog'[i] = backlog[i + 1]
      /\ job = backlog[1]
  BY <1>1, <1>2, <1>3 DEF Shapes
<1>5. Unanswered' = Unanswered
  <2> SUFFICES ASSUME NEW p \in Pages, NEW n \in Nat
               PROVE  Cardinality(QueuedCalls(p, n)') + Cardinality(HandledCalls(p, n)')
                        = Cardinality(QueuedCalls(p, n)) + Cardinality(HandledCalls(p, n))
    BY DEF Unanswered
  <2>1. worker[w] # Job("call", p, n)
    BY <1>2, IdleAssumption DEF Job
  <2>2. /\ Cardinality(HandledCalls(p, n)') \in Nat
        /\ Cardinality(HandledCalls(p, n)') + Count(worker[w] = Job("call", p, n))
             = Cardinality(HandledCalls(p, n)) + Count(worker'[w] = Job("call", p, n))
        /\ worker'[w] = job
    BY <1>1, <1>3, HandledAfterChange DEF Shapes
  <2>3. /\ Cardinality(QueuedCalls(p, n)') \in Nat
        /\ Cardinality(QueuedCalls(p, n)') + Count(job = Job("call", p, n))
             = Cardinality(QueuedCalls(p, n))
    BY <1>1, <1>2, <1>3, QueuedAfterAccept
  <2> QED
    BY <1>1, <2>1, <2>2, <2>3, CallsAreFinite DEF Count
<1>6. Numbered(job)
  BY <1>4 DEF CallInv
<1>7. (\A i \in DOMAIN backlog : Numbered(backlog[i]))'
  BY <1>2, <1>4 DEF CallInv, Numbered
<1>8. (\A v \in Workers : worker[v] # Idle => Numbered(worker[v]))'
  BY <1>1, <1>2, <1>3, <1>6 DEF CallInv, Numbered, Shapes
<1>9. ASSUME NEW p \in Pages PROVE Fresh(p)'
  <2> SUFFICES ASSUME NEW i \in WaitingAt(p)' PROVE Unanswered[p][backlog'[i].no] = 0
    BY <1>5 DEF Fresh
  <2>1. i + 1 \in WaitingAt(p) /\ backlog'[i] = backlog[i + 1]
    BY <1>4 DEF WaitingAt
  <2> QED
    BY <2>1 DEF CallInv, Fresh
<1>10. ASSUME NEW p \in Pages, suite'[p] # NoSuite PROVE Counted(p)' /\ suite'[p].no \in 1 .. presses'
  <2>1. CASE suite'[p] = suite[p]
    BY <1>2, <1>5, <1>10, <2>1 DEF CallInv, Counted
  <2>2. CASE job.kind = "run" /\ job.page = p
    <3>1. suite'[p] = [no |-> job.no, left |-> Calls, open |-> 0]
      BY <1>1, <1>3, <2>2 DEF Shapes
    <3>2. 1 \in WaitingAt(p)
      BY <1>4, <2>2 DEF WaitingAt
    <3>3. Unanswered[p][job.no] = 0
      BY <1>4, <3>2 DEF CallInv, Fresh
    <3> QED
      BY <1>2, <1>5, <1>6, <2>2, <3>1, <3>3, CallsAssumption DEF Counted, Numbered
  <2> QED
    BY <1>1, <1>3, <2>1, <2>2 DEF Shapes, Request
<1> QED
  BY <1>7, <1>8, <1>9, <1>10 DEF CallInv, Counted

LEMMA MakeCallKeepsCalls == ASSUME IInv, CallInv, NEW p \in Pages, MakeCall(p) PROVE CallInv'
<1> DEFINE call == Job("call", p, suite[p].no)
<1>1. Shapes /\ suite[p] # NoSuite /\ suite[p] \in [no : Nat, left : Int, open : Int]
  BY DEF IInv, Shapes, MakeCall, CanCall
<1>2. /\ call \in Request /\ call.no = suite[p].no /\ call.kind = "call"
      /\ Arrives(call) /\ UNCHANGED <<worker, presses>>
  BY <1>1 DEF MakeCall, Request, Job
<1>3. /\ DOMAIN backlog = 1 .. Len(backlog) /\ DOMAIN backlog' = 1 .. Len(backlog) + 1
      /\ Len(backlog) \in Nat
      /\ backlog'[Len(backlog) + 1] = call
      /\ \A i \in 1 .. Len(backlog) : backlog'[i] = backlog[i]
  BY <1>1, <1>2 DEF Arrives, Shapes
<1>4. /\ suite'[p] = [no |-> suite[p].no, left |-> suite[p].left - 1, open |-> suite[p].open + 1]
      /\ \A q \in Pages : q # p => suite'[q] = suite[q]
  BY <1>1 DEF MakeCall, Shapes
<1>5. ASSUME NEW q \in Pages, NEW n \in Nat
      PROVE  /\ Unanswered[q][n] \in Nat
             /\ Unanswered'[q][n] = Unanswered[q][n] + Count(q = p /\ n = suite[p].no)
  <2>1. Cardinality(QueuedCalls(q, n)')
          = Cardinality(QueuedCalls(q, n)) + Count(call = Job("call", q, n))
    BY <1>1, <1>2, QueuedAfterArrival
  <2>2. call = Job("call", q, n) <=> q = p /\ n = suite[p].no
    BY DEF Job
  <2>3. HandledCalls(q, n)' = HandledCalls(q, n)
    BY <1>2, CallsUnchanged
  <2>4. Cardinality(QueuedCalls(q, n)) \in Nat /\ Cardinality(HandledCalls(q, n)) \in Nat
    BY <1>1, CallsAreFinite
  <2>5. /\ Unanswered[q][n] = Cardinality(QueuedCalls(q, n)) + Cardinality(HandledCalls(q, n))
        /\ Unanswered'[q][n] = Cardinality(QueuedCalls(q, n)') + Cardinality(HandledCalls(q, n)')
    BY DEF Unanswered
  <2> QED
    BY <2>1, <2>2, <2>3, <2>4, <2>5 DEF Count
<1>6. suite[p].no \in 1 .. presses
  BY <1>1 DEF CallInv
<1>7. (\A i \in DOMAIN backlog : Numbered(backlog[i]))'
  BY <1>2, <1>3, <1>6 DEF CallInv, Numbered
<1>8. Counted(p)'
  <2>1. /\ suite[p].left > 0 /\ suite[p].left \in 0 .. Calls
        /\ suite[p].open = Unanswered[p][suite[p].no] /\ suite[p].open \in Int
        /\ suite[p].open = 0 \/ suite[p].left < Burst
        /\ suite[p].open <= 1 \/ suite[p].open + suite[p].left <= Burst
    BY <1>1 DEF CallInv, Counted, MakeCall, CanCall
  <2>2. Unanswered'[p][suite[p].no] = suite[p].open + 1
    BY <1>1, <1>5, <2>1 DEF Count
  <2>3. Calls \in Nat /\ Burst \in Nat
    BY CallsAssumption
  <2> QED
    BY <1>4, <2>1, <2>2, <2>3 DEF Counted
<1>9. ASSUME NEW q \in Pages, q # p PROVE Counted(q)'
  <2>1. suite[q] # NoSuite => suite[q].no \in Nat
    BY <1>1 DEF Shapes
  <2> QED
    BY <1>4, <1>5, <1>9, <2>1 DEF CallInv, Counted, Count
<1>10. ASSUME NEW q \in Pages PROVE Fresh(q)'
  <2>1. WaitingAt(q)' = WaitingAt(q)
    BY <1>1, <1>2, WaitingAfterArrival
  <2>2. WaitingAt(p) = {}
    BY <1>1, SupervisedPageByPage DEF IInv, Supervised
  <2>3. ASSUME NEW i \in WaitingAt(q) PROVE Unanswered'[q][backlog'[i].no] = 0
    <3>1. q # p /\ backlog'[i] = backlog[i] /\ backlog[i] \in Request
      BY <1>1, <1>3, <2>2 DEF WaitingAt, Shapes
    <3>2. backlog[i].no \in Nat /\ Unanswered[q][backlog[i].no] = 0
      BY <3>1 DEF CallInv, Fresh, Request
    <3> QED
      BY <1>5, <3>1, <3>2 DEF Count
  <2> QED
    BY <2>1, <2>3 DEF Fresh
<1>11. (\A q \in Pages : suite[q] # NoSuite => suite[q].no \in 1 .. presses)'
  BY <1>1, <1>2, <1>4, <1>6 DEF CallInv
<1>12. (\A w \in Workers : worker[w] # Idle => Numbered(worker[w]))'
  BY <1>2 DEF CallInv, Numbered
<1> QED
  BY <1>7, <1>8, <1>9, <1>10, <1>11, <1>12 DEF CallInv

\* An answer reaches the suite that made the call, or nobody.
LEMMA AnswerCallKeepsCalls == ASSUME IInv, CallInv, NEW w \in Workers, AnswerCall(w) PROVE CallInv'
<1>1. Shapes /\ worker[w] \in Request /\ worker[w].kind = "call"
  BY DEF IInv, Shapes, AnswerCall, CanAnswer, BusyWith
<1>2. PICK p \in Pages, no \in Nat : worker[w] = Job("call", p, no) /\ p = worker[w].page /\ no = worker[w].no
  BY <1>1 DEF Request, Job
<1>3. /\ worker'[w] = Idle /\ \A v \in Workers : v # w => worker'[v] = worker[v]
      /\ UNCHANGED <<backlog, presses>>
  BY <1>1 DEF AnswerCall, Leaves, Shapes
<1>4. ASSUME NEW q \in Pages, NEW n \in Nat
      PROVE  /\ Unanswered[q][n] \in Nat /\ Unanswered'[q][n] \in Nat
             /\ Unanswered'[q][n] + Count(q = p /\ n = no) = Unanswered[q][n]
  <2>1. /\ Cardinality(HandledCalls(q, n)') \in Nat
        /\ Cardinality(HandledCalls(q, n)') + Count(worker[w] = Job("call", q, n))
             = Cardinality(HandledCalls(q, n)) + Count(worker'[w] = Job("call", q, n))
    BY <1>3, HandledAfterChange
  <2>2. /\ worker[w] = Job("call", q, n) <=> q = p /\ n = no
        /\ worker'[w] # Job("call", q, n)
    BY <1>2, <1>3, IdleAssumption DEF Job
  <2>3. QueuedCalls(q, n)' = QueuedCalls(q, n)
    BY <1>3, CallsUnchanged
  <2>4. Cardinality(QueuedCalls(q, n)) \in Nat /\ Cardinality(HandledCalls(q, n)) \in Nat
    BY <1>1, CallsAreFinite
  <2>5. /\ Unanswered[q][n] = Cardinality(QueuedCalls(q, n)) + Cardinality(HandledCalls(q, n))
        /\ Unanswered'[q][n] = Cardinality(QueuedCalls(q, n)') + Cardinality(HandledCalls(q, n)')
    BY DEF Unanswered
  <2> QED
    BY <2>1, <2>2, <2>3, <2>4, <2>5 DEF Count
<1>5. ASSUME NEW q \in Pages
      PROVE  IF q = p /\ suite[p] # NoSuite /\ suite[p].no = no
             THEN suite'[p] = [suite[p] EXCEPT !.open = @ - 1]
             ELSE suite'[q] = suite[q]
  BY <1>1, <1>2 DEF AnswerCall, Shapes
<1>6. ASSUME NEW q \in Pages
      PROVE  /\ Counted(q)'
             /\ suite'[q] # NoSuite => suite'[q].no \in 1 .. presses
  <2>1. suite[q] # NoSuite =>
          /\ suite[q] \in [no : Nat, left : Int, open : Int]
          /\ suite[q].no \in 1 .. presses
    BY <1>1 DEF Shapes, CallInv
  <2>2. CASE q = p /\ suite[p] # NoSuite /\ suite[p].no = no
    <3>1. /\ suite'[p].no = no /\ suite'[p].left = suite[p].left
          /\ suite'[p].open = suite[p].open - 1 /\ suite[p].open \in Int /\ suite[p].left \in Int
      BY <1>5, <2>1, <2>2
    <3>2. Unanswered'[p][no] + 1 = Unanswered[p][no] /\ Unanswered'[p][no] \in Nat
      BY <1>4 DEF Count
    <3>3. Burst \in Nat
      BY CallsAssumption
    <3>4. Counted(p)
      BY DEF CallInv
    <3> QED
      BY <2>1, <2>2, <3>1, <3>2, <3>3, <3>4 DEF Counted
  <2>3. CASE ~(q = p /\ suite[p] # NoSuite /\ suite[p].no = no)
    <3>1. suite'[q] = suite[q]
      BY <1>5, <2>3
    <3>2. suite[q] # NoSuite => Unanswered'[q][suite[q].no] = Unanswered[q][suite[q].no]
      BY <1>4, <2>1, <2>3 DEF Count
    <3> QED
      BY <2>1, <3>1, <3>2 DEF CallInv, Counted
  <2> QED
    BY <2>2, <2>3
<1>7. ASSUME NEW q \in Pages PROVE Fresh(q)'
  <2>1. WaitingAt(q)' = WaitingAt(q)
    BY <1>3, WaitingUnchanged
  <2>2. ASSUME NEW i \in WaitingAt(q) PROVE Unanswered'[q][backlog[i].no] = 0
    <3>1. backlog[i] \in Request /\ Unanswered[q][backlog[i].no] = 0
      BY <1>1 DEF WaitingAt, Shapes, CallInv, Fresh
    <3>2. backlog[i].no \in Nat
      BY <3>1 DEF Request
    <3> QED
      BY <1>4, <3>1, <3>2 DEF Count
  <2> QED
    BY <1>3, <2>1, <2>2 DEF Fresh
<1>8. (\A v \in Workers : worker[v] # Idle => Numbered(worker[v]))'
  BY <1>3 DEF CallInv, Numbered
<1>9. (\A i \in DOMAIN backlog : Numbered(backlog[i]))'
  BY <1>3 DEF CallInv, Numbered
<1> QED
  BY <1>3, <1>6, <1>7, <1>8, <1>9 DEF CallInv

LEMMA StepCalls == IInv /\ CallInv /\ [Next]_vars => CallInv'
<1> SUFFICES ASSUME IInv, CallInv, [Next]_vars PROVE CallInv'
  OBVIOUS
<1>0. Shapes
  BY DEF IInv
<1>1. ASSUME NEW p \in Pages, Press(p) PROVE CallInv'
  <2>1. presses \in Nat /\ presses' = presses + 1
    BY <1>0, <1>1 DEF Press, Shapes
  <2>2. PICK job \in Request : job.kind = "run" /\ job.no = presses + 1 /\ Arrives(job)
    BY <1>1, <2>1 DEF Press, Request, Job
  <2> QED
    BY <1>1, <2>1, <2>2, ArrivalKeepsCalls DEF Press
<1>2. ASSUME NEW p \in Watching, NEW i \in Polls, LoadHealth(p, i), ~UNCHANGED backlog PROVE CallInv'
  <2>1. PICK job \in Request : job.kind = "health" /\ Arrives(job)
    BY <1>2, WatchingAssumption DEF LoadHealth, Request, Job
  <2> QED
    BY <1>0, <1>2, <2>1, ArrivalKeepsCalls DEF LoadHealth, Shapes
<1>3. ASSUME NEW w \in Workers, AnswerHealth(w) PROVE CallInv'
  BY <1>3, LeavingKeepsCalls DEF AnswerHealth, CanAnswer
<1>4. ASSUME NEW w \in Workers, SuiteExits(w) \/ RunTimesOut(w) \/ AbortWorker(w) PROVE CallInv'
  <2>1. \A p \in Pages : suite'[p] \in {suite[p], NoSuite}
    BY <1>0, <1>4 DEF SuiteExits, RunTimesOut, AbortWorker, Shapes
  <2> QED
    BY <1>4, <2>1, LeavingKeepsCalls DEF SuiteExits, CanExit, RunTimesOut, AbortWorker
<1>5. CASE QuietStep \/ \E p \in Watching, i \in Polls : LoadHealth(p, i) /\ UNCHANGED backlog
  <2>1. UNCHANGED <<backlog, worker, suite, presses>>
    BY <1>5 DEF QuietStep, LoadHealth, ShowHealth, Boots, GivesUp, DatabaseChanges, vars
  <2>2. Unanswered' = Unanswered
    BY <2>1 DEF Unanswered, QueuedCalls, HandledCalls
  <2> QED
    BY <2>1, <2>2 DEF CallInv, Numbered, Counted, Fresh, WaitingAt
<1>6. CASE Halt
  <2>1. /\ backlog' = <<>> /\ DOMAIN backlog' = {}
        /\ \A w \in Workers : worker'[w] = Idle
        /\ \A p \in Pages : suite'[p] = NoSuite
    BY <1>6 DEF Halt
  <2> QED
    BY <2>1 DEF CallInv, Counted, Fresh, WaitingAt
<1> QED
  BY <1>1, <1>2, <1>3, <1>4, <1>5, <1>6, AcceptKeepsCalls, MakeCallKeepsCalls, AnswerCallKeepsCalls
  DEF Next, QuietStep

-----------------------------------------------------------------------------
(* Types *)

\* A suite never has more calls open than its threads make at once.
LEMMA SuiteTypes ==
  ASSUME IInv, CallInv, presses <= MaxRuns
  PROVE  suite \in [Pages -> Suite \union {NoSuite}]
<1>1. Shapes
  BY DEF IInv
<1>2. ASSUME NEW p \in Pages, suite[p] # NoSuite PROVE suite[p] \in Suite
  <2>1. suite[p] \in [no : Nat, left : Int, open : Int]
    BY <1>1, <1>2 DEF Shapes
  <2>2. Unanswered[p][suite[p].no] \in Nat
    BY <1>1, <2>1, CallsAreFinite DEF Unanswered
  <2>3. suite[p].no \in 1 .. MaxRuns
    BY <1>1, <1>2, MaxRunsAssumption DEF CallInv, Shapes
  <2>4. suite[p].left \in 0 .. Calls /\ suite[p].open \in 0 .. Burst
    BY <1>2, <2>1, <2>2, CallsAssumption DEF CallInv, Counted
  <2> QED
    BY <2>1, <2>3, <2>4 DEF Suite
<1> QED
  BY <1>1, <1>2 DEF Shapes

LEMMA JobTypes ==
  /\ \A p \in Pages, no \in 1 .. MaxRuns :
       Job("run", p, no) \in Jobs /\ Job("call", p, no) \in Jobs
  /\ \A p \in Watching, i \in Polls : Job("health", p, i) \in Jobs
  /\ \A job \in Jobs : job.kind = "health" => job.page \in Watching /\ job.no \in Polls
BY DEF Jobs, Job

LEMMA StepTypes == IInv /\ CallInv /\ IInv' /\ CallInv' /\ TypeOK /\ [Next]_vars => TypeOK'
<1> SUFFICES ASSUME IInv, CallInv, IInv', CallInv', TypeOK, [Next]_vars PROVE TypeOK'
  OBVIOUS
<1>1. presses' \in 0 .. MaxRuns
  <2>1. ASSUME NEW p \in Pages, Press(p) PROVE presses' \in 0 .. MaxRuns
    BY <2>1, MaxRunsAssumption DEF TypeOK, Press
  <2>2. CASE ~\E p \in Pages : Press(p)
    <3>1. presses' = presses
      BY <2>2
      DEF Next, MakeCall, LoadHealth, ShowHealth, Accept, AnswerCall, AnswerHealth,
          SuiteExits, RunTimesOut, AbortWorker, Boots, GivesUp, Halt, DatabaseChanges, vars
    <3> QED
      BY <3>1 DEF TypeOK
  <2> QED
    BY <2>1, <2>2
<1>2. (suite \in [Pages -> Suite \union {NoSuite}])'
  <2>1. (IInv /\ CallInv /\ presses <= MaxRuns)'
    BY <1>1, MaxRunsAssumption
  <2> QED
    BY <2>1, SuiteTypes, PTL
<1>3. disabled' \in [Pages -> BOOLEAN]
  BY DEF IInv, Shapes
<1>4. database' \in {"up", "down"} /\ badge' \in [Watching -> {"up", "down"}]
  BY DEF TypeOK, Next, Press, MakeCall, LoadHealth, ShowHealth, Accept, AnswerCall, AnswerHealth,
         SuiteExits, RunTimesOut, AbortWorker, Boots, GivesUp, Halt, DatabaseChanges, vars
<1>5. booting' \subseteq Workers /\ server' \in {"serving", "halting", "halted"}
  BY DEF TypeOK, Next, Press, MakeCall, LoadHealth, ShowHealth, Accept, AnswerCall, AnswerHealth,
         SuiteExits, RunTimesOut, AbortWorker, Boots, GivesUp, Halt, DatabaseChanges, gunicorn, vars
<1>6. poll' \in [Watching -> [Polls -> {"none", "sent", "up", "down"}]]
  <2>1. ASSUME NEW w \in Workers, AnswerHealth(w)
        PROVE  worker[w].page \in Watching /\ worker[w].no \in Polls
    BY <2>1, JobTypes DEF TypeOK, AnswerHealth, CanAnswer, BusyWith
  <2>2. ASSUME NEW w \in Workers, AnswerHealth(w)
        PROVE  poll' \in [Watching -> [Polls -> {"none", "sent", "up", "down"}]]
    BY <2>1, <2>2 DEF TypeOK, AnswerHealth
  <2>3. ASSUME NEW p \in Watching, NEW i \in Polls, LoadHealth(p, i) \/ ShowHealth(p, i)
        PROVE  poll' \in [Watching -> [Polls -> {"none", "sent", "up", "down"}]]
    <3>1. PICK state \in {"none", "sent", "down"} : poll' = [poll EXCEPT ![p][i] = state]
      BY <2>3 DEF LoadHealth, ShowHealth
    <3>2. [poll[p] EXCEPT ![i] = state] \in [Polls -> {"none", "sent", "up", "down"}]
      BY DEF TypeOK
    <3> QED
      BY <3>1, <3>2 DEF TypeOK
  <2>4. CASE poll' = poll
    BY <2>4 DEF TypeOK
  <2>5. CASE Halt
    BY <2>5 DEF TypeOK, Halt, PollsBreak
  <2> QED
    BY <2>2, <2>3, <2>4, <2>5
    DEF Next, Press, MakeCall, Accept, AnswerCall, SuiteExits, RunTimesOut, AbortWorker, Boots,
        GivesUp, DatabaseChanges, vars
<1>7. backlog' \in Seq(Jobs) /\ worker' \in [Workers -> Jobs \union {Idle}]
  <2>1. ASSUME NEW job \in Jobs, Arrives(job) PROVE backlog' \in Seq(Jobs)
    BY <2>1 DEF TypeOK, Arrives
  <2>2. ASSUME NEW p \in Pages, Press(p) PROVE backlog' \in Seq(Jobs)
    <3>1. presses + 1 \in 1 .. MaxRuns
      BY <2>2, MaxRunsAssumption DEF TypeOK, Press
    <3> QED
      BY <2>1, <2>2, <3>1, JobTypes DEF Press
  <2>3. ASSUME NEW p \in Pages, MakeCall(p) PROVE backlog' \in Seq(Jobs)
    <3>1. suite[p].no \in 1 .. MaxRuns
      BY <2>3 DEF TypeOK, MakeCall, CanCall, Suite
    <3> QED
      BY <2>1, <2>3, <3>1, JobTypes DEF MakeCall
  <2>4. ASSUME NEW p \in Watching, NEW i \in Polls, LoadHealth(p, i) PROVE backlog' \in Seq(Jobs)
    BY <2>1, <2>4, JobTypes DEF TypeOK, LoadHealth
  <2>5. ASSUME NEW w \in Workers, Accept(w)
        PROVE  backlog' \in Seq(Jobs) /\ worker' \in [Workers -> Jobs \union {Idle}]
    <3>1. backlog \in Seq(Jobs) /\ backlog # <<>>
      BY <2>5 DEF TypeOK, Accept, CanAccept
    <3>2. Head(backlog) \in Jobs /\ Tail(backlog) \in Seq(Jobs)
      BY <3>1
    <3> QED
      BY <2>5, <3>2 DEF TypeOK, Accept
  <2>6. ASSUME NEW w \in Workers,
               AnswerCall(w) \/ AnswerHealth(w) \/ SuiteExits(w) \/ RunTimesOut(w) \/ AbortWorker(w)
        PROVE  backlog' \in Seq(Jobs) /\ worker' \in [Workers -> Jobs \union {Idle}]
    BY <2>6 DEF TypeOK, AnswerCall, AnswerHealth, SuiteExits, RunTimesOut, AbortWorker, Leaves
  <2>7. (\E p \in Pages : Press(p) \/ MakeCall(p)) \/ (\E p \in Watching, i \in Polls : LoadHealth(p, i))
          => worker' = worker
    BY DEF Press, MakeCall, LoadHealth
  <2>8. QuietStep => UNCHANGED <<backlog, worker>>
    BY DEF QuietStep, ShowHealth, Boots, GivesUp, DatabaseChanges, vars
  <2>9. CASE Halt
    BY <2>9 DEF Halt
  <2> QED
    BY <2>2, <2>3, <2>4, <2>5, <2>6, <2>7, <2>8, <2>9 DEF TypeOK, Next, QuietStep
<1> QED
  BY <1>1, <1>2, <1>3, <1>4, <1>5, <1>6, <1>7 DEF TypeOK

LEMMA InitTypes == Init => TypeOK
BY MaxRunsAssumption DEF Init, TypeOK

LEMMA Invariance == Spec => [](IInv /\ CallInv /\ TypeOK)
BY InitInv, InitCalls, InitTypes, StepInv, StepCalls, StepTypes, PTL DEF Spec

(***************************************************************************)
(* Every variable keeps its type: a suite never waits for more answers     *)
(* than its threads have asked for, nor for fewer than none, although the  *)
(* answers to the calls of killed suites arrive all the time.              *)
(***************************************************************************)
THEOREM Types == Spec => []TypeOK
BY Invariance, PTL

(***************************************************************************)
(* The dashboard blocks a server that serves only if there are as many     *)
(* suites as workers, however many there are: an idle worker has taken     *)
(* everything from the backlog, so that the call a suite waits for has a   *)
(* worker, and this worker can answer it.                                  *)
(***************************************************************************)
THEOREM StallsNeedEveryWorker == Spec => []StallNeedsEveryWorker
<1>1. IInv /\ CallInv /\ TypeOK => StallNeedsEveryWorker
  <2> SUFFICES ASSUME IInv, CallInv, TypeOK, Stalled, NEW w \in Workers, ~BusyWith(w, "run")
               PROVE  FALSE
    BY DEF StallNeedsEveryWorker
  <2>1. Shapes
    BY DEF IInv
  <2>2. \A v \in Workers : ~BusyWith(v, "call") /\ ~BusyWith(v, "health")
    BY DEF Stalled, CanAnswer
  <2>3. worker[w] = Idle
    BY <2>1, <2>2 DEF Shapes, BusyWith, Request
  <2>4. backlog = <<>>
    BY <2>3 DEF Stalled, CanAccept, CanBoot
  <2>5. PICK p \in Pages : suite[p] # NoSuite /\ suite[p].open > 0
    BY DEF Stalled
  <2>6. suite[p].no \in Nat
    BY <2>1, <2>5 DEF Shapes
  <2>7. QueuedCalls(p, suite[p].no) = {}
    BY <2>4 DEF QueuedCalls
  <2>8. HandledCalls(p, suite[p].no) = {}
    BY <2>2, <2>6, IdleAssumption DEF HandledCalls, BusyWith, Job
  <2>9. Unanswered[p][suite[p].no] = 0
    <3>1. Cardinality(QueuedCalls(p, suite[p].no)) + Cardinality(HandledCalls(p, suite[p].no)) = 0
      BY <2>7, <2>8, FS_EmptySet
    <3> QED
      BY <2>6, <3>1 DEF Unanswered
  <2> QED
    BY <2>5, <2>9 DEF CallInv, Counted
<1> QED
  BY <1>1, Invariance, PTL
=============================================================================
