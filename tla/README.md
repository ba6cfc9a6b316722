# A verification project for the order service

TLA+ models of the order management API in this repository (a Flask application over
PostgreSQL), TLC configurations that check them on small instances, and TLAPS proofs of what
matters most for every size of the system. Source lines below are those of `src/`.

## 1. The system

| Component | Source | State | Operations | Talks to |
|---|---|---|---|---|
| Order routes | `app/routes/orders.py` | none | `POST /orders` with and without a key, `GET /orders/:id` | order processing, idempotency keys |
| Order processing | `app/services/order_service.py` | none of its own; the local variables of each request | `create_order`: lookups, *reserve* transaction, charge, *finalize* transaction, read back | tables, warehouse selection, gateway |
| Tables | `app/repositories.py`, `db/01_schema.sql` | `inventory`, `orders`, `order_items`, `payments`, `idempotency_keys` | `reserve_inventory`, `release_inventory`, `create_order`, `update_order_status`, `record_payment`, the three idempotency statements, reads | PostgreSQL row locks and transactions |
| Idempotency keys | `app/routes/orders.py`, `app/repositories.py` | one row per key: fingerprint, response or NULL, `created_at` | claim (INSERT, UPDATE, SELECT), replay, save, release | wraps order processing |
| Database sessions | `app/db.py` | a pool of connections per process; autocommit and open transaction of a connection | `init_db_pool`, `get_db`, `close_db`, `transaction` | every route |
| Warehouse selection | `app/services/warehouse_selector.py`, `app/utils/geo.py` | none | nearest warehouse that has everything | `inventory`, `warehouses` |
| Payment gateway | `app/services/payment.py` | none (a mock of a third party) | `charge` | called between the two transactions |
| Request validation | `app/validation.py` | none | `parse_create_order_request` | first step of `POST /orders` |
| Errors | `app/errors.py` | none | exception to HTTP status | all routes |
| Health, dashboard | `app/routes/health.py`, `app/routes/dashboard.py`, `app/static/`, `app/templates/` | none; the smoke-test route holds its worker | `/health`, statistics, run `scripts/smoke_test.py` as a subprocess | pool, the server itself |
| Geocoding | `app/services/geocoding.py` | none | address to coordinates by table or hash | order processing |
| Wiring | `app/__init__.py`, `app/config.py`, `run.py`, `Dockerfile` | configuration | pool sizes, statement timeout 30 s, gunicorn with 2 workers and 30 s timeout | |
| Test and data tools | `scripts/`, `db/02_seed.sql` | | end-to-end scenarios, seed data | API and database |

What is hard here, and what would make each part correct:

* **Order processing.** Requests run concurrently in processes and threads. The stock is read
  without a lock (`order_service.py:66`) and reserved later; the reservation takes several row
  locks one by one; the charge lies between two transactions; any statement may raise, a COMMIT
  may succeed without its client learning of it, a worker may be killed at any point. *Correct:*
  no unit of stock is lost or sold twice; orders, payments and the gateway's answer agree; the
  HTTP status tells the truth; locks are held by transactions only and never in a cycle; every
  request is answered; an order does not stay pending without a failure.
* **Idempotency keys.** The claim is three statements with other requests between them; release
  and save name the key and not the claimant; a claim becomes stale by the clock, whether its
  handler is dead or slow. *Correct:* one worker per key; a replay answers the same body; all
  clients of a key learn the same; a completed key is never claimed again and keeps its response;
  at most one charge.
* **Validation, selection and gateway.** Pure functions with many early exits. *Correct:* exactly
  faultless bodies are accepted, all problems are reported, merging duplicate items and pricing
  keep the units, the nearest warehouse that has everything ships, and the checksum refuses
  mistyped cards.
* **Sessions, server.** A pool that raises instead of waiting, connections that must come back
  clean, a route that waits for requests to its own server, pages that poll it meanwhile.
  *Correct:* no connection is lost or shared, none returns with an open transaction, the server
  waits for itself only as long as a timeout allows, no subprocess is left behind, and what a
  page shows of the database is right in the end, or that the server is gone. It does go: the
  worker that replaces an aborted one must reach the database (`db.py:30-48`) or gunicorn halts.
* **Routes.** Claim, order processing and stored response are dozens of statements that fail one
  by one; a reader's four SELECTs fall between them. *Correct:* a replay describes the sale that
  took place; a key does not place a second order without cause; a reader sees an order and a
  payment that belong together.

## 2. Modules

| Module | What it is |
|---|---|
| `Fulfilment` | abstract: what order processing promises about stock, one step per transaction |
| `OrderService` | `OrderService.create_order` by several requests at once, over rows, locks and commits |
| `Idempotency` | the protocol of the Idempotency-Key header |
| `OrderApi` | composes the two: `POST /orders` with and without a key, and `GET /orders/:id` |
| `ConnectionPool` | the connections of a process: boot, lending, transactions, `/health` |
| `SmokeTestRunner` | the dashboard's pages, the server's workers, and suites that call the server they wait in |
| `RequestValidation`, `WarehouseSelection`, `PaymentGateway` | `parse_create_order_request`, `find_best_warehouse` and `charge` as operators |
| `OrderInput` | composes those three: body in, verdict, warehouse, total and charge out |
| `MC...` | constants of the TLC instances |
| `...Proofs` | theorems and their proofs |

### Fulfilment

`stock` is table `inventory`, `orders` the row (and items) each call created. `Place` takes a
cart from one warehouse and creates the order, `Settle` makes it paid, `Refund` makes it
`payment_failed` and puts the units back. `Conserved` says that stock and the units held by
pending and paid orders add up to the initial stock, row by row.

### OrderService

The unit of interleaving is a point where PostgreSQL lets others in. `inventory` holds the
committed rows; `pending` the version the last writer of a row has written; `rowLock` that
writer while its transaction is open. `ReserveRow` and `ReleaseRow` are one UPDATE each: they
need the row free (an UPDATE waits for the transaction that wrote the row and then looks at what
it committed), `LoseRace` is an UPDATE that matches nothing. `PlaceOrder` and `RecordPayment` are
the rest of a transaction together with its COMMIT: nothing they write is contended or visible
earlier. The SELECT of the warehouse is a step of its own, as it holds no lock. `Fail` is a
statement that raises and the rollback in `transaction()`, `LoseAcknowledgement` a COMMIT that
took effect and whose `commit()` raises, `Crash` a killed worker.

Abstracted: prices, names and addresses (data); which eligible warehouse is nearest (any, since
the address is any); customers and products other than existing or not. A blocked UPDATE whose
row changed meanwhile may match nothing only on the committed quantity, which the model's
`LoseRace` allows at any time that quantity is too small.

`Ledger == INSTANCE Fulfilment WITH stock <- inventory` is the refinement mapping: committed
stock and committed orders. Every step is a step of `Fulfilment` or leaves both alone.

### Idempotency

`row` is table `idempotency_keys`. `InsertClaim`/`InsertConflict`, `TakeOver`/
`NothingToTakeOver` and `Replay`/`Refuse` are the INSERT, the UPDATE and the SELECT of
`claim_idempotency_key`, with `_claim_or_replay` after the last. Between them the claim may be
released, saved or taken over by others. `stale` abstracts the clock: `GoStale(k)` says that 30
seconds have passed since `created_at`. Processing an order is reduced to whether the card was
charged and whether it raised, before or after. `SaveFails` and `FailClaiming` include a
statement that took effect although it raised.

The constant `PromptKeys` tells two deployments apart, key by key, so that one run has both. A
claim on a prompt key does not become stale while its handler works: gunicorn's `--timeout 30`
kills a sync worker whose request runs that long (up to the second it takes the master to
notice). Under the other keys handlers may outlive their claims: under the threaded server of
`run.py`, where a few statements that each wait up to the 30 s of `statement_timeout` are enough.
A killed worker runs no `except Exception`, so it releases nothing; the model's `Crash` does not
either.

`CompletedStays` says two things of a key that has a response: it stays completed, with the body
it was completed for, so that no request can ever claim it again; and its response stays as it is,
unless the key is not prompt and has been taken over. The exception is the code's: save and
release name the key only (`repositories.py:247-263`). A handler that outlives its claim saves
over the response its successor has stored, or deletes the claim its successor still works under;
later retries then get another response than the successor's client did, although
`README.md:294-296` promises the original one. No property excludes that under such keys;
`ChargeBudget` bounds what it costs.

### OrderApi

`OrderApi` extends `OrderService` and instantiates `Idempotency` for the requests that carry a
key (`Keyed`), with its `pc` and `answer` as `route` and `reply`. What is one piece of code in
both is one step: the charge of `create_order` is the charge of `Idempotency` (`ChargeCard`),
`return` is `Respond` and `Finish`, an exception ends `create_order` and makes the route release
its claim (`Raise`). `Claim` and `Store` are the statements of the route alone, `Advance` those of
`create_order` alone, `RejectBody` is a body that validation refuses before `create_order` is
called. `Kill` stops both halves. A keyless request goes through `OrderService` by itself.

`GetOrder` is `get_order_with_details`: the SELECT of the order and, later, that of the payment;
items and warehouse do not change once an order exists. `get` keeps what a reader has seen.

The composition adds no step to the two modules that is not one of theirs: each of its actions
conjoins theirs or leaves their variables alone. That each behaviour of it is one of
`OrderService` is therefore true by construction and stated by no property (the proofs use it);
what it says of the routes is in the three properties that relate the two halves.

### ConnectionPool

The pool of one process: `idle` and `used` are the connections that wait and that are lent
(`_pool` and `_used` of psycopg2), `db` is `g.db` of the request of each thread. `InitDbPool`,
`RetryInit` and `GiveUp` are the loop of `init_db_pool`; `GetDb`, `GetDbRaises` and `CloseDb` are
`get_db` and the teardown `close_db`; `Begin`, `Commit` and `Rollback` are `transaction()`; `Probe`
is the SELECT of `/health`, `Statement` any other. `StopDatabase` makes every session `stale`: the
client still takes it for open, and neither `rollback()` nor `autocommit = True` in `get_db` talks
to the server, so only the next statement (`NoticeClosed`) finds out and makes it `closed`.
`Putconn` then drops it. `NoticeClosed` inside `transaction()` stands for the statement and for
the `rollback()` and `autocommit = True` that raise after it.

Abstracted: which waiting connection is lent (the last one put back; here any), the pauses of
the boot loop, and a `SystemExit` that a signal raises in a handler (the process ends after it, and
the connections with it). The pool compares the number of lent connections with `maxconn` by
equality, so `SessionsBounded` needs `DB_POOL_MIN <= DB_POOL_MAX`, which `config.py` does not
check; it is `PoolAssumption`. `OrderService` and `Idempotency` take a sound connection for
granted and let any statement raise, which covers what the pool does to them.

### SmokeTestRunner

`backlog` holds the requests the kernel has accepted for the server, `worker` what each gunicorn
sync worker is busy with. A press of the button sends a `run`; the worker that accepts it starts a
subprocess, whose `suite` counts the calls it has to make and those it has no answer to. The
calls go through the same backlog: one after the other, and the last `Burst` of them at once, as
the threads of test 7 do. `SuiteExits` is the return of `run()`. Two timeouts may end a run
before that. `RunTimesOut` is that of `run()` after 60 s, which kills the subprocess and answers
504; the worker goes on. (Should the 504 be built, it may become a 500, since `exc.stdout` is bytes;
the page does not tell them apart.) `AbortWorker` is gunicorn's after 30 s, which with the
`Dockerfile`'s settings comes first: its `SystemExit` makes `run()` kill the subprocess on the way
out, the page gets an error instead of a response, and `finally` enables the button all the same
(`FetchFails`). Calls of a killed suite stay in the backlog and are answered to nobody.

The worker that takes the place of an aborted one is `booting`: it imports `run:app` and so calls
`init_db_pool`, where it `Boots` once the database is up, or `GivesUp` after ten refused attempts.
The `RuntimeError` of the latter is a boot error to gunicorn, whose `server` is then `"halting"`:
workers may finish what they have in hand, and `Halt` ends them, what they have in hand, the
backlog and, with the container, the subprocesses. Nothing restarts it (`docker-compose.yml` has no
restart policy), so every later fetch is refused. The attempts of `init_db_pool` are counted in
`ConnectionPool`; here a worker may give up in any state in which the database is down. That
connecting could hang instead of being refused, until gunicorn aborts the new worker too, is left
out.

Pages fetch `/health` at any time; `poll` is the fetch, then what its response says, and
responses are shown in any order. A fetch that breaks or is refused shows as `"down"`, as one does
that reports a database that is down: the two texts of the badge have the same class. `database`
goes up and down at will; what `/health` makes of it in detail is in `ConnectionPool`. The number
of a call or its test does not matter to the server and is left out, and so is what else the page
shows.

`BadgeConverges` says that the badge of a page shows the state of a database that no longer
changes, if the server still serves; and that it shows the failure, for good, if the server has
halted, even if the database is back.

### RequestValidation, WarehouseSelection, PaymentGateway, OrderInput

A JSON value is abstracted to what the checks distinguish: a positive integer or not; a string
with content, a blank one, or no string and then falsy or truthy in Python. The expiry fields
are fine or wrong. A card number is the sequence of its digits. Tables are partial functions: a
warehouse may have no row for a product, a product may not exist. Distances are numbers, as
`haversine_km` is used for ranking only; of several nearest warehouses any may be returned.
`TotalOutOfRange` is the INSERT that fails because `total_cents` is INTEGER while Python's sum is
not; `IntegerMax` is scaled down. Other requests are the matter of `OrderService`.

## 3. Runs

| Run | Expect | Checks | Instance, states |
|---|---|---|---|
| `fulfilment` | pass | `TypeOK`, `Conserved` | 4 orders, 2 warehouses, 2 products; 304 |
| `order_safety` | pass | `TypeOK`, `StockConserved`, `PaymentMatchesOrder`, `AnswerTruthful`, `LocksOnlyInTransactions`, `NoWaitCycle`, `ConflictJustified`, `ImplementsLedger` | 3 requests, 2 warehouses, 2 products; 84,000 |
| `order_liveness` | pass | `EveryRequestAnswered`, `PendingOrderSettled` | 3 requests, 1 warehouse, 2 products |
| `order_audit` | violation | `ChargeReconstructable` | as `order_safety` |
| `idempotency` | pass | `TypeOK`, `ChargeBudget`, `ClaimIsMutex`, `ReplayFaithful`, `ClientsAgree`, `CompletedStays` | 3 requests, 2 keys of which one is prompt, 2 bodies; 430,000 |
| `idempotency_charge` | violation | `NoDoubleCharge` | 1 key, prompt |
| `idempotency_lookup` | violation | `LookupFindsRow` | 1 key, prompt |
| `connection_pool` | pass | `TypeOK`, `ConnectionsAccounted`, `TransactionsScoped`, `SessionsBounded`, `HealthRecovers` | 3 threads, pool of 1 to 2, 2 attempts at boot; 87,000 |
| `order_api` | pass | `ReplayShowsSale`, `OrderBudget`, `ReadbackCoherent` | 2 requests with one prompt key, 1 without, 1 reader, 1 unit of stock; 820,000 |
| `smoke_runner` | pass | `TypeOK`, `SuitesSupervised`, `StallNeedsEveryWorker`, `EveryRunEnds`, `BadgeConverges` | 2 pages, 2 workers, 2 runs of 3 calls, 2 fetches of one badge; 196,000 |
| `order_input` | pass | `TypeOK`, `AcceptedIffFaultless`, `FaultyPartsNamed`, `CartKeepsUnits`, `NearestThatFills`, `MistypedCardRefused`, `TestCardsDecline` | 9,000 bodies, 1,100 card numbers, 81 inventories with 3 rankings; 96,000 |
| `order_input_problems` | violation | `AllProblemsReported` | the same |

Run one with `tlc -config X.cfg M.tla`, for example `tlc -config OrderSafety.cfg MCOrderService`.

Bounds. *Orders:* warehouses hold `<<2, 1>>` units and the carts are `<<1, 1>>` and `<<2, 0>>`, so
two requests exhaust a warehouse, a request can lose a race on its first or its second row, and a
third request finds what a rollback or a return leaves. Two products are the least with which
locks could form a cycle; three requests the least in which one runs into the locks of a second
that itself waits. For liveness one warehouse with `<<2, 2>>` units makes returns of both rows
meet; more stock or warehouses only lessen contention. *Keys:* requests interact through one key
only, so a second key is there for the other deployment; two bodies tell apart the same request
and another; three requests allow a takeover of a takeover, and a late first handler with two
successors. *Routes:* two requests under a key are the least for a replay and a takeover; the
third, without a key, takes the last unit from them or finds it returned; longer carts and more
rows are the matter of `order_safety`, of whose behaviours these are some. *Server:* two workers
as in the `Dockerfile`, two pages to take both; a second press lets a suite meet the calls of the
one that was killed before it, on the same page; a burst of two, with a call before, tells waiting
for one answer from waiting for several; two fetches let one response overtake the other. *Pool:*
one thread more than connections, so that the pool runs out, and `DB_POOL_MIN` below
`DB_POOL_MAX`, so that some connections are kept and others closed on return; a third name shows
that the limit, and not the supply of names, bounds the sessions. *Input:* each part of a body is
enumerated in all its shapes while the others are sound or faulty, up to two arbitrary items and
three that merge; those that are sound meet every inventory of two warehouses and two products
with no row, 2 or 4 units, and every ranking of the two; card numbers are the real test cards, all
lengths at the limits, and the thousand numbers `8 000 000 000 xyz`, with every one-digit and
neighbour-swap variation of those that are charged. Symmetry is used for requests (and warehouses
or bodies) where only safety is checked. Nothing in the models counts without bound.

Deadlock is checked wherever a run can only stop when all requests are over (they stutter
explicitly there); `Fulfilment` and `OrderInput` simply stop, and their configurations say so.

Fairness. `FairSpec` assumes weak fairness of each handler's own steps: a thread that can run
does run, and PostgreSQL grants a free row to a waiter. It assumes nothing of clients, and does
not assume that faults stop. Weak fairness suffices since there are finitely many requests and
each takes a row at most twice, so none can be overtaken for ever. In `ConnectionPool` the boot
loop and each handler are fair, PostgreSQL is not: it may stop and start for ever, and
`HealthRecovers` speaks of the behaviours in which it comes back for good. It also supposes that
requests do not outnumber connections from then on, as exhaustion is a reason of its own for a
503 (`health.py:12-13`); gunicorn's sync workers, one request per process, never do. In
`SmokeTestRunner` workers, subprocesses, timers, polls and responses are fair, as each is driven
by a process, a clock or a socket of its own; presses and the database are not. Both of its
liveness properties rest on the timeouts: without them two suites wait for each other for ever.
Which of the two timeouts comes first is left open (their actions are fair together), and so is
whether a new worker reaches the database or gives up: `init_db_pool` tries for some 15 s and ends.

### What the violations show

* `ChargeReconstructable`: `order_service.py:20-22` and `README.md:254-256` promise that the
  sequence can be reconstructed from the database after a crash. The charge (98-102) is made
  before any row tells of it; after a crash or an exception in between, the order is
  `pending_payment` as if nothing had been charged.
* `NoDoubleCharge`: `db/01_schema.sql:102-104` promises that retries are not charged twice. An
  exception after the charge releases the key, and a crash after the charge lets it be taken over.
  What does hold is `ChargeBudget`: each charge beyond the first takes such an event.
* `LookupFindsRow`: the docstring of `claim_idempotency_key` knows three outcomes; a fourth, that
  the row has gone before the SELECT, raises `TypeError` at `repositories.py:242`.
* `AllProblemsReported`: the docstring of `parse_create_order_request` promises all problems. A
  truthy value that is not a string raises in `.strip()` (a 500), and of one item only the first
  problem is reported.

## 4. Proofs

All theorems hold for any sets and numbers that satisfy the assumptions the modules state on
their constants: finite sets of requests and workers, products that are numbers, carts and stock
of natural numbers, sentinels that are not values; in `OrderInput`, bodies whose items hold
integers or something that is none, card numbers of digits (`re.sub` leaves nothing else), and
tables that obey their CHECK and REFERENCES constraints. Every invariant that a run checks, and
every action property and refinement, is also a theorem, 36 in all; TLC alone checks liveness.

* **`FulfilmentProofs`.** `Types`, and `Conservation`: `Spec => []Conserved`. The argument is on
  sets: `HeldUnits(w, p)` has one element per held unit, `Place` adds a disjoint set of as many
  elements as it takes from the shelf, `Refund` removes them, `Settle` leaves the set alone.
* **`OrderServiceProofs`.** The invariant `IInv` joins the types with what relates the parts of
  the state: a locked row is locked by a request that is inside a transaction on that warehouse; an
  unlocked row has `pending = inventory`; a locked one differs by the units of the cart of
  its holder; an order exists exactly from the charge on, with the cart and the warehouse the
  request remembers; status, payment and result follow the step. None of the stated properties is
  inductive without these: a COMMIT publishes what earlier UPDATEs wrote, so one must know what
  they wrote and that it is complete. From `IInv` follow `PaymentsMatchOrders`,
  `AnswersAreTruthful`, `LocksAreTransactional`, and `Refinement`: each action is a step or
  a stutter of `Fulfilment`. `Conservation` (`Spec => []StockConserved`) is `Conservation` of the
  abstract module carried over the refinement: no counting is repeated. Its last part is about
  locks: `NoDeadlockedTransactions`, since a request that waits for a row holds rows of smaller
  products only, so along a chain of waiting requests the products grow, and the chain cannot
  close; and `ConflictsAreJustified`, which follows from the step that gives the 409.
* **`IdempotencyProofs`.** `Types`, `ChargesAreBounded` and `FinishedResponsesStay` hold under all
  keys. The invariant behind the second maps every charged request except at most one to a
  takeover or a late failure of its key. The third rests on `SoleInv`: as long as nobody has taken
  the key over, at most one request works under it, prompt or not, and only while it has no
  response; so a save that meets a response follows a takeover. Under prompt keys, `PromptInv` (a
  worker owns the row of its key, with its fingerprint, and whoever was answered was told what is
  stored) gives `ClaimsAreMutexes`, `ReplaysAreFaithful` and `ClientsAreTold`.
* **`OrderApiProofs`.** Each step of the composition is, by its definition, a step or a stutter of
  either module (`StepIsService`, `StepIsIdem`). What the modules prove of
  themselves then holds of the composition: `ReadbacksAreCoherent` needs the invariant of
  `OrderService` (a settled order has its payment, and stays so), `ReplaysShowSales` that of
  `Idempotency` (whose response a replay is) together with that of `OrderService` (what order its
  author has). `OrdersAreBounded` needs both, and an invariant of its own: `BudgetInv` adds to the
  orders under a key the requests that may still place one or give their key back, and the next
  INSERT if the key has no row. That sum, unlike the number of orders, is not raised by any step
  that is not itself a takeover or a 500: a claim turns the missing row into a request that may
  spend, an order turns the request into an order, a release turns it into a missing row.
* **`SmokeTestRunnerProofs`**, for any number of pages, workers, calls and presses.
  `SuitesAreSupervised`: `SuitesSupervised` is inductive together with the shapes of the variables;
  the work is in the backlog, whose positions shift with every request accepted. `Types`:
  that a suite waits for no more answers than it has asked for, and for no fewer than none, needs
  `CallInv`: its unanswered calls are exactly the calls with its page and its number in the backlog
  and at the workers, and a run that waits has a number no call has yet, so that the calls of killed
  suites are never taken for its own. `StallsNeedEveryWorker`: if a worker were not waiting for a
  suite, it would be idle and the backlog empty, or it could answer what it has; the calls a suite
  waits for are then at such a worker. `Stalled` says by the guards of the actions, not by ENABLED,
  that nothing can be accepted, called, answered or ended, and no worker can boot.
* **`OrderInputProofs`**, for bodies with lists of any length, any tables and card numbers of any
  length. The invariant `Inv` says what each step has been decided by: the outcome is that of
  `parse_create_order_request`, the warehouse one that was found, the total that of the merged
  items, the result the gateway's. What remains are statements about operators.
  - *Validation.* `FaultlessAreAccepted` and `FaultyPartsAreNamed` compare the validators, which
    return early, skip an item at its first problem or raise, with the rules.
  - *The cart.* `CartsKeepUnits` rests on `Merged`, the invariant of the loop in `_validate_items`:
    after n items there is a line for each of their products, with the sum of its units, in the
    order in which the products came. `StepMerged` keeps it, `BillOfNext` says that a step adds
    the price of one item, whether it goes to a line of its own or not.
  - *The warehouse.* `EligibilityIsExact`, `SelectionIsNearest` and `SelectionFinds`: going by way of
    the matching rows and a dictionary per warehouse gives what the docstring of
    `find_best_warehouse` promises; the first is the condition `OrderService` and `Fulfilment` state
    directly. `NearestFills` carries it from the merged lines to the body as it was written.
  - *The card.* `MistypedCardsAreRefused` is Luhn's theorem: doubling with its fold permutes the
    digits, so one wrong digit changes the sum modulo 10 (`OneWrongDigit`); and twice a digit less
    the digit tells all neighbours apart but 0 and 9 (`TwoSwappedDigits`). `TestCardsAreDeclined`
    computes the sums of the four test cards and uses that the total is a number (`PlacedTotal`).
  - `Types` has the total fit its column, although it is a sum of products that nothing bounds.
* **`ConnectionPoolProofs`.** `IInv` adds to the properties that the pool knows every connection
  that exists, that a request has a connection exactly from `get_db` to `close_db`, that it is in
  autocommit mode outside `transaction()`, and that waiting and lent connections together do not
  exceed `DB_POOL_MAX`: a connection is opened only when none waits and fewer than that are lent.
  It gives `Types`, `NoConnectionLost`, `NoStrayTransaction` and `SessionLimit`.
* **`DataProofs`** holds the facts about data the others cite. The library states induction with an
  operator as a parameter, which these provers cannot instantiate; a least counterexample takes its
  place (`MinimalSubset` and `LeastNumber`, from the well-foundedness of the subsets of a finite set
  and of the numbers; `UpTo` is the form loops need). Folds are defined by recursive functions on
  sets of positions, and such a function exists (`FoldExists`) and is unique (`FoldsAgree`); from
  this follow the laws of sums (`SumTakesOut`, `SumChangesAtOne`, `SumOfInterval`, ...).

Only model-checked: liveness (`EveryRequestAnswered`, `PendingOrderSettled`, `HealthRecovers`,
`EveryRunEnds`, `BadgeConverges`), which rests on fairness and so on ENABLED, and these the prover
does not reason about. The four violations are counterexamples, which need no proof.

## 5. What is not modelled, and the plan

Not worth modelling: geocoding (a stateless table or hash to floating point numbers: any address
may have any distances), the arithmetic of the distance, wiring and logging, the form and the
statistics of the page, the seed generator and its data, layout of JSON. `list_orders_for_customer`
has no caller. What a suite of the smoke test asserts is not modelled either: two suites at once
share the rows of test 7 (`smoke_test.py:296`), and so one may report a failure that is none.

No property says what an order of total zero should become: the schema allows it, the gateway
declines it (`payment.py:70`), and no document tells.

Left to do, most important first:

1. The pool under the routes: `ConnectionPool` composed with the statements of `OrderService`, of
   which each module now takes the other for granted.
2. Action properties that say more of what a step may never do than the refinements do already:
   that no step of one request changes the order of another (`OrderService`), that a claim under a
   prompt key changes hands only by a release, a failure or a crash (`Idempotency`).
