---------------------------- MODULE Idempotency -----------------------------
(***************************************************************************)
(* The Idempotency-Key protocol of POST /orders: _claim_or_replay and      *)
(* create_order in src/app/routes/orders.py over table idempotency_keys    *)
(* (src/app/repositories.py).                                              *)
(*                                                                         *)
(* claim_idempotency_key is three autocommit statements, and other         *)
(* requests run between them; the statements that release a claim and save *)
(* a response name the key and not the claimant.  Processing the order is  *)
(* reduced to what the protocol depends on: whether the card was charged   *)
(* and whether create_order returned or raised (OrderService has the       *)
(* rest).                                                                  *)
(***************************************************************************)
EXTENDS Naturals, FiniteSets

CONSTANTS
  Requests,    \* POST /orders calls that carry an Idempotency-Key
  Keys,
  Bodies,      \* request bodies, up to equality of _fingerprint
  NoRow,       \* the key is not in the table
  NoResponse,  \* response_status IS NULL
  PromptKeys   \* the keys whose claims outlive the handlers that hold them

ASSUME RequestsAssumption == IsFiniteSet(Requests) /\ NoResponse \notin Requests
ASSUME InputsAssumption == Keys # {} /\ Bodies # {}
ASSUME PromptAssumption == PromptKeys \subseteq Keys

VARIABLES
  row,       \* table idempotency_keys, by key
  pc,        \* the next step of the request
  key,       \* header Idempotency-Key
  body,      \* the request body
  claim,     \* how the request got its claim
  charged,   \* the gateway has charged the card of the request
  raised,    \* create_order raised, or its input was invalid
  answer,    \* HTTP status sent to the client, 0 before; 200 stands for 201 and 402
  replayOf   \* the request whose stored response was sent instead, NoResponse if none

locals == <<key, body>>
vars == <<row, pc, key, body, claim, charged, raised, answer, replayOf>>

\* stale: created_at is more than IDEMPOTENCY_CLAIM_STALE_SECONDS ago.
\* response: the request whose response is stored.
Row == [body : Bodies, response : Requests \union {NoResponse}, stale : BOOLEAN]

ASSUME NoRowAssumption == NoRow \notin Row

\* The steps between winning a claim and the end of the handler.
Working == {"work", "finish", "save", "release"}

Steps == {"idle", "insert", "takeover", "look", "done", "crashed"} \union Working

TypeOK ==
  /\ row \in [Keys -> Row \union {NoRow}]
  /\ pc \in [Requests -> Steps]
  /\ key \in [Requests -> Keys]
  /\ body \in [Requests -> Bodies]
  /\ claim \in [Requests -> {"none", "inserted", "taken_over"}]
  /\ charged \in [Requests -> BOOLEAN]
  /\ raised \in [Requests -> BOOLEAN]
  /\ answer \in [Requests -> {0, 200, 400, 409, 500}]
  /\ replayOf \in [Requests -> Requests \union {NoResponse}]

Init ==
  /\ row = [k \in Keys |-> NoRow]
  /\ pc = [r \in Requests |-> "idle"]
  /\ key \in [Requests -> Keys]
  /\ body \in [Requests -> Bodies]
  /\ claim = [r \in Requests |-> "none"]
  /\ charged = [r \in Requests |-> FALSE]
  /\ raised = [r \in Requests |-> FALSE]
  /\ answer = [r \in Requests |-> 0]
  /\ replayOf = [r \in Requests |-> NoResponse]

-----------------------------------------------------------------------------
GoTo(r, step) == pc' = [pc EXCEPT ![r] = step]

Answer(r, status) ==
  /\ answer' = [answer EXCEPT ![r] = status]
  /\ GoTo(r, "done")

RowOf(r) == row[key[r]]

SetRow(r, new) == row' = [row EXCEPT ![key[r]] = new]

Completed(k) == row[k] # NoRow /\ row[k].response # NoResponse

Claimed(k) == row[k] # NoRow /\ row[k].response = NoResponse

-----------------------------------------------------------------------------
(* claim_idempotency_key *)

Arrive(r) ==
  /\ pc[r] = "idle"
  /\ GoTo(r, "insert")
  /\ UNCHANGED <<row, locals, claim, charged, raised, answer, replayOf>>

\* A bug to detect: the INSERT leaves the fingerprint out.
AnonymousClaim(r) == [body |-> NoRow, response |-> NoResponse, stale |-> FALSE]

\* The row a claim consists of.
NewClaim(r) == [body |-> body[r], response |-> NoResponse, stale |-> FALSE]

\* INSERT ... ON CONFLICT (key) DO NOTHING takes effect.
InsertRow(r) ==
  /\ pc[r] = "insert"
  /\ RowOf(r) = NoRow
  /\ SetRow(r, NewClaim(r))

InsertClaim(r) ==
  /\ InsertRow(r)
  /\ claim' = [claim EXCEPT ![r] = "inserted"]
  /\ GoTo(r, "work")
  /\ UNCHANGED <<locals, charged, raised, answer, replayOf>>

InsertConflict(r) ==
  /\ pc[r] = "insert"
  /\ RowOf(r) # NoRow
  /\ GoTo(r, "takeover")
  /\ UNCHANGED <<row, locals, claim, charged, raised, answer, replayOf>>

\* Bugs to detect: one of the two conditions of the UPDATE is missing.
AbandonedAtAnyAge(k) == Claimed(k)
AbandonedEvenCompleted(k) == row[k] # NoRow /\ row[k].stale

Abandoned(k) == Claimed(k) /\ row[k].stale

\* A bug to detect: the fingerprint of the first claimant is kept.
TakeOverRowOnly(r) ==
  /\ pc[r] = "takeover"
  /\ Abandoned(key[r])
  /\ row' = [row EXCEPT ![key[r]].stale = FALSE]

\* UPDATE ... WHERE response_status IS NULL AND created_at < now() - 30 seconds:
\* the claim starts anew, with the fingerprint of the request that takes over.
TakeOverRow(r) ==
  /\ pc[r] = "takeover"
  /\ Abandoned(key[r])
  /\ SetRow(r, NewClaim(r))

TakeOver(r) ==
  /\ TakeOverRow(r)
  /\ claim' = [claim EXCEPT ![r] = "taken_over"]
  /\ GoTo(r, "work")
  /\ UNCHANGED <<locals, charged, raised, answer, replayOf>>

NothingToTakeOver(r) ==
  /\ pc[r] = "takeover"
  /\ ~Abandoned(key[r])
  /\ GoTo(r, "look")
  /\ UNCHANGED <<row, locals, claim, charged, raised, answer, replayOf>>

\* A bug to detect: the fingerprints are not compared.
ReplayAnyBody(r) ==
  /\ pc[r] = "look"
  /\ Completed(key[r])
  /\ replayOf' = [replayOf EXCEPT ![r] = RowOf(r).response]
  /\ Answer(r, 200)
  /\ UNCHANGED <<row, locals, claim, charged, raised>>

\* The SELECT, then _claim_or_replay: replay a finished response ...
Replay(r) ==
  /\ pc[r] = "look"
  /\ Completed(key[r])
  /\ RowOf(r).body = body[r]
  /\ replayOf' = [replayOf EXCEPT ![r] = RowOf(r).response]
  /\ Answer(r, 200)
  /\ UNCHANGED <<row, locals, claim, charged, raised>>

\* ... or refuse another body, or a request that is still in progress, or find
\* no row at all: it was there at the INSERT and has been released since, and
\* existing["response_status"] raises on None.
Refuse(r) ==
  /\ pc[r] = "look"
  /\ \/ Completed(key[r]) /\ RowOf(r).body # body[r] /\ Answer(r, 400)
     \/ Claimed(key[r]) /\ Answer(r, 409)
     \/ RowOf(r) = NoRow /\ Answer(r, 500)
  /\ UNCHANGED <<row, locals, claim, charged, raised, replayOf>>

\* One of the statements raises.  The handler is not inside its try block yet,
\* so nothing is released, even if the INSERT or the UPDATE took effect.
FailClaiming(r) ==
  /\ \/ pc[r] \in {"insert", "takeover", "look"} /\ UNCHANGED row
     \/ InsertRow(r)
     \/ TakeOverRow(r)
  /\ Answer(r, 500)
  /\ UNCHANGED <<locals, claim, charged, raised, replayOf>>

-----------------------------------------------------------------------------
(* Processing, between the claim and the response *)

\* Validation fails, 404, 409, or a statement raises before the charge.
RaiseBeforeCharge(r) ==
  /\ pc[r] = "work"
  /\ raised' = [raised EXCEPT ![r] = TRUE]
  /\ GoTo(r, "release")
  /\ UNCHANGED <<row, locals, claim, charged, answer, replayOf>>

Charge(r) ==
  /\ pc[r] = "work"
  /\ \E success \in BOOLEAN : charged' = [charged EXCEPT ![r] = success]
  /\ GoTo(r, "finish")
  /\ UNCHANGED <<row, locals, claim, raised, answer, replayOf>>

Finish(r) ==
  /\ pc[r] = "finish"
  /\ GoTo(r, "save")
  /\ UNCHANGED <<row, locals, claim, charged, raised, answer, replayOf>>

\* Phase 3 or the final reads raise although the card has been charged.
RaiseAfterCharge(r) ==
  /\ pc[r] = "finish"
  /\ raised' = [raised EXCEPT ![r] = TRUE]
  /\ GoTo(r, "release")
  /\ UNCHANGED <<row, locals, claim, charged, answer, replayOf>>

-----------------------------------------------------------------------------
(* save_idempotent_response and release_idempotency_claim *)

\* UPDATE ... WHERE key = k.
SaveRow(r) ==
  row' = IF RowOf(r) = NoRow THEN row ELSE [row EXCEPT ![key[r]].response = r]

Save(r) ==
  /\ pc[r] = "save"
  /\ SaveRow(r)
  /\ Answer(r, 200)
  /\ UNCHANGED <<locals, claim, charged, raised, replayOf>>

\* A bug to detect: the save is inside the try block.
SaveFailsAndReleases(r) ==
  /\ pc[r] = "save"
  /\ row' = IF Claimed(key[r]) THEN [row EXCEPT ![key[r]] = NoRow] ELSE row
  /\ Answer(r, 500)
  /\ UNCHANGED <<locals, claim, charged, raised, replayOf>>

\* The save is not inside the try block either: no release.
SaveFails(r) ==
  /\ pc[r] = "save"
  /\ SaveRow(r) \/ UNCHANGED row
  /\ Answer(r, 500)
  /\ UNCHANGED <<locals, claim, charged, raised, replayOf>>

\* A bug to detect: DELETE ... WHERE key = k.
ReleaseAnyRow(r) ==
  /\ pc[r] = "release"
  /\ row' = [row EXCEPT ![key[r]] = NoRow]
  /\ Answer(r, 500)
  /\ UNCHANGED <<locals, claim, charged, raised, replayOf>>

\* DELETE ... WHERE key = k AND response_status IS NULL, then the exception is
\* raised again; 500 stands for the status of any exception.
Release(r) ==
  /\ pc[r] = "release"
  /\ row' = IF Claimed(key[r]) THEN [row EXCEPT ![key[r]] = NoRow] ELSE row
  /\ Answer(r, 500)
  /\ UNCHANGED <<locals, claim, charged, raised, replayOf>>

\* The DELETE raises: logged, and the first exception is re-raised.
ReleaseFails(r) ==
  /\ pc[r] = "release"
  /\ Answer(r, 500)
  /\ UNCHANGED <<row, locals, claim, charged, raised, replayOf>>

-----------------------------------------------------------------------------
Crash(r) ==
  /\ pc[r] \notin {"idle", "done", "crashed"}
  /\ GoTo(r, "crashed")
  /\ UNCHANGED <<row, locals, claim, charged, raised, answer, replayOf>>

\* The requests that still act on a claim to key k they have won.
Workers(k) == {r \in Requests : key[r] = k /\ pc[r] \in Working}

\* Thirty seconds pass since created_at, for a prompt key only when no handler is left.
GoStale(k) ==
  /\ row[k] # NoRow
  /\ ~row[k].stale
  /\ k \in PromptKeys => Workers(k) = {}
  /\ row' = [row EXCEPT ![k].stale = TRUE]
  /\ UNCHANGED <<pc, locals, claim, charged, raised, answer, replayOf>>

Terminating ==
  /\ \A r \in Requests : pc[r] \in {"done", "crashed"}
  /\ UNCHANGED vars

StepOf(r) ==
  \/ Arrive(r)
  \/ InsertClaim(r) \/ InsertConflict(r) \/ TakeOver(r) \/ NothingToTakeOver(r)
  \/ Replay(r) \/ Refuse(r) \/ FailClaiming(r)
  \/ RaiseBeforeCharge(r) \/ Charge(r) \/ Finish(r) \/ RaiseAfterCharge(r)
  \/ Save(r) \/ SaveFails(r) \/ Release(r) \/ ReleaseFails(r)
  \/ Crash(r)

Next ==
  \/ \E r \in Requests : StepOf(r)
  \/ \E k \in Keys : GoStale(k)
  \/ Terminating

Spec == Init /\ [][Next]_vars

-----------------------------------------------------------------------------
(* Properties of every key *)

Charges(k) == {r \in Requests : key[r] = k /\ charged[r]}
Takeovers(k) == {r \in Requests : key[r] = k /\ claim[r] = "taken_over"}
LateFailures(k) == {r \in Requests : key[r] = k /\ charged[r] /\ raised[r]}

(***************************************************************************)
(* What a key really protects from: every charge beyond the first costs    *)
(* the takeover of an abandoned claim or an exception after a charge, one  *)
(* for one.  However requests interleave, and even if handlers outlive     *)
(* their claims, simultaneous duplicates alone are never charged twice.    *)
(***************************************************************************)
ChargeBudget ==
  \A k \in Keys :
    Cardinality(Charges(k)) <=
      1 + Cardinality(Takeovers(k)) + Cardinality(LateFailures(k))

(***************************************************************************)
(* Once a response is stored the key never becomes claimable again, by a   *)
(* release, a takeover or a failure, and its fingerprint stays.  The       *)
(* response itself stays, and is what retries get, if the claims to the    *)
(* key outlive their handlers or nobody has taken over a claim to it.      *)
(* Otherwise the UPDATE of save_idempotent_response, which asks neither    *)
(* for the claimant nor for response_status IS NULL, lets a handler that   *)
(* was taken over replace the response of its successor.                   *)
(***************************************************************************)
CompletedStays ==
  [][\A k \in Keys : Completed(k) =>
       /\ Completed(k)'
       /\ row'[k].body = row[k].body
       /\ \/ row'[k].response = row[k].response
          \/ k \notin PromptKeys /\ Takeovers(k) # {}]_vars

-----------------------------------------------------------------------------
(* Properties of keys whose claims outlive their handlers *)

PromptRequest(r) == key[r] \in PromptKeys

(***************************************************************************)
(* The claim is a mutex: at most one request works under a key, and while  *)
(* it does the key is claimed with the fingerprint of its body.            *)
(***************************************************************************)
ClaimIsMutex ==
  \A r, s \in Requests :
    PromptRequest(r) /\ pc[r] \in Working =>
      /\ pc[s] \in Working /\ key[s] = key[r] => s = r
      /\ Claimed(key[r]) /\ RowOf(r).body = body[r]

(***************************************************************************)
(* A replayed response answers the same request: it was produced under the *)
(* same key for the same body, by a request that did not fail.             *)
(***************************************************************************)
ReplayFaithful ==
  \A r \in Requests :
    PromptRequest(r) /\ replayOf[r] # NoResponse =>
      LET s == replayOf[r] IN
      key[s] = key[r] /\ body[s] = body[r] /\ ~raised[s]

(***************************************************************************)
(* All clients of a key are told the same story: whoever got a response,   *)
(* of its own or replayed, got the one that is stored, and every later     *)
(* retry gets it too.                                                      *)
(***************************************************************************)
ClientsAgree ==
  \A r \in Requests :
    PromptRequest(r) /\ answer[r] = 200 =>
      /\ Completed(key[r])
      /\ RowOf(r).response = IF replayOf[r] = NoResponse THEN r ELSE replayOf[r]

-----------------------------------------------------------------------------
(* What the documentation promises and the code does not keep *)

(***************************************************************************)
(* "retried requests ... are not double-charged" (comment on table         *)
(* idempotency_keys).                                                      *)
(***************************************************************************)
NoDoubleCharge == \A k \in Keys : Cardinality(Charges(k)) <= 1

(***************************************************************************)
(* claim_idempotency_key returns "claimed", "completed" or "in_progress"   *)
(* (its docstring), so its SELECT always finds the row.                    *)
(***************************************************************************)
LookupFindsRow == \A r \in Requests : pc[r] = "look" => RowOf(r) # NoRow
=============================================================================
