-------------------------- MODULE IdempotencyProofs --------------------------
(***************************************************************************)
(* What the Idempotency-Key protocol guarantees for any number of          *)
(* requests and keys: ChargeBudget of every key, the claim as a            *)
(* mutex and one story for all clients of a key whose claims outlive the   *)
(* handlers.                                                               *)
(***************************************************************************)
EXTENDS Idempotency, DataProofs

-----------------------------------------------------------------------------
(* Types *)

LEMMA InitTypes == Init => TypeOK
BY DEF Init, TypeOK, Steps

LEMMA StepTypes == TypeOK /\ [Next]_vars => TypeOK'
<1> SUFFICES ASSUME TypeOK, [Next]_vars PROVE TypeOK'
  OBVIOUS
<1> USE DEF TypeOK, Steps, Working, GoTo, Answer, locals
<1>1. ASSUME NEW r \in Requests, InsertRow(r) \/ TakeOverRow(r)
      PROVE  row' \in [Keys -> Row \union {NoRow}]
  <2>1. NewClaim(r) \in Row
    BY DEF NewClaim, Row
  <2> QED
    BY <1>1, <2>1 DEF InsertRow, TakeOverRow, SetRow
<1>2. ASSUME NEW r \in Requests, SaveRow(r) PROVE row' \in [Keys -> Row \union {NoRow}]
  <2>1. CASE RowOf(r) = NoRow
    BY <1>2, <2>1 DEF SaveRow
  <2>2. CASE RowOf(r) # NoRow
    <3>1. RowOf(r) \in Row
      BY <2>2 DEF RowOf
    <3>2. [RowOf(r) EXCEPT !.response = r] \in Row
      BY <3>1 DEF Row
    <3> QED
      BY <1>2, <2>2, <3>2 DEF SaveRow, RowOf
  <2> QED
    BY <2>1, <2>2
<1>3. ASSUME NEW r \in Requests, Arrive(r) PROVE TypeOK'
  BY <1>3 DEF Arrive
<1>4. ASSUME NEW r \in Requests, InsertClaim(r) PROVE TypeOK'
  BY <1>1, <1>4 DEF InsertClaim
<1>5. ASSUME NEW r \in Requests, InsertConflict(r) PROVE TypeOK'
  BY <1>5 DEF InsertConflict
<1>6. ASSUME NEW r \in Requests, TakeOver(r) PROVE TypeOK'
  BY <1>1, <1>6 DEF TakeOver
<1>7. ASSUME NEW r \in Requests, NothingToTakeOver(r) PROVE TypeOK'
  BY <1>7 DEF NothingToTakeOver
<1>8. ASSUME NEW r \in Requests, Replay(r) PROVE TypeOK'
  <2>1. RowOf(r).response \in Requests
    BY <1>8 DEF Replay, Completed, RowOf, Row
  <2> QED
    BY <1>8, <2>1 DEF Replay
<1>9. ASSUME NEW r \in Requests, Refuse(r) PROVE TypeOK'
  BY <1>9 DEF Refuse
<1>10. ASSUME NEW r \in Requests, FailClaiming(r) PROVE TypeOK'
  BY <1>1, <1>10 DEF FailClaiming
<1>11. ASSUME NEW r \in Requests, RaiseBeforeCharge(r) PROVE TypeOK'
  BY <1>11 DEF RaiseBeforeCharge
<1>12. ASSUME NEW r \in Requests, Charge(r) PROVE TypeOK'
  BY <1>12 DEF Charge
<1>13. ASSUME NEW r \in Requests, Finish(r) PROVE TypeOK'
  BY <1>13 DEF Finish
<1>14. ASSUME NEW r \in Requests, RaiseAfterCharge(r) PROVE TypeOK'
  BY <1>14 DEF RaiseAfterCharge
<1>15. ASSUME NEW r \in Requests, Save(r) PROVE TypeOK'
  BY <1>2, <1>15 DEF Save
<1>16. ASSUME NEW r \in Requests, SaveFails(r) PROVE TypeOK'
  BY <1>2, <1>16 DEF SaveFails
<1>17. ASSUME NEW r \in Requests, Release(r) PROVE TypeOK'
  BY <1>17 DEF Release
<1>18. ASSUME NEW r \in Requests, ReleaseFails(r) PROVE TypeOK'
  BY <1>18 DEF ReleaseFails
<1>19. ASSUME NEW r \in Requests, Crash(r) PROVE TypeOK'
  BY <1>19 DEF Crash
<1>20. ASSUME NEW k \in Keys, GoStale(k) PROVE TypeOK'
  <2>1. row[k] \in Row
    BY <1>20 DEF GoStale
  <2>2. [row[k] EXCEPT !.stale = TRUE] \in Row
    BY <2>1 DEF Row
  <2> QED
    BY <1>20, <2>2 DEF GoStale
<1>21. CASE UNCHANGED vars
  BY <1>21 DEF vars
<1> QED
  BY <1>3, <1>4, <1>5, <1>6, <1>7, <1>8, <1>9, <1>10, <1>11, <1>12, <1>13, <1>14, <1>15,
     <1>16, <1>17, <1>18, <1>19, <1>20, <1>21
  DEF Next, StepOf, Terminating

(***************************************************************************)
(* Every variable keeps its type: a row always has the fingerprint of some *)
(* request (column request_fingerprint is NOT NULL).                       *)
(***************************************************************************)
THEOREM Types == Spec => []TypeOK
BY InitTypes, StepTypes, PTL DEF Spec

-----------------------------------------------------------------------------
(* What a step of one request leaves alone *)

Untouched(s) ==
  /\ pc'[s] = pc[s]
  /\ claim'[s] = claim[s]
  /\ charged'[s] = charged[s]
  /\ raised'[s] = raised[s]
  /\ answer'[s] = answer[s]
  /\ replayOf'[s] = replayOf[s]

LEMMA StepIsLocal ==
  ASSUME TypeOK, NEW r \in Requests, StepOf(r)
  PROVE  /\ UNCHANGED locals
         /\ \A s \in Requests : s # r => Untouched(s)
         /\ \A k \in Keys : k # key[r] => row'[k] = row[k]
<1> USE DEF TypeOK, Untouched, GoTo, Answer, locals
<1>1. CASE Arrive(r) \/ InsertConflict(r) \/ NothingToTakeOver(r) \/ Crash(r)
  BY <1>1 DEF Arrive, InsertConflict, NothingToTakeOver, Crash
<1>2. CASE InsertClaim(r)
  BY <1>2 DEF InsertClaim, InsertRow, SetRow
<1>3. CASE TakeOver(r)
  BY <1>3 DEF TakeOver, TakeOverRow, SetRow
<1>4. CASE Replay(r)
  BY <1>4 DEF Replay
<1>5. CASE Refuse(r)
  BY <1>5 DEF Refuse
<1>6. CASE FailClaiming(r)
  BY <1>6 DEF FailClaiming, InsertRow, TakeOverRow, SetRow
<1>7. CASE RaiseBeforeCharge(r) \/ Charge(r) \/ Finish(r) \/ RaiseAfterCharge(r)
  BY <1>7 DEF RaiseBeforeCharge, Charge, Finish, RaiseAfterCharge
<1>8. CASE Save(r)
  BY <1>8 DEF Save, SaveRow
<1>9. CASE SaveFails(r)
  BY <1>9 DEF SaveFails, SaveRow
<1>10. CASE Release(r)
  BY <1>10 DEF Release
<1>11. CASE ReleaseFails(r)
  BY <1>11 DEF ReleaseFails
<1> QED
  BY <1>1, <1>2, <1>3, <1>4, <1>5, <1>6, <1>7, <1>8, <1>9, <1>10, <1>11 DEF StepOf

-----------------------------------------------------------------------------
(* The steps of one request *)

BeforeClaim == {"idle", "insert", "takeover", "look"}

\* What the phase of a request says about its charge.
PhaseOf(r) ==
  /\ pc[r] \in BeforeClaim \union {"work"} => ~charged[r]
  /\ pc[r] \in BeforeClaim => claim[r] = "none"
  /\ pc[r] \in BeforeClaim \union {"work", "finish", "save"} => ~raised[r]

PhaseInv == \A r \in Requests : PhaseOf(r)

LEMMA StepPhase ==
  ASSUME TypeOK, NEW r \in Requests, PhaseOf(r), StepOf(r)
  PROVE  PhaseOf(r)'
BY DEF TypeOK, PhaseOf, BeforeClaim, StepOf, GoTo, Answer, Arrive, InsertClaim, InsertConflict, TakeOver,
       NothingToTakeOver, Replay, Refuse, FailClaiming, RaiseBeforeCharge, Charge, Finish,
       RaiseAfterCharge, Save, SaveFails, Release, ReleaseFails, Crash,
       InsertRow, TakeOverRow

\* How a step moves a request on, and what becomes of the row of its key.
Move(r) ==
  LET absent == RowOf(r) = NoRow IN
  \/ /\ pc[r] \in BeforeClaim /\ pc'[r] \in BeforeClaim \union {"done", "crashed"}
     /\ claim'[r] = claim[r] /\ (absent' => absent)
  \/ /\ pc[r] \in BeforeClaim /\ pc'[r] = "work" /\ ~absent'
     /\ \/ absent /\ claim'[r] = "inserted"
        \/ claim'[r] = "taken_over"
  \/ /\ \/ pc[r] = "work" /\ pc'[r] \in {"finish", "release"}
        \/ pc[r] = "finish" /\ pc'[r] \in {"save", "release"}
        \/ pc[r] \in Working /\ pc'[r] = "crashed"
        \/ pc[r] = "save" /\ pc'[r] = "done"
     /\ claim'[r] = claim[r] /\ (absent' <=> absent)
  \/ pc[r] = "release" /\ pc'[r] = "done" /\ claim'[r] = claim[r]

LEMMA StepMoves == ASSUME TypeOK, NEW r \in Requests, StepOf(r) PROVE Move(r)
<1> USE DEF TypeOK, GoTo, Answer, Move, Working, BeforeClaim, RowOf, locals
<1>1. NewClaim(r) # NoRow
  <2>1. NewClaim(r) \in Row
    BY DEF NewClaim, Row
  <2> QED
    BY <2>1, NoRowAssumption
<1>2. CASE Arrive(r) \/ InsertConflict(r) \/ NothingToTakeOver(r) \/ Crash(r)
  BY <1>2 DEF Arrive, InsertConflict, NothingToTakeOver, Crash, Steps
<1>3. CASE InsertClaim(r)
  BY <1>1, <1>3 DEF InsertClaim, InsertRow, SetRow
<1>4. CASE TakeOver(r)
  BY <1>1, <1>4 DEF TakeOver, TakeOverRow, SetRow
<1>5. CASE Replay(r) \/ Refuse(r)
  BY <1>5 DEF Replay, Refuse
<1>6. CASE FailClaiming(r)
  BY <1>1, <1>6 DEF FailClaiming, InsertRow, TakeOverRow, SetRow
<1>7. CASE RaiseBeforeCharge(r) \/ Charge(r) \/ Finish(r) \/ RaiseAfterCharge(r)
  BY <1>7 DEF RaiseBeforeCharge, Charge, Finish, RaiseAfterCharge
<1>8. ASSUME SaveRow(r) PROVE RowOf(r) = NoRow <=> row'[key[r]] = NoRow
  <2>1. CASE RowOf(r) = NoRow
    BY <1>8, <2>1 DEF SaveRow
  <2>2. CASE RowOf(r) # NoRow
    <3>1. RowOf(r) \in Row
      BY <2>2
    <3>2. [RowOf(r) EXCEPT !.response = r] \in Row
      BY <3>1 DEF Row
    <3>3. row'[key[r]] = [RowOf(r) EXCEPT !.response = r]
      BY <1>8, <2>2 DEF SaveRow
    <3> QED
      BY <2>2, <3>2, <3>3, NoRowAssumption
  <2> QED
    BY <2>1, <2>2
<1>9. CASE Save(r) \/ SaveFails(r)
  BY <1>8, <1>9 DEF Save, SaveFails
<1>10. CASE Release(r) \/ ReleaseFails(r)
  BY <1>10 DEF Release, ReleaseFails
<1> QED
  BY <1>2, <1>3, <1>4, <1>5, <1>6, <1>7, <1>9, <1>10 DEF StepOf

-----------------------------------------------------------------------------
(* The charge budget *)

(***************************************************************************)
(* ChargeBudget is not inductive: it says nothing of the requests that are *)
(* about to charge, or to delete the row and so to let another request     *)
(* insert it.  The budget has to pay for these in advance, and for the     *)
(* next INSERT while there is no row.                                      *)
(***************************************************************************)
Spends(r) == pc[r] \in Working /\ (~charged[r] \/ pc[r] = "release")

Spenders(k) == {r \in Requests : key[r] = k /\ Spends(r)}

Budget ==
  \A k \in Keys :
    Cardinality(Spenders(k)) + Cardinality(Charges(k)) + Count(row[k] = NoRow)
      <= 1 + Cardinality(Takeovers(k)) + Cardinality(LateFailures(k))

\* No step of a request makes its own account worse.
Account(r) ==
  Count(Spends(r)) + Count(charged[r]) + Count(RowOf(r) = NoRow)
    - Count(claim[r] = "taken_over") - Count(charged[r] /\ raised[r])

LEMMA OwnAccount ==
  ASSUME TypeOK, NEW r \in Requests, PhaseOf(r), StepOf(r)
  PROVE  Account(r)' <= Account(r)
<1> USE DEF TypeOK, PhaseOf, BeforeClaim, GoTo, Answer, Account, Count, Spends, Working, RowOf, locals
<1>1. NewClaim(r) # NoRow
  <2>1. NewClaim(r) \in Row
    BY DEF NewClaim, Row
  <2> QED
    BY <2>1, NoRowAssumption
<1>2. CASE Arrive(r) \/ InsertConflict(r) \/ NothingToTakeOver(r) \/ Crash(r)
  BY <1>2 DEF Arrive, InsertConflict, NothingToTakeOver, Crash
<1>3. CASE InsertClaim(r)
  BY <1>1, <1>3 DEF InsertClaim, InsertRow, SetRow
<1>4. CASE TakeOver(r)
  BY <1>1, <1>4 DEF TakeOver, TakeOverRow, SetRow, Abandoned, Claimed
<1>5. CASE Replay(r)
  BY <1>5 DEF Replay
<1>6. CASE Refuse(r)
  BY <1>6 DEF Refuse
<1>7. CASE FailClaiming(r)
  BY <1>1, <1>7 DEF FailClaiming, InsertRow, TakeOverRow, SetRow, Abandoned, Claimed
<1>8. CASE RaiseBeforeCharge(r)
  BY <1>8 DEF RaiseBeforeCharge
<1>9. CASE Charge(r)
  BY <1>9 DEF Charge
<1>10. CASE Finish(r)
  BY <1>10 DEF Finish
<1>11. CASE RaiseAfterCharge(r)
  BY <1>11 DEF RaiseAfterCharge
<1>12. ASSUME SaveRow(r) PROVE (RowOf(r) = NoRow) <=> (row'[key[r]] = NoRow)
  <2>1. CASE RowOf(r) = NoRow
    BY <1>12, <2>1 DEF SaveRow
  <2>2. CASE RowOf(r) # NoRow
    <3>1. RowOf(r) \in Row
      BY <2>2
    <3>2. [RowOf(r) EXCEPT !.response = r] \in Row
      BY <3>1 DEF Row
    <3>3. row'[key[r]] = [RowOf(r) EXCEPT !.response = r]
      BY <1>12, <2>2 DEF SaveRow
    <3> QED
      BY <2>2, <3>2, <3>3, NoRowAssumption
  <2> QED
    BY <2>1, <2>2
<1>13. CASE Save(r)
  BY <1>12, <1>13 DEF Save
<1>14. CASE SaveFails(r)
  BY <1>12, <1>14 DEF SaveFails
<1>15. CASE Release(r)
  BY <1>15 DEF Release, Claimed
<1>16. CASE ReleaseFails(r)
  BY <1>16 DEF ReleaseFails
<1> QED
  BY <1>2, <1>3, <1>4, <1>5, <1>6, <1>7, <1>8, <1>9, <1>10, <1>11, <1>13, <1>14, <1>15,
     <1>16 DEF StepOf

LEMMA StepBudget == TypeOK /\ PhaseInv /\ Budget /\ [Next]_vars => PhaseInv' /\ Budget'
<1> SUFFICES ASSUME TypeOK, PhaseInv, Budget, [Next]_vars PROVE PhaseInv' /\ Budget'
  OBVIOUS
<1>1. ASSUME NEW r \in Requests, StepOf(r) PROVE PhaseInv' /\ Budget'
  <2>1. /\ UNCHANGED locals
        /\ \A s \in Requests : s # r => Untouched(s)
        /\ \A k \in Keys : k # key[r] => row'[k] = row[k]
    BY <1>1, StepIsLocal
  <2>2. PhaseInv'
    <3>1. PhaseOf(r)'
      BY <1>1, StepPhase DEF PhaseInv
    <3>2. \A s \in Requests : s # r => PhaseOf(s)'
      BY <2>1 DEF PhaseInv, PhaseOf, Untouched
    <3> QED
      BY <3>1, <3>2 DEF PhaseInv
  <2>3. ASSUME NEW k \in Keys
        PROVE  Cardinality(Spenders(k)') + Cardinality(Charges(k)') + Count(row'[k] = NoRow)
                 <= 1 + Cardinality(Takeovers(k)') + Cardinality(LateFailures(k)')
    <3>1. Cardinality(Spenders(k)) + Cardinality(Charges(k)) + Count(row[k] = NoRow)
            <= 1 + Cardinality(Takeovers(k)) + Cardinality(LateFailures(k))
      BY DEF Budget
    <3>2. \A s \in Requests : s # r =>
            /\ s \in Spenders(k) <=> s \in Spenders(k)'
            /\ s \in Charges(k) <=> s \in Charges(k)'
            /\ s \in Takeovers(k) <=> s \in Takeovers(k)'
            /\ s \in LateFailures(k) <=> s \in LateFailures(k)'
      BY <2>1 DEF Spenders, Spends, Charges, Takeovers, LateFailures, Untouched, locals
    <3>3. \A S \in SUBSET Requests : IsFiniteSet(S)
      BY RequestsAssumption, FS_Subset
    <3>4. Count(r \in Spenders(k)') + Count(r \in Charges(k)') + Count(row'[k] = NoRow)
            - Count(r \in Takeovers(k)') - Count(r \in LateFailures(k)')
          <= Count(r \in Spenders(k)) + Count(r \in Charges(k)) + Count(row[k] = NoRow)
               - Count(r \in Takeovers(k)) - Count(r \in LateFailures(k))
      <4>1. CASE key[r] # k
        <5>1. /\ r \notin Spenders(k) /\ r \notin Spenders(k)'
              /\ r \notin Charges(k) /\ r \notin Charges(k)'
              /\ r \notin Takeovers(k) /\ r \notin Takeovers(k)'
              /\ r \notin LateFailures(k) /\ r \notin LateFailures(k)'
          BY <2>1, <4>1 DEF Spenders, Charges, Takeovers, LateFailures, locals
        <5>2. row'[k] = row[k]
          BY <2>1, <4>1
        <5> QED
          BY <5>1, <5>2 DEF Count
      <4>2. CASE key[r] = k
        <5>1. /\ r \in Spenders(k) <=> Spends(r)
              /\ r \in Spenders(k)' <=> Spends(r)'
              /\ r \in Charges(k) <=> charged[r]
              /\ r \in Charges(k)' <=> charged'[r]
              /\ r \in Takeovers(k) <=> claim[r] = "taken_over"
              /\ r \in Takeovers(k)' <=> claim'[r] = "taken_over"
              /\ r \in LateFailures(k) <=> charged[r] /\ raised[r]
              /\ r \in LateFailures(k)' <=> charged'[r] /\ raised'[r]
          BY <2>1, <4>2 DEF Spenders, Charges, Takeovers, LateFailures, locals
        <5>2. RowOf(r) = row[k] /\ RowOf(r)' = row'[k]
          BY <2>1, <4>2 DEF RowOf, locals
        <5>3. Account(r)' <= Account(r)
          BY <1>1, OwnAccount DEF PhaseInv
        <5> QED
          BY <5>1, <5>2, <5>3 DEF Account, Count
      <4> QED
        BY <4>1, <4>2
    <3>5. /\ Cardinality(Spenders(k)) \in Nat /\ Cardinality(Spenders(k)') \in Nat
          /\ Cardinality(Spenders(k)') + Count(r \in Spenders(k))
               = Cardinality(Spenders(k)) + Count(r \in Spenders(k)')
      BY <3>2, <3>3, ChangeAtOne DEF Spenders
    <3>6. /\ Cardinality(Charges(k)) \in Nat /\ Cardinality(Charges(k)') \in Nat
          /\ Cardinality(Charges(k)') + Count(r \in Charges(k))
               = Cardinality(Charges(k)) + Count(r \in Charges(k)')
      BY <3>2, <3>3, ChangeAtOne DEF Charges
    <3>7. /\ Cardinality(Takeovers(k)) \in Nat /\ Cardinality(Takeovers(k)') \in Nat
          /\ Cardinality(Takeovers(k)') + Count(r \in Takeovers(k))
               = Cardinality(Takeovers(k)) + Count(r \in Takeovers(k)')
      BY <3>2, <3>3, ChangeAtOne DEF Takeovers
    <3>8. /\ Cardinality(LateFailures(k)) \in Nat /\ Cardinality(LateFailures(k)') \in Nat
          /\ Cardinality(LateFailures(k)') + Count(r \in LateFailures(k))
               = Cardinality(LateFailures(k)) + Count(r \in LateFailures(k)')
      BY <3>2, <3>3, ChangeAtOne DEF LateFailures
    <3> QED
      BY <3>1, <3>4, <3>5, <3>6, <3>7, <3>8 DEF Count
  <2> QED
    BY <2>2, <2>3 DEF Budget
<1>2. ASSUME NEW j \in Keys, GoStale(j) PROVE PhaseInv' /\ Budget'
  <2>1. row[j] \in Row
    BY <1>2 DEF GoStale, TypeOK
  <2>2. [row[j] EXCEPT !.stale = TRUE] \in Row
    BY <2>1 DEF Row
  <2>3. \A k \in Keys : row'[k] = NoRow <=> row[k] = NoRow
    <3>1. row'[j] = [row[j] EXCEPT !.stale = TRUE] /\ row[j] # NoRow
      BY <1>2 DEF GoStale, TypeOK
    <3>2. \A k \in Keys : k # j => row'[k] = row[k]
      BY <1>2 DEF GoStale, TypeOK
    <3> QED
      BY <2>2, <3>1, <3>2, NoRowAssumption
  <2>4. \A k \in Keys :
          /\ Spenders(k)' = Spenders(k)
          /\ Charges(k)' = Charges(k)
          /\ Takeovers(k)' = Takeovers(k)
          /\ LateFailures(k)' = LateFailures(k)
    BY <1>2 DEF GoStale, Spenders, Spends, Charges, Takeovers, LateFailures, locals
  <2>5. PhaseInv'
    BY <1>2 DEF GoStale, PhaseInv, PhaseOf
  <2> QED
    BY <2>3, <2>4, <2>5 DEF Budget, Count
<1>3. CASE UNCHANGED vars
  <2>1. PhaseInv'
    BY <1>3 DEF vars, PhaseInv, PhaseOf
  <2>2. \A k \in Keys :
          /\ Spenders(k)' = Spenders(k)
          /\ Charges(k)' = Charges(k)
          /\ Takeovers(k)' = Takeovers(k)
          /\ LateFailures(k)' = LateFailures(k)
          /\ row'[k] = row[k]
    BY <1>3 DEF vars, Spenders, Spends, Charges, Takeovers, LateFailures
  <2> QED
    BY <2>1, <2>2 DEF Budget
<1> QED
  BY <1>1, <1>2, <1>3 DEF Next, Terminating

LEMMA InitBudget == Init => PhaseInv /\ Budget
<1> SUFFICES ASSUME Init PROVE PhaseInv /\ Budget
  OBVIOUS
<1>1. PhaseInv
  BY DEF Init, PhaseInv, PhaseOf
<1>2. ASSUME NEW k \in Keys
      PROVE  /\ Spenders(k) = {} /\ Charges(k) = {}
             /\ Takeovers(k) = {} /\ LateFailures(k) = {}
             /\ row[k] = NoRow
  BY DEF Init, Spenders, Spends, Working, Charges, Takeovers, LateFailures
<1>3. Cardinality({}) = 0
  BY FS_EmptySet
<1> QED
  BY <1>1, <1>2, <1>3 DEF Budget, Count

(***************************************************************************)
(* A key is charged at most once, plus once for every takeover of an       *)
(* abandoned claim and for every exception after a charge: whatever the    *)
(* number of requests, the interleaving of their statements, the failures  *)
(* and the speed of the handlers.                                          *)
(***************************************************************************)
THEOREM ChargesAreBounded == Spec => []ChargeBudget
<1>1. Spec => [](TypeOK /\ PhaseInv /\ Budget)
  BY InitTypes, StepTypes, InitBudget, StepBudget, PTL DEF Spec
<1>2. Budget => ChargeBudget
  <2> SUFFICES ASSUME Budget, NEW k \in Keys
               PROVE  Cardinality(Charges(k)) <=
                        1 + Cardinality(Takeovers(k)) + Cardinality(LateFailures(k))
    BY DEF ChargeBudget
  <2>1. /\ Cardinality(Spenders(k)) \in Nat
        /\ Cardinality(Charges(k)) \in Nat
        /\ Cardinality(Takeovers(k)) \in Nat
        /\ Cardinality(LateFailures(k)) \in Nat
    BY RequestsAssumption, FS_Subset, FS_CardinalityType
    DEF Spenders, Charges, Takeovers, LateFailures
  <2>2. Count(row[k] = NoRow) \in {0, 1}
    BY DEF Count
  <2> QED
    BY <2>1, <2>2 DEF Budget
<1> QED
  BY <1>1, <1>2, PTL

-----------------------------------------------------------------------------
(* Claims that outlive their handlers *)

\* A worker holds the claim of its key, and the claim is fresh.
Owns(r) == Claimed(key[r]) /\ RowOf(r).body = body[r] /\ ~RowOf(r).stale

\* The request whose response the row of k stores is over and did not fail.
ProducedBy(k, s) ==
  /\ s \in Requests
  /\ key[s] = k
  /\ body[s] = row[k].body
  /\ ~raised[s]
  /\ pc[s] \in {"done", "crashed"}

Told(r) ==
  /\ pc[r] # "done" => answer[r] = 0 /\ replayOf[r] = NoResponse
  /\ answer[r] # 200 => replayOf[r] = NoResponse
  /\ answer[r] = 200 =>
       /\ Completed(key[r])
       /\ RowOf(r).response = IF replayOf[r] = NoResponse THEN r ELSE replayOf[r]
       /\ RowOf(r).body = body[r]

PromptInv ==
  /\ \A r \in Requests : PromptRequest(r) /\ pc[r] \in Working => Owns(r)
  /\ \A r, s \in Requests :
       PromptRequest(r) /\ pc[r] \in Working /\ pc[s] \in Working /\ key[s] = key[r] => s = r
  /\ \A k \in PromptKeys : Completed(k) => ProducedBy(k, row[k].response)
  /\ \A r \in Requests : PromptRequest(r) => Told(r)

\* A request of another key leaves the rows of the prompt keys alone.
LEMMA OtherKeyInv ==
  ASSUME TypeOK, PromptInv, NEW r \in Requests, ~PromptRequest(r), UNCHANGED locals,
         \A s \in Requests : s # r => Untouched(s),
         \A k \in Keys : k # key[r] => row'[k] = row[k]
  PROVE  PromptInv'
<1> USE PromptAssumption DEF Untouched, locals, PromptRequest
<1>1. \A k \in PromptKeys : k # key[r] /\ row'[k] = row[k]
  OBVIOUS
<1>2. ASSUME NEW s \in Requests, PromptRequest(s)
      PROVE  /\ s # r
             /\ Told(s) => Told(s)'
             /\ Owns(s) => Owns(s)'
  BY <1>1, <1>2 DEF Told, Owns, Completed, Claimed, RowOf
<1>3. ASSUME NEW k \in PromptKeys, Completed(k)' PROVE ProducedBy(k, row[k].response)'
  <2>1. ProducedBy(k, row[k].response)
    BY <1>1, <1>3 DEF PromptInv, Completed
  <2> QED
    BY <1>1, <2>1 DEF ProducedBy
<1>4. ASSUME NEW s \in Requests, NEW u \in Requests, PromptRequest(s)',
             pc'[s] \in Working, pc'[u] \in Working, key'[u] = key'[s]
      PROVE  u = s
  BY <1>4 DEF PromptInv
<1> QED
  BY <1>2, <1>3, <1>4 DEF PromptInv

\* A step that leaves the table alone, wins no claim and brings no good news.
QuietStep(r) ==
  /\ UNCHANGED <<row, replayOf>>
  /\ pc'[r] \in Working => pc[r] \in Working
  /\ pc[r] \notin {"done", "crashed"}
  /\ pc'[r] # "done" => answer'[r] = answer[r]
  /\ answer'[r] # 200 \/ answer'[r] = answer[r]

LEMMA QuietStepInv ==
  ASSUME TypeOK, PromptInv, NEW r \in Requests, PromptRequest(r), QuietStep(r),
         UNCHANGED locals,
         \A s \in Requests : s # r => Untouched(s)
  PROVE  PromptInv'
<1> USE PromptAssumption DEF QuietStep, Untouched, locals, PromptRequest
<1>1. \A s \in Requests : pc'[s] \in Working => pc[s] \in Working
  OBVIOUS
<1>2. \A s \in Requests : (pc[s] \in Working => Owns(s)) => (pc'[s] \in Working => Owns(s)')
  BY <1>1 DEF Owns, Claimed, RowOf
<1>3. ASSUME NEW k \in PromptKeys, Completed(k)' PROVE ProducedBy(k, row[k].response)'
  <2>1. ProducedBy(k, row[k].response)
    BY <1>3 DEF PromptInv, Completed
  <2> QED
    BY <2>1 DEF ProducedBy
<1>4. ASSUME NEW s \in Requests, PromptRequest(s) PROVE Told(s)'
  <2>1. Told(s)
    BY <1>4 DEF PromptInv
  <2> QED
    BY <2>1 DEF Told, Completed, RowOf
<1> QED
  BY <1>1, <1>2, <1>3, <1>4 DEF PromptInv

\* Winning a claim, or writing the claim and failing.
LEMMA ClaimStepInv ==
  ASSUME TypeOK, PromptInv, NEW r \in Requests, PromptRequest(r),
         UNCHANGED <<key, body, raised, replayOf>>,
         \A s \in Requests : s # r => Untouched(s),
         \A k \in Keys : k # key[r] => row'[k] = row[k],
         pc[r] \in {"insert", "takeover"},
         RowOf(r) = NoRow \/ Abandoned(key[r]),
         SetRow(r, NewClaim(r)),
         \/ pc'[r] = "work" /\ answer'[r] = answer[r]
         \/ pc'[r] = "done" /\ answer'[r] = 500
  PROVE  PromptInv'
<1> USE PromptAssumption DEF Untouched, PromptRequest
<1>1. /\ row'[key[r]] = NewClaim(r)
      /\ NewClaim(r) \in Row
  BY DEF SetRow, NewClaim, Row, TypeOK
<1>2. /\ NewClaim(r) # NoRow
      /\ NewClaim(r).response = NoResponse
      /\ NewClaim(r).body = body[r]
      /\ ~NewClaim(r).stale
  BY <1>1, NoRowAssumption DEF NewClaim
<1>3. \A s \in Requests : key[s] = key[r] => pc[s] \notin Working
  BY DEF PromptInv, Owns, Claimed, Abandoned, RowOf
<1>4. \A s \in Requests : key[s] = key[r] => answer[s] # 200
  BY DEF PromptInv, Told, Completed, Claimed, Abandoned, RowOf
<1>5. ASSUME NEW s \in Requests, PromptRequest(s), pc'[s] \in Working PROVE Owns(s)'
  <2>1. CASE s = r
    BY <1>1, <1>2, <2>1 DEF Owns, Claimed, RowOf
  <2>2. CASE s # r
    <3>1. Owns(s) /\ key[s] # key[r]
      BY <1>3, <1>5, <2>2 DEF PromptInv
    <3>2. row'[key[s]] = row[key[s]]
      BY <3>1 DEF TypeOK
    <3> QED
      BY <3>1, <3>2 DEF Owns, Claimed, RowOf
  <2> QED
    BY <2>1, <2>2
<1>6. ASSUME NEW s \in Requests, NEW t \in Requests, PromptRequest(s),
             pc'[s] \in Working, pc'[t] \in Working, key'[t] = key'[s]
      PROVE  t = s
  BY <1>3, <1>6 DEF PromptInv
<1>7. ASSUME NEW k \in PromptKeys, Completed(k)' PROVE ProducedBy(k, row[k].response)'
  <2>1. k # key[r] /\ row'[k] = row[k]
    BY <1>1, <1>2, <1>7 DEF Completed
  <2>2. ProducedBy(k, row[k].response)
    BY <1>7, <2>1 DEF PromptInv, Completed
  <2>3. row[k].response # r
    BY <2>2 DEF ProducedBy
  <2> QED
    BY <2>1, <2>2, <2>3 DEF ProducedBy
<1>8. ASSUME NEW s \in Requests, PromptRequest(s) PROVE Told(s)'
  <2>1. Told(s)
    BY <1>8 DEF PromptInv
  <2>2. CASE s = r
    BY <2>1, <2>2 DEF Told
  <2>3. CASE s # r /\ answer[s] # 200
    BY <2>1, <2>3 DEF Told
  <2>4. CASE s # r /\ answer[s] = 200
    <3>1. row'[key[s]] = row[key[s]]
      BY <1>4, <2>4 DEF TypeOK
    <3> QED
      BY <2>1, <2>4, <3>1 DEF Told, Completed, RowOf
  <2> QED
    BY <2>2, <2>3, <2>4
<1> QED
  BY <1>5, <1>6, <1>7, <1>8 DEF PromptInv

\* A worker stores its response; the client may or may not learn it.
LEMMA SaveStepInv ==
  ASSUME TypeOK, PhaseInv, PromptInv, NEW r \in Requests, PromptRequest(r),
         UNCHANGED <<key, body, raised, replayOf>>,
         \A s \in Requests : s # r => Untouched(s),
         \A k \in Keys : k # key[r] => row'[k] = row[k],
         pc[r] = "save", SaveRow(r),
         pc'[r] = "done", answer'[r] \in {200, 500}
  PROVE  PromptInv'
<1> USE PromptAssumption DEF Untouched, PromptRequest
<1>1. Owns(r) /\ ~raised[r] /\ pc[r] \in Working /\ replayOf[r] = NoResponse
  BY DEF PromptInv, PhaseInv, PhaseOf, Working, Told
<1>2. RowOf(r) \in Row /\ RowOf(r) # NoRow
  BY <1>1 DEF Owns, Claimed, RowOf, TypeOK
<1>3. /\ row'[key[r]] = [RowOf(r) EXCEPT !.response = r]
      /\ [RowOf(r) EXCEPT !.response = r] \in Row
      /\ [RowOf(r) EXCEPT !.response = r].response = r
      /\ [RowOf(r) EXCEPT !.response = r].body = body[r]
  BY <1>1, <1>2 DEF SaveRow, RowOf, Row, TypeOK, Owns
<1>4. row'[key[r]] # NoRow /\ row'[key[r]].response = r /\ row'[key[r]].body = body[r]
  BY <1>3, NoRowAssumption
<1>5. \A s \in Requests : key[s] = key[r] /\ pc[s] \in Working => s = r
  BY <1>1 DEF PromptInv
<1>6. \A s \in Requests : key[s] = key[r] => answer[s] # 200
  BY <1>1 DEF PromptInv, Told, Completed, Owns, Claimed, RowOf
<1>7. ASSUME NEW s \in Requests, PromptRequest(s), pc'[s] \in Working PROVE Owns(s)'
  <2>1. s # r
    BY <1>7 DEF Working
  <2>2. Owns(s) /\ key[s] # key[r]
    BY <1>5, <1>7, <2>1 DEF PromptInv
  <2>3. row'[key[s]] = row[key[s]]
    BY <2>2 DEF TypeOK
  <2> QED
    BY <2>2, <2>3 DEF Owns, Claimed, RowOf
<1>8. ASSUME NEW s \in Requests, NEW t \in Requests, PromptRequest(s),
             pc'[s] \in Working, pc'[t] \in Working, key'[t] = key'[s]
      PROVE  t = s
  BY <1>8 DEF PromptInv, Working
<1>9. ASSUME NEW k \in PromptKeys, Completed(k)' PROVE ProducedBy(k, row[k].response)'
  <2>1. CASE k = key[r]
    BY <1>1, <1>4, <2>1 DEF ProducedBy
  <2>2. CASE k # key[r]
    <3>1. row'[k] = row[k]
      BY <2>2
    <3>2. ProducedBy(k, row[k].response)
      BY <1>9, <3>1 DEF PromptInv, Completed
    <3>3. row[k].response # r
      BY <2>2, <3>2 DEF ProducedBy
    <3> QED
      BY <3>1, <3>2, <3>3 DEF ProducedBy
  <2> QED
    BY <2>1, <2>2
<1>10. ASSUME NEW s \in Requests, PromptRequest(s) PROVE Told(s)'
  <2>1. Told(s)
    BY <1>10 DEF PromptInv
  <2>2. CASE s = r
    BY <1>1, <1>4, <2>2, RequestsAssumption DEF Told, Completed, RowOf
  <2>3. CASE s # r /\ answer[s] # 200
    BY <2>1, <2>3 DEF Told
  <2>4. CASE s # r /\ answer[s] = 200
    <3>1. row'[key[s]] = row[key[s]]
      BY <1>6, <2>4 DEF TypeOK
    <3> QED
      BY <2>1, <2>4, <3>1 DEF Told, Completed, RowOf
  <2> QED
    BY <2>2, <2>3, <2>4
<1> QED
  BY <1>7, <1>8, <1>9, <1>10 DEF PromptInv

\* A worker deletes its own claim.
LEMMA ReleaseStepInv ==
  ASSUME TypeOK, PromptInv, NEW r \in Requests, PromptRequest(r), Release(r),
         UNCHANGED locals,
         \A s \in Requests : s # r => Untouched(s),
         \A k \in Keys : k # key[r] => row'[k] = row[k]
  PROVE  PromptInv'
<1> USE PromptAssumption DEF Untouched, locals, PromptRequest
<1>1. Owns(r) /\ pc[r] \in Working
  BY DEF PromptInv, Release, Working
<1>2. row'[key[r]] = NoRow
  BY <1>1 DEF Release, Owns, TypeOK
<1>3. pc'[r] = "done" /\ answer'[r] = 500 /\ replayOf' = replayOf /\ raised' = raised
  BY DEF Release, Answer, GoTo, TypeOK
<1>4. \A s \in Requests : key[s] = key[r] /\ pc[s] \in Working => s = r
  BY <1>1 DEF PromptInv
<1>5. \A s \in Requests : key[s] = key[r] => answer[s] # 200
  BY <1>1 DEF PromptInv, Told, Completed, Owns, Claimed, RowOf
<1>6. ASSUME NEW s \in Requests, PromptRequest(s), pc'[s] \in Working PROVE Owns(s)'
  <2>1. s # r
    BY <1>3, <1>6 DEF Working
  <2>2. Owns(s) /\ key[s] # key[r]
    BY <1>4, <1>6, <2>1 DEF PromptInv
  <2>3. row'[key[s]] = row[key[s]]
    BY <2>2 DEF TypeOK
  <2> QED
    BY <2>2, <2>3 DEF Owns, Claimed, RowOf
<1>7. ASSUME NEW s \in Requests, NEW t \in Requests, PromptRequest(s),
             pc'[s] \in Working, pc'[t] \in Working, key'[t] = key'[s]
      PROVE  t = s
  BY <1>3, <1>7 DEF PromptInv, Working
<1>8. ASSUME NEW k \in PromptKeys, Completed(k)' PROVE ProducedBy(k, row[k].response)'
  <2>1. k # key[r] /\ row'[k] = row[k]
    BY <1>2, <1>8 DEF Completed
  <2>2. ProducedBy(k, row[k].response)
    BY <1>8, <2>1 DEF PromptInv, Completed
  <2> QED
    BY <1>3, <2>1, <2>2 DEF ProducedBy
<1>9. ASSUME NEW s \in Requests, PromptRequest(s) PROVE Told(s)'
  <2>1. Told(s)
    BY <1>9 DEF PromptInv
  <2>2. CASE s = r
    BY <1>1, <1>3, <2>1, <2>2 DEF Told, Working
  <2>3. CASE s # r /\ answer[s] # 200
    BY <1>3, <2>1, <2>3 DEF Told
  <2>4. CASE s # r /\ answer[s] = 200
    <3>1. row'[key[s]] = row[key[s]]
      BY <1>5, <2>4 DEF TypeOK
    <3> QED
      BY <1>3, <2>1, <2>4, <3>1 DEF Told, Completed, RowOf
  <2> QED
    BY <2>2, <2>3, <2>4
<1> QED
  BY <1>6, <1>7, <1>8, <1>9 DEF PromptInv

\* A replay tells the client what is stored.
LEMMA ReplayStepInv ==
  ASSUME TypeOK, PromptInv, NEW r \in Requests, PromptRequest(r), Replay(r),
         UNCHANGED locals,
         \A s \in Requests : s # r => Untouched(s)
  PROVE  PromptInv'
<1> USE PromptAssumption DEF Untouched, locals, PromptRequest
<1>1. /\ row' = row /\ raised' = raised /\ pc[r] = "look"
      /\ pc'[r] = "done" /\ answer'[r] = 200 /\ replayOf'[r] = RowOf(r).response
      /\ Completed(key[r]) /\ RowOf(r).body = body[r]
  BY DEF Replay, Answer, GoTo, TypeOK
<1>2. \A s \in Requests : pc'[s] \in Working => pc[s] \in Working
  BY <1>1 DEF Working
<1>3. \A s \in Requests : (pc[s] \in Working => Owns(s)) => (pc'[s] \in Working => Owns(s)')
  BY <1>1, <1>2 DEF Owns, Claimed, RowOf
<1>4. ASSUME NEW k \in PromptKeys, Completed(k)' PROVE ProducedBy(k, row[k].response)'
  <2>1. ProducedBy(k, row[k].response)
    BY <1>1, <1>4 DEF PromptInv, Completed
  <2> QED
    BY <1>1, <2>1 DEF ProducedBy
<1>5. ASSUME NEW s \in Requests, PromptRequest(s) PROVE Told(s)'
  <2>1. Told(s)
    BY <1>5 DEF PromptInv
  <2>2. CASE s = r
    BY <1>1, <2>2 DEF Told, Completed, RowOf
  <2>3. CASE s # r
    BY <1>1, <2>1, <2>3 DEF Told, Completed, RowOf
  <2> QED
    BY <2>2, <2>3
<1> QED
  BY <1>2, <1>3, <1>4, <1>5 DEF PromptInv

\* No claim to a prompt key goes stale under a worker.
LEMMA GoStaleInv ==
  ASSUME TypeOK, PromptInv, NEW k \in Keys, GoStale(k)
  PROVE  PromptInv'
<1> USE PromptAssumption
<1>1. row[k] \in Row
  BY DEF GoStale, TypeOK
<1>2. /\ [row[k] EXCEPT !.stale = TRUE] \in Row
      /\ [row[k] EXCEPT !.stale = TRUE].response = row[k].response
      /\ [row[k] EXCEPT !.stale = TRUE].body = row[k].body
  BY <1>1 DEF Row
<1>3. /\ row'[k] = [row[k] EXCEPT !.stale = TRUE]
      /\ row[k] # NoRow
      /\ \A j \in Keys : j # k => row'[j] = row[j]
  BY DEF GoStale, TypeOK
<1>4. row'[k] # NoRow
  BY <1>2, <1>3, NoRowAssumption
<1>5. UNCHANGED <<pc, key, body, claim, charged, raised, answer, replayOf>>
  BY DEF GoStale, locals
<1>6. k \in PromptKeys => \A s \in Requests : key[s] = k => pc[s] \notin Working
  BY DEF GoStale, Workers
<1>7. \A j \in Keys : Completed(j)' <=> Completed(j)
  BY <1>2, <1>3, <1>4 DEF Completed
<1>8. \A j \in Keys : Completed(j) =>
        row'[j].response = row[j].response /\ row'[j].body = row[j].body
  BY <1>2, <1>3
<1>9. ASSUME NEW s \in Requests, PromptRequest(s), pc'[s] \in Working PROVE Owns(s)'
  <2>1. Owns(s) /\ key[s] # k
    BY <1>5, <1>6, <1>9 DEF PromptInv, PromptRequest
  <2>2. row'[key[s]] = row[key[s]]
    BY <1>3, <2>1 DEF TypeOK
  <2> QED
    BY <1>5, <2>1, <2>2 DEF Owns, Claimed, RowOf
<1>10. ASSUME NEW j \in PromptKeys, Completed(j)' PROVE ProducedBy(j, row[j].response)'
  <2>1. ProducedBy(j, row[j].response)
    BY <1>7, <1>10 DEF PromptInv
  <2> QED
    BY <1>5, <1>7, <1>8, <1>10, <2>1 DEF ProducedBy
<1>11. ASSUME NEW s \in Requests, PromptRequest(s) PROVE Told(s)'
  <2>1. Told(s) /\ key[s] \in Keys
    BY <1>11 DEF PromptInv, PromptRequest, TypeOK
  <2>2. CASE answer[s] # 200
    BY <1>5, <2>1, <2>2 DEF Told
  <2>3. CASE answer[s] = 200
    <3>1. Completed(key[s]) /\ Completed(key[s])'
      BY <1>5, <1>7, <2>1, <2>3 DEF Told
    <3>2. row'[key[s]].response = row[key[s]].response /\ row'[key[s]].body = row[key[s]].body
      BY <1>8, <2>1, <3>1
    <3> QED
      BY <1>5, <2>1, <2>3, <3>1, <3>2 DEF Told, RowOf
  <2> QED
    BY <2>2, <2>3
<1> QED
  BY <1>5, <1>6, <1>9, <1>10, <1>11 DEF PromptInv, PromptRequest

LEMMA StepPrompt ==
  TypeOK /\ PhaseInv /\ PromptInv /\ [Next]_vars => PromptInv'
<1> SUFFICES ASSUME TypeOK, PhaseInv, PromptInv, [Next]_vars PROVE PromptInv'
  OBVIOUS
<1>1. ASSUME NEW r \in Requests, StepOf(r) PROVE PromptInv'
  <2>1. /\ UNCHANGED locals
        /\ \A s \in Requests : s # r => Untouched(s)
        /\ \A k \in Keys : k # key[r] => row'[k] = row[k]
    BY <1>1, StepIsLocal
  <2> SUFFICES ASSUME PromptRequest(r) PROVE PromptInv'
    BY <2>1, OtherKeyInv
  <2>2. ASSUME QuietStep(r) PROVE PromptInv'
    BY <2>1, <2>2, QuietStepInv
  <2>3. CASE Arrive(r) \/ InsertConflict(r) \/ NothingToTakeOver(r) \/ Crash(r)
    BY <2>2, <2>3
    DEF Arrive, InsertConflict, NothingToTakeOver, Crash, QuietStep, GoTo, TypeOK, Working
  <2>4. CASE RaiseBeforeCharge(r) \/ Charge(r) \/ Finish(r) \/ RaiseAfterCharge(r)
    BY <2>2, <2>4
    DEF RaiseBeforeCharge, Charge, Finish, RaiseAfterCharge, QuietStep, GoTo, TypeOK, Working
  <2>5. CASE Refuse(r) \/ ReleaseFails(r)
    BY <2>2, <2>5 DEF Refuse, ReleaseFails, QuietStep, Answer, GoTo, TypeOK, Working
  <2>6. CASE InsertClaim(r)
    BY <2>1, <2>6, ClaimStepInv DEF InsertClaim, InsertRow, GoTo, locals, TypeOK
  <2>7. CASE TakeOver(r)
    BY <2>1, <2>7, ClaimStepInv DEF TakeOver, TakeOverRow, GoTo, locals, TypeOK
  <2>8. CASE FailClaiming(r)
    <3>1. /\ UNCHANGED <<key, body, raised, replayOf>>
          /\ pc'[r] = "done" /\ answer'[r] = 500 /\ pc[r] \in {"insert", "takeover", "look"}
      BY <2>8 DEF FailClaiming, InsertRow, TakeOverRow, Answer, GoTo, locals, TypeOK
    <3>2. CASE UNCHANGED row
      BY <2>2, <3>1, <3>2 DEF QuietStep, Working
    <3>3. CASE InsertRow(r)
      BY <2>1, <3>1, <3>3, ClaimStepInv DEF InsertRow
    <3>4. CASE TakeOverRow(r)
      BY <2>1, <3>1, <3>4, ClaimStepInv DEF TakeOverRow
    <3> QED
      BY <2>8, <3>2, <3>3, <3>4 DEF FailClaiming
  <2>9. CASE Replay(r)
    BY <2>1, <2>9, ReplayStepInv
  <2>10. CASE Save(r)
    BY <2>1, <2>10, SaveStepInv DEF Save, Answer, GoTo, locals, TypeOK
  <2>11. CASE SaveFails(r)
    <3>1. /\ UNCHANGED <<key, body, raised, replayOf>> /\ pc[r] = "save"
          /\ pc'[r] = "done" /\ answer'[r] = 500
      BY <2>11 DEF SaveFails, Answer, GoTo, locals, TypeOK
    <3>2. CASE SaveRow(r)
      BY <2>1, <3>1, <3>2, SaveStepInv
    <3>3. CASE UNCHANGED row
      BY <2>2, <3>1, <3>3 DEF QuietStep, Working
    <3> QED
      BY <2>11, <3>2, <3>3 DEF SaveFails
  <2>12. CASE Release(r)
    BY <2>1, <2>12, ReleaseStepInv
  <2> QED
    BY <1>1, <2>3, <2>4, <2>5, <2>6, <2>7, <2>8, <2>9, <2>10, <2>11, <2>12 DEF StepOf
<1>2. ASSUME NEW k \in Keys, GoStale(k) PROVE PromptInv'
  BY <1>2, GoStaleInv
<1>3. CASE UNCHANGED vars
  BY <1>3
  DEF vars, locals, PromptInv, Owns, Told, ProducedBy, Completed, Claimed, RowOf, PromptRequest
<1> QED
  BY <1>1, <1>2, <1>3 DEF Next, Terminating

LEMMA InitPrompt == Init => PromptInv
BY PromptAssumption DEF Init, PromptInv, Told, Completed, Working

-----------------------------------------------------------------------------
(* Keys nobody has taken over *)

(***************************************************************************)
(* Without a takeover the claim is a mutex at any speed of the handlers:   *)
(* the only other way to a claim is an INSERT, and it needs the row gone.  *)
(***************************************************************************)
Sole(k) ==
  \A r \in Workers(k) : Claimed(k) /\ \A s \in Workers(k) : s = r

SoleInv == \A k \in Keys : Takeovers(k) = {} => Sole(k)

\* A step under k after which nobody has taken over a claim to k.
LEMMA OwnStepSole ==
  ASSUME TypeOK, PhaseInv, SoleInv, NEW r \in Requests, StepOf(r), Takeovers(key[r])' = {},
         UNCHANGED locals,
         \A s \in Requests : s # r => Untouched(s)
  PROVE  Sole(key[r])'
<1> DEFINE k == key[r]
<1> USE DEF TypeOK, Untouched, locals, GoTo, Answer, RowOf
<1>1. k \in Keys /\ k' = k
  OBVIOUS
<1>2. claim'[r] # "taken_over"
  BY <1>1 DEF Takeovers
<1>3. Takeovers(k) = {}
  <2>1. claim[r] # "taken_over"
    <3>1. claim'[r] = claim[r] \/ pc[r] \in BeforeClaim
      BY StepMoves DEF Move
    <3> QED
      BY <1>2, <3>1 DEF PhaseInv, PhaseOf
  <2>2. \A s \in Requests : s # r /\ key[s] = k => claim[s] # "taken_over"
    BY <1>1 DEF Takeovers
  <2> QED
    BY <2>1, <2>2 DEF Takeovers
<1>4. Sole(k)
  BY <1>1, <1>3 DEF SoleInv
<1>5. \A s \in Workers(k)' : s # r => s \in Workers(k)
  BY <1>1 DEF Workers
<1>6. NewClaim(r) # NoRow /\ NewClaim(r).response = NoResponse
  <2>1. NewClaim(r) \in Row
    BY DEF NewClaim, Row
  <2> QED
    BY <2>1, NoRowAssumption DEF NewClaim
\* Nobody works under k that did not before, and the key is claimed.
<1>7. ASSUME pc'[r] \in Working => pc[r] \in Working, Claimed(k) => Claimed(k)'
      PROVE  Sole(k)'
  <2>1. \A s \in Workers(k)' : s \in Workers(k)
    BY <1>1, <1>5, <1>7 DEF Workers
  <2> QED
    BY <1>1, <1>4, <1>7, <2>1 DEF Sole
\* The worker under k leaves.
<1>8. ASSUME pc[r] \in Working, pc'[r] \notin Working PROVE Sole(k)'
  <2>1. r \in Workers(k) /\ r \notin Workers(k)'
    BY <1>1, <1>8 DEF Workers
  <2>2. Workers(k)' = {}
    BY <1>4, <1>5, <2>1 DEF Sole
  <2> QED
    BY <1>1, <2>2 DEF Sole
<1>9. CASE \/ Arrive(r) \/ InsertConflict(r) \/ NothingToTakeOver(r)
           \/ Replay(r) \/ Refuse(r)
  BY <1>1, <1>7, <1>9
  DEF Arrive, InsertConflict, NothingToTakeOver, Replay, Refuse, Claimed, Working
<1>10. CASE RaiseBeforeCharge(r) \/ Charge(r) \/ Finish(r) \/ RaiseAfterCharge(r)
  BY <1>1, <1>7, <1>10
  DEF RaiseBeforeCharge, Charge, Finish, RaiseAfterCharge, Claimed, Working
<1>11. CASE Crash(r)
  BY <1>1, <1>7, <1>11 DEF Crash, Claimed, Working
<1>12. CASE Save(r) \/ SaveFails(r) \/ Release(r) \/ ReleaseFails(r)
  BY <1>8, <1>12 DEF Save, SaveFails, Release, ReleaseFails, Working
<1>13. CASE TakeOver(r)
  BY <1>2, <1>13 DEF TakeOver
<1>14. CASE InsertClaim(r)
  <2>1. row[k] = NoRow /\ row'[k] = NewClaim(r)
    BY <1>14 DEF InsertClaim, InsertRow, SetRow
  <2>2. Workers(k) = {}
    BY <1>4, <2>1 DEF Sole, Claimed
  <2>3. \A s \in Workers(k)' : s = r
    BY <1>5, <2>2
  <2>4. Claimed(k)'
    BY <1>1, <1>6, <2>1 DEF Claimed
  <2> QED
    BY <1>1, <2>3, <2>4 DEF Sole
<1>15. CASE FailClaiming(r)
  <2>1. pc'[r] \notin Working
    BY <1>15 DEF FailClaiming, InsertRow, TakeOverRow, Working
  <2>2. UNCHANGED row \/ row'[k] = NewClaim(r)
    BY <1>15 DEF FailClaiming, InsertRow, TakeOverRow, SetRow
  <2>3. Claimed(k) => Claimed(k)'
    BY <1>1, <1>6, <2>2 DEF Claimed
  <2> QED
    BY <1>7, <2>1, <2>3
<1> QED
  BY <1>9, <1>10, <1>11, <1>12, <1>13, <1>14, <1>15 DEF StepOf

LEMMA StepSole == TypeOK /\ PhaseInv /\ SoleInv /\ [Next]_vars => SoleInv'
<1> SUFFICES ASSUME TypeOK, PhaseInv, SoleInv, [Next]_vars, NEW k \in Keys,
                    Takeovers(k)' = {}
             PROVE  Sole(k)'
  BY DEF SoleInv
<1>1. ASSUME NEW r \in Requests, StepOf(r) PROVE Sole(k)'
  <2>1. /\ UNCHANGED locals
        /\ \A s \in Requests : s # r => Untouched(s)
        /\ \A j \in Keys : j # key[r] => row'[j] = row[j]
    BY <1>1, StepIsLocal
  <2>2. CASE k = key[r]
    <3>1. Takeovers(key[r])' = {}
      BY <2>1, <2>2 DEF locals, Takeovers
    <3>2. Sole(key[r])'
      BY <1>1, <2>1, <3>1, OwnStepSole
    <3> QED
      BY <2>1, <2>2, <3>2 DEF locals, Sole, Workers, Claimed
  <2>3. CASE k # key[r]
    <3>1. Takeovers(k)' = Takeovers(k) /\ Workers(k)' = Workers(k)
      BY <2>1, <2>3 DEF Takeovers, Workers, Untouched, locals
    <3>2. Sole(k) /\ row'[k] = row[k]
      BY <2>1, <2>3, <3>1 DEF SoleInv
    <3> QED
      BY <3>1, <3>2 DEF Sole, Claimed
  <2> QED
    BY <2>2, <2>3
<1>2. ASSUME NEW j \in Keys, GoStale(j) PROVE Sole(k)'
  <2>1. Takeovers(k)' = Takeovers(k) /\ Workers(k)' = Workers(k)
    BY <1>2 DEF GoStale, Takeovers, Workers, locals
  <2>2. Sole(k)
    BY <2>1 DEF SoleInv
  <2>3. Claimed(k) => Claimed(k)'
    <3>1. CASE k # j
      BY <1>2, <3>1 DEF GoStale, TypeOK, Claimed
    <3>2. CASE k = j
      <4>1. row[k] \in Row /\ row'[k] = [row[k] EXCEPT !.stale = TRUE]
        BY <1>2, <3>2 DEF GoStale, TypeOK
      <4>2. /\ [row[k] EXCEPT !.stale = TRUE] \in Row
            /\ [row[k] EXCEPT !.stale = TRUE].response = row[k].response
        BY <4>1 DEF Row
      <4> QED
        BY <4>1, <4>2, NoRowAssumption DEF Claimed
    <3> QED
      BY <3>1, <3>2
  <2> QED
    BY <2>1, <2>2, <2>3 DEF Sole
<1>3. CASE UNCHANGED vars
  <2>1. Takeovers(k)' = Takeovers(k) /\ Workers(k)' = Workers(k)
    BY <1>3 DEF vars, locals, Takeovers, Workers
  <2> QED
    BY <1>3, <2>1 DEF vars, SoleInv, Sole, Claimed
<1> QED
  BY <1>1, <1>2, <1>3 DEF Next, Terminating

LEMMA InitSole == Init => SoleInv
BY DEF Init, SoleInv, Sole, Workers, Working

-----------------------------------------------------------------------------
IInv == TypeOK /\ PhaseInv /\ Budget /\ PromptInv /\ SoleInv

LEMMA InitInv == Init => IInv
BY InitTypes, InitBudget, InitPrompt, InitSole DEF IInv

LEMMA StepInv == IInv /\ [Next]_vars => IInv'
BY StepTypes, StepBudget, StepPrompt, StepSole DEF IInv

LEMMA PromptInvariance == Spec => []IInv
BY InitInv, StepInv, PTL DEF Spec

LEMMA InvReplays == IInv => ReplayFaithful
<1> SUFFICES ASSUME TypeOK, PromptInv, NEW r \in Requests, PromptRequest(r),
                    replayOf[r] # NoResponse
             PROVE  /\ key[replayOf[r]] = key[r]
                    /\ body[replayOf[r]] = body[r]
                    /\ ~raised[replayOf[r]]
  BY DEF IInv, ReplayFaithful
<1>1. /\ Completed(key[r])
      /\ RowOf(r).response = replayOf[r]
      /\ RowOf(r).body = body[r]
  BY DEF PromptInv, Told
<1>2. ProducedBy(key[r], replayOf[r])
  BY <1>1 DEF PromptInv, PromptRequest, RowOf
<1> QED
  BY <1>1, <1>2 DEF ProducedBy, RowOf

-----------------------------------------------------------------------------
(* Where responses come from *)

LEMMA ResponseOrigin ==
  ASSUME TypeOK, [Next]_vars, NEW k \in Keys, Completed(k)'
  PROVE  \/ Completed(k) /\ row'[k].response = row[k].response
         \/ \E r \in Requests : pc[r] = "save" /\ row'[k].response = r
<1>1. CASE row'[k] = row[k]
  BY <1>1 DEF Completed
<1>2. ASSUME NEW r \in Requests, InsertRow(r) \/ TakeOverRow(r)
      PROVE  row'[k] = row[k]
  BY <1>2 DEF InsertRow, TakeOverRow, SetRow, NewClaim, TypeOK, Completed
<1>3. ASSUME NEW r \in Requests, SaveRow(r), pc[r] = "save", row'[k] # row[k]
      PROVE  row'[k].response = r
  <2>1. row[k] \in Row /\ row'[k] = [row[k] EXCEPT !.response = r]
    BY <1>3 DEF SaveRow, RowOf, TypeOK
  <2> QED
    BY <2>1 DEF Row
<1>4. ASSUME NEW r \in Requests, Release(r)
      PROVE  row'[k] = row[k]
  BY <1>4 DEF Release, TypeOK, Completed
<1>5. ASSUME NEW j \in Keys, GoStale(j), row'[k] # row[k]
      PROVE  Completed(k) /\ row'[k].response = row[k].response
  <2>1. row[k] \in Row /\ row'[k] = [row[k] EXCEPT !.stale = TRUE]
    <3>1. j = k
      BY <1>5 DEF GoStale, TypeOK
    <3> QED
      BY <1>5, <3>1 DEF GoStale, TypeOK
  <2>2. row'[k].response = row[k].response
    BY <2>1 DEF Row
  <2> QED
    BY <1>5, <2>2, NoRowAssumption DEF Completed, GoStale, TypeOK
<1>6. ASSUME NEW r \in Requests, StepOf(r)
      PROVE  \/ UNCHANGED row \/ InsertRow(r) \/ TakeOverRow(r) \/ Release(r)
             \/ pc[r] = "save" /\ SaveRow(r)
  BY <1>6
  DEF StepOf, Arrive, InsertClaim, InsertConflict, TakeOver, NothingToTakeOver, Replay, Refuse,
      FailClaiming, RaiseBeforeCharge, Charge, Finish, RaiseAfterCharge, Save, SaveFails,
      ReleaseFails, Crash
<1> QED
  BY <1>1, <1>2, <1>3, <1>4, <1>5, <1>6 DEF Next, Terminating, vars

LEMMA ReplayOrigin ==
  ASSUME TypeOK, [Next]_vars, NEW r \in Requests, replayOf'[r] # replayOf[r]
  PROVE  Completed(key[r]) /\ replayOf'[r] = row[key[r]].response
<1>1. PICK s \in Requests : Replay(s)
  BY DEF Next, Terminating, vars, GoStale, StepOf, Arrive, InsertClaim, InsertConflict, TakeOver,
         NothingToTakeOver, Refuse, FailClaiming, RaiseBeforeCharge, Charge, Finish,
         RaiseAfterCharge, Save, SaveFails, Release, ReleaseFails, Crash
<1> QED
  BY <1>1 DEF Replay, TypeOK, RowOf

-----------------------------------------------------------------------------
(* What a stored response survives *)

\* Only a handler that has lost its claim can store over a stored response.
LEMMA SaveOverwrites ==
  ASSUME IInv, NEW r \in Requests, pc[r] = "save", Completed(key[r])
  PROVE  key[r] \notin PromptKeys /\ Takeovers(key[r]) # {}
<1>1. ~Claimed(key[r]) /\ r \in Workers(key[r]) /\ key[r] \in Keys
  BY DEF Completed, Claimed, Workers, Working, IInv, TypeOK
<1>2. key[r] \notin PromptKeys
  BY <1>1 DEF IInv, PromptInv, PromptRequest, Owns, Workers
<1>3. Takeovers(key[r]) # {}
  BY <1>1 DEF IInv, SoleInv, Sole
<1> QED
  BY <1>2, <1>3

(***************************************************************************)
(* A completed key stays completed, for the same fingerprint and with the  *)
(* same response; the response is replaced at most under a key whose       *)
(* handlers outlive their claims, and after a takeover.                    *)
(***************************************************************************)
THEOREM FinishedResponsesStay == Spec => CompletedStays
<1>1. ASSUME IInv, [Next]_vars, NEW k \in Keys, Completed(k)
      PROVE  /\ Completed(k)'
             /\ row'[k].body = row[k].body
             /\ \/ row'[k].response = row[k].response
                \/ k \notin PromptKeys /\ Takeovers(k) # {}
  <2> DEFINE Kept == /\ Completed(k)'
                     /\ row'[k].body = row[k].body
                     /\ \/ row'[k].response = row[k].response
                        \/ k \notin PromptKeys /\ Takeovers(k) # {}
  <2>1. TypeOK /\ row[k] \in Row /\ row[k].response \in Requests
    BY <1>1 DEF IInv, TypeOK, Completed, Row
  <2> SUFFICES ASSUME row'[k] # row[k] PROVE Kept
    BY <1>1 DEF Completed
  <2>2. ASSUME NEW r \in Requests, StepOf(r) PROVE Kept
    <3>1. k = key[r]
      BY <2>1, <2>2, StepIsLocal
    <3>2. ~(RowOf(r) = NoRow \/ Claimed(key[r]))
      BY <1>1, <3>1 DEF Completed, Claimed, RowOf
    <3>3. SaveRow(r) /\ pc[r] = "save"
      BY <1>1, <2>2, <3>1, <3>2
      DEF StepOf, Arrive, InsertClaim, InsertRow, InsertConflict, TakeOver, TakeOverRow,
          NothingToTakeOver, Abandoned, Replay, Refuse, FailClaiming, RaiseBeforeCharge, Charge,
          Finish, RaiseAfterCharge, Save, SaveFails, Release, ReleaseFails, Crash
    <3>4. row'[k] = [row[k] EXCEPT !.response = r]
      BY <2>1, <3>1, <3>2, <3>3 DEF SaveRow, RowOf, TypeOK
    <3>5. /\ [row[k] EXCEPT !.response = r] \in Row
          /\ [row[k] EXCEPT !.response = r].response = r
          /\ [row[k] EXCEPT !.response = r].body = row[k].body
      BY <2>1 DEF Row
    <3>6. Completed(k)' /\ row'[k].body = row[k].body
      BY <3>4, <3>5, NoRowAssumption, RequestsAssumption DEF Completed
    <3>7. k \notin PromptKeys /\ Takeovers(k) # {}
      BY <1>1, <3>1, <3>3, SaveOverwrites
    <3> QED
      BY <3>6, <3>7
  <2>3. ASSUME NEW j \in Keys, GoStale(j) PROVE Kept
    <3>1. j = k /\ row'[k] = [row[k] EXCEPT !.stale = TRUE]
      <4>1. row' = [row EXCEPT ![j].stale = TRUE] /\ row \in [Keys -> Row \union {NoRow}]
        BY <2>1, <2>3 DEF GoStale, TypeOK
      <4> QED
        BY <4>1
    <3>2. /\ [row[k] EXCEPT !.stale = TRUE] \in Row
          /\ [row[k] EXCEPT !.stale = TRUE].response = row[k].response
          /\ [row[k] EXCEPT !.stale = TRUE].body = row[k].body
      BY <2>1 DEF Row
    <3> QED
      BY <1>1, <3>1, <3>2, NoRowAssumption DEF Completed
  <2> HIDE DEF Kept
  <2>4. Kept
    BY <1>1, <2>2, <2>3 DEF Next, Terminating, vars
  <2> QED
    BY <2>4 DEF Kept
<1>2. IInv /\ [Next]_vars
        => [\A k \in Keys : Completed(k) =>
              /\ Completed(k)'
              /\ row'[k].body = row[k].body
              /\ \/ row'[k].response = row[k].response
                 \/ k \notin PromptKeys /\ Takeovers(k) # {}]_vars
  BY <1>1
<1> QED
  BY <1>2, PromptInvariance, PTL DEF Spec, CompletedStays

(***************************************************************************)
(* A key whose claims outlive their handlers is a mutex: one worker at a   *)
(* time, holding a claim with its own fingerprint.                         *)
(***************************************************************************)
THEOREM ClaimsAreMutexes == Spec => []ClaimIsMutex
<1>1. IInv => ClaimIsMutex
  BY DEF IInv, PromptInv, Owns, ClaimIsMutex, PromptRequest
<1> QED
  BY <1>1, PromptInvariance, PTL

(***************************************************************************)
(* All clients of such a key are told the stored response.                 *)
(***************************************************************************)
THEOREM ClientsAreTold == Spec => []ClientsAgree
<1>1. IInv => ClientsAgree
  BY DEF IInv, PromptInv, Told, ClientsAgree
<1> QED
  BY <1>1, PromptInvariance, PTL

(***************************************************************************)
(* A replay under such a key answers the same body.                        *)
(***************************************************************************)
THEOREM ReplaysAreFaithful == Spec => []ReplayFaithful
BY InvReplays, PromptInvariance, PTL
=============================================================================
