-------------------------- MODULE MCSmokeTestRunner -------------------------
(***************************************************************************)
(* Two pages and the two workers of src/Dockerfile.  A suite makes one     *)
(* call and then two at once; either each page is pressed, so that two     *)
(* suites take all workers, or one page twice, so that the calls of a      *)
(* killed suite meet the next one; and while both workers are replaced the *)
(* database may be down.  The badge followed has two fetches under way, so *)
(* that one response can overtake the other.                               *)
(***************************************************************************)
EXTENDS SmokeTestRunner
=============================================================================
