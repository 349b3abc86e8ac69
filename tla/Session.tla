------------------------------- MODULE Session -------------------------------
(***************************************************************************)
(* What one run of the profiler promises to whoever starts it: it delivers *)
(* matrices, at most a given number in each attempt at the measurement,    *)
(* stops when it is asked to, and says truly how it ended.  Profiler       *)
(* implements this (ImplementsSession).                                    *)
(***************************************************************************)
EXTENDS Naturals

VARIABLES
  limit,      (* --iter, 0 for none                                        *)
  attempt,    (* which attempt at the failed step this is                  *)
  delivered,  (* the matrices delivered so far                             *)
  asked,      (* the run was asked to stop                                 *)
  late,       (* the matrices delivered after that                         *)
  result      (* how the run has ended                                     *)

vars == <<limit, attempt, delivered, asked, late, result>>

Attempts == 1 .. 3

Init ==
  /\ limit \in Nat /\ attempt = 1 /\ delivered = 0
  /\ asked = FALSE /\ late = 0 /\ result = "pending"

(* The matrix that was being measured when the request came is still       *)
(* delivered.                                                              *)
Deliver ==
  /\ result = "pending"
  /\ limit > 0 => delivered < attempt * limit
  /\ asked => late = 0
  /\ delivered' = delivered + 1
  /\ late' = IF asked THEN 1 ELSE late
  /\ UNCHANGED <<limit, attempt, asked, result>>

Retry ==
  /\ result = "pending" /\ attempt + 1 \in Attempts
  /\ attempt' = attempt + 1
  /\ UNCHANGED <<limit, delivered, asked, late, result>>

Ask ==
  /\ result = "pending"
  /\ asked' = TRUE
  /\ UNCHANGED <<limit, attempt, delivered, late, result>>

(* Complete: all that was wanted, in one attempt.  Stopped: what there was *)
(* when the request came, in one attempt.  Anything may end in nothing.    *)
Achieved(r) ==
  \/ r = "complete" /\ attempt = 1 /\ ~asked /\ limit > 0 /\ delivered = limit
  \/ r = "stopped" /\ attempt = 1 /\ asked
  \/ r = "nothing"

End ==
  /\ result = "pending"
  /\ \E r \in {"complete", "stopped", "nothing"} : Achieved(r) /\ result' = r
  /\ UNCHANGED <<limit, attempt, delivered, asked, late>>

Next == Deliver \/ Retry \/ Ask \/ End

(* A run that was asked to stop, or that has a limit, ends.                *)
Ends == (asked \/ limit > 0) ~> (result # "pending")

Safety == Init /\ [][Next]_vars

Spec == Safety /\ Ends
=============================================================================
