--------------------------- MODULE ResultDelivery ---------------------------
(***************************************************************************)
(* What the manager promises of the results of subagents (agent/manager.go *)
(* 667-669, 737): the result of every subagent that a session started goes *)
(* to the queue of that session once, and a run of that session takes all  *)
(* that has arrived at once.  A result is lost only if records may be      *)
(* archived before their runs end.  Subagents implements this              *)
(* specification, with any number of workers.                              *)
(***************************************************************************)

CONSTANTS Results,  \* subagents, each with one result
          Keys,     \* session keys
          MayLose   \* records may be archived before their runs end

VARIABLES started,   \* the subagents that were started
          owed,      \* owed[k]: results that subagents of session k will have
          waiting,   \* waiting[k]: results in the queue of k
          delivered  \* delivered[k]: results that runs of k have taken

vars == <<started, owed, waiting, delivered>>

Init ==
  /\ started = {}
  /\ owed = [k \in Keys |-> {}]
  /\ waiting = [k \in Keys |-> {}]
  /\ delivered = [k \in Keys |-> {}]

\* A run of session k starts a subagent.
Promise(t, k) ==
  /\ t \notin started
  /\ started' = started \cup {t}
  /\ owed' = [owed EXCEPT ![k] = @ \cup {t}]
  /\ UNCHANGED <<waiting, delivered>>

\* The subagent has ended and its result is announced.
Arrive(t, k) ==
  /\ t \in owed[k]
  /\ owed' = [owed EXCEPT ![k] = @ \ {t}]
  /\ waiting' = [waiting EXCEPT ![k] = @ \cup {t}]
  /\ UNCHANGED <<started, delivered>>

\* A run of session k takes whatever has arrived for it.
Deliver(k) ==
  /\ waiting[k] # {}
  /\ waiting' = [waiting EXCEPT ![k] = {}]
  /\ delivered' = [delivered EXCEPT ![k] = @ \cup waiting[k]]
  /\ UNCHANGED <<started, owed>>

\* The record is gone when the subagent ends, so nobody will get the result.
Lose(t, k) ==
  /\ MayLose /\ t \in owed[k]
  /\ owed' = [owed EXCEPT ![k] = @ \ {t}]
  /\ UNCHANGED <<started, waiting, delivered>>

Next ==
  \E k \in Keys :
    Deliver(k) \/ \E t \in Results : Promise(t, k) \/ Arrive(t, k) \/ Lose(t, k)

Spec == Init /\ [][Next]_vars
=============================================================================
