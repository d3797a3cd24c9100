---------------------------- MODULE SessionLock ----------------------------
(***************************************************************************)
(* What acp.ActorQueue promises to the ACP manager: "serializes operations *)
(* per session" (acp/manager.go:131).  Every caller asks for the lock of   *)
(* one session, is granted it while nobody else holds it, and gives it     *)
(* back.  ActorQueue implements this specification; AcpManager is built on *)
(* it.                                                                     *)
(***************************************************************************)

CONSTANTS Procs,  \* goroutines that call Run
          Keys    \* session keys

VARIABLES waiting,  \* waiting[k]: the goroutines blocked in Run(k)
          holders   \* holders[k]: the goroutines executing their fn for k

vars == <<waiting, holders>>

Uninvolved(p) == \A k \in Keys : p \notin waiting[k] \cup holders[k]

Init ==
  /\ waiting = [k \in Keys |-> {}]
  /\ holders = [k \in Keys |-> {}]

\* Run is called: the goroutine queues for the session.
Request(p, k) ==
  /\ Uninvolved(p)
  /\ waiting' = [waiting EXCEPT ![k] = @ \cup {p}]
  /\ UNCHANGED holders

\* The session is free: one of the waiting goroutines enters fn.
Grant(p, k) ==
  /\ p \in waiting[k]
  /\ holders[k] = {}
  /\ waiting' = [waiting EXCEPT ![k] = @ \ {p}]
  /\ holders' = [holders EXCEPT ![k] = {p}]

\* fn has returned: the session is free again.
Release(p, k) ==
  /\ p \in holders[k]
  /\ holders' = [holders EXCEPT ![k] = @ \ {p}]
  /\ UNCHANGED waiting

Next == \E p \in Procs, k \in Keys : Request(p, k) \/ Grant(p, k) \/ Release(p, k)

Spec == Init /\ [][Next]_vars
=============================================================================
