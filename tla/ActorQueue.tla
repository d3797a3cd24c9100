----------------------------- MODULE ActorQueue -----------------------------
(***************************************************************************)
(* acp.ActorQueue (internal/core/acp/manager.go:131-198): one channel of   *)
(* capacity one per session holds the token of that session.  Run creates  *)
(* the channel on first use, counts itself as pending, receives the token, *)
(* executes fn, sends the token back and, in a second step under the       *)
(* mutex, uncounts itself; the last one out deletes the channel.  The      *)
(* token is sent back before the count goes down, and a new caller may     *)
(* come between the two, so whether two callers can ever wait on different *)
(* channels of the same session is the question.                           *)
(*                                                                         *)
(* Channels are pointers: a new one is any channel no goroutine and no map *)
(* entry refers to, as the garbage collector guarantees.                   *)
(***************************************************************************)
EXTENDS Naturals, FiniteSets

CONSTANTS Callers, \* goroutines that call Run
          Keys,    \* session keys
          Chans,   \* channel pointers
          NoChan   \* the nil pointer: no queue for this key

ASSUME ActorQueueAssumption ==
  /\ IsFiniteSet(Callers)
  /\ NoChan \notin Chans

VARIABLES
  queues,        \* queues[k]: the channel registered for k, or NoChan
  token,         \* token[c]: how many tokens channel c buffers (capacity 1)
  pendingByKey,  \* pendingByKey[k]: calls of Run(k) not yet uncounted
  pendingCount,  \* all calls of Run not yet uncounted
  stage,         \* where each goroutine is in Run
  session,       \* session[p]: the session p last called Run for
  queue          \* queue[p]: the local variable queue of p's call

queueVars == <<queues, token, pendingByKey, pendingCount, stage, session, queue>>

Locations == {"idle", "waiting", "running", "releasing"}

\* The goroutines inside Run(k), whose deferred uncount has not run yet.
Inside(k) == {p \in Callers : stage[p] # "idle" /\ session[p] = k}

Fresh(c) == /\ \A k \in Keys : queues[k] # c
            /\ \A p \in Callers : stage[p] # "idle" => queue[p] # c

QueueTypeOK ==
  /\ queues \in [Keys -> Chans \cup {NoChan}]
  /\ token \in [Chans -> {0, 1}]
  /\ pendingByKey \in [Keys -> Nat]
  /\ pendingCount \in Nat
  /\ stage \in [Callers -> Locations]
  /\ session \in [Callers -> Keys]
  /\ queue \in [Callers -> Chans \cup {NoChan}]

QueueInit ==
  /\ queues = [k \in Keys |-> NoChan]
  /\ token = [c \in Chans |-> 0]
  /\ pendingByKey = [k \in Keys |-> 0]
  /\ pendingCount = 0
  /\ stage = [p \in Callers |-> "idle"]
  /\ session \in [Callers -> Keys]
  /\ queue = [p \in Callers |-> NoChan]

-----------------------------------------------------------------------------
EnterRefill(p, k) ==  \* mutant: every call sends an initial token
  /\ stage[p] = "idle"
  /\ \E c \in Chans :
       /\ IF queues[k] = NoChan THEN Fresh(c) ELSE c = queues[k]
       /\ token' = [token EXCEPT ![c] = @ + 1]
       /\ queues' = [queues EXCEPT ![k] = c]
       /\ queue' = [queue EXCEPT ![p] = c]
  /\ pendingByKey' = [pendingByKey EXCEPT ![k] = @ + 1]
  /\ pendingCount' = pendingCount + 1
  /\ session' = [session EXCEPT ![p] = k]
  /\ stage' = [stage EXCEPT ![p] = "waiting"]

\* The critical section at the head of Run: find or create the channel, count.
Enter(p, k) ==
  /\ stage[p] = "idle"
  /\ \E c \in Chans :
       /\ IF queues[k] = NoChan
          THEN Fresh(c) /\ token' = [token EXCEPT ![c] = 1]
          ELSE c = queues[k] /\ UNCHANGED token
       /\ queues' = [queues EXCEPT ![k] = c]
       /\ queue' = [queue EXCEPT ![p] = c]
  /\ pendingByKey' = [pendingByKey EXCEPT ![k] = @ + 1]
  /\ pendingCount' = pendingCount + 1
  /\ session' = [session EXCEPT ![p] = k]
  /\ stage' = [stage EXCEPT ![p] = "waiting"]

\* <-(*queue): receive the token and start fn.
Acquire(p) ==
  /\ stage[p] = "waiting"
  /\ token[queue[p]] = 1
  /\ token' = [token EXCEPT ![queue[p]] = 0]
  /\ stage' = [stage EXCEPT ![p] = "running"]
  /\ UNCHANGED <<queues, pendingByKey, pendingCount, session, queue>>

GiveBackOnSuccess(p) ==  \* mutant: the token is sent back only when fn succeeds
  /\ stage[p] = "running"
  /\ token[queue[p]] = 0
  /\ \/ token' = [token EXCEPT ![queue[p]] = 1]
     \/ UNCHANGED token
  /\ stage' = [stage EXCEPT ![p] = "releasing"]
  /\ UNCHANGED <<queues, pendingByKey, pendingCount, session, queue>>

\* fn has returned (or panicked): the deferred function sends the token back.
GiveBack(p) ==
  /\ stage[p] = "running"
  /\ token[queue[p]] = 0
  /\ token' = [token EXCEPT ![queue[p]] = 1]
  /\ stage' = [stage EXCEPT ![p] = "releasing"]
  /\ UNCHANGED <<queues, pendingByKey, pendingCount, session, queue>>

\* The rest of the deferred function, under the mutex.
UncountEarlyDelete(p) ==  \* mutant: every caller deletes the queue on its way out
  /\ stage[p] = "releasing"
  /\ pendingByKey' = [pendingByKey EXCEPT ![session[p]] = @ - 1]
  /\ queues' = [queues EXCEPT ![session[p]] = NoChan]
  /\ pendingCount' = pendingCount - 1
  /\ stage' = [stage EXCEPT ![p] = "idle"]
  /\ UNCHANGED <<token, session, queue>>

UncountNoDelete(p) ==  \* mutant: the queue of an unused session stays in the map
  /\ stage[p] = "releasing"
  /\ pendingByKey' = [pendingByKey EXCEPT ![session[p]] = @ - 1]
  /\ pendingCount' = pendingCount - 1
  /\ stage' = [stage EXCEPT ![p] = "idle"]
  /\ UNCHANGED <<token, session, queue, queues>>

Uncount(p) ==
  LET k == session[p]
      left == IF pendingByKey[k] > 0 THEN pendingByKey[k] - 1 ELSE 0
  IN /\ stage[p] = "releasing"
     /\ pendingByKey' = [pendingByKey EXCEPT ![k] = left]
     /\ queues' = IF left = 0 THEN [queues EXCEPT ![k] = NoChan] ELSE queues
     /\ pendingCount' = pendingCount - 1
     /\ stage' = [stage EXCEPT ![p] = "idle"]
     /\ UNCHANGED <<token, session, queue>>

QueueNext ==
  \E p \in Callers : (\E k \in Keys : Enter(p, k)) \/ Acquire(p) \/ GiveBack(p) \/ Uncount(p)

\* fn returns; a goroutine that can take a step takes it; and the Go runtime
\* serves the goroutines blocked on a channel in the order they blocked, so one
\* that waits while the token comes back again and again gets it.
QueueFairness ==
  \A p \in Callers :
    SF_queueVars(Acquire(p)) /\ WF_queueVars(GiveBack(p)) /\ WF_queueVars(Uncount(p))

QueueSpec == QueueInit /\ [][QueueNext]_queueVars

QueueFairSpec == QueueSpec /\ QueueFairness
-----------------------------------------------------------------------------
\* Two operations of one session never execute at the same time, although the
\* channel that excludes them is deleted and created anew (Run, 148-183).
MutualExclusion ==
  \A p, q \in Callers :
    stage[p] = "running" /\ stage[q] = "running" /\ session[p] = session[q] => p = q

\* An entry lives exactly as long as somebody is inside Run for its key: the
\* maps hold nothing of a session nobody uses, and the total reported by
\* GetTotalPendingCount is what the per-session counts add up to.
NoLeftovers ==
  /\ \A k \in Keys : (queues[k] = NoChan) <=> (Inside(k) = {})
  /\ pendingCount = Cardinality({p \in Callers : stage[p] # "idle"})

\* Whoever waits for a session eventually executes its operation.
EventuallyRuns == \A p \in Callers : stage[p] = "waiting" ~> stage[p] = "running"

-----------------------------------------------------------------------------
(* The inductive invariant: the counts are exact, everybody inside Run(k)  *)
(* refers to the registered channel, no two keys share a channel, and the  *)
(* token of a registered channel is missing exactly while somebody runs.   *)
CountsExact == \A k \in Keys : pendingByKey[k] = Cardinality(Inside(k))

SameChannel ==
  /\ \A p \in Callers : stage[p] # "idle" => queues[session[p]] \in Chans /\ queue[p] = queues[session[p]]
  /\ \A k \in Keys : queues[k] # NoChan => \E p \in Callers : stage[p] # "idle" /\ session[p] = k
  /\ \A j, k \in Keys : queues[j] = queues[k] /\ queues[j] # NoChan => j = k

TokenOrHolder ==
  \A k \in Keys : queues[k] # NoChan =>
     (token[queues[k]] = 1 <=> \A p \in Callers : ~(stage[p] = "running" /\ session[p] = k))

QueueInv ==
  /\ QueueTypeOK
  /\ CountsExact
  /\ pendingCount = Cardinality({p \in Callers : stage[p] # "idle"})
  /\ SameChannel
  /\ TokenOrHolder
  /\ MutualExclusion

(* What the manager relies on: each session is a lock.                     *)
At(l) == [k \in Keys |-> {p \in Callers : stage[p] = l /\ session[p] = k}]

Lock == INSTANCE SessionLock WITH Procs <- Callers, waiting <- At("waiting"), holders <- At("running")

\* Run gives each session the lock that SessionLock describes.
IsSessionLock == Lock!Spec
=============================================================================
