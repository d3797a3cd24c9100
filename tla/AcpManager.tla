----------------------------- MODULE AcpManager -----------------------------
(***************************************************************************)
(* acp.Manager (internal/core/acp/manager.go, cache.go): the sessions with *)
(* external agents.  Every operation on a session executes inside          *)
(* ActorQueue.Run, which SessionLock describes.  A session has a runtime   *)
(* handle (an agent process) in the cache; a turn runs on that handle and  *)
(* outlives the operation that started it.  Most operations first evict    *)
(* the handles that have been idle: they choose them before they queue up  *)
(* for their sessions.                                                     *)
(*                                                                         *)
(* The runtime is modelled as acp/sdk/adapter.go answers: a handle it does *)
(* not know is an error, and closing one that it knows takes effect also   *)
(* when an error is reported (540-606).  The events of a turn, modes,      *)
(* options, statistics and thread bindings are left out.                   *)
(***************************************************************************)
EXTENDS Integers, FiniteSets

CONSTANTS
  Sessions,
  Procs,        \* goroutines that call the manager
  Handles,      \* what the runtime returns from EnsureSession
  Turns,        \* ActiveTurnState pointers
  NoSession, NoHandle, NoTurn,
  MaxSessions   \* acp.max_concurrent_sessions; 0 is no limit

ASSUME AcpManagerAssumption ==
  /\ IsFiniteSet(Sessions) /\ IsFiniteSet(Procs)
  /\ NoSession \notin Sessions /\ NoHandle \notin Handles /\ NoTurn \notin Turns
  /\ MaxSessions \in Nat

VARIABLES
  waiting, holders, \* the lock of each session
  pc,               \* where each goroutine is in its call
  key,              \* the session it has queued up for
  cand,             \* the idle sessions it still has to evict
  h, tn,            \* its local variables: a handle, a turn
  cache,            \* RuntimeCache.states
  idle,             \* sessions whose handle was not touched for the idle TTL
  slots,            \* pendingSessionInits
  open,             \* handles the runtime knows
  active,           \* activeTurnBySession
  phase,            \* where each turn is, see Phases
  on, of,           \* its handle and its session
  cancel            \* its cancellation: asked for, answered

lock == <<waiting, holders>>
cached == <<cache, idle>>
turns == <<active, phase, on, of, cancel>>
vars == <<lock, pc, key, cand, h, tn, cached, slots, open, turns>>

Lock == INSTANCE SessionLock WITH Keys <- Sessions

\* "ask" is GetSessionStatus, which evicts idle handles before, and
\* SetSessionRuntimeMode or SetSessionConfigOption, which do not.
Evicting == {"initialize", "ask", "cancel", "close"}
Direct == {"ask", "turn"}
Ops == Evicting \cup Direct

\* A goroutine whose location is the name of an operation waits in Run.
Locations == Ops \cup
  {"out", "evict", "evictQueued", "evictClose", "ensure", "ensured", "unslot", "started",
   "cancelling", "cancellingToClose", "closing", "clear", "leave"}

\* Running: the agent works.  Ended: the runtime has closed its channel.
\* Closed: so is the channel of the caller, but the turn is still registered.
Phases == {"none", "running", "ended", "closed"}

Registered == {s \in Sessions : cache[s] # NoHandle}

\* Handles and turns nothing refers to.
FreshHandles ==
  Handles \ (open \cup {cache[s] : s \in Sessions} \cup {h[p] : p \in Procs} \cup {on[t] : t \in Turns})

FreshTurns == {t \in Turns : phase[t] = "none"} \ {tn[p] : p \in Procs}

TypeOK ==
  /\ waiting \in [Sessions -> SUBSET Procs] /\ holders \in [Sessions -> SUBSET Procs]
  /\ pc \in [Procs -> Locations]
  /\ key \in [Procs -> Sessions \cup {NoSession}]
  /\ cand \in [Procs -> SUBSET Sessions]
  /\ h \in [Procs -> Handles \cup {NoHandle}] /\ tn \in [Procs -> Turns \cup {NoTurn}]
  /\ cache \in [Sessions -> Handles \cup {NoHandle}] /\ idle \subseteq Registered
  /\ slots \in Nat /\ open \subseteq Handles
  /\ active \in [Sessions -> Turns \cup {NoTurn}]
  /\ phase \in [Turns -> Phases] /\ on \in [Turns -> Handles \cup {NoHandle}]
  /\ of \in [Turns -> Sessions \cup {NoSession}] /\ cancel \in [Turns -> {"no", "asked", "ok", "failed"}]

\* No calls and no turns, and the handles c in the cache.
InitWith(c) ==
  /\ Lock!Init
  /\ pc = [p \in Procs |-> "out"]
  /\ key = [p \in Procs |-> NoSession]
  /\ cand = [p \in Procs |-> {}]
  /\ h = [p \in Procs |-> NoHandle] /\ tn = [p \in Procs |-> NoTurn]
  /\ cache = c /\ idle = {}
  /\ slots = 0 /\ open = {c[s] : s \in Sessions} \ {NoHandle}
  /\ active = [s \in Sessions |-> NoTurn]
  /\ phase = [t \in Turns |-> "none"] /\ on = [t \in Turns |-> NoHandle]
  /\ of = [t \in Turns |-> NoSession] /\ cancel = [t \in Turns |-> "no"]

Init == InitWith([s \in Sessions |-> NoHandle])

At(p, l) == pc[p] = l
Goto(p, l) == pc' = [pc EXCEPT ![p] = l]

-----------------------------------------------------------------------------
(* evictIdleRuntimeHandles, and how a call gets into the actor queue.      *)

\* The TTL passes without a Get of this session.
Idles(s) ==
  /\ s \in Registered \ idle
  /\ idle' = idle \cup {s}
  /\ UNCHANGED <<lock, pc, key, cand, h, tn, cache, slots, open, turns>>

\* CollectIdleCandidates takes its snapshot.  The eviction takes nothing from the
\* operation it comes before, so the operation is chosen when it queues up.
CollectIdle(p) ==
  /\ At(p, "out")
  /\ cand' = [cand EXCEPT ![p] = idle]
  /\ Goto(p, "evict")
  /\ UNCHANGED <<lock, key, h, tn, cached, slots, open, turns>>

\* A candidate with an active turn is passed over; for another one the eviction
\* queues up.
EvictNext(p, s) ==
  /\ At(p, "evict") /\ s \in cand[p]
  /\ cand' = [cand EXCEPT ![p] = @ \ {s}]
  /\ \/ active[s] # NoTurn /\ UNCHANGED <<lock, key, pc>>
     \/ active[s] = NoTurn /\ Lock!Request(p, s)
        /\ key' = [key EXCEPT ![p] = s] /\ Goto(p, "evictQueued")
  /\ UNCHANGED <<h, tn, cached, slots, open, turns>>

\* In the queue: Get, and Clear.  "Verify still idle" compares the time the
\* candidate was collected with, which only gets older, so it never objects.
EvictTake(p) ==
  LET s == key[p]
  IN /\ At(p, "evictQueued") /\ Lock!Grant(p, s)
     /\ h' = [h EXCEPT ![p] = cache[s]]
     /\ cache' = [cache EXCEPT ![s] = NoHandle]
     /\ idle' = idle \ {s}
     /\ Goto(p, "evictClose")
     /\ UNCHANGED <<key, cand, tn, slots, open, turns>>

EvictForget(p) ==  \* mutant: the runtime of an evicted session is not closed
  /\ At(p, "evictClose") /\ Lock!Release(p, key[p])
  /\ h' = [h EXCEPT ![p] = NoHandle] /\ key' = [key EXCEPT ![p] = NoSession]
  /\ Goto(p, "evict")
  /\ UNCHANGED <<cand, tn, cached, slots, open, turns>>

\* The runtime is closed, whatever it answers, and the queue is left.
EvictClose(p) ==
  /\ At(p, "evictClose") /\ Lock!Release(p, key[p])
  /\ open' = open \ {h[p]}
  /\ h' = [h EXCEPT ![p] = NoHandle] /\ key' = [key EXCEPT ![p] = NoSession]
  /\ Goto(p, "evict")
  /\ UNCHANGED <<cand, tn, cached, slots, turns>>

\* The operation itself queues up, after the eviction if it has one.
Enqueue(p, o, s) ==
  /\ \/ o \in Evicting /\ At(p, "evict") /\ cand[p] = {}
     \/ o \in Direct /\ At(p, "out")
  /\ Lock!Request(p, s) /\ key' = [key EXCEPT ![p] = s]
  /\ Goto(p, o)
  /\ UNCHANGED <<cand, h, tn, cached, slots, open, turns>>

\* Run enters the function of operation o, whose first step is part of the action.
Entered(p, o) == At(p, o) /\ Lock!Grant(p, key[p])

\* The function given to Run returns.
Return(p) ==
  /\ At(p, "leave") /\ Lock!Release(p, key[p])
  /\ Goto(p, "out")
  /\ key' = [key EXCEPT ![p] = NoSession]
  /\ UNCHANGED <<cand, h, tn, cached, slots, open, turns>>

-----------------------------------------------------------------------------
(* InitializeSession.                                                      *)
\* Get touches the handle it finds.
Touch(s) == idle' = idle \ {s} /\ UNCHANGED cache

\* The session exists, or there are as many as there may be.
InitializeNothing(p) ==
  /\ Entered(p, "initialize")
  /\ \/ cache[key[p]] # NoHandle
     \/ MaxSessions > 0 /\ Cardinality(Registered) + slots >= MaxSessions
  /\ Touch(key[p])
  /\ Goto(p, "leave")
  /\ UNCHANGED <<key, cand, h, tn, slots, open, turns>>

AcquireSlotUncounted(p) ==  \* mutant: initializations under way are not counted
  /\ Entered(p, "initialize") /\ cache[key[p]] = NoHandle
  /\ MaxSessions > 0 => Cardinality(Registered) < MaxSessions
  /\ slots' = IF MaxSessions > 0 THEN slots + 1 ELSE slots
  /\ Goto(p, "ensure")
  /\ UNCHANGED <<key, cand, h, tn, cached, open, turns>>

AcquireSlot(p) ==
  /\ Entered(p, "initialize") /\ cache[key[p]] = NoHandle
  /\ MaxSessions > 0 => Cardinality(Registered) + slots < MaxSessions
  /\ slots' = IF MaxSessions > 0 THEN slots + 1 ELSE slots
  /\ Goto(p, "ensure")
  /\ UNCHANGED <<key, cand, h, tn, cached, open, turns>>

\* EnsureSession: a new agent process, or an error.
EnsureSession(p) ==
  /\ At(p, "ensure")
  /\ \/ /\ \E x \in FreshHandles : open' = open \cup {x} /\ h' = [h EXCEPT ![p] = x]
        /\ Goto(p, "ensured")
     \/ Goto(p, "unslot") /\ UNCHANGED <<open, h>>
  /\ UNCHANGED <<lock, key, cand, tn, cached, slots, turns>>

CacheHandle(p) ==
  /\ At(p, "ensured")
  /\ cache' = [cache EXCEPT ![key[p]] = h[p]] /\ idle' = idle \ {key[p]}
  /\ h' = [h EXCEPT ![p] = NoHandle]
  /\ Goto(p, "unslot")
  /\ UNCHANGED <<lock, key, cand, tn, slots, open, turns>>

ReleaseSlotTwice(p) ==  \* mutant: the slot is given back where the session is cached, and again on return
  /\ At(p, "unslot")
  /\ slots' = slots - 2
  /\ Goto(p, "leave")
  /\ UNCHANGED <<lock, key, cand, h, tn, cached, open, turns>>

\* The deferred release of the slot.
ReleaseSlot(p) ==
  /\ At(p, "unslot")
  /\ slots' = IF slots > 0 THEN slots - 1 ELSE slots
  /\ Goto(p, "leave")
  /\ UNCHANGED <<lock, key, cand, h, tn, cached, open, turns>>

-----------------------------------------------------------------------------
(* GetSessionStatus, SetSessionRuntimeMode, SetSessionConfigOption: they   *)
(* get the handle and ask the runtime something, or refuse to.             *)
Ask(p) ==
  /\ Entered(p, "ask")
  /\ Touch(key[p])
  /\ Goto(p, "leave")
  /\ UNCHANGED <<key, cand, h, tn, slots, open, turns>>

(* RunTrackedTurn.                                                         *)

\* No such session, a turn is active, or the runtime knows no such handle.
TurnRefused(p) ==
  /\ Entered(p, "turn")
  /\ \/ cache[key[p]] = NoHandle
     \/ active[key[p]] # NoTurn
     \/ cache[key[p]] \notin open
  /\ Touch(key[p])
  /\ Goto(p, "leave")
  /\ UNCHANGED <<key, cand, h, tn, slots, open, turns>>

StartTurn(p) ==
  \E t \in FreshTurns :
    /\ phase' = [phase EXCEPT ![t] = "running"]
    /\ on' = [on EXCEPT ![t] = cache[key[p]]]
    /\ of' = [of EXCEPT ![t] = key[p]]
    /\ tn' = [tn EXCEPT ![p] = t]

RunTurnBeside(p) ==  \* mutant: the active turn is not looked at
  /\ Entered(p, "turn") /\ cache[key[p]] \in open
  /\ StartTurn(p)
  /\ Touch(key[p])
  /\ Goto(p, "started")
  /\ UNCHANGED <<key, cand, h, slots, open, active, cancel>>

\* runtime.RunTurn
RunTurn(p) ==
  /\ Entered(p, "turn")
  /\ cache[key[p]] \in open /\ active[key[p]] = NoTurn
  /\ StartTurn(p)
  /\ Touch(key[p])
  /\ Goto(p, "started")
  /\ UNCHANGED <<key, cand, h, slots, open, active, cancel>>

\* The turn is registered, and a goroutine passes its events on.
RegisterTurn(p) ==
  /\ At(p, "started")
  /\ active' = [active EXCEPT ![key[p]] = tn[p]]
  /\ tn' = [tn EXCEPT ![p] = NoTurn]
  /\ Goto(p, "leave")
  /\ UNCHANGED <<lock, key, cand, h, cached, slots, open, phase, on, of, cancel>>

\* The agent has answered, was cancelled, or its process is gone.
TurnEnds(t) ==
  /\ phase[t] = "running"
  /\ phase' = [phase EXCEPT ![t] = "ended"]
  /\ UNCHANGED <<lock, pc, key, cand, h, tn, cached, slots, open, active, on, of, cancel>>

CloseTracked(t) ==
  /\ phase[t] = "ended" /\ \A p \in Procs : ~(At(p, "started") /\ tn[p] = t)
  /\ phase' = [phase EXCEPT ![t] = "closed"]
  /\ UNCHANGED <<lock, pc, key, cand, h, tn, cached, slots, open, active, on, of, cancel>>

\* A turn that nobody refers to any more is garbage.
Unregister(t) ==
  /\ phase[t] = "closed"
  /\ active' = [active EXCEPT ![of[t]] = NoTurn]
  /\ phase' = [phase EXCEPT ![t] = "none"]
  /\ on' = [on EXCEPT ![t] = NoHandle] /\ of' = [of EXCEPT ![t] = NoSession]
  /\ cancel' = [cancel EXCEPT ![t] = IF \E p \in Procs : tn[p] = t THEN @ ELSE "no"]
  /\ UNCHANGED <<lock, pc, key, cand, h, tn, cached, slots, open>>

-----------------------------------------------------------------------------
(* CancelSession and CloseSession.                                         *)

CancelSkipped(p) ==  \* mutant: the session is closed beside its turn
  /\ \/ Entered(p, "cancel") /\ active[key[p]] = NoTurn /\ Goto(p, "leave")
     \/ Entered(p, "close") /\ Goto(p, "closing")
  /\ UNCHANGED <<key, cand, h, tn, cached, slots, open, turns>>

\* Nothing to cancel.
CancelNothing(p) ==
  /\ \/ Entered(p, "cancel") /\ Goto(p, "leave")
     \/ Entered(p, "close") /\ Goto(p, "closing")
  /\ active[key[p]] = NoTurn
  /\ UNCHANGED <<key, cand, h, tn, cached, slots, open, turns>>

Await(p, t) ==
  /\ \/ Entered(p, "cancel") /\ Goto(p, "cancelling")
     \/ Entered(p, "close") /\ Goto(p, "cancellingToClose")
  /\ t # NoTurn
  /\ tn' = [tn EXCEPT ![p] = t]

\* The context of the turn is cancelled, the first one to come starts the goroutine
\* that asks the runtime, and everybody waits for its answer.
CancelActive(p) ==
  LET t == active[key[p]]
  IN /\ Await(p, t)
     /\ cancel' = [cancel EXCEPT ![t] = IF @ = "no" THEN "asked" ELSE @]
     /\ UNCHANGED <<key, cand, h, cached, slots, open, active, phase, on, of>>

\* runtime.Cancel answers.
CancelAnswers(t) ==
  /\ cancel[t] = "asked"
  /\ \E e \in {"ok", "failed"} : cancel' = [cancel EXCEPT ![t] = e]
  /\ UNCHANGED <<lock, pc, key, cand, h, tn, cached, slots, open, active, phase, on, of>>

Cancelled(p) ==
  LET answer == cancel[tn[p]]
  IN /\ \/ At(p, "cancelling") /\ answer \in {"ok", "failed"} /\ Goto(p, "leave")
        \/ At(p, "cancellingToClose") /\ answer = "failed" /\ Goto(p, "leave")
        \/ At(p, "cancellingToClose") /\ answer = "ok" /\ Goto(p, "closing")
     /\ tn' = [tn EXCEPT ![p] = NoTurn]
     /\ cancel' = [cancel EXCEPT ![tn[p]] = IF phase[tn[p]] = "none" THEN "no" ELSE @]
     /\ UNCHANGED <<lock, key, cand, h, cached, slots, open, active, phase, on, of>>

\* runtime.Close: it knows no such handle, closes it, or closes it and reports
\* an error all the same, upon which the handle stays in the cache.
CloseRuntime(p) ==
  LET x == cache[key[p]]
  IN /\ At(p, "closing")
     /\ Touch(key[p])
     /\ open' = open \ {x}
     /\ \/ x \in open /\ Goto(p, "clear")
        \/ Goto(p, "leave")
     /\ UNCHANGED <<lock, key, cand, h, tn, slots, turns>>

ClearCache(p) ==
  /\ At(p, "clear")
  /\ cache' = [cache EXCEPT ![key[p]] = NoHandle] /\ idle' = idle \ {key[p]}
  /\ Goto(p, "leave")
  /\ UNCHANGED <<lock, key, cand, h, tn, slots, open, turns>>

-----------------------------------------------------------------------------
Enter(p) ==
  \/ InitializeNothing(p) \/ AcquireSlot(p) \/ Ask(p) \/ TurnRefused(p) \/ RunTurn(p)
  \/ CancelNothing(p) \/ CancelActive(p)

Step(p) ==
  \/ \E s \in Sessions : EvictNext(p, s) \/ \E o \in Evicting : Enqueue(p, o, s)
  \/ EvictTake(p) \/ EvictClose(p) \/ Enter(p) \/ Return(p)
  \/ EnsureSession(p) \/ CacheHandle(p) \/ ReleaseSlot(p) \/ RegisterTurn(p)
  \/ Cancelled(p) \/ CloseRuntime(p) \/ ClearCache(p)

Next ==
  \/ \E s \in Sessions : Idles(s)
  \/ \E p \in Procs : Step(p) \/ CollectIdle(p) \/ \E o \in Direct, s \in Sessions : Enqueue(p, o, s)
  \/ \E t \in Turns : TurnEnds(t) \/ CloseTracked(t) \/ Unregister(t) \/ CancelAnswers(t)

Spec == Init /\ [][Next]_vars
-----------------------------------------------------------------------------
\* No more sessions than acp.max_concurrent_sessions, counting those that are
\* being initialized, although the slot is taken before the handle is cached and
\* given back after it (acquireSessionInitSlot).
Initializing == {p \in Procs : pc[p] \in {"ensure", "ensured"}}

WithinLimit ==
  MaxSessions > 0 => Cardinality(Registered) + Cardinality(Initializing) <= MaxSessions

\* A turn that has not ended for good is the one registered for its session, so
\* a session has one turn at a time and a cancel reaches it (RunTrackedTurn).
OneTurn ==
  \A t \in Turns :
    phase[t] # "none" =>
      \/ active[of[t]] = t
      \/ \E p \in Procs : At(p, "started") /\ tn[p] = t /\ key[p] = of[t] /\ active[of[t]] = NoTurn

\* Every agent process belongs to a session in the cache or is in the hands of a
\* goroutine that is about to put it there or to close it: none is lost.
NoOrphanRuntime ==
  \A x \in open :
    \/ \E s \in Sessions : cache[s] = x
    \/ \E p \in Procs : h[p] = x /\ pc[p] \in {"ensured", "evictClose"}

\* CloseSession never closes a runtime under a turn that it has not cancelled
\* with success ("Ensure any active turn is canceled before closing runtime
\* handle", 913).
CloseCancelsFirst ==
  [][\A p \in Procs, t \in Turns :
       pc[p] \in {"close", "closing"} /\ pc'[p] # pc[p] /\ phase[t] = "running" /\ on[t] \in open
         => on[t] \in open' \/ cancel[t] = "ok"]_vars
=============================================================================
