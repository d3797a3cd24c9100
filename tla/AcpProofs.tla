----------------------------- MODULE AcpProofs ------------------------------
(***************************************************************************)
(* Theorems about AcpThreads, for any number of messages and workers: a    *)
(* busy thread has somebody at work; what a thread does to its session is  *)
(* what AcpManager lets two goroutines per message do, so that what        *)
(* AcpManagerProofs proves of the manager holds under every thread; and a  *)
(* turn's events have one reader.  At the end, theorems about ActorQueue,  *)
(* which gives the manager its lock per session.                           *)
(***************************************************************************)
EXTENDS AcpThreads, ActorQueue, FiniteSetTheorems, TLAPS

Types ==
  /\ inbound \in [Messages -> {"new", "idle", "busy", "done"}]
  /\ run \in [Messages -> {"none", "starting", "calling", "reading", "refused", "over"}]
  /\ current \in Messages \cup {None} /\ queued \in Messages \cup {None}

\* A message whose handling is not through is in no entry yet.
HandledOnce == \A m \in Messages : inbound[m] # "done" => current # m /\ queued # m

\* So the message that waits is another one than the current one.
AnotherWaits == queued # None => queued # current

IInv == Types /\ HandledOnce /\ AnotherWaits /\ ThreadHasRunner

LEMMA NoneIsNoMessage == None \notin Messages
BY DEF None, Messages

LEMMA InitInv == Init => IInv
BY NoneIsNoMessage DEF Init, IInv, Types, HandledOnce, AnotherWaits, ThreadHasRunner

\* What does not touch the entry and lets runners run leaves the invariant alone.
LEMMA SameEntry ==
  ASSUME IInv, Types', UNCHANGED <<current, queued>>,
         \A m \in Messages : inbound[m] = "done" => inbound'[m] = "done",
         \A m \in Messages : m = current => (m \in Running => m \in Running')
  PROVE  IInv'
BY NoneIsNoMessage DEF IInv, HandledOnce, AnotherWaits, ThreadHasRunner, Types

LEMMA InboundSteps ==
  ASSUME IInv, NEW m \in Messages, Arrives(m) \/ BeginTurn(m) \/ QueueTurn(m)
  PROVE  IInv'
<1> USE NoneIsNoMessage DEF IInv, Types, HandledOnce, AnotherWaits, ThreadHasRunner
<1>1. CASE LookAtThread(m)
  BY <1>1, SameEntry DEF LookAtThread, entry, Taken, Running
<1>2. CASE InterruptTurn(m)
  BY <1>2 DEF InterruptTurn, Taken, entry, Running
<1>3. CASE BeginTurn(m)
  BY <1>3 DEF BeginTurn, Running
<1>4. CASE QueueTurn(m)
  BY <1>4 DEF QueueTurn, entry, Running
<1> QED BY <1>1, <1>2, <1>3, <1>4 DEF Arrives

LEMMA FinishKeeps ==
  ASSUME IInv, NEW m \in Messages, NEW o, Finish(m, o)
  PROVE  IInv'
<1> USE NoneIsNoMessage DEF IInv, Types, HandledOnce, AnotherWaits, ThreadHasRunner
<1>1. CASE current # m
  BY <1>1 DEF Finish, entry, Running
<1>2. CASE current = m
  BY <1>2 DEF Finish, Running
<1> QED BY <1>1, <1>2

LEMMA RunnerSteps ==
  ASSUME IInv, NEW m \in Messages,
         \/ CallCancel(m) \/ CancelStep(m)
         \/ CallTurn(m) \/ TurnStarts(m) \/ TurnStep(m) \/ TurnCallReturns(m)
         \/ FinishFailed(m) \/ FinishRead(m)
  PROVE  IInv'
<1>1. CASE CallTurn(m) \/ TurnCallReturns(m)
  <2>1. /\ UNCHANGED <<inbound, entry>>
        /\ \E l \in {"calling", "refused", "reading"} : run' = [run EXCEPT ![m] = l]
    BY <1>1 DEF CallTurn, TurnCallReturns
  <2> QED BY <2>1, SameEntry DEF IInv, Types, entry, Running
<1>2. CASE CallCancel(m) \/ CancelStep(m) \/ TurnStarts(m) \/ TurnStep(m)
  <2>1. UNCHANGED <<inbound, entry, run>>
    BY <1>2 DEF CallCancel, CancelStep, TurnStarts, TurnStep, thread
  <2> QED BY <2>1, SameEntry DEF IInv, Types, entry, Running
<1>3. CASE FinishFailed(m) \/ FinishRead(m)
  BY <1>3, FinishKeeps DEF FinishFailed, FinishRead
<1> QED BY <1>1, <1>2, <1>3

LEMMA NextInv == IInv /\ [Next]_vars => IInv'
<1> SUFFICES ASSUME IInv, [Next]_vars PROVE IInv'
  OBVIOUS
<1>1. ASSUME NEW m \in Messages, Arrives(m) \/ Goes(m) PROVE IInv'
  BY <1>1, InboundSteps, RunnerSteps DEF Goes
<1>2. ASSUME UNCHANGED <<inbound, entry, run>> PROVE IInv'
  BY <1>2, SameEntry DEF IInv, Types, entry, Running
<1>3. ASSUME NEW t \in Turns, EventsFlow(t) \/ TurnGoesOn(t) PROVE IInv'
  BY <1>3, <1>2 DEF EventsFlow, TurnEnds, ChannelCloses, TurnGoesOn, thread
<1>4. CASE M!Idles(Thread) /\ UNCHANGED thread
  BY <1>4, <1>2 DEF thread
<1>5. CASE UNCHANGED vars
  BY <1>5, <1>2 DEF vars, thread
<1> QED BY <1>1, <1>3, <1>4, <1>5 DEF Next, Proceeds

-----------------------------------------------------------------------------
\* The inductive invariant holds in every reachable state, and with it, whatever
\* the order in which messages are looked at, begun, queued and finished, a busy
\* thread has a goroutine that runs the turn of its current request.
THEOREM BusyThreadHasRunner == Spec => []ThreadHasRunner
<1>1. IInv => ThreadHasRunner
  BY DEF IInv
<1> QED BY <1>1, InitInv, NextInv, PTL DEF Spec

-----------------------------------------------------------------------------
LEMMA CallsOfCanceller ==
  ASSUME NEW m \in Messages, CallCancel(m) \/ CancelStep(m)
  PROVE  M!Next
<1>1. Canceller(m) \in Procs
  BY DEF Procs
<1>2. "cancel" \in M!Evicting
  BY DEF M!Evicting
<1>3. CASE CallCancel(m)
  BY <1>1, <1>3 DEF CallCancel, M!Next
<1>4. CASE CancelStep(m)
  <2>1. M!Step(Canceller(m))
    BY <1>2, <1>4 DEF CancelStep, M!Step, M!Enter
  <2> QED BY <1>1, <2>1 DEF M!Next
<1> QED BY <1>3, <1>4

LEMMA CallsOfRunner ==
  ASSUME NEW m \in Messages, CallTurn(m) \/ TurnStarts(m) \/ TurnStep(m) \/ TurnCallReturns(m)
  PROVE  M!Next
<1>1. Runner(m) \in Procs
  BY DEF Procs
<1>2. CASE CallTurn(m)
  <2>1. "turn" \in M!Direct
    BY DEF M!Direct
  <2> QED BY <1>1, <1>2, <2>1 DEF CallTurn, M!Next
<1>3. CASE TurnStarts(m) \/ TurnStep(m) \/ TurnCallReturns(m)
  <2>1. M!Step(Runner(m))
    BY <1>3 DEF TurnStarts, TurnStep, TurnCallReturns, M!Step, M!Enter
  <2> QED BY <1>1, <2>1 DEF M!Next
<1> QED BY <1>2, <1>3

LEMMA StepOfManager == [Next]_vars => M!Next \/ UNCHANGED manager
<1> SUFFICES ASSUME [Next]_vars PROVE M!Next \/ UNCHANGED manager
  OBVIOUS
<1>1. ASSUME NEW m \in Messages, Arrives(m) \/ BeginTurn(m) \/ QueueTurn(m) PROVE UNCHANGED manager
  BY <1>1 DEF Arrives, LookAtThread, InterruptTurn, BeginTurn, QueueTurn
<1>2. ASSUME NEW m \in Messages, FinishFailed(m) \/ FinishRead(m) PROVE UNCHANGED manager
  BY <1>2 DEF FinishFailed, FinishRead, Finish
<1>3. ASSUME NEW t \in Turns, EventsFlow(t) \/ TurnGoesOn(t) PROVE M!Next
  BY <1>3 DEF EventsFlow, TurnEnds, ChannelCloses, TurnGoesOn, M!Next
<1>4. CASE M!Idles(Thread) /\ UNCHANGED thread
  BY <1>4 DEF M!Next
<1>5. CASE UNCHANGED vars
  BY <1>5 DEF vars
<1> QED BY <1>1, <1>2, <1>3, <1>4, <1>5, CallsOfCanceller, CallsOfRunner DEF Next, Proceeds, Arrives, Goes

\* Every step of a thread is a step of AcpManager with the goroutines of its
\* messages, or none: the threads do to a session nothing that the manager's
\* callers could not do, from a session that has its runtime already.
THEOREM StepsOfTheManager == Spec => [][M!Next]_(M!vars)
<1>1. [Next]_vars => [M!Next]_(M!vars)
  BY StepOfManager DEF manager, M!vars, M!lock, M!cached, M!turns
<1> QED BY <1>1, PTL DEF Spec

-----------------------------------------------------------------------------
(* What is proved of the manager, for the sessions and goroutines of a     *)
(* thread.                                                                 *)
MP == INSTANCE AcpManagerProofs WITH Sessions <- {Thread}, MaxSessions <- 0

LEMMA ManagerConstants ==
  /\ IsFiniteSet({Thread}) /\ IsFiniteSet(Procs)
  /\ NoSession \notin {Thread} /\ NoHandle \notin Handles /\ NoTurn \notin Turns
  /\ 0 \in Nat
<1>1. IsFiniteSet(Messages) /\ IsFiniteSet({Thread})
  <2>1. 1 \in Int /\ Last \in Int
    BY AcpThreadsAssumption
  <2>2. IsFiniteSet(Messages)
    BY <2>1, FS_Interval DEF Messages
  <2> QED BY <2>2, FS_Singleton
<1>2. IsFiniteSet({"runs"} \cup {"cancels"})
  <2>1. IsFiniteSet({"runs"}) /\ IsFiniteSet({"cancels"})
    BY FS_Singleton
  <2> QED BY <2>1, FS_Union
<1>3. IsFiniteSet(Messages \X ({"runs"} \cup {"cancels"}))
  BY <1>1, <1>2, FS_Product
<1>4. Procs = Messages \X ({"runs"} \cup {"cancels"})
  BY DEF Procs, Runner, Canceller
<1> QED BY <1>1, <1>3, <1>4, AcpThreadsAssumption

LEMMA ManagerNext == MP!IInv /\ [MP!Next]_(MP!vars) => MP!IInv'
BY ManagerConstants, MP!NextInv DEF MP!IsFiniteSet, IsFiniteSet

LEMMA SameTypes == M!TypeOK <=> MP!TypeOK
BY DEF M!TypeOK, MP!TypeOK, M!Locations, MP!Locations, M!Registered, MP!Registered, M!Phases,
       MP!Phases, M!Ops, MP!Ops, M!Evicting, MP!Evicting, M!Direct, MP!Direct

LEMMA SameActions ==
  ASSUME NEW p
  PROVE  /\ \A s : M!EvictNext(p, s) <=> MP!EvictNext(p, s)
         /\ \A o, s : M!Enqueue(p, o, s) <=> MP!Enqueue(p, o, s)
         /\ (M!CollectIdle(p) <=> MP!CollectIdle(p)) /\ (M!EvictTake(p) <=> MP!EvictTake(p))
         /\ (M!EvictClose(p) <=> MP!EvictClose(p)) /\ (M!Return(p) <=> MP!Return(p))
         /\ (M!InitializeNothing(p) <=> MP!InitializeNothing(p)) /\ (M!AcquireSlot(p) <=> MP!AcquireSlot(p))
         /\ (M!Ask(p) <=> MP!Ask(p)) /\ (M!TurnRefused(p) <=> MP!TurnRefused(p))
         /\ (M!RunTurn(p) <=> MP!RunTurn(p)) /\ (M!CancelNothing(p) <=> MP!CancelNothing(p))
         /\ (M!CancelActive(p) <=> MP!CancelActive(p)) /\ (M!EnsureSession(p) <=> MP!EnsureSession(p))
         /\ (M!CacheHandle(p) <=> MP!CacheHandle(p)) /\ (M!ReleaseSlot(p) <=> MP!ReleaseSlot(p))
         /\ (M!RegisterTurn(p) <=> MP!RegisterTurn(p)) /\ (M!Cancelled(p) <=> MP!Cancelled(p))
         /\ (M!CloseRuntime(p) <=> MP!CloseRuntime(p)) /\ (M!ClearCache(p) <=> MP!ClearCache(p))
         /\ (M!TurnEnds(p) <=> MP!TurnEnds(p)) /\ (M!CloseTracked(p) <=> MP!CloseTracked(p))
         /\ (M!Unregister(p) <=> MP!Unregister(p)) /\ (M!CancelAnswers(p) <=> MP!CancelAnswers(p))
         /\ (M!Idles(p) <=> MP!Idles(p))
<1> USE DEF M!lock, MP!lock, M!cached, MP!cached, M!turns, MP!turns, M!At, MP!At, M!Goto, MP!Goto,
            M!Entered, MP!Entered, M!Touch, MP!Touch, M!Registered, MP!Registered, M!Lock!Request,
            MP!Lock!Request, M!Lock!Grant, MP!Lock!Grant, M!Lock!Release, MP!Lock!Release,
            M!Lock!Uninvolved, MP!Lock!Uninvolved
<1>1. \A s : M!EvictNext(p, s) <=> MP!EvictNext(p, s)
  BY DEF M!EvictNext, MP!EvictNext
<1>2. \A o, s : M!Enqueue(p, o, s) <=> MP!Enqueue(p, o, s)
  BY DEF M!Enqueue, MP!Enqueue, M!Evicting, MP!Evicting, M!Direct, MP!Direct
<1>3. M!CollectIdle(p) <=> MP!CollectIdle(p)
  BY DEF M!CollectIdle, MP!CollectIdle
<1>4. M!EvictTake(p) <=> MP!EvictTake(p)
  BY DEF M!EvictTake, MP!EvictTake
<1>5. M!EvictClose(p) <=> MP!EvictClose(p)
  BY DEF M!EvictClose, MP!EvictClose
<1>6. M!Return(p) <=> MP!Return(p)
  BY DEF M!Return, MP!Return
<1>7. M!InitializeNothing(p) <=> MP!InitializeNothing(p)
  BY DEF M!InitializeNothing, MP!InitializeNothing, M!Cardinality, MP!Cardinality,
         M!IsFiniteSet, MP!IsFiniteSet
<1>8. M!AcquireSlot(p) <=> MP!AcquireSlot(p)
  BY DEF M!AcquireSlot, MP!AcquireSlot, M!Cardinality, MP!Cardinality, M!IsFiniteSet, MP!IsFiniteSet
<1>9. M!Ask(p) <=> MP!Ask(p)
  BY DEF M!Ask, MP!Ask
<1>10. M!TurnRefused(p) <=> MP!TurnRefused(p)
  BY DEF M!TurnRefused, MP!TurnRefused
<1>11. M!RunTurn(p) <=> MP!RunTurn(p)
  BY DEF M!RunTurn, MP!RunTurn, M!StartTurn, MP!StartTurn, M!FreshTurns, MP!FreshTurns
<1>12. M!CancelNothing(p) <=> MP!CancelNothing(p)
  BY DEF M!CancelNothing, MP!CancelNothing
<1>13. M!CancelActive(p) <=> MP!CancelActive(p)
  BY DEF M!CancelActive, MP!CancelActive, M!Await, MP!Await
<1>14. M!EnsureSession(p) <=> MP!EnsureSession(p)
  BY DEF M!EnsureSession, MP!EnsureSession, M!FreshHandles, MP!FreshHandles
<1>15. M!CacheHandle(p) <=> MP!CacheHandle(p)
  BY DEF M!CacheHandle, MP!CacheHandle
<1>16. M!ReleaseSlot(p) <=> MP!ReleaseSlot(p)
  BY DEF M!ReleaseSlot, MP!ReleaseSlot
<1>17. M!RegisterTurn(p) <=> MP!RegisterTurn(p)
  BY DEF M!RegisterTurn, MP!RegisterTurn
<1>18. M!Cancelled(p) <=> MP!Cancelled(p)
  BY DEF M!Cancelled, MP!Cancelled
<1>19. M!CloseRuntime(p) <=> MP!CloseRuntime(p)
  BY DEF M!CloseRuntime, MP!CloseRuntime
<1>20. M!ClearCache(p) <=> MP!ClearCache(p)
  BY DEF M!ClearCache, MP!ClearCache
<1>21. M!TurnEnds(p) <=> MP!TurnEnds(p)
  BY DEF M!TurnEnds, MP!TurnEnds
<1>22. M!CloseTracked(p) <=> MP!CloseTracked(p)
  BY DEF M!CloseTracked, MP!CloseTracked
<1>23. M!Unregister(p) <=> MP!Unregister(p)
  BY DEF M!Unregister, MP!Unregister
<1>24. M!CancelAnswers(p) <=> MP!CancelAnswers(p)
  BY DEF M!CancelAnswers, MP!CancelAnswers
<1>25. M!Idles(p) <=> MP!Idles(p)
  BY DEF M!Idles, MP!Idles
<1> QED BY <1>1, <1>2, <1>3, <1>4, <1>5, <1>6, <1>7, <1>8, <1>9, <1>10, <1>11, <1>12, <1>13, <1>14,
           <1>15, <1>16, <1>17, <1>18, <1>19, <1>20, <1>21, <1>22, <1>23, <1>24, <1>25

LEMMA SameNext == M!Next => MP!Next
BY SameActions DEF M!Next, MP!Next, M!Step, MP!Step, M!Enter, MP!Enter, M!Evicting, MP!Evicting,
                   M!Direct, MP!Direct

LEMMA ManagerFrame == UNCHANGED manager => UNCHANGED MP!vars
BY DEF manager, MP!vars, MP!lock, MP!cached, MP!turns

\* A thread has its session initialized by somebody else.
LEMMA ManagerInit == Init => MP!IInv
<1> SUFFICES ASSUME Init PROVE MP!IInv
  OBVIOUS
<1> USE ManagerConstants DEF Init, M!InitWith, M!Lock!Init
<1>1. PICK x \in Handles : M!InitWith([s \in {Thread} |-> x])
  OBVIOUS
<1> USE <1>1
<1>2. MP!TypeOK /\ MP!KeyKept
  BY DEF MP!TypeOK, MP!KeyKept, MP!Registered, MP!Locations, MP!Ops, MP!Evicting, MP!Direct, MP!Phases,
         MP!Inside, MP!Queued
<1>3. MP!LockHeld /\ MP!StartedIsAlone /\ MP!OneTurn /\ MP!HandlesDistinct /\ MP!CacheWhileInside
      /\ MP!CancelledBeforeClosing
  BY DEF MP!LockHeld, MP!Inside, MP!StartedIsAlone, MP!OneTurn, MP!HandlesDistinct, MP!CacheWhileInside,
         MP!CancelledBeforeClosing, MP!Going, MP!At
<1>4. MP!NoOrphanRuntime
  BY DEF MP!NoOrphanRuntime
<1>5. MP!SlotsCounted /\ MP!WithinLimit
  BY DEF MP!SlotsCounted, MP!WithinLimit
<1> QED BY <1>2, <1>3, <1>4, <1>5 DEF MP!IInv

LEMMA ManagerStep == [Next]_vars => [MP!Next]_(MP!vars)
BY StepOfManager, SameNext, ManagerFrame

\* The inductive invariant of the manager holds under every thread.
LEMMA ManagerInvariance == Spec => []MP!IInv
<1>1. MP!IInv /\ [Next]_vars => MP!IInv'
  BY ManagerStep, ManagerNext
<1> QED BY <1>1, ManagerInit, PTL DEF Spec

\* The session of a thread has one turn at a time, which a cancellation finds,
\* however many messages supersede each other (runAcpThreadBindingTurn).
THEOREM ThreadTurnsSerialized == Spec => []M!OneTurn
<1>1. MP!IInv => M!OneTurn
  BY DEF MP!IInv, MP!OneTurn, M!OneTurn, MP!At, M!At
<1> QED BY <1>1, ManagerInvariance, PTL

\* Turns that start, are cancelled and evicted at any time lose no agent process.
THEOREM ThreadRuntimesOwned == Spec => []M!NoOrphanRuntime
<1>1. MP!IInv => M!NoOrphanRuntime
  BY DEF MP!IInv, MP!NoOrphanRuntime, M!NoOrphanRuntime
<1> QED BY <1>1, ManagerInvariance, PTL

-----------------------------------------------------------------------------
(* The types.                                                              *)
Fates == {"none", "lost", "untold", "superseded", "replied", "failed", "cancelled", "interrupts"}

ThreadTypes ==
  /\ kind \in [Messages -> {"text", "interrupt"}]
  /\ inbound \in [Messages -> {"new", "idle", "busy", "done"}]
  /\ current \in Messages \cup {None} /\ queued \in Messages \cup {None}
  /\ suppressed \in BOOLEAN /\ cancelling \in BOOLEAN
  /\ current = None => queued = None /\ ~suppressed /\ ~cancelling
  /\ run \in [Messages -> {"none", "starting", "calling", "reading", "refused", "over"}]
  /\ cancellers \subseteq Messages
  /\ events \in [Messages -> Turns \cup {NoTurn, "closed", "aborted"}]
  /\ fate \in [Messages -> Fates]

LEMMA ThreadTypesStep ==
  ASSUME ThreadTypes, tn' \in [Procs -> Turns \cup {NoTurn}], [Next]_vars
  PROVE  ThreadTypes'
<1> USE NoneIsNoMessage DEF ThreadTypes, entry
<1>1. ASSUME NEW m \in Messages, LookAtThread(m) PROVE ThreadTypes'
  BY <1>1 DEF LookAtThread
<1>2. ASSUME NEW m \in Messages, BeginTurn(m) PROVE ThreadTypes'
  BY <1>2 DEF BeginTurn
<1>3. ASSUME NEW m \in Messages, QueueTurn(m) PROVE ThreadTypes'
  <2>1. fate' \in [Messages -> Fates]
    BY <1>3 DEF QueueTurn, Supersede, Fates
  <2>2. /\ kind' = kind /\ run' = run /\ events' = events /\ cancellers' \subseteq Messages
        /\ inbound' = [inbound EXCEPT ![m] = "done"]
    BY <1>3 DEF QueueTurn, AskToCancel
  <2>3. CASE current = None
    <3>1. UNCHANGED <<current, queued, suppressed, cancelling>>
      BY <1>3, <2>3 DEF QueueTurn
    <3> QED BY <3>1, <2>1, <2>2, <2>3
  <2>4. CASE current # None
    <3>1. current' = current /\ queued' \in Messages \cup {None} /\ suppressed' = TRUE /\ cancelling' = TRUE
      BY <1>3, <2>4 DEF QueueTurn, AskToCancel
    <3> QED BY <3>1, <2>1, <2>2, <2>4
  <2> QED BY <2>3, <2>4
<1>4. ASSUME NEW m \in Messages, InterruptTurn(m) PROVE ThreadTypes'
  <2>1. fate' \in [Messages -> Fates]
    BY <1>4 DEF InterruptTurn, Supersede, Fates
  <2>2. /\ kind' = kind /\ run' = run /\ events' = events /\ cancellers' \subseteq Messages
        /\ inbound' = [inbound EXCEPT ![m] = "done"]
    BY <1>4 DEF InterruptTurn, AskToCancel
  <2>3. CASE current = None
    <3>1. UNCHANGED <<current, queued, suppressed, cancelling>>
      BY <1>4, <2>3 DEF InterruptTurn
    <3> QED BY <3>1, <2>1, <2>2, <2>3
  <2>4. CASE current # None
    <3>1. current' = current /\ queued' \in Messages \cup {None} /\ suppressed' = TRUE /\ cancelling' = TRUE
      BY <1>4, <2>4 DEF InterruptTurn, AskToCancel
    <3> QED BY <3>1, <2>1, <2>2, <2>4
  <2> QED BY <2>3, <2>4
<1>5. ASSUME NEW m \in Messages, CallCancel(m) \/ CancelStep(m) \/ TurnStep(m) PROVE ThreadTypes'
  BY <1>5 DEF CallCancel, CancelStep, TurnStep, thread
<1>6. ASSUME NEW m \in Messages, CallTurn(m) \/ TurnStarts(m) \/ TurnCallReturns(m) PROVE ThreadTypes'
  BY <1>6 DEF CallTurn, TurnStarts, TurnCallReturns, Procs
<1>7. ASSUME NEW m \in Messages, FinishFailed(m) \/ FinishRead(m) PROVE ThreadTypes'
  <2>1. PICK o \in {"failed", "replied", "cancelled"} : Finish(m, o)
    BY <1>7 DEF FinishFailed, FinishRead
  <2>2. fate' \in [Messages -> Fates]
    BY <2>1 DEF Finish, Fates
  <2>3. CASE current # m
    BY <2>1, <2>2, <2>3 DEF Finish, Fates
  <2>4. CASE current = m
    BY <2>1, <2>2, <2>4 DEF Finish, Fates
  <2> QED BY <2>3, <2>4
<1>8. ASSUME NEW t \in Turns, EventsFlow(t) \/ TurnGoesOn(t) PROVE ThreadTypes'
  BY <1>8 DEF EventsFlow, TurnEnds, ChannelCloses, TurnGoesOn, thread
<1>9. CASE UNCHANGED thread
  BY <1>9 DEF thread
<1> QED BY <1>1, <1>2, <1>3, <1>4, <1>5, <1>6, <1>7, <1>8, <1>9 DEF Next, Proceeds, Arrives, Goes, vars

LEMMA ThreadInvariance == Spec => [](MP!IInv /\ ThreadTypes)
<1>1. Init => ThreadTypes
  BY DEF Init, ThreadTypes, Fates
<1>2. MP!IInv' => tn' \in [Procs -> Turns \cup {NoTurn}]
  BY DEF MP!IInv, MP!TypeOK
<1>3. ThreadTypes /\ MP!IInv' /\ [Next]_vars => ThreadTypes'
  BY <1>2, ThreadTypesStep
<1> QED BY <1>1, <1>3, ManagerInvariance, PTL DEF Spec

\* The manager and the thread keep their types: an idle thread has nothing queued,
\* suppressed or being cancelled.
THEOREM TypeCorrect == Spec => []TypeOK
<1>1. MP!IInv /\ ThreadTypes => TypeOK
  BY SameTypes DEF MP!IInv, ThreadTypes, Fates, TypeOK
<1> QED BY <1>1, ThreadInvariance, PTL

-----------------------------------------------------------------------------
(* Who reads the events of a turn.                                         *)

\* A runner reads a turn that has not ended for good, and only one runner reads.
ReadAlone ==
  /\ \A m \in Messages : events[m] \in Turns => phase[events[m]] \in {"running", "ended"}
  /\ \A m, n \in Messages : events[m] \in Turns /\ events[n] \in Turns => m = n

LEMMA NoneReadsYet ==
  ASSUME MP!IInv, ThreadTypes, ReadAlone, NEW m \in Messages, TurnStarts(m)
  PROVE  \A n \in Messages : events[n] \notin Turns
<1> SUFFICES ASSUME NEW n \in Messages, events[n] \in Turns PROVE FALSE
  OBVIOUS
<1> DEFINE r == Runner(m)
           t == events[n]
<1>1. r \in Procs
  BY DEF Procs
<1>2. M!Entered(r, "turn") /\ active[key[r]] = NoTurn
  BY DEF TurnStarts, M!RunTurn
<1>3. pc[r] = "turn" /\ holders[key[r]] = {}
  BY <1>2 DEF M!Entered, M!At, M!Lock!Grant
<1>4. key[r] = Thread
  BY <1>1, <1>3 DEF MP!IInv, MP!KeyKept, MP!Queued, MP!Ops, MP!Direct
<1>5. of[t] = Thread /\ phase[t] # "none"
  BY DEF ReadAlone, MP!IInv, MP!StartedIsAlone, MP!Going
<1>6. \A p \in Procs : ~(pc[p] = "started" /\ key[p] = Thread)
  BY <1>3, <1>4 DEF MP!IInv, MP!LockHeld, MP!Inside
<1>7. active[Thread] = t
  BY <1>5, <1>6 DEF MP!IInv, MP!OneTurn, MP!At
<1> QED BY <1>2, <1>4, <1>7, AcpThreadsAssumption

LEMMA ReadAloneStep ==
  ASSUME MP!IInv, ThreadTypes, ReadAlone, [Next]_vars
  PROVE  ReadAlone'
<1> USE AcpThreadsAssumption DEF ThreadTypes
<1>0. phase \in [Turns -> M!Phases]
  BY DEF MP!IInv, MP!TypeOK, MP!Phases, M!Phases
<1>1. ASSUME UNCHANGED phase, \A m \in Messages : events'[m] \in {events[m], NoTurn} PROVE ReadAlone'
  BY <1>1 DEF ReadAlone
<1>2. ASSUME NEW m \in Messages, Arrives(m) \/ BeginTurn(m) \/ QueueTurn(m) PROVE ReadAlone'
  BY <1>1, <1>2 DEF Arrives, LookAtThread, InterruptTurn, BeginTurn, QueueTurn, manager
<1>3. ASSUME NEW m \in Messages, CallCancel(m) \/ CancelStep(m) PROVE ReadAlone'
  <2>1. UNCHANGED <<phase, events>>
    BY <1>3 DEF CallCancel, CancelStep, thread, M!CollectIdle, M!EvictNext, M!EvictTake, M!EvictClose,
                M!Enqueue, M!CancelNothing, M!CancelActive, M!Cancelled, M!Return, M!turns
  <2> QED BY <1>1, <2>1
<1>4. ASSUME NEW m \in Messages, CallTurn(m) \/ TurnStep(m) \/ TurnCallReturns(m) PROVE ReadAlone'
  <2>1. UNCHANGED <<phase, events>>
    BY <1>4 DEF CallTurn, TurnStep, TurnCallReturns, thread, M!Enqueue, M!TurnRefused, M!RegisterTurn,
                M!Return, M!turns
  <2> QED BY <1>1, <2>1
<1>5. ASSUME NEW m \in Messages, TurnStarts(m) PROVE ReadAlone'
  <2>1. PICK t \in Turns : phase' = [phase EXCEPT ![t] = "running"] /\ tn' = [tn EXCEPT ![Runner(m)] = t]
    BY <1>5 DEF TurnStarts, M!RunTurn, M!StartTurn, M!FreshTurns
  <2>2. tn'[Runner(m)] = t
    BY <2>1 DEF Procs, MP!IInv, MP!TypeOK
  <2>3. events' = [events EXCEPT ![m] = t]
    BY <1>5, <2>2 DEF TurnStarts
  <2>4. \A n \in Messages : events[n] \notin Turns
    BY <1>5, NoneReadsYet
  <2>5. \A n \in Messages : events'[n] \in Turns => n = m /\ events'[n] = t
    BY <2>3, <2>4
  <2> QED BY <1>0, <2>1, <2>5 DEF ReadAlone
<1>6. ASSUME NEW m \in Messages, FinishFailed(m) \/ FinishRead(m) PROVE ReadAlone'
  <2>1. UNCHANGED phase /\ events' = [events EXCEPT ![m] = NoTurn]
    BY <1>6 DEF FinishFailed, FinishRead, Finish, manager
  <2> QED BY <1>1, <2>1
<1>7. ASSUME NEW t \in Turns, TurnEnds(t) PROVE ReadAlone'
  BY <1>7, <1>0 DEF TurnEnds, M!TurnEnds, thread, ReadAlone
<1>8. ASSUME NEW t \in Turns, ChannelCloses(t) PROVE ReadAlone'
  <2>1. phase' = [phase EXCEPT ![t] = "closed"]
    BY <1>8 DEF ChannelCloses, M!CloseTracked
  <2>2. \A n \in Messages : events'[n] \in Turns => events'[n] = events[n] /\ events[n] # t
    BY <1>8 DEF ChannelCloses
  <2> QED BY <1>0, <2>1, <2>2 DEF ReadAlone
<1>9. ASSUME NEW t \in Turns, TurnGoesOn(t) PROVE ReadAlone'
  <2>1. /\ UNCHANGED events
        /\ UNCHANGED phase \/ (phase[t] = "closed" /\ phase' = [phase EXCEPT ![t] = "none"])
    BY <1>9 DEF TurnGoesOn, M!Unregister, M!CancelAnswers, thread
  <2> QED BY <1>0, <2>1 DEF ReadAlone
<1>10. CASE M!Idles(Thread) /\ UNCHANGED thread
  BY <1>1, <1>10 DEF M!Idles, thread, M!turns
<1>11. CASE UNCHANGED vars
  BY <1>1, <1>11 DEF vars, thread, manager
<1> QED BY <1>2, <1>3, <1>4, <1>5, <1>6, <1>7, <1>8, <1>9, <1>10, <1>11
        DEF Next, Proceeds, EventsFlow, Goes

\* One runner at a time reads the events of a turn (the loop over EventChan of
\* runAcpThreadBindingTurn): whichever turns are superseded, cancelled or left to
\* themselves, no two replies to one thread are put together at once.
THEOREM RepliesApart == Spec => []ReadAlone
<1>1. Init => ReadAlone
  BY AcpThreadsAssumption DEF Init, ReadAlone
<1> QED BY <1>1, ReadAloneStep, ThreadInvariance, PTL DEF Spec

-----------------------------------------------------------------------------
(* ActorQueue, for any finite set of goroutines and any sessions and       *)
(* channels.                                                               *)

USE ActorQueueAssumption

\* The goroutines inside one Run, or inside any, are finitely many.
LEMMA InsideFinite ==
  /\ \A k : IsFiniteSet(Inside(k))
  /\ IsFiniteSet({p \in Callers : stage[p] # "idle"})
BY FS_Subset DEF Inside

\* The invariant holds in the initial states.
LEMMA InitQueueInv == QueueInit => QueueInv
<1> SUFFICES ASSUME QueueInit PROVE QueueInv
  OBVIOUS
<1>1. QueueTypeOK
  BY DEF QueueInit, QueueTypeOK, Locations
<1>2. /\ \A k \in Keys : Inside(k) = {}
      /\ {p \in Callers : stage[p] # "idle"} = {}
  BY DEF QueueInit, Inside
<1>3. CountsExact /\ pendingCount = Cardinality({p \in Callers : stage[p] # "idle"})
  BY <1>2, FS_EmptySet DEF QueueInit, CountsExact
<1>4. SameChannel /\ TokenOrHolder /\ MutualExclusion
  BY DEF QueueInit, SameChannel, TokenOrHolder, MutualExclusion
<1>. QED  BY <1>1, <1>3, <1>4 DEF QueueInv

\* Every step of Run preserves the invariant.
LEMMA NextQueueInv == QueueInv /\ [QueueNext]_queueVars => QueueInv'
<1> SUFFICES ASSUME QueueInv, [QueueNext]_queueVars PROVE QueueInv'
  OBVIOUS
<1> USE DEF QueueInv
<1>1. ASSUME NEW p \in Callers, NEW k \in Keys, Enter(p, k) PROVE QueueInv'
  <2> PICK c \in Chans :
        /\ IF queues[k] = NoChan
           THEN Fresh(c) /\ token' = [token EXCEPT ![c] = 1]
           ELSE c = queues[k] /\ UNCHANGED token
        /\ queues' = [queues EXCEPT ![k] = c]
        /\ queue' = [queue EXCEPT ![p] = c]
    BY <1>1 DEF Enter
  <2> /\ stage[p] = "idle"
      /\ pendingByKey' = [pendingByKey EXCEPT ![k] = @ + 1]
      /\ pendingCount' = pendingCount + 1
      /\ session' = [session EXCEPT ![p] = k]
      /\ stage' = [stage EXCEPT ![p] = "waiting"]
    BY <1>1 DEF Enter
  <2>1. QueueTypeOK'
    BY DEF QueueTypeOK, Locations
  <2>2. /\ Inside(k)' = Inside(k) \cup {p}
        /\ p \notin Inside(k)
        /\ \A j \in Keys \ {k} : Inside(j)' = Inside(j)
        /\ {r \in Callers : stage[r] # "idle"}' = {r \in Callers : stage[r] # "idle"} \cup {p}
        /\ p \notin {r \in Callers : stage[r] # "idle"}
    BY DEF QueueTypeOK, Inside
  <2>3. /\ Cardinality(Inside(k)') = Cardinality(Inside(k)) + 1
        /\ Cardinality({r \in Callers : stage[r] # "idle"}') = Cardinality({r \in Callers : stage[r] # "idle"}) + 1
    BY <2>2, InsideFinite, FS_AddElement
  <2>4. CountsExact' /\ (pendingCount = Cardinality({r \in Callers : stage[r] # "idle"}))'
    BY <2>2, <2>3 DEF QueueTypeOK, CountsExact
  <2>5. SameChannel'
    BY DEF SameChannel, QueueTypeOK, Fresh
  <2>6. MutualExclusion'
    BY DEF MutualExclusion, QueueTypeOK
  <2>7. TokenOrHolder'
    BY DEF TokenOrHolder, QueueTypeOK, SameChannel, Fresh
  <2>. QED  BY <2>1, <2>4, <2>5, <2>6, <2>7
<1>2. ASSUME NEW p \in Callers, Acquire(p) PROVE QueueInv'
  <2> USE <1>2 DEF Acquire
  <2>1. QueueTypeOK'
    BY DEF QueueTypeOK, Locations, SameChannel
  <2>2. /\ \A k \in Keys : Inside(k)' = Inside(k)
        /\ {r \in Callers : stage[r] # "idle"}' = {r \in Callers : stage[r] # "idle"}
    BY DEF QueueTypeOK, Inside
  <2>3. CountsExact' /\ (pendingCount = Cardinality({r \in Callers : stage[r] # "idle"}))'
    BY <2>2 DEF CountsExact
  <2>4. SameChannel'
    BY DEF SameChannel, QueueTypeOK
  <2>5. \A r \in Callers : ~(stage[r] = "running" /\ session[r] = session[p])
    BY DEF QueueTypeOK, SameChannel, TokenOrHolder
  <2>6. MutualExclusion'
    BY <2>5 DEF MutualExclusion, QueueTypeOK
  <2>7. TokenOrHolder'
    BY DEF TokenOrHolder, QueueTypeOK, SameChannel
  <2>. QED  BY <2>1, <2>3, <2>4, <2>6, <2>7
<1>3. ASSUME NEW p \in Callers, GiveBack(p) PROVE QueueInv'
  <2> USE <1>3 DEF GiveBack
  <2>1. QueueTypeOK'
    BY DEF QueueTypeOK, Locations, SameChannel
  <2>2. /\ \A k \in Keys : Inside(k)' = Inside(k)
        /\ {r \in Callers : stage[r] # "idle"}' = {r \in Callers : stage[r] # "idle"}
    BY DEF QueueTypeOK, Inside
  <2>3. CountsExact' /\ (pendingCount = Cardinality({r \in Callers : stage[r] # "idle"}))'
    BY <2>2 DEF CountsExact
  <2>4. SameChannel'
    BY DEF SameChannel, QueueTypeOK
  <2>5. MutualExclusion'
    BY DEF MutualExclusion, QueueTypeOK
  <2>6. TokenOrHolder'
    BY DEF TokenOrHolder, QueueTypeOK, SameChannel, MutualExclusion
  <2>. QED  BY <2>1, <2>3, <2>4, <2>5, <2>6
<1>4. ASSUME NEW p \in Callers, Uncount(p) PROVE QueueInv'
  <2> DEFINE k == session[p]
             left == IF pendingByKey[k] > 0 THEN pendingByKey[k] - 1 ELSE 0
  <2> k \in Keys
    BY DEF QueueTypeOK
  <2> /\ stage[p] = "releasing"
      /\ pendingByKey' = [pendingByKey EXCEPT ![k] = left]
      /\ queues' = IF left = 0 THEN [queues EXCEPT ![k] = NoChan] ELSE queues
      /\ pendingCount' = pendingCount - 1
      /\ stage' = [stage EXCEPT ![p] = "idle"]
      /\ UNCHANGED <<token, session, queue>>
    BY <1>4 DEF Uncount
  <2>1. /\ Inside(k)' = Inside(k) \ {p}
        /\ p \in Inside(k)
        /\ \A j \in Keys \ {k} : Inside(j)' = Inside(j)
        /\ {r \in Callers : stage[r] # "idle"}' = {r \in Callers : stage[r] # "idle"} \ {p}
        /\ p \in {r \in Callers : stage[r] # "idle"}
    BY DEF QueueTypeOK, Inside
  <2>2. /\ Cardinality(Inside(k)') = Cardinality(Inside(k)) - 1
        /\ Cardinality({r \in Callers : stage[r] # "idle"}') = Cardinality({r \in Callers : stage[r] # "idle"}) - 1
    BY <2>1, InsideFinite, FS_RemoveElement
  <2>3. /\ pendingByKey[k] = Cardinality(Inside(k))
        /\ Cardinality(Inside(k)) \in Nat
        /\ Cardinality(Inside(k)) # 0
        /\ pendingCount = Cardinality({r \in Callers : stage[r] # "idle"})
        /\ pendingCount \in Nat
        /\ pendingCount # 0
    BY <2>1, InsideFinite, FS_EmptySet, FS_CardinalityType DEF CountsExact
  <2>4. left = pendingByKey[k] - 1
    BY <2>3
  <2>5. left = 0 <=> Inside(k)' = {}
    <3>1. Inside(k)' = Inside(k) \ {p} /\ IsFiniteSet(Inside(k) \ {p})
      BY <2>1, InsideFinite, FS_RemoveElement
    <3>. QED  BY <3>1, <2>2, <2>3, <2>4, FS_EmptySet
  <2>6. QueueTypeOK'
    BY <2>3, <2>4 DEF QueueTypeOK, Locations
  <2>7. CountsExact' /\ (pendingCount = Cardinality({r \in Callers : stage[r] # "idle"}))'
    BY <2>1, <2>2, <2>3, <2>4 DEF QueueTypeOK, CountsExact
  <2>8. SameChannel'
    BY <2>5 DEF SameChannel, QueueTypeOK, Inside
  <2>9. MutualExclusion'
    BY DEF MutualExclusion, QueueTypeOK
  <2>10. TokenOrHolder'
    BY DEF TokenOrHolder, QueueTypeOK
  <2>. QED  BY <2>6, <2>7, <2>8, <2>9, <2>10
<1>5. CASE UNCHANGED queueVars
  BY <1>5 DEF queueVars, QueueTypeOK, CountsExact, Inside, SameChannel, TokenOrHolder, MutualExclusion
<1>. QED  BY <1>1, <1>2, <1>3, <1>4, <1>5 DEF QueueNext

\* The inductive invariant of ActorQueue.Run.
THEOREM QueueInvariance == QueueSpec => []QueueInv
BY InitQueueInv, NextQueueInv, PTL DEF QueueSpec

\* The maps, the tokens and the goroutines keep their types: a channel has one
\* token at most, and no count of ActorQueue goes below zero.
THEOREM QueueTypeCorrect == QueueSpec => []QueueTypeOK
<1>1. QueueInv => QueueTypeOK
  BY DEF QueueInv
<1>. QED  BY QueueInvariance, <1>1, PTL

\* Two operations of one session never overlap, whatever the number of callers
\* and however often the session's channel is deleted and created again.
THEOREM SessionsSerialized == QueueSpec => []MutualExclusion
<1>1. QueueInv => MutualExclusion
  BY DEF QueueInv
<1>. QED  BY QueueInvariance, <1>1, PTL

\* The maps of the queue hold a session exactly while somebody is inside Run for
\* it, and GetTotalPendingCount reports the number of calls under way.
THEOREM NothingLeft == QueueSpec => []NoLeftovers
<1>1. QueueInv => NoLeftovers
  BY DEF QueueInv, NoLeftovers, SameChannel, Inside, QueueTypeOK
<1>. QED  BY QueueInvariance, <1>1, PTL

\* A step that moves one goroutine inside Run, or into it, changes the sets of
\* waiting and running goroutines at one session only.
LEMMA MoveAt ==
  ASSUME QueueTypeOK, NEW p \in Callers, NEW k \in Keys, NEW l \in Locations, NEW m \in Locations,
         l # "idle",
         stage' = [stage EXCEPT ![p] = m],
         session' = [session EXCEPT ![p] = k],
         stage[p] # "idle" => session[p] = k
  PROVE  /\ l = m => At(l)' = [At(l) EXCEPT ![k] = At(l)[k] \cup {p}]
         /\ l # m /\ l = stage[p] => At(l)' = [At(l) EXCEPT ![k] = At(l)[k] \ {p}]
         /\ l # m /\ l # stage[p] => At(l)' = At(l)
<1> \A r \in Callers : /\ stage'[r] = IF r = p THEN m ELSE stage[r]
                     /\ session'[r] = IF r = p THEN k ELSE session[r]
  BY DEF QueueTypeOK
<1> session[p] \in Keys
  BY DEF QueueTypeOK
<1> DEFINE S(j) == {r \in Callers : stage[r] = l /\ session[r] = j}
           T(j) == {r \in Callers : stage'[r] = l /\ session'[r] = j}
<1>a. \A j \in Keys : At(l)[j] = S(j) /\ At(l)'[j] = T(j)
  BY DEF At
<1>b. At(l) = [j \in Keys |-> At(l)[j]] /\ At(l)' = [j \in Keys |-> At(l)'[j]]
  BY DEF At
<1>1. CASE l = m
  <2>1. \A j \in Keys : T(j) = IF j = k THEN S(j) \cup {p} ELSE S(j)
    BY <1>1
  <2>. HIDE DEF S, T
  <2>. QED  BY <1>1, <1>a, <1>b, <2>1
<1>2. CASE l # m /\ l = stage[p]
  <2>1. \A j \in Keys : T(j) = IF j = k THEN S(j) \ {p} ELSE S(j)
    BY <1>2
  <2>. HIDE DEF S, T
  <2>. QED  BY <1>2, <1>a, <1>b, <2>1
<1>3. CASE l # m /\ l # stage[p]
  <2>1. \A j \in Keys : T(j) = S(j)
    BY <1>3
  <2>. HIDE DEF S, T
  <2>. QED  BY <1>3, <1>a, <1>b, <2>1
<1>. QED  BY <1>1, <1>2, <1>3

\* Run implements one lock per session: each step of it is a step of SessionLock
\* or changes nothing SessionLock can see.
THEOREM ImplementsSessionLock == QueueSpec => IsSessionLock
<1>1. QueueInit => Lock!Init
  BY DEF QueueInit, Lock!Init, At
<1>2. QueueInv /\ [QueueNext]_queueVars => [Lock!Next]_(Lock!vars)
  <2> SUFFICES ASSUME QueueInv, [QueueNext]_queueVars PROVE Lock!Next \/ UNCHANGED Lock!vars
    OBVIOUS
  <2> QueueTypeOK /\ Locations = {"idle", "waiting", "running", "releasing"}
    BY DEF QueueInv, Locations
  <2> /\ "idle" # "waiting" /\ "idle" # "running" /\ "idle" # "releasing"
      /\ "waiting" # "running" /\ "waiting" # "releasing" /\ "running" # "releasing"
    OBVIOUS
  <2>1. ASSUME NEW p \in Callers, NEW k \in Keys, Enter(p, k) PROVE Lock!Request(p, k)
    <3>1. /\ stage[p] = "idle"
          /\ stage' = [stage EXCEPT ![p] = "waiting"]
          /\ session' = [session EXCEPT ![p] = k]
          /\ "waiting" \in Locations
      BY <2>1 DEF Enter, Locations
    <3>2. At("waiting")' = [At("waiting") EXCEPT ![k] = At("waiting")[k] \cup {p}]
      BY <3>1, MoveAt
    <3>3. At("running")' = At("running")
      BY <3>1, MoveAt
    <3>4. \A j \in Keys : p \notin At("waiting")[j] \cup At("running")[j]
      BY <3>1 DEF At
    <3>. QED  BY <3>2, <3>3, <3>4 DEF Lock!Request, Lock!Uninvolved
  <2>2. ASSUME NEW p \in Callers, NEW k \in Keys, session[p] = k, Acquire(p) PROVE Lock!Grant(p, k)
    <3>1. /\ stage[p] = "waiting"
          /\ stage' = [stage EXCEPT ![p] = "running"]
          /\ session' = [session EXCEPT ![p] = k]
          /\ "running" \in Locations
      BY <2>2 DEF Acquire, Locations, QueueTypeOK
    <3>2. At("waiting")' = [At("waiting") EXCEPT ![k] = At("waiting")[k] \ {p}]
      BY <2>2, <3>1, MoveAt
    <3>3. At("running")' = [At("running") EXCEPT ![k] = At("running")[k] \cup {p}]
      BY <2>2, <3>1, MoveAt
    <3>4. \A r \in Callers : ~(stage[r] = "running" /\ session[r] = k)
      BY <2>2 DEF Acquire, SameChannel, TokenOrHolder, QueueInv, QueueTypeOK
    <3>5. p \in At("waiting")[k] /\ At("running")[k] = {}
      BY <2>2, <3>1, <3>4 DEF At
    <3>6. At("running")' = [At("running") EXCEPT ![k] = {p}]
      BY <3>3, <3>5
    <3>. QED  BY <3>2, <3>5, <3>6 DEF Lock!Grant
  <2>3. ASSUME NEW p \in Callers, NEW k \in Keys, session[p] = k, GiveBack(p) PROVE Lock!Release(p, k)
    <3>1. /\ stage[p] = "running"
          /\ stage' = [stage EXCEPT ![p] = "releasing"]
          /\ session' = [session EXCEPT ![p] = k]
          /\ "releasing" \in Locations
      BY <2>3 DEF GiveBack, Locations, QueueTypeOK
    <3>2. At("waiting")' = At("waiting")
      BY <2>3, <3>1, MoveAt
    <3>3. At("running")' = [At("running") EXCEPT ![k] = At("running")[k] \ {p}]
      BY <2>3, <3>1, MoveAt
    <3>4. p \in At("running")[k]
      BY <2>3, <3>1 DEF At
    <3>. QED  BY <3>2, <3>3, <3>4 DEF Lock!Release
  <2>4. ASSUME NEW p \in Callers, NEW k \in Keys, session[p] = k, Uncount(p) PROVE UNCHANGED Lock!vars
    <3>1. /\ stage[p] = "releasing"
          /\ stage' = [stage EXCEPT ![p] = "idle"]
          /\ session' = [session EXCEPT ![p] = k]
          /\ "idle" \in Locations
      BY <2>4 DEF Uncount, Locations, QueueTypeOK
    <3>2. At("waiting")' = At("waiting") /\ At("running")' = At("running")
      BY <2>4, <3>1, MoveAt
    <3>. QED  BY <3>2 DEF Lock!vars
  <2>5. CASE UNCHANGED queueVars
    BY <2>5 DEF queueVars, Lock!vars, At
  <2>6. CASE QueueNext
    <3> PICK p \in Callers : (\E j \in Keys : Enter(p, j)) \/ Acquire(p) \/ GiveBack(p) \/ Uncount(p)
      BY <2>6 DEF QueueNext
    <3>1. PICK k \in Keys : session[p] = k
      BY DEF QueueTypeOK
    <3>. QED  BY <2>1, <2>2, <2>3, <2>4, <3>1 DEF Lock!Next
  <2>. QED  BY <2>5, <2>6
<1>. QED  BY <1>1, <1>2, QueueInvariance, PTL DEF QueueSpec, IsSessionLock, Lock!Spec
=============================================================================
