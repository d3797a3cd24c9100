----------------------------- MODULE AcpThreads -----------------------------
(***************************************************************************)
(* A chat thread bound to an ACP session (internal/core/agent/             *)
(* acp_thread_control.go, manager.go:1821-1916): the messages of the       *)
(* thread become turns of the session, one at a time.  A message that      *)
(* comes while a turn is running supersedes it: the turn is cancelled, its *)
(* reply suppressed, and the message queued, where a newer one replaces    *)
(* it; an interrupt cancels and empties the queue.  Turns and              *)
(* cancellations are goroutines of their own that call the ACP manager,    *)
(* and AcpManager is where their calls are modelled: each message may have *)
(* one goroutine that runs its turn and one that cancels.                  *)
(***************************************************************************)
EXTENDS Integers, FiniteSets

CONSTANTS
  Last,     \* messages are numbered from 1 to Last in the order of their arrival
  Workers,  \* effectiveInboundWorkers: messages handled at once
  Thread,   \* the session the thread is bound to
  Handles, Turns, NoSession, NoHandle, NoTurn

ASSUME AcpThreadsAssumption ==
  /\ Last \in Nat /\ Workers \in Nat \ {0}
  /\ NoSession # Thread /\ NoHandle \notin Handles /\ NoTurn \notin Turns
  /\ Turns \cap {"closed", "aborted"} = {}

VARIABLES
  waiting, holders, pc, key, cand, h, tn, cache, idle, slots, open, active, phase, on, of, cancel,
  kind,        \* kind[m]: a text, or an interrupt
  inbound,     \* where the handling of each message is
  current,     \* the request the thread works on; None: no entry in acpThreadRuns
  suppressed, queued, cancelling,  \* the other fields of the entry
  run,         \* where the goroutine that runs the turn of each message is
  cancellers,  \* the messages whose cancelling goroutine has yet to call the manager
  events,      \* the turn whose events the runner of a message is given
  fate         \* history: what became of each message

manager == <<waiting, holders, pc, key, cand, h, tn, cache, idle, slots, open, active, phase, on, of, cancel>>
entry == <<current, suppressed, queued, cancelling>>
thread == <<kind, inbound, entry, run, cancellers, events, fate>>
vars == <<manager, thread>>

Messages == 1 .. Last
None == 0

Runner(m) == <<m, "runs">>
Canceller(m) == <<m, "cancels">>
Procs == {Runner(m) : m \in Messages} \cup {Canceller(m) : m \in Messages}

M == INSTANCE AcpManager WITH Sessions <- {Thread}, MaxSessions <- 0

Running == {m \in Messages : run[m] \in {"starting", "calling", "reading", "refused"}}

TypeOK ==
  /\ M!TypeOK
  /\ kind \in [Messages -> {"text", "interrupt"}]
  /\ inbound \in [Messages -> {"new", "idle", "busy", "done"}]
  /\ current \in Messages \cup {None} /\ queued \in Messages \cup {None}
  /\ suppressed \in BOOLEAN /\ cancelling \in BOOLEAN
  /\ current = None => queued = None /\ ~suppressed /\ ~cancelling
  /\ run \in [Messages -> {"none", "starting", "calling", "reading", "refused", "over"}]
  /\ cancellers \subseteq Messages
  /\ events \in [Messages -> Turns \cup {NoTurn, "closed", "aborted"}]
  /\ fate \in [Messages -> {"none", "lost", "untold", "superseded", "replied", "failed", "cancelled", "interrupts"}]

Init ==
  /\ \E x \in Handles : M!InitWith([s \in {Thread} |-> x])
  /\ kind \in [Messages -> {"text", "interrupt"}]
  /\ inbound = [m \in Messages |-> "new"]
  /\ current = None /\ queued = None /\ suppressed = FALSE /\ cancelling = FALSE
  /\ run = [m \in Messages |-> "none"]
  /\ cancellers = {}
  /\ events = [m \in Messages |-> NoTurn]
  /\ fate = [m \in Messages |-> "none"]

-----------------------------------------------------------------------------
(* The inbound workers: enqueueAcpThreadTurn and handleAcpThreadInterrupt. *)
Taken(m) ==
  /\ inbound[m] = "new" /\ \A n \in Messages : n < m => inbound[n] # "new"
  /\ Cardinality({n \in Messages : inbound[n] \in {"idle", "busy"}}) < Workers

\* Is the thread idle?  The lock is given up with the answer.
LookAtThread(m) ==
  /\ kind[m] = "text" /\ Taken(m)
  /\ inbound' = [inbound EXCEPT ![m] = IF current = None THEN "idle" ELSE "busy"]
  /\ UNCHANGED <<manager, kind, entry, run, cancellers, events, fate>>

\* beginAcpThreadTurn, and the goroutine that runs the turn.
BeginTurn(m) ==
  /\ inbound[m] = "idle"
  /\ inbound' = [inbound EXCEPT ![m] = "done"]
  /\ current' = m /\ suppressed' = FALSE /\ cancelling' = FALSE
  /\ run' = [run EXCEPT ![m] = "starting"]
  /\ UNCHANGED <<manager, kind, queued, cancellers, events, fate>>

Supersede(f, m) == IF m = None THEN f ELSE [f EXCEPT ![m] = "superseded"]

\* The first one to supersede or interrupt the current turn has it cancelled.
AskToCancel(m) ==
  /\ cancelling' = TRUE
  /\ cancellers' = IF cancelling THEN cancellers ELSE cancellers \cup {m}

QueueTurnAnyway(m) ==  \* mutant: a missing entry is created, as beginAcpThreadTurn does
  /\ inbound[m] = "busy"
  /\ inbound' = [inbound EXCEPT ![m] = "done"]
  /\ suppressed' = (current # None) /\ queued' = m
  /\ fate' = Supersede(fate, queued)
  /\ AskToCancel(m)
  /\ UNCHANGED <<manager, kind, current, run, events>>

\* queueAcpThreadTurn: the thread has become idle in between and the message is
\* lost, or it waits in place of the one that waited before.
QueueTurn(m) ==
  /\ inbound[m] = "busy"
  /\ inbound' = [inbound EXCEPT ![m] = "done"]
  /\ \/ /\ current = None
        /\ fate' = [fate EXCEPT ![m] = "lost"]
        /\ UNCHANGED <<entry, cancellers>>
     \/ /\ current # None
        /\ suppressed' = TRUE /\ queued' = m
        /\ fate' = Supersede(fate, queued)
        /\ AskToCancel(m)
        /\ UNCHANGED current
  /\ UNCHANGED <<manager, kind, run, events>>

InterruptTurn(m) ==
  /\ kind[m] = "interrupt" /\ Taken(m)
  /\ inbound' = [inbound EXCEPT ![m] = "done"]
  /\ \/ /\ current = None
        /\ fate' = [fate EXCEPT ![m] = "interrupts"]
        /\ UNCHANGED <<entry, cancellers>>
     \/ /\ current # None
        /\ suppressed' = TRUE /\ queued' = None
        /\ fate' = [Supersede(fate, queued) EXCEPT ![m] = "interrupts"]
        /\ AskToCancel(m)
        /\ UNCHANGED current
  /\ UNCHANGED <<manager, kind, run, events>>

-----------------------------------------------------------------------------
(* cancelAcpThreadTurn: the goroutine calls CancelSession.                 *)
CallCancel(m) ==
  /\ m \in cancellers /\ M!CollectIdle(Canceller(m))
  /\ cancellers' = cancellers \ {m}
  /\ UNCHANGED <<kind, inbound, entry, run, events, fate>>

CancelStep(m) ==
  LET c == Canceller(m)
  IN /\ \/ M!EvictNext(c, Thread) \/ M!EvictTake(c) \/ M!EvictClose(c)
        \/ M!Enqueue(c, "cancel", Thread)
        \/ M!CancelNothing(c) \/ M!CancelActive(c) \/ M!Cancelled(c) \/ M!Return(c)
     /\ UNCHANGED thread

(* runAcpThreadBindingTurn: the goroutine calls RunTrackedTurn.            *)
CallTurn(m) ==
  /\ run[m] = "starting" /\ M!Enqueue(Runner(m), "turn", Thread)
  /\ run' = [run EXCEPT ![m] = "calling"]
  /\ UNCHANGED <<kind, inbound, entry, cancellers, events, fate>>

TurnStarts(m) ==
  /\ M!RunTurn(Runner(m))
  /\ events' = [events EXCEPT ![m] = tn'[Runner(m)]]
  /\ UNCHANGED <<kind, inbound, entry, run, cancellers, fate>>

TurnStep(m) ==
  /\ M!TurnRefused(Runner(m)) \/ M!RegisterTurn(Runner(m))
  /\ UNCHANGED thread

TurnCallReturns(m) ==
  /\ M!Return(Runner(m))
  /\ run' = [run EXCEPT ![m] = IF events[m] = NoTurn THEN "refused" ELSE "reading"]
  /\ UNCHANGED <<kind, inbound, entry, cancellers, events, fate>>

\* The tracker closes the channel that the runner of m reads.  A turn that was
\* cancelled may say so at its end, or be through all the same.
ChannelCloses(t) ==
  /\ M!CloseTracked(t)
  /\ \E end \in {"closed"} \cup (IF cancel[t] = "no" THEN {} ELSE {"aborted"}) :
       events' = [m \in Messages |-> IF events[m] = t THEN end ELSE events[m]]
  /\ UNCHANGED <<kind, inbound, entry, run, cancellers, fate>>

TurnEnds(t) == M!TurnEnds(t) /\ UNCHANGED thread

TurnGoesOn(t) ==
  /\ M!Unregister(t) \/ M!CancelAnswers(t)
  /\ UNCHANGED thread

FinishForgetsNext(m, o) ==  \* mutant: the turn that waited becomes the current one, and nobody runs it
  /\ \/ current # m /\ fate' = [fate EXCEPT ![m] = "untold"] /\ UNCHANGED entry
     \/ /\ current = m
        /\ fate' = [fate EXCEPT ![m] = IF suppressed THEN "superseded" ELSE o]
        /\ current' = queued /\ queued' = None
        /\ suppressed' = FALSE /\ cancelling' = FALSE
  /\ run' = [run EXCEPT ![m] = "over"]
  /\ events' = [events EXCEPT ![m] = NoTurn]
  /\ UNCHANGED <<manager, kind, inbound, cancellers>>

\* finishAcpThreadTurn for the request of m, and what is made of the outcome o: it
\* is told, or suppressed, or the entry is another turn's by now and says nothing
\* of it.  The message that waits gets its turn.
Finish(m, o) ==
  LET next == IF current = m THEN queued ELSE None
  IN /\ \/ /\ current # m
           /\ fate' = [fate EXCEPT ![m] = "untold"]
           /\ UNCHANGED entry
        \/ /\ current = m
           /\ fate' = [fate EXCEPT ![m] = IF suppressed THEN "superseded" ELSE o]
           /\ current' = queued /\ queued' = None
           /\ suppressed' = FALSE /\ cancelling' = FALSE
     /\ run' = [n \in Messages |-> IF n = m THEN "over" ELSE IF n = next THEN "starting" ELSE run[n]]
     /\ events' = [events EXCEPT ![m] = NoTurn]
     /\ UNCHANGED <<manager, kind, inbound, cancellers>>

FinishFailedEvents(m) ==  \* mutant: a turn that RunTrackedTurn refuses is not finished
  run[m] = "reading" /\ Finish(m, "failed")

\* RunTrackedTurn reported an error, or there is one among the events, which ends
\* the reading at once.
FinishFailed(m) == run[m] \in {"refused", "reading"} /\ Finish(m, "failed")

FinishRead(m) ==
  /\ run[m] = "reading"
  /\ \/ events[m] = "closed" /\ Finish(m, "replied")
     \/ events[m] = "aborted" /\ Finish(m, "cancelled")

-----------------------------------------------------------------------------
Arrives(m) == LookAtThread(m) \/ InterruptTurn(m)

Goes(m) ==
  \/ BeginTurn(m) \/ QueueTurn(m)
  \/ CallCancel(m) \/ CancelStep(m)
  \/ CallTurn(m) \/ TurnStarts(m) \/ TurnStep(m) \/ TurnCallReturns(m)
  \/ FinishFailed(m) \/ FinishRead(m)

EventsFlow(t) == TurnEnds(t) \/ ChannelCloses(t)

\* When its runner has left, a turn with more events than its channels have room
\* for is stuck, stays registered, and has every later turn refused.
Read(t) == \E m \in Messages : events[m] = t

Proceeds ==
  \/ \E m \in Messages : Goes(m)
  \/ \E t \in Turns : TurnGoesOn(t) \/ (Read(t) /\ EventsFlow(t))

Next ==
  \/ \E m \in Messages : Arrives(m)
  \/ Proceeds
  \/ \E t \in Turns : EventsFlow(t)
  \/ M!Idles(Thread) /\ UNCHANGED thread

\* Goroutines that can proceed do, and every turn that is read ends some time.
\* Each of them has a bounded number of steps to take, so that fairness of all
\* together is fairness of each.
Spec == Init /\ [][Next]_vars

FairSpec == Spec /\ WF_vars(Proceeds)
-----------------------------------------------------------------------------
\* A busy thread has somebody at work for its current request, who will make it
\* idle again or start what waits: it never takes every message for a follow-up
\* of a turn that is over (finishAcpThreadTurn and its three callers), also when
\* two workers find it idle and begin a turn each.
ThreadHasRunner == current # None => current \in Running

\* Every message that was taken in comes to something: its turn runs, told of or
\* not, or is refused, or something newer stood in for it; also after a turn that
\* is stuck for ever.  The text that queueAcpThreadTurn leaves out because its
\* thread became idle (acp_thread_control.go:99-101) is excluded, for it comes to
\* nothing: LatestIsServed is about it.  No other one is lost.
Settles ==
  \A m \in Messages :
    inbound[m] = "done" /\ fate[m] # "lost" ~> fate[m] \notin {"none", "lost"}

\* "... interrupts the current task automatically and continues with the latest
\* message" (README.md:61): the latest message itself is not lost, its outcome not
\* left untold, and its turn not cancelled.
LatestIsServed ==
  \A m \in Messages :
    fate[m] \in {"lost", "untold", "cancelled"} => \E n \in Messages : n > m /\ inbound[n] = "done"
=============================================================================
