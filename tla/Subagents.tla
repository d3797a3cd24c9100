------------------------------ MODULE Subagents ------------------------------
(***************************************************************************)
(* The runs of an agent and of the subagents it spawns: the loop of        *)
(* Orchestrator.runLoop and executeToolCalls (internal/core/agent/         *)
(* orchestrator.go), the spawn, completion and follow-up queues of         *)
(* AgentManager (manager.go) and SubagentRegistry (subagent_registry.go).  *)
(*                                                                         *)
(* A run is either the handling of one inbound message of a session, or a  *)
(* subagent with a session of its own.  Both execute runLoop.  A subagent  *)
(* that ends is marked completed in the registry, a callback announces its *)
(* result to the follow-up queue of the session that spawned it, and the   *)
(* run that polls this queue takes everything in it and counts it down.    *)
(* A subagent's run polls a queue of its own that nobody fills.            *)
(*                                                                         *)
(* The contents of messages are left out.  The runs of the manager have no *)
(* source of steering messages, so these are left out as well.             *)
(***************************************************************************)
EXTENDS Integers, FiniteSets

CONSTANTS
  Messages,        \* inbound messages: a run each
  Subs,            \* IDs of subagent runs (GenerateRunID)
  Sessions,        \* session keys of inbound messages
  NoRun,
  Workers,         \* effectiveInboundWorkers: messages handled at once
  MaxIterations,   \* LLM calls of a run
  MaxToolFailures, \* tool failures of a run
  Nested,          \* a subagent may spawn subagents (canTargetAgentSpawn)
  EarlyArchive     \* records expire sooner than the runs time out

ASSUME SubagentsAssumption ==
  /\ IsFiniteSet(Subs) /\ Messages \cap Subs = {} /\ Sessions \cap Subs = {}
  /\ NoRun \notin Messages \cup Subs
  /\ Workers \in Nat \ {0} /\ MaxIterations \in Nat \ {0} /\ MaxToolFailures \in Nat \ {0}
  /\ Nested \in BOOLEAN /\ EarlyArchive \in BOOLEAN

VARIABLES
  pc,       \* where each run is
  key,      \* state.SessionKey of each run
  calls,    \* state.LLMCallCount
  fails,    \* state.ToolFailCount
  pending,  \* state.PendingSubagents
  parent,   \* the run that spawned a subagent
  counted,  \* the subagents whose spawn counted as pending
  registry, \* SubagentRegistry.runs
  queue,    \* AgentManager.followUpQueues: the results in them
  taker     \* history: the run that took a subagent's result

loop == <<calls, fails>>
vars == <<pc, key, loop, pending, parent, counted, registry, queue, taker>>

Runs == Messages \cup Subs
Keys == Sessions \cup Subs
Looping == {"llm", "tools", "outer"}
Ended == {"finished", "cut"}

Spawned(r) == {t \in Subs : parent[t] = r /\ t \in counted}
Taken(r) == {t \in Subs : taker[t] = r}

TypeOK ==
  /\ pc \in [Runs -> Looping \cup Ended \cup {"new", "failed", "announcing", "over"}]
  /\ key \in [Runs -> Keys]
  /\ calls \in [Runs -> 0..MaxIterations]
  /\ fails \in [Runs -> 0..MaxToolFailures]
  /\ pending \in [Runs -> Int]
  /\ parent \in [Subs -> Runs \cup {NoRun}]
  /\ counted \subseteq Subs /\ registry \subseteq Subs
  /\ queue \in [Keys -> SUBSET Subs]
  /\ taker \in [Subs -> Runs \cup {NoRun}]

Init ==
  /\ pc = [r \in Runs |-> "new"]
  /\ key \in {k \in [Runs -> Keys] : \A r \in Runs : IF r \in Subs THEN k[r] = r ELSE k[r] \in Sessions}
  /\ calls = [r \in Runs |-> 0] /\ fails = [r \in Runs |-> 0]
  /\ pending = [r \in Runs |-> 0]
  /\ parent = [t \in Subs |-> NoRun]
  /\ counted = {} /\ registry = {}
  /\ queue = [k \in Keys |-> {}]
  /\ taker = [t \in Subs |-> NoRun]

Goto(r, l) == pc' = [pc EXCEPT ![r] = l]

\* runLoop returns; the counters of its AgentState are of no use any more.
Return(r, l) ==
  /\ Goto(r, l)
  /\ calls' = [calls EXCEPT ![r] = 0]
  /\ fails' = [fails EXCEPT ![r] = 0]

-----------------------------------------------------------------------------
(* A worker takes an inbound message off the bus and starts its run.       *)
Handled == {r \in Messages : pc[r] \in Looping}

HandleInboundMessage(r) ==
  /\ r \in Messages /\ pc[r] = "new"
  /\ Cardinality(Handled) < Workers
  /\ Goto(r, "llm")
  /\ UNCHANGED <<key, loop, pending, parent, counted, registry, queue, taker>>

-----------------------------------------------------------------------------
(* The inner loop of runLoop.  The pending messages are injected into the  *)
(* conversation before anything else, so a result taken is a result seen.  *)
AtLimitOffByOne(r) ==  \* mutant: allows one call too many
  calls[r] > MaxIterations \/ fails[r] >= MaxToolFailures

AtLimit(r) == calls[r] >= MaxIterations \/ fails[r] >= MaxToolFailures

\* A last call without tools; whatever is pending is not waited for.
FinalReflection(r) ==
  /\ pc[r] = "llm" /\ AtLimit(r)
  /\ Return(r, "cut")
  /\ UNCHANGED <<key, pending, parent, counted, registry, queue, taker>>

\* The answer is cut off or too long and the loop goes on ("llm"), asks for tools,
\* is complete ("outer") ...
CallLLM(r) ==
  /\ pc[r] = "llm" /\ ~AtLimit(r)
  /\ calls' = [calls EXCEPT ![r] = @ + 1]
  /\ \E l \in {"llm", "tools", "outer"} : Goto(r, l)
  /\ UNCHANGED <<key, fails, pending, parent, counted, registry, queue, taker>>

\* ... or the call fails and a fallback message ends the run.
CallFails(r) ==
  /\ pc[r] = "llm" /\ ~AtLimit(r)
  /\ Return(r, "cut")
  /\ UNCHANGED <<key, pending, parent, counted, registry, queue, taker>>

-----------------------------------------------------------------------------
(* executeToolCalls: the calls of one answer, one after the other.         *)
Fail(r) == fails' = [fails EXCEPT ![r] = IF @ < MaxToolFailures THEN @ + 1 ELSE @]

OtherToolFails(r) ==
  /\ pc[r] = "tools" /\ Fail(r)
  /\ UNCHANGED <<pc, key, calls, pending, parent, counted, registry, queue, taker>>

\* sessions_spawn: the record is registered and the subagent's goroutine starts.
\* If the tool does not return in time, the result is an error and not counted.
SpawnSubagent(r, t, inTime) ==
  /\ pc[r] = "tools" /\ pc[t] = "new" /\ t # r
  /\ r \in Messages \/ Nested
  /\ pc' = [pc EXCEPT ![t] = "llm"]
  /\ registry' = registry \cup {t}
  /\ parent' = [parent EXCEPT ![t] = r]
  /\ IF inTime
     THEN /\ pending' = [pending EXCEPT ![r] = @ + 1]
          /\ counted' = counted \cup {t}
          /\ UNCHANGED fails
     ELSE Fail(r) /\ UNCHANGED <<pending, counted>>
  /\ UNCHANGED <<key, calls, queue, taker>>

\* handleSubagentSpawn fails after RegisterRun: the tool returns a text that starts
\* with "Error:" and no error, which shouldTrackPendingSubagent must not count.
SpawnFailsCounted(r, t) ==  \* mutant: counts every sessions_spawn without an error
  /\ pc[r] = "tools" /\ pc[t] = "new" /\ t # r
  /\ r \in Messages \/ Nested
  /\ Goto(t, "failed")
  /\ registry' = registry \cup {t}
  /\ parent' = [parent EXCEPT ![t] = r]
  /\ pending' = [pending EXCEPT ![r] = @ + 1]
  /\ counted' = counted \cup {t}
  /\ UNCHANGED <<key, loop, queue, taker>>

SpawnFails(r, t) ==
  /\ pc[r] = "tools" /\ pc[t] = "new" /\ t # r
  /\ r \in Messages \/ Nested
  /\ Goto(t, "failed")
  /\ registry' = registry \cup {t}
  /\ parent' = [parent EXCEPT ![t] = r]
  /\ UNCHANGED <<key, loop, pending, counted, queue, taker>>

ToolsDone(r) ==
  /\ pc[r] = "tools" /\ Goto(r, "llm")
  /\ UNCHANGED <<key, loop, pending, parent, counted, registry, queue, taker>>

-----------------------------------------------------------------------------
(* outerCheck.  GetFollowUpMessages pops the whole queue of the session;   *)
(* a subagent's orchestrator has its own queue, which is always empty.     *)
FollowUps(r) == IF r \in Messages THEN queue[key[r]] ELSE {}

TakeFollowUpsNoCount(r) ==  \* mutant: does not recognize the source of the message
  /\ pc[r] = "outer" /\ FollowUps(r) # {}
  /\ taker' = [t \in Subs |-> IF t \in FollowUps(r) THEN r ELSE taker[t]]
  /\ queue' = [queue EXCEPT ![key[r]] = {}]
  /\ Goto(r, "llm")
  /\ UNCHANGED <<key, loop, pending, parent, counted, registry>>

TakeFollowUps(r) ==
  /\ pc[r] = "outer" /\ FollowUps(r) # {}
  /\ pending' = [pending EXCEPT ![r] = @ - Cardinality(FollowUps(r))]
  /\ taker' = [t \in Subs |-> IF t \in FollowUps(r) THEN r ELSE taker[t]]
  /\ queue' = [queue EXCEPT ![key[r]] = {}]
  /\ Goto(r, "llm")
  /\ UNCHANGED <<key, loop, parent, counted, registry>>

Finish(r) ==
  /\ pc[r] = "outer" /\ FollowUps(r) = {}
  /\ pending[r] <= 0
  /\ Return(r, "finished")
  /\ UNCHANGED <<key, pending, parent, counted, registry, queue, taker>>

\* The context of a subagent's run ends, in a call, a tool or the wait.
TimeOut(t) ==
  /\ t \in Subs /\ pc[t] \in Looping
  /\ Return(t, "cut")
  /\ UNCHANGED <<key, pending, parent, counted, registry, queue, taker>>

-----------------------------------------------------------------------------
(* The end of a subagent's goroutine and the callback it starts.           *)

\* Without a record MarkCompleted fails and there is no callback.
MarkCompleted(t) ==
  /\ t \in Subs /\ pc[t] \in Ended
  /\ Goto(t, IF t \in registry THEN "announcing" ELSE "over")
  /\ UNCHANGED <<key, loop, pending, parent, counted, registry, queue, taker>>

\* handleSubagentCompletion: RunAnnounceFlow, sendToSession and pushFollowUp, then
\* Cleanup with "delete" or "keep", which touches nothing but the registry.
AnnounceOverwrites(t, delete) ==  \* mutant: a queue that holds the last message only
  /\ pc[t] = "announcing"
  /\ queue' = [queue EXCEPT ![key[parent[t]]] = {t}]
  /\ registry' = IF delete THEN registry \ {t} ELSE registry
  /\ Goto(t, "over")
  /\ UNCHANGED <<key, loop, pending, parent, counted, taker>>

Announce(t, delete) ==
  /\ pc[t] = "announcing"
  /\ queue' = [queue EXCEPT ![key[parent[t]]] = @ \cup {t}]
  /\ registry' = IF delete THEN registry \ {t} ELSE registry
  /\ Goto(t, "over")
  /\ UNCHANGED <<key, loop, pending, parent, counted, taker>>

\* The sweeper deletes a record whose ArchiveAtMs is past, whether or not EndedAt
\* is set.
Sweep(t) ==
  /\ t \in registry
  /\ EarlyArchive \/ pc[t] \notin Looping \cup Ended
  /\ registry' = registry \ {t}
  /\ UNCHANGED <<pc, key, loop, pending, parent, counted, queue, taker>>

-----------------------------------------------------------------------------
RunLoop(r) ==
  \/ FinalReflection(r) \/ CallLLM(r) \/ CallFails(r)
  \/ OtherToolFails(r) \/ ToolsDone(r)
  \/ \E t \in Subs : SpawnFails(r, t) \/ \E inTime \in BOOLEAN : SpawnSubagent(r, t, inTime)
  \/ TakeFollowUps(r) \/ Finish(r)

Completion(t) == MarkCompleted(t) \/ \E delete \in BOOLEAN : Announce(t, delete)

Next ==
  \/ \E r \in Messages : HandleInboundMessage(r)
  \/ \E r \in Runs : RunLoop(r)
  \/ \E t \in Subs : TimeOut(t) \/ Completion(t) \/ Sweep(t)

Spec == Init /\ [][Next]_vars

(* The goroutines run, an LLM call and a tool end in bounded time (the     *)
(* request and tool timeouts), the context of a subagent's run expires.    *)
Fairness ==
  /\ \A r \in Runs : /\ WF_vars(FinalReflection(r)) /\ WF_vars(CallLLM(r) \/ CallFails(r)) /\ WF_vars(ToolsDone(r))
                     /\ WF_vars(TakeFollowUps(r)) /\ WF_vars(Finish(r))
  /\ \A t \in Subs : WF_vars(TimeOut(t)) /\ WF_vars(Completion(t))

FairSpec == Spec /\ Fairness

-----------------------------------------------------------------------------
\* PendingSubagents is what the run spawned less what it took, however many
\* runs of the session take results (executeToolCalls, 978; runLoop, 412-443).
Accounting ==
  \A r \in Runs : pending[r] = Cardinality(Spawned(r)) - Cardinality(Taken(r))

\* A run that ends by itself took at least as many results as it waited for
\* (runLoop, 386-456).
FinishedTookAsMany ==
  \A r \in Messages : pc[r] = "finished" => Cardinality(Taken(r)) >= Cardinality(Spawned(r))

\* The result of t will still be announced, or waits in the queue of its parent.
OnItsWay(t) ==
  \/ pc[t] \in Looping
  \/ pc[t] \in Ended /\ t \in registry
  \/ pc[t] = "announcing"
  \/ t \in queue[key[parent[t]]]

\* With one worker and records that outlive the runs, a run that waits has a
\* subagent of its own whose result will come (runLoop, 386-433; "runLoop would
\* wait for ever for a result that does not exist", 975-977).
WaitsForSomething ==
  Workers = 1 /\ ~EarlyArchive =>
    \A r \in Messages : pc[r] \in Looping /\ pending[r] > 0 =>
      \E t \in Spawned(r) : OnItsWay(t)

\* A subagent that ended is counted down or will be: its result is not lost
\* between the registry, the callback and the queue (MarkCompleted, 162-189;
\* handleSubagentCompletion, 670-724; pushFollowUp and popFollowUps, 728-746).
NoResultLost ==
  ~EarlyArchive => \A t \in Subs :
    pc[t] = "over" => (taker[t] = NoRun <=> t \in queue[key[parent[t]]])

\* The subagents as ResultDelivery sees them: those that started, the results each
\* session is owed, and those its runs have taken.
Started == {t \in Subs : pc[t] \notin {"new", "failed"}}
Expected(t) == pc[t] \in Looping \cup Ended \cup {"announcing"}
OwedTo(k) == {t \in Subs : Expected(t) /\ key[parent[t]] = k}
DeliveredTo(k) == {t \in Subs : taker[t] # NoRun /\ key[taker[t]] = k}

Delivery == INSTANCE ResultDelivery WITH
  Results <- Subs, MayLose <- EarlyArchive,
  started <- Started, owed <- [k \in Keys |-> OwedTo(k)],
  waiting <- queue, delivered <- [k \in Keys |-> DeliveredTo(k)]

\* Each result gets to the session that started the subagent, once and together
\* with whatever else has arrived, however many runs of that session there are.
IsDelivery == Delivery!Spec

\* Every run that handles a message ends, so its worker is free again.
RunEnds == \A r \in Messages : pc[r] = "llm" ~> pc[r] \in Ended
=============================================================================
