------------------------------- MODULE Sandbox -------------------------------
(***************************************************************************)
(* The sandbox of the tools (internal/core/sandbox): ContainerPool         *)
(* (pool.go) keeps Docker containers warm; DockerExecutor.Execute          *)
(* (docker.go) acquires one, runs a command in it and releases it; a       *)
(* background goroutine checks the idle containers and warms up new ones.  *)
(* The pool's mutex protects its maps only: containers are created,        *)
(* checked and destroyed with the mutex released.                          *)
(*                                                                         *)
(* A container that does not run still exists until it is removed.  A      *)
(* health check can fail for a running container: the caller's context may *)
(* be over, or Docker may not answer in time.                              *)
(***************************************************************************)
EXTENDS Naturals, Sequences, FiniteSets

CONSTANTS
  Users,       \* goroutines that call Execute
  Warmers,     \* goroutines that call Warmup
  Keeper,      \* the goroutine of startBackgroundHealthCheck
  Containers,  \* IDs Docker hands out, each of them once
  NoContainer,
  WarmTarget

ASSUME SandboxAssumption ==
  /\ Users \cap Warmers = {} /\ Keeper \notin Users \cup Warmers
  /\ NoContainer \notin Containers /\ WarmTarget \in Nat

VARIABLES
  closed,   \* p.closed
  entries,  \* the keys of p.entries
  idle,     \* p.idle
  made,     \* containers Docker has created
  exists,   \* those not removed
  running,  \* those whose health check can succeed
  closing,  \* ids of Close, still to be destroyed
  pc,       \* where each goroutine is
  held,     \* the container in its hands
  scan,     \* idleIDs of the background goroutine, still to be checked
  output    \* the stream of a command: "open", its end "sent" to copyDone, "taken" from it

pool == <<closed, entries, idle, closing>>
docker == <<made, exists, running>>
vars == <<pool, docker, pc, held, scan, output>>

Procs == Users \cup Warmers \cup {Keeper}
Using == {"holding", "polling", "copying", "draining", "releasing"}

IdleSet == {idle[i] : i \in 1..Len(idle)}

TypeOK ==
  /\ closed \in BOOLEAN
  /\ entries \subseteq made /\ idle \in Seq(entries)
  /\ exists \subseteq made /\ made \subseteq Containers /\ running \subseteq exists
  /\ closing \subseteq made
  /\ pc \in [Procs -> Using \cup {"off", "idle", "acquiring", "checking", "creating", "checkingNew",
                         "adding", "destroying", "dropping", "warming", "warmingUp", "warmAdding",
                         "scanning", "scanDestroying"}]
  /\ held \in [Procs -> Containers \cup {NoContainer}]
  /\ scan \subseteq made
  /\ output \in [Users -> {"open", "sent", "taken"}]

Init ==
  /\ closed = FALSE /\ entries = {} /\ idle = <<>>
  /\ made = {} /\ exists = {} /\ running = {} /\ closing = {}
  /\ pc = [p \in Procs |-> IF p = Keeper THEN "off" ELSE "idle"]
  /\ held = [p \in Procs |-> NoContainer]
  /\ scan = {}
  /\ output = [u \in Users |-> "taken"]

Goto(p, l) == pc' = [pc EXCEPT ![p] = l]
Hold(p, c) == held' = [held EXCEPT ![p] = c]
\* removeEntry filters the list, in which an ID has one place.
Without(c) ==
  IF c \notin IdleSet THEN idle
  ELSE LET i == CHOOSE i \in 1..Len(idle) : idle[i] = c
       IN [j \in 1..Len(idle) - 1 |-> IF j < i THEN idle[j] ELSE idle[j + 1]]

-----------------------------------------------------------------------------
(* Docker.                                                                 *)
Create(p, c) ==
  /\ c \notin made
  /\ made' = made \cup {c} /\ exists' = exists \cup {c} /\ running' = running \cup {c}
  /\ Hold(p, c)

Remove(c) ==
  /\ exists' = exists \ {c} /\ running' = running \ {c}
  /\ UNCHANGED made

ContainerStops(c) ==
  /\ c \in running
  /\ running' = running \ {c}
  /\ UNCHANGED <<pool, made, exists, pc, held, scan, output>>

\* destroyContainer, after the container was taken out of the pool, or never put in.
Destroy(p) ==
  /\ pc[p] \in {"destroying", "dropping", "scanDestroying"}
  /\ Remove(held[p])
  /\ Goto(p, CASE pc[p] = "destroying" -> "acquiring" [] pc[p] = "scanDestroying" -> "scanning"
               [] OTHER -> "idle")
  /\ Hold(p, NoContainer)
  /\ UNCHANGED <<pool, scan, output>>

RemoveEntryOnly(c) ==  \* mutant: leaves the container in p.idle
  /\ entries' = entries \ {c}
  /\ UNCHANGED <<closed, idle, closing>>

RemoveEntry(c) ==
  /\ entries' = entries \ {c}
  /\ idle' = Without(c)
  /\ UNCHANGED <<closed, closing>>

-----------------------------------------------------------------------------
(* Acquire.                                                                *)
Execute(u) ==
  /\ u \in Users /\ pc[u] = "idle"
  /\ Goto(u, "acquiring")
  /\ UNCHANGED <<pool, docker, held, scan, output>>

AcquireFails(u) ==  \* the pool is closed, or no container can be created: fall back
  /\ \/ pc[u] = "acquiring" /\ closed
     \/ pc[u] = "creating"
  /\ Goto(u, "idle")
  /\ UNCHANGED <<pool, docker, held, scan, output>>

AcquireIdlePeek(u) ==  \* mutant: leaves the container in p.idle
  /\ pc[u] = "acquiring" /\ ~closed /\ idle # <<>>
  /\ Hold(u, idle[Len(idle)]) /\ Goto(u, "checking")
  /\ UNCHANGED <<pool, docker, scan, output>>

AcquireIdle(u) ==
  /\ pc[u] = "acquiring" /\ ~closed /\ idle # <<>>
  /\ idle' = SubSeq(idle, 1, Len(idle) - 1)
  /\ IF idle[Len(idle)] \in entries
     THEN Hold(u, idle[Len(idle)]) /\ Goto(u, "checking")
     ELSE UNCHANGED <<held, pc>>
  /\ UNCHANGED <<closed, entries, closing, docker, scan, output>>

CheckIdle(u, healthy) ==
  /\ pc[u] = "checking"
  /\ healthy => held[u] \in running
  /\ IF healthy THEN Goto(u, "holding") /\ UNCHANGED pool
     ELSE Goto(u, "destroying") /\ RemoveEntry(held[u])
  /\ UNCHANGED <<docker, held, scan, output>>

AcquireCold(u) ==
  /\ pc[u] = "acquiring" /\ ~closed /\ idle = <<>>
  /\ Goto(u, "creating")
  /\ UNCHANGED <<pool, docker, held, scan, output>>

CreateContainer(u, c) ==
  /\ pc[u] = "creating"
  /\ Create(u, c) /\ Goto(u, "checkingNew")
  /\ UNCHANGED <<pool, scan, output>>

CheckNewForgets(u, healthy) ==  \* mutant: does not destroy the container it refuses
  /\ pc[u] = "checkingNew"
  /\ healthy => held[u] \in running
  /\ IF healthy THEN Goto(u, "adding") /\ UNCHANGED held
     ELSE Goto(u, "idle") /\ Hold(u, NoContainer)
  /\ UNCHANGED <<pool, docker, scan, output>>

CheckNew(u, healthy) ==
  /\ pc[u] = "checkingNew"
  /\ healthy => held[u] \in running
  /\ Goto(u, IF healthy THEN "adding" ELSE "dropping")
  /\ UNCHANGED <<pool, docker, held, scan, output>>

AddEntryLate(u) ==  \* mutant: does not look at closed again
  /\ pc[u] = "adding"
  /\ Goto(u, "holding") /\ entries' = entries \cup {held[u]}
  /\ UNCHANGED <<closed, idle, closing, docker, held, scan, output>>

AddEntry(u) ==
  /\ pc[u] = "adding"
  /\ IF closed THEN Goto(u, "dropping") /\ UNCHANGED entries
     ELSE Goto(u, "holding") /\ entries' = entries \cup {held[u]}
  /\ UNCHANGED <<closed, idle, closing, docker, held, scan, output>>

-----------------------------------------------------------------------------
(* Execute, with the container acquired.                                   *)

\* An unhealthy container is destroyed, but its entry stays and it is released.
RejectContainer(u) ==
  /\ pc[u] = "holding"
  /\ Remove(held[u])
  /\ Goto(u, "releasing")
  /\ UNCHANGED <<pool, held, scan, output>>

ExecFails(u) ==  \* the exec is not created or not attached
  /\ pc[u] = "holding"
  /\ Goto(u, "releasing")
  /\ UNCHANGED <<pool, docker, held, scan, output>>

StartExec(u) ==
  /\ pc[u] = "holding" /\ held[u] \in running
  /\ Goto(u, "polling")
  /\ output' = [output EXCEPT ![u] = "open"]
  /\ UNCHANGED <<pool, docker, held, scan>>

\* The output of the command ends, and the copying goroutine sends on copyDone.
OutputEnds(u) ==
  /\ output[u] = "open"
  /\ output' = [output EXCEPT ![u] = "sent"]
  /\ UNCHANGED <<pool, docker, pc, held, scan>>

\* ContainerExecInspect: the command has ended, whether or not all of its output
\* is copied ("copying"), or the call fails, as it does when the context is over
\* ("draining").  When the command runs and 100 ms go by, it is asked again, which
\* leaves everything as it is.
Inspect(u, l) ==
  /\ pc[u] = "polling"
  /\ Goto(u, l)
  /\ UNCHANGED <<pool, docker, held, scan, output>>

\* The command runs, and the select finds the message of copyDone.
TakeOutput(u) ==
  /\ pc[u] = "polling" /\ output[u] = "sent"
  /\ output' = [output EXCEPT ![u] = "taken"]
  /\ Goto(u, "draining")
  /\ UNCHANGED <<pool, docker, held, scan>>

\* <-copyDone, at the end of both paths: it sends one message only.
Drain(u) ==
  /\ pc[u] \in {"copying", "draining"} /\ output[u] = "sent"
  /\ output' = [output EXCEPT ![u] = "taken"]
  /\ Goto(u, "releasing")
  /\ UNCHANGED <<pool, docker, held, scan>>

\* Release.
Release(u, expired) ==
  /\ pc[u] = "releasing"
  /\ LET known == ~closed /\ held[u] \in entries
         drop  == known /\ expired /\ Len(idle) >= WarmTarget
     IN /\ entries' = IF drop THEN entries \ {held[u]} ELSE entries
        /\ idle' = IF known /\ ~drop /\ held[u] \notin IdleSet THEN Append(idle, held[u]) ELSE idle
        /\ IF closed \/ drop THEN Goto(u, "dropping") /\ UNCHANGED held
           ELSE Goto(u, "idle") /\ Hold(u, NoContainer)
  /\ UNCHANGED <<closed, closing, docker, scan, output>>

-----------------------------------------------------------------------------
(* Warmup; the first one starts the background goroutine.                  *)
Warmup(w) ==
  /\ w \in Warmers /\ pc[w] = "idle"
  /\ pc' = [pc EXCEPT ![w] = "warming", ![Keeper] = IF @ = "off" /\ ~closed THEN "idle" ELSE @]
  /\ UNCHANGED <<pool, docker, held, scan, output>>

WarmupLook(w) ==
  /\ pc[w] = "warming"
  /\ Goto(w, IF closed \/ Len(idle) >= WarmTarget THEN "idle" ELSE "warmingUp")
  /\ UNCHANGED <<pool, docker, held, scan, output>>

WarmupCreate(w) ==
  /\ pc[w] = "warmingUp"
  /\ \/ Goto(w, "idle") /\ UNCHANGED <<docker, held>>
     \/ Goto(w, "warmAdding") /\ \E c \in Containers : Create(w, c)
  /\ UNCHANGED <<pool, scan, output>>

WarmupAdd(w) ==
  /\ pc[w] = "warmAdding"
  /\ IF closed THEN Goto(w, "dropping") /\ UNCHANGED <<entries, idle, held>>
     ELSE /\ entries' = entries \cup {held[w]}
          /\ idle' = Append(idle, held[w])
          /\ Goto(w, "warming") /\ Hold(w, NoContainer)
  /\ UNCHANGED <<closed, closing, docker, scan, output>>

\* The background goroutine: a tick, the containers idle at that time, a Warmup.
Tick ==
  /\ pc[Keeper] = "idle"
  /\ IF closed THEN Goto(Keeper, "off") /\ UNCHANGED scan
     ELSE Goto(Keeper, "scanning") /\ scan' = IdleSet
  /\ UNCHANGED <<pool, docker, held, output>>

Scan(c, healthy) ==
  /\ pc[Keeper] = "scanning" /\ c \in scan
  /\ healthy => c \in running
  /\ scan' = scan \ {c}
  /\ IF healthy THEN UNCHANGED <<pool, pc, held>>
     ELSE RemoveEntry(c) /\ Goto(Keeper, "scanDestroying") /\ Hold(Keeper, c)
  /\ UNCHANGED <<docker, output>>

ScanDone ==
  /\ pc[Keeper] = "scanning" /\ scan = {}
  /\ Goto(Keeper, "warming")
  /\ UNCHANGED <<pool, docker, held, scan, output>>

Close ==
  /\ ~closed
  /\ closed' = TRUE
  /\ closing' = entries /\ entries' = {} /\ idle' = <<>>
  /\ UNCHANGED <<docker, pc, held, scan, output>>

CloseDestroy(c) ==
  /\ c \in closing
  /\ closing' = closing \ {c}
  /\ Remove(c)
  /\ UNCHANGED <<closed, entries, idle, pc, held, scan, output>>

-----------------------------------------------------------------------------
Acquire(u) ==
  \/ AcquireFails(u) \/ AcquireIdle(u) \/ AcquireCold(u)
  \/ \E c \in Containers : CreateContainer(u, c)
  \/ \E healthy \in BOOLEAN : CheckIdle(u, healthy) \/ CheckNew(u, healthy)
  \/ AddEntry(u)

RunCommand(u) ==
  \/ RejectContainer(u) \/ ExecFails(u) \/ StartExec(u)
  \/ \E l \in {"copying", "draining"} : Inspect(u, l)
  \/ TakeOutput(u) \/ Drain(u)
  \/ \E expired \in BOOLEAN : Release(u, expired)

Warm(w) == WarmupLook(w) \/ WarmupCreate(w) \/ WarmupAdd(w)

Next ==
  \/ \E u \in Users : Execute(u) \/ Acquire(u) \/ RunCommand(u) \/ OutputEnds(u)
  \/ \E w \in Warmers : Warmup(w)
  \/ \E w \in Warmers \cup {Keeper} : Warm(w)
  \/ \E p \in Procs : Destroy(p)
  \/ Tick \/ ScanDone \/ Close
  \/ \E c \in Containers : \/ ContainerStops(c) \/ CloseDestroy(c)
                           \/ \E healthy \in BOOLEAN : Scan(c, healthy)

Spec == Init /\ [][Next]_vars

(* The goroutines run, Docker answers, and the commands are assumed to     *)
(* end, so that one of the inspections says so or the message of copyDone  *)
(* is found; nobody is obliged to call Execute, Warmup or Close.           *)
Fairness ==
  /\ \A u \in Users : /\ WF_vars(Acquire(u)) /\ WF_vars(RunCommand(u)) /\ WF_vars(OutputEnds(u))
  /\ \A w \in Warmers \cup {Keeper} : WF_vars(Warm(w))
  /\ \A p \in Procs : WF_vars(Destroy(p))
  /\ WF_vars(Tick) /\ WF_vars(ScanDone) /\ \A c \in Containers : WF_vars(CloseDestroy(c))

FairSpec == Spec /\ Fairness

-----------------------------------------------------------------------------
\* A container is in the hands of one execution at most, and then it is not idle
\* (Acquire, 144-171; Release, 222-228).
Exclusive ==
  \A u \in Users : pc[u] \in Using \cup {"checking"} =>
    /\ held[u] \notin IdleSet
    /\ \A v \in Users \ {u} : held[v] # held[u]

\* A container Docker still has is known to the pool or in the hands of a
\* goroutine that will add or destroy it: none is left behind by a failed check,
\* an expiry, or a Close that comes between two steps (99-107, 156-184, 196-220).
NoOrphan ==
  exists \subseteq entries \cup closing \cup {held[p] : p \in Procs}

\* After Close all containers are removed, those as well that were being created,
\* checked or used at the time (Close, 231-256).
CloseRemovesAll == closed ~> exists = {}

\* An execution gives its container back, but for one that takes the only message
\* of copyDone in its select and then waits for another one (docker.go:183, 197).
ExecReturns == \A u \in Users :
  pc[u] = "polling" ~> pc[u] = "releasing" \/ (pc[u] = "draining" /\ output[u] = "taken")

\* The pool comes to an end: of Close, and of every execution but those.
CloseAndExecutionsEnd == CloseRemovesAll /\ ExecReturns
=============================================================================
