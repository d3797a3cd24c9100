----------------------------- MODULE MessageBus -----------------------------
(***************************************************************************)
(* bus.MessageBus (internal/core/bus/queue.go): two bounded channels, a    *)
(* fan-out goroutine that copies every outbound message to the subscribers *)
(* and a close operation.  Publishers and consumers hold the read side of  *)
(* b.mu for as long as they are blocked on a channel; Close and the end of *)
(* the fan-out need the write side, and a goroutine that waits for the     *)
(* write side keeps new readers out (sync.RWMutex).                        *)
(*                                                                         *)
(* Outbound messages are numbered in the order in which the channel        *)
(* accepts them; of the inbound messages only the number matters.          *)
(***************************************************************************)
EXTENDS Naturals, Sequences, FiniteSets

CONSTANTS
  Callers,    \* goroutines that publish, consume and close
  Listeners,  \* holders of a subscription (SubscribeOutbound)
  Cap,        \* capacity of inbound and outbound (bufferSize)
  SubCap,     \* capacity of a subscriber's channel (100 in the code)
  Background, \* callers that publish with context.Background()
  MaxOut,     \* bound: outbound messages ever accepted
  Fanout,     \* the fan-out goroutine
  Nobody

ASSUME MessageBusAssumption ==
  /\ Cap \in Nat \ {0} /\ SubCap \in Nat \ {0} /\ MaxOut \in Nat
  /\ Callers \cap Listeners = {} /\ Background \subseteq Callers
  /\ Fanout \notin Callers /\ Nobody \notin Callers /\ Nobody # Fanout

VARIABLES
  closed,         \* b.closed; inbound and outbound are closed with it
  fanoutStopped,  \* b.fanoutStopped
  writer,         \* who holds, or is next to hold, the write side of b.mu
  pc,             \* what each caller is blocked in
  inbound,        \* number of messages buffered in b.inbound
  outbound,       \* messages buffered in b.outbound
  accepted,       \* how many messages b.outbound accepted so far
  outSubs,        \* the subscriptions registered in b.outSubs
  subBuf,         \* what each subscription's channel buffers
  subClosed,      \* subscriptions whose channel is closed
  fan,            \* where the fan-out goroutine is
  fanMsg,         \* the message it holds
  joinedAt,       \* history: accepted when the subscription was registered
  received,       \* history: what the owner of each subscription received
  overflow        \* history: messages dropped because the subscription was full

mutex == <<writer, pc>>
subState == <<outSubs, subBuf, subClosed, joinedAt, received, overflow>>
vars == <<closed, fanoutStopped, mutex, inbound, outbound, accepted, fan, fanMsg, subState>>

Subs == Callers \cup Listeners  \* a ConsumeOutbound call owns a subscription too

\* Blocked in a select, or on the way out, with the read side of b.mu held.
Holding == {"sendIn", "recvIn", "sendOut", "recvOut", "leaving"}
Readers == {p \in Callers : pc[p] \in Holding}

TypeOK ==
  /\ closed \in BOOLEAN /\ fanoutStopped \in BOOLEAN
  /\ writer \in Callers \cup {Fanout, Nobody}
  /\ pc \in [Callers -> Holding \cup {"idle", "closing"}]
  /\ inbound \in 0..Cap
  /\ accepted \in Nat
  /\ outbound \in Seq(Nat) /\ Len(outbound) <= Cap
  /\ outSubs \subseteq Subs /\ subClosed \subseteq Subs
  /\ subBuf \in [Subs -> Seq(Nat)] /\ \A s \in Subs : Len(subBuf[s]) <= SubCap
  /\ fan \in {"ranging", "holding", "sending", "stopping", "stopped"}
  /\ fanMsg \in Nat
  /\ joinedAt \in [Subs -> 0..accepted] /\ overflow \in [Subs -> SUBSET Nat]
  /\ received \in [Subs -> Seq(Nat)]

Init ==
  /\ closed = FALSE /\ fanoutStopped = FALSE
  /\ writer = Nobody
  /\ pc = [p \in Callers |-> "idle"]
  /\ inbound = 0 /\ outbound = <<>> /\ accepted = 0
  /\ outSubs = {} /\ subClosed = {}
  /\ subBuf = [s \in Subs |-> <<>>]
  /\ fan = "ranging" /\ fanMsg = 0
  /\ joinedAt = [s \in Subs |-> 0]
  /\ received = [s \in Subs |-> <<>>]
  /\ overflow = [s \in Subs |-> {}]

-----------------------------------------------------------------------------
(* Subscriptions, under outSubsMu.  SubscribeOutbound does not look at     *)
(* b.closed.  A subscription that is made anew has a new channel.          *)
Register(s) ==
  /\ outSubs' = outSubs \cup {s}
  /\ subBuf' = [subBuf EXCEPT ![s] = <<>>]
  /\ subClosed' = subClosed \ {s}
  /\ joinedAt' = [joinedAt EXCEPT ![s] = accepted]
  /\ received' = [received EXCEPT ![s] = <<>>]
  /\ overflow' = [overflow EXCEPT ![s] = {}]

\* What the history keeps of a subscription that is gone: its owner may go on
\* reading the channel, except a ConsumeOutbound call, which has returned.
Forget(s) ==
  /\ joinedAt' = [joinedAt EXCEPT ![s] = 0]
  /\ overflow' = [overflow EXCEPT ![s] = {}]
  /\ IF s \in Callers
     THEN subBuf' = [subBuf EXCEPT ![s] = <<>>] /\ received' = [received EXCEPT ![s] = <<>>]
     ELSE UNCHANGED <<subBuf, received>>

Unregister(s) ==
  /\ outSubs' = outSubs \ {s}
  /\ subClosed' = IF s \in outSubs THEN subClosed \cup {s} ELSE subClosed
  /\ Forget(s)

Take(s) ==
  /\ subBuf[s] # <<>>
  /\ received' = [received EXCEPT ![s] = Append(@, Head(subBuf[s]))]
  /\ subBuf' = [subBuf EXCEPT ![s] = Tail(@)]
  /\ UNCHANGED <<outSubs, subClosed, joinedAt, overflow>>

SubscribeOutbound(l) ==
  /\ l \notin outSubs
  /\ Register(l)
  /\ UNCHANGED <<closed, fanoutStopped, mutex, inbound, outbound, accepted, fan, fanMsg>>

UnsubscribeOutbound(l) ==
  /\ l \in outSubs
  /\ Unregister(l)
  /\ UNCHANGED <<closed, fanoutStopped, mutex, inbound, outbound, accepted, fan, fanMsg>>

Receive(l) ==  \* the owner reads its channel
  /\ Take(l)
  /\ UNCHANGED <<closed, fanoutStopped, mutex, inbound, outbound, accepted, fan, fanMsg>>

-----------------------------------------------------------------------------
(* The calls that take b.mu.RLock, look at b.closed and block in a select. *)
(* On a closed bus they return ErrBusClosed, which changes nothing.        *)
EnterReadersFirst(p, l) ==  \* mutant: a lock that lets readers pass a waiting writer
  /\ pc[p] = "idle"
  /\ ~closed
  /\ pc' = [pc EXCEPT ![p] = l]

Enter(p, l) ==
  /\ pc[p] = "idle" /\ writer = Nobody
  /\ ~closed
  /\ pc' = [pc EXCEPT ![p] = l]

Leave(p, l) ==
  /\ pc[p] = l
  /\ pc' = [pc EXCEPT ![p] = "idle"]

PublishInbound(p) ==
  /\ Enter(p, "sendIn")
  /\ UNCHANGED <<closed, fanoutStopped, writer, inbound, outbound, accepted, fan, fanMsg, subState>>

SendInbound(p) ==
  /\ Leave(p, "sendIn")
  /\ inbound < Cap
  /\ inbound' = inbound + 1
  /\ UNCHANGED <<closed, fanoutStopped, writer, outbound, accepted, fan, fanMsg, subState>>

ConsumeInbound(p) ==
  /\ Enter(p, "recvIn")
  /\ UNCHANGED <<closed, fanoutStopped, writer, inbound, outbound, accepted, fan, fanMsg, subState>>

ReceiveInbound(p) ==
  /\ Leave(p, "recvIn")
  /\ inbound > 0
  /\ inbound' = inbound - 1
  /\ UNCHANGED <<closed, fanoutStopped, writer, outbound, accepted, fan, fanMsg, subState>>

PublishOutbound(p) ==
  /\ accepted + Cardinality({q \in Callers : pc[q] = "sendOut"}) < MaxOut
  /\ Enter(p, "sendOut")
  /\ UNCHANGED <<closed, fanoutStopped, writer, inbound, outbound, accepted, fan, fanMsg, subState>>

SendOutbound(p) ==
  /\ Leave(p, "sendOut")
  /\ Len(outbound) < Cap
  /\ accepted' = accepted + 1
  /\ outbound' = Append(outbound, accepted + 1)
  /\ UNCHANGED <<closed, fanoutStopped, writer, inbound, fan, fanMsg, subState>>

\* ConsumeOutbound subscribes for the duration of the call.
ConsumeOutbound(p) ==
  /\ Enter(p, "recvOut")
  /\ Register(p)
  /\ UNCHANGED <<closed, fanoutStopped, writer, inbound, outbound, accepted, fan, fanMsg>>

ReceiveOutbound(p) ==
  /\ pc[p] = "recvOut"
  /\ pc' = [pc EXCEPT ![p] = "leaving"]
  /\ Take(p)
  /\ UNCHANGED <<closed, fanoutStopped, writer, inbound, outbound, accepted, fan, fanMsg>>

LeaveOutbound(p) ==  \* the deferred Unsubscribe, then RUnlock
  /\ Leave(p, "leaving")
  /\ Unregister(p)
  /\ UNCHANGED <<closed, fanoutStopped, writer, inbound, outbound, accepted, fan, fanMsg>>

\* case <-ctx.Done(); a channel that publishes with context.Background() has none.
GiveUp(p) ==
  /\ pc[p] \in {"recvIn", "recvOut"} \/ (pc[p] \in {"sendIn", "sendOut"} /\ p \notin Background)
  /\ pc' = [pc EXCEPT ![p] = IF @ = "recvOut" THEN "leaving" ELSE "idle"]
  /\ UNCHANGED <<closed, fanoutStopped, writer, inbound, outbound, accepted, fan, fanMsg, subState>>

-----------------------------------------------------------------------------
(* Close: b.mu.Lock announces the writer, waits for the readers to leave,  *)
(* then everything happens under the lock.                                 *)
LockForClose(p) ==
  /\ pc[p] = "idle" /\ writer = Nobody
  /\ writer' = p
  /\ pc' = [pc EXCEPT ![p] = "closing"]
  /\ UNCHANGED <<closed, fanoutStopped, inbound, outbound, accepted, fan, fanMsg, subState>>

CloseNoWait(p) ==  \* mutant: closes without waiting for the readers to leave
  /\ pc[p] = "closing"
  /\ writer' = Nobody
  /\ pc' = [pc EXCEPT ![p] = "idle"]
  /\ closed' = TRUE
  /\ subClosed' = subClosed \cup outSubs
  /\ outSubs' = {}
  /\ UNCHANGED <<fanoutStopped, inbound, outbound, accepted, fan, fanMsg,
                 subBuf, joinedAt, received, overflow>>

Close(p) ==
  /\ pc[p] = "closing" /\ Readers = {}
  /\ writer' = Nobody
  /\ pc' = [pc EXCEPT ![p] = "idle"]
  /\ closed' = TRUE
  /\ IF closed THEN UNCHANGED <<subClosed, outSubs>>
               ELSE subClosed' = subClosed \cup outSubs /\ outSubs' = {}
  /\ UNCHANGED <<fanoutStopped, inbound, outbound, accepted, fan, fanMsg,
                 subBuf, joinedAt, received, overflow>>

-----------------------------------------------------------------------------
(* fanoutMessages.                                                         *)
FanoutReceive ==
  /\ fan = "ranging" /\ outbound # <<>>
  /\ fan' = "holding" /\ fanMsg' = Head(outbound)
  /\ outbound' = Tail(outbound)
  /\ UNCHANGED <<closed, fanoutStopped, mutex, inbound, accepted, subState>>

FanoutCount ==  \* len(b.outSubs) under outSubsMu
  /\ fan = "holding"
  /\ IF outSubs = {}
     THEN fan' = "ranging" /\ fanMsg' = 0  \* no subscribers: dropped
     ELSE fan' = "sending" /\ UNCHANGED fanMsg
  /\ UNCHANGED <<closed, fanoutStopped, mutex, inbound, outbound, accepted, subState>>

Full(s) == Len(subBuf[s]) = SubCap

\* Under outSubsMu: a non-blocking send to each subscriber.
FanoutSendDropSlow ==  \* mutant: one full subscriber makes everyone lose the message
  /\ fan = "sending" /\ fan' = "ranging" /\ fanMsg' = 0
  /\ subBuf' = [s \in Subs |-> IF s \in outSubs /\ ~\E t \in outSubs : Full(t)
                               THEN Append(subBuf[s], fanMsg) ELSE subBuf[s]]
  /\ overflow' = [s \in Subs |-> IF s \in outSubs /\ Full(s)
                                 THEN overflow[s] \cup {fanMsg} ELSE overflow[s]]
  /\ UNCHANGED <<closed, fanoutStopped, mutex, inbound, outbound, accepted,
                 outSubs, subClosed, joinedAt, received>>

FanoutSendBlindly ==  \* mutant: buffers for a subscriber without a limit
  /\ fan = "sending" /\ fan' = "ranging" /\ fanMsg' = 0
  /\ subBuf' = [s \in Subs |-> IF s \in outSubs THEN Append(subBuf[s], fanMsg) ELSE subBuf[s]]
  /\ UNCHANGED <<closed, fanoutStopped, mutex, inbound, outbound, accepted,
                 outSubs, subClosed, joinedAt, received, overflow>>

FanoutSend ==
  /\ fan = "sending" /\ fan' = "ranging" /\ fanMsg' = 0
  /\ subBuf' = [s \in Subs |-> IF s \in outSubs /\ ~Full(s)
                               THEN Append(subBuf[s], fanMsg) ELSE subBuf[s]]
  /\ overflow' = [s \in Subs |-> IF s \in outSubs /\ Full(s)
                                 THEN overflow[s] \cup {fanMsg} ELSE overflow[s]]
  /\ UNCHANGED <<closed, fanoutStopped, mutex, inbound, outbound, accepted,
                 outSubs, subClosed, joinedAt, received>>

FanoutEnd ==  \* outbound is closed and drained: ask for the write side of b.mu
  /\ fan = "ranging" /\ outbound = <<>> /\ closed
  /\ writer = Nobody
  /\ writer' = Fanout /\ fan' = "stopping"
  /\ UNCHANGED <<closed, fanoutStopped, pc, inbound, outbound, accepted, fanMsg, subState>>

FanoutStop ==
  /\ fan = "stopping" /\ Readers = {}
  /\ writer' = Nobody /\ fan' = "stopped" /\ fanoutStopped' = TRUE
  /\ UNCHANGED <<closed, pc, inbound, outbound, accepted, fanMsg, subState>>

-----------------------------------------------------------------------------
Call(p) ==
  \/ PublishInbound(p)  \/ SendInbound(p)
  \/ ConsumeInbound(p)  \/ ReceiveInbound(p)
  \/ PublishOutbound(p) \/ SendOutbound(p)
  \/ ConsumeOutbound(p) \/ ReceiveOutbound(p) \/ LeaveOutbound(p)
  \/ GiveUp(p)
  \/ LockForClose(p) \/ Close(p)

Next ==
  \/ \E p \in Callers : Call(p)
  \/ \E l \in Listeners : SubscribeOutbound(l) \/ UnsubscribeOutbound(l) \/ Receive(l)
  \/ FanoutReceive \/ FanoutCount \/ FanoutSend \/ FanoutEnd \/ FanoutStop

Spec == Init /\ [][Next]_vars

(* A goroutine that can proceed does; nobody is obliged to make a call; a  *)
(* context that can end does (the command cancels it before it closes the  *)
(* bus, app/cli/commands/gateway.go:194-208).                              *)
(* The writer's Lock is fair: sync.Mutex hands itself over to a goroutine  *)
(* that waited too long, hence the strong fairness of FanoutEnd.           *)
Fairness ==
  /\ \A p \in Callers : /\ WF_vars(SendInbound(p)) /\ WF_vars(SendOutbound(p))
                       /\ WF_vars(ReceiveInbound(p)) /\ WF_vars(ReceiveOutbound(p))
                       /\ WF_vars(GiveUp(p)) /\ WF_vars(LeaveOutbound(p)) /\ WF_vars(Close(p))
  /\ WF_vars(FanoutReceive) /\ WF_vars(FanoutCount) /\ WF_vars(FanoutSend)
  /\ SF_vars(FanoutEnd) /\ WF_vars(FanoutStop)

FairSpec == Spec /\ Fairness

-----------------------------------------------------------------------------
\* No goroutine is inside a select on a channel that is closed: a send would
\* panic, and a receive would hand out a nil message that ConsumeOutbound
\* dereferences (queue.go:54-59, 71-76, 105-116, 134-142).  The fan-out sends to
\* registered subscriptions only, and those are open (266-281).
NeverOnClosedChannel ==
  /\ closed => Readers = {}
  /\ outSubs \cap subClosed = {}
  /\ \A p \in Callers : pc[p] = "recvOut" => p \in outSubs

SeqOf(s) == received[s] \o subBuf[s]

InFlight == {outbound[i] : i \in 1..Len(outbound)} \cup
            (IF fan \in {"holding", "sending"} THEN {fanMsg} ELSE {})

\* A subscriber sees the messages in the order in which the bus accepted them
\* and none of them twice, whoever else subscribes, leaves or is slow.  It gets
\* each one published after it subscribed, or that one is on the way, or the
\* subscriber's own channel was full (fanoutMessages, 265-281).
SubscribedGets ==
  /\ \A s \in Subs : \A i, j \in 1..Len(SeqOf(s)) : i < j => SeqOf(s)[i] < SeqOf(s)[j]
  /\ \A s \in outSubs : \A m \in joinedAt[s]+1..accepted :
       \/ m \in InFlight \cup overflow[s]
       \/ \E i \in 1..Len(SeqOf(s)) : SeqOf(s)[i] = m

\* Close gets the write side of b.mu although the blocked readers it waits for
\* keep new readers out of the bus (Close, 149-174), and the fan-out goroutine
\* then ends, having emptied the outbound channel.
CloseCompletes ==
  \A p \in Callers : pc[p] = "closing" ~> (closed /\ fanoutStopped /\ outbound = <<>>)
=============================================================================
