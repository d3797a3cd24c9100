-------------------------- MODULE MessageBusProofs --------------------------
(***************************************************************************)
(* Proofs about MessageBus, for any number of callers and listeners and    *)
(* any capacities: nobody is on a closed channel, and a subscriber gets    *)
(* the messages in order, once, and misses only what its own full channel  *)
(* made it miss.                                                           *)
(***************************************************************************)
EXTENDS MessageBus, SequenceTheorems, TLAPS

USE MessageBusAssumption

-----------------------------------------------------------------------------
(* The inductive invariant.                                                *)

Held == IF fan \in {"holding", "sending"} THEN 1 ELSE 0

\* The last message the fan-out goroutine is done with.
Handled == accepted - Len(outbound) - Held

\* The channel holds the messages accepted last, without a gap, and the fan-out
\* goroutine the one before them.
Numbered ==
  /\ Handled >= 0
  /\ \A i \in 1..Len(outbound) : outbound[i] = accepted - Len(outbound) + i
  /\ fan \in {"holding", "sending"} => fanMsg = accepted - Len(outbound)

\* What a subscriber has received comes before what its channel buffers.
InOrder == \A s \in Subs :
  /\ \A i, j \in 1..Len(received[s]) : i < j => received[s][i] < received[s][j]
  /\ \A i, j \in 1..Len(subBuf[s]) : i < j => subBuf[s][i] < subBuf[s][j]
  /\ \A i \in 1..Len(received[s]) : \A j \in 1..Len(subBuf[s]) : received[s][i] < subBuf[s][j]
  /\ \A i \in 1..Len(received[s]) : received[s][i] <= Handled
  /\ \A i \in 1..Len(subBuf[s]) : subBuf[s][i] <= Handled

\* Of what was handled since it subscribed, it has, or had no room for, every one.
Has(s, m) ==
  \/ m \in overflow[s]
  \/ \E i \in 1..Len(received[s]) : received[s][i] = m
  \/ \E i \in 1..Len(subBuf[s]) : subBuf[s][i] = m

Covered == \A s \in outSubs : \A m \in joinedAt[s]+1..Handled : Has(s, m)

IInv == TypeOK /\ NeverOnClosedChannel /\ Numbered /\ InOrder /\ Covered

LEMMA InitHolds == Init => IInv
<1> SUFFICES ASSUME Init PROVE IInv
  OBVIOUS
<1>1. TypeOK
  <2>1. <<>> \in Seq(Nat) /\ Len(<<>>) = 0
    OBVIOUS
  <2>2. closed \in BOOLEAN /\ fanoutStopped \in BOOLEAN
    BY Zenon DEF Init
  <2>q. QED
    BY <2>1, <2>2 DEF Init, TypeOK, Holding
<1>2. NeverOnClosedChannel
  BY DEF Init, NeverOnClosedChannel
<1>3. Numbered
  BY DEF Init, Numbered, Handled, Held
<1>4. InOrder /\ Covered
  BY DEF Init, InOrder, Covered
<1>q. QED
  BY <1>1, <1>2, <1>3, <1>4 DEF IInv

-----------------------------------------------------------------------------
(* The calls that touch neither the outbound messages nor a subscription.  *)

\* What they leave alone stays in order.
LEMMA OutboundUntouched ==
  ASSUME IInv, UNCHANGED <<outbound, accepted, fan, fanMsg, subState>>
  PROVE  Numbered' /\ InOrder' /\ Covered'
BY DEF IInv, subState, Numbered, InOrder, Covered, Has, Handled, Held

LEMMA PublishInboundKeeps ==
  ASSUME IInv, NEW p \in Callers, PublishInbound(p)
  PROVE  IInv'
<1>1. TypeOK'
  BY DEF IInv, TypeOK, Holding, subState, PublishInbound, Enter
<1>2. NeverOnClosedChannel'
  BY DEF IInv, TypeOK, NeverOnClosedChannel, Readers, Holding, subState, PublishInbound, Enter
<1>q. QED
  BY <1>1, <1>2, OutboundUntouched DEF IInv, PublishInbound

LEMMA SendInboundKeeps ==
  ASSUME IInv, NEW p \in Callers, SendInbound(p)
  PROVE  IInv'
<1>1. TypeOK'
  BY DEF IInv, TypeOK, Holding, subState, SendInbound, Leave
<1>2. NeverOnClosedChannel'
  BY DEF IInv, TypeOK, NeverOnClosedChannel, Readers, Holding, subState, SendInbound, Leave
<1>q. QED
  BY <1>1, <1>2, OutboundUntouched DEF IInv, SendInbound

LEMMA ConsumeInboundKeeps ==
  ASSUME IInv, NEW p \in Callers, ConsumeInbound(p)
  PROVE  IInv'
<1>1. TypeOK'
  BY DEF IInv, TypeOK, Holding, subState, ConsumeInbound, Enter
<1>2. NeverOnClosedChannel'
  BY DEF IInv, TypeOK, NeverOnClosedChannel, Readers, Holding, subState, ConsumeInbound, Enter
<1>q. QED
  BY <1>1, <1>2, OutboundUntouched DEF IInv, ConsumeInbound

LEMMA ReceiveInboundKeeps ==
  ASSUME IInv, NEW p \in Callers, ReceiveInbound(p)
  PROVE  IInv'
<1>1. TypeOK'
  BY DEF IInv, TypeOK, Holding, subState, ReceiveInbound, Leave
<1>2. NeverOnClosedChannel'
  BY DEF IInv, TypeOK, NeverOnClosedChannel, Readers, Holding, subState, ReceiveInbound, Leave
<1>q. QED
  BY <1>1, <1>2, OutboundUntouched DEF IInv, ReceiveInbound

LEMMA PublishOutboundKeeps ==
  ASSUME IInv, NEW p \in Callers, PublishOutbound(p)
  PROVE  IInv'
<1>1. TypeOK'
  BY DEF IInv, TypeOK, Holding, subState, PublishOutbound, Enter
<1>2. NeverOnClosedChannel'
  BY DEF IInv, TypeOK, NeverOnClosedChannel, Readers, Holding, subState, PublishOutbound, Enter
<1>q. QED
  BY <1>1, <1>2, OutboundUntouched DEF IInv, PublishOutbound

LEMMA GiveUpKeeps ==
  ASSUME IInv, NEW p \in Callers, GiveUp(p)
  PROVE  IInv'
<1>1. TypeOK'
  BY DEF IInv, TypeOK, Holding, subState, GiveUp
<1>2. NeverOnClosedChannel'
  BY DEF IInv, TypeOK, NeverOnClosedChannel, Readers, Holding, subState, GiveUp
<1>q. QED
  BY <1>1, <1>2, OutboundUntouched DEF IInv, GiveUp

LEMMA LockForCloseKeeps ==
  ASSUME IInv, NEW p \in Callers, LockForClose(p)
  PROVE  IInv'
<1>1. TypeOK'
  BY DEF IInv, TypeOK, Holding, subState, LockForClose
<1>2. NeverOnClosedChannel'
  BY DEF IInv, TypeOK, NeverOnClosedChannel, Readers, Holding, subState, LockForClose
<1>q. QED
  BY <1>1, <1>2, OutboundUntouched DEF IInv, LockForClose

LEMMA CloseKeeps ==
  ASSUME IInv, NEW p \in Callers, Close(p)
  PROVE  IInv'
<1>1. TypeOK'
  BY DEF IInv, TypeOK, Holding, Close
<1>2. NeverOnClosedChannel'
  BY DEF IInv, TypeOK, NeverOnClosedChannel, Readers, Holding, Close
<1>3. Numbered' /\ InOrder'
  BY DEF IInv, Numbered, InOrder, Handled, Held, Close
<1>4. Covered'
  BY DEF IInv, Covered, Has, Handled, Held, Close
<1>q. QED
  BY <1>1, <1>2, <1>3, <1>4 DEF IInv

LEMMA FanoutLocks ==
  ASSUME IInv, FanoutEnd \/ FanoutStop
  PROVE  IInv'
<1>1. TypeOK'
  BY DEF IInv, TypeOK, subState, FanoutEnd, FanoutStop
<1>2. NeverOnClosedChannel'
  BY DEF IInv, NeverOnClosedChannel, Readers, Holding, subState, FanoutEnd, FanoutStop
<1>3. Handled' = Handled /\ Numbered'
  BY DEF IInv, TypeOK, Numbered, Handled, Held, subState, FanoutEnd, FanoutStop
<1>4. InOrder' /\ Covered'
  BY <1>3 DEF IInv, InOrder, Covered, Has, subState, FanoutEnd, FanoutStop
<1>q. QED
  BY <1>1, <1>2, <1>3, <1>4 DEF IInv

-----------------------------------------------------------------------------
(* Subscriptions.                                                          *)

\* A new subscription has nothing and misses nothing.
LEMMA RegisterKeeps ==
  ASSUME IInv, NEW s \in Subs, Register(s), UNCHANGED <<outbound, accepted, fan, fanMsg>>
  PROVE  /\ Numbered' /\ InOrder' /\ Covered'
         /\ outSubs' \subseteq Subs /\ subClosed' \subseteq Subs
         /\ subBuf' \in [Subs -> Seq(Nat)] /\ \A t \in Subs : Len(subBuf'[t]) <= SubCap
         /\ joinedAt' \in [Subs -> 0..accepted] /\ overflow' \in [Subs -> SUBSET Nat]
         /\ received' \in [Subs -> Seq(Nat)]
<1>1. /\ subBuf'[s] = <<>> /\ received'[s] = <<>> /\ joinedAt'[s] = accepted
      /\ \A t \in Subs \ {s} : /\ subBuf'[t] = subBuf[t] /\ received'[t] = received[t]
                               /\ joinedAt'[t] = joinedAt[t] /\ overflow'[t] = overflow[t]
      /\ outSubs' = outSubs \cup {s}
  BY DEF IInv, TypeOK, Register
<1>2. Handled' = Handled /\ Numbered'
  BY DEF IInv, Numbered, Handled, Held
<1>3. InOrder'
  <2>1. \A t \in Subs \ {s} : subBuf'[t] = subBuf[t] /\ received'[t] = received[t]
    BY <1>1
  <2>2. Len(subBuf'[s]) = 0 /\ Len(received'[s]) = 0
    BY <1>1
  <2>q. QED
    BY <1>2, <2>1, <2>2 DEF IInv, InOrder
<1>4. Covered'
  <2>1. Handled <= accepted /\ Handled \in Int /\ accepted \in Nat
    BY DEF IInv, TypeOK, Handled, Held
  <2>2. \A m \in joinedAt'[s]+1..Handled : FALSE
    BY <1>1, <2>1
  <2>3. outSubs \subseteq Subs
    BY DEF IInv, TypeOK
  <2>4. \A t \in outSubs \ {s} : \A m : Has(t, m) => Has(t, m)'
    BY <1>1, <2>3 DEF Has
  <2>q. QED
    BY <1>1, <1>2, <2>2, <2>3, <2>4 DEF IInv, Covered
<1>5. subBuf' \in [Subs -> Seq(Nat)] /\ received' \in [Subs -> Seq(Nat)]
  BY DEF IInv, TypeOK, Register
<1>6. \A t \in Subs : Len(subBuf'[t]) <= SubCap
  <2>1. Len(<<>>) <= SubCap
    OBVIOUS
  <2>q. QED
    BY <1>1, <2>1 DEF IInv, TypeOK
<1>7. joinedAt' \in [Subs -> 0..accepted] /\ overflow' \in [Subs -> SUBSET Nat]
  BY DEF IInv, TypeOK, Register
<1>8. outSubs' \subseteq Subs /\ subClosed' \subseteq Subs
  BY DEF IInv, TypeOK, Register
<1>q. QED
  BY <1>2, <1>3, <1>4, <1>5, <1>6, <1>7, <1>8

\* A subscription that goes takes nothing from the others.
LEMMA UnregisterKeeps ==
  ASSUME IInv, NEW s \in Subs, Unregister(s), UNCHANGED <<outbound, accepted, fan, fanMsg>>
  PROVE  /\ Numbered' /\ InOrder' /\ Covered'
         /\ outSubs' \subseteq Subs /\ subClosed' \subseteq Subs
         /\ subBuf' \in [Subs -> Seq(Nat)] /\ \A t \in Subs : Len(subBuf'[t]) <= SubCap
         /\ joinedAt' \in [Subs -> 0..accepted] /\ overflow' \in [Subs -> SUBSET Nat]
         /\ received' \in [Subs -> Seq(Nat)]
<1>1. /\ subBuf'[s] \in {<<>>, subBuf[s]} /\ received'[s] \in {<<>>, received[s]}
      /\ subBuf'[s] = <<>> => received'[s] = <<>> \/ subBuf'[s] = subBuf[s]
      /\ \A t \in Subs \ {s} : /\ subBuf'[t] = subBuf[t] /\ received'[t] = received[t]
                               /\ joinedAt'[t] = joinedAt[t] /\ overflow'[t] = overflow[t]
      /\ outSubs' = outSubs \ {s}
  BY DEF IInv, TypeOK, Unregister, Forget
<1>2. Handled' = Handled /\ Numbered'
  BY DEF IInv, Numbered, Handled, Held
<1>3. InOrder'
  <2>1. \A t \in Subs \ {s} : subBuf'[t] = subBuf[t] /\ received'[t] = received[t]
    BY <1>1
  <2>2. /\ Len(subBuf'[s]) = 0 \/ subBuf'[s] = subBuf[s]
        /\ Len(received'[s]) = 0 \/ received'[s] = received[s]
    BY <1>1
  <2>q. QED
    BY <1>2, <2>1, <2>2 DEF IInv, InOrder
<1>4. Covered'
  <2>1. outSubs \subseteq Subs
    BY DEF IInv, TypeOK
  <2>2. \A t \in outSubs \ {s} : \A m : Has(t, m) => Has(t, m)'
    BY <1>1, <2>1 DEF Has
  <2>q. QED
    BY <1>1, <1>2, <2>1, <2>2 DEF IInv, Covered
<1>5. subBuf' \in [Subs -> Seq(Nat)] /\ received' \in [Subs -> Seq(Nat)]
  <2>1. CASE s \in Callers
    <3>1. subBuf' = [subBuf EXCEPT ![s] = <<>>] /\ received' = [received EXCEPT ![s] = <<>>]
      BY <2>1 DEF Unregister, Forget
    <3>2. <<>> \in Seq(Nat)
      OBVIOUS
    <3>q. QED
      BY <3>1, <3>2 DEF IInv, TypeOK
  <2>2. CASE s \notin Callers
    BY <2>2 DEF IInv, TypeOK, Unregister, Forget
  <2>q. QED
    BY <2>1, <2>2
<1>6. \A t \in Subs : Len(subBuf'[t]) <= SubCap
  <2>1. Len(<<>>) <= SubCap
    OBVIOUS
  <2>q. QED
    BY <1>1, <2>1 DEF IInv, TypeOK
<1>7. joinedAt' \in [Subs -> 0..accepted] /\ overflow' \in [Subs -> SUBSET Nat]
  BY DEF IInv, TypeOK, Unregister, Forget
<1>8. outSubs' \subseteq Subs /\ subClosed' \subseteq Subs
  BY DEF IInv, TypeOK, Unregister
<1>q. QED
  BY <1>2, <1>3, <1>4, <1>5, <1>6, <1>7, <1>8

\* What is taken from a channel is received: nothing is lost on the way.
LEMMA TakeKeeps ==
  ASSUME IInv, NEW s \in Subs, Take(s), UNCHANGED <<outbound, accepted, fan, fanMsg>>
  PROVE  /\ Numbered' /\ InOrder' /\ Covered'
         /\ subBuf' \in [Subs -> Seq(Nat)] /\ \A t \in Subs : Len(subBuf'[t]) <= SubCap
         /\ received' \in [Subs -> Seq(Nat)]
<1> DEFINE b == subBuf[s]  r == received[s]
<1>1. b \in Seq(Nat) /\ b # <<>> /\ r \in Seq(Nat)
  BY DEF IInv, TypeOK, Take
<1>2. /\ subBuf'[s] = Tail(b) /\ received'[s] = Append(r, Head(b))
      /\ \A t \in Subs \ {s} : subBuf'[t] = subBuf[t] /\ received'[t] = received[t]
      /\ UNCHANGED <<outSubs, joinedAt, overflow>>
  BY DEF IInv, TypeOK, Take
<1> HIDE DEF b, r
<1>3. /\ Tail(b) \in Seq(Nat) /\ Len(Tail(b)) = Len(b) - 1 /\ Len(b) \in Nat /\ Len(b) >= 1
      /\ \A i \in 1..Len(Tail(b)) : Tail(b)[i] = b[i+1]
      /\ Head(b) = b[1] /\ Head(b) \in Nat
  BY <1>1
<1>4. /\ Append(r, Head(b)) \in Seq(Nat) /\ Len(Append(r, Head(b))) = Len(r) + 1 /\ Len(r) \in Nat
      /\ \A i \in 1..Len(r) : Append(r, Head(b))[i] = r[i]
      /\ Append(r, Head(b))[Len(r)+1] = b[1]
  BY <1>1, <1>3
<1>5. Handled' = Handled /\ Numbered'
  BY DEF IInv, Numbered, Handled, Held
<1>6. InOrder'
  <2> SUFFICES ASSUME NEW t \in Subs
               PROVE  /\ \A i, j \in 1..Len(received'[t]) : i < j => received'[t][i] < received'[t][j]
                      /\ \A i, j \in 1..Len(subBuf'[t]) : i < j => subBuf'[t][i] < subBuf'[t][j]
                      /\ \A i \in 1..Len(received'[t]) : \A j \in 1..Len(subBuf'[t]) :
                            received'[t][i] < subBuf'[t][j]
                      /\ \A i \in 1..Len(received'[t]) : received'[t][i] <= Handled
                      /\ \A i \in 1..Len(subBuf'[t]) : subBuf'[t][i] <= Handled
    BY <1>5 DEF InOrder
  <2>1. CASE t # s
    BY <1>2, <2>1 DEF IInv, InOrder
  <2>2. CASE t = s
    <3>1. /\ \A i, j \in 1..Len(r) : i < j => r[i] < r[j]
          /\ \A i, j \in 1..Len(b) : i < j => b[i] < b[j]
          /\ \A i \in 1..Len(r) : \A j \in 1..Len(b) : r[i] < b[j]
          /\ \A i \in 1..Len(r) : r[i] <= Handled
          /\ \A i \in 1..Len(b) : b[i] <= Handled
      BY DEF IInv, InOrder, b, r
    <3> DEFINE tb == Tail(b)  ar == Append(r, Head(b))
    <3>2. /\ subBuf'[t] = tb /\ received'[t] = ar
          /\ Len(tb) = Len(b) - 1 /\ Len(ar) = Len(r) + 1
          /\ \A i \in 1..Len(tb) : tb[i] = b[i+1]
          /\ \A i \in 1..Len(r) : ar[i] = r[i]
          /\ ar[Len(r)+1] = b[1]
      BY <1>2, <1>3, <1>4, <2>2
    <3>3. Len(b) \in Nat /\ Len(b) >= 1 /\ Len(r) \in Nat
      BY <1>3, <1>4
    <3> HIDE DEF tb, ar
    <3>4. ASSUME NEW i \in 1..Len(ar), NEW j \in 1..Len(ar), i < j PROVE ar[i] < ar[j]
      <4>1. i \in 1..Len(r) /\ ar[i] = r[i]
        BY <3>2, <3>3, <3>4
      <4>2. CASE j \in 1..Len(r)
        BY <3>1, <3>2, <3>4, <4>1, <4>2
      <4>3. CASE j = Len(r) + 1
        BY <3>1, <3>2, <3>3, <4>1, <4>3
      <4>q. QED
        BY <3>2, <3>3, <4>2, <4>3
    <3>5. \A i, j \in 1..Len(tb) : i < j => tb[i] < tb[j]
      BY <3>1, <3>2, <3>3
    <3>6. \A i \in 1..Len(ar) : \A j \in 1..Len(tb) : ar[i] < tb[j]
      BY <3>1, <3>2, <3>3
    <3>7. /\ \A i \in 1..Len(ar) : ar[i] <= Handled
          /\ \A i \in 1..Len(tb) : tb[i] <= Handled
      BY <3>1, <3>2, <3>3
    <3>q. QED
      BY <3>2, <3>4, <3>5, <3>6, <3>7
  <2>q. QED
    BY <2>1, <2>2
<1>7. Covered'
  <2>1. \A t \in Subs : \A m : Has(t, m) => Has(t, m)'
    <3> SUFFICES ASSUME NEW t \in Subs, NEW m, Has(t, m) PROVE Has(t, m)'
      OBVIOUS
    <3>1. CASE t # s
      BY <1>2, <3>1 DEF Has
    <3>2. CASE t = s /\ m \in overflow[s]
      BY <1>2, <3>2 DEF Has
    <3>3. CASE t = s /\ \E i \in 1..Len(r) : r[i] = m
      <4> PICK i \in 1..Len(r) : r[i] = m
        BY <3>3
      <4>1. i \in 1..Len(r)+1 /\ Append(r, Head(b))[i] = m
        BY <1>4
      <4>q. QED
        BY <1>2, <1>4, <3>3, <4>1 DEF Has
    <3>4. CASE t = s /\ \E i \in 1..Len(b) : b[i] = m
      <4> PICK i \in 1..Len(b) : b[i] = m
        BY <3>4
      <4>1. CASE i = 1
        BY <1>2, <1>4, <3>4, <4>1 DEF Has
      <4>2. CASE i # 1
        <5>1. i-1 \in 1..Len(Tail(b)) /\ Tail(b)[i-1] = m
          BY <1>3, <4>2
        <5>q. QED
          BY <1>2, <3>4, <5>1 DEF Has
      <4>q. QED
        BY <4>1, <4>2
    <3>q. QED
      BY <3>1, <3>2, <3>3, <3>4 DEF Has, b, r
  <2>2. outSubs \subseteq Subs
    BY DEF IInv, TypeOK
  <2>q. QED
    BY <1>2, <1>5, <2>1, <2>2 DEF IInv, Covered
<1>8. subBuf' \in [Subs -> Seq(Nat)] /\ received' \in [Subs -> Seq(Nat)]
  <2>1. subBuf' = [subBuf EXCEPT ![s] = Tail(b)] /\ received' = [received EXCEPT ![s] = Append(r, Head(b))]
    BY DEF Take, b, r
  <2>q. QED
    BY <1>3, <1>4, <2>1 DEF IInv, TypeOK
<1>9. \A t \in Subs : Len(subBuf'[t]) <= SubCap
  <2>1. Len(b) <= SubCap
    BY DEF IInv, TypeOK, b
  <2>2. Len(Tail(b)) <= SubCap
    BY <1>3, <2>1
  <2>3. \A t \in Subs : Len(subBuf[t]) <= SubCap
    BY DEF IInv, TypeOK
  <2>q. QED
    BY <1>2, <2>2, <2>3
<1>q. QED
  BY <1>5, <1>6, <1>7, <1>8, <1>9

LEMMA SubscribeOutboundKeeps ==
  ASSUME IInv, NEW l \in Listeners, SubscribeOutbound(l)
  PROVE  IInv'
<1>1. l \in Subs /\ Register(l) /\ UNCHANGED <<outbound, accepted, fan, fanMsg>>
  BY DEF Subs, SubscribeOutbound
<1>2. Numbered' /\ InOrder' /\ Covered'
  BY <1>1, RegisterKeeps
<1>3. TypeOK'
  BY <1>1, RegisterKeeps DEF IInv, TypeOK, Holding, mutex, SubscribeOutbound
<1>4. NeverOnClosedChannel'
  BY DEF IInv, TypeOK, NeverOnClosedChannel, Readers, Holding, mutex, SubscribeOutbound, Register
<1>q. QED
  BY <1>2, <1>3, <1>4 DEF IInv

LEMMA UnsubscribeOutboundKeeps ==
  ASSUME IInv, NEW l \in Listeners, UnsubscribeOutbound(l)
  PROVE  IInv'
<1>1. l \in Subs /\ Unregister(l) /\ UNCHANGED <<outbound, accepted, fan, fanMsg>>
  BY DEF Subs, UnsubscribeOutbound
<1>2. Numbered' /\ InOrder' /\ Covered'
  BY <1>1, UnregisterKeeps
<1>3. TypeOK'
  BY <1>1, UnregisterKeeps DEF IInv, TypeOK, Holding, mutex, UnsubscribeOutbound
<1>4. NeverOnClosedChannel'
  BY DEF IInv, TypeOK, NeverOnClosedChannel, Readers, Holding, mutex, UnsubscribeOutbound, Unregister
<1>q. QED
  BY <1>2, <1>3, <1>4 DEF IInv

LEMMA ReceiveKeeps ==
  ASSUME IInv, NEW l \in Listeners, Receive(l)
  PROVE  IInv'
<1>1. l \in Subs /\ Take(l) /\ UNCHANGED <<outbound, accepted, fan, fanMsg>>
  BY DEF Subs, Receive
<1>2. Numbered' /\ InOrder' /\ Covered'
  BY <1>1, TakeKeeps
<1>3. TypeOK'
  BY <1>1, TakeKeeps DEF IInv, TypeOK, Holding, mutex, Receive, Take
<1>4. NeverOnClosedChannel'
  BY DEF IInv, TypeOK, NeverOnClosedChannel, Readers, Holding, mutex, Receive, Take
<1>q. QED
  BY <1>2, <1>3, <1>4 DEF IInv

LEMMA ConsumeOutboundKeeps ==
  ASSUME IInv, NEW p \in Callers, ConsumeOutbound(p)
  PROVE  IInv'
<1>1. p \in Subs /\ Register(p) /\ UNCHANGED <<outbound, accepted, fan, fanMsg>>
  BY DEF Subs, ConsumeOutbound
<1>2. Numbered' /\ InOrder' /\ Covered'
  BY <1>1, RegisterKeeps
<1>3. TypeOK'
  BY <1>1, RegisterKeeps DEF IInv, TypeOK, Holding, mutex, ConsumeOutbound, Enter
<1>4. NeverOnClosedChannel'
  BY DEF IInv, TypeOK, NeverOnClosedChannel, Readers, Holding, mutex, ConsumeOutbound, Enter, Register
<1>q. QED
  BY <1>2, <1>3, <1>4 DEF IInv

LEMMA ReceiveOutboundKeeps ==
  ASSUME IInv, NEW p \in Callers, ReceiveOutbound(p)
  PROVE  IInv'
<1>1. p \in Subs /\ Take(p) /\ UNCHANGED <<outbound, accepted, fan, fanMsg>>
  BY DEF Subs, ReceiveOutbound
<1>2. Numbered' /\ InOrder' /\ Covered'
  BY <1>1, TakeKeeps
<1>3. TypeOK'
  BY <1>1, TakeKeeps DEF IInv, TypeOK, Holding, mutex, ReceiveOutbound, Take
<1>4. NeverOnClosedChannel'
  BY DEF IInv, TypeOK, NeverOnClosedChannel, Readers, Holding, mutex, ReceiveOutbound, Take
<1>q. QED
  BY <1>2, <1>3, <1>4 DEF IInv

LEMMA LeaveOutboundKeeps ==
  ASSUME IInv, NEW p \in Callers, LeaveOutbound(p)
  PROVE  IInv'
<1>1. p \in Subs /\ Unregister(p) /\ UNCHANGED <<outbound, accepted, fan, fanMsg>>
  BY DEF Subs, LeaveOutbound
<1>2. Numbered' /\ InOrder' /\ Covered'
  BY <1>1, UnregisterKeeps
<1>3. TypeOK'
  BY <1>1, UnregisterKeeps DEF IInv, TypeOK, Holding, mutex, LeaveOutbound, Leave
<1>4. NeverOnClosedChannel'
  BY DEF IInv, TypeOK, NeverOnClosedChannel, Readers, Holding, mutex, LeaveOutbound, Leave, Unregister
<1>q. QED
  BY <1>2, <1>3, <1>4 DEF IInv

-----------------------------------------------------------------------------
(* Outbound messages.                                                      *)

LEMMA SendOutboundKeeps ==
  ASSUME IInv, NEW p \in Callers, SendOutbound(p)
  PROVE  IInv'
<1>1. outbound \in Seq(Nat) /\ accepted \in Nat
  BY DEF IInv, TypeOK
<1>2. /\ accepted' = accepted + 1 /\ outbound' = Append(outbound, accepted + 1)
      /\ Len(outbound) < Cap
      /\ UNCHANGED <<fan, fanMsg, outSubs, subBuf, joinedAt, received, overflow>>
  BY DEF SendOutbound, subState
<1>3. /\ outbound' \in Seq(Nat) /\ Len(outbound') = Len(outbound) + 1 /\ Len(outbound) \in Nat
      /\ \A i \in 1..Len(outbound) : outbound'[i] = outbound[i]
      /\ outbound'[Len(outbound)+1] = accepted + 1
  BY <1>1, <1>2
<1>4. TypeOK'
  <2>1. joinedAt' \in [Subs -> 0..accepted']
    BY <1>1, <1>2 DEF IInv, TypeOK
  <2>2. Len(outbound') <= Cap /\ accepted' \in Nat
    BY <1>1, <1>2, <1>3
  <2>q. QED
    BY <1>3, <2>1, <2>2 DEF IInv, TypeOK, Holding, SendOutbound, Leave, subState
<1>5. NeverOnClosedChannel'
  BY DEF IInv, TypeOK, NeverOnClosedChannel, Readers, Holding, SendOutbound, Leave, subState
<1>6. Handled' = Handled
  BY <1>1, <1>2, <1>3 DEF Handled, Held
<1>7. Numbered'
  <2>1. \A i \in 1..Len(outbound') : outbound'[i] = accepted' - Len(outbound') + i
    BY <1>1, <1>2, <1>3 DEF IInv, Numbered
  <2>2. accepted' - Len(outbound') = accepted - Len(outbound)
    BY <1>1, <1>2, <1>3
  <2>q. QED
    BY <1>2, <1>6, <2>1, <2>2 DEF IInv, Numbered
<1>8. InOrder' /\ Covered'
  BY <1>2, <1>6 DEF IInv, InOrder, Covered, Has
<1>q. QED
  BY <1>4, <1>5, <1>7, <1>8 DEF IInv

LEMMA FanoutReceiveKeeps ==
  ASSUME IInv, FanoutReceive
  PROVE  IInv'
<1>1. outbound \in Seq(Nat) /\ outbound # <<>> /\ accepted \in Nat
  BY DEF IInv, TypeOK, FanoutReceive
<1>2. /\ fan = "ranging" /\ fan' = "holding" /\ fanMsg' = Head(outbound) /\ outbound' = Tail(outbound)
      /\ UNCHANGED <<accepted, outSubs, subBuf, joinedAt, received, overflow>>
  BY DEF FanoutReceive, subState
<1>3. /\ outbound' \in Seq(Nat) /\ Len(outbound') = Len(outbound) - 1
      /\ Len(outbound) \in Nat /\ Len(outbound) >= 1
      /\ \A i \in 1..Len(outbound') : outbound'[i] = outbound[i+1]
      /\ fanMsg' = outbound[1] /\ fanMsg' \in Nat
  BY <1>1, <1>2
<1>4. TypeOK'
  BY <1>2, <1>3 DEF IInv, TypeOK, FanoutReceive, mutex, subState
<1>5. NeverOnClosedChannel'
  BY DEF IInv, NeverOnClosedChannel, Readers, FanoutReceive, mutex, subState
<1>6. Handled' = Handled
  BY <1>1, <1>2, <1>3 DEF Handled, Held
<1>7. Numbered'
  <2>1. \A i \in 1..Len(outbound') : outbound'[i] = accepted' - Len(outbound') + i
    BY <1>1, <1>2, <1>3 DEF IInv, Numbered
  <2>2. fanMsg' = accepted' - Len(outbound')
    BY <1>1, <1>2, <1>3 DEF IInv, Numbered
  <2>q. QED
    BY <1>6, <2>1, <2>2 DEF IInv, Numbered
<1>8. InOrder' /\ Covered'
  BY <1>2, <1>6 DEF IInv, InOrder, Covered, Has
<1>q. QED
  BY <1>4, <1>5, <1>7, <1>8 DEF IInv

LEMMA FanoutCountKeeps ==
  ASSUME IInv, FanoutCount
  PROVE  IInv'
<1>1. TypeOK'
  BY DEF IInv, TypeOK, FanoutCount, mutex, subState
<1>2. NeverOnClosedChannel'
  BY DEF IInv, NeverOnClosedChannel, Readers, FanoutCount, mutex, subState
<1>3. accepted \in Nat /\ Len(outbound) \in Nat
  BY DEF IInv, TypeOK
<1>4. Handled' >= Handled /\ (outSubs # {} => Handled' = Handled) /\ Handled \in Int /\ Handled' \in Int
  BY <1>3 DEF FanoutCount, Handled, Held
<1>5. Numbered'
  BY <1>3, <1>4 DEF IInv, Numbered, FanoutCount, Handled, Held
<1>6. InOrder'
  <2>1. UNCHANGED <<subBuf, received>> /\ subBuf \in [Subs -> Seq(Nat)] /\ received \in [Subs -> Seq(Nat)]
    BY DEF IInv, TypeOK, FanoutCount, subState
  <2>2. \A s \in Subs : /\ \A i \in 1..Len(subBuf[s]) : subBuf[s][i] \in Nat
                        /\ \A i \in 1..Len(received[s]) : received[s][i] \in Nat
    BY <2>1
  <2>q. QED
    BY <1>4, <2>1, <2>2 DEF IInv, InOrder
<1>7. Covered'
  BY <1>4 DEF IInv, Covered, Has, FanoutCount, subState
<1>q. QED
  BY <1>1, <1>2, <1>5, <1>6, <1>7 DEF IInv

\* Each subscriber gets the message behind what it has, or has no room for it.
LEMMA FanoutSendKeeps ==
  ASSUME IInv, FanoutSend
  PROVE  IInv'
<1>1. /\ fan = "sending" /\ fan' = "ranging" /\ fanMsg \in Nat /\ accepted \in Nat /\ Len(outbound) \in Nat
      /\ UNCHANGED <<accepted, outbound, outSubs, joinedAt, received>>
  BY DEF IInv, TypeOK, FanoutSend
<1>2. \A s \in Subs : /\ subBuf[s] \in Seq(Nat) /\ received[s] \in Seq(Nat)
                      /\ Len(subBuf[s]) \in Nat /\ Len(subBuf[s]) <= SubCap
  BY DEF IInv, TypeOK
<1>3. \A s \in Subs : \/ subBuf'[s] = subBuf[s]
                      \/ subBuf'[s] = Append(subBuf[s], fanMsg) /\ Len(subBuf[s]) < SubCap
  BY <1>2 DEF FanoutSend, Full
<1>4. \A s \in Subs :
        subBuf'[s] = Append(subBuf[s], fanMsg) =>
          /\ subBuf'[s] \in Seq(Nat) /\ Len(subBuf'[s]) = Len(subBuf[s]) + 1
          /\ \A i \in 1..Len(subBuf[s]) : subBuf'[s][i] = subBuf[s][i]
          /\ subBuf'[s][Len(subBuf[s])+1] = fanMsg
  BY <1>1, <1>2
<1>5. /\ subBuf' \in [Subs -> Seq(Nat)]
      /\ \A s \in Subs : Len(subBuf'[s]) <= SubCap
  <2>1. subBuf' = [s \in Subs |-> subBuf'[s]]
    BY DEF FanoutSend
  <2>2. \A s \in Subs : subBuf'[s] \in Seq(Nat) /\ Len(subBuf'[s]) <= SubCap
    BY <1>2, <1>3, <1>4
  <2>q. QED
    BY <2>1, <2>2
<1>6. overflow' \in [Subs -> SUBSET Nat]
  BY <1>1 DEF IInv, TypeOK, FanoutSend
<1>7. TypeOK'
  BY <1>5, <1>6 DEF IInv, TypeOK, FanoutSend, mutex
<1>8. NeverOnClosedChannel'
  BY DEF IInv, NeverOnClosedChannel, Readers, FanoutSend, mutex
<1>9. Handled \in Int /\ Handled' = Handled + 1 /\ fanMsg = Handled + 1
  BY <1>1 DEF IInv, Numbered, Handled, Held
<1>10. Numbered'
  BY <1>1, <1>9 DEF IInv, Numbered
<1>11. InOrder'
  <2> SUFFICES ASSUME NEW t \in Subs
               PROVE  /\ \A i, j \in 1..Len(received[t]) : i < j => received[t][i] < received[t][j]
                      /\ \A i, j \in 1..Len(subBuf'[t]) : i < j => subBuf'[t][i] < subBuf'[t][j]
                      /\ \A i \in 1..Len(received[t]) : \A j \in 1..Len(subBuf'[t]) :
                            received[t][i] < subBuf'[t][j]
                      /\ \A i \in 1..Len(received[t]) : received[t][i] <= Handled'
                      /\ \A i \in 1..Len(subBuf'[t]) : subBuf'[t][i] <= Handled'
    BY <1>1 DEF InOrder
  <2> DEFINE b == subBuf[t]  r == received[t]  c == subBuf'[t]
  <2>1. /\ \A i, j \in 1..Len(r) : i < j => r[i] < r[j]
        /\ \A i, j \in 1..Len(b) : i < j => b[i] < b[j]
        /\ \A i \in 1..Len(r) : \A j \in 1..Len(b) : r[i] < b[j]
        /\ \A i \in 1..Len(r) : r[i] <= Handled
        /\ \A i \in 1..Len(b) : b[i] <= Handled
    BY DEF IInv, InOrder
  <2>2. /\ Len(b) \in Nat /\ (\A i \in 1..Len(b) : b[i] \in Nat)
        /\ Len(r) \in Nat /\ (\A i \in 1..Len(r) : r[i] \in Nat)
    BY <1>2
  <2>3. \/ c = b
        \/ /\ Len(c) = Len(b) + 1
           /\ \A i \in 1..Len(b) : c[i] = b[i]
           /\ c[Len(b)+1] = fanMsg
    BY <1>3, <1>4
  <2> HIDE DEF b, r, c
  <2>4. ASSUME NEW i \in 1..Len(c), NEW j \in 1..Len(c), i < j PROVE c[i] < c[j]
    <3>1. CASE c = b
      BY <2>1, <2>4, <3>1
    <3>2. CASE c # b
      <4>1. i \in 1..Len(b) /\ c[i] = b[i]
        BY <2>2, <2>3, <2>4, <3>2
      <4>2. CASE j \in 1..Len(b)
        BY <2>1, <2>3, <2>4, <3>2, <4>1, <4>2
      <4>3. CASE j = Len(b) + 1
        BY <1>9, <2>1, <2>2, <2>3, <3>2, <4>1, <4>3
      <4>q. QED
        BY <2>2, <2>3, <3>2, <4>2, <4>3
    <3>q. QED
      BY <3>1, <3>2
  <2>5. \A i \in 1..Len(r) : \A j \in 1..Len(c) : r[i] < c[j]
    BY <1>9, <2>1, <2>2, <2>3
  <2>6. \A i \in 1..Len(r) : r[i] <= Handled'
    BY <1>9, <2>1, <2>2
  <2>7. \A i \in 1..Len(c) : c[i] <= Handled'
    BY <1>9, <2>1, <2>2, <2>3
  <2>q. QED
    BY <2>1, <2>4, <2>5, <2>6, <2>7 DEF b, r, c
<1>12. Covered'
  <2> SUFFICES ASSUME NEW s \in outSubs, NEW m \in joinedAt[s]+1..Handled+1 PROVE Has(s, m)'
    BY <1>1, <1>9 DEF Covered
  <2>1. s \in Subs /\ joinedAt[s] \in Nat
    BY <1>1 DEF IInv, TypeOK
  <2>2. CASE m <= Handled
    <3>1. Has(s, m)
      BY <1>9, <2>1, <2>2 DEF IInv, Covered
    <3>2. \A i \in 1..Len(subBuf[s]) : i \in 1..Len(subBuf'[s]) /\ subBuf'[s][i] = subBuf[s][i]
      BY <1>2, <1>3, <1>4, <2>1
    <3>3. overflow[s] \subseteq overflow'[s]
      BY <2>1 DEF FanoutSend
    <3>q. QED
      BY <1>1, <3>1, <3>2, <3>3 DEF Has
  <2>3. CASE m = Handled + 1
    <3>1. CASE Full(s)
      BY <1>9, <2>1, <2>3, <3>1 DEF FanoutSend, Has
    <3>2. CASE ~Full(s)
      <4>1. subBuf'[s] = Append(subBuf[s], fanMsg)
        BY <2>1, <3>2 DEF FanoutSend
      <4>2. /\ Len(subBuf[s])+1 \in 1..Len(subBuf'[s])
            /\ subBuf'[s][Len(subBuf[s])+1] = m
        BY <1>2, <1>4, <1>9, <2>1, <2>3, <4>1
      <4>q. QED
        BY <4>2 DEF Has
    <3>q. QED
      BY <3>1, <3>2
  <2>q. QED
    BY <1>9, <2>1, <2>2, <2>3
<1>q. QED
  BY <1>7, <1>8, <1>10, <1>11, <1>12 DEF IInv

-----------------------------------------------------------------------------
(* The theorems.                                                           *)

LEMMA NextKeeps == IInv /\ [Next]_vars => IInv'
<1> SUFFICES ASSUME IInv, [Next]_vars PROVE IInv'
  OBVIOUS
<1>1. CASE UNCHANGED vars
  <2>1. TypeOK' /\ NeverOnClosedChannel'
    BY <1>1 DEF vars, mutex, subState, IInv, TypeOK, NeverOnClosedChannel, Readers
  <2>q. QED
    BY <1>1, <2>1, OutboundUntouched DEF vars, IInv
<1>2. CASE \E p \in Callers : Call(p)
  <2> SUFFICES ASSUME NEW p \in Callers, Call(p) PROVE IInv'
    BY <1>2
  <2>1. CASE PublishInbound(p) \/ SendInbound(p) \/ ConsumeInbound(p) \/ ReceiveInbound(p)
    BY <2>1, PublishInboundKeeps, SendInboundKeeps, ConsumeInboundKeeps, ReceiveInboundKeeps
  <2>2. CASE PublishOutbound(p) \/ SendOutbound(p)
    BY <2>2, PublishOutboundKeeps, SendOutboundKeeps
  <2>3. CASE ConsumeOutbound(p) \/ ReceiveOutbound(p) \/ LeaveOutbound(p)
    BY <2>3, ConsumeOutboundKeeps, ReceiveOutboundKeeps, LeaveOutboundKeeps
  <2>4. CASE GiveUp(p) \/ LockForClose(p) \/ Close(p)
    BY <2>4, GiveUpKeeps, LockForCloseKeeps, CloseKeeps
  <2>q. QED
    BY <2>1, <2>2, <2>3, <2>4 DEF Call
<1>3. CASE \E l \in Listeners : SubscribeOutbound(l) \/ UnsubscribeOutbound(l) \/ Receive(l)
  BY <1>3, SubscribeOutboundKeeps, UnsubscribeOutboundKeeps, ReceiveKeeps
<1>4. CASE FanoutReceive \/ FanoutCount \/ FanoutSend \/ FanoutEnd \/ FanoutStop
  BY <1>4, FanoutReceiveKeeps, FanoutCountKeeps, FanoutSendKeeps, FanoutLocks
<1>q. QED
  BY <1>1, <1>2, <1>3, <1>4 DEF Next

\* Every reachable state satisfies the inductive invariant.
THEOREM Invariance == Spec => []IInv
<1>q. QED
  BY InitHolds, NextKeeps, PTL DEF Spec

\* The types, and the capacities of the channels.
THEOREM TypeCorrect == Spec => []TypeOK
<1>1. IInv => TypeOK
  BY DEF IInv
<1>q. QED
  BY <1>1, Invariance, PTL

\* No send and no receive is on a channel that is closed, however callers publish,
\* consume, subscribe and close.
THEOREM ChannelsOpen == Spec => []NeverOnClosedChannel
<1>1. IInv => NeverOnClosedChannel
  BY DEF IInv
<1>q. QED
  BY <1>1, Invariance, PTL

\* A subscriber gets what was published after it subscribed, in order and once,
\* except what its own full channel had no room for.
THEOREM SubscribersServed == Spec => []SubscribedGets
<1>1. IInv => SubscribedGets
  <2> SUFFICES ASSUME IInv PROVE SubscribedGets
    OBVIOUS
  <2>1. \A s \in Subs : received[s] \in Seq(Nat) /\ subBuf[s] \in Seq(Nat)
    BY DEF IInv, TypeOK
  <2>3. ASSUME NEW s \in Subs, NEW i \in 1..Len(SeqOf(s)), NEW j \in 1..Len(SeqOf(s)), i < j
        PROVE  SeqOf(s)[i] < SeqOf(s)[j]
    <3> DEFINE r == received[s]  b == subBuf[s]  q == SeqOf(s)
    <3>1. /\ \A x, y \in 1..Len(r) : x < y => r[x] < r[y]
          /\ \A x, y \in 1..Len(b) : x < y => b[x] < b[y]
          /\ \A x \in 1..Len(r) : \A y \in 1..Len(b) : r[x] < b[y]
      BY DEF IInv, InOrder
    <3>2. /\ Len(r) \in Nat /\ Len(b) \in Nat /\ Len(q) = Len(r) + Len(b)
          /\ \A x \in 1..Len(r) + Len(b) : q[x] = IF x <= Len(r) THEN r[x] ELSE b[x - Len(r)]
      BY <2>1, ConcatProperties, LenProperties DEF SeqOf
    <3> HIDE DEF r, b, q
    <3>3. CASE j <= Len(r)
      <4>1. i \in 1..Len(r) /\ j \in 1..Len(r) /\ q[i] = r[i] /\ q[j] = r[j]
        BY <2>3, <3>2, <3>3 DEF q
      <4>q. QED
        BY <2>3, <3>1, <4>1 DEF q
    <3>4. CASE i <= Len(r) /\ j > Len(r)
      <4>1. /\ i \in 1..Len(r) /\ j - Len(r) \in 1..Len(b)
            /\ q[i] = r[i] /\ q[j] = b[j - Len(r)]
        BY <2>3, <3>2, <3>4 DEF q
      <4>q. QED
        BY <3>1, <4>1 DEF q
    <3>5. CASE i > Len(r)
      <4>1. /\ i - Len(r) \in 1..Len(b) /\ j - Len(r) \in 1..Len(b) /\ i - Len(r) < j - Len(r)
            /\ q[i] = b[i - Len(r)] /\ q[j] = b[j - Len(r)]
        BY <2>3, <3>2, <3>5 DEF q
      <4>q. QED
        BY <3>1, <4>1 DEF q
    <3>q. QED
      BY <3>2, <3>3, <3>4, <3>5 DEF q
  <2>4. ASSUME NEW s \in outSubs, NEW m \in joinedAt[s]+1..accepted
        PROVE  \/ m \in InFlight \cup overflow[s]
               \/ \E i \in 1..Len(SeqOf(s)) : SeqOf(s)[i] = m
    <3>1. s \in Subs /\ joinedAt[s] \in Nat /\ accepted \in Nat /\ Len(outbound) \in Nat /\ m \in Nat
      BY DEF IInv, TypeOK
    <3>z. Handled \in Int /\ Held \in {0, 1}
      BY <3>1 DEF Handled, Held
    <3>2. CASE m <= Handled
      <4> DEFINE r == received[s]  b == subBuf[s]  q == SeqOf(s)
      <4>1. Has(s, m)
        BY <3>1, <3>z, <3>2 DEF IInv, Covered
      <4>2. /\ Len(r) \in Nat /\ Len(b) \in Nat /\ Len(q) = Len(r) + Len(b)
            /\ \A x \in 1..Len(r) + Len(b) : q[x] = IF x <= Len(r) THEN r[x] ELSE b[x - Len(r)]
        <5>1. r \in Seq(Nat) /\ b \in Seq(Nat) /\ q = r \o b
          BY <2>1, <3>1 DEF SeqOf
        <5> HIDE DEF r, b, q
        <5>q. QED
          BY <5>1, ConcatProperties, LenProperties
      <4> HIDE DEF r, b, q
      <4>3. CASE \E i \in 1..Len(r) : r[i] = m
        <5> PICK i \in 1..Len(r) : r[i] = m
          BY <4>3
        <5>1. i \in 1..Len(q) /\ q[i] = m
          BY <4>2
        <5>q. QED
          BY <5>1 DEF q
      <4>4. CASE \E i \in 1..Len(b) : b[i] = m
        <5> PICK i \in 1..Len(b) : b[i] = m
          BY <4>4
        <5>1. Len(r)+i \in 1..Len(q) /\ (Len(r)+i) - Len(r) = i /\ ~(Len(r)+i <= Len(r))
          BY <4>2
        <5>2. q[Len(r)+i] = m
          BY <4>2, <5>1
        <5>q. QED
          BY <5>1, <5>2 DEF q
      <4>q. QED
        BY <4>1, <4>3, <4>4 DEF Has, r, b
    <3>3. CASE m > Handled /\ m <= accepted - Len(outbound)
      <4>1. fan \in {"holding", "sending"} /\ m = accepted - Len(outbound)
        BY <3>1, <3>3 DEF Handled, Held
      <4>q. QED
        BY <4>1 DEF IInv, Numbered, InFlight
    <3>4. CASE m > accepted - Len(outbound)
      <4> DEFINE i == m - (accepted - Len(outbound))
      <4>1. i \in 1..Len(outbound)
        BY <3>1, <3>4
      <4>2. outbound[i] = accepted - Len(outbound) + i
        BY <4>1 DEF IInv, Numbered
      <4>3. accepted - Len(outbound) + i = m
        BY <3>1
      <4>q. QED
        BY <4>1, <4>2, <4>3 DEF InFlight
    <3>q. QED
      BY <3>1, <3>z, <3>2, <3>3, <3>4
  <2>q. QED
    BY <2>3, <2>4 DEF SubscribedGets
<1>q. QED
  BY <1>1, Invariance, PTL
=============================================================================
