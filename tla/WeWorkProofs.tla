---------------------------- MODULE WeWorkProofs ----------------------------
(***************************************************************************)
(* Proofs about WeWork, for any number of messages sent and received, of   *)
(* parts and of connections: acknowledgements reach the command they       *)
(* answer, nothing is left waiting, a reply context answers one message,   *)
(* and no connection outlives the loop.                                    *)
(***************************************************************************)
EXTENDS WeWork, TLAPS

USE WeWorkAssumption

-----------------------------------------------------------------------------
(* The inductive invariant.                                                *)

\* The id of a command: that of the message it replies to, or its own.
IdOf(k) == IF k[1] \in Outbound /\ context[k[1]] # NoContext THEN context[k[1]].req ELSE k

Waiting(k) == at[k] \in {"registered", "written"}

\* The connection is that of the session, or was closed; there is no other.
OneConnection ==
  /\ session = None <=> loop \in {"dialing", "waiting", "ended"}
  /\ conn \in {None, session}
  /\ up \subseteq {conn}

\* A subscription belongs to the session, which serves when it is acknowledged.
Subscription ==
  \A c \in Conns :
    /\ at[<<"subscribe", c>>] # "none" => session = c
    /\ loop = "serving" /\ session = c => at[<<"subscribe", c>>] = "ok"

\* A Send waits for one command at a time, the last one it made.
OnePart ==
  /\ \A o \in Outbound : sender[o] = "none" => part[o] = 0 /\ context[o] = NoContext
  /\ \A o \in Outbound, n \in 1 .. MaxParts :
       /\ at[<<o, n>>] # "none" => sender[o] = "waiting" /\ n = part[o]
       /\ chan[<<o, n>>] # Unmade => n <= part[o]

KnownIds == \A k \in Commands : Waiting(k) => req[k] = IdOf(k)

\* A frame is answered once, on the connection it was written to.  While its
\* Send has not returned, it is the frame of the last part.
FramesOpen ==
  \A f \in unanswered :
    /\ f.id = IdOf(f.of) /\ f.on \in up
    /\ f.of[1] = "subscribe" => f.of[2] = f.on
    /\ f.of[1] \in Outbound =>
         \/ sender[f.of[1]] = "returned"
         \/ sender[f.of[1]] = "waiting" /\ f.of[2] = part[f.of[1]]
    /\ chan[f.of].at \in {"open", "closed"} /\ at[f.of] # "registered"
    /\ \A g \in unanswered : g.of = f.of => g = f

\* A channel that waits is open and in one place: the map, or the reader that
\* took it out.
InOnePlace ==
  /\ \A i \in Ids : pending[i] # None => chan[pending[i]] = Empty
  /\ \A k \in Commands : at[k] = "registered" => chan[k].at \in {"open", "closed"}
  /\ \A c \in Conns : reader[c].at = "resolving" =>
       /\ at[reader[c].chan] # "registered"
       /\ \A i \in Ids : pending[i] # reader[c].chan
       /\ \A d \in Conns : reader[d].at = "resolving" /\ reader[d].chan = reader[c].chan => d = c
       /\ \A f \in unanswered : f.of # reader[c].chan
       /\ reader[c].chan[1] = "subscribe" => reader[c].chan[2] = c

\* Every request id of the server is in one place: waiting, or taken by one Send.
IdsApart ==
  /\ \A c \in Chats : \A x \in byChatID[c] :
       /\ ChatOf(x.msg) = c /\ x.req[2] <= received
       /\ \A d \in Chats : \A y \in byChatID[d] : x.req = y.req => x = y
       /\ \A o \in Outbound : context[o].req # x.req
  /\ \A o \in Outbound : context[o] # NoContext =>
       /\ context[o].req[2] <= received
       /\ \A p \in Outbound : context[p].req = context[o].req => p = o
  /\ \A msg \in Messages : byMsgID[msg] # NoContext =>
       byMsgID[msg].msg = msg /\ byMsgID[msg] \in byChatID[ChatOf(msg)]

IInv ==
  /\ TypeOK /\ OneConnection /\ Subscription /\ OnePart /\ KnownIds
  /\ FramesOpen /\ InOnePlace /\ IdsApart /\ AnswersOwn /\ NoWaiterLeft

-----------------------------------------------------------------------------
(* Data.                                                                   *)

\* A command is a part of a message or a subscription, not both; no command is a
\* request id of the server.
LEMMA Kinds ==
  /\ \A o \in Outbound, n \in 1 .. MaxParts : <<o, n>> \in Commands
  /\ \A c \in Conns : <<"subscribe", c>> \in Commands
  /\ \A k \in Commands :
       /\ k = <<k[1], k[2]>>
       /\ \/ k[1] \in Outbound /\ k[2] \in 1 .. MaxParts /\ k[1] # "subscribe"
          \/ k[1] = "subscribe" /\ k[2] \in Conns /\ k[1] \notin Outbound
  /\ Commands \subseteq Ids /\ Reqs \subseteq Ids /\ Commands \cap Reqs = {}
  /\ None \notin Commands
BY DEF Commands, Ids, Reqs

\* No context is the context of no message.
LEMMA ContextKinds ==
  /\ NoContext \notin Contexts
  /\ \A x \in Contexts : x.msg \in Messages /\ x.req \in Reqs
  /\ NoContext.req \notin Reqs
BY DEF Contexts, NoContext, Messages, Reqs, Ids

\* The answers and the states of a channel are told apart by where it is.
LEMMA Channels ==
  /\ Unmade # Empty /\ Unmade # Closed /\ Empty # Closed
  /\ \A a \in Answers : /\ a.at = "answered" /\ a.of \in Commands /\ a.ok \in BOOLEAN
                        /\ a # Empty /\ a # Unmade /\ a # Closed
  /\ Unmade.at = "none" /\ Empty.at = "open" /\ Closed.at = "closed"
BY DEF Unmade, Empty, Closed, Answers

\* So are the states of a reader.
LEMMA Readers ==
  /\ \A r \in {Idle, Reading, Blocked, Over} : r.at # "resolving"
  /\ Idle # Reading /\ Idle # Blocked /\ Idle # Over /\ Reading # Over /\ Reading # Blocked
  /\ Idle.at = "none" /\ Reading.at = "reading"
BY DEF Idle, Reading, Blocked, Over

LEMMA InitInv == Init => IInv
<1> SUFFICES ASSUME Init PROVE IInv
  OBVIOUS
<1> USE DEF Init
<1>1. TypeOK
  <2>1. unanswered \subseteq Frames /\ received \in 0 .. LastReq /\ part \in [Outbound -> 0 .. MaxParts]
    OBVIOUS
  <2>2. reader \in [Conns -> {Idle, Reading, Blocked, Over}
                     \cup [at : {"resolving"}, chan : Commands, answer : Answers]]
    BY Zenon
  <2>. QED  BY <2>1, <2>2, Zenon DEF TypeOK
<1>2. OneConnection /\ Subscription /\ OnePart /\ KnownIds
  BY Kinds DEF OneConnection, Subscription, OnePart, KnownIds, Waiting
<1>3. FramesOpen /\ InOnePlace
  BY Readers DEF FramesOpen, InOnePlace
<1>4. IdsApart
  BY DEF IdsApart
<1>5. AnswersOwn /\ NoWaiterLeft
  BY Readers, Channels DEF AnswersOwn, NoWaiterLeft
<1>. QED  BY <1>1, <1>2, <1>3, <1>4, <1>5 DEF IInv

-----------------------------------------------------------------------------
(* Types.                                                                  *)

LEMMA TypeStep == IInv /\ [Next]_vars => TypeOK'
<1> SUFFICES ASSUME IInv, Next PROVE TypeOK'
  BY DEF IInv, TypeOK, vars, sockets, acks, contexts, senders
<1> USE DEF IInv, TypeOK, sockets, acks, contexts, senders
<1>1. ASSUME NEW k \in Commands, Command(k) PROVE TypeOK'
  <2>1. ASSUME NEW result \in {"ok", "failed"}, Return(k, result)
        PROVE  /\ at' \in [Commands -> {"none", "registered", "written", "ok", "failed"}]
               /\ req' \in [Commands -> Ids \cup {None}]
               /\ sender' \in [Outbound -> {"none", "ready", "waiting", "returned"}]
    BY <2>1 DEF Return
  <2>2. ASSUME NEW id \in Ids, UnregisterAck(id)
        PROVE  /\ pending' \in [Ids -> Commands \cup {None}]
               /\ chan' \in [Commands -> {Unmade, Empty, Closed} \cup Answers]
    BY <2>2 DEF UnregisterAck
  <2>3. CASE WriteJSON(k)
    <3>1. req[k] \in Ids
      BY <2>3, Kinds DEF WriteJSON, KnownIds, Waiting, IdOf, Contexts
    <3>2. [of |-> k, id |-> req[k], on |-> conn] \in Frames
      BY <2>3, <3>1 DEF WriteJSON, Frames
    <3>. QED  BY <2>3, <3>2 DEF WriteJSON
  <2>4. CASE WriteFails(k)
    BY <2>4, <2>1, <2>2, Kinds DEF WriteFails, Return, KnownIds, Waiting, IdOf, Contexts
  <2>5. CASE TakeAck(k)
    BY <2>5, <2>1 DEF TakeAck, Return
  <2>6. CASE Timeout(k)
    BY <2>6, <2>1, <2>2, Kinds DEF Timeout, Return, KnownIds, Waiting, IdOf, Contexts
  <2>. QED  BY <1>1, <2>3, <2>4, <2>5, <2>6 DEF Command
<1>2. ASSUME NEW c \in Conns, Reader(c) PROVE TypeOK'
  <2>1. ASSUME NEW f \in unanswered, ResolveAck(c, f) PROVE TypeOK'
    BY <2>1 DEF ResolveAck, Frames, Answers
  <2>2. CASE SendAck(c)
    BY <2>2, Readers DEF SendAck
  <2>3. ASSUME NEW msg \in Messages, StoreReplyContext(msg)
        PROVE  /\ received' \in 0 .. LastReq
               /\ byMsgID' \in [Messages -> Contexts \cup {NoContext}]
               /\ byChatID' \in [Chats -> SUBSET Contexts]
    <3> DEFINE ctx == [msg |-> msg, req |-> <<"server", received + 1>>]
    <3>1. received + 1 \in 1 .. LastReq
      BY <2>3 DEF StoreReplyContext
    <3>2. ctx \in Contexts
      BY <3>1 DEF Contexts, Reqs
    <3>3. /\ received' = received + 1
          /\ byMsgID' = [byMsgID EXCEPT ![msg] = ctx]
          /\ byChatID' = [byChatID EXCEPT ![ChatOf(msg)] = @ \cup {ctx}]
      BY <2>3 DEF StoreReplyContext
    <3> HIDE DEF ctx
    <3>4. received' \in 0 .. LastReq
      BY <3>1, <3>3
    <3>5. byMsgID' \in [Messages -> Contexts \cup {NoContext}]
      BY <3>2, <3>3
    <3>6. byChatID' \in [Chats -> SUBSET Contexts]
      BY <3>2, <3>3
    <3>. QED  BY <3>4, <3>5, <3>6
  <2>4. CASE ReadMessage(c)
    BY <2>4, <2>3 DEF ReadMessage, Seen
  <2>5. CASE ReadEvent(c)
    BY <2>5, <2>3 DEF ReadEvent, Seen
  <2>6. CASE Published(c)
    BY <2>6 DEF Published
  <2>7. CASE ReaderEnds(c)
    BY <2>7 DEF ReaderEnds
  <2>. QED  BY <1>2, <2>1, <2>2, <2>4, <2>5, <2>6, <2>7 DEF Reader
<1>3. CASE Loop
  <2>1. CASE Dial
    BY <2>1, Kinds DEF Dial, RegisterAck
  <2>2. CASE SessionEnds
    BY <2>2 DEF SessionEnds, EndSession, CloseConn, Down
  <2>. QED  BY <1>3, <2>1, <2>2 DEF Loop, LoopTop, DialFails, Subscribed
<1>4. CASE Stop \/ CloseStopChan \/ Cancel \/ Drop
  BY <1>4 DEF Stop, CloseStopChan, Cancel, Drop, CloseConn, Down
<1>5. ASSUME NEW o \in Outbound, Sender(o) PROVE TypeOK'
  <2>1. ASSUME NEW chat \in Chats, PopOldest(o, chat)
        PROVE  /\ byMsgID' \in [Messages -> Contexts \cup {NoContext}]
               /\ byChatID' \in [Chats -> SUBSET Contexts]
               /\ context' \in [Outbound -> Contexts \cup {NoContext}]
    BY <2>1 DEF PopOldest
  <2>2. ASSUME NEW msg \in Messages, PopByMessage(o, msg)
        PROVE  /\ byMsgID' \in [Messages -> Contexts \cup {NoContext}]
               /\ byChatID' \in [Chats -> SUBSET Contexts]
               /\ context' \in [Outbound -> Contexts \cup {NoContext}]
    BY <2>2 DEF PopByMessage
  <2>3. CASE SendMessage(o)
    BY <2>3, <2>1, <2>2 DEF SendMessage, Begin
  <2>4. CASE SendStream(o)
    BY <2>4, <2>1 DEF SendStream, Begin
  <2>5. CASE SendPart(o)
    <3> DEFINE k == <<o, part[o] + 1>>
    <3>1. k \in Commands /\ k \in Ids
      BY <2>5, Kinds DEF SendPart
    <3>2. context[o] # NoContext => context[o].req \in Ids
      BY ContextKinds, Kinds
    <3>. QED  BY <2>5, <3>1, <3>2 DEF SendPart, RegisterAck
  <2>6. CASE SendReturns(o)
    BY <2>6 DEF SendReturns
  <2>. QED  BY <1>5, <2>3, <2>4, <2>5, <2>6 DEF Sender
<1>. QED  BY <1>1, <1>2, <1>3, <1>4, <1>5 DEF Next

-----------------------------------------------------------------------------
(* The connection and the session.                                         *)

\* What the steps of a command do to where the commands are.
LEMMA CommandSteps ==
  ASSUME TypeOK, NEW k \in Commands, Command(k)
  PROVE  /\ at[k] \in {"registered", "written"}
         /\ \E l \in {"none", "written", "ok", "failed"}, r \in {"ready", "returned"} :
              /\ at' = [at EXCEPT ![k] = l]
              /\ req' = IF l = "written" THEN req ELSE [req EXCEPT ![k] = None]
              /\ sender' = IF l = "none" THEN [sender EXCEPT ![k[1]] = r] ELSE sender
              /\ l = "none" => k[1] \in Outbound
              /\ l \in {"ok", "failed"} => k[1] = "subscribe"
         /\ UNCHANGED <<sockets, reader, contexts, part, context>>
<1> USE Kinds DEF TypeOK, sockets, acks, contexts, senders
<1> DEFINE Ends(l, r) ==
             /\ at' = [at EXCEPT ![k] = l]
             /\ req' = IF l = "written" THEN req ELSE [req EXCEPT ![k] = None]
             /\ sender' = IF l = "none" THEN [sender EXCEPT ![k[1]] = r] ELSE sender
             /\ l = "none" => k[1] \in Outbound
             /\ l \in {"ok", "failed"} => k[1] = "subscribe"
<1>1. CASE WriteJSON(k)
  <2>1. Ends("written", "ready")
    BY <1>1 DEF WriteJSON
  <2>. QED  BY <1>1, <2>1 DEF WriteJSON
<1>2. ASSUME NEW a \in {"ok", "failed"}, Return(k, a)
      PROVE  /\ \E l \in {"none", "ok", "failed"}, r \in {"ready", "returned"} : Ends(l, r)
             /\ UNCHANGED <<sockets, reader, contexts, part, context>>
  <2>1. CASE k[1] = "subscribe"
    <3>1. Ends(a, "ready")
      BY <1>2, <2>1 DEF Return
    <3>. QED  BY <3>1, <1>2 DEF Return
  <2>2. CASE k[1] # "subscribe"
    <3>1. Ends("none", IF a = "ok" THEN "ready" ELSE "returned")
      BY <1>2, <2>2 DEF Return
    <3>. QED  BY <3>1, <1>2 DEF Return
  <2>. QED  BY <2>1, <2>2
<1>3. CASE WriteFails(k)
  BY <1>2, <1>3 DEF WriteFails
<1>4. CASE TakeAck(k)
  BY <1>2, <1>4 DEF TakeAck
<1>5. CASE Timeout(k)
  BY <1>2, <1>5 DEF Timeout
<1>. QED  BY <1>1, <1>3, <1>4, <1>5 DEF Command

\* What they do to the channels: those that are closed were open, or its own.
LEMMA CommandChannels ==
  ASSUME IInv, NEW k \in Commands, Command(k)
  PROVE  \A j \in Commands : chan'[j] = chan[j] \/ (chan'[j] = Closed /\ (j = k \/ chan[j] = Empty))
<1>1. chan \in [Commands -> {Unmade, Empty, Closed} \cup Answers]
  BY DEF IInv, TypeOK
<1>2. ASSUME NEW id \in Ids, UnregisterAck(id)
      PROVE  \A j \in Commands : chan'[j] = chan[j] \/ (chan'[j] = Closed /\ chan[j] = Empty)
  <2>1. CASE pending[id] = None
    BY <1>2, <2>1 DEF UnregisterAck
  <2>2. CASE pending[id] # None
    <3>1. chan[pending[id]] = Empty /\ chan' = [chan EXCEPT ![pending[id]] = Closed]
      BY <1>2, <2>2 DEF UnregisterAck, InOnePlace, IInv
    <3>. QED  BY <1>1, <3>1
  <2>. QED  BY <2>1, <2>2
<1>3. at[k] \in {"registered", "written"} => req[k] \in Ids
  BY Kinds, ContextKinds DEF KnownIds, Waiting, IdOf, IInv, TypeOK
<1>4. CASE WriteFails(k) \/ Timeout(k)
  BY <1>2, <1>3, <1>4 DEF WriteFails, Timeout
<1>5. CASE TakeAck(k)
  BY <1>1, <1>5 DEF TakeAck
<1>. QED  BY <1>4, <1>5 DEF Command, WriteJSON

LEMMA ConnStep == IInv /\ [Next]_vars => OneConnection' /\ Subscription'
<1> SUFFICES ASSUME IInv, [Next]_vars PROVE OneConnection' /\ Subscription'
  OBVIOUS
<1> USE Kinds DEF IInv, TypeOK, OneConnection, Subscription, sockets, acks, contexts, senders
<1>1. ASSUME NEW k \in Commands, Command(k) PROVE OneConnection' /\ Subscription'
  <2>1. OneConnection'
    BY <1>1, CommandSteps
  <2>2. PICK l \in {"none", "written", "ok", "failed"} :
          /\ at' = [at EXCEPT ![k] = l]
          /\ l = "none" => k[1] # "subscribe"
    BY <1>1, CommandSteps, Kinds
  <2>3. at[k] \in {"registered", "written"} /\ UNCHANGED sockets
    BY <1>1, CommandSteps
  <2>4. ASSUME NEW c \in Conns
        PROVE  /\ at'[<<"subscribe", c>>] # "none" => session = c
               /\ loop = "serving" /\ session = c => at'[<<"subscribe", c>>] = "ok"
    <3>1. CASE k = <<"subscribe", c>>
      BY <2>2, <2>3, <3>1
    <3>2. CASE k # <<"subscribe", c>>
      BY <2>2, <3>2
    <3>. QED  BY <3>1, <3>2
  <2>5. Subscription'
    BY <2>3, <2>4
  <2>. QED  BY <2>1, <2>5
<1>2. ASSUME UNCHANGED <<sockets, at>> PROVE OneConnection' /\ Subscription'
  BY <1>2
<1>3. ASSUME NEW c \in Conns, Reader(c) PROVE UNCHANGED <<sockets, at>>
  BY <1>3 DEF Reader, ResolveAck, SendAck, ReadMessage, ReadEvent, Published, ReaderEnds
<1>4. CASE Dial
  <2>1. PICK c \in Conns :
          /\ session' = c /\ conn' = c /\ up' = up \cup {c}
          /\ at' = [at EXCEPT ![<<"subscribe", c>>] = "registered"]
    BY <1>4 DEF Dial, RegisterAck
  <2>. QED  BY <1>4, <2>1 DEF Dial
<1>5. CASE LoopTop \/ DialFails \/ Subscribed
  BY <1>5 DEF LoopTop, DialFails, Subscribed
<1>6. CASE SessionEnds
  <2>1. /\ loop \in {"subscribing", "serving"} /\ loop' = "waiting"
        /\ session' = None /\ conn' = None /\ up' = up \ {conn}
        /\ at' = [at EXCEPT ![<<"subscribe", session>>] = "none"]
    BY <1>6 DEF SessionEnds, EndSession, CloseConn, Down
  <2>. QED  BY <2>1
<1>7. CASE Stop \/ Cancel \/ CloseStopChan \/ Drop
  BY <1>7 DEF Stop, Cancel, CloseStopChan, Drop, CloseConn, Down
<1>8. ASSUME NEW o \in Outbound, SendMessage(o) \/ SendStream(o) \/ SendReturns(o)
      PROVE  UNCHANGED <<sockets, at>>
  BY <1>8 DEF SendMessage, SendStream, SendReturns, Begin
<1>9. ASSUME NEW o \in Outbound, SendPart(o) PROVE OneConnection' /\ Subscription'
  <2>1. /\ <<o, part[o] + 1>> \in Commands
        /\ at' = [at EXCEPT ![<<o, part[o] + 1>>] = "registered"]
        /\ UNCHANGED sockets
    BY <1>9 DEF SendPart, RegisterAck
  <2>. QED  BY <2>1
<1>. QED
  BY <1>1, <1>2, <1>3, <1>4, <1>5, <1>6, <1>7, <1>8, <1>9 DEF Next, Loop, Sender, vars

-----------------------------------------------------------------------------
(* The parts of a message.                                                 *)

\* A step of a reader changes no more than a channel that was open.
LEMMA ReaderChannels ==
  ASSUME IInv, NEW c \in Conns, Reader(c)
  PROVE  /\ \A j \in Commands : chan'[j] = chan[j] \/ (chan[j] = Empty /\ chan'[j] # Unmade)
         /\ UNCHANGED <<sockets, at, req, senders>>
<1> USE DEF sockets, acks, contexts, senders
<1>1. CASE SendAck(c)
  <2> DEFINE k == reader[c].chan
  <2>1. reader[c].at = "resolving" /\ k \in Commands /\ reader[c].answer \in Answers
    BY <1>1, Readers DEF SendAck, IInv, TypeOK
  <2>2. chan[k] = Empty /\ chan \in [Commands -> {Unmade, Empty, Closed} \cup Answers]
    BY <2>1 DEF AnswersOwn, IInv, TypeOK
  <2>3. \E a \in Answers \cup {Closed} : chan' = [chan EXCEPT ![k] = a]
    BY <1>1, <2>1 DEF SendAck
  <2>4. \A j \in Commands : chan'[j] = chan[j] \/ (chan[j] = Empty /\ chan'[j] # Unmade)
    BY <2>1, <2>2, <2>3, Channels
  <2>. QED  BY <1>1, <2>4 DEF SendAck
<1>2. ASSUME NEW f \in unanswered, ResolveAck(c, f)
      PROVE  UNCHANGED <<chan, sockets, at, req, senders>>
  BY <1>2 DEF ResolveAck
<1>3. CASE ReadMessage(c) \/ ReadEvent(c) \/ Published(c) \/ ReaderEnds(c)
  BY <1>3 DEF ReadMessage, ReadEvent, Published, ReaderEnds
<1>. QED  BY <1>1, <1>2, <1>3 DEF Reader

LEMMA PartsFrame ==
  ASSUME IInv, UNCHANGED <<at, req, senders>>,
         \A j \in Commands : chan'[j] = chan[j] \/ chan[j] = Empty
  PROVE  OnePart' /\ KnownIds'
BY Kinds, Channels DEF IInv, OnePart, KnownIds, Waiting, IdOf, senders

LEMMA PartsStep == IInv /\ [Next]_vars => OnePart' /\ KnownIds'
<1> SUFFICES ASSUME IInv, [Next]_vars PROVE OnePart' /\ KnownIds'
  OBVIOUS
<1> USE Kinds DEF sockets, acks, contexts, senders
<1>1. ASSUME NEW k \in Commands, Command(k) PROVE OnePart' /\ KnownIds'
  <2> USE DEF IInv
  <2>1. PICK l \in {"none", "written", "ok", "failed"}, r \in {"ready", "returned"} :
          /\ at' = [at EXCEPT ![k] = l]
          /\ req' = IF l = "written" THEN req ELSE [req EXCEPT ![k] = None]
          /\ sender' = IF l = "none" THEN [sender EXCEPT ![k[1]] = r] ELSE sender
          /\ l = "none" => k[1] \in Outbound
          /\ l \in {"ok", "failed"} => k[1] = "subscribe"
    BY <1>1, CommandSteps
  <2>2. at[k] \in {"registered", "written"} /\ UNCHANGED <<part, context>>
    BY <1>1, CommandSteps
  <2>3. k[1] \in Outbound => sender[k[1]] = "waiting" /\ k[2] = part[k[1]]
    BY <2>2 DEF OnePart
  <2>4. ASSUME NEW o \in Outbound PROVE sender'[o] = "none" => part'[o] = 0 /\ context'[o] = NoContext
    BY <2>1, <2>2 DEF OnePart, TypeOK
  <2>5. ASSUME NEW o \in Outbound, NEW n \in 1 .. MaxParts
        PROVE  /\ at'[<<o, n>>] # "none" => sender'[o] = "waiting" /\ n = part[o]
               /\ chan'[<<o, n>>] # Unmade => n <= part[o]
    <3>1. CASE k = <<o, n>>
      BY <2>1, <2>3, <3>1 DEF TypeOK
    <3>2. CASE k # <<o, n>>
      <4>1. at'[<<o, n>>] = at[<<o, n>>]
        BY <2>1, <3>2 DEF TypeOK
      <4>2. at[<<o, n>>] # "none" => k[1] # o
        BY <2>3, <3>2 DEF OnePart
      <4>3. at[<<o, n>>] # "none" => sender'[o] = "waiting" /\ n = part[o]
        BY <2>1, <4>2 DEF OnePart, TypeOK
      <4>4. chan'[<<o, n>>] # Unmade => chan[<<o, n>>] # Unmade
        BY <1>1, <3>2, CommandChannels, Channels
      <4>. QED  BY <4>1, <4>3, <4>4 DEF OnePart
    <3>. QED  BY <3>1, <3>2
  <2>6. OnePart'
    BY <2>2, <2>4, <2>5 DEF OnePart
  <2>7. KnownIds'
    BY <2>1, <2>2 DEF KnownIds, Waiting, IdOf, TypeOK
  <2>. QED  BY <2>6, <2>7
<1>2. ASSUME NEW c \in Conns, Reader(c) PROVE OnePart' /\ KnownIds'
  BY <1>2, ReaderChannels, PartsFrame
<1>3. ASSUME NEW c \in Conns, session' = c, RegisterAck(<<"subscribe", c>>, <<"subscribe", c>>),
             UNCHANGED senders
      PROVE  OnePart' /\ KnownIds'
  BY <1>3 DEF RegisterAck, OnePart, KnownIds, Waiting, IdOf, TypeOK, IInv
<1>4. CASE SessionEnds
  <2>1. at' = [at EXCEPT ![<<"subscribe", session>>] = "none"] /\ UNCHANGED <<chan, req, senders>>
    BY <1>4 DEF SessionEnds, EndSession
  <2>. QED  BY <2>1 DEF OnePart, KnownIds, Waiting, IdOf, TypeOK, IInv
<1>5. CASE LoopTop \/ DialFails \/ Subscribed \/ Stop \/ Cancel \/ CloseStopChan \/ Drop
  BY <1>5, PartsFrame DEF LoopTop, DialFails, Subscribed, Stop, Cancel, CloseStopChan, Drop
<1>6. CASE Loop
  BY <1>3, <1>4, <1>5, <1>6 DEF Loop, Dial
<1>7. ASSUME NEW o \in Outbound, SendMessage(o) \/ SendStream(o) PROVE OnePart' /\ KnownIds'
  <2> USE DEF IInv
  <2>1. sender[o] = "none" /\ sender' = [sender EXCEPT ![o] = "ready"] /\ UNCHANGED <<acks, part>>
    BY <1>7 DEF SendMessage, SendStream, Begin
  <2>2. \A p \in Outbound : p # o => context'[p] = context[p]
    BY <1>7 DEF SendMessage, SendStream, PopOldest, PopByMessage, TypeOK
  <2>3. \A n \in 1 .. MaxParts : at[<<o, n>>] = "none"
    BY <2>1 DEF OnePart
  <2>4. OnePart'
    BY <2>1, <2>2, <2>3 DEF OnePart, TypeOK
  <2>5. KnownIds'
    BY <2>1, <2>2, <2>3 DEF KnownIds, Waiting, IdOf
  <2>. QED  BY <2>4, <2>5
<1>8. ASSUME NEW o \in Outbound, SendPart(o) PROVE OnePart' /\ KnownIds'
  <2> USE DEF IInv
  <2> DEFINE k == <<o, part[o] + 1>>
  <2>1. /\ sender[o] = "ready" /\ part[o] \in 0 .. MaxParts /\ part[o] + 1 \in 1 .. MaxParts
        /\ k \in Commands
        /\ part' = [part EXCEPT ![o] = part[o] + 1]
        /\ sender' = [sender EXCEPT ![o] = "waiting"]
        /\ at' = [at EXCEPT ![k] = "registered"] /\ chan' = [chan EXCEPT ![k] = Empty]
        /\ req' = [req EXCEPT ![k] = IdOf(k)]
        /\ UNCHANGED context
    BY <1>8 DEF SendPart, RegisterAck, TypeOK, IdOf
  <2>2. \A n \in 1 .. MaxParts : at[<<o, n>>] = "none"
    BY <2>1 DEF OnePart
  <2>3. OnePart'
    BY <2>1, <2>2 DEF OnePart, TypeOK
  <2>4. KnownIds'
    BY <2>1 DEF KnownIds, Waiting, IdOf, TypeOK
  <2>. QED  BY <2>3, <2>4
<1>9. ASSUME NEW o \in Outbound, SendReturns(o) PROVE OnePart' /\ KnownIds'
  BY <1>9 DEF SendReturns, OnePart, KnownIds, Waiting, IdOf, TypeOK, IInv
<1>10. CASE UNCHANGED vars
  BY <1>10, PartsFrame DEF vars
<1>. QED  BY <1>1, <1>2, <1>5, <1>6, <1>7, <1>8, <1>9, <1>10 DEF Next, Sender

-----------------------------------------------------------------------------
(* The frames that are not answered.                                       *)

LEMMA FramesFrame ==
  ASSUME FramesOpen, UNCHANGED <<at, senders, up>>, unanswered' \subseteq unanswered,
         \A f \in unanswered' : chan'[f.of] = chan[f.of]
  PROVE  FramesOpen'
BY DEF FramesOpen, IdOf, senders

\* The frames on a connection that goes down are gone.
LEMMA FramesDown ==
  ASSUME FramesOpen, NEW c, Down(c), UNCHANGED <<chan, senders>>,
         \A f \in unanswered : at'[f.of] = at[f.of] \/ at'[f.of] # "registered"
  PROVE  FramesOpen'
BY DEF Down, FramesOpen, IdOf, senders

LEMMA FramesStep == IInv /\ [Next]_vars => FramesOpen'
<1> SUFFICES ASSUME IInv, [Next]_vars PROVE FramesOpen'
  OBVIOUS
<1> USE Kinds DEF sockets, acks, contexts, senders
<1>0. /\ FramesOpen
      /\ \A f \in unanswered : f.of \in Commands /\ f.on \in Conns
  BY DEF IInv, TypeOK, Frames
<1>1. ASSUME NEW k \in Commands, WriteJSON(k) PROVE FramesOpen'
  <2> DEFINE n == [of |-> k, id |-> req[k], on |-> conn]
  <2>1. /\ at[k] = "registered" /\ at' = [at EXCEPT ![k] = "written"]
        /\ conn \in up /\ unanswered' = unanswered \cup {n}
        /\ UNCHANGED <<up, chan, senders>>
    BY <1>1 DEF WriteJSON
  <2>2. /\ req[k] = IdOf(k) /\ chan[k].at \in {"open", "closed"}
        /\ k[1] = "subscribe" => k[2] = conn
        /\ k[1] \in Outbound => sender[k[1]] = "waiting" /\ k[2] = part[k[1]]
    BY <2>1 DEF IInv, TypeOK, KnownIds, Waiting, InOnePlace, OneConnection, Subscription, OnePart
  <2>3. \A f \in unanswered : f.of # k /\ at'[f.of] = at[f.of]
    BY <2>1, <1>0 DEF FramesOpen, IInv, TypeOK
  <2>4. at'[k] = "written"
    BY <2>1 DEF IInv, TypeOK
  <2> HIDE DEF n
  <2>5. n.of = k /\ n.id = req[k] /\ n.on = conn
    BY DEF n
  <2>. QED  BY <1>0, <2>1, <2>2, <2>3, <2>4, <2>5 DEF FramesOpen, IdOf
<1>2. ASSUME NEW k \in Commands, WriteFails(k) \/ TakeAck(k) \/ Timeout(k) PROVE FramesOpen'
  <2>1. PICK l \in {"none", "written", "ok", "failed"}, r \in {"ready", "returned"} :
          /\ at' = [at EXCEPT ![k] = l]
          /\ sender' = IF l = "none" THEN [sender EXCEPT ![k[1]] = r] ELSE sender
          /\ l = "none" => k[1] \in Outbound
    BY <1>2, CommandSteps DEF Command, IInv
  <2>2. at[k] \in {"registered", "written"} /\ UNCHANGED <<up, part, context, unanswered>>
    BY <1>2, CommandSteps DEF Command, IInv, WriteFails, TakeAck, Timeout
  <2>3. ASSUME NEW f \in unanswered
        PROVE  /\ at'[f.of] # "registered" /\ chan'[f.of].at \in {"open", "closed"}
    <3>1. chan'[f.of].at \in {"open", "closed"}
      BY <1>0, <1>2, CommandChannels, Channels DEF Command, FramesOpen
    <3>. QED  BY <3>1, <1>0, <2>1, <2>2 DEF FramesOpen, IInv, TypeOK
  <2>4. ASSUME NEW f \in unanswered, f.of[1] \in Outbound
        PROVE  \/ sender'[f.of[1]] = "returned"
               \/ sender'[f.of[1]] = "waiting" /\ f.of[2] = part[f.of[1]]
    <3>1. CASE f.of[1] = k[1]
      <4>1. f.of = k
        <5>1. sender[k[1]] = "waiting" /\ k[2] = part[k[1]]
          BY <2>2, <2>4, <3>1 DEF IInv, OnePart
        <5>. QED  BY <5>1, <1>0, <2>4, <3>1 DEF FramesOpen
      <4>2. ~chan[k].ok
        BY <4>1, <1>0, Channels DEF FramesOpen, IInv, TypeOK, Unmade, Empty, Closed
      <4>. QED  BY <1>2, <2>4, <3>1, <4>2 DEF WriteFails, TakeAck, Timeout, Return, IInv, TypeOK
    <3>2. CASE f.of[1] # k[1]
      BY <1>0, <2>1, <2>4, <3>2 DEF FramesOpen, IInv, TypeOK
    <3>. QED  BY <3>1, <3>2
  <2>. QED  BY <1>0, <2>2, <2>3, <2>4 DEF FramesOpen, IdOf
<1>3. ASSUME NEW c \in Conns, Reader(c) PROVE FramesOpen'
  <2>1. UNCHANGED <<up, at, senders>>
    BY <1>3, ReaderChannels
  <2>2. unanswered' \subseteq unanswered
    BY <1>3 DEF Reader, ResolveAck, SendAck, ReadMessage, ReadEvent, Published, ReaderEnds
  <2>3. ASSUME NEW f \in unanswered PROVE chan'[f.of] = chan[f.of]
    <3>1. CASE SendAck(c)
      <4>1. reader[c].at = "resolving" /\ reader[c].chan # f.of
        BY <3>1 DEF SendAck, InOnePlace, IInv
      <4>. QED  BY <1>0, <3>1, <4>1 DEF SendAck, IInv, TypeOK
    <3>2. CASE ~SendAck(c)
      BY <1>3, <3>2 DEF Reader, ResolveAck, ReadMessage, ReadEvent, Published, ReaderEnds
    <3>. QED  BY <3>1, <3>2
  <2>. QED  BY <1>0, <2>1, <2>2, <2>3, FramesFrame
<1>4. CASE Loop
  <2>1. CASE Dial
    <3>1. unanswered = {} /\ unanswered' = {}
      BY <1>0, <2>1 DEF Dial, FramesOpen, IInv, TypeOK, OneConnection
    <3>. QED  BY <3>1 DEF FramesOpen
  <2>2. CASE SessionEnds
    <3>1. Down(conn) /\ UNCHANGED <<chan, senders>>
      BY <2>2 DEF SessionEnds, EndSession, CloseConn
    <3>2. \A f \in unanswered : at'[f.of] = at[f.of] \/ at'[f.of] # "registered"
      BY <1>0, <2>2 DEF SessionEnds, EndSession, IInv, TypeOK
    <3>. QED  BY <1>0, <3>1, <3>2, FramesDown
  <2>. QED  BY <1>0, <1>4, <2>1, <2>2, FramesFrame DEF Loop, LoopTop, DialFails, Subscribed
<1>5. CASE Stop \/ Drop
  <2>1. PICK c : Down(c) /\ UNCHANGED <<chan, senders, at>>
    BY <1>5 DEF Stop, Drop, CloseConn
  <2>. QED  BY <1>0, <2>1, FramesDown
<1>6. CASE CloseStopChan \/ Cancel \/ UNCHANGED vars
  BY <1>0, <1>6, FramesFrame DEF CloseStopChan, Cancel, vars
<1>7. ASSUME NEW o \in Outbound, Sender(o) PROVE FramesOpen'
  <2>1. CASE SendMessage(o) \/ SendStream(o)
    <3>1. sender[o] = "none" /\ sender' = [sender EXCEPT ![o] = "ready"]
          /\ UNCHANGED <<sockets, acks, part>>
      BY <2>1 DEF SendMessage, SendStream, Begin
    <3>2. \A p \in Outbound : p # o => context'[p] = context[p] /\ sender'[p] = sender[p]
      BY <2>1, <3>1 DEF SendMessage, SendStream, PopOldest, PopByMessage, IInv, TypeOK
    <3>3. \A f \in unanswered : f.of[1] # o
      BY <1>0, <3>1 DEF FramesOpen
    <3>. QED  BY <1>0, <3>1, <3>2, <3>3 DEF FramesOpen, IdOf
  <2>2. CASE SendPart(o)
    <3> DEFINE k == <<o, part[o] + 1>>
    <3>1. /\ sender[o] = "ready" /\ k \in Commands
          /\ part' = [part EXCEPT ![o] = part[o] + 1]
          /\ sender' = [sender EXCEPT ![o] = "waiting"]
          /\ at' = [at EXCEPT ![k] = "registered"] /\ chan' = [chan EXCEPT ![k] = Empty]
          /\ UNCHANGED <<context, up, unanswered>>
      BY <2>2 DEF SendPart, RegisterAck, IInv, TypeOK
    <3>2. \A f \in unanswered : f.of[1] # o
      BY <1>0, <3>1 DEF FramesOpen
    <3>3. \A f \in unanswered :
            /\ at'[f.of] = at[f.of] /\ chan'[f.of] = chan[f.of]
            /\ f.of[1] \in Outbound => sender'[f.of[1]] = sender[f.of[1]] /\ part'[f.of[1]] = part[f.of[1]]
      BY <1>0, <3>1, <3>2 DEF IInv, TypeOK
    <3>. QED  BY <1>0, <3>1, <3>3 DEF FramesOpen, IdOf
  <2>3. CASE SendReturns(o)
    BY <1>0, <2>3 DEF SendReturns, FramesOpen, IdOf, IInv, TypeOK
  <2>. QED  BY <1>7, <2>1, <2>2, <2>3 DEF Sender
<1>. QED
  BY <1>1, <1>2, <1>3, <1>4, <1>5, <1>6, <1>7 DEF Next, Command

-----------------------------------------------------------------------------
(* The acknowledgement channels.                                           *)

\* Two commands that wait have different ids, and an unanswered frame with the id
\* of a command that waits is its own.
LEMMA IdsOfWaiting ==
  ASSUME IInv
  PROVE  /\ \A j, k \in Commands : Waiting(j) /\ Waiting(k) /\ IdOf(j) = IdOf(k) => j = k
         /\ \A f \in unanswered, k \in Commands : Waiting(k) /\ f.id = IdOf(k) => f.of = k
<1> USE Kinds, ContextKinds
<1>1. ASSUME NEW j \in Commands, NEW k \in Commands, IdOf(j) = IdOf(k), j # k
      PROVE  j[1] \in Outbound /\ j[1] = k[1]
  <2>1. \A o \in Outbound : context[o] = NoContext \/ context[o].req \in Reqs
    BY DEF IInv, TypeOK
  <2>2. \A o, p \in Outbound : context[o] # NoContext /\ context[p].req = context[o].req => o = p
    BY DEF IInv, IdsApart
  <2>. QED  BY <1>1, <2>1, <2>2 DEF IdOf
<1>2. ASSUME NEW k \in Commands, Waiting(k), k[1] \in Outbound
      PROVE  sender[k[1]] = "waiting" /\ k[2] = part[k[1]]
  BY <1>2 DEF Waiting, IInv, OnePart
<1>3. ASSUME NEW j \in Commands, NEW k \in Commands, Waiting(j), Waiting(k), IdOf(j) = IdOf(k) PROVE j = k
  BY <1>1, <1>2, <1>3
<1>4. ASSUME NEW f \in unanswered, NEW k \in Commands, Waiting(k), f.id = IdOf(k) PROVE f.of = k
  <2>1. f.of \in Commands /\ f.id = IdOf(f.of)
    BY DEF IInv, TypeOK, Frames, FramesOpen
  <2>2. CASE f.of # k
    <3>1. f.of[1] \in Outbound /\ f.of[1] = k[1]
      BY <1>1, <1>4, <2>1, <2>2
    <3>2. f.of[2] = k[2]
      BY <1>2, <1>4, <3>1 DEF IInv, FramesOpen
    <3>. QED  BY <2>1, <3>1, <3>2
  <2>. QED  BY <2>2
<1>. QED  BY <1>3, <1>4

Places == InOnePlace /\ AnswersOwn /\ NoWaiterLeft

LEMMA PlacesFrame ==
  ASSUME Places, UNCHANGED <<reader, pending, chan, at, req>>, unanswered' \subseteq unanswered
  PROVE  Places'
BY DEF Places, InOnePlace, AnswersOwn, NoWaiterLeft

\* A command that is over is in no map, and its channel is not used.
LEMMA CommandPlaces ==
  ASSUME IInv, NEW k \in Commands, Command(k)
  PROVE  Places'
<1> USE Kinds, Channels DEF sockets, acks, contexts, senders
<1>0. Places /\ TypeOK /\ at[k] \in {"registered", "written"}
  BY CommandSteps DEF IInv, Places
<1>1. CASE WriteJSON(k)
  <2>1. /\ at' = [at EXCEPT ![k] = "written"] /\ at[k] = "registered"
        /\ UNCHANGED <<reader, pending, chan, req>>
        /\ \A f \in unanswered' : f \in unanswered \/ f.of = k
    BY <1>1 DEF WriteJSON
  <2>2. \A c \in Conns : reader[c].at = "resolving" => reader[c].chan # k
    BY <1>0, <2>1 DEF Places, InOnePlace
  <2>3. \A j \in Commands : at'[j] = "registered" => at[j] = "registered"
    BY <1>0, <2>1 DEF TypeOK
  <2>4. InOnePlace' /\ AnswersOwn'
    BY <1>0, <2>1, <2>2, <2>3, Readers DEF Places, InOnePlace, AnswersOwn, TypeOK
  <2>5. NoWaiterLeft'
    BY <1>0, <2>1 DEF Places, NoWaiterLeft, TypeOK
  <2>. QED  BY <2>4, <2>5 DEF Places
<1>2. ASSUME ~WriteJSON(k)
      PROVE  /\ UNCHANGED <<reader, unanswered>>
             /\ at' \in [Commands -> {"none", "registered", "written", "ok", "failed"}]
             /\ at'[k] \in {"none", "ok", "failed"}
             /\ \A j \in Commands : j # k => at'[j] = at[j] /\ req'[j] = req[j]
  <2>1. PICK l \in {"none", "written", "ok", "failed"} :
          /\ at' = [at EXCEPT ![k] = l]
          /\ req' = IF l = "written" THEN req ELSE [req EXCEPT ![k] = None]
    BY <1>0, CommandSteps
  <2>2. l # "written"
    BY <1>0, <1>2, <2>1 DEF Command, WriteFails, TakeAck, Timeout, Return, TypeOK
  <2>3. UNCHANGED <<reader, unanswered>>
    BY <1>0, <1>2, CommandSteps DEF Command, WriteFails, TakeAck, Timeout
  <2>. QED  BY <1>0, <2>1, <2>2, <2>3 DEF TypeOK
<1>3. CASE WriteFails(k) \/ Timeout(k)
  <2> DEFINE id == req[k]
  <2>1. id \in Ids /\ ~WriteJSON(k)
    BY <1>0, <1>3, ContextKinds DEF IInv, KnownIds, Waiting, IdOf, TypeOK, WriteFails, WriteJSON, Timeout, Return
  <2>2. /\ pending' = [pending EXCEPT ![id] = None]
        /\ chan' = IF pending[id] = None THEN chan ELSE [chan EXCEPT ![pending[id]] = Closed]
    BY <1>3 DEF WriteFails, Timeout, UnregisterAck
  <2>3. ASSUME NEW i \in Ids, pending'[i] # None
        PROVE  i # id /\ pending'[i] = pending[i] /\ pending[i] # k /\ pending[i] # pending[id]
    BY <1>0, <2>1, <2>2, <2>3 DEF Places, NoWaiterLeft, TypeOK
  <2>4. NoWaiterLeft'
    BY <1>0, <1>2, <2>1, <2>3 DEF Places, NoWaiterLeft, TypeOK
  <2>5. \A j \in Commands : chan'[j] = chan[j] \/ (chan'[j] = Closed /\ pending[id] = j)
    BY <1>0, <2>2 DEF TypeOK
  <2>6. ASSUME NEW i \in Ids, pending'[i] # None PROVE chan'[pending'[i]] = Empty
    <3>1. pending[i] \in Commands /\ chan[pending[i]] = Empty /\ pending[i] # pending[id]
      BY <1>0, <2>3, <2>6 DEF Places, InOnePlace, TypeOK
    <3>. QED  BY <2>3, <2>5, <2>6, <3>1
  <2>7. ASSUME NEW c \in Conns, reader[c].at = "resolving"
        PROVE  /\ chan'[reader[c].chan] = chan[reader[c].chan]
               /\ at'[reader[c].chan] # "registered"
               /\ \A i \in Ids : pending'[i] # reader[c].chan
    <3>1. reader[c].chan \in Commands /\ reader[c].chan # None /\ \A i \in Ids : pending[i] # reader[c].chan
      BY <1>0, <2>7, Readers DEF Places, InOnePlace, TypeOK
    <3>. QED  BY <1>0, <1>2, <2>1, <2>2, <2>5, <2>7, <3>1 DEF Places, InOnePlace, TypeOK
  <2>8. \A j \in Commands : at'[j] = "registered" => chan'[j].at \in {"open", "closed"}
    BY <1>0, <1>2, <2>1, <2>5 DEF Places, InOnePlace
  <2>9. InOnePlace'
    BY <1>0, <1>2, <2>1, <2>6, <2>7, <2>8 DEF Places, InOnePlace
  <2>10. AnswersOwn'
    BY <1>0, <1>2, <2>1, <2>5, <2>7 DEF Places, AnswersOwn
  <2>. QED  BY <2>4, <2>9, <2>10 DEF Places
<1>4. CASE TakeAck(k)
  <2>1. ~WriteJSON(k) /\ chan[k] # Empty /\ chan' = [chan EXCEPT ![k] = Closed] /\ UNCHANGED pending
    BY <1>4 DEF TakeAck, WriteJSON
  <2>2. \A i \in Ids : pending[i] # k
    BY <1>0, <2>1 DEF Places, InOnePlace
  <2>3. \A c \in Conns : reader[c].at = "resolving" => reader[c].chan \in Commands /\ reader[c].chan # k
    BY <1>0, <2>1, Readers DEF Places, AnswersOwn, TypeOK
  <2>4. \A j \in Commands : chan'[j] = chan[j] \/ (chan'[j] = Closed /\ j = k)
    BY <1>0, <2>1 DEF TypeOK
  <2>5. NoWaiterLeft'
    BY <1>0, <1>2, <2>1, <2>2 DEF Places, NoWaiterLeft, TypeOK
  <2>6. InOnePlace'
    BY <1>0, <1>2, <2>1, <2>2, <2>3, <2>4 DEF Places, InOnePlace, TypeOK
  <2>7. AnswersOwn'
    BY <1>0, <1>2, <2>1, <2>3, <2>4 DEF Places, AnswersOwn
  <2>. QED  BY <2>5, <2>6, <2>7 DEF Places
<1>. QED  BY <1>1, <1>3, <1>4 DEF Command

\* A reader takes a channel out of the map before it uses it.
LEMMA ReaderPlaces ==
  ASSUME IInv, NEW c \in Conns, Reader(c)
  PROVE  Places'
<1> USE Kinds, Channels, Readers DEF sockets, acks, contexts, senders
<1>0. Places /\ TypeOK
  BY DEF IInv, Places
<1>1. ASSUME NEW f \in unanswered, ResolveAck(c, f) PROVE Places'
  <2>1. UNCHANGED <<chan, at, req>> /\ unanswered' = unanswered \ {f}
    BY <1>1 DEF ResolveAck
  <2>2. f.id \in Ids /\ f.of \in Commands /\ f.on = c
    BY <1>0, <1>1 DEF TypeOK, Frames, ResolveAck
  <2>3. CASE pending[f.id] = None
    BY <1>0, <1>1, <2>1, <2>2, <2>3, PlacesFrame DEF ResolveAck, TypeOK
  <2>4. CASE pending[f.id] # None
    <3>1. pending[f.id] = f.of
      BY <1>0, <2>2, <2>4, IdsOfWaiting DEF Places, NoWaiterLeft, IInv, KnownIds, Waiting, TypeOK
    <3>2. PICK a \in Answers :
            /\ reader' = [reader EXCEPT ![c] = [at |-> "resolving", chan |-> f.of, answer |-> a]]
            /\ a.of = f.of
      <4>1. PICK ok \in BOOLEAN :
              reader' = [reader EXCEPT ![c] = [at |-> "resolving", chan |-> f.of,
                           answer |-> [at |-> "answered", of |-> f.of, ok |-> ok]]]
        BY <1>1, <2>4, <3>1 DEF ResolveAck
      <4>2. [at |-> "answered", of |-> f.of, ok |-> ok] \in Answers
        BY <2>2 DEF Answers
      <4>. QED  BY <4>1, <4>2
    <3>3. /\ pending' = [pending EXCEPT ![f.id] = None]
          /\ \A i \in Ids : pending'[i] # f.of /\ (pending'[i] # None => pending'[i] = pending[i])
      BY <1>0, <1>1, <2>2, <3>1 DEF ResolveAck, Places, NoWaiterLeft, TypeOK
    <3>4. NoWaiterLeft'
      BY <1>0, <2>1, <3>3 DEF Places, NoWaiterLeft
    <3>5. /\ chan[f.of] = Empty /\ at[f.of] # "registered"
          /\ f.of[1] = "subscribe" => f.of[2] = c
          /\ \A g \in unanswered' : g.of # f.of
      BY <1>0, <2>1, <2>2, <2>4, <3>1 DEF Places, InOnePlace, IInv, FramesOpen
    <3>6. \A d \in Conns : IF d = c THEN reader'[d].at = "resolving" /\ reader'[d].chan = f.of /\ reader'[d].answer = a
                                    ELSE reader'[d] = reader[d]
      BY <1>0, <3>2 DEF TypeOK
    <3>7. \A d \in Conns : d # c /\ reader[d].at = "resolving" => reader[d].chan # f.of
      BY <1>0, <2>2, <3>1 DEF Places, InOnePlace
    <3>8. AnswersOwn'
      BY <1>0, <2>1, <3>2, <3>5, <3>6 DEF Places, AnswersOwn
    <3>9. InOnePlace'
      <4>1. \A i \in Ids : pending'[i] # None => chan'[pending'[i]] = Empty
        BY <1>0, <2>1, <3>3 DEF Places, InOnePlace
      <4>2. ASSUME NEW d \in Conns, reader'[d].at = "resolving"
            PROVE  /\ at'[reader'[d].chan] # "registered"
                   /\ \A i \in Ids : pending'[i] # reader'[d].chan
                   /\ \A g \in unanswered' : g.of # reader'[d].chan
                   /\ reader'[d].chan[1] = "subscribe" => reader'[d].chan[2] = d
        <5>1. CASE d = c
          BY <2>1, <3>3, <3>5, <3>6, <5>1
        <5>2. CASE d # c
          <6>1. reader'[d] = reader[d] /\ reader[d].chan \in Commands
            BY <1>0, <3>6, <4>2, <5>2 DEF TypeOK
          <6>. QED  BY <1>0, <2>1, <3>3, <4>2, <6>1 DEF Places, InOnePlace
        <5>. QED  BY <5>1, <5>2
      <4>3. \A d, e \in Conns : reader'[d].at = "resolving" /\ reader'[e].at = "resolving"
                               /\ reader'[d].chan = reader'[e].chan => d = e
        BY <1>0, <3>6, <3>7 DEF Places, InOnePlace
      <4>. QED  BY <1>0, <2>1, <4>1, <4>2, <4>3 DEF Places, InOnePlace
    <3>. QED  BY <3>4, <3>8, <3>9 DEF Places
  <2>. QED  BY <2>3, <2>4
<1>2. CASE SendAck(c)
  <2> DEFINE k == reader[c].chan
  <2>1. reader[c].at = "resolving" /\ k \in Commands /\ reader[c].answer \in Answers
    BY <1>0, <1>2 DEF SendAck, TypeOK
  <2>2. /\ reader' = [reader EXCEPT ![c] = Reading]
        /\ UNCHANGED <<pending, at, req, unanswered>>
        /\ \E a \in {reader[c].answer, Closed} : chan' = [chan EXCEPT ![k] = a]
    BY <1>2 DEF SendAck
  <2>3. /\ at[k] # "registered" /\ \A i \in Ids : pending[i] # k
        /\ \A d \in Conns : d # c /\ reader[d].at = "resolving" => reader[d].chan # k
        /\ reader[c].answer.of = k
    BY <1>0, <2>1 DEF Places, InOnePlace, AnswersOwn
  <2>4. \A d \in Conns : IF d = c THEN reader'[d].at # "resolving" ELSE reader'[d] = reader[d]
    BY <1>0, <2>2 DEF TypeOK
  <2>5. \A j \in Commands : IF j = k THEN chan'[j] \in {reader[c].answer, Closed} ELSE chan'[j] = chan[j]
    BY <1>0, <2>1, <2>2 DEF TypeOK
  <2>6. \A d \in Conns : reader[d].at = "resolving" => reader[d].chan \in Commands
    BY <1>0 DEF TypeOK
  <2>7. InOnePlace'
    BY <1>0, <2>2, <2>3, <2>4, <2>5, <2>6 DEF Places, InOnePlace, TypeOK
  <2>8. AnswersOwn'
    BY <1>0, <2>1, <2>3, <2>4, <2>5, <2>6 DEF Places, AnswersOwn
  <2>9. NoWaiterLeft'
    BY <1>0, <2>2 DEF Places, NoWaiterLeft
  <2>. QED  BY <2>7, <2>8, <2>9 DEF Places
<1>3. CASE ReadMessage(c) \/ ReadEvent(c) \/ Published(c) \/ ReaderEnds(c)
  <2>1. UNCHANGED <<pending, chan, at, req, unanswered>>
    BY <1>3 DEF ReadMessage, ReadEvent, Published, ReaderEnds
  <2>2. \A d \in Conns : reader'[d] = reader[d] \/ reader'[d].at # "resolving"
    BY <1>0, <1>3 DEF TypeOK, ReadMessage, ReadEvent, Published, ReaderEnds
  <2>. QED  BY <1>0, <2>1, <2>2 DEF Places, InOnePlace, AnswersOwn, NoWaiterLeft
<1>. QED  BY <1>1, <1>2, <1>3 DEF Reader

\* A command that is registered is new: nobody has its channel.
LEMMA RegisterPlaces ==
  ASSUME IInv, NEW k \in Commands, NEW id \in Ids, RegisterAck(k, id),
         at[k] = "none", UNCHANGED unanswered,
         \A d \in Conns : reader[d].at = "resolving" => reader[d].chan # k,
         \A d \in Conns : reader'[d] = reader[d] \/ reader'[d].at # "resolving"
  PROVE  Places'
<1> USE Kinds, Channels, Readers
<1>0. Places /\ TypeOK
  BY DEF IInv, Places
<1>1. /\ pending' = [pending EXCEPT ![id] = k] /\ chan' = [chan EXCEPT ![k] = Empty]
      /\ req' = [req EXCEPT ![k] = id] /\ at' = [at EXCEPT ![k] = "registered"]
  BY DEF RegisterAck
<1>2. \A i \in Ids : pending[i] # k
  BY <1>0 DEF Places, NoWaiterLeft
<1>3. \A d \in Conns : reader[d].at = "resolving" => reader[d].chan \in Commands
  BY <1>0 DEF TypeOK
<1>4. \A i \in Ids : pending'[i] = IF i = id THEN k ELSE pending[i]
  BY <1>0, <1>1 DEF TypeOK
<1>5. \A j \in Commands : /\ chan'[j] = IF j = k THEN Empty ELSE chan[j]
                          /\ at'[j] = IF j = k THEN "registered" ELSE at[j]
                          /\ req'[j] = IF j = k THEN id ELSE req[j]
  BY <1>0, <1>1 DEF TypeOK
<1>6. \A i \in Ids : pending[i] # None => pending[i] \in Commands
  BY <1>0 DEF TypeOK
<1>7. NoWaiterLeft'
  BY <1>0, <1>2, <1>4, <1>5, <1>6 DEF Places, NoWaiterLeft
<1>8. InOnePlace'
  BY <1>0, <1>2, <1>3, <1>4, <1>5, <1>6 DEF Places, InOnePlace
<1>9. AnswersOwn'
  BY <1>0, <1>3, <1>5 DEF Places, AnswersOwn
<1>. QED  BY <1>7, <1>8, <1>9 DEF Places

LEMMA PlacesStep == IInv /\ [Next]_vars => Places'
<1> SUFFICES ASSUME IInv, [Next]_vars PROVE Places'
  OBVIOUS
<1> USE Kinds, Channels, Readers DEF sockets, acks, contexts, senders
<1>0. Places /\ TypeOK
  BY DEF IInv, Places
<1>1. CASE Dial
  <2>1. PICK c \in Conns :
          /\ reader[c] = Idle /\ reader' = [reader EXCEPT ![c] = Reading]
          /\ RegisterAck(<<"subscribe", c>>, <<"subscribe", c>>) /\ UNCHANGED unanswered
    BY <1>1 DEF Dial
  <2>2. at[<<"subscribe", c>>] = "none"
    BY <1>1 DEF Dial, IInv, OneConnection, Subscription
  <2>3. \A d \in Conns : reader[d].at = "resolving" => reader[d].chan # <<"subscribe", c>>
    BY <1>0, <2>1 DEF Places, InOnePlace
  <2>4. \A d \in Conns : reader'[d] = reader[d] \/ reader'[d].at # "resolving"
    BY <1>0, <2>1 DEF TypeOK
  <2>. QED  BY <2>1, <2>2, <2>3, <2>4, RegisterPlaces
<1>2. CASE SessionEnds
  <2> DEFINE k == <<"subscribe", session>>
  <2>1. session \in Conns /\ at[k] \in {"ok", "failed"}
    BY <1>0, <1>2 DEF SessionEnds, EndSession, TypeOK, IInv, OneConnection, Subscription
  <2>2. /\ at' = [at EXCEPT ![k] = "none"] /\ UNCHANGED <<pending, chan, req>>
        /\ unanswered' \subseteq unanswered
    BY <1>2 DEF SessionEnds, EndSession, CloseConn, Down
  <2>3. \A d \in Conns : reader'[d] = reader[d] \/ reader'[d].at # "resolving"
    BY <1>0, <1>2 DEF SessionEnds, EndSession, TypeOK
  <2>4. \A i \in Ids : pending[i] # k
    BY <1>0, <2>1 DEF Places, NoWaiterLeft
  <2>5. \A j \in Commands : at'[j] = IF j = k THEN "none" ELSE at[j]
    BY <1>0, <2>1, <2>2 DEF TypeOK
  <2>6. InOnePlace' /\ AnswersOwn'
    BY <1>0, <2>2, <2>3, <2>5 DEF Places, InOnePlace, AnswersOwn, TypeOK
  <2>7. NoWaiterLeft'
    BY <1>0, <2>2, <2>4, <2>5 DEF Places, NoWaiterLeft, TypeOK
  <2>. QED  BY <2>6, <2>7 DEF Places
<1>3. CASE LoopTop \/ DialFails \/ Subscribed \/ Stop \/ CloseStopChan \/ Cancel \/ Drop \/ UNCHANGED vars
  <2>1. UNCHANGED <<reader, pending, chan, at, req>>
    BY <1>3 DEF LoopTop, DialFails, Subscribed, Stop, CloseStopChan, Cancel, Drop, vars
  <2>2. unanswered' \subseteq unanswered
    BY <1>3 DEF LoopTop, DialFails, Subscribed, Stop, CloseStopChan, Cancel, Drop, vars, CloseConn, Down
  <2>. QED  BY <1>0, <2>1, <2>2, PlacesFrame
<1>4. ASSUME NEW o \in Outbound, SendMessage(o) \/ SendStream(o) \/ SendReturns(o) PROVE Places'
  BY <1>0, <1>4, PlacesFrame DEF SendMessage, SendStream, SendReturns, Begin
<1>5. ASSUME NEW o \in Outbound, SendPart(o) PROVE Places'
  <2> DEFINE k == <<o, part[o] + 1>>
             id == IF context[o] # NoContext THEN context[o].req ELSE k
  <2>1. /\ sender[o] = "ready" /\ part[o] \in 0 .. MaxParts /\ part[o] + 1 \in 1 .. MaxParts
        /\ RegisterAck(k, id) /\ UNCHANGED <<reader, unanswered>>
    BY <1>0, <1>5 DEF SendPart, TypeOK
  <2>2. k \in Commands /\ id \in Ids
    BY <1>0, <2>1, ContextKinds DEF TypeOK
  <2>3. at[k] = "none" /\ chan[k] = Unmade
    BY <2>1 DEF IInv, OnePart
  <2>4. \A d \in Conns : reader[d].at = "resolving" => reader[d].chan # k
    BY <1>0, <2>3 DEF Places, AnswersOwn
  <2>. QED  BY <2>1, <2>2, <2>3, <2>4, RegisterPlaces
<1>. QED
  BY <1>1, <1>2, <1>3, <1>4, <1>5, CommandPlaces, ReaderPlaces DEF Next, Loop, Sender

-----------------------------------------------------------------------------
(* The reply contexts.                                                     *)

\* A context that goes from the chat and the message to a Send.
LEMMA ContextTaken ==
  ASSUME IdsApart, TypeOK, NEW o \in Outbound, NEW chat \in Chats, NEW ctx \in byChatID[chat],
         context[o] = NoContext, context'[o] = ctx, UNCHANGED received,
         \A p \in Outbound : p # o => context'[p] = context[p],
         \A c \in Chats : \A x \in byChatID'[c] : x \in byChatID[c] /\ x # ctx,
         \A m \in Messages : byMsgID'[m] # NoContext =>
           byMsgID'[m] = byMsgID[m] /\ byMsgID[m] \in byChatID'[ChatOf(m)]
  PROVE  IdsApart'
<1>1. \A p \in Outbound : context'[p] = IF p = o THEN ctx ELSE context[p]
  OBVIOUS
<1>2. \A c \in Chats : \A x \in byChatID'[c] :
        /\ ChatOf(x.msg) = c /\ x.req[2] <= received'
        /\ \A d \in Chats : \A y \in byChatID'[d] : x.req = y.req => x = y
        /\ \A p \in Outbound : context'[p].req # x.req
  BY <1>1 DEF IdsApart
<1>3. \A p \in Outbound : context'[p] # NoContext =>
        /\ context'[p].req[2] <= received'
        /\ \A q \in Outbound : context'[q].req = context'[p].req => p = q
  BY <1>1 DEF IdsApart
<1>. QED  BY <1>2, <1>3 DEF IdsApart

LEMMA IdsStep == IInv /\ [Next]_vars => IdsApart'
<1> SUFFICES ASSUME IInv, [Next]_vars PROVE IdsApart'
  OBVIOUS
<1> USE ContextKinds DEF sockets, acks, contexts, senders
<1>0. IdsApart /\ TypeOK
  BY DEF IInv
<1>1. ASSUME UNCHANGED <<contexts, context>> PROVE IdsApart'
  BY <1>0, <1>1 DEF IdsApart
<1>2. ASSUME NEW msg \in Messages, StoreReplyContext(msg), UNCHANGED context PROVE IdsApart'
  <2> DEFINE ctx == [msg |-> msg, req |-> <<"server", received + 1>>]
             chat == ChatOf(msg)
  <2>1. /\ received \in Nat /\ received' = received + 1
        /\ byMsgID' = [byMsgID EXCEPT ![msg] = ctx]
        /\ byChatID' = [byChatID EXCEPT ![chat] = @ \cup {ctx}]
    BY <1>0, <1>2 DEF StoreReplyContext, TypeOK
  <2>2. ctx.msg = msg /\ ctx.req[2] = received + 1 /\ chat \in Chats
    BY DEF ChatOf, Messages
  <2>12. ctx.req \in Reqs
    BY <1>0, <1>2 DEF StoreReplyContext, Reqs, TypeOK
  <2> HIDE DEF ctx
  <2>3. \A x \in Contexts : x.req[2] \in Nat
    BY DEF Reqs
  <2>4. \A c \in Chats : byChatID'[c] = IF c = chat THEN byChatID[c] \cup {ctx} ELSE byChatID[c]
    BY <1>0, <2>1, <2>2 DEF TypeOK
  <2>5. \A c \in Chats : \A x \in byChatID[c] : x.req[2] <= received /\ x.req[2] \in Nat
    BY <1>0, <2>3 DEF IdsApart, TypeOK
  <2>6. \A o \in Outbound : context[o] # NoContext => context[o].req[2] <= received /\ context[o].req[2] \in Nat
    BY <1>0, <2>3 DEF IdsApart, TypeOK
  <2>7. \A o \in Outbound : context[o].req # ctx.req
    <3> TAKE o \in Outbound
    <3>1. CASE context[o] = NoContext
      BY <3>1, <2>12
    <3>2. CASE context[o] # NoContext
      BY <3>2, <2>1, <2>2, <2>6
    <3>. QED  BY <3>1, <3>2
  <2>8. \A c \in Chats : \A x \in byChatID[c] : x.req # ctx.req
    BY <2>1, <2>2, <2>5
  <2>9. \A c \in Chats : \A x \in byChatID'[c] :
          /\ ChatOf(x.msg) = c /\ x.req[2] <= received'
          /\ \A d \in Chats : \A y \in byChatID'[d] : x.req = y.req => x = y
          /\ \A o \in Outbound : context'[o].req # x.req
    BY <1>0, <1>2, <2>1, <2>2, <2>4, <2>5, <2>7, <2>8 DEF IdsApart
  <2>10. \A o \in Outbound : context'[o] # NoContext =>
           /\ context'[o].req[2] <= received'
           /\ \A p \in Outbound : context'[p].req = context'[o].req => p = o
    BY <1>0, <1>2, <2>1, <2>6 DEF IdsApart
  <2>11. \A m \in Messages : byMsgID'[m] # NoContext =>
           byMsgID'[m].msg = m /\ byMsgID'[m] \in byChatID'[ChatOf(m)]
    BY <1>0, <2>1, <2>2, <2>4 DEF IdsApart, TypeOK, ChatOf, Messages
  <2>. QED  BY <2>9, <2>10, <2>11 DEF IdsApart
<1>3. ASSUME NEW o \in Outbound, NEW chat \in Chats, context[o] = NoContext, PopOldest(o, chat),
             UNCHANGED received
      PROVE  IdsApart'
  <2>1. CASE UNCHANGED <<byMsgID, byChatID, context>>
    BY <1>1, <1>3, <2>1
  <2>2. ASSUME NEW ctx \in byChatID[chat],
               context' = [context EXCEPT ![o] = ctx],
               byMsgID' = [byMsgID EXCEPT ![ctx.msg] = NoContext],
               byChatID' = [byChatID EXCEPT ![chat] = @ \ {ctx}]
        PROVE  IdsApart'
    <3> DEFINE msg == ctx.msg
    <3>1. ctx \in Contexts /\ msg \in Messages /\ ChatOf(msg) = chat
      BY <1>0 DEF IdsApart, TypeOK
    <3>2. \A c \in Chats : \A x \in byChatID'[c] : x \in byChatID[c] /\ x # ctx
      BY <1>0, <2>2 DEF IdsApart, TypeOK
    <3>3. \A m \in Messages : byMsgID'[m] # NoContext =>
            byMsgID'[m] = byMsgID[m] /\ byMsgID[m].msg = m /\ byMsgID[m] # ctx
      BY <1>0, <2>2, <3>1 DEF IdsApart, TypeOK
    <3>4. \A c \in Chats : \A x \in byChatID[c] : x # ctx => x \in byChatID'[c]
      BY <1>0, <2>2 DEF TypeOK
    <3>5. \A m \in Messages : byMsgID'[m] # NoContext =>
            byMsgID'[m] = byMsgID[m] /\ byMsgID[m] \in byChatID'[ChatOf(m)]
      BY <1>0, <3>3, <3>4 DEF IdsApart, ChatOf, Messages
    <3>6. context'[o] = ctx /\ \A p \in Outbound : p # o => context'[p] = context[p]
      BY <1>0, <2>2 DEF TypeOK
    <3>. QED  BY <1>0, <1>3, <3>2, <3>5, <3>6, ContextTaken
  <2>. QED  BY <1>3, <2>1, <2>2 DEF PopOldest
<1>4. ASSUME NEW o \in Outbound, NEW msg \in Messages, context[o] = NoContext, PopByMessage(o, msg),
             UNCHANGED received
      PROVE  IdsApart'
  <2> DEFINE ctx == byMsgID[msg]
             chat == ChatOf(msg)
  <2>1. /\ context' = [context EXCEPT ![o] = ctx]
        /\ byMsgID' = [byMsgID EXCEPT ![msg] = NoContext]
        /\ byChatID' = [byChatID EXCEPT ![chat] = {x \in @ : x.msg # msg}]
        /\ ctx # NoContext
    BY <1>4 DEF PopByMessage
  <2>2. ctx \in Contexts /\ ctx.msg = msg /\ chat \in Chats /\ ctx \in byChatID[chat]
    BY <1>0, <2>1 DEF IdsApart, TypeOK, ChatOf, Messages
  <2>3. \A c \in Chats : \A x \in byChatID'[c] : x \in byChatID[c] /\ x # ctx
    BY <1>0, <2>1, <2>2 DEF IdsApart, TypeOK
  <2>4. \A m \in Messages : byMsgID'[m] # NoContext =>
          byMsgID'[m] = byMsgID[m] /\ byMsgID[m].msg = m /\ m # msg
    BY <1>0, <2>1 DEF IdsApart, TypeOK
  <2>5. \A c \in Chats : \A x \in byChatID[c] : x.msg # msg => x \in byChatID'[c]
    BY <1>0, <2>1 DEF TypeOK
  <2>6. \A m \in Messages : byMsgID'[m] # NoContext =>
          byMsgID'[m] = byMsgID[m] /\ byMsgID[m] \in byChatID'[ChatOf(m)]
    BY <1>0, <2>4, <2>5 DEF IdsApart, ChatOf, Messages
  <2>7. ctx \in byChatID[chat] /\ chat \in Chats
    BY <2>2
  <2>8. context'[o] = ctx /\ \A p \in Outbound : p # o => context'[p] = context[p]
    BY <1>0, <2>1 DEF TypeOK
  <2> HIDE DEF ctx, chat
  <2>. QED  BY <1>0, <1>4, <2>3, <2>6, <2>7, <2>8, ContextTaken
<1>5. ASSUME NEW c \in Conns, Reader(c) PROVE IdsApart'
  <2>1. CASE ReadMessage(c) \/ ReadEvent(c)
    BY <2>1, <1>2 DEF ReadMessage, ReadEvent, Seen
  <2>2. CASE ~(ReadMessage(c) \/ ReadEvent(c))
    BY <1>1, <1>5, <2>2 DEF Reader, ResolveAck, SendAck, Published, ReaderEnds
  <2>. QED  BY <2>1, <2>2
<1>6. ASSUME NEW o \in Outbound, SendMessage(o) \/ SendStream(o) PROVE IdsApart'
  <2>1. context[o] = NoContext /\ UNCHANGED received
    BY <1>6 DEF SendMessage, SendStream, Begin, IInv, OnePart
  <2>. QED  BY <1>3, <1>4, <1>6, <2>1 DEF SendMessage, SendStream
<1>7. ASSUME NEW o \in Outbound, SendPart(o) \/ SendReturns(o) PROVE IdsApart'
  BY <1>1, <1>7 DEF SendPart, SendReturns
<1>8. ASSUME NEW k \in Commands, Command(k) PROVE IdsApart'
  BY <1>0, <1>1, <1>8, CommandSteps
<1>9. CASE Loop \/ Stop \/ CloseStopChan \/ Cancel \/ Drop \/ UNCHANGED vars
  BY <1>1, <1>9 DEF Loop, LoopTop, Dial, DialFails, Subscribed, SessionEnds, EndSession, Stop, CloseStopChan,
                    Cancel, Drop, vars
<1>. QED  BY <1>5, <1>6, <1>7, <1>8, <1>9 DEF Next, Sender

-----------------------------------------------------------------------------
(* The theorems.                                                           *)

LEMMA NextInv == IInv /\ [Next]_vars => IInv'
BY TypeStep, ConnStep, PartsStep, FramesStep, PlacesStep, IdsStep DEF IInv, Places

\* The inductive invariant holds in every reachable state.
THEOREM Invariance == Spec => []IInv
<1>1. Init => IInv
  BY InitInv
<1>2. IInv /\ [Next]_vars => IInv'
  BY NextInv
<1>. QED  BY <1>1, <1>2, PTL DEF Spec

\* Every variable has its type.
THEOREM TypeCorrect == Spec => []TypeOK
<1>1. IInv => TypeOK
  BY DEF IInv
<1>. QED  BY <1>1, Invariance, PTL

\* A command ends well only with the answer to itself (ws.go:156-171, 494-505).
THEOREM AnswersReachTheirCommand == Spec => []AnswersOwn
<1>1. IInv => AnswersOwn
  BY DEF IInv
<1>. QED  BY <1>1, Invariance, PTL

\* The map of pending acknowledgements has no entry that nobody waits for
\* (ws.go:143-154, 506-519).
THEOREM NobodyLeftWaiting == Spec => []NoWaiterLeft
<1>1. IInv => NoWaiterLeft
  BY DEF IInv
<1>. QED  BY <1>1, Invariance, PTL

\* A reply context is taken by one Send, and nobody finds it any more
\* (ws.go:198-222).
THEOREM ContextsTakenOnce == Spec => []AnsweredOnce
<1>1. IInv => AnsweredOnce
  BY ContextKinds DEF IInv, TypeOK, IdsApart, AnsweredOnce
<1>. QED  BY <1>1, Invariance, PTL

\* No connection outlives the loop (ws.go:269-347).
THEOREM ConnectionsClosed == Spec => []ClosedAtEnd
<1>1. IInv => ClosedAtEnd
  BY DEF IInv, TypeOK, OneConnection, ClosedAtEnd
<1>. QED  BY <1>1, Invariance, PTL

=============================================================================
