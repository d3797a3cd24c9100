------------------------------- MODULE WeWork -------------------------------
(***************************************************************************)
(* The long connection of the WeWork channel (internal/core/channels/      *)
(* wework/ws.go): a loop that keeps one websocket, subscribes on it and    *)
(* pings it, a goroutine per connection that reads its frames, and the     *)
(* callers of Send and SendStream, whose commands all share the socket.  A *)
(* command carries a request id and waits for the frame that acknowledges  *)
(* it, ten seconds at most; a reply carries the request id of the message  *)
(* it answers, which the channel remembers in a map by message and a queue *)
(* by chat, so the commands of one reply share their id.  The server is    *)
(* its answers: late, in any order, refusals, or none when the connection  *)
(* drops.                                                                  *)
(***************************************************************************)
EXTENDS Integers, FiniteSets, TLC

CONSTANTS
  Outbound,   \* calls of Send and SendStream
  Chats,
  PerChat,    \* messages per chat
  Conns,      \* bound: connections open or still being read at one time
  LastReq,    \* bound: frames of the server that carry a message
  MaxParts,   \* bound: commands of all outbound messages together
  None

\* The request ids of the server's frames, in the order of the frames.
Reqs == {"server"} \X (1 .. LastReq)
Messages == Chats \X (1 .. PerChat)
ChatOf(msg) == msg[1]

\* A command is its sender and the connection, or the number of the part of
\* the message.  A command that is no reply is its own (random) request id.
Commands == (Outbound \X (1 .. MaxParts)) \cup ({"subscribe"} \X Conns)
Contexts == [msg : Messages, req : Reqs]
NoContext == [msg |-> None, req |-> None]

ASSUME WeWorkAssumption ==
  /\ PerChat \in Nat /\ LastReq \in Nat /\ MaxParts \in Nat
  /\ {"server", "subscribe"} \cap Outbound = {}
  /\ None \notin Messages \cup Reqs \cup Commands \cup Conns

VARIABLES
  conn,       \* weworkLongConnState.conn
  up,         \* the connections that neither side has closed
  session,    \* the connection of runLongConnSession
  loop,       \* where startLongConnLoop is
  stopped,    \* stopChan is closed, or the context of Start is done
  stopping,   \* Stop has closed the connection but not yet stopChan
  reader,     \* reader[c]: where readLongConnLoop is, and the answer it delivers
  pending,    \* pending[id]: the command whose channel waits for id
  chan,       \* chan[k]: the acknowledgement channel of command k
  at, req,    \* where each command is, with which id
  unanswered, \* the frames the server has received and not answered
  received,   \* frames with a message so far
  byMsgID,    \* the reply context of each message
  byChatID,   \* those of each chat: a queue, in the order of their request ids
  sender,     \* where each Send is
  part,       \* the number of its command
  context     \* the reply context it took

sockets == <<conn, up, session, loop, stopped, stopping>>
acks == <<pending, chan, at, req, unanswered>>
contexts == <<received, byMsgID, byChatID>>
senders == <<sender, part, context>>
vars == <<sockets, reader, acks, contexts, senders>>

Idle == [at |-> "none", chan |-> None, answer |-> None]
Reading == [at |-> "reading", chan |-> None, answer |-> None]
Blocked == [at |-> "publishing", chan |-> None, answer |-> None]
Over == [at |-> "over", chan |-> None, answer |-> None]

\* An acknowledgement channel has room for one answer.
Unmade == [at |-> "none", of |-> None, ok |-> FALSE]
Empty == [at |-> "open", of |-> None, ok |-> FALSE]
Closed == [at |-> "closed", of |-> None, ok |-> FALSE]
Answers == [at : {"answered"}, of : Commands, ok : BOOLEAN]
Ids == Reqs \cup Commands
Frames == [of : Commands, id : Ids, on : Conns]

TypeOK ==
  /\ conn \in Conns \cup {None} /\ up \subseteq Conns /\ session \in Conns \cup {None}
  /\ loop \in {"dialing", "subscribing", "serving", "waiting", "ended"}
  /\ stopped \in BOOLEAN /\ stopping \in BOOLEAN
  /\ reader \in [Conns -> {Idle, Reading, Blocked, Over}
                  \cup [at : {"resolving"}, chan : Commands, answer : Answers]]
  /\ pending \in [Ids -> Commands \cup {None}]
  /\ chan \in [Commands -> {Unmade, Empty, Closed} \cup Answers]
  /\ at \in [Commands -> {"none", "registered", "written", "ok", "failed"}]
  /\ req \in [Commands -> Ids \cup {None}]
  /\ unanswered \subseteq Frames
  /\ received \in 0 .. LastReq
  /\ byMsgID \in [Messages -> Contexts \cup {NoContext}]
  /\ byChatID \in [Chats -> SUBSET Contexts]
  /\ sender \in [Outbound -> {"none", "ready", "waiting", "returned"}]
  /\ part \in [Outbound -> 0 .. MaxParts]
  /\ context \in [Outbound -> Contexts \cup {NoContext}]

Init ==
  /\ conn = None /\ up = {} /\ session = None /\ loop = "waiting"
  /\ stopped = FALSE /\ stopping = FALSE
  /\ reader = [c \in Conns |-> Idle]
  /\ pending = [i \in Ids |-> None] /\ chan = [k \in Commands |-> Unmade]
  /\ at = [k \in Commands |-> "none"]
  /\ req = [k \in Commands |-> None]
  /\ unanswered = {}
  /\ received = 0
  /\ byMsgID = [m \in Messages |-> NoContext] /\ byChatID = [c \in Chats |-> {}]
  /\ sender = [o \in Outbound |-> "none"]
  /\ part = [o \in Outbound |-> 0]
  /\ context = [o \in Outbound |-> NoContext]

-----------------------------------------------------------------------------
(* sendLongConnCommandWithResponse: the steps of command k.                *)

\* A new command registers its channel first.
RegisterAck(k, id) ==
  /\ pending' = [pending EXCEPT ![id] = k] /\ chan' = [chan EXCEPT ![k] = Empty]
  /\ req' = [req EXCEPT ![k] = id]
  /\ at' = [at EXCEPT ![k] = "registered"]

\* unregisterAck: whatever waits for the id is removed and its channel closed.
UnregisterAck(id) ==
  /\ pending' = [pending EXCEPT ![id] = None]
  /\ chan' = IF pending[id] = None THEN chan ELSE [chan EXCEPT ![pending[id]] = Closed]

ReturnGoesOn(k, result) ==  \* mutant: the error of a part does not end the message
  /\ req' = [req EXCEPT ![k] = None]
  /\ IF k[1] = "subscribe"
     THEN at' = [at EXCEPT ![k] = result] /\ UNCHANGED sender
     ELSE at' = [at EXCEPT ![k] = "none"] /\ sender' = [sender EXCEPT ![k[1]] = "ready"]
  /\ UNCHANGED <<sockets, reader, contexts, part, context>>

\* The command returns to the loop, which looks at the result, or to its Send,
\* which goes on with the next part or returns the first error.
Return(k, result) ==
  /\ req' = [req EXCEPT ![k] = None]
  /\ IF k[1] = "subscribe"
     THEN at' = [at EXCEPT ![k] = result] /\ UNCHANGED sender
     ELSE /\ at' = [at EXCEPT ![k] = "none"]
          /\ sender' = [sender EXCEPT ![k[1]] = IF result = "ok" THEN "ready" ELSE "returned"]
  /\ UNCHANGED <<sockets, reader, contexts, part, context>>

\* getConn and the write: a connection that is closed in between fails it.
WriteJSON(k) ==
  /\ at[k] = "registered" /\ conn \in up
  /\ unanswered' = unanswered \cup {[of |-> k, id |-> req[k], on |-> conn]}
  /\ at' = [at EXCEPT ![k] = "written"]
  /\ UNCHANGED <<sockets, reader, pending, chan, req, contexts, senders>>

\* There is no connection, or the write fails.
WriteFails(k) ==
  /\ at[k] = "registered"
  /\ UnregisterAck(req[k]) /\ Return(k, "failed")
  /\ UNCHANGED unanswered

TakeAck(k) ==
  /\ at[k] = "written" /\ chan[k] # Empty
  /\ Return(k, IF chan[k].ok THEN "ok" ELSE "failed")
  /\ chan' = [chan EXCEPT ![k] = Closed]
  /\ UNCHANGED <<pending, unanswered>>

TimeoutForgets(k) ==  \* mutant: the entry stays when the wait is over
  /\ at[k] = "written"
  /\ Return(k, "failed")
  /\ UNCHANGED <<pending, chan, unanswered>>

\* Ten seconds are over, or the context of the subscription is done.
Timeout(k) ==
  /\ at[k] = "written"
  /\ UnregisterAck(req[k]) /\ Return(k, "failed")
  /\ UNCHANGED unanswered

Command(k) == WriteJSON(k) \/ WriteFails(k) \/ TakeAck(k) \/ Timeout(k)

-----------------------------------------------------------------------------
(* readLongConnLoop: the goroutine that reads connection c.                *)

ResolveAckUnchecked(c, f) ==  \* mutant: an answer nobody waits for is sent all the same
  /\ reader[c] = Reading /\ c \in up
  /\ f \in unanswered /\ f.on = c
  /\ unanswered' = unanswered \ {f}
  /\ \E ok \in BOOLEAN :
       reader' = [reader EXCEPT ![c] = [at |-> "resolving", chan |-> pending[f.id],
                                        answer |-> [at |-> "answered", of |-> f.of, ok |-> ok]]]
  /\ pending' = [pending EXCEPT ![f.id] = None]
  /\ UNCHANGED <<sockets, chan, at, req, contexts, senders>>

\* resolveAck: the channel leaves the map under the lock, and only who took it
\* out may send on it or close it.
ResolveAck(c, f) ==
  /\ reader[c] = Reading /\ c \in up
  /\ f \in unanswered /\ f.on = c
  /\ unanswered' = unanswered \ {f}
  /\ \E ok \in BOOLEAN :
       reader' = IF pending[f.id] = None THEN reader
                 ELSE [reader EXCEPT ![c] = [at |-> "resolving", chan |-> pending[f.id],
                                             answer |-> [at |-> "answered", of |-> f.of, ok |-> ok]]]
  /\ pending' = [pending EXCEPT ![f.id] = None]
  /\ UNCHANGED <<sockets, chan, at, req, contexts, senders>>

\* The answer is sent and the channel closed behind it; it is garbage when the
\* command no longer waits.
SendAck(c) ==
  /\ reader[c].at = "resolving"
  /\ chan' = [chan EXCEPT ![reader[c].chan] =
                IF at[reader[c].chan] = "written" THEN reader[c].answer ELSE Closed]
  /\ reader' = [reader EXCEPT ![c] = Reading]
  /\ UNCHANGED <<sockets, pending, at, req, unanswered, contexts, senders>>

\* storeReplyContext.  A message may be delivered again with another request id.
StoreReplyContext(msg) ==
  LET ctx == [msg |-> msg, req |-> <<"server", received + 1>>] IN
  /\ received < LastReq
  /\ received' = received + 1
  /\ byMsgID' = [byMsgID EXCEPT ![msg] = ctx]
  /\ byChatID' = [byChatID EXCEPT ![ChatOf(msg)] = @ \cup {ctx}]

Symmetry == Permutations(Outbound) \cup Permutations(Conns)

Seen == {msg \in Messages : msg[2] <= received + 1}

\* A message callback goes on in a goroutine of its own.
ReadMessage(c) ==
  /\ reader[c] = Reading /\ c \in up
  /\ \E msg \in Seen : StoreReplyContext(msg)
  /\ UNCHANGED <<sockets, reader, acks, senders>>

\* An event is published by the reader itself, which waits for room on the bus.
ReadEvent(c) ==
  /\ reader[c] = Reading /\ c \in up
  /\ \E msg \in Seen : StoreReplyContext(msg)
  /\ reader' = [reader EXCEPT ![c] = Blocked]
  /\ UNCHANGED <<sockets, acks, senders>>

Published(c) ==
  /\ reader[c] = Blocked
  /\ reader' = [reader EXCEPT ![c] = Reading]
  /\ UNCHANGED <<sockets, acks, contexts, senders>>

\* A read error, a disconnected_event, or the session's context is done.
ReaderEnds(c) ==
  /\ reader[c] = Reading
  /\ reader' = [reader EXCEPT ![c] = IF c = session THEN Over ELSE Idle]
  /\ UNCHANGED <<sockets, acks, contexts, senders>>

Reader(c) ==
  \/ \E f \in unanswered : ResolveAck(c, f)
  \/ SendAck(c) \/ ReadMessage(c) \/ ReadEvent(c) \/ Published(c) \/ ReaderEnds(c)

-----------------------------------------------------------------------------
(* startLongConnLoop and runLongConnSession.                               *)

\* The first round, or five seconds are over, or the channel stops.
LoopTop ==
  /\ loop = "waiting"
  /\ loop' = IF stopped THEN "ended" ELSE "dialing"
  /\ UNCHANGED <<conn, up, session, stopped, stopping, reader, acks, contexts, senders>>

\* The connection is set, the reader started, and the subscription sent.
Dial ==
  /\ loop = "dialing"
  /\ \E c \in Conns :
       /\ c \notin up /\ reader[c] = Idle
       /\ session' = c /\ conn' = c /\ up' = up \cup {c}
       /\ reader' = [reader EXCEPT ![c] = Reading]
       /\ RegisterAck(<<"subscribe", c>>, <<"subscribe", c>>)
  /\ loop' = "subscribing"
  /\ UNCHANGED <<stopped, stopping, unanswered, contexts, senders>>

DialFails ==
  /\ loop = "dialing"
  /\ loop' = "waiting"
  /\ UNCHANGED <<conn, up, session, stopped, stopping, reader, acks, contexts, senders>>

Subscribed ==
  /\ loop = "subscribing" /\ at[<<"subscribe", session>>] = "ok"
  /\ loop' = "serving"
  /\ UNCHANGED <<conn, up, session, stopped, stopping, reader, acks, contexts, senders>>

\* Nothing is read from a connection that is down.
Down(c) == up' = up \ {c} /\ unanswered' = {f \in unanswered : f.on # c}
CloseConn == conn' = None /\ Down(conn)

\* The subscription failed; or, at any time, a ping (a command with an id of
\* its own, like the init of an upload) is not answered; or the reader ended or
\* the channel stops, which must end the session.
EndSession(close) ==
  /\ \/ loop = "subscribing" /\ at[<<"subscribe", session>>] = "failed"
     \/ loop = "serving"
  /\ loop' = "waiting" /\ session' = None
  /\ IF close THEN CloseConn ELSE UNCHANGED <<conn, up, unanswered>>
  /\ at' = [at EXCEPT ![<<"subscribe", session>>] = "none"]
  /\ reader' = IF reader[session] = Over THEN [reader EXCEPT ![session] = Idle] ELSE reader
  /\ UNCHANGED <<stopped, stopping, pending, chan, req, contexts, senders>>

SessionEndsOpen == EndSession(FALSE)  \* mutant: without the deferred closeConn
SessionEnds == EndSession(TRUE)

Loop == LoopTop \/ Dial \/ DialFails \/ Subscribed \/ SessionEnds

\* Stop closes the connection first; the loop may dial again before it sees stopChan.
Stop ==
  /\ ~stopping /\ ~stopped
  /\ CloseConn /\ stopping' = TRUE
  /\ UNCHANGED <<session, loop, stopped, reader, pending, chan, at, req, contexts, senders>>

CloseStopChan ==
  /\ stopping
  /\ stopped' = TRUE /\ stopping' = FALSE
  /\ UNCHANGED <<conn, up, session, loop, reader, acks, contexts, senders>>

Cancel ==
  /\ ~stopped /\ stopped' = TRUE
  /\ UNCHANGED <<conn, up, session, loop, stopping, reader, acks, contexts, senders>>

Drop ==
  /\ \E c \in up : Down(c)
  /\ UNCHANGED <<conn, session, loop, stopped, stopping, reader, pending, chan, at, req, contexts, senders>>

-----------------------------------------------------------------------------
(* sendLongConnMessage and SendStream.                                     *)

PopByMessageOnly(o, msg) ==  \* mutant: removeFromChatQueueLocked is not called
  /\ byMsgID[msg] # NoContext
  /\ context' = [context EXCEPT ![o] = byMsgID[msg]]
  /\ byMsgID' = [byMsgID EXCEPT ![msg] = NoContext]
  /\ UNCHANGED byChatID

\* popReplyContext for a reply to a message that is remembered.
PopByMessage(o, msg) ==
  /\ byMsgID[msg] # NoContext
  /\ context' = [context EXCEPT ![o] = byMsgID[msg]]
  /\ byMsgID' = [byMsgID EXCEPT ![msg] = NoContext]
  /\ byChatID' = [byChatID EXCEPT ![ChatOf(msg)] = {x \in @ : x.msg # msg}]

\* ... and otherwise: the oldest context of the chat, or none.
PopOldest(o, chat) ==
  \/ /\ byChatID[chat] = {}
     /\ UNCHANGED <<byMsgID, byChatID, context>>
  \/ \E ctx \in byChatID[chat] :
       /\ \A x \in byChatID[chat] : ctx.req[2] <= x.req[2]
       /\ context' = [context EXCEPT ![o] = ctx]
       /\ byMsgID' = [byMsgID EXCEPT ![ctx.msg] = NoContext]
       /\ byChatID' = [byChatID EXCEPT ![chat] = @ \ {ctx}]

Begin(o) ==
  /\ sender[o] = "none"
  /\ sender' = [sender EXCEPT ![o] = "ready"]
  /\ UNCHANGED <<sockets, reader, acks, received, part>>

SendMessage(o) ==
  /\ Begin(o)
  /\ \/ \E chat \in Chats : PopOldest(o, chat)
     \/ \E msg \in Messages : PopByMessage(o, msg)

\* A stream without a context is collected and then sent as a message.
SendStream(o) ==
  /\ Begin(o)
  /\ \E chat \in Chats : byChatID[chat] # {} /\ PopOldest(o, chat)

\* A text, a chunk of a stream or a medium.  The commands that upload a medium
\* have ids of their own, as every command of a message without a context has;
\* they only delay or fail the part.
SendPart(o) ==
  LET k == <<o, part[o] + 1>> IN
  /\ sender[o] = "ready" /\ part[o] < MaxParts
  /\ Cardinality({j \in Commands : chan[j] # Unmade /\ j[1] # "subscribe"}) < MaxParts
  /\ part' = [part EXCEPT ![o] = @ + 1]
  /\ RegisterAck(k, IF context[o] # NoContext THEN context[o].req ELSE k)
  /\ sender' = [sender EXCEPT ![o] = "waiting"]
  /\ UNCHANGED <<sockets, reader, unanswered, contexts, context>>

\* Nothing is left to send, or a medium cannot be prepared, or the stream fails.
SendReturns(o) ==
  /\ sender[o] = "ready"
  /\ sender' = [sender EXCEPT ![o] = "returned"]
  /\ UNCHANGED <<sockets, reader, acks, contexts, part, context>>

Sender(o) == SendMessage(o) \/ SendStream(o) \/ SendPart(o) \/ SendReturns(o)

Next ==
  \/ \E k \in Commands : Command(k)
  \/ \E c \in Conns : Reader(c)
  \/ Loop \/ Stop \/ CloseStopChan \/ Cancel \/ Drop
  \/ \E o \in Outbound : Sender(o)

Spec == Init /\ [][Next]_vars

-----------------------------------------------------------------------------
\* A command that ends well was acknowledged by the server: what its channel
\* carries is the answer to this command, never a late one to another command
\* of the same reply, and nobody sends on a channel that was closed.
AnswersOwn ==
  /\ \A k \in Commands : chan[k].at = "answered" => chan[k].of = k
  /\ \A c \in Conns : reader[c].at = "resolving" =>
       chan[reader[c].chan] = Empty /\ reader[c].answer.of = reader[c].chan

\* The map of pending acknowledgements holds a command only while that command
\* waits for it: when everybody has returned it is empty.
NoWaiterLeft ==
  \A i \in Ids : pending[i] # None =>
    at[pending[i]] \in {"registered", "written"} /\ req[pending[i]] = i

\* A request id of the server answers one message: a context is taken by one
\* Send, no Send takes one that is still to be found by message or by chat, and
\* what is found by message waits in the queue of its chat.
AnsweredOnce ==
  /\ \A o \in Outbound, c \in Chats : context[o] \notin byChatID[c]
  /\ \A o, p \in Outbound : o # p /\ context[o] # NoContext => context[o] # context[p]
  /\ \A msg \in Messages : byMsgID[msg] # NoContext => byMsgID[msg] \in byChatID[ChatOf(msg)]

\* When the loop has ended no connection is open, not even one that was dialled
\* while Stop ran; before that, the one in use is that of the session.
ClosedAtEnd ==
  /\ loop \in {"dialing", "waiting", "ended"} => conn = None /\ up = {}
  /\ conn # None => conn = session

=============================================================================
