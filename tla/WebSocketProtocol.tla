-------------------------- MODULE WebSocketProtocol --------------------------
(***************************************************************************)
(* One WebSocket endpoint, server or client                                *)
(* (plugins/websocket/protocol.cpp, protocol.h): the opening and the       *)
(* closing handshake, the five timers, the queue of delayed writes, and    *)
(* the frames of the peer up to the messages handed to onMessage.          *)
(*                                                                         *)
(* A step is one handler of the reactor's thread or one call of the        *)
(* application.  A handler calls other methods that change the state       *)
(* before the rest of it runs, so each method is an operator from the      *)
(* state it finds to the state it leaves, and an action applies them in    *)
(* the order of the code.  What the application does inside a callback is  *)
(* the same as doing it right after the handler.                           *)
(*                                                                         *)
(* A frame is its kind, size and flaws; a message is its size and whether  *)
(* its text is well formed.  The peer may send anything: the server's and  *)
(* the client's side of the wire are both the environment.  Compression,   *)
(* traffic statistics and the Flash policy file are left out.              *)
(***************************************************************************)
EXTENDS Integers, Sequences, FiniteSets

CONSTANTS
    Roles,            \* "server", "client", "proxied": a client with a proxy
    FailByDrops,      \* what _failByDrop may be
    TimerSets,        \* sets of timers that may have a duration
    Sizes,            \* payload sizes of the peer's frames
    MaxMessageSize,   \* _maxMessagePayloadSize, 0 for no limit
    MaxFrameSize,     \* _maxFramePayloadSize, 0 for no limit
    MaxFrames,        \* bound: frames the peer sends
    MaxMade           \* bound: frames made before the application stops sending

AllTimers == {"open", "close", "drop", "ping", "pong"}

ASSUME WebSocketAssumption ==
    /\ Roles \subseteq {"server", "client", "proxied"}
    /\ FailByDrops \subseteq BOOLEAN
    /\ TimerSets \subseteq SUBSET AllTimers
    /\ Sizes \subseteq Nat
    /\ MaxMessageSize \in Nat /\ MaxFrameSize \in Nat
    /\ MaxFrames \in Nat /\ MaxMade \in Nat

VARIABLES
    config,     \* _isServer, the proxy, _failByDrop and the durations
    conn,       \* the state the methods below work on
    frame,      \* _currentFrame, NoFrame between frames
    inside,     \* _insideMessage
    message,    \* the message being received
    frames,     \* frames begun by the peer
    offered,    \* messages the peer has completed
    delivered,  \* messages handed to onMessage
    outcome,    \* what onClose was told
    crashed     \* a null _wasNotCleanReason was followed

vars == <<config, conn, frame, inside, message, frames, offered, delivered,
          outcome, crashed>>
receiveVars == <<frame, inside, message, frames, offered, delivered>>
endVars == <<outcome, crashed>>

NoFrame == [kind |-> "none", fin |-> TRUE]
NoMessage == [size |-> 0, text |-> FALSE, rejected |-> FALSE]
ControlKinds == {"close", "ping", "pong"}
DataKinds == {"text", "binary", "continuation"}
Utf8 == {"valid", "partial", "invalid"}

IsServer == config.role = "server"
Opening == {"PROXY_CONNECTING", "CONNECTING"}

-----------------------------------------------------------------------------
(* Timers.  due counts the handlers that will run whatever happens: those  *)
(* of timers that have expired, which cancel no longer reaches, and those  *)
(* of timers whose handle was overwritten or reset.                        *)

Arm(c, t) ==
    IF t \notin config.timers THEN c
    ELSE [c EXCEPT !.armed = @ \union {t},
                   !.due[t] = @ + Cardinality(c.armed \intersect {t})]

Cancel(c, t) == [c EXCEPT !.armed = @ \ {t}]

(* A handler starts by resetting the handle, a newer timer's too. *)
Fired(c, t) ==
    IF t \in c.armed THEN Cancel(c, t) ELSE [c EXCEPT !.due[t] = @ - 1]

-----------------------------------------------------------------------------
(* Writing.  Frames are numbered as they are made; the close frame has     *)
(* number closeId.  A transport that was told to close takes no more.      *)

Write(c, n) == IF c.droppedByMe THEN c.wire ELSE Append(c.wire, n)

(* Mutant: the chain of delayed calls ends with the last frame written.    *)
SendAndStop(c) ==
    IF c.queue = <<>> THEN [c EXCEPT !.triggered = FALSE]
    ELSE [c EXCEPT !.queue = Tail(@), !.wire = Write(c, Head(c.queue)),
                   !.triggered = Len(c.queue) > 1, !.sends = @ + 1]

Send(c) ==
    IF c.queue = <<>> THEN [c EXCEPT !.triggered = FALSE]
    ELSE [c EXCEPT !.queue = Tail(@),
                   !.wire = IF c.state = "CLOSED" THEN @ ELSE Write(c, Head(c.queue)),
                   !.sends = @ + 1]

Trigger(c) == IF c.triggered THEN c ELSE Send([c EXCEPT !.triggered = TRUE])

(* Mutant: an ordinary send overtakes the queue.                           *)
SendDataNow(c, sync) ==
    LET n == c.made + 1
    IN IF sync
       THEN Trigger([c EXCEPT !.made = n, !.queue = Append(@, n)])
       ELSE [c EXCEPT !.made = n, !.wire = Write(c, n)]

SendData(c, sync) ==
    LET n == c.made + 1
    IN IF sync \/ c.queue # <<>>
       THEN Trigger([c EXCEPT !.made = n, !.queue = Append(@, n)])
       ELSE [c EXCEPT !.made = n, !.wire = Write(c, n)]

SendFragments(c, n, sync) ==
    IF n = 1 THEN SendData(c, sync) ELSE SendData(SendData(c, sync), sync)

-----------------------------------------------------------------------------
(* Closing.                                                                *)

DropConnection(c) ==
    IF c.state = "CLOSED" THEN c
    ELSE [c EXCEPT !.droppedByMe = TRUE, !.state = "CLOSED"]

DropUnclean(c) == DropConnection([c EXCEPT !.wasClean = FALSE, !.reason = TRUE])

Closing(c, isReply) ==
    [c EXCEPT !.state = "CLOSING", !.closedByMe = ~isReply, !.closeId = c.made]

SendCloseFrame(c, isReply) ==
    IF c.state # "OPEN" THEN c
    ELSE LET d == Closing(SendData(c, FALSE), isReply)
         IN IF isReply THEN d ELSE Arm(d, "close")

FailConnection(c) ==
    LET d == [c EXCEPT !.failedByMe = TRUE]
    IN CASE c.state = "CLOSED" -> c
         [] c.state # "CLOSED" /\ config.failByDrop -> DropUnclean(d)
         [] c.state = "CLOSING" /\ ~config.failByDrop -> DropConnection(d)
         [] c.state = "OPEN" /\ ~config.failByDrop -> SendCloseFrame(d, FALSE)

(* Each flaw fails the connection; only with failByDrop does the caller    *)
(* stop at the first.  A third would find the connection closed.           *)
Stops(flaws) == flaws > 0 /\ config.failByDrop

Violations(c, flaws) ==
    CASE flaws = 0 -> c
      [] flaws = 1 \/ Stops(flaws) -> FailConnection(c)
      [] flaws > 1 /\ ~config.failByDrop -> FailConnection(FailConnection(c))

(* Mutant: the client waits for the server to drop without a time-out.     *)
CloseAnsweredNoTimer(c) ==
    LET d == [Cancel(c, "close") EXCEPT !.wasClean = TRUE]
    IN IF IsServer THEN DropConnection(d) ELSE d

CloseAnswered(c) ==
    LET d == [Cancel(c, "close") EXCEPT !.wasClean = TRUE]
    IN IF IsServer THEN DropConnection(d) ELSE Arm(d, "drop")

AnswerClose(c) ==
    LET d == SendCloseFrame([c EXCEPT !.wasClean = TRUE], TRUE)
    IN IF IsServer THEN DropConnection(d) ELSE d

OnCloseFrame(c, flaws) ==
    LET d == Violations([c EXCEPT !.closeSeen = TRUE], flaws)
    IN CASE Stops(flaws) -> d
         [] ~Stops(flaws) /\ d.state = "CLOSING" -> CloseAnswered(d)
         [] ~Stops(flaws) /\ d.state = "OPEN" -> AnswerClose(d)
         [] ~Stops(flaws) /\ d.state = "CLOSED" -> [d EXCEPT !.wasClean = FALSE]

OnPing(c) == IF c.state = "OPEN" THEN SendData(c, FALSE) ELSE c

OnPendingPong(c) == Arm([Cancel(c, "pong") EXCEPT !.pinged = FALSE], "ping")

-----------------------------------------------------------------------------
Idle == [
    state |-> "CONNECTING", up |-> TRUE,
    wasClean |-> FALSE, reason |-> FALSE,
    droppedByMe |-> FALSE, closedByMe |-> FALSE, failedByMe |-> FALSE,
    armed |-> {}, due |-> [t \in AllTimers |-> 0],
    queue |-> <<>>, made |-> 0, wire |-> <<>>, triggered |-> FALSE, sends |-> 0,
    closeId |-> 0, closeSeen |-> FALSE, pinged |-> FALSE]

(* connectionMade, with the request a client sends at once. *)
Made(role) ==
    LET c == Arm(Idle, "open")
    IN CASE role = "server" -> c
         [] role = "client" -> SendData(c, FALSE)
         [] role = "proxied" -> SendData([c EXCEPT !.state = "PROXY_CONNECTING"], FALSE)

Init ==
    /\ config \in [role: Roles, failByDrop: FailByDrops, timers: TimerSets]
    /\ conn = Made(config.role)
    /\ frame = NoFrame /\ inside = FALSE
    /\ message = NoMessage
    /\ frames = 0 /\ offered = 0 /\ delivered = <<>>
    /\ outcome = "none" /\ crashed = FALSE

-----------------------------------------------------------------------------
(* The opening handshake.                                                  *)

Accept(c) == Arm(Cancel([c EXCEPT !.state = "OPEN"], "open"), "ping")

Refuse(c) == DropConnection([c EXCEPT !.reason = TRUE])

(* A failing proxy leaves no reason. *)
ProcessProxyConnect ==
    /\ conn.up /\ conn.state = "PROXY_CONNECTING"
    /\ \/ conn' = SendData([conn EXCEPT !.state = "CONNECTING"], FALSE)
       \/ conn' = DropConnection(conn)
    /\ UNCHANGED <<config, receiveVars, endVars>>

(* A request without an Upgrade header gets a redirection or the status    *)
(* page, sent in two pieces, and no reason is noted.  An exception of      *)
(* onConnect refuses the connection, one of onOpen comes after OPEN.       *)
Answers(c) ==
    LET accepted == Accept(SendData(c, FALSE))
    IN {accepted,
        Refuse(SendData(accepted, FALSE)),
        Refuse(SendData(c, FALSE)),
        DropConnection(SendData(c, FALSE)),
        DropConnection(SendFragments(c, 2, FALSE))}

(* A server that is reached on another port than 80 or 443 refuses a Host  *)
(* header without one, but reads on and may open what it has dropped.      *)
ServerHandshake ==
    /\ IsServer
    /\ \E c \in {conn, Refuse(SendData(conn, FALSE))}: conn' \in Answers(c)

ClientHandshake ==
    /\ ~IsServer
    /\ conn' \in {Accept(conn), FailConnection(Accept(conn)), Refuse(conn)}

ProcessHandshake ==
    /\ conn.up /\ conn.state = "CONNECTING"
    /\ ServerHandshake \/ ClientHandshake
    /\ inside' = FALSE /\ frame' = NoFrame
    /\ UNCHANGED <<config, message, frames, offered, delivered, endVars>>

-----------------------------------------------------------------------------
(* The frames of the peer: the header, then the payload in one chunk or    *)
(* several, the last of which ends the frame.                              *)

Receiving == conn.up /\ conn.state \in {"OPEN", "CLOSING"}

Exceeds(limit, size) == 0 < limit /\ limit < size

BeginMessage(kind) ==
    IF inside THEN message
    ELSE [NoMessage EXCEPT !.text = (kind = "text")]

(* Mutant: the limit is applied to each frame alone.                       *)
FrameBeginAlone(c, total, size) ==
    IF ~c.failedByMe /\ (Exceeds(MaxMessageSize, size) \/ Exceeds(MaxFrameSize, size))
    THEN FailConnection(c) ELSE c

MessageFrameBegin(c, total, size) ==
    IF ~c.failedByMe /\ (Exceeds(MaxMessageSize, total) \/ Exceeds(MaxFrameSize, size))
    THEN FailConnection(c) ELSE c

Misplaced(kind) ==
    \/ kind = "continuation" /\ ~inside
    \/ kind \in {"text", "binary"} /\ inside

BeginControl(kind, flaws) ==
    /\ conn' = Violations(conn, flaws)
    /\ frame' = [kind |-> kind, fin |-> TRUE]
    /\ UNCHANGED <<inside, message>>

(* Mutant: only a frame that is not the last counts as inside a message.   *)
BeginDataFinal(kind, fin, size, flaws) ==
    LET begun == BeginMessage(kind)
        total == begun.size + size
    IN /\ conn' = MessageFrameBegin(Violations(conn, flaws), total, size)
       /\ frame' = [kind |-> kind, fin |-> fin]
       /\ inside' = ~fin
       /\ message' = [begun EXCEPT !.size = total]

BeginData(kind, fin, size, flaws) ==
    LET begun == BeginMessage(kind)
        total == begun.size + size
    IN /\ conn' = MessageFrameBegin(Violations(conn, flaws), total, size)
       /\ frame' = [kind |-> kind, fin |-> fin]
       /\ inside' = TRUE
       /\ message' = [begun EXCEPT !.size = total]

FrameBegin ==
    /\ Receiving /\ frame = NoFrame /\ frames < MaxFrames
    /\ frames' = frames + 1
    /\ \E kind \in ControlKinds \union DataKinds, fin \in BOOLEAN,
          size \in Sizes, other \in 0..2:
         LET flaws == other + (IF Misplaced(kind) THEN 1 ELSE 0)
         IN \/ /\ Stops(flaws)
               /\ conn' = Violations(conn, flaws)
               /\ UNCHANGED <<frame, inside, message>>
            \/ ~Stops(flaws) /\ kind \in ControlKinds /\ BeginControl(kind, flaws)
            \/ ~Stops(flaws) /\ kind \in DataKinds /\ BeginData(kind, fin, size, flaws)
    /\ UNCHANGED <<config, offered, delivered, endVars>>

(* What the validator says of the text up to the next chunk: a rejected    *)
(* text stays rejected, an incomplete one may still become anything.       *)
Verdicts ==
    IF ~message.text THEN {"valid"}
    ELSE IF message.rejected THEN {"invalid"} ELSE Utf8

Chunk(c, verdict) == IF verdict = "invalid" THEN FailConnection(c) ELSE c

Checked(verdict) == [message EXCEPT !.rejected = (verdict = "invalid")]

FrameData ==
    /\ Receiving /\ frame.kind \in DataKinds
    /\ \E verdict \in Verdicts:
         /\ conn' = Chunk(conn, verdict)
         /\ message' = Checked(verdict)
    /\ UNCHANGED <<config, frame, inside, frames, offered, delivered, endVars>>

(* Mutant: only the message that failed is withheld.                       *)
DeliverIfValid(c, verdict) ==
    /\ offered' = offered + 1
    /\ delivered' = IF verdict # "valid" THEN delivered
                    ELSE Append(delivered, [size |-> message.size, valid |-> TRUE])

(* onMessageEnd: a connection that failed delivers no more. *)
DeliverMessage(c, verdict) ==
    /\ offered' = offered + 1
    /\ delivered' = IF c.failedByMe THEN delivered
                    ELSE Append(delivered, [size |-> message.size,
                                            valid |-> verdict = "valid"])

EndMessage(c, verdict) ==
    LET d == Violations(c, IF verdict = "valid" THEN 0 ELSE 1)
    IN /\ conn' = d
       /\ IF verdict # "valid" /\ config.failByDrop
          THEN /\ message' = Checked(verdict)
               /\ UNCHANGED <<frame, inside, offered, delivered>>
          ELSE /\ DeliverMessage(d, verdict)
               /\ frame' = NoFrame /\ inside' = FALSE /\ message' = NoMessage

FrameEnd ==
    /\ Receiving /\ frame.kind \in DataKinds
    /\ \E verdict \in Verdicts:
         LET c == Chunk(conn, verdict)
             stops == verdict = "invalid" /\ config.failByDrop
         IN \/ /\ stops
               /\ conn' = c /\ message' = Checked(verdict)
               /\ UNCHANGED <<frame, inside, offered, delivered>>
            \/ ~stops /\ frame.fin /\ EndMessage(c, verdict)
            \/ /\ ~stops /\ ~frame.fin
               /\ conn' = c /\ message' = Checked(verdict) /\ frame' = NoFrame
               /\ UNCHANGED <<inside, offered, delivered>>
    /\ UNCHANGED <<config, frames, endVars>>

ControlFrameEnd ==
    /\ Receiving
    /\ \/ /\ frame.kind = "close"
          /\ \E flaws \in 0..2: conn' = OnCloseFrame(conn, flaws)
       \/ frame.kind = "ping" /\ conn' = OnPing(conn)
       \/ frame.kind = "pong" /\ conn.pinged /\ conn' = OnPendingPong(conn)
       \/ frame.kind = "pong" /\ UNCHANGED conn
    /\ frame' = NoFrame
    /\ UNCHANGED <<config, inside, message, frames, offered, delivered, endVars>>

-----------------------------------------------------------------------------
(* The timers, and the loss of the connection.                             *)

(* Timers of one kind last equally long: the handler of the older one runs *)
(* before the newer one expires.                                           *)
Expire(t) ==
    /\ t \in conn.armed /\ conn.due[t] = 0
    /\ conn' = [Cancel(conn, t) EXCEPT !.due[t] = @ + 1]
    /\ UNCHANGED <<config, receiveVars, endVars>>

(* Mutant: the time-out is armed only for a ping that was sent.            *)
SendAutoPingIfOpen(c) ==
    IF c.state = "OPEN"
    THEN Arm([SendData(c, FALSE) EXCEPT !.pinged = TRUE], "pong")
    ELSE c

(* sendAutoPing arms the time-out even if the ping was not sent. *)
SendAutoPing(c) ==
    Arm([(IF c.state = "OPEN" THEN SendData(c, FALSE) ELSE c)
            EXCEPT !.pinged = TRUE], "pong")

OnTimeout(c, t) ==
    CASE t = "ping" -> SendAutoPing(c)
      [] t = "pong" -> DropUnclean(c)
      [] t = "open" -> IF c.state \in Opening THEN DropUnclean(c) ELSE c
      [] t \in {"close", "drop"} -> IF c.state # "CLOSED" THEN DropUnclean(c) ELSE c

HandleTimeout(t) ==
    /\ conn.due[t] > 0
    /\ conn' = OnTimeout(Fired(conn, t), t)
    /\ UNCHANGED <<config, receiveVars, endVars>>

DelayedSend ==
    /\ conn.sends > 0
    /\ conn' = Send([conn EXCEPT !.sends = @ - 1])
    /\ UNCHANGED <<config, receiveVars, endVars>>

(* What connectionLost reports rests on wasClean, and on a reason it adds  *)
(* only if the peer dropped the connection.                                *)
LossReason(c) == c.reason \/ ~c.droppedByMe

LossCancels(c) == Cancel(IF IsServer THEN c ELSE Cancel(c, "drop"), "ping")

ConnectionLost ==
    /\ conn.up
    /\ LET c == [LossCancels(conn) EXCEPT !.up = FALSE, !.state = "CLOSED"]
       IN \/ conn.wasClean /\ conn' = c /\ outcome' = "clean" /\ UNCHANGED crashed
          \/ /\ ~conn.wasClean
             /\ conn' = [c EXCEPT !.reason = LossReason(c)]
             /\ \/ LossReason(c) /\ outcome' = "unclean" /\ UNCHANGED crashed
                \/ ~LossReason(c) /\ crashed' = TRUE /\ UNCHANGED outcome
    /\ UNCHANGED <<config, receiveVars>>

-----------------------------------------------------------------------------
(* The application.  Before OPEN sendClose throws, and later calls return. *)

SendMessage ==
    /\ conn.state = "OPEN"
    /\ \E fragments \in 1..2, sync \in BOOLEAN:
         /\ conn.made + fragments <= MaxMade
         /\ conn' = SendFragments(conn, fragments, sync)
    /\ UNCHANGED <<config, receiveVars, endVars>>

SendPing ==
    /\ conn.state = "OPEN" /\ conn.made < MaxMade
    /\ conn' = SendData(conn, FALSE)
    /\ UNCHANGED <<config, receiveVars, endVars>>

SendClose ==
    /\ conn.state = "OPEN"
    /\ conn' = SendCloseFrame(conn, FALSE)
    /\ UNCHANGED <<config, receiveVars, endVars>>

Application == SendMessage \/ SendPing \/ SendClose

Peer ==
    \/ ProcessProxyConnect \/ ProcessHandshake
    \/ FrameBegin \/ FrameData \/ FrameEnd \/ ControlFrameEnd
    \/ ConnectionLost

Clock == DelayedSend \/ \E t \in AllTimers: Expire(t) \/ HandleTimeout(t)

Next == ~crashed /\ (Application \/ Peer \/ Clock)

Spec == Init /\ [][Next]_vars

(* Timers expire, and the reactor runs every handler that is ready.  The   *)
(* peer owes nothing.                                                      *)
FairSpec ==
    /\ Spec
    /\ WF_vars(~crashed /\ DelayedSend)
    /\ \A t \in AllTimers: WF_vars(~crashed /\ Expire(t)) /\ WF_vars(~crashed /\ HandleTimeout(t))

-----------------------------------------------------------------------------
States == Opening \union {"OPEN", "CLOSING", "CLOSED"}
Ids == 1..(MaxMade + 2 * MaxFrames + 4)

(* Every part of the state keeps its kind and stays within the bounds.     *)
TypeOK ==
    /\ config \in [role: Roles, failByDrop: FailByDrops, timers: TimerSets]
    /\ conn.state \in States
    /\ \A flag \in {conn.up, conn.wasClean, conn.reason, conn.droppedByMe,
                    conn.closedByMe, conn.failedByMe, conn.triggered,
                    conn.closeSeen, conn.pinged, inside, crashed}: flag \in BOOLEAN
    /\ conn.armed \subseteq config.timers
    /\ \A t \in AllTimers: conn.due[t] \in 0..(MaxFrames + 1) /\ (t \notin config.timers => conn.due[t] = 0)
    /\ conn.sends \in Nat /\ conn.made \in Nat
    /\ conn.queue \in Seq(Ids) /\ conn.wire \in Seq(Ids)
    /\ conn.closeId \in 0..conn.made
    /\ frame.kind \in {"none"} \union ControlKinds \union DataKinds
    /\ frame.kind \in DataKinds => inside
    /\ message \in [size: Nat, text: BOOLEAN, rejected: BOOLEAN]
    /\ frames \in 0..MaxFrames
    /\ Len(delivered) <= offered /\ offered <= frames
    /\ outcome \in {"none", "clean", "unclean"}

(* sendData writes at once or queues behind frames that wait (protocol.cpp *)
(* 683-744): whatever mix of synchronous and ordinary sends, pings, pongs  *)
(* and delayed writes there is, frames reach the transport in the order    *)
(* they were made and without a gap, all of them until the connection is   *)
(* dropped or lost, and nothing is made after the close frame.             *)
FramesInOrder ==
    /\ \A i \in DOMAIN conn.wire: conn.wire[i] = i
    /\ conn.state # "CLOSED" /\ ~conn.droppedByMe =>
            conn.wire \o conn.queue = [n \in 1..conn.made |-> n]
    /\ conn.closeId # 0 => conn.closeId = conn.made

(* _triggered stands for the one call of send that the reactor still owes  *)
(* (protocol.h 213-218, protocol.cpp 717-744): a queue with frames in it   *)
(* is being emptied, and never by two chains of calls at a time.           *)
QueueIsServed ==
    /\ conn.queue # <<>> => conn.triggered
    /\ conn.sends = (IF conn.triggered THEN 1 ELSE 0)

(* onMessage gets no message over the limit, no text that is not UTF-8,    *)
(* and none of a connection that failed while the message was received     *)
(* (protocol.cpp 778-793, 808-866, 885-894).                               *)
DeliverableOnly ==
    \A i \in DOMAIN delivered:
        /\ ~Exceeds(MaxMessageSize, delivered[i].size)
        /\ delivered[i].valid

S == INSTANCE Session WITH
    phase <- CASE conn.state \in Opening -> "opening"
               [] conn.state \in {"OPEN", "CLOSING"} -> "open"
               [] conn.state = "CLOSED" -> "closed",
    delivered <- Len(delivered),
    closes <- (IF conn.closeId # 0 THEN {"made"} ELSE {})
                \union (IF conn.closeSeen THEN {"received"} ELSE {})

(* The endpoint keeps the promise of Session: messages in order and none   *)
(* left out, one report at the end, clean only after the close frame of    *)
(* the peer and one made in return, which a drop may keep from being sent  *)
(* (protocol.cpp 223-264, 735, 947-1018).                                  *)
ImplementsSession == S!Spec

(* A peer cannot keep either handshake open: the opening handshake ends    *)
(* (protocol.cpp 305-323), and so does the closing handshake this side     *)
(* began, answered or not (325-336, 292-303), with automatic pings or      *)
(* without.                                                                *)
HandshakesEnd ==
    /\ conn.state \in Opening ~> conn.state \notin Opening
    /\ (conn.state = "CLOSING" /\ conn.closedByMe) ~> conn.state = "CLOSED"

(* The automatic pings find out a peer that fell silent, as every peer     *)
(* does after MaxFrames frames, however many pings it answered before and  *)
(* whatever state it left the endpoint in (protocol.cpp 338-343, 913-938,  *)
(* 1020-1034).                                                             *)
SilentPeerIsDropped == {"ping", "pong"} \subseteq config.timers ~> conn.state = "CLOSED"

(* Every connection a peer could hold open ends.                           *)
ConnectionsEnd == HandshakesEnd /\ SilentPeerIsDropped

(* doc/api.md 1073-1076: onClose is the callback "when the connection is   *)
(* closed".  connectionLost may follow an empty _wasNotCleanReason before  *)
(* it gets there (protocol.cpp 254-260).                                   *)
LossIsReported == ~conn.up => outcome # "none"
=============================================================================
