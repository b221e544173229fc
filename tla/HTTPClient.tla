----------------------------- MODULE HTTPClient -----------------------------
(***************************************************************************)
(* HTTPClient::fetch: one HTTPClientConnection after another, as redirects *)
(* are followed, until the caller is answered.  The reactor runs posted    *)
(* reads, completed reads, time-outs and answers in the order in which     *)
(* they became ready (`queue`); whatever a handler posts goes to the end.  *)
(* Writes complete at once.  As in HTTPConnection, a method is an operator *)
(* from the state it finds to the one it leaves (`raised`: by exception).  *)
(***************************************************************************)
EXTENDS IOStream, SequencesExt

CONSTANTS
    Exchanges,     \* per connection, the responses its server sends
    Requests,      \* requests: what startRequest and onConnected look at
    BlockSize,     \* _chunkSize
    MaxResponseHeader, MaxBodySize

ASSUME ClientAssumption == BlockSize \in Nat \ {0}

RedirectCodes == {301, 302, 303, 307, 308}

(* The responses of one server, in turn: interim ones, without a body, then *)
(* the one that ends the connection, because the client asks for its close. *)
Conforms(e) ==
    /\ e \in Seq([code : Nat, body : {"length", "chunked", "close"}, length : Nat,
                  long : BOOLEAN, location : BOOLEAN])
    /\ e # <<>> /\ Last(e).code # 100
    /\ \A i \in 1..(Len(e) - 1) : e[i].code = 100 /\ e[i].body = "close" /\ e[i].length = 0

(* Servers conform, and there is one behind every redirect that is followed; *)
(* a redirect may lack the header that says where to.                      *)
ASSUME ServerAssumption ==
    /\ \A r \in Requests : r.redirects \in Nat
    /\ \A e \in Exchanges : Len(e) \in Nat \ {0} /\ \A hop \in 1..Len(e) :
        /\ Conforms(e[hop])
        /\ \A r \in Requests :
            Last(e[hop]).code \in RedirectCodes /\ Last(e[hop]).location /\ hop <= r.redirects
                => hop < Len(e)

VARIABLES
    exchange,  \* the servers' responses, one sequence for each connection
    request,   \* the request of the caller
    inbound,   \* octets of the present server that have not been read
    client,    \* has HTTPClient::close been called?
    fetch      \* the HTTPClientConnection that holds, or held, the callback

clientVars == <<exchange, request, inbound, client, fetch>>

Here(s) == exchange[s.hop]

(* What follows the data of the only chunk.                                *)
ChunkEnd == Line \o << <<"len", 0>> >> \o Line \o Line

ResponseOctets(i, k, head) ==
    LET data == [j \in 1..k.length |-> <<"body", i>>] IN
    (IF k.long THEN << <<"head", i>>, <<"more", i>>, <<"more", i>>, <<"end", i>> >>
               ELSE << <<"head", i>>, <<"end", i>> >>) \o
        (IF head \/ k.code = 304 THEN <<>>
         ELSE IF k.body = "chunked" THEN (<< <<"len", k.length>> >> \o Line) \o data \o ChunkEnd
         ELSE data)

(* What a server sends for a request, which may be one for the head only.  *)
Inbound(e, head) == FlattenSeq([i \in 1..Len(e) |-> ResponseOctets(i, e[i], head)])

(* The method and the body of the caller's request; `asks` of a fetch are  *)
(* those of the request its connection sends.                              *)
Asked == [head |-> request.head, body |-> request.body]

Fresh(hop, redirects, asks) ==
    [status |-> "connecting", callback |-> TRUE, heard |-> TRUE, timer |-> FALSE,
     hop |-> hop, redirects |-> redirects, asks |-> asks, reading |-> FALSE, queue |-> <<>>,
     state |-> "READ_NONE", want |-> NoRead, buffer |-> <<>>, posted |-> 0,
     code |-> 0, response |-> 0, bytesRead |-> 0, bytesToRead |-> 0, total |-> 0,
     bodySent |-> FALSE, raised |-> FALSE, asserted |-> FALSE,
     answers |-> 0, outcome |-> "none", stranded |-> FALSE]

-----------------------------------------------------------------------------
Alive(s) == s.status = "open"

(* What Read counted becomes handlers behind those that are ready.         *)
PostReads(s) ==
    [s EXCEPT !.queue = @ \o [i \in 1..s.posted |-> "read"], !.posted = 0]

Post(s, handler) ==
    LET t == PostReads(s) IN [t EXCEPT !.queue = Append(@, handler)]

IsReady(s, handler) == handler \in Range(s.queue)

(* close: the read in progress is cancelled, or the end is posted; a read  *)
(* that has completed is left to its handler.                              *)
CloseClient(s) ==
    IF ~Alive(s) THEN s
    ELSE IF IsReady(s, "data") \/ IsReady(s, "eof") THEN [s EXCEPT !.status = "closing"]
         ELSE [Post(s, "lost") EXCEPT !.status = "closing", !.reading = FALSE]

RemoveTimeout(s) == [s EXCEPT !.timer = FALSE]

(* The answer is posted: to the caller, or to a callback that was empty.   *)
RunCallback(s, outcome) ==
    IF ~s.callback THEN s
    ELSE [Post(s, IF s.heard THEN "answer" ELSE "unheard")
             EXCEPT !.callback = FALSE, !.outcome = outcome]

(* Mutant: the callback is kept.                                           *)
HandleExceptionTwice(s) ==
    CloseClient([RemoveTimeout(RunCallback(s, "error"))
                    EXCEPT !.raised = FALSE, !.callback = s.callback])

(* handleException.                                                        *)
HandleException(s) ==
    IF ~s.callback THEN [s EXCEPT !.raised = FALSE]
    ELSE CloseClient(RunCallback(RemoveTimeout([s EXCEPT !.raised = FALSE]), "error"))

Throw(s) == [s EXCEPT !.raised = TRUE]

-----------------------------------------------------------------------------
(* Sending the request.                                                    *)

ReadResponse(s) ==
    Read(s, "READ_HEADER", [kind |-> "regex", n |-> MaxResponseHeader])

(* writeBody; formatChunk refuses what Content-Length did not announce.    *)
WriteBody(s) ==
    IF ~s.asks.body THEN s
    ELSE IF s.bodySent THEN Throw(CloseClient(s))
    ELSE IF ~Alive(s) THEN Throw(s)
    ELSE [s EXCEPT !.bodySent = TRUE]

(* onConnected.                                                            *)
OnConnected(s) ==
    LET t == [s EXCEPT !.status = "open", !.timer = request.timeout]
        u == IF request.expect THEN t ELSE WriteBody(t)
    IN IF ~s.callback THEN CloseClient(t)
       ELSE IF ~request.supported THEN HandleException(t)
       ELSE ReadResponse(u)

(* startRequest of the next connection.                                    *)
StartRequestTo(hop, redirects, asks, heard) ==
    LET s == [Fresh(hop, redirects, asks) EXCEPT !.heard = heard]
    IN IF request.scheme THEN s ELSE HandleException(s)

-----------------------------------------------------------------------------
(* Reading the response.                                                   *)

ShouldFollowRedirect(s) == s.redirects > 0 /\ s.code \in RedirectCodes

(* An answer that was posted before a redirect still comes.                *)
PostedAnswer(s) == IF IsReady(s, "answer") THEN <<"answer">> ELSE <<>>

(* The method and the body that a redirect repeats: 302 and 303 get a GET. *)
Repeats(s) == IF s.code \in {302, 303} THEN [head |-> FALSE, body |-> FALSE] ELSE s.asks

(* finish: a redirect moves the callback to a new fetch, which a closed    *)
(* client refuses; without a callback the new fetch answers nobody.  One   *)
(* that does not say where to throws before the callback is moved.         *)
FinishResponse(s) ==
    LET t == RemoveTimeout([s EXCEPT !.state = "READ_NONE"]) IN
    IF ~ShouldFollowRedirect(s) THEN CloseClient(RunCallback(t, "response"))
    ELSE IF ~Here(s)[s.response].location THEN Throw(t)
    ELSE IF client = "closed"
    THEN [Throw(t) EXCEPT !.callback = FALSE, !.stranded = @ \/ s.callback]
    ELSE LET u == StartRequestTo(s.hop + 1, s.redirects - 1, Repeats(s), s.callback /\ s.heard)
         IN [u EXCEPT !.answers = s.answers, !.outcome = s.outcome, !.stranded = s.stranded,
                      !.queue = PostedAnswer(s) \o @]

ReadBlocks(s, state) ==
    Read(s, state, [kind |-> "bytes",
                    n |-> IF BlockSize < s.bytesToRead THEN BlockSize ELSE s.bytesToRead])

ReadLength(s) == Read(s, "READ_CHUNK_LENGTH", [kind |-> "until", n |-> 64])

(* Mutant: the first block of a body ends it.                              *)
StartOneBlock(s, n, state) ==
    ReadBlocks([s EXCEPT !.bytesRead = 0,
                         !.bytesToRead = IF BlockSize < n THEN BlockSize ELSE n], state)

StartBlocks(s, n, state) ==
    ReadBlocks([s EXCEPT !.bytesRead = 0, !.bytesToRead = n], state)

(* readBody.                                                               *)
ReadResponseBody(s, k) ==
    CASE s.code = 204 /\ (k.body = "chunked" \/ (k.body = "length" /\ k.length > 0)) -> Throw(s)
      [] k.body = "length" /\ k.length = 0 -> FinishResponse(s)
      [] s.code # 204 /\ k.body = "length" /\ k.length > 0 ->
            StartBlocks(s, k.length, "READ_FIXED_BODY")
      [] s.code # 204 /\ k.body = "chunked" -> ReadLength(s)
      [] OTHER -> LET t == Read(s, "READ_UNTIL_CLOSE", [kind |-> "close", n |-> 0])
                  IN IF s.status = "lost" THEN [t EXCEPT !.posted = @ + 1] ELSE t

(* onHeaders, onHeadersReceived.                                           *)
OnResponseHeaders(s, n) ==
    LET i == s.buffer[1][2]
        k == Here(s)[i]
        t == [s EXCEPT !.code = k.code, !.response = i]
    IN IF s.buffer[1][1] # "head" THEN Throw(s)
       ELSE IF k.code = 100
       THEN LET u == IF request.expect THEN WriteBody(s) ELSE t
            IN IF u.raised THEN u ELSE IF k.body # "close" THEN Throw(u) ELSE ReadResponse(u)
       ELSE IF t.asks.head \/ k.code = 304 THEN FinishResponse(t)
       ELSE ReadResponseBody(t, k)

(* onFixedBody, onChunkData: what to read next is decided by _bytesRead.   *)
OnBodyBlock(s, n) ==
    LET t == [s EXCEPT !.bytesRead = @ + n, !.total = @ + n] IN
    IF t.bytesRead < t.bytesToRead THEN ReadBlocks(t, s.state)
    ELSE IF s.state = "READ_FIXED_BODY" THEN FinishResponse(t)
    ELSE Read(t, "READ_CHUNK_ENDS", [kind |-> "bytes", n |-> 2])

OnLengthOfChunk(s) ==
    LET n == s.buffer[1][2] IN
    IF s.buffer[1][1] # "len" THEN Throw(s)
    ELSE IF n = 0 THEN Read(s, "READ_LAST_CHUNK_ENDS", [kind |-> "bytes", n |-> 2])
    ELSE IF n + s.total > MaxBodySize THEN Throw(s)
    ELSE StartBlocks(s, n, "READ_CHUNK_DATA")

AtLine(s) == SubSeq(s.buffer, 1, 2) = Line

(* onDataRead.                                                             *)
OnResponseData(s, n) ==
    LET t == CASE s.state = "READ_HEADER" -> OnResponseHeaders(s, n)
               [] s.state \in {"READ_FIXED_BODY", "READ_CHUNK_DATA"} -> OnBodyBlock(s, n)
               [] s.state = "READ_CHUNK_LENGTH" -> OnLengthOfChunk(s)
               [] s.state = "READ_CHUNK_ENDS" -> IF AtLine(s) THEN ReadLength(s) ELSE Throw(s)
               [] s.state = "READ_LAST_CHUNK_ENDS" ->
                    IF AtLine(s) THEN FinishResponse(s) ELSE Throw(s)
               [] s.state = "READ_UNTIL_CLOSE" -> FinishResponse([s EXCEPT !.total = @ + n])
               [] OTHER -> [s EXCEPT !.asserted = TRUE]
    IN IF t.raised THEN HandleException(t) ELSE t

Taken(s, n) == [s EXCEPT !.buffer = SubSeq(@, n + 1, Len(@))]

ReadToClose(s) ==
    LET n == Len(s.buffer) IN Taken(OnResponseData([s EXCEPT !.want = NoRead], n), n)

(* readFromBuffer.                                                         *)
ReadFromBuffered(s) ==
    LET n == FindReadPos(s.want, s.buffer)
        size == IF n > 0 THEN n ELSE Len(s.buffer)
    IN IF s.want.kind = "close" THEN (IF s.status = "lost" THEN ReadToClose(s) ELSE s)
       ELSE IF s.want.kind \in {"regex", "until"} /\ size > s.want.n THEN CloseClient(s)
       ELSE IF n = 0 THEN s
       ELSE Taken(OnResponseData([s EXCEPT !.want = NoRead], n), n)

(* connectionLost and onDisconnected.                                      *)
ConnectionLost(s) ==
    LET t == [s EXCEPT !.status = "lost", !.reading = FALSE]
        u == IF s.want.kind = "close" THEN ReadToClose(t) ELSE t
    IN HandleException(u)

-----------------------------------------------------------------------------
ClientInit ==
    /\ exchange \in Exchanges
    /\ request \in Requests
    /\ client = "open"
    /\ fetch = StartRequestTo(1, request.redirects, Asked, TRUE)
    /\ inbound = Inbound(exchange[1], Asked.head)

(* A connection that starts anew faces the next server.                    *)
Becomes(s, rest) ==
    /\ fetch' = PostReads(s)
    /\ inbound' = IF s.hop = fetch.hop THEN rest ELSE Inbound(exchange[s.hop], s.asks.head)
    /\ UNCHANGED <<exchange, request>>

Handles(handler, s) ==
    /\ fetch.queue # <<>> /\ Head(fetch.queue) = handler
    /\ Becomes(s, inbound)
    /\ UNCHANGED client

Popped == [fetch EXCEPT !.queue = Tail(@)]

(* connectProtocol succeeds, or fails in one of its ways.                  *)
Connects ==
    /\ fetch.status = "connecting" /\ request.scheme
    /\ \/ LET s == PostReads(OnConnected(fetch)) IN Becomes([s EXCEPT !.reading = Alive(s)], inbound)
       \/ Becomes(HandleException([fetch EXCEPT !.status = "lost"]), inbound)
    /\ UNCHANGED client

(* The read in progress completes: with data, or at their end with the end.*)
ReadCompletes ==
    /\ fetch.reading
    /\ \/ /\ inbound # <<>>
          /\ Becomes([Post(fetch, "data") EXCEPT !.reading = FALSE], inbound)
       \/ Becomes([Post(fetch, "eof") EXCEPT !.reading = FALSE], inbound)
    /\ UNCHANGED client

HandlesData ==
    /\ fetch.queue # <<>> /\ Head(fetch.queue) = "data"
    /\ \E n \in {1, Len(inbound)} \cap 1..Len(inbound) :
        LET s == PostReads(ReadFromBuffered([Popped EXCEPT !.buffer = @ \o SubSeq(inbound, 1, n)]))
        IN IF fetch.status # "open" THEN Becomes(Popped, inbound)
           ELSE Becomes([s EXCEPT !.reading = Alive(s)], SubSeq(inbound, n + 1, Len(inbound)))
    /\ UNCHANGED client

HandlesRead == Handles("read", ReadFromBuffered(Popped))

HandlesEnd ==
    \E handler \in {"eof", "lost"} :
        Handles(handler, IF fetch.status = "lost" THEN Popped ELSE ConnectionLost(Popped))

(* The deadline of the request passes; onTimeout runs later.               *)
DeadlinePasses ==
    /\ fetch.timer
    /\ Becomes(Post(RemoveTimeout(fetch), "timeout"), inbound) /\ UNCHANGED client

HandlesTimeout == Handles("timeout", HandleException(Popped))

(* The callback given to fetchImpl runs.                                   *)
HandlesAnswer ==
    \/ Handles("answer", [Popped EXCEPT !.answers = @ + 1])
    \/ Handles("unheard", Popped)

ClosesClient == client = "open" /\ client' = "closed" /\ UNCHANGED <<exchange, request, inbound, fetch>>

ClientNext ==
    \/ Connects \/ ReadCompletes \/ DeadlinePasses \/ ClosesClient
    \/ HandlesData \/ HandlesRead \/ HandlesEnd \/ HandlesTimeout \/ HandlesAnswer

ClientSpec == ClientInit /\ [][ClientNext]_clientVars

-----------------------------------------------------------------------------
(* Properties.                                                             *)

(* A read that completed before the connection was closed: its handler     *)
(* finds _disconnecting, reads no more and closes nothing (tcp.cpp:131).   *)
Deaf == fetch.status = "closing" /\ ~IsReady(fetch, "lost") /\ ~IsReady(fetch, "eof")

(* Redirects, time-outs, lost connections and errors all end in the one    *)
(* answer of a fetch: never two, and until it comes something that brings  *)
(* it is under way (a connection being made, a read, a handler), but for a *)
(* client closed during a redirect and a connection that has gone deaf.    *)
FetchAnswered ==
    /\ fetch.answers <= 1
    /\ fetch.callback => \/ fetch.status = "connecting" \/ fetch.reading \/ fetch.queue # <<>>
                     \/ fetch.timer \/ Deaf
    /\ ~(fetch.callback /\ fetch.heard) =>
            fetch.answers = 1 \/ IsReady(fetch, "answer") \/ fetch.stranded

(* Headers, blocks, chunks, interim responses and redirects are read by    *)
(* handlers of their own: what is delivered is the last response of its    *)
(* connection, and one that tells its length has all of its body.          *)
ResponseWhole ==
    fetch.outcome = "response" /\ fetch.response > 0 =>
        LET k == Here(fetch)[fetch.response]
        IN /\ fetch.response = Len(Here(fetch))
           /\ ~fetch.asks.head /\ k.body \in {"length", "chunked"} /\ k.code # 304
                 => fetch.total = k.length
=============================================================================
