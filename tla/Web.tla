--------------------------------- MODULE Web ---------------------------------
(***************************************************************************)
(* The parts of the HTTP and WebSocket stack, and the Deferreds by which   *)
(* answers reach the application, side by side for TLC, with the messages  *)
(* the run is about.  They share no state, so a behaviour is of one of     *)
(* them, `part`, and the others stay as they began.                        *)
(***************************************************************************)
EXTENDS HTTPConnection, HTTPClient, Json, Handshake, TextCodecs, OctetCodecs,
        Description, Deferred

VARIABLE part

-----------------------------------------------------------------------------
(* Requests to the server, two on a connection where it may be kept.       *)
ServerRequest(m, v, c, b, n, e) ==
    [method |-> m, version |-> v, connection |-> c, body |-> b, length |-> n, expect |-> e]

GetRequest == ServerRequest("GET", "1.1", "none", "none", 0, FALSE)

WebScripts ==
    {<<ServerRequest("HEAD", "1.0", "keep-alive", "none", 0, FALSE), GetRequest>>,
     <<ServerRequest("POST", "1.1", "none", "fixed", 3, TRUE), GetRequest>>,
     <<ServerRequest("POST", "1.1", "close", "fixed", 2, FALSE)>>,
     <<ServerRequest("GET", "1.1", "close", "none", 0, FALSE), GetRequest>>,
     <<ServerRequest("POST", "1.1", "none", "fixed", 0, FALSE), GetRequest>>,
     <<ServerRequest("POST", "1.1", "none", "chunked", 0, FALSE)>>,
     <<ServerRequest("POST", "1.1", "close", "both", 0, FALSE)>>}

-----------------------------------------------------------------------------
(* What servers answer a client: a sequence for each of its connections.   *)
ServerResponse(c, b, n) ==
    [code |-> c, body |-> b, length |-> n, long |-> FALSE, location |-> TRUE]

WebExchanges ==
    {<< <<ServerResponse(200, "length", 2)>> >>,
     << <<ServerResponse(200, "length", 3)>> >>,
     << <<ServerResponse(200, "close", 2)>> >>,
     << <<ServerResponse(100, "close", 0), ServerResponse(200, "chunked", 1)>> >>,
     << <<ServerResponse(200, "chunked", 3)>> >>,
     << <<ServerResponse(302, "chunked", 1)>>, <<ServerResponse(302, "length", 0)>> >>,
     << <<ServerResponse(303, "length", 1)>>, <<ServerResponse(200, "length", 1)>> >>,
     << <<ServerResponse(307, "length", 1)>>, <<ServerResponse(200, "length", 1)>> >>,
     << <<[ServerResponse(301, "length", 1) EXCEPT !.location = FALSE]>> >>,
     << <<ServerResponse(100, "close", 0),
          [ServerResponse(200, "length", 1) EXCEPT !.long = TRUE]>> >>,
     << <<ServerResponse(100, "close", 0), ServerResponse(100, "close", 0),
          ServerResponse(204, "close", 0)>> >>}

ClientRequest(head, b, e, t) ==
    [head |-> head, body |-> b, expect |-> e, timeout |-> t, redirects |-> 1,
     scheme |-> TRUE, supported |-> TRUE]

WebRequests ==
    {ClientRequest(FALSE, FALSE, FALSE, TRUE), ClientRequest(FALSE, TRUE, TRUE, TRUE),
     ClientRequest(TRUE, FALSE, FALSE, FALSE),
     [ClientRequest(FALSE, FALSE, FALSE, TRUE) EXCEPT !.scheme = FALSE],
     [ClientRequest(FALSE, FALSE, FALSE, TRUE) EXCEPT !.supported = FALSE]}

-----------------------------------------------------------------------------
(* Alphabets of JSON documents.                                            *)
WebDialects ==
    {[tokens |-> {"{", "}", ",", ":", "es", "1"}, max |-> 6, features |-> StrictMode],
     [tokens |-> {"{", "}", ",", ":", "s", "1"}, max |-> 6, features |-> Default],
     [tokens |-> {"[", "]", ",", "1", "//", "{", "}"}, max |-> 5, features |-> Default],
     [tokens |-> {"[", "]", ",", "1", "//"}, max |-> 6, features |-> StrictMode]}

WebJsonBits == <<3, 6>>

-----------------------------------------------------------------------------
(* Factories of the two ends of a handshake.                               *)
Offered(b, rt, rb) ==
    [acceptTakeover |-> TRUE, acceptBits |-> b, requestTakeover |-> rt, requestBits |-> rb]

WebClients ==
    {[ClientDefaults EXCEPT !.version = v, !.origin = o, !.url.port = p] :
        v \in {10, 12, 18}, o \in {"none", "null", "allowed", "denied", "invalid"}, p \in {0, 9000}}
    \union {[ClientDefaults EXCEPT !.protocols = p] :
        p \in {<<"a">>, <<"a", "b">>, <<"a", "a">>}}
    \union {[ClientDefaults EXCEPT !.compression = TRUE, !.offers = <<Offered(b, rt, rb)>>] :
        b \in BOOLEAN, rt \in BOOLEAN, rb \in {0, 7, 10}}
    \union {[ClientDefaults EXCEPT !.compression = TRUE,
                !.offers = <<Offered(TRUE, TRUE, 10), Offered(FALSE, FALSE, 12)>>]}

WebServers ==
    {[ServerDefaults EXCEPT !.origins = {"allowed"}, !.allowNullOrigin = n, !.versions = v,
                            !.externalPort = 9000] : n \in BOOLEAN, v \in {{8, 13}, {13}}}
    \union {[ServerDefaults EXCEPT !.compression = TRUE, !.maxConnections = 1, !.webStatus = FALSE]}
    \union {[ServerDefaults EXCEPT !.url = {[secure |-> s, port |-> 0]}] : s \in BOOLEAN}

WebOfferAccepts ==
    [requestTakeover : BOOLEAN, requestBits : {0, 10},
     takeover : {{}, {TRUE}, {FALSE}}, bits : {{}, {9}, {12}}]

WebResponseAccepts == [takeover : {{}, {TRUE}, {FALSE}}, bits : {{}, {9}, {12}}]

WebRequestChanges ==
    {<<"line", "bad">>, <<"method", "POST">>, <<"http", "1.0">>, <<"fragment", TRUE>>,
     <<"params", "bad">>, <<"hosts", 2>>, <<"port", 0>>, <<"port", -1>>,
     <<"upgrade", "none">>, <<"upgrade", "other">>, <<"connection", "none">>,
     <<"versions", 0>>, <<"version", 7>>, <<"originHeader", "none">>, <<"origins", 2>>,
     <<"keys", 2>>, <<"key", "malformed">>, <<"key", "stale">>, <<"extensions", 2>>}

WebResponseChanges ==
    {<<"http", "1.0">>, <<"upgrade", "other">>, <<"connection", "none">>, <<"accepts", 2>>,
     <<"accept", "stale">>, <<"protocol", "c">>, <<"protocols", 2>>, <<"extension", "other">>,
     <<"extensions", 2>>,
     <<"deflate", {[serverReset |-> FALSE, serverBits |-> 7, clientReset |-> FALSE, clientBits |-> 0]}>>}

-----------------------------------------------------------------------------
(* The last of three Deferreds, which a chain waits for, has no canceller. *)
WebCancellers == <<"quiet", "fires", "none">>

-----------------------------------------------------------------------------
webVars == <<part, httpVars, clientVars, json, handshakeVars, text, octets, fields,
           vars>>

(* A part that does not run keeps one of its initial states.               *)
WebInit ==
    /\ part \in {"server", "client", "json", "handshake", "text", "octets",
                "description", "deferred"}
    /\ IF part = "server" THEN TRUE
       ELSE script = (CHOOSE s \in Scripts : TRUE) /\ config = [stream |-> FALSE, timeouts |-> FALSE]
    /\ IF part = "client" THEN TRUE
       ELSE exchange = (CHOOSE e \in Exchanges : TRUE) /\ request = (CHOOSE r \in Requests : TRUE)
    /\ IF part = "json" THEN TRUE ELSE json = [kind |-> "text", cp |-> 1]
    /\ IF part = "handshake" THEN TRUE
       ELSE /\ wsClient = End(CHOOSE f \in ClientFactories : TRUE)
            /\ wsServer = [End(CHOOSE f \in ServerFactories : TRUE) EXCEPT !.count = 1]
    /\ IF part = "text" THEN TRUE ELSE text = [kind |-> "escape", s |-> <<>>]
    /\ IF part = "octets" THEN TRUE ELSE octets = [kind |-> "utf8", s |-> <<>>]
    /\ IF part = "description" THEN TRUE ELSE fields = <<>>
    /\ HTTPInit /\ ClientInit /\ JsonInit /\ HandshakeInit /\ TextInit /\ OctetInit
    /\ DescriptionInit /\ Init

WebNext ==
    /\ UNCHANGED part
    /\ \/ /\ part = "server" /\ HTTPNext
          /\ UNCHANGED <<clientVars, json, handshakeVars, text, octets, fields, vars>>
       \/ /\ part = "client" /\ ClientNext
          /\ UNCHANGED <<httpVars, json, handshakeVars, text, octets, fields, vars>>
       \/ /\ part = "json" /\ JsonNext
          /\ UNCHANGED <<httpVars, clientVars, handshakeVars, text, octets, fields, vars>>
       \/ /\ part = "handshake" /\ HandshakeNext
          /\ UNCHANGED <<httpVars, clientVars, json, text, octets, fields, vars>>
       \/ /\ part = "text" /\ TextNext
          /\ UNCHANGED <<httpVars, clientVars, json, handshakeVars, octets, fields, vars>>
       \/ /\ part = "octets" /\ OctetNext
          /\ UNCHANGED <<httpVars, clientVars, json, handshakeVars, text, fields, vars>>
       \/ /\ part = "description" /\ DescriptionNext
          /\ UNCHANGED <<httpVars, clientVars, json, handshakeVars, text, octets, vars>>
       \/ /\ part = "deferred" /\ Next
          /\ UNCHANGED <<httpVars, clientVars, json, handshakeVars, text, octets, fields>>

WebSpec == WebInit /\ [][WebNext]_webVars

(* What a codec wrote, it or its counterpart reads back: JSON documents,   *)
(* texts, octets and descriptions, each as its own module says, with the   *)
(* inputs it excepts; of the codec that runs, as the others have one input.*)
CodecsReadBack ==
    /\ part = "json" => JsonReadsBack
    /\ part = "text" => TextsSurvive
    /\ part = "octets" => OctetsSurvive
    /\ part = "description" => DescriptionsRead
=============================================================================
