------------------------------ MODULE Handshake ------------------------------
(***************************************************************************)
(* The opening handshake of WebSocket: the request a client writes from    *)
(* its factory, the checks of the server, its answer, the checks of the    *)
(* client, and what the two then hold for agreed: the subprotocol and the  *)
(* parameters of permessage-deflate.  A message is a record of its headers.*)
(* Between the two ends someone may change a request or a response: a      *)
(* foreign client or server, or a proxy.                                   *)
(***************************************************************************)
EXTENDS Integers, SequencesExt

CONSTANTS
    ClientFactories, ServerFactories,
    OfferAccepts,         \* what the server's callback may ask for
    ResponseAccepts,      \* what the client's callback may ask for
    RequestChanges, ResponseChanges   \* sets of <<header, value>>

(* Drafts are those of SUPPORTED_SPEC_VERSIONS; a window size is any int:  *)
(* who offers or accepts one may give a size that the other end refuses.   *)
ASSUME HandshakeAssumption ==
    /\ \A f \in ClientFactories :
        /\ f.version \in 10..18 /\ f.url.port \in Nat
        /\ f.offers \in Seq([acceptTakeover : BOOLEAN, acceptBits : BOOLEAN,
                             requestTakeover : BOOLEAN, requestBits : Int])
    /\ OfferAccepts \subseteq [requestTakeover : BOOLEAN, requestBits : Int,
                              takeover : SUBSET BOOLEAN, bits : SUBSET Int]
    /\ ResponseAccepts \subseteq [takeover : SUBSET BOOLEAN, bits : SUBSET Int]

VARIABLES
    wsClient, wsServer,   \* the two protocols with their factories
    wsWire,               \* the request and the responses, as they arrive
    wsChanged             \* the headers that changed on the way

handshakeVars == <<wsClient, wsServer, wsWire, wsChanged>>

-----------------------------------------------------------------------------
(* URLs and factories.  The port 0 stands for none.                        *)

ParseUrl(url) == [secure |-> url.secure,
                  port |-> IF url.port # 0 THEN url.port ELSE IF url.secure THEN 443 ELSE 80]

ServerDefaults ==
    [url |-> {}, externalPort |-> 0, versions |-> {8, 13}, webStatus |-> TRUE,
     origins |-> {"allowed", "other"}, allowNullOrigin |-> TRUE, maxConnections |-> 0,
     compression |-> FALSE]

ClientDefaults ==
    [url |-> [secure |-> FALSE, port |-> 0], version |-> 18, origin |-> "none",
     protocols |-> <<>>, offers |-> <<>>, compression |-> FALSE]

(* setSessionParameters.                                                   *)
ExternalPort(f) ==
    IF f.externalPort # 0 \/ f.url = {} THEN f.externalPort
    ELSE ParseUrl(CHOOSE u \in f.url : TRUE).port

IsSecure(f) == \E u \in f.url : u.secure

SpecToProtocolVersion(v) == IF v \in 10..12 THEN 8 ELSE 13

-----------------------------------------------------------------------------
(* permessage-deflate: offers of the client, what the server accepts of    *)
(* one, the response, what the client accepts of it, and the parameters    *)
(* each end compresses with.  An optional value is a set of at most one.   *)

DefaultWindowBits == 15
WindowSizes == 8..15
BitsOr(n, m) == IF n # 0 THEN n ELSE m
Given(opt, default) == IF opt = {} THEN default ELSE CHOOSE x \in opt : TRUE

(* Mutant: the window is not looked at.                                    *)
CreateOfferUnchecked(o) == {[o EXCEPT !.acceptTakeover = TRUE]}

(* getExtensionString and createOfferFromParams: none when the window is   *)
(* not permissible.                                                        *)
CreateOfferFromParams(o) ==
    IF o.requestBits \in {0} \union WindowSizes THEN {[o EXCEPT !.acceptTakeover = TRUE]} ELSE {}

OfferAcceptValid(o, a) ==
    /\ a.requestTakeover => o.acceptTakeover
    /\ a.requestBits # 0 => a.requestBits \in WindowSizes /\ o.acceptBits
    /\ o.requestTakeover => FALSE \notin a.takeover
    /\ \A b \in a.bits : b \in WindowSizes /\ (o.requestBits # 0 => b <= o.requestBits)

(* What the server answers, as createResponseFromParams reads it.          *)
ResponseOf(o, a) ==
    [serverReset |-> o.requestTakeover, serverBits |-> o.requestBits,
     clientReset |-> a.requestTakeover, clientBits |-> a.requestBits]

(* Mutant: what the server resets is what it was asked to accept.          *)
CreateFromOfferSwapped(o, a) ==
    [serverReset |-> a.requestTakeover,
     clientReset |-> Given(a.takeover, o.requestTakeover),
     serverBits |-> BitsOr(Given(a.bits, o.requestBits), DefaultWindowBits),
     clientBits |-> BitsOr(a.requestBits, DefaultWindowBits)]

CreateFromOfferAccept(o, a) ==
    [serverReset |-> Given(a.takeover, o.requestTakeover),
     clientReset |-> a.requestTakeover,
     serverBits |-> BitsOr(Given(a.bits, o.requestBits), DefaultWindowBits),
     clientBits |-> BitsOr(a.requestBits, DefaultWindowBits)]

(* createResponseFromParams: none when a window is not permissible.        *)
CreateResponseFromParams(r) ==
    IF {r.serverBits, r.clientBits} \subseteq {0} \union WindowSizes THEN {r} ELSE {}

ResponseAcceptValid(r, a) ==
    /\ r.clientReset => FALSE \notin a.takeover
    /\ \A b \in a.bits : b \in WindowSizes /\ (r.clientBits # 0 => b <= r.clientBits)

CreateFromResponseAccept(r, a) ==
    [serverReset |-> r.serverReset,
     clientReset |-> Given(a.takeover, r.clientReset),
     serverBits |-> BitsOr(r.serverBits, DefaultWindowBits),
     clientBits |-> BitsOr(Given(a.bits, r.clientBits), DefaultWindowBits)]

-----------------------------------------------------------------------------
(* startHandshake.                                                         *)
Request(f) ==
    LET header == IF f.version > 10 THEN "origin" ELSE "sec-websocket-origin" IN
    [line |-> "good", method |-> "GET", http |-> "1.1", fragment |-> FALSE,
     hosts |-> 1, port |-> ParseUrl(f.url).port,   \* -1: no number, 0: no port
     upgrade |-> "websocket", connection |-> "upgrade",
     versions |-> 1, version |-> SpecToProtocolVersion(f.version),
     protocols |-> f.protocols,
     originHeader |-> IF f.origin = "none" THEN "none" ELSE header,
     origins |-> 1, origin |-> f.origin,
     keys |-> 1, key |-> "fresh",
     extensions |-> 1, offers |-> f.offers, params |-> "good"]

(* The checks of processHandshake up to the port, and those after it, in   *)
(* their order: what is refused, and the status it is refused with.        *)
ChecksOfLine(r, f) ==
    << <<r.line = "bad", 400>>, <<r.method # "GET", 405>>, <<r.http # "1.1", 505>>,
       <<r.fragment, 400>>, <<r.hosts # 1, 400>>, <<r.port = -1, 400>>,
       <<r.port > 0 /\ ExternalPort(f) \notin {0, r.port}, 400>> >>

ChecksOfVersion(r, f) ==
    << <<r.upgrade = "none", IF f.webStatus THEN 200 ELSE 426>>,
       <<r.upgrade = "other", 400>>, <<r.connection # "upgrade", 400>>,
       <<r.versions # 1, 400>>, <<r.version \notin f.versions, 400>>,
       <<Cardinality(ToSet(r.protocols)) # Len(r.protocols), 400>> >>

(* Drafts below 13 have the origin in a header of their own.               *)
OriginSeen(r) ==
    r.originHeader = (IF r.version < 13 THEN "sec-websocket-origin" ELSE "origin")

OriginAllowed(r, f) ==
    r.origin \in f.origins \/ (r.origin = "null" /\ f.allowNullOrigin)

ChecksOfOrigin(r, f) ==
    << <<OriginSeen(r) /\ (r.origins > 1 \/ r.origin = "invalid"), 400>>,
       <<OriginSeen(r) /\ ~OriginAllowed(r, f), 400>>,
       <<r.keys # 1 \/ r.key = "malformed", 400>>, <<r.extensions > 1, 400>>,
       <<f.maxConnections > 0 /\ wsServer.count > f.maxConnections, 503>> >>

FirstRefusal(checks) ==
    LET i == SelectInSeq(checks, LAMBDA check : check[1])
    IN IF i = 0 THEN 0 ELSE checks[i][2]

MissingPort(r, f) ==
    r.port = 0 /\ ExternalPort(f) \notin {0, IF IsSecure(f) THEN 443 ELSE 80}

-----------------------------------------------------------------------------
(* The server.  Once its connection is being closed it sends no more.      *)

ServerSends(s, response) ==
    IF s.state = "CLOSED" THEN s ELSE [s EXCEPT !.sent = Append(@, response)]

Refusal(code) == [code |-> code]

(* failHandshake, and the status page with its redirections.               *)
FailHandshake(s, code) ==
    [ServerSends(s, Refusal(code)) EXCEPT !.state = "CLOSED", !.refused = code]

NoDeflate == {}

(* Every offer is read, also where no callback will choose from them.      *)
OfferUnreadable(r) ==
    \E o \in ToSet(r.offers) : r.params = "bad" \/ CreateOfferFromParams(o) = {}

(* succeedHandshake with the subprotocol onConnect chose: it opens, then   *)
(* onOpen may throw, and the connection is refused after all.              *)
SucceedHandshake(s, r, protocol, chosen, opens) ==
    LET response ==
            [code |-> 101, http |-> "1.1", upgrade |-> "websocket", connection |-> "upgrade",
             accepts |-> 1, accept |-> r.key, protocols |-> 1, protocol |-> protocol,
             extensions |-> 1, extension |-> "deflate",
             deflate |-> {ResponseOf(c[1], c[2]) : c \in chosen}]
        t == [ServerSends(s, response) EXCEPT
                 !.state = "OPEN", !.opened = @ + 1, !.protocol = protocol,
                 !.deflate = {CreateFromOfferAccept(c[1], c[2]) : c \in chosen}]
    IN IF protocol # "" /\ ~Contains(r.protocols, protocol) THEN FailHandshake(s, 500)
       ELSE IF OfferUnreadable(r) THEN FailHandshake(s, 400)
       ELSE IF \E c \in chosen : ~OfferAcceptValid(c[1], c[2]) THEN FailHandshake(s, 500)
       ELSE IF opens THEN t ELSE FailHandshake(t, 500)

(* processHandshake of the server.  A missing port is refused, and the     *)
(* method goes on.  A request that passes goes to onConnect, which denies, *)
(* or chooses a subprotocol; onOpen may throw.                             *)
ProcessRequest(s, r, protocol, chosen, application) ==
    LET f == s.factory
        line == FirstRefusal(ChecksOfLine(r, f))
        t == IF MissingPort(r, f) THEN FailHandshake(s, 400) ELSE s
        rest == FirstRefusal(ChecksOfVersion(r, f) \o ChecksOfOrigin(r, f))
    IN IF line # 0 THEN FailHandshake(s, line)
       ELSE IF rest # 0 THEN FailHandshake(t, rest)
       ELSE IF application = "denies" THEN FailHandshake(t, 403)
       ELSE SucceedHandshake(t, r, protocol, chosen, application = "opens")

(* The pairs the server's callback may choose from.                        *)
OffersAccepted(f, r) ==
    LET offers == UNION {CreateOfferFromParams(o) : o \in ToSet(r.offers)}
    IN {{}} \union (IF f.compression THEN {{<<o, a>>} : o \in offers, a \in OfferAccepts} ELSE {})

-----------------------------------------------------------------------------
(* The client.                                                             *)

ResponseChecks(r, f) ==
    <<r.code # 101 \/ r.http # "1.1" \/ r.upgrade # "websocket" \/ r.connection # "upgrade",
      r.accepts # 1 \/ r.accept # "fresh",
      r.extensions > 1 \/ (r.deflate # {} /\ r.extension # "deflate"),
      r.protocols > 1 \/ (r.protocol # "" /\ ~Contains(f.protocols, r.protocol))>>

(* processHandshake of the client: its callback accepts the extension with *)
(* `chosen`, or refuses it.                                                *)
ProcessResponse(s, r, chosen, connects) ==
    IF \/ r.code # 101 \/ TRUE \in ToSet(ResponseChecks(r, s.factory))
       \/ r.deflate # {} /\ chosen = {}
       \/ \E x \in r.deflate : CreateResponseFromParams(x) = {}
    THEN [s EXCEPT !.state = "CLOSED"]
    ELSE [s EXCEPT !.state = IF connects THEN "OPEN" ELSE "CLOSED", !.opened = @ + 1,
                   !.protocol = r.protocol,
                   !.deflate = {CreateFromResponseAccept(x, a) : x \in r.deflate, a \in chosen}]

-----------------------------------------------------------------------------
End(f) == [factory |-> f, state |-> "CONNECTING", opened |-> 0, refused |-> 0, sent |-> <<>>,
           protocol |-> "", deflate |-> NoDeflate, count |-> 1]

HandshakeInit ==
    /\ wsClient \in {End(f) : f \in ClientFactories}
    /\ wsServer \in {[End(f) EXCEPT !.count = n] : f \in ServerFactories, n \in {1, 2}}
    /\ wsWire = [request |-> {}, responses |-> <<>>]
    /\ wsChanged = {}

StartHandshake ==
    /\ wsClient.state = "CONNECTING" /\ wsClient.sent = <<>>
    /\ wsClient' = [wsClient EXCEPT !.sent = <<"request">>]
    /\ wsWire' = [wsWire EXCEPT !.request = {Request(wsClient.factory)}]
    /\ UNCHANGED <<wsServer, wsChanged>>

(* One header is changed, or the port and one more.                        *)
ChangesRequest ==
    /\ wsServer.sent = <<>>
    /\ \E r \in wsWire.request, change \in RequestChanges :
        /\ wsChanged # {} => wsChanged = {"port"} /\ r.port = 0 /\ change[1] # "port"
        /\ wsWire' = [wsWire EXCEPT !.request = {[r EXCEPT ![change[1]] = change[2]]}]
        /\ wsChanged' = wsChanged \union {change[1]}
    /\ UNCHANGED <<wsClient, wsServer>>

ServerProcesses ==
    /\ wsServer.state = "CONNECTING"
    /\ \E r \in wsWire.request, protocol \in {"", "a", "c"},
          application \in {"opens", "throws", "denies"} :
        \E chosen \in OffersAccepted(wsServer.factory, r) :
            LET s == ProcessRequest(wsServer, r, protocol, chosen, application)
            IN /\ wsServer' = s
               /\ wsWire' = [request |-> {}, responses |-> s.sent]
    /\ UNCHANGED <<wsClient, wsChanged>>

ChangesResponse ==
    /\ wsWire.responses # <<>> /\ Head(wsWire.responses).code = 101
    /\ \E change \in ResponseChanges :
        /\ Head(wsWire.responses)[change[1]] # change[2]
        /\ wsWire' = [wsWire EXCEPT !.responses = <<[Head(@) EXCEPT ![change[1]] = change[2]]>>]
        /\ wsChanged = {} /\ wsChanged' = {change[1]}
    /\ UNCHANGED <<wsClient, wsServer>>

ClientProcesses ==
    /\ wsClient.state = "CONNECTING" /\ wsWire.responses # <<>>
    /\ \E connects \in BOOLEAN,
          chosen \in {{}} \union (IF wsClient.factory.compression THEN {{a} : a \in ResponseAccepts} ELSE {}) :
        LET r == Head(wsWire.responses) IN
        /\ r.code = 101 => \A x \in r.deflate, a \in chosen : ResponseAcceptValid(x, a)
        /\ wsClient' = IF r.code # 101 THEN [wsClient EXCEPT !.state = "CLOSED"]
                       ELSE ProcessResponse(wsClient, r, chosen, connects)
    /\ wsWire' = [wsWire EXCEPT !.responses = Tail(@)]
    /\ UNCHANGED <<wsServer, wsChanged>>

(* onOpenHandshakeTimeout of either end.                                   *)
OpenHandshakeTimeout ==
    \/ /\ wsClient.state = "CONNECTING" /\ wsClient' = [wsClient EXCEPT !.state = "CLOSED"]
       /\ UNCHANGED <<wsServer, wsWire, wsChanged>>
    \/ /\ wsServer.state = "CONNECTING" /\ wsServer' = [wsServer EXCEPT !.state = "CLOSED"]
       /\ UNCHANGED <<wsClient, wsWire, wsChanged>>

HandshakeNext ==
    \/ StartHandshake \/ ChangesRequest \/ ServerProcesses
    \/ ChangesResponse \/ ClientProcesses \/ OpenHandshakeTimeout

HandshakeSpec == HandshakeInit /\ [][HandshakeNext]_handshakeVars

-----------------------------------------------------------------------------
(* Properties.                                                             *)

(* One end compresses with a window the other can follow, and resets its   *)
(* context whenever the other does.                                        *)
Follows(reader, writer, bits, reset) ==
    reader[bits] >= writer[bits] /\ (reader[reset] => writer[reset])

(* What a client of this library is refused for by a server of it: their   *)
(* ports, drafts or subprotocols, an origin the server looks for and does  *)
(* not allow, a window it does not permit.                                 *)
OriginHeard(d) == d.origin # "none" /\ d.version \notin {11, 12}

Refusable(f, d) ==
    \/ ExternalPort(f) \notin {0, ParseUrl(d.url).port}
    \/ SpecToProtocolVersion(d.version) \notin f.versions
    \/ Cardinality(ToSet(d.protocols)) # Len(d.protocols)
    \/ OriginHeard(d) /\ (d.origin = "invalid" \/ ~OriginAllowed(d, f))
    \/ \E o \in ToSet(d.offers) : o.requestBits \notin {0} \union WindowSizes

(* A request that nobody changed is refused for these only, and opens only *)
(* where there is none of them.                                            *)
RefusedForCause ==
    wsChanged = {} =>
        /\ wsServer.refused = 400 => Refusable(wsServer.factory, wsClient.factory)
        /\ wsServer.opened = 1 => ~Refusable(wsServer.factory, wsClient.factory)

(* When client and server are both open they hold the same for agreed, and *)
(* the server opened on the request this client wrote, unless the header   *)
(* that says so was changed.  A server opens once at most, and what it     *)
(* refused it did not open, unless onOpen threw or somebody took the port  *)
(* away.  An origin the server does not allow opens nothing (but for       *)
(* drafts 11 and 12, whose header the server does not look for).           *)
HandshakeAgrees ==
    /\ RefusedForCause
    /\ wsClient.state = "OPEN" =>
        /\ wsServer.opened = 1
        /\ "protocol" \notin wsChanged => wsClient.protocol = wsServer.protocol
        /\ {"offers", "deflate"} \intersect wsChanged = {} =>
            /\ (wsClient.deflate = {}) = (wsServer.deflate = {})
            /\ \A x \in wsClient.deflate, y \in wsServer.deflate :
                /\ Follows(x, y, "serverBits", "serverReset")
                /\ Follows(y, x, "clientBits", "clientReset")
    /\ wsServer.opened <= 1
    /\ wsServer.opened = 1 /\ {"originHeader", "origins", "origin", "version"} \intersect wsChanged = {} =>
        ~OriginHeard(wsClient.factory) \/ OriginAllowed(wsClient.factory, wsServer.factory)
    /\ wsServer.refused # 0 /\ wsServer.opened = 1 =>
        \/ Head(wsServer.sent).code = 101
        \/ /\ "port" \in wsChanged
           /\ ExternalPort(wsServer.factory) \notin {0, IF IsSecure(wsServer.factory) THEN 443 ELSE 80}
=============================================================================
