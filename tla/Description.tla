----------------------------- MODULE Description -----------------------------
(***************************************************************************)
(* Descriptions of endpoints (core/network/endpoints.cpp): fields joined   *)
(* by ":", each a text or a name, "=" and a text, with "\" in front of a   *)
(* character that is to stand for itself.  A text is a sequence of         *)
(* characters, and a word is one character.  Each state is a list of       *)
(* fields that somebody writes down as a description.                      *)
(***************************************************************************)
EXTENDS Naturals, Sequences, FiniteSets, SequencesExt

CONSTANT MaxDescription   \* bound: fields and characters of a description

VARIABLE fields

-----------------------------------------------------------------------------
(* _parse.                                                                 *)

(* trim_copy.                                                              *)
Trimmed(s) ==
    LET first == SelectInSeq(s, LAMBDA c : c # " ")
        last == SelectLastInSeq(s, LAMBDA c : c # " ")
    IN IF first = 0 THEN <<>> ELSE SubSeq(s, first, last)

Parser == [args |-> <<>>, params |-> <<>>, sofar |-> <<>>, current |-> <<>>,
           ops |-> {":", "="}, escaped |-> FALSE]

Cut(p) == [p EXCEPT !.sofar = Append(@, Trimmed(p.current)), !.current = <<>>]

(* A later parameter of the same name replaces the earlier one.            *)
FieldEnds(p) ==
    LET q == [p EXCEPT !.sofar = <<>>, !.ops = {":", "="}]
    IN IF Len(p.sofar) = 1 THEN [q EXCEPT !.args = Append(@, p.sofar[1])]
       ELSE [q EXCEPT !.params = [n \in DOMAIN p.params \union {p.sofar[1]} |->
                                     IF n = p.sofar[1] THEN p.sofar[2] ELSE p.params[n]]]

(* Mutant: what is escaped is looked at all the same.                      *)
ReadsEscaped(p, c) ==
    IF c \in p.ops
    THEN IF c = ":" THEN FieldEnds(Cut(p)) ELSE [Cut(p) EXCEPT !.ops = {":"}]
    ELSE IF c = "\\" THEN p
    ELSE [p EXCEPT !.current = Append(@, c)]

Reads(p, c) ==
    IF p.escaped THEN [p EXCEPT !.escaped = FALSE, !.current = Append(@, c)]
    ELSE IF c \in p.ops
    THEN IF c = ":" THEN FieldEnds(Cut(p)) ELSE [Cut(p) EXCEPT !.ops = {":"}]
    ELSE IF c = "\\" THEN [p EXCEPT !.escaped = TRUE]
    ELSE [p EXCEPT !.current = Append(@, c)]

(* What follows the last character: an escape takes the terminating NUL.   *)
(* A field that is empty behind its last separator is none.                *)
Ended(p) ==
    LET q == IF p.escaped THEN [p EXCEPT !.current = Append(@, "NUL")] ELSE p
        r == IF q.current = <<>> THEN q ELSE Cut(q)
    IN IF r.sofar = <<>> THEN r ELSE FieldEnds(r)

Parsed(description) == Ended(FoldLeft(Reads, Parser, description))

-----------------------------------------------------------------------------
(* clientFromString and serverFromString.  Each returns a set: empty where *)
(* it throws.  An address is the text it is given.                         *)

ToLower(s) == [i \in DOMAIN s |-> IF s[i] = "TCP" THEN "tcp" ELSE s[i]]

(* _parseClient and _parseServer.                                          *)
TypeOf(p) == IF p.args = <<>> THEN <<>> ELSE ToLower(Head(p.args))
ArgsOf(p) == IF p.args = <<>> THEN <<>> ELSE Tail(p.args)

Param(p, name, default) == IF <<name>> \in DOMAIN p.params THEN p.params[<<name>>] ELSE default

(* std::stod of the timeout, 30 seconds otherwise.                         *)
Numerals == {"9", "30", "80"}
Timeouts(p) == {t \in {Param(p, "timeout", <<"30">>)} : t # <<>> /\ Head(t) \in Numerals}

(* The host of _parseClientTCP and _parseClientSSL, which is never taken   *)
(* from the parameters, and their port.                                    *)
Host(p) ==
    LET args == ArgsOf(p)
    IN IF Len(args) = 2 \/ (Len(args) = 1 /\ <<"host">> \notin DOMAIN p.params)
       THEN args[1] ELSE <<>>

PortOf(p) ==
    LET args == ArgsOf(p)
    IN Param(p, "port", IF Len(args) = 2 THEN args[2]
                        ELSE IF Len(args) = 1 /\ <<"host">> \in DOMAIN p.params THEN args[1]
                        ELSE <<>>)

(* The verifyParams that build() of the options calls: it throws for a     *)
(* file that does not exist, and where a certificate is required of the    *)
(* peer, or has to be shown by a server, for one that is not named.        *)
Files == {<<"f">>, <<"g">>}
FilesExist(names) == names \ {<<>>} \subseteq Files

VerifyClientParams(o) ==
    /\ o.required => o.verifyFile # <<>>
    /\ FilesExist({o.certFile, o.keyFile, o.verifyFile})

VerifyServerParams(o) == o.certFile # <<>> /\ FilesExist({o.certFile, o.keyFile})

ParseClientTCP(p) ==
    {[type |-> "tcp", host |-> Host(p), port |-> PortOf(p), timeout |-> t,
      bindAddress |-> Param(p, "bindAddress", <<>>)] : t \in Timeouts(p)}

(* The certificates of caCertsDir are what a peer is verified with.        *)
ParseClientSSL(p) ==
    {o \in {[type |-> "ssl", host |-> Host(p), port |-> PortOf(p), timeout |-> t,
             bindAddress |-> Param(p, "bindAddress", <<>>),
             checkHost |-> Param(p, "hostname", <<>>), certFile |-> Param(p, "certKey", <<>>),
             keyFile |-> Param(p, "privateKey", <<>>),
             verifyFile |-> Param(p, "caCertsDir", <<>>),
             required |-> <<"caCertsDir">> \in DOMAIN p.params] : t \in Timeouts(p)} :
        VerifyClientParams(o)}

ParseClientUNIX(p) ==
    LET paths == IF ArgsOf(p) # <<>> THEN {Head(ArgsOf(p))}
                 ELSE {p.params[n] : n \in {<<"path">>} \intersect DOMAIN p.params}
    IN {[type |-> "unix", path |-> path, timeout |-> t] : path \in paths, t \in Timeouts(p)}

ClientFromString(description) ==
    LET p == Parsed(description)
    IN CASE TypeOf(p) = <<"tcp">> -> ParseClientTCP(p)
         [] TypeOf(p) = <<"ssl">> -> ParseClientSSL(p)
         [] TypeOf(p) = <<"unix">> -> ParseClientUNIX(p)
         [] OTHER -> {}

(* _parseTCP, _parseSSL and _parseUNIX.  Without a port or a path they     *)
(* follow args[0] of an empty list: no such description is written.        *)
ParseTCP(p) ==
    {[type |-> "tcp", port |-> ArgsOf(p)[1], interface |-> Param(p, "interface", <<>>)]}

ParseSSL(p) ==
    {o \in {[type |-> "ssl", port |-> ArgsOf(p)[1], interface |-> Param(p, "interface", <<>>),
             keyFile |-> p.params[n], certFile |-> Param(p, "certKey", <<>>)] :
                n \in {<<"privateKey">>} \intersect DOMAIN p.params} :
        VerifyServerParams(o)}

ParseUNIX(p) == {[type |-> "unix", path |-> ArgsOf(p)[1]]}

ServerFromString(description) ==
    LET p == Parsed(description)
    IN CASE TypeOf(p) = <<"tcp">> -> ParseTCP(p)
         [] TypeOf(p) = <<"ssl">> -> ParseSSL(p)
         [] TypeOf(p) = <<"unix">> -> ParseUNIX(p)
         [] OTHER -> {}

-----------------------------------------------------------------------------
(* Writing descriptions.                                                   *)

Plain(value) == [name |-> {}, value |-> value]
Named(name, value) == [name |-> {name}, value |-> value]

Escaped(s, special) ==
    FlattenSeq([i \in 1..Len(s) |-> IF s[i] \in special THEN <<"\\", s[i]>> ELSE <<s[i]>>])

(* "=" needs no escape behind the first one of a field.                    *)
WriteField(f) ==
    IF f.name = {} THEN Escaped(f.value, {":", "=", "\\"})
    ELSE Escaped(CHOOSE n \in f.name : TRUE, {":", "=", "\\"}) \o <<"=">>
         \o Escaped(f.value, {":", "\\"})

DescriptionOf(list) ==
    FlattenSeq([i \in 1..Len(list) |-> (IF i = 1 THEN <<>> ELSE <<":">>) \o WriteField(list[i])])

(* The forms of endpoints.h, and what they say.  "h" stands for any host.  *)
TcpClient(host, port) ==
    [type |-> "tcp", host |-> host, port |-> port, timeout |-> <<"30">>, bindAddress |-> <<>>]
SslClient(host, port) ==
    [type |-> "ssl", host |-> host, port |-> port, timeout |-> <<"30">>, bindAddress |-> <<>>,
     checkHost |-> <<>>, certFile |-> <<>>, keyFile |-> <<>>, verifyFile |-> <<>>,
     required |-> FALSE]

(* endpoints.h 230, 232, 233 and 235 to 238.                               *)
ClientForms ==
    {[fields |-> <<Plain(<<t>>), Plain(<<"h">>), Plain(<<"80">>)>>, says |-> TcpClient(<<"h">>, <<"80">>)] :
        t \in {"tcp", "TCP"}}
    \union
    {[fields |-> <<Plain(<<"tcp">>), Plain(<<"h">>), Named(<<"port">>, <<"80">>)>>,
      says |-> TcpClient(<<"h">>, <<"80">>)],
     [fields |-> <<Plain(<<"ssl">>), Plain(<<"h">>), Plain(<<"80">>),
                   Named(<<"privateKey">>, <<"f">>), Named(<<"certKey">>, <<"g">>)>>,
      says |-> [SslClient(<<"h">>, <<"80">>) EXCEPT !.keyFile = <<"f">>, !.certFile = <<"g">>]],
     [fields |-> <<Plain(<<"tcp">>), Plain(<<"h">>), Plain(<<"80">>), Named(<<"bindAddress">>, <<"b">>)>>,
      says |-> [TcpClient(<<"h">>, <<"80">>) EXCEPT !.bindAddress = <<"b">>]],
     [fields |-> <<Plain(<<"unix">>), Named(<<"path">>, <<"f">>), Named(<<"timeout">>, <<"9">>)>>,
      says |-> [type |-> "unix", path |-> <<"f">>, timeout |-> <<"9">>]],
     [fields |-> <<Plain(<<"unix">>), Plain(<<"f">>)>>,
      says |-> [type |-> "unix", path |-> <<"f">>, timeout |-> <<"30">>]],
     [fields |-> <<Plain(<<"unix">>), Plain(<<"f">>), Named(<<"timeout">>, <<"9">>)>>,
      says |-> [type |-> "unix", path |-> <<"f">>, timeout |-> <<"9">>]]}

(* endpoints.h 229, 231 and 234, where the host is a parameter.            *)
HostForms ==
    {[fields |-> <<Plain(<<"tcp">>), Named(<<"host">>, <<"h">>), Named(<<"port">>, <<"80">>)>>,
      says |-> TcpClient(<<"h">>, <<"80">>)],
     [fields |-> <<Plain(<<"tcp">>), Named(<<"host">>, <<"h">>), Plain(<<"80">>)>>,
      says |-> TcpClient(<<"h">>, <<"80">>)],
     [fields |-> <<Plain(<<"ssl">>), Named(<<"host">>, <<"h">>), Named(<<"port">>, <<"80">>),
                   Named(<<"caCertsDir">>, <<"f">>)>>,
      says |-> [SslClient(<<"h">>, <<"80">>) EXCEPT !.verifyFile = <<"f">>, !.required = TRUE]]}

(* endpoints.h 148 to 151.                                                 *)
ServerForms ==
    {[fields |-> <<Plain(<<"tcp">>), Plain(<<"80">>)>>,
      says |-> [type |-> "tcp", port |-> <<"80">>, interface |-> <<>>]],
     [fields |-> <<Plain(<<"tcp">>), Plain(<<"80">>), Named(<<"interface">>, <<"b">>)>>,
      says |-> [type |-> "tcp", port |-> <<"80">>, interface |-> <<"b">>]],
     [fields |-> <<Plain(<<"ssl">>), Plain(<<"80">>), Named(<<"privateKey">>, <<"f">>),
                   Named(<<"certKey">>, <<"g">>)>>,
      says |-> [type |-> "ssl", port |-> <<"80">>, interface |-> <<>>, keyFile |-> <<"f">>,
                certFile |-> <<"g">>]],
     [fields |-> <<Plain(<<"unix">>), Plain(<<"f">>)>>,
      says |-> [type |-> "unix", path |-> <<"f">>]]}

(* A server that shows no certificate, or one that is not there; a client  *)
(* that is to verify its peer with nothing.                                *)
NoServers ==
    {<<Plain(<<"ssl">>), Plain(<<"80">>), Named(<<"privateKey">>, <<"f">>)>> \o more :
        more \in {<<>>, <<Named(<<"certKey">>, <<" ">>)>>, <<Named(<<"certKey">>, <<"h">>)>>}}
NoClients ==
    {<<Plain(<<"ssl">>), Plain(<<"h">>), Plain(<<"80">>), Named(<<"caCertsDir">>, path)>> :
        path \in {<<" ">>, <<"h">>}}

DescriptionInit ==
    fields \in {<<>>} \union NoServers \union NoClients
              \union {form.fields : form \in ClientForms \union HostForms \union ServerForms}

Size(list) ==
    FoldLeft(LAMBDA n, f : n + 1 + Len(f.value) + (IF f.name = {} THEN 0 ELSE Len(CHOOSE n1 \in f.name : TRUE)),
             0, list)

AddField ==
    /\ Size(fields) < MaxDescription
    /\ \E f \in {Plain(<<>>), Named(<<>>, <<>>)} : fields' = Append(fields, f)

AddCharacter ==
    /\ fields # <<>> /\ Size(fields) < MaxDescription
    /\ \E c \in {":", "=", "\\", " ", "h"} :
        \/ fields' = [fields EXCEPT ![Len(fields)].value = Append(@, c)]
        \/ fields' = [fields EXCEPT ![Len(fields)].name = {Append(n, c) : n \in @}]

DescriptionNext == AddField \/ AddCharacter

DescriptionSpec == DescriptionInit /\ [][DescriptionNext]_fields

-----------------------------------------------------------------------------
(* Properties.                                                             *)

Args(list) == LET plain == SelectSeq(list, LAMBDA f : f.name = {})
              IN [i \in 1..Len(plain) |-> Trimmed(plain[i].value)]

Params(list) ==
    LET At(n) == {i \in 1..Len(list) : {Trimmed(m) : m \in list[i].name} = {n}}
        names == {Trimmed(m) : m \in UNION {list[i].name : i \in 1..Len(list)}}
        Last1(n) == CHOOSE i \in At(n) : \A j \in At(n) : j <= i
    IN [n \in names |-> Trimmed(list[Last1(n)].value)]

(* A description holds the fields it was written from, whatever characters *)
(* they contain and however they are escaped, blanks around them apart; it *)
(* ends with something.  The documented forms mean what they say, those    *)
(* with host= in all but the host, and options that cannot do are refused. *)
DescriptionsRead ==
    /\ fields # <<>> /\ Last(fields).value # <<>> =>
        LET p == Parsed(DescriptionOf(fields)) IN p.args = Args(fields) /\ p.params = Params(fields)
    /\ \A form \in ClientForms :
        fields = form.fields => ClientFromString(DescriptionOf(fields)) = {form.says}
    /\ \A form \in HostForms :
        fields = form.fields =>
            {[e EXCEPT !.host = form.says.host] : e \in ClientFromString(DescriptionOf(fields))}
                = {form.says}
    /\ \A form \in ServerForms :
        fields = form.fields => ServerFromString(DescriptionOf(fields)) = {form.says}
    /\ fields \in NoServers => ServerFromString(DescriptionOf(fields)) = {}
    /\ fields \in NoClients => ClientFromString(DescriptionOf(fields)) = {}

(* A description says its host as a parameter, too (endpoints.h 229, 231   *)
(* and 234).                                                               *)
HostIsRead ==
    \A form \in HostForms :
        fields = form.fields => ClientFromString(DescriptionOf(fields)) = {form.says}
=============================================================================
