------------------------------ MODULE TextCodecs ------------------------------
(***************************************************************************)
(* What the library does to text: quoting for URLs and cookies, query      *)
(* strings, URLs, HTTP headers with their parameters, and form data.  A    *)
(* text is a sequence of characters; in a URL the word "http" and the      *)
(* segment ".." are one character each.  Each state holds one sample,      *)
(* which grows by a character, or by an operation.                         *)
(***************************************************************************)
EXTENDS Naturals, Sequences, FiniteSets, SequencesExt

CONSTANTS
    MaxText,       \* bound: length of a text
    MaxUrl,        \* bound: length of a URL
    MaxHeaderOps   \* bound: operations on a set of headers, or on a cookie jar

VARIABLE text   \* the sample

-----------------------------------------------------------------------------
(* StrUtil.                                                                *)

(* split.                                                                  *)
Split(s, c) ==
    FoldLeft(LAMBDA parts, x : IF x = c THEN Append(parts, <<>>)
                               ELSE [parts EXCEPT ![Len(parts)] = Append(@, x)],
             << <<>> >>, s)

Join(parts, c) ==
    FlattenSeq([i \in 1..Len(parts) |-> IF i = 1 THEN parts[i] ELSE <<c>> \o parts[i]])

(* find, with 0 for npos.                                                  *)
FirstOf(s, c) == SelectInSeq(s, LAMBDA x : x = c)
LastOf(s, c) == SelectLastInSeq(s, LAMBDA x : x = c)
From(s, i) == SubSeq(s, i, Len(s))
ReplaceChar(s, c, d) == [i \in 1..Len(s) |-> IF s[i] = c THEN d ELSE s[i]]

-----------------------------------------------------------------------------
(* UrlParse: percent escapes.                                              *)

Codes == [c \in {"%", "+", " ", "/", "=", "&", ";", "e'"} |->
            CASE c = "%" -> <<"2", "5">> [] c = "+" -> <<"2", "B">> [] c = " " -> <<"2", "0">>
              [] c = "/" -> <<"2", "F">> [] c = "=" -> <<"3", "D">> [] c = "&" -> <<"2", "6">>
              [] c = ";" -> <<"3", "B">> [] c = "e'" -> <<"E", "9">>]

(* _safeMap.                                                               *)
SafeMap(c) == IF c \in DOMAIN Codes THEN <<"%">> \o Codes[c] ELSE <<c>>

(* _hexToChar, which has the digits in either case.                        *)
HexToChar(h) == {c \in DOMAIN Codes : h = Codes[c]
                                      \/ (h[1] = Codes[c][1] /\ h[2] = "b" /\ Codes[c][2] = "B")}

(* quote: a text of safe characters only is returned as it is.             *)
Quote(s, safe) ==
    FlattenSeq([i \in 1..Len(s) |-> IF s[i] \in safe THEN <<s[i]>> ELSE SafeMap(s[i])])

(* quotePlus.                                                              *)
QuotePlus(s) ==
    IF Contains(s, " ") THEN ReplaceChar(Quote(s, {" "}), " ", "+") ELSE Quote(s, {})

UnquoteBit(b) ==
    IF Len(b) < 2 \/ HexToChar(SubSeq(b, 1, 2)) = {} THEN <<"%">> \o b
    ELSE SetToSeq(HexToChar(SubSeq(b, 1, 2))) \o From(b, 3)

(* unquote.                                                                *)
Unquote(s) ==
    LET bits == Split(s, "%")
    IN Head(bits) \o FlattenSeq([i \in 1..(Len(bits) - 1) |-> UnquoteBit(bits[i + 1])])

UnquotePlus(s) == Unquote(ReplaceChar(s, "+", " "))

(* urlEncode of a list of pairs.                                           *)
UrlEncode(query) ==
    Join([i \in 1..Len(query) |-> QuotePlus(query[i][1]) \o <<"=">> \o QuotePlus(query[i][2])], "&")

(* parseQSL, which throws where it is strict: no list then.                *)
ParseQSL(s, keepBlank, strict) ==
    LET pairs == FlattenSeq([i \in 1..Len(Split(s, "&")) |-> Split(Split(s, "&")[i], ";")])
        Name(p) == IF FirstOf(p, "=") = 0 THEN p ELSE SubSeq(p, 1, FirstOf(p, "=") - 1)
        Value(p) == IF FirstOf(p, "=") = 0 THEN <<>> ELSE From(p, FirstOf(p, "=") + 1)
        Kept(p) == keepBlank \/ Value(p) # <<>>
        seen == SelectSeq(pairs, LAMBDA p : (p # <<>> \/ strict) /\ Kept(p))
    IN IF strict /\ \E i \in 1..Len(pairs) : FirstOf(pairs[i], "=") = 0 THEN {}
       ELSE {[i \in 1..Len(seen) |-> <<UnquotePlus(Name(seen[i])), UnquotePlus(Value(seen[i]))>>]}

(* parseQS: the values of each name, in order.                             *)
ParseQS(s, keepBlank) ==
    LET list == CHOOSE l \in ParseQSL(s, keepBlank, FALSE) : TRUE
        names == {list[i][1] : i \in 1..Len(list)}
    IN [n \in names |-> LET own == SelectSeq(list, LAMBDA p : p[1] = n)
                        IN [i \in 1..Len(own) |-> own[i][2]]]

-----------------------------------------------------------------------------
(* UrlParse: URLs.                                                         *)

UsesRelative == {<<>>, <<"http">>}
UsesNetloc == {<<>>, <<"http">>}
UsesParams == {<<>>, <<"http">>}
SchemeChars == {"http", "a", "x", "8", ".", ".."}

(* ilexicographical_compare(temp, "http") is an order: it is true of       *)
(* whatever comes before "http", and false of "http" itself.               *)
ComesBeforeHttp(temp) == temp = <<>> \/ Head(temp) \notin {"http", "x"}

SplitNetloc(u) ==
    LET ends == {i \in 3..Len(u) : u[i] \in {"/", "?", "#"}}
        i == IF ends = {} THEN Len(u) + 1 ELSE CHOOSE j \in ends : \A k \in ends : j <= k
    IN <<SubSeq(u, 3, i - 1), From(u, i)>>

TakeNetloc(r) ==
    IF ~IsPrefix(<<"/", "/">>, r.path) THEN r
    ELSE [r EXCEPT !.netloc = SplitNetloc(r.path)[1], !.path = SplitNetloc(r.path)[2]]

TakeFragment(r) ==
    IF ~Contains(r.path, "#") THEN r
    ELSE [r EXCEPT !.path = SubSeq(@, 1, FirstOf(@, "#") - 1), !.fragment = From(r.path, FirstOf(r.path, "#") + 1)]

TakeQuery(r) ==
    IF ~Contains(r.path, "?") THEN r
    ELSE [r EXCEPT !.path = SubSeq(@, 1, FirstOf(@, "?") - 1), !.query = From(r.path, FirstOf(r.path, "?") + 1)]

(* What follows the scheme.                                                *)
SplitRest(scheme, u) ==
    TakeQuery(TakeFragment(TakeNetloc(
        [scheme |-> scheme, netloc |-> <<>>, path |-> u, query |-> <<>>, fragment |-> <<>>])))

(* Whether temp, in front of the first colon, is the scheme: not if it     *)
(* could be a host and the digits behind it a port.                        *)
IsScheme(temp, rest) ==
    \/ ComesBeforeHttp(temp)
    \/ /\ ToSet(temp) \subseteq SchemeChars
       /\ rest = <<>> \/ ~(ToSet(rest) \subseteq {"8"})

(* urlSplit.                                                               *)
UrlSplit(u, scheme) ==
    LET i == FirstOf(u, ":")
        explicit == i > 0 /\ IsScheme(SubSeq(u, 1, i - 1), From(u, i + 1))
    IN SplitRest(IF explicit THEN SubSeq(u, 1, i - 1) ELSE scheme, IF explicit THEN From(u, i + 1) ELSE u)

SplitParams(path) ==
    LET slash == LastOf(path, "/")
        i == SelectInSubSeq(path, IF slash = 0 THEN 1 ELSE slash, Len(path), LAMBDA x : x = ";")
    IN IF i = 0 THEN <<path, <<>> >> ELSE <<SubSeq(path, 1, i - 1), From(path, i + 1)>>

TakeParams(r) ==
    LET p == IF r.scheme \in UsesParams THEN SplitParams(r.path) ELSE <<r.path, <<>> >>
    IN [scheme |-> r.scheme, netloc |-> r.netloc, path |-> p[1], params |-> p[2],
        query |-> r.query, fragment |-> r.fragment]

(* urlParse.                                                               *)
UrlParsed(u, scheme) == TakeParams(UrlSplit(u, scheme))

After(c, s) == IF s = <<>> THEN <<>> ELSE <<c>> \o s

(* urlUnsplit.                                                             *)
UrlUnsplit(r) ==
    LET slashes == \/ r.netloc # <<>>
                   \/ r.scheme # <<>> /\ r.scheme \in UsesNetloc /\ ~IsPrefix(<<"/", "/">>, r.path)
        path == IF slashes /\ r.path # <<>> /\ Head(r.path) # "/" THEN <<"/">> \o r.path ELSE r.path
    IN (IF r.scheme = <<>> THEN <<>> ELSE Append(r.scheme, ":"))
       \o (IF slashes THEN <<"/", "/">> \o r.netloc ELSE <<>>) \o path
       \o After("?", r.query) \o After("#", r.fragment)

(* urlUnparse.                                                             *)
UrlUnparse(r) ==
    UrlUnsplit([scheme |-> r.scheme, netloc |-> r.netloc, path |-> r.path \o After(";", r.params),
                query |-> r.query, fragment |-> r.fragment])

(* The loop of urlJoin: a segment and the ".." after it go, the last       *)
(* segment apart.                                                          *)
RECURSIVE Collapse(_)
Collapse(segments) ==
    LET pairs == {i \in 2..(Len(segments) - 1) :
                    segments[i] = <<"..">> /\ segments[i - 1] \notin {<<>>, <<"..">>}}
        i == CHOOSE j \in pairs : \A k \in pairs : j <= k
    IN IF pairs = {} THEN segments ELSE Collapse(SubSeq(segments, 1, i - 2) \o From(segments, i + 1))

(* Mutant: a final ".." is left to the loop.                               *)
JoinPathsOpen(bpath, path) ==
    Join(Collapse(SelectSeq(Front(Split(bpath, "/")) \o Split(path, "/"),
                            LAMBDA x : x # <<".">>)), "/")

JoinPaths(bpath, path) ==
    LET all == Front(Split(bpath, "/")) \o Split(path, "/")
        dotted == IF Last(all) = <<".">> THEN [all EXCEPT ![Len(all)] = <<>>] ELSE all
        done == Collapse(SelectSeq(dotted, LAMBDA x : x # <<".">>))
    IN Join(IF done = << <<>>, <<"..">> >> THEN << <<>>, <<>> >>
            ELSE IF Len(done) > 2 /\ Last(done) = <<"..">>
                 THEN Append(SubSeq(done, 1, Len(done) - 2), <<>>) ELSE done, "/")

(* A relative URL, parsed, at the base, parsed.                            *)
Located(b, r) ==
    CASE r.netloc # <<>> -> r
      [] r.netloc = <<>> /\ r.path # <<>> /\ Head(r.path) = "/" -> [r EXCEPT !.netloc = b.netloc]
      [] r.netloc = <<>> /\ r.path = <<>> /\ r.params = <<>> ->
            [r EXCEPT !.netloc = b.netloc, !.path = b.path, !.params = b.params,
                      !.query = IF @ = <<>> THEN b.query ELSE @]
      [] OTHER -> [r EXCEPT !.netloc = b.netloc, !.path = JoinPaths(b.path, r.path)]

JoinParsed(b, r, u) ==
    IF r.scheme # b.scheme \/ r.scheme \notin UsesRelative THEN u ELSE UrlUnparse(Located(b, r))

JoinTo(b, u) == JoinParsed(b, UrlParsed(u, b.scheme), u)

(* urlJoin.                                                                *)
UrlJoin(base, u) == IF base = <<>> THEN u ELSE IF u = <<>> THEN base ELSE JoinTo(UrlParsed(base, <<>>), u)

(* urlDefrag.                                                              *)
UrlDefrag(u) ==
    IF ~Contains(u, "#") THEN <<u, <<>> >>
    ELSE <<UrlUnparse([UrlParsed(u, <<>>) EXCEPT !.fragment = <<>>]), UrlParsed(u, <<>>).fragment>>

WithArgs(r, args) ==
    UrlUnparse([r EXCEPT !.query = UrlEncode((CHOOSE l \in ParseQSL(@, TRUE, FALSE) : TRUE) \o args)])

(* HTTPUtil::urlConcat.                                                    *)
UrlConcat(u, args) == IF args = <<>> THEN u ELSE WithArgs(UrlParsed(u, <<>>), args)

(* getHostName, getPort, getUserName and getPassword of a netloc.          *)
HostInfo(netloc) == From(netloc, LastOf(netloc, "@") + 1)
UserInfo(netloc) == SubSeq(netloc, 1, LastOf(netloc, "@") - 1)

HostName(netloc) ==
    LET n == HostInfo(netloc)
    IN IF Contains(n, "[") /\ Contains(n, "]") THEN SubSeq(n, 2, FirstOf(n, "]"))
       ELSE IF Contains(n, ":") THEN SubSeq(n, 1, FirstOf(n, ":") - 1) ELSE n

Port(netloc) ==
    LET n == HostInfo(netloc)
        m == From(n, FirstOf(n, "]") + 1)
    IN IF Contains(m, ":") THEN From(m, FirstOf(m, ":") + 1) ELSE <<>>

UserName(netloc) ==
    LET u == UserInfo(netloc) IN IF Contains(u, ":") THEN SubSeq(u, 1, FirstOf(u, ":") - 1) ELSE u

Password(netloc) == LET u == UserInfo(netloc) IN From(u, FirstOf(u, ":") + 1)

-----------------------------------------------------------------------------
(* CookieUtil.                                                             *)

LegalChars == {"0", "7", "3"}

Translator(c) ==
    CASE c = "\"" -> <<"\\", "\"">> [] c = "\\" -> <<"\\", "\\">>
      [] c = ";" -> <<"\\", "0", "7", "3">> [] OTHER -> <<c>>

(* quote.                                                                  *)
CookieQuote(s) ==
    IF ToSet(s) \subseteq LegalChars THEN s
    ELSE <<"\"">> \o FlattenSeq([i \in 1..Len(s) |-> Translator(s[i])]) \o <<"\"">>

(* An octal escape (of which "073" is the one quote makes), or one of a    *)
(* single character, at i.                                                 *)
OctalAt(s, i) == i + 3 <= Len(s) /\ SubSeq(s, i, i + 3) = <<"\\", "0", "7", "3">>

RECURSIVE CookieUnescape(_)
CookieUnescape(s) ==
    LET i == FirstOf(s, "\\")
    IN IF i = 0 \/ i = Len(s) THEN s
       ELSE IF OctalAt(s, i) THEN SubSeq(s, 1, i - 1) \o <<";">> \o CookieUnescape(From(s, i + 4))
       ELSE SubSeq(s, 1, i - 1) \o <<s[i + 1]>> \o CookieUnescape(From(s, i + 2))

(* unquote.                                                                *)
CookieUnquote(s) ==
    IF Len(s) < 2 \/ Head(s) # "\"" \/ Last(s) # "\"" THEN s
    ELSE CookieUnescape(SubSeq(s, 2, Len(s) - 1))

(* HTTPUtil::parseCookie of cookies that outputString wrote.               *)
ParseCookie(s) ==
    LET chunks == SelectSeq(Split(s, ";"), LAMBDA c : c # <<>>)
        Key(c) == SubSeq(c, 1, FirstOf(c, "=") - 1)
    IN {<<Key(chunks[i]), CookieUnquote(From(chunks[i], FirstOf(chunks[i], "=") + 1))>> :
            i \in 1..Len(chunks)}

(* A cookie without attributes.                                            *)
OutputString(key, value) == key \o <<"=">> \o CookieQuote(value)

(* A cookie jar is a function from names to morsels; a morsel without an   *)
(* attribute has it empty.                                                 *)
Flags == {"secure"}
Reserved == {"Path"} \union Flags
NewMorsel == [value |-> "", attrs |-> [a \in Reserved |-> ""]]

(* set: the attributes of a cookie that is set again stay.                 *)
SetCookie(jar, name, value) ==
    [n \in DOMAIN jar \union {name} |->
        IF n # name THEN jar[n]
        ELSE [(IF name \in DOMAIN jar THEN jar[name] ELSE NewMorsel) EXCEPT !.value = value]]

(* The setter and Morsel::set, which refuses a reserved name (the jar then *)
(* stays).                                                                 *)
AssignCookie(jar, name, value) ==
    IF name \in Reserved THEN jar ELSE SetCookie(jar, name, value)

(* Morsel::operator[].                                                     *)
SetAttribute(jar, name, attr, value) ==
    IF name \notin DOMAIN jar \/ attr \notin Reserved THEN jar
    ELSE [jar EXCEPT ![name].attrs[attr] = value]

(* Morsel::outputString, as name and value pairs: a flag has no value.     *)
MorselPairs(name, m) ==
    <<[name |-> name, value |-> {m.value}]>>
        \o SetToSeq({[name |-> a, value |-> IF a \in Flags THEN {} ELSE {m.attrs[a]}] :
                        a \in {b \in Reserved : m.attrs[b] # ""}})

(* BaseCookie::output.                                                     *)
JarPairs(jar) ==
    FoldLeft(LAMBDA out, n : out \o MorselPairs(n, jar[n]), <<>>, SetToSeq(DOMAIN jar))

(* parseString: an attribute is of the cookie before it; what has no value *)
(* is passed over.                                                         *)
ParseString(jar, pairs) ==
    LET Step(s, p) ==
            CASE p.value = {} -> s
              [] p.value # {} /\ p.name \in Reserved ->
                    IF s.last = "" THEN s
                    ELSE [s EXCEPT !.jar = SetAttribute(@, s.last, p.name, CHOOSE v \in p.value : TRUE)]
              [] OTHER ->
                    [jar |-> SetCookie(s.jar, p.name, CHOOSE v \in p.value : TRUE), last |-> p.name]
    IN FoldLeft(Step, [jar |-> jar, last |-> ""], pairs).jar

EraseCookie(jar, name) == [n \in DOMAIN jar \ {name} |-> jar[n]]

-----------------------------------------------------------------------------
(* Parameters of a header.                                                 *)

(* The pairs \" in s, counted from the left.                               *)
EscapedQuotes(s) ==
    Cardinality({i \in 1..(Len(s) - 1) : SubSeq(s, i, i + 1) = <<"\\", "\"">>})

InQuotes(s) ==
    (Len(SelectSeq(s, LAMBDA x : x = "\"")) - EscapedQuotes(s)) % 2 # 0

(* Where a parameter ends: the search for the ";" that ends it goes on     *)
(* from quote to quote.                                                    *)
RECURSIVE ParamEnd(_, _)
ParamEnd(s, end) ==
    IF end = 0 THEN Len(s) + 1
    ELSE IF end > 1 /\ InQuotes(SubSeq(s, 1, end - 1))
    THEN ParamEnd(s, SelectInSubSeq(s, end + 1, Len(s), LAMBDA x : x = "\""))
    ELSE end

(* parseParam.                                                             *)
RECURSIVE ParseParam(_)
ParseParam(s) ==
    IF s = <<>> \/ Head(s) # ";" THEN <<>>
    ELSE LET t == Tail(s)
             end == ParamEnd(t, FirstOf(t, ";"))
         IN <<SubSeq(t, 1, end - 1)>> \o ParseParam(From(t, end))

(* replace_all of a pair by its second character.                          *)
RECURSIVE Unescape(_, _)
Unescape(s, c) ==
    IF Len(s) < 2 THEN s
    ELSE IF SubSeq(s, 1, 2) = <<"\\", c>> THEN <<c>> \o Unescape(From(s, 3), c)
    ELSE <<Head(s)>> \o Unescape(Tail(s), c)

ParamValue(v) ==
    IF Len(v) >= 2 /\ Head(v) = "\"" /\ Last(v) = "\""
    THEN Unescape(Unescape(SubSeq(v, 2, Len(v) - 1), "\\"), "\"") ELSE v

(* parseHeader, the parameters alone.                                      *)
ParseHeader(line) ==
    LET parts == Tail(ParseParam(<<";">> \o line))
        At(p) == FirstOf(p, "=")
    IN [i \in 1..Len(parts) |->
            IF At(parts[i]) = 0 THEN <<parts[i], <<>> >>
            ELSE <<SubSeq(parts[i], 1, At(parts[i]) - 1), ParamValue(From(parts[i], At(parts[i]) + 1))>>]

-----------------------------------------------------------------------------
(* HTTPHeaders.                                                            *)

(* normalizeName capitalizes copies of the parts and joins the parts.      *)
NormalizeName(name) == name

Headers(s) == DOMAIN s.items

(* operator[] and its setter.                                              *)
SetHeader(s, name, value) ==
    LET n == NormalizeName(name)
        With(f, v) == [x \in DOMAIN f \union {n} |-> IF x = n THEN v ELSE f[x]]
    IN [s EXCEPT !.items = With(@, value), !.asList = With(@, <<value>>)]

(* add.                                                                    *)
AddHeader(s, name, value) ==
    LET n == NormalizeName(name)
        t == [s EXCEPT !.lastKey = {n}]
    IN IF n \in Headers(s)
       THEN [t EXCEPT !.items[n] = @ \o <<",">> \o value, !.asList[n] = Append(@, value)]
       ELSE SetHeader(t, name, value)

(* parseLine of a line that begins with a space: at() throws when the last *)
(* header was erased since.                                                *)
ContinueHeader(s, more) ==
    IF s.lastKey = {} THEN [s EXCEPT !.raised = "HTTPInputError"]
    ELSE LET n == CHOOSE k \in s.lastKey : TRUE
             part == <<" ">> \o more
         IN IF n \notin Headers(s) THEN [s EXCEPT !.raised = "out_of_range"]
            ELSE [s EXCEPT !.items[n] = @ \o part, !.asList[n][Len(s.asList[n])] = @ \o part]

(* erase, clear.                                                           *)
EraseHeader(s, name) ==
    LET n == NormalizeName(name)
    IN IF n \notin Headers(s) THEN [s EXCEPT !.raised = "KeyError"]
       ELSE [s EXCEPT !.items = [x \in DOMAIN @ \ {n} |-> @[x]],
                      !.asList = [x \in DOMAIN @ \ {n} |-> @[x]]]

ClearHeaders(s) == [s EXCEPT !.items = <<>>, !.asList = <<>>]

-----------------------------------------------------------------------------
(* Form data, over tokens: "B" and "F" are the delimiter and the final     *)
(* one, "H" the headers of a part, "E" the empty line, "N" a line end.     *)

(* parseMultipartFormData.                                                 *)
ParseMultipart(data) ==
    LET final == LastOf(data, "F")
        parts == SelectSeq(Split(SubSeq(data, 1, final - 1), "B"), LAMBDA p : p # <<>>)
        eoh(p) == FirstOf(p, "E")
        Good(p) == eoh(p) > 0 /\ SubSeq(p, 1, eoh(p) - 1) = <<"H">> /\ Last(p) \in {"N", "E"}
        good == SelectSeq(parts, Good)
    IN IF final = 0 THEN <<>>
       ELSE [i \in 1..Len(good) |-> SubSeq(good[i], eoh(good[i]) + 1, Len(good[i]) - 1)]

FormData(values) ==
    FlattenSeq([i \in 1..Len(values) |-> <<"B", "H", "E">> \o values[i] \o <<"N">>]) \o <<"F">>

-----------------------------------------------------------------------------
Alphabet(kind) ==
    CASE kind = "escape" -> {"a", "2", "B", "%", "+", " ", "/", "e'"}
      [] kind = "cookie" -> {"0", "7", "3", ";", "\"", "\\", " "}
      [] kind = "url" -> {"http", "a", "x", "8", ":", "/", "?", "#", ";", "."}
      [] kind = "path" -> {"a", ".", "..", "/", "?", ";"}
      [] OTHER -> {}

Short(chars, n) == UNION {[1..k -> chars] : k \in 0..n}

TextInit ==
    text \in [kind : {"escape", "cookie", "url", "path"}, s : {<<>>}]
             \union [kind : {"query"}, l : Short(Short({"a", " ", "=", "&"}, 1) \X
                                                 Short({"a", ";", "%", "+"}, 1), 2)]
             \union [kind : {"netloc"}, user : {<<>>, <<"a">>, <<"a", ":", "8">>, <<"a", "@", ":", "8">>},
                     host : {<<>>, <<"a">>, <<"[", ":", "a", "]">>}, port : {<<>>, <<"8">>}]
             \union [kind : {"params"}, values : Short(Short({"a", ";", "\"", "\\"}, 2), 2)]
             \union [kind : {"form"}, values : Short(Short({"x", "N", "E", "F"}, 2), 2)]
             \union [kind : {"headers"}, ops : {0}, items : {<<>>}, asList : {<<>>}, lastKey : {{}},
                     raised : {""}, erased : {{}}]
             \union [kind : {"jar"}, ops : {0}, jar : {<<>>}]

GrowsText ==
    /\ Alphabet(text.kind) # {}
    /\ Len(text.s) < (IF text.kind \in {"url", "path"} THEN MaxUrl ELSE MaxText)
    /\ \E c \in Alphabet(text.kind) : text' = [text EXCEPT !.s = Append(@, c)]

ChangesHeaders ==
    /\ text.kind = "headers" /\ text.ops < MaxHeaderOps /\ text.raised = ""
    /\ LET s == [text EXCEPT !.ops = @ + 1] IN
       \E name \in {"Host", "Via"} :
        \/ \E v \in {<<"a">>, <<"b">>} : text' \in {AddHeader(s, name, v), SetHeader(s, name, v)}
        \/ text' = ContinueHeader(s, <<"c">>)
        \/ text' = EraseHeader([s EXCEPT !.erased = @ \union {name}], name)
        \/ text' = ClearHeaders([s EXCEPT !.erased = {"Host", "Via"}])

ChangesJar ==
    /\ text.kind = "jar" /\ text.ops < MaxHeaderOps
    /\ \E jar \in {AssignCookie(text.jar, n, v) : n \in {"k", "q", "Path"}, v \in {"1", "2"}}
                  \union {SetAttribute(text.jar, n, a, v) : n \in {"k", "q"}, a \in Reserved, v \in {"1", "2"}}
                  \union {EraseCookie(text.jar, "k"), <<>>}
                  \union {ParseString(text.jar, <<[name |-> "Path", value |-> {"2"}],
                                                  [name |-> "q", value |-> {"1"}]>>)} :
        text' = [text EXCEPT !.jar = jar, !.ops = @ + 1]

TextNext == GrowsText \/ ChangesHeaders \/ ChangesJar

-----------------------------------------------------------------------------
(* Properties.                                                             *)

(* What quote escapes unquote restores, whatever the text contains, a      *)
(* cookie's value comes back from the header it was put into, and a query  *)
(* keeps its pairs through a URL.                                          *)
QuotingUndone ==
    /\ text.kind = "escape" =>
        /\ Unquote(Quote(text.s, {"/"})) = text.s
        /\ UnquotePlus(QuotePlus(text.s)) = text.s
        /\ ToSet(QuotePlus(text.s)) \intersect {"/", " ", "e'"} = {}
    /\ text.kind = "cookie" =>
        /\ CookieUnquote(CookieQuote(text.s)) = text.s
        /\ ParseCookie(OutputString(<<"a">>, text.s)) = {<< <<"a">>, text.s>>}
    /\ text.kind = "query" =>
        /\ ParseQSL(UrlEncode(text.l), TRUE, FALSE) = {text.l}
        /\ text.l # <<>> => UrlParsed(UrlConcat(<<"/">>, text.l), <<>>).query = UrlEncode(text.l)
        /\ \A n \in DOMAIN ParseQS(UrlEncode(text.l), TRUE) :
            Len(ParseQS(UrlEncode(text.l), TRUE)[n]) = Len(SelectSeq(text.l, LAMBDA p : p[1] = n))
    /\ text.kind = "form" => ParseMultipart(FormData(text.values)) = text.values

(* The reference of urlJoin: every ".." takes back the segment before it,  *)
(* and a final one, or a final ".", names the directory.                   *)
Resolve(segments) ==
    FoldLeft(LAMBDA path, x : IF x = <<"..">> THEN Front(path)
                              ELSE IF x = <<".">> THEN path ELSE Append(path, x), <<>>, segments)
        \o (IF Last(segments) \in {<<"..">>, <<".">>} THEN << <<>> >> ELSE <<>>)

Depth(segments, n) ==
    Len(SelectSeq(SubSeq(segments, 1, n), LAMBDA x : x \notin {<<".">>, <<"..">>}))
        - Len(SelectSeq(SubSeq(segments, 1, n), LAMBDA x : x = <<"..">>))

(* A relative path that stays within its base.                             *)
Descends(segments) ==
    \A n \in 1..Len(segments) : Depth(segments, n) >= 0 /\ (n < Len(segments) => segments[n] # <<>>)

(* A URL of http whose path, if it has one, begins at the root, or one     *)
(* without a scheme; the path has no empty segment in front.               *)
Rooted(r) == /\ r.scheme = <<>> \/ r.path = <<>> \/ Head(r.path) = "/"
             /\ ~IsPrefix(<<"/", "/">>, r.path)

Base == <<"http", ":", "/", "/", "a", "/", "x", "/", "8">>

SplitsAgain(r) == Rooted(r) => UrlSplit(UrlUnsplit(r), <<>>) = r

JoinsBase(r, u) ==
    LET segments == << <<"x">> >> \o Split(r.path, "/")
    IN r.path # <<>> /\ Head(r.path) # "/" /\ Descends(segments)
       => UrlParsed(UrlJoin(Base, u), <<>>).path = <<"/">> \o Join(Resolve(segments), "/")

(* A URL taken apart and put together again is taken apart the same way;   *)
(* a relative path is resolved against the directory of the base; the      *)
(* parts of a netloc are those it was made of.                             *)
UrlsStand ==
    /\ text.kind = "url" =>
        /\ IsPrefix(<<":">>, text.s) \/ SplitsAgain(UrlSplit(text.s, <<>>))
        /\ Contains(text.s, "#") => UrlSplit(UrlDefrag(text.s)[1], <<>>).fragment = <<>>
    /\ text.kind = "path" /\ text.s # <<>> => JoinsBase(UrlParsed(text.s, <<"http">>), text.s)
    /\ text.kind = "netloc" =>
        LET n == (IF text.user = <<>> THEN <<>> ELSE Append(text.user, "@")) \o text.host
                 \o After(":", text.port)
        IN /\ HostName(n) = text.host \/ Contains(text.host, "[")
           /\ Port(n) = text.port
           /\ text.user # <<>> => Head(UserName(n)) = "a"
           /\ Contains(text.user, ":") => Password(n) = <<"8">>

Quoted(v) ==
    <<"\"">> \o FlattenSeq([i \in 1..Len(v) |-> IF v[i] \in {"\"", "\\"} THEN <<"\\", v[i]>> ELSE <<v[i]>>])
             \o <<"\"">>

(* A value that does not hide the end of its parameter from parseParam.    *)
Closed(v) == ~Contains(v, ";") /\ (v = <<>> \/ Last(v) # "\\")

(* A header has one list of values, and the line they make is that list;   *)
(* a continuation extends the value read last, and the parameters of a     *)
(* header come out as they went in.                                        *)
HeadersStand ==
    /\ text.kind = "headers" =>
        /\ DOMAIN text.items = DOMAIN text.asList
        /\ \A n \in DOMAIN text.items : text.items[n] = Join(text.asList[n], ",") /\ text.asList[n] # <<>>
        /\ text.raised = "out_of_range" => text.lastKey \subseteq text.erased
    /\ text.kind = "params" /\ (\A i \in 1..(Len(text.values) - 1) : Closed(text.values[i])) =>
        ParseHeader(<<"a">> \o FlattenSeq([i \in 1..Len(text.values) |->
                                              <<";", "a", "=">> \o Quoted(text.values[i])]))
            = [i \in 1..Len(text.values) |-> << <<"a">>, text.values[i]>>]

(* A jar read back from its own output has the cookies it had, each with   *)
(* its own attributes, the flags apart.                                    *)
CookiesStand ==
    text.kind = "jar" =>
        ParseString(<<>>, JarPairs(text.jar)) =
            [n \in DOMAIN text.jar |->
                [text.jar[n] EXCEPT !.attrs = [a \in Reserved |-> IF a \in Flags THEN "" ELSE @[a]]]]

(* What the codecs of text put in comes out: quoting, URLs, headers and    *)
(* cookies.                                                                *)
TextsSurvive == QuotingUndone /\ UrlsStand /\ HeadersStand /\ CookiesStand
=============================================================================
