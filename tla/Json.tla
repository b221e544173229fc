-------------------------------- MODULE Json --------------------------------
(***************************************************************************)
(* JsonValue: the reader and the writer over tokens, the decoding of       *)
(* numbers and of code points, and the conversions of numbers.  A value is *)
(* <<kind, children>>: a token for what has no children, "[" with its      *)
(* elements, "{" with its members <<key, <<value>>>> in the order of the   *)
(* keys.  Each state holds one sample; documents grow token by token.      *)
(***************************************************************************)
EXTENDS Integers, Sequences, FiniteSets

CONSTANTS
    Dialects,    \* alphabets of documents, with the length up to which
    JsonBits     \* the widths that stand for those of int and int64_t

VARIABLE json   \* the sample

Scalars == {"1", "s", "es", "null"}
Strings == {"s", "es"}   \* "es" is the empty string, and comes first

-----------------------------------------------------------------------------
(* JsonValue as a container.                                               *)

JsonNull == <<"null", <<>> >>

KeyRank(k) == CASE k = "es" -> 0 [] k = "1" -> 1 [] OTHER -> 2

(* operator[](key): the member is made if there is none.                   *)
WithMember(v, k, child) ==
    <<"{", SelectSeq(v[2], LAMBDA x : KeyRank(x[1]) < KeyRank(k))
           \o << <<k, <<child>> >> >>
           \o SelectSeq(v[2], LAMBDA x : KeyRank(x[1]) > KeyRank(k))>>

IsMember(v, k) == \E i \in 1..Len(v[2]) : v[2][i][1] = k

WithElement(v, child) == <<"[", Append(v[2], child)>>

-----------------------------------------------------------------------------
(* BuiltReader.  A method returns whether it succeeded, where it stopped   *)
(* and the value; after an error nothing else of it is used.               *)

Default == [comments |-> TRUE, dropped |-> FALSE, numeric |-> FALSE,
            strict |-> FALSE, extra |-> FALSE, unique |-> FALSE]
StrictMode == [Default EXCEPT !.comments = FALSE, !.strict = TRUE,
                              !.extra = TRUE, !.unique = TRUE]

TokenAt(d, i) == IF i > Len(d) THEN "end" ELSE d[i]

RECURSIVE SkipComments(_, _)
SkipComments(d, i) == IF TokenAt(d, i) = "//" THEN SkipComments(d, i + 1) ELSE i

Bad == [ok |-> FALSE, at |-> 0, value |-> JsonNull]
Good(i, v) == [ok |-> TRUE, at |-> i, value |-> v]

RECURSIVE ReadValue(_, _, _), ReadMembers(_, _, _, _, _), ReadElements(_, _, _, _)

ReadValue(f, d, p) ==
    LET i == IF f.comments THEN SkipComments(d, p) ELSE p
        t == TokenAt(d, i)
    IN CASE t = "{" -> ReadMembers(f, d, i + 1, <<"{", <<>> >>, "es")
         [] t = "[" -> IF TokenAt(d, i + 1) = "]" THEN Good(i + 2, <<"[", <<>> >>)
                       ELSE ReadElements(f, d, i + 1, <<"[", <<>> >>)
         [] t \in Scalars -> Good(i + 1, <<t, <<>> >>)
         [] t \in {",", "}", "]"} /\ f.dropped -> Good(i, JsonNull)
         [] OTHER -> Bad

(* readObject: an object may end at once, and wherever the name read last  *)
(* is empty.                                                               *)
ReadMembers(f, d, p, v, name) ==
    LET i == SkipComments(d, p)
        k == TokenAt(d, i)
        r == ReadValue(f, d, i + 2)
        u == WithMember(v, k, r.value)
        j == SkipComments(d, r.at)
    IN IF k = "}" /\ name = "es" THEN Good(i + 1, v)
       ELSE IF \/ k \notin Strings /\ (k # "1" \/ ~f.numeric)
               \/ TokenAt(d, i + 1) # ":"
               \/ f.unique /\ IsMember(v, k)
               \/ ~r.ok \/ TokenAt(d, j) \notin {",", "}"} THEN Bad
       ELSE IF TokenAt(d, j) = "}" THEN Good(j + 1, u)
       ELSE ReadMembers(f, d, j + 1, u, k)

ReadElements(f, d, p, v) ==
    LET r == ReadValue(f, d, p)
        i == SkipComments(d, r.at)
        u == WithElement(v, r.value)
    IN IF ~r.ok \/ TokenAt(d, i) \notin {",", "]"} THEN Bad
       ELSE IF TokenAt(d, i) = "]" THEN Good(i + 1, u)
       ELSE ReadElements(f, d, i + 1, u)

(* Mutant: what follows the value is not looked at.                        *)
ParsePrefix(f, d) == ReadValue(f, d, 1)

(* parse.                                                                  *)
Parse(f, d) ==
    LET r == ReadValue(f, d, 1)
        t == TokenAt(d, IF f.comments THEN SkipComments(d, r.at) ELSE r.at)
    IN IF \/ r.ok /\ f.extra /\ t # "end"
          \/ f.strict /\ r.value[1] \notin {"[", "{"} THEN Bad ELSE r

-----------------------------------------------------------------------------
(* BuiltStyledStreamWriter.                                                *)

RECURSIVE WriteValue(_), WriteMembers(_), WriteElements(_)
WriteValue(v) ==
    CASE v[1] = "[" -> <<"[">> \o WriteElements(v[2]) \o <<"]">>
      [] v[1] = "{" -> <<"{">> \o WriteMembers(v[2]) \o <<"}">>
      [] OTHER -> <<v[1]>>
WriteMembers(m) ==
    IF m = <<>> THEN <<>>
    ELSE <<m[1][1], ":">> \o WriteValue(m[1][2][1])
            \o (IF Len(m) > 1 THEN <<",">> ELSE <<>>) \o WriteMembers(Tail(m))
WriteElements(s) ==
    IF s = <<>> THEN <<>>
    ELSE WriteValue(s[1]) \o (IF Len(s) > 1 THEN <<",">> ELSE <<>>) \o WriteElements(Tail(s))

-----------------------------------------------------------------------------
(* decodeNumber, with 2^bits for 2^64; "double" stands for decodeDouble.   *)

IsDouble == -1

RECURSIVE DecodeDigits(_, _, _)
DecodeDigits(digits, max, value) ==
    IF digits = <<>> THEN value
    ELSE IF value >= max \div 10 /\
            (value > max \div 10 \/ Len(digits) > 1 \/ Head(digits) > max % 10) THEN IsDouble
    ELSE DecodeDigits(Tail(digits), max, value * 10 + Head(digits))

DecodeNumber(negative, digits, bits) ==
    LET v == DecodeDigits(digits, IF negative THEN 2^(bits - 1) ELSE 2^bits - 1, 0)
    IN IF v = IsDouble THEN [kind |-> "double", n |-> 0]
       ELSE [kind |-> IF negative \/ v < 2^(bits - 1) THEN "int" ELSE "uint",
             n |-> IF negative THEN -v ELSE v]

-----------------------------------------------------------------------------
(* Conversions.  A number is its kind and its halves; max of 64 bits is    *)
(* rounded up when it becomes a double.                                    *)

Widths == {"int", "uint", "int64", "uint64"}
BitsOf(x) == IF x \in {"int", "uint"} THEN JsonBits[1] ELSE JsonBits[2]
LowOf(x) == IF x \in {"int", "int64"} THEN -(2^(BitsOf(x) - 1)) ELSE 0
HighOf(x) == (IF x \in {"int", "int64"} THEN 2^(BitsOf(x) - 1) ELSE 2^BitsOf(x)) - 1
HighAsDouble(x) == IF x \in {"int", "uint"} THEN HighOf(x) ELSE HighOf(x) + 1

Fits(h, low, high) == 2 * low <= h /\ h <= 2 * high

(* isInt, isInt64, isUInt, isUInt64.                                       *)
IsOf(x, v) ==
    IF v.kind # "double" THEN Fits(v.half, LowOf(x), HighOf(x))
    ELSE Fits(v.half, LowOf(x), HighOf(x)) /\ v.half % 2 = 0

(* asInt, asInt64, asUInt, asUInt64: InRange compares with doubles.        *)
Converts(x, v) ==
    IF v.kind # "double" THEN Fits(v.half, LowOf(x), HighOf(x))
    ELSE Fits(v.half, LowOf(x), HighAsDouble(x))

AsOf(v) == IF v.half >= 0 THEN v.half \div 2 ELSE -((-v.half) \div 2)

(* isConvertibleTo an integer.                                             *)
IsConvertible(x, v) ==
    IsOf(x, v) \/ (v.kind = "double" /\ Fits(v.half, LowOf(x), HighOf(x)))

-----------------------------------------------------------------------------
(* Code points: utf8ToCodePoint, toHex16Bit and surrogates on the way out, *)
(* decodeUnicodeCodePoint and codePointToUTF8 on the way in.               *)

Replacement == 65533

CodePointToUTF8(cp) ==
    CASE cp < 128 -> <<cp>>
      [] cp \in 128..2047 -> <<192 + cp \div 64, 128 + (cp % 64)>>
      [] cp \in 2048..65535 -> <<224 + cp \div 4096, 128 + ((cp \div 64) % 64), 128 + (cp % 64)>>
      [] OTHER -> <<240 + cp \div 262144, 128 + ((cp \div 4096) % 64),
                    128 + ((cp \div 64) % 64), 128 + (cp % 64)>>

(* The bits of the first of four octets are shifted by 24.                 *)
UTF8ToCodePoint(b) ==
    LET low(i) == b[i] % 64 IN
    CASE b[1] < 128 -> b[1]
      [] b[1] \in 128..223 -> LET c == (b[1] % 32) * 64 + low(2)
                       IN IF c < 128 THEN Replacement ELSE c
      [] b[1] \in 224..239 -> LET c == (b[1] % 16) * 4096 + low(2) * 64 + low(3)
                       IN IF c < 2048 \/ c \in 55296..57343 THEN Replacement ELSE c
      [] OTHER -> LET c == (b[1] % 8) * 16777216 + low(2) * 4096 + low(3) * 64 + low(4)
                  IN IF c < 65536 THEN Replacement ELSE c

(* The numbers of the \u escapes that are written, 16 bits each.           *)
Escapes(cp) ==
    IF cp < 65536 THEN <<cp>>
    ELSE LET c == cp - 65536
         IN <<(c \div 1024 + 55296) % 65536, (c % 1024) + 56320>>

DecodeUnicode(e) ==
    IF e[1] \in 55296..56319
    THEN (IF Len(e) < 2 THEN -1 ELSE 65536 + (e[1] % 1024) * 1024 + (e[2] % 1024))
    ELSE e[1]

QuotedAndRead(cp) == CodePointToUTF8(DecodeUnicode(Escapes(UTF8ToCodePoint(CodePointToUTF8(cp)))))

-----------------------------------------------------------------------------
(* The grammar of JSON, as the pairs of a text and its value.              *)

RECURSIVE ValuesTo(_)
ValuesTo(depth) ==
    LET inner == IF depth = 0 THEN {} ELSE ValuesTo(depth - 1)
        some == {r \in inner : Len(r.text) <= 5}
    IN {[text |-> <<t>>, value |-> <<t, <<>> >>] : t \in {"1", "s", "es"}}
       \union {[text |-> <<"[", "]">>, value |-> <<"[", <<>> >>],
               [text |-> <<"{", "}">>, value |-> <<"{", <<>> >>]}
       \union {[text |-> <<"[">> \o r.text \o <<"]">>, value |-> <<"[", <<r.value>> >>] : r \in some}
       \union {[text |-> <<"[">> \o r.text \o <<",">> \o q.text \o <<"]">>,
                value |-> <<"[", <<r.value, q.value>> >>] : r \in some, q \in some}
       \union {[text |-> <<"{", k, ":">> \o r.text \o <<"}">>,
                value |-> <<"{", << <<k, <<r.value>> >> >> >>] : k \in Strings, r \in some}

Grammar == {r \in ValuesTo(2) : Len(r.text) <= 6}

Texts == {1, 31, 127, 128, 2047, 2048, 55295, 57344, 65535, 65536, 262143}

JsonInit ==
    json \in [kind : {"document"}, dialect : Dialects, doc : {<<>>}]
             \union [kind : {"value"}, of : {r.value : r \in Grammar}]
             \union [kind : {"number"}, negative : BOOLEAN,
                     digits : UNION {[1..n -> 0..9] : n \in 1..3}]
             \union [kind : {"convert"}, to : Widths, of :
                     [kind : {"double"}, half : -(2^(JsonBits[2] + 1) + 2)..(2^(JsonBits[2] + 1) + 2)]
                     \union [kind : {"int64"}, half : {2 * i : i \in LowOf("int64")..HighOf("int64")}]
                     \union [kind : {"uint64"}, half : {2 * i : i \in 0..HighOf("uint64")}]]
             \union [kind : {"text"}, cp : Texts]

JsonNext ==
    /\ json.kind = "document" /\ Len(json.doc) < json.dialect.max
    /\ \E t \in json.dialect.tokens : json' = [json EXCEPT !.doc = Append(@, t)]

-----------------------------------------------------------------------------
(* A document is read exactly when, without its comments, it is JSON, and  *)
(* then as the value it denotes (a member after an empty name apart, which *)
(* may be left out after a comma).                                         *)
DocumentRead ==
    json.kind = "document" =>
        LET f == json.dialect.features
            d == json.doc
            bare == SelectSeq(d, LAMBDA t : t # "//")
            r == Parse(f, d)
            meant == {g \in Grammar : g.text = bare}
        IN r.ok => \/ \E g \in meant : g.value = r.value
                   \/ \E i \in 1..(Len(bare) - 4) :
                            SubSeq(bare, i, i + 1) = <<"es", ":">> /\ SubSeq(bare, i + 3, i + 4) = <<",", "}">>
                   \/ ~f.extra /\ \E g \in Grammar, n \in 1..Len(bare) :
                                     g.text = SubSeq(bare, 1, n) /\ g.value = r.value

DocumentAccepted ==
    json.kind = "document" =>
        \A g \in Grammar : g.text = json.doc => Parse(Default, json.doc) = Good(Len(g.text) + 1, g.value)

(* What is written is read back, an integer of every length is kept or     *)
(* becomes a double, never wraps, what isX says is kept by asX, what       *)
(* isConvertibleTo promises does not throw, and code points survive their  *)
(* escapes (below 2^18: see UTF8ToCodePoint).                              *)
RECURSIVE Number(_)
Number(ds) == IF ds = <<>> THEN 0 ELSE Number(SubSeq(ds, 1, Len(ds) - 1)) * 10 + ds[Len(ds)]

JsonReadsBack ==
    /\ DocumentRead
    /\ DocumentAccepted
    /\ json.kind = "value" => Parse(Default, WriteValue(json.of)).value = json.of
    /\ json.kind = "number" =>
        LET r == DecodeNumber(json.negative, json.digits, JsonBits[2])
            n == IF json.negative THEN -Number(json.digits) ELSE Number(json.digits)
        IN IF n \in LowOf("int64")..HighOf("uint64") THEN r.n = n /\ r.kind # "double"
           ELSE r.kind = "double"
    /\ json.kind = "convert" =>
        /\ IsOf(json.to, json.of) => Converts(json.to, json.of) /\ 2 * AsOf(json.of) = json.of.half
        /\ IsConvertible(json.to, json.of) =>
                Converts(json.to, json.of) /\ AsOf(json.of) \in LowOf(json.to)..HighOf(json.to)
    /\ json.kind = "text" => QuotedAndRead(json.cp) = CodePointToUTF8(json.cp)
=============================================================================
