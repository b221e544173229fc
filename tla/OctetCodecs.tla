------------------------------ MODULE OctetCodecs ------------------------------
(***************************************************************************)
(* What the library does to octets: archives, the receivers of messages    *)
(* with a length in front, the buffer between a socket and its readers,    *)
(* and the validator and the masker of WebSocket frames.  An octet has     *)
(* Octet values, of which the last stands for 0xFF; the machine is         *)
(* little-endian.                                                          *)
(***************************************************************************)
EXTENDS Integers, Sequences, FiniteSets, SequencesExt

CONSTANTS
    Octet,       \* values of an octet (256 in the code)
    MaxItems,    \* bound: values in an archive, messages to a receiver
    MaxOctets    \* bound: octets of a text, and operations on a buffer

ASSUME OctetAssumption == Octet \in Nat /\ Octet >= 3

VARIABLE octets   \* the sample

Last255 == Octet - 1

-----------------------------------------------------------------------------
(* ByteConvert, of numbers of one octet and of more.                       *)

Digits(n, size) == [i \in 1..size |-> (n \div Octet^(i - 1)) % Octet]
NumberOf(d) == FoldRight(LAMBDA x, n : x + Octet * n, d, 0)

ConvertOctet(n) == <<n>>

(* convertTo and convertFrom.                                              *)
ConvertTo(n, size, order) ==
    IF size = 1 THEN ConvertOctet(n)
    ELSE IF order \in {"network", "big"} THEN Reverse(Digits(n, size)) ELSE Digits(n, size)

ConvertFrom(d, order) == NumberOf(IF order \in {"network", "big"} THEN Reverse(d) ELSE d)

-----------------------------------------------------------------------------
(* Archive: values by their types.  A type is a tuple that begins with its *)
(* kind: <<"int", size, signed>>, <<"bool">>, <<"real", size>>, <<"blob">>,*)
(* <<"array", type, length>>, <<"list", type>>, <<"set", type>>,           *)
(* <<"map", <<type, type>> >>, <<"optional", type>>, <<"struct", types>>.       *)

(* append.                                                                 *)
AppendInt(n, size, order) == ConvertTo(n % Octet^size, size, order)

(* appendReal: the bits as they are.                                       *)
AppendReal(v, size) == Digits(v, size)
Infinite(size) == Octet^size - 1

(* Mutant: the largest length of one octet is the escape.                  *)
AppendLengthLate(n, order) ==
    IF n > Last255 THEN <<Last255>> \o AppendInt(n, 4, order) ELSE <<n>>

(* The length of a text or of a container.                                 *)
AppendLength(n, order) ==
    IF n >= Last255 THEN <<Last255>> \o AppendInt(n, 4, order) ELSE <<n>>

AppendBlob(v, order) == AppendLength(Len(v), order) \o v

RECURSIVE Write(_, _, _)

AppendEach(t, values, order) == FlattenSeq([i \in 1..Len(values) |-> Write(t, values[i], order)])

AppendSequence(t, values, order) == AppendLength(Len(values), order) \o AppendEach(t, values, order)

AppendSet(t, values, order) == AppendSequence(t, SetToSeq(values), order)

AppendMapping(types, f, order) ==
    AppendSet(<<"struct", types>>, {<<k, f[k]>> : k \in DOMAIN f}, order)

AppendOptional(t, v, order) == IF v = <<>> THEN <<0>> ELSE <<1>> \o Write(t, Head(v), order)

(* operator<< of numbers and texts, and of what is made of them.           *)
AppendValue(t, v, order) ==
    CASE t[1] = "bool" -> <<IF v THEN 1 ELSE 0>>
      [] t[1] = "int" -> AppendInt(v, t[2], order)
      [] t[1] = "real" -> AppendReal(v, t[2])
      [] t[1] = "blob" -> AppendBlob(v, order)

Write(t, v, order) ==
    CASE t[1] \in {"bool", "int", "real", "blob"} -> AppendValue(t, v, order)
      [] t[1] = "array" -> AppendEach(t[2], v, order)
      [] t[1] = "list" -> AppendSequence(t[2], v, order)
      [] t[1] = "set" -> AppendSet(t[2], v, order)
      [] t[1] = "map" -> AppendMapping(t[2], v, order)
      [] t[1] = "optional" -> AppendOptional(t[2], v, order)
      [] t[1] = "struct" -> FlattenSeq([i \in 1..Len(t[2]) |-> Write(t[2][i], v[i], order)])

(* A read returns the archive and the value.  checkReadOverflow.           *)
Overflows(a, n) == a.pos + n > Len(a.storage)

ThrowError(a) == [a EXCEPT !.raised = TRUE]
Advance(a, n) == [a EXCEPT !.pos = @ + n]
Bytes(a, n) == SubSeq(a.storage, a.pos + 1, a.pos + n)

(* read of a number; a signed one wraps.                                   *)
Signed(n, size) == IF 2 * n >= Octet^size THEN n - Octet^size ELSE n

ReadInt(a, size, signed, order) ==
    IF Overflows(a, size) THEN <<ThrowError(a), 0>>
    ELSE IF signed THEN <<Advance(a, size), Signed(ConvertFrom(Bytes(a, size), order), size)>>
    ELSE <<Advance(a, size), ConvertFrom(Bytes(a, size), order)>>

(* readReal: an infinite number is refused after it was read.              *)
Finite(r, size) == IF r[2] = Infinite(size) THEN <<ThrowError(r[1]), 0>> ELSE r
ReadReal(a, size) == Finite(ReadInt(a, size, FALSE, "native"), size)

(* A length, in an octet or in the four behind the escape.                 *)
LongLength(r, order) == IF r[2] = Last255 THEN ReadInt(r[1], 4, FALSE, order) ELSE r
ReadArchiveLength(a, order) == LongLength(ReadInt(a, 1, FALSE, order), order)

BlobBehind(r) ==
    IF r[1].raised \/ Overflows(r[1], r[2]) THEN <<ThrowError(r[1]), <<>> >>
    ELSE <<Advance(r[1], r[2]), Bytes(r[1], r[2])>>
ReadBlob(a, order) == BlobBehind(ReadArchiveLength(a, order))

(* operator>> of numbers and texts.                                        *)
Truth(r) == <<r[1], r[2] > 0>>

ReadPlain(a, t, order) ==
    CASE t[1] = "bool" -> Truth(ReadInt(a, 1, FALSE, order))
      [] t[1] = "int" -> ReadInt(a, t[2], t[3], order)
      [] t[1] = "real" -> ReadReal(a, t[2])
      [] t[1] = "blob" -> ReadBlob(a, order)

RECURSIVE ReadAny(_, _, _)

(* One value of each type, while nothing is raised.                        *)
Collected(r, x) == <<x[1], Append(r[2], x[2])>>
ReadAll(a, types, order) ==
    FoldLeft(LAMBDA r, t : IF r[1].raised THEN r ELSE Collected(r, ReadAny(r[1], t, order)),
             <<a, <<>> >>, types)

(* readSequence.  More elements than the archive has octets must overflow. *)
Elements(n, a, t) == [i \in 1..(IF n > Len(a.storage) THEN Len(a.storage) + 1 ELSE n) |-> t]
ElementsBehind(r, t, order) ==
    IF r[1].raised THEN <<r[1], <<>> >> ELSE ReadAll(r[1], Elements(r[2], r[1], t), order)
ReadSequence(a, t, order) == ElementsBehind(ReadArchiveLength(a, order), t, order)

(* readSet.                                                                *)
SetOf(r) == <<r[1], ToSet(r[2])>>
ReadSet(a, t, order) == SetOf(ReadSequence(a, t, order))

(* readMapping: a key that is read again keeps its first value.            *)
FirstValue(pairs, k) == pairs[SelectInSeq(pairs, LAMBDA p : p[1] = k)][2]
MappingOf(r) ==
    IF r[1].raised THEN <<r[1], <<>> >>
    ELSE <<r[1], [k \in {r[2][i][1] : i \in 1..Len(r[2])} |-> FirstValue(r[2], k)]>>
ReadMapping(a, types, order) == MappingOf(ReadSequence(a, <<"struct", types>>, order))

ValueBehind(r, t, order) ==
    IF r[1].raised \/ r[2] = 0 THEN <<r[1], <<>> >> ELSE ReadAll(r[1], <<t>>, order)
ReadOptional(a, t, order) == ValueBehind(ReadInt(a, 1, FALSE, order), t, order)

(* operator>> of what is made of others.                                   *)
ReadAny(a, t, order) ==
    CASE t[1] \in {"bool", "int", "real", "blob"} -> ReadPlain(a, t, order)
      [] t[1] = "array" -> ReadAll(a, [i \in 1..t[3] |-> t[2]], order)
      [] t[1] = "list" -> ReadSequence(a, t[2], order)
      [] t[1] = "set" -> ReadSet(a, t[2], order)
      [] t[1] = "map" -> ReadMapping(a, t[2], order)
      [] t[1] = "optional" -> ReadOptional(a, t[2], order)
      [] t[1] = "struct" -> ReadAll(a, t[2], order)

-----------------------------------------------------------------------------
(* The receivers.  A receiver has the octets of its length, and a longer   *)
(* length of four octets behind the largest of them, or not.               *)
UInt8Receiver == [prefix |-> 1, long |-> FALSE]
UInt8ExtReceiver == [prefix |-> 1, long |-> TRUE]
UInt16Receiver == [prefix |-> 2, long |-> FALSE]
UInt16ExtReceiver == [prefix |-> 2, long |-> TRUE]
UInt32Receiver == [prefix |-> 4, long |-> FALSE]

Limit(type) == Octet^type.prefix - 1

(* sendMessage: an empty set is LengthLimitExceededError.                  *)
SendMessage(type, order, m) ==
    CASE type.long /\ Len(m) >= Limit(type) ->
            {[i \in 1..type.prefix |-> Last255] \o ConvertTo(Len(m), 4, order) \o m}
      [] ~type.long /\ Len(m) > Limit(type) -> {}
      [] OTHER -> {ConvertTo(Len(m), type.prefix, order) \o m}

(* The header and the message in front, if they are there.  The longer     *)
(* length is converted, but what convertFrom returns is not kept.          *)
Frame(type, order, s) ==
    LET n == ConvertFrom(SubSeq(s, 1, type.prefix), order)
        escaped == type.long /\ n = Limit(type)
        header == type.prefix + (IF escaped THEN 4 ELSE 0)
        length == IF escaped THEN NumberOf(SubSeq(s, type.prefix + 1, header)) ELSE n
    IN IF Len(s) < type.prefix \/ Len(s) < header \/ Len(s) < header + length THEN {}
       ELSE {[header |-> header, length |-> length]}

(* The loop of dataReceived: it ends at a message whose handler throws.    *)
RECURSIVE Messages(_, _, _, _)
Messages(type, order, s, throws) ==
    IF s = <<>> \/ Frame(type, order, s) = {} THEN [got |-> <<>>, rest |-> s]
    ELSE LET f == CHOOSE x \in Frame(type, order, s) : TRUE
             m == SubSeq(s, f.header + 1, f.header + f.length)
             rest == SubSeq(s, f.header + f.length + 1, Len(s))
             more == Messages(type, order, rest, FALSE)
         IN IF throws THEN [got |-> <<m>>, rest |-> rest]
            ELSE [got |-> <<m>> \o more.got, rest |-> more.rest]

(* dataReceived.                                                           *)
ReceiveData(r, data, throws) ==
    LET done == Messages(r.type, r.order, r.unprocessed \o data, throws)
    IN [r EXCEPT !.got = @ \o done.got, !.unprocessed = done.rest,
                 !.losing = @ \/ (throws /\ done.got # <<>>)]

-----------------------------------------------------------------------------
(* MessageBuffer: the octets are numbered as they are written.             *)
Remaining(b) == Len(b.storage) - b.wpos
Active(b) == b.wpos - b.rpos

Resize(b, n) == [b EXCEPT !.storage = [i \in 1..n |-> IF i <= Len(@) THEN @[i] ELSE 0]]

Normalize(b) ==
    IF b.rpos = 0 THEN b
    ELSE [b EXCEPT !.storage = [i \in 1..Len(@) |-> IF i <= Active(b) THEN @[b.rpos + i] ELSE @[i]],
                   !.wpos = @ - b.rpos, !.rpos = 0]

(* ensureFreeSpace, without a size and with one.                           *)
EnsureSomeSpace(b) == IF Remaining(b) = 0 THEN Resize(b, (Len(b.storage) * 3) \div 2) ELSE b

EnsureFreeSpace(b, space) ==
    IF Remaining(b) < space THEN Resize(b, Len(b.storage) + space - Remaining(b)) ELSE b

(* write, and what the socket writes before writeCompleted.                *)
WriteBuffer(b, n) ==
    [b EXCEPT !.storage = [i \in 1..Len(@) |-> IF i \in (b.wpos + 1)..(b.wpos + n)
                                               THEN b.written + i - b.wpos ELSE @[i]],
              !.wpos = @ + n, !.written = @ + n]

ReadCompleted(b, n) == [b EXCEPT !.rpos = @ + n, !.taken = @ + n]

ResetBuffer(b) == [b EXCEPT !.wpos = 0, !.rpos = 0, !.taken = b.written]

-----------------------------------------------------------------------------
(* Utf8Validator, by the classes of octets: 0 is 00..7f, 1 is 80..8f, 9 is *)
(* 90..9f, 7 is a0..bf, 2 is c2..df, 10 is e0, 3 is e1..ef but for 4, ed;  *)
(* 11 is f0, 6 is f1..f3, 5 is f4 and 8 the rest.                          *)
Classes == 0..11

Lead == [c \in Classes |-> CASE c = 0 -> 0 [] c = 2 -> 2 [] c = 3 -> 3 [] c = 4 -> 5 [] c = 5 -> 8
                             [] c = 6 -> 7 [] c = 10 -> 4 [] c = 11 -> 6 [] OTHER -> 1]

(* UTF8VALIDATOR_DFA behind the classes.                                   *)
Transition(state, c) ==
    CASE state = 0 -> Lead[c]
      [] state = 2 /\ c \in {1, 7, 9} -> 0
      [] state = 3 /\ c \in {1, 7, 9} -> 2
      [] state = 4 /\ c = 7 -> 2
      [] state = 5 /\ c \in {1, 9} -> 2
      [] state = 6 /\ c \in {7, 9} -> 3
      [] state = 7 /\ c \in {1, 7, 9} -> 3
      [] state = 8 /\ c = 1 -> 3
      [] OTHER -> 1

(* validate: whether the text may go on, whether it ends between two       *)
(* characters, and where it went wrong.                                    *)
Validate(v, s) ==
    LET States == [i \in 0..Len(s) |-> FoldLeft(Transition, v.state, SubSeq(s, 1, i))]
        bad == {i \in 1..Len(s) : States[i] = 1}
        first == CHOOSE i \in bad : \A j \in bad : i <= j
    IN IF bad # {} THEN [state |-> 1, valid |-> FALSE, complete |-> FALSE, index |-> v.index + first - 1]
       ELSE [state |-> States[Len(s)], valid |-> TRUE, complete |-> States[Len(s)] = 0,
             index |-> v.index + Len(s)]

NewValidator == [state |-> 0, valid |-> TRUE, complete |-> TRUE, index |-> 0]

-----------------------------------------------------------------------------
(* The maskers: which octet of the mask each octet of the frame meets.     *)
MaskSimple(ptr, n) == [k \in 1..n |-> (ptr + k - 1) % 4]

(* The masks of a XorMaskerShifted1, one for each place to begin at.       *)
Shifted == [p \in 0..3 |-> [j \in 0..3 |-> (j + p) % 4]]
MaskShifted(ptr, n) == [k \in 1..n |-> Shifted[ptr % 4][(k - 1) % 4]]

Process(masker, ptr, n) == IF masker = "simple" THEN MaskSimple(ptr, n) ELSE MaskShifted(ptr, n)

-----------------------------------------------------------------------------
(* The samples.                                                            *)
Byte == <<"int", 1, FALSE>>
Short16 == <<"int", 2, FALSE>>

Samples ==
    <<[t |-> Byte, vs |-> <<0, Last255>>],
      [t |-> Short16, vs |-> <<1, Octet^2 - 2>>],
      [t |-> <<"int", 2, TRUE>>, vs |-> <<-1, -(Octet^2 \div 2)>>],
      [t |-> <<"bool">>, vs |-> <<TRUE, FALSE>>],
      [t |-> <<"real", 2>>, vs |-> <<Octet, Infinite(2)>>],
      [t |-> <<"blob">>, vs |-> << <<>>, <<0, 1>>, [i \in 1..Last255 |-> 1]>>],
      [t |-> <<"array", Byte, 2>>, vs |-> << <<1, 2>> >>],
      [t |-> <<"list", Short16>>, vs |-> << <<>>, [i \in 1..Last255 |-> i]>>],
      [t |-> <<"set", Byte>>, vs |-> <<{1, 2}, 0..(Last255 - 1), 0..Last255>>],
      [t |-> <<"map", <<Byte, <<"blob">> >> >>, vs |-> <<[k \in {1, 2} |-> [i \in 1..k |-> k]]>>],
      [t |-> <<"optional", <<"blob">> >>, vs |-> << <<>>, << <<1>> >> >>],
      [t |-> <<"struct", <<Short16, <<"list", Byte>> >> >>, vs |-> << <<1, <<2, 0>> >> >>]>>

Item(i) == [t |-> Samples[i[1]].t, v |-> Samples[i[1]].vs[i[2]]]
Written(i, order) == Write(Item(i).t, Item(i).v, order)

Lengths(type) ==
    IF type.prefix = 4 THEN {0, 1, Octet + 1} ELSE {0, 1} \union (Limit(type) - 1)..(Limit(type) + 1)

OctetInit ==
    octets \in [kind : {"archive"}, order : {"native", "network"}, storage : {<<>>}, pos : {0},
                raised : {FALSE}, items : {<<>>}, got : {0}, same : {TRUE}, cut : {FALSE}]
        \union [kind : {"receiver"}, order : {"native", "network"}, sent : {<<>>}, wire : {<<>>},
                type : {UInt8Receiver, UInt8ExtReceiver, UInt16Receiver, UInt16ExtReceiver, UInt32Receiver},
                unprocessed : {<<>>}, got : {<<>>}, losing : {FALSE}]
        \union [kind : {"buffer"}, storage : {<<0>>, <<0, 0>>}, wpos : {0}, rpos : {0},
                written : {0}, taken : {0}, ops : {0}]
        \union [kind : {"utf8"}, s : {<<>>}]
        \union [kind : {"mask"}, masker : {"simple", "shifted"}, used : {<<>>}]

ArchiveWrites ==
    /\ octets.kind = "archive" /\ Len(octets.items) < MaxItems /\ ~octets.cut
    /\ \E i \in 1..Len(Samples) : \E j \in 1..Len(Samples[i].vs) :
        octets' = [octets EXCEPT !.items = Append(@, <<i, j>>),
                                 !.storage = @ \o Written(<<i, j>>, octets.order)]

(* Another archive is made of the first octets of this one.                *)
ArchiveCut ==
    /\ octets.kind = "archive" /\ ~octets.cut /\ octets.pos = 0
    /\ \E n \in 0..(Len(octets.storage) - 1) :
        octets' = [octets EXCEPT !.storage = SubSeq(@, 1, n), !.cut = TRUE]

ArchiveReads ==
    /\ octets.kind = "archive" /\ ~octets.raised /\ octets.got < Len(octets.items)
    /\ LET item == Item(octets.items[octets.got + 1])
           r == ReadAny(octets, item.t, octets.order)
       IN octets' = [octets EXCEPT !.pos = r[1].pos, !.raised = r[1].raised,
                                   !.got = IF r[1].raised THEN @ ELSE @ + 1,
                                   !.same = r[1].raised \/ r[2] = item.v]

(* ignore, of the next value.                                              *)
ArchiveIgnores ==
    /\ octets.kind = "archive" /\ ~octets.raised /\ octets.got < Len(octets.items)
    /\ LET skip == Len(Written(octets.items[octets.got + 1], octets.order))
       IN octets' = IF Overflows(octets, skip) THEN ThrowError(octets)
                    ELSE [Advance(octets, skip) EXCEPT !.got = @ + 1]

Sends ==
    /\ octets.kind = "receiver" /\ Len(octets.sent) < MaxItems
    /\ \E n \in Lengths(octets.type) :
        LET m == [i \in 1..n |-> Len(octets.sent) % Octet] IN
        \E s \in SendMessage(octets.type, octets.order, m) :
            octets' = [octets EXCEPT !.sent = Append(@, m), !.wire = @ \o s]

Receives ==
    /\ octets.kind = "receiver" /\ octets.wire # <<>>
    /\ \E n \in {1, 3, Len(octets.wire)} \intersect 1..Len(octets.wire), throws \in BOOLEAN :
        octets' = ReceiveData([octets EXCEPT !.wire = SubSeq(@, n + 1, Len(@))],
                               SubSeq(octets.wire, 1, n), throws)

BufferWorks ==
    /\ octets.kind = "buffer" /\ octets.ops < 2 * MaxOctets
    /\ LET b == [octets EXCEPT !.ops = @ + 1] IN
        \/ \E n \in 1..2 : octets' = WriteBuffer(EnsureFreeSpace(b, n), n)
        \/ \E n \in 1..Remaining(b) : octets' = WriteBuffer(b, n)
        \/ \E n \in 1..Active(b) : octets' = ReadCompleted(b, n)
        \/ octets' \in {Normalize(b), EnsureSomeSpace(b), ResetBuffer(b)}

TextGoesOn ==
    /\ octets.kind = "utf8" /\ Len(octets.s) < MaxOctets
    /\ \E c \in Classes : octets' = [octets EXCEPT !.s = Append(@, c)]

FrameGoesOn ==
    /\ octets.kind = "mask" /\ Len(octets.used) < 4 * MaxOctets
    /\ \E n \in 1..6 :
        octets' = [octets EXCEPT !.used = @ \o Process(octets.masker, Len(@), n)]

OctetNext ==
    \/ ArchiveWrites \/ ArchiveCut \/ ArchiveReads \/ ArchiveIgnores
    \/ Sends \/ Receives \/ BufferWorks \/ TextGoesOn \/ FrameGoesOn

-----------------------------------------------------------------------------
(* Properties.                                                             *)

IsInfinite(item) == IF item.t[1] = "real" THEN item.v = Infinite(item.t[2]) ELSE FALSE

(* What was written into an archive is read from it, value by value; the   *)
(* archive is at an end only if it was cut, and no number is infinite.     *)
ArchiveReadsBack ==
    octets.kind = "archive" =>
        /\ octets.same
        /\ octets.raised => octets.cut \/ IsInfinite(Item(octets.items[octets.got + 1]))
        /\ ~octets.raised =>
            octets.pos = Len(FlattenSeq([i \in 1..octets.got |-> Written(octets.items[i], octets.order)]))

(* A message with the longer length in the other byte order is not         *)
(* understood, nor what is behind it.                                      *)
Garbled(r, m) == /\ r.type.long /\ r.order = "network" /\ Len(m) >= Limit(r.type)
                 /\ Reverse(Digits(Len(m), 4)) # Digits(Len(m), 4)

Understood(r) ==
    LET garbled == {i \in 1..Len(r.sent) : Garbled(r, r.sent[i])}
    IN IF garbled = {} THEN Len(r.sent) ELSE (CHOOSE i \in garbled : \A j \in garbled : i <= j) - 1

(* However the octets are cut up, and whatever a handler throws, the       *)
(* messages arrive whole, once and in order, and without an exception each *)
(* of them does.                                                           *)
MessagesArrive ==
    octets.kind = "receiver" =>
        LET n == Understood(octets)
        IN /\ IsPrefix(SubSeq(octets.got, 1, IF n < Len(octets.got) THEN n ELSE Len(octets.got)), octets.sent)
           /\ octets.wire = <<>> /\ ~octets.losing => Len(octets.got) >= n

(* A buffer that grows, shifts and empties has what was written and not    *)
(* read, and room when it was asked for.                                   *)
BufferKeeps ==
    octets.kind = "buffer" =>
        /\ octets.rpos <= octets.wpos /\ octets.wpos <= Len(octets.storage)
        /\ SubSeq(octets.storage, octets.rpos + 1, octets.wpos)
                = [i \in 1..(octets.written - octets.taken) |-> octets.taken + i]
        /\ Len(octets.storage) > 1 => Remaining(EnsureSomeSpace(octets)) > 0

(* The reference of the validator: the well-formed characters.             *)
Tails == {1, 7, 9}
Characters ==
    {<<0>>} \union {<<2, a>> : a \in Tails}
    \union {<<10, 7, b>> : b \in Tails} \union {<<3, a, b>> : a, b \in Tails}
    \union {<<4, a, b>> : a \in {1, 9}, b \in Tails}
    \union {<<11, a, b, c>> : a \in {7, 9}, b, c \in Tails}
    \union {<<6, a, b, c>> : a, b, c \in Tails} \union {<<5, 1, b, c>> : b, c \in Tails}

RECURSIVE WellFormed(_)
WellFormed(s) ==
    s = <<>> \/ \E n \in 1..4 : n <= Len(s) /\ SubSeq(s, 1, n) \in Characters
                                /\ WellFormed(SubSeq(s, n + 1, Len(s)))

Endings == UNION {[1..n -> Tails] : n \in 0..3}

(* A text is refused as soon as it cannot be well-formed, is complete when *)
(* it is, and the answer does not depend on how the text was cut.          *)
Utf8Checked ==
    octets.kind = "utf8" =>
        LET v == Validate(NewValidator, octets.s) IN
        /\ v.valid = (\E e \in Endings : WellFormed(octets.s \o e))
        /\ v.complete = WellFormed(octets.s)
        /\ \A i \in 0..Len(octets.s) :
            LET w == Validate(NewValidator, SubSeq(octets.s, 1, i))
            IN w.valid => Validate(w, SubSeq(octets.s, i + 1, Len(octets.s))) = v

(* Each octet of a frame meets its octet of the mask, whatever the pieces. *)
MasksInStep ==
    octets.kind = "mask" => \A i \in 1..Len(octets.used) : octets.used[i] = (i - 1) % 4

(* What the codecs of octets put in comes out: archives, messages, buffers,*)
(* and the text and the masks of frames.                                   *)
OctetsSurvive == ArchiveReadsBack /\ MessagesArrive /\ BufferKeeps /\ Utf8Checked /\ MasksInStep
=============================================================================
