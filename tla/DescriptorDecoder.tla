------------------------- MODULE DescriptorDecoder -------------------------
(***************************************************************************)
(* The reader of serialized file descriptors                               *)
(* (src/core/grpcDescriptorDecoder.ts): from bytes in the protobuf wire    *)
(* format to the packages, messages and services that the index keeps.     *)
(*                                                                         *)
(* A byte is a number, a text a sequence of ASCII bytes, a dotted name the *)
(* sequence of its parts.  Whatever throws gives a result that is not ok.  *)
(***************************************************************************)
EXTENDS Naturals, Sequences, SequencesExt, TLC

Bytes == Seq(0..255)

Dot == 46

\* ------------------------------------------------------------------------
\* WireReader.

\* The number of n digits of 7 bits, least significant first.
Number(b, i, n) ==
  FoldRight(LAMBDA byte, value : value * 128 + (byte % 128),
            SubSeq(b, i, i + n - 1), 0)

Invalid == [ok |-> FALSE]

\* readVarint: 28 bits in four bytes, and four more in a fifth, whose other
\* bits are lost.  A sixth byte may only be zero.
VarintEnding(b, i, last) ==
  LET n == last - i + 1
  IN [ok |-> n < 6 \/ b[last] = 0,
      low |-> Number(b, i, IF n < 4 THEN n ELSE 4),
      high |-> IF n < 5 THEN 0 ELSE b[i + 4] % 16,
      next |-> last + 1]

Varint(b, i) ==
  LET ends == {k \in i..(i + 5) : k <= Len(b) /\ b[k] < 128}
  IN IF ends = {} THEN Invalid ELSE VarintEnding(b, i, Min(ends))

\* The value of a field of some wire type, what readVarint, readBytes or
\* skipField make of it, and where the next field starts; v is the varint at
\* its first byte, which is its value, its length or nothing of the kind.
Payload(b, i, wire, v) ==
  LET Upto(next, flag, data) ==
        IF next > Len(b) + 1 THEN Invalid
        ELSE [ok |-> TRUE, flag |-> flag, data |-> data, next |-> next]
  IN CASE wire = 0 /\ v.ok -> Upto(v.next, v.low > 0 \/ v.high > 0, <<>>)
       [] wire = 1 -> Upto(i + 8, FALSE, <<>>)
       [] wire = 2 /\ v.ok /\ v.high = 0 ->
            Upto(v.next + v.low, FALSE,
                 SubSeq(b, v.next, v.next + v.low - 1))
       [] wire = 5 -> Upto(i + 4, FALSE, <<>>)
       [] OTHER -> Invalid

\* The field with a tag: its number, which is 0 for one that no message has.
Field(b, tag) ==
  LET wire == tag.low % 8
  IN IF ~tag.ok THEN Invalid
     ELSE [number |-> IF tag.high = 0 THEN tag.low \div 8 ELSE 0,
           wire |-> wire]
            @@ Payload(b, tag.next, wire, Varint(b, tag.next))

\* The fields of a message, if all of it can be read.
Fields(b) ==
  LET Before(field, rest) ==
        IF rest.ok THEN [rest EXCEPT !.list = <<field>> \o @] ELSE Invalid
      Then(field, rest) ==
        IF field.ok THEN Before(field, rest[field.next]) ELSE Invalid
      from[i \in 1..(Len(b) + 1)] ==
        IF i > Len(b) THEN [ok |-> TRUE, list |-> <<>>]
        ELSE Then(Field(b, Varint(b, i)), from)
  IN from[1]

\* The fields, if those that are read for their value have the wire types
\* that are expected of them; all others are skipped.
IfExpected(read, wires) ==
  IF read.ok /\ \A f \in Range(read.list) :
                  f.number \in DOMAIN wires => f.wire = wires[f.number]
  THEN read ELSE Invalid

Expected(b, wires) == IfExpected(Fields(b), wires)

Occurrences(list, number) == SelectSeq(list, LAMBDA f : f.number = number)

\* Faulty variant: the first occurrence of a field counts.
FirstOf(list, number, default) ==
  IF Occurrences(list, number) = <<>> THEN default
  ELSE Head(Occurrences(list, number))

\* The last occurrence of a field counts.
LastOf(list, number, default) ==
  IF Occurrences(list, number) = <<>> THEN default
  ELSE Last(Occurrences(list, number))

TextOf(list, number) == LastOf(list, number, [data |-> <<>>]).data
FlagOf(list, number) == LastOf(list, number, [flag |-> FALSE]).flag

\* ------------------------------------------------------------------------
\* Names.

Parts(text) ==
  LET step == FoldLeft(LAMBDA acc, c : IF c = Dot
                                       THEN Append(acc, <<>>)
                                       ELSE [acc EXCEPT ![Len(acc)] =
                                               Append(@, c)],
                       <<<<>>>>, text)
  IN IF text = <<>> THEN <<>> ELSE step

\* The name of a type: absolute with a leading dot.
Reference(text) ==
  IF text # <<>> /\ Head(text) = Dot
  THEN [absolute |-> TRUE, path |-> Parts(Tail(text))]
  ELSE [absolute |-> FALSE, path |-> Parts(text)]

\* ------------------------------------------------------------------------
\* The messages of descriptor.proto.  What the schema refuses, an empty name,
\* is refused with them.

\* Faulty variant: to have options is to be deprecated.
DeprecatedIfAny(b) == [ok |-> Fields(b).ok, value |-> TRUE]

\* decodeOptionsDeprecated
DeprecatedIn(read) ==
  [ok |-> read.ok, value |-> read.ok /\ FlagOf(read.list, 33)]

Deprecated(b) == DeprecatedIn(Expected(b, [n \in {33} |-> 0]))

\* Each options message counts, and the last of them decides.
LastDeprecated(each) ==
  [ok |-> \A i \in DOMAIN each : each[i].ok,
   value |-> each # <<>> /\ Last(each).value]

\* What a decoder makes of each occurrence of a field.
Each(read, number, Decoder(_)) ==
  LET fields == IF read.ok THEN Occurrences(read.list, number) ELSE <<>>
  IN [i \in DOMAIN fields |-> Decoder(fields[i].data)]

\* decodeMethodDescriptor
MethodWith(read, options) ==
  LET texts == [n \in 1..3 |-> TextOf(read.list, n)]
  IN IF ~read.ok \/ ~options.ok \/ <<>> \in Range(texts) THEN Invalid
     ELSE [ok |-> TRUE, value |->
             [name |-> texts[1], input |-> Reference(texts[2]),
              output |-> Reference(texts[3]),
              streaming |-> FlagOf(read.list, 5) \/ FlagOf(read.list, 6),
              deprecated |-> options.value]]

MethodIn(read) ==
  MethodWith(read, LastDeprecated(Each(read, 4, Deprecated)))

Method(b) ==
  MethodIn(Expected(b, [n \in 1..6 |-> IF n < 5 THEN 2 ELSE 0]))

\* decodeServiceDescriptor
ServiceWith(read, methods, options) ==
  LET name == TextOf(read.list, 1)
  IN IF ~read.ok \/ name = <<>> \/ ~options.ok
        \/ \E i \in DOMAIN methods : ~methods[i].ok THEN Invalid
     ELSE [ok |-> TRUE, name |-> name, value |->
             [methods |-> [i \in DOMAIN methods |-> methods[i].value],
              deprecated |-> options.value]]

ServiceIn(read) ==
  ServiceWith(read, Each(read, 2, Method),
              LastDeprecated(Each(read, 3, Deprecated)))

Service(b) == ServiceIn(Expected(b, <<2, 2, 2>>))

\* decodeMessageDescriptor: the names of a message and of all in it.
MessageWith(read, nested) ==
  LET name == TextOf(read.list, 1)
  IN IF ~read.ok \/ name = <<>> \/ \E c \in nested : ~c.ok THEN Invalid
     ELSE [ok |-> TRUE, names |->
             {<<name>>} \cup {<<name>> \o p :
                                p \in UNION {c.names : c \in nested}}]

Message(b) ==
  LET From(read, inner) ==
        MessageWith(read, {inner[f.data] :
                             f \in Range(Occurrences(read.list, 3))})
      tree[m \in Bytes] == From(Expected(m, [n \in {1, 3} |-> 2]), tree)
  IN tree[b]

\* decodeFileDescriptorRaw: of two services of one name the later one counts.
RawFileWith(read, messages, services) ==
  LET At(s) == Max({i \in DOMAIN services : services[i].name = s})
  IN IF ~read.ok \/ \E r \in Range(messages \o services) : ~r.ok THEN Invalid
     ELSE [ok |-> TRUE, name |-> TextOf(read.list, 1), file |->
             [package |-> Parts(TextOf(read.list, 2)),
              messages |-> UNION {m.names : m \in Range(messages)},
              services |-> [s \in {<<r.name>> : r \in Range(services)} |->
                              services[At(s[1])].value]]]

RawFileIn(read) ==
  RawFileWith(read, Each(read, 4, Message), Each(read, 6, Service))

RawFile(b) == RawFileIn(Expected(b, [n \in {1, 2, 4, 6} |-> 2]))

\* decodeFileDescriptorProto: the file's own name, or else the one it was
\* sent under, and no file without a name.
Named(raw, fallbackName) ==
  LET name == IF raw.name = <<>> THEN fallbackName ELSE raw.name
  IN IF ~raw.ok \/ name = <<>> THEN Invalid ELSE [raw EXCEPT !.name = name]

FileDescriptor(b, fallbackName) == Named(RawFile(b), fallbackName)
=============================================================================
