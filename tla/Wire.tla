---------------------------------- MODULE Wire ----------------------------------
(***************************************************************************)
(* The UADP codec (wire.py) and the re-encoding of a signing relay          *)
(* (relay.py).  A datagram is a sequence of cells, what the encoder packs    *)
(* with one call: what it is, its value and its width in bytes.  The decoder *)
(* takes cells by the widths it believes in; bytes taken for something else  *)
(* than what was packed are "garbled".  A scalar's bits are one cell (a       *)
(* string with its length), a signature is a value only its key and the      *)
(* bytes it is over produce.                                                 *)
(***************************************************************************)
EXTENDS Integers, Sequences, SequencesExt

CONSTANTS
    Values,         \* the values of a scalar
    Sent,           \* what is sent: a message, the encoding of its fields, the key it is
                    \* signed with, and the options of a publisher of another make
    Receivers,      \* how a receiver may be configured: a key, and if it is required
    RelayKeys,      \* with what a relay may sign
    MaxMessages,    \* 255: the most DataSetMessages of a frame
    MaxBody,        \* 65535: the largest of several DataSetMessages
    SeqModulus,     \* 65536
    Damaged,        \* a value changed under way
    None

VARIABLES
    sent,       \* how the frame is made, and what happened to it
    receiver,   \* [key, require] of the decoding side
    frame,      \* the datagram
    pc,         \* the decoder's next section, or how it ended
    reader,     \* what the decoder carries from section to section
    message,    \* the NetworkMessage under construction
    relayed     \* None, or the message a relay decoded and encoded again

vars == <<sent, receiver, frame, pc, reader, message, relayed>>

ScalarSize == [BYTE |-> 1, DOUBLE |-> 8]
PidSize == [BYTE |-> 1, UINT16 |-> 2, UINT32 |-> 4, UINT64 |-> 8]
SignatureLength == 32

FieldValue == [type : DOMAIN ScalarSize \cup {"NULL"}, status : {"good", "bad"},
               value : Values \cup {None, Damaged} \cup Seq(Values \cup {Damaged}),
               time : Nat \cup {None}]

DataSet == [writer : Nat, sequence : Nat \cup {None}, keep_alive : BOOLEAN,
            fields : Seq(FieldValue), encoding : {"DataValue", "Variant"}]

Message == [pid : Nat, pid_type : DOMAIN PidSize, group : Nat \cup {None},
            sequence : Nat \cup {None}, messages : Seq(DataSet)]

\* What a publisher of another make sends: one message of one byte, with a number of 16
\* bits, and the second extended flags if it sets one of them.
Expressible(m, X) ==
    /\ Len(m.messages) = 1 /\ Len(m.messages[1].fields) = 1
    /\ LET d == m.messages[1]
       IN  /\ d.encoding = "DataValue" /\ d.sequence \in 0..SeqModulus - 1
           /\ d.fields[1].type = "BYTE" /\ d.fields[1].value \in Values /\ d.fields[1].time = None
    /\ X \cap {"chunk", "promoted", "discovery"} # {} => "ext2" \in X

\* None is neither a value nor an array; who requires signatures has a key (wire.py:558).
ASSUME WireConstants ==
    /\ None \notin Nat \cup Values \cup Seq(Values \cup {Damaged})
    /\ Damaged \notin Values \cup {None}
    /\ MaxMessages \in Nat /\ MaxBody \in Nat /\ SeqModulus \in Nat \ {0}
    /\ \A r \in Receivers : r.require => r.key # None
    /\ \A s \in Sent :
          /\ s \in [message : Message, datavalue : BOOLEAN, key : {s.key},
                    options : {s.options}, fate : {"whole"}]
          /\ s.options # None => Expressible(s.message, s.options)

Cell(kind, value, width) == <<[kind |-> kind, value |-> value, width |-> width]>>
If(given, cells) == IF given THEN cells ELSE <<>>
Width(cells) == FoldSeq(LAMBDA c, n : c.width + n, 0, cells)
Flag(given, name) == IF given THEN {name} ELSE {}

-----------------------------------------------------------------------------
(* The encoder. *)

Scalars(type, values) ==
    [i \in DOMAIN values |-> [kind |-> "scalar", value |-> values[i], width |-> ScalarSize[type]]]

IsArray(value) == value \notin Values \cup {None, Damaged}

Variant(f) ==
    IF f.type = "NULL" \/ f.value = None THEN Cell("variant", <<"null", "NULL">>, 1)
    ELSE IF IsArray(f.value)
    THEN Cell("variant", <<"array", f.type>>, 1)
         \o Cell("array length", Len(f.value), 4) \o Scalars(f.type, f.value)
    ELSE Cell("variant", <<"scalar", f.type>>, 1) \o Scalars(f.type, <<f.value>>)

DataValue(f) ==
    LET mask == Flag(f.type # "NULL" /\ f.value # None, "value")
                \cup Flag(f.status # "good", "status") \cup Flag(f.time # None, "time")
    IN  Cell("DataValue", mask, 1) \o If("value" \in mask, Variant(f))
        \o If("status" \in mask, Cell("status", f.status, 4))
        \o If("time" \in mask, Cell("time", f.time, 8))

\* Faulty: a relay encodes every field as a Variant.
UseDataValueOnRequest(d, datavalue) == datavalue = TRUE

\* datavalue is None where a relay keeps the encoding a message came in.
UseDataValue(d, datavalue) ==
    IF datavalue = None THEN d.encoding = "DataValue" ELSE datavalue

DataSetMessage(d, datavalue) ==
    LET dv == UseDataValue(d, datavalue)
    IN  IF d.keep_alive
        THEN Cell("flags1", {"flags2"}, 1) \o Cell("flags2", {"keep alive"}, 1)
        ELSE Cell("flags1", {IF dv THEN "DataValue" ELSE "Variant"}
                            \cup Flag(d.sequence # None, "sequence"), 1)
             \o If(d.sequence # None, Cell("sequence", d.sequence % SeqModulus, 2))
             \o Cell("field count", Len(d.fields), 2)
             \o FlattenSeq([i \in DOMAIN d.fields |->
                    IF dv THEN DataValue(d.fields[i]) ELSE Variant(d.fields[i])])

Bodies(m, datavalue) == [i \in DOMAIN m.messages |-> DataSetMessage(m.messages[i], datavalue)]

\* encode_network_message raises WireError.
Unencodable(m, datavalue) ==
    \/ Len(m.messages) \notin 1..MaxMessages
    \/ Len(m.messages) > 1 /\ \E b \in Range(Bodies(m, datavalue)) : Width(b) > MaxBody

Signed(cells, key) ==
    cells \o If(key # None,
                Cell("signature", [key |-> key, over |-> cells], SignatureLength))

GroupHeader(m) ==
    LET flags == Flag(m.group # None, "group") \cup Flag(m.sequence # None, "group sequence")
    IN  If(flags # {}, Cell("group flags", flags, 1)
            \o If(m.group # None, Cell("group", m.group, 2))
            \o If(m.sequence # None, Cell("group sequence", m.sequence % SeqModulus, 2)))

Encode(m, datavalue, key) ==
    LET extended == m.pid_type # "BYTE" \/ key # None
        bodies == Bodies(m, datavalue)
        sizes == [i \in DOMAIN bodies |->
                    [kind |-> "size", value |-> Width(bodies[i]), width |-> 2]]
    IN  Signed(
           Cell("flags", {"publisher id", "payload header"} \cup Flag(extended, "extended")
                         \cup Flag(m.group # None \/ m.sequence # None, "group header"), 1)
           \o If(extended, Cell("ext1", {m.pid_type} \cup Flag(key # None, "security"), 1))
           \o Cell("publisher id", m.pid, PidSize[m.pid_type])
           \o GroupHeader(m)
           \o Cell("count", Len(m.messages), 1)
           \o [i \in DOMAIN m.messages |->
                 [kind |-> "writer id", value |-> m.messages[i].writer, width |-> 2]]
           \o If(key # None, Cell("security flags", {"signed"}, 1) \o Cell("token", 1, 4)
                             \o Cell("nonce length", 8, 1) \o Cell("nonce", None, 8))
           \o If(Len(bodies) > 1, sizes)
           \o FlattenSeq(bodies), key)

-----------------------------------------------------------------------------
(* A publisher of another make: it may leave out the publisher id and the     *)
(* payload header and write the optional sections hypernova never does, which *)
(* the decoder skips, or those it refuses.  X names them.                     *)

ForeignBody(d, X) ==
    Cell("flags1", {"flags2", "sequence", IF "raw" \in X THEN "raw" ELSE "DataValue"}
                   \cup (X \cap {"status", "major", "minor"}), 1)
    \o Cell("flags2", X \cap {"keep alive", "delta", "timestamp", "picoseconds"}, 1)
    \o Cell("sequence", d.sequence, 2)
    \o If("timestamp" \in X, Cell("timestamp", None, 8))
    \o If("picoseconds" \in X, Cell("picoseconds", None, 2))
    \o If("status" \in X, Cell("message status", None, 2))
    \o If("major" \in X, Cell("major", None, 4)) \o If("minor" \in X, Cell("minor", None, 4))
    \o If(X \cap {"keep alive"} = {}, Cell("field count", 1, 2)
          \o Cell("DataValue", {"value", "status", "server time", "picoseconds"}, 1)
          \o Cell("variant", <<IF "matrix" \in X THEN "matrix" ELSE "scalar", "BYTE">>, 1)
          \o Scalars("BYTE", <<d.fields[1].value>>) \o Cell("status", d.fields[1].status, 4)
          \o Cell("server time", None, 8) \o Cell("picoseconds", None, 2))

Foreign(m, key, X) ==
    LET ext1 == {m.pid_type} \cup (X \cap {"class id", "frame time", "frame picoseconds", "ext2"})
                \cup Flag(key # None, "security")
        ext2 == X \cap {"chunk", "promoted", "discovery"}
    IN  Signed(
           Cell("flags", {"extended", "group header"}
                         \cup (X \cap {"publisher id", "payload header"}), 1)
           \o Cell("ext1", ext1, 1) \o If("ext2" \in X, Cell("ext2", ext2, 1))
           \o If("publisher id" \in X, Cell("publisher id", m.pid, PidSize[m.pid_type]))
           \o If("class id" \in X, Cell("class id", None, 16))
           \o Cell("group flags", {"group", "group version", "number"}, 1)
           \o Cell("group", m.group, 2) \o Cell("group version", None, 4)
           \o Cell("number", None, 2)
           \o If("payload header" \in X, Cell("count", 1, 1)
                                         \o Cell("writer id", m.messages[1].writer, 2))
           \o If("frame time" \in X, Cell("frame time", None, 8))
           \o If("frame picoseconds" \in X, Cell("frame picoseconds", None, 2))
           \o If("promoted" \in X, Cell("promoted size", 3, 2) \o Cell("promoted", None, 3))
           \o If(key # None, Cell("security flags", {"signed", "footer"}
                                                    \cup (X \cap {"encrypted"}), 1)
                             \o Cell("token", 7, 4) \o Cell("nonce length", 1, 1)
                             \o Cell("nonce", None, 1) \o Cell("footer size", None, 2))
           \o ForeignBody(m.messages[1], X), key)

Sends ==
    /\ pc = "send"
    /\ IF sent.options = None /\ Unencodable(sent.message, sent.datavalue)
       THEN /\ pc' = "refused"
            /\ UNCHANGED frame
       ELSE /\ frame' = IF sent.options = None
                        THEN Encode(sent.message, sent.datavalue, sent.key)
                        ELSE Foreign(sent.message, sent.key, sent.options)
            /\ pc' = "under way"
    /\ UNCHANGED <<sent, receiver, reader, message, relayed>>

\* Faulty: a frame that names no publisher has no publisher id.
BlankWithoutId == [pid |-> None, pid_type |-> "BYTE", group |-> None, sequence |-> None,
          messages |-> <<>>, signed |-> FALSE, verified |-> None, token |-> 0]

Blank == [pid |-> 0, pid_type |-> "BYTE", group |-> None, sequence |-> None,
          messages |-> <<>>, signed |-> FALSE, verified |-> None, token |-> 0]

\* The datagram arrives as it was sent, cut short, or with a scalar changed.
Arrive ==
    LET n == Len(frame)
    IN  /\ pc = "under way"
        /\ \/ /\ UNCHANGED frame
              /\ UNCHANGED sent
           \/ /\ \E k \in 0..n - 1 : frame' = SubSeq(frame, 1, k)
              /\ sent' = [sent EXCEPT !.fate = "cut"]
           \/ /\ \E i \in 1..n : frame[i].kind = "scalar" /\ frame[i].value # Damaged
                                 /\ frame' = [frame EXCEPT ![i].value = Damaged]
              /\ sent' = [sent EXCEPT !.fate = "damaged"]
        /\ pc' = "header"
        /\ reader' = [pos |-> 0, end |-> Width(frame'), on |-> {}, count |-> 1,
                      writers |-> <<>>, left |-> 0]
        /\ message' = Blank
        /\ UNCHANGED <<receiver, relayed>>

-----------------------------------------------------------------------------
(* The decoder, one action per section.  want is what the section takes:     *)
(* pairs of what and how wide.                                               *)

Next1(kind) == reader.pos < Len(frame) /\ frame[reader.pos + 1].kind = kind

\* The flags the section starts with.
FlagsOf(kind) == IF Next1(kind) THEN frame[reader.pos + 1].value ELSE {}

AsTaken(want, i) ==
    /\ frame[reader.pos + i].kind = want[i][1]
    /\ frame[reader.pos + i].width = want[i][2]

There(n) == /\ reader.pos + n <= Len(frame)
            /\ Width(SubSeq(frame, 1, reader.pos + n)) <= reader.end

Taken(want) == There(Len(want)) /\ \A i \in DOMAIN want : AsTaken(want, i)

Garbled(want) == \E i \in DOMAIN want : There(i) /\ ~AsTaken(want, i)

\* What the section read for a kind it takes at most once.
Got(want, kind, default) ==
    IF \E i \in DOMAIN want : want[i][1] = kind
    THEN frame[reader.pos + (CHOOSE i \in DOMAIN want : want[i][1] = kind)].value
    ELSE default

Pass(want) == [reader EXCEPT !.pos = @ + Len(want)]

\* A WireError, unless the section is read as it was written and supported.
Fails(want, supported) ==
    /\ ~(Taken(want) /\ supported)
    /\ pc' = IF Garbled(want) THEN "garbled" ELSE "rejected"
    /\ UNCHANGED <<sent, receiver, frame, reader, message, relayed>>

Goes(want, supported, next) ==
    /\ Taken(want) /\ supported
    /\ pc' = next
    /\ UNCHANGED <<sent, receiver, frame, relayed>>

DecodeFlags ==
    LET flags == FlagsOf("flags")
        ext1 == IF "extended" \in flags /\ There(2) THEN frame[reader.pos + 2].value ELSE {}
        ext2 == IF "ext2" \in ext1 /\ There(3) THEN frame[reader.pos + 3].value ELSE {}
        want == <<<<"flags", 1>>>> \o If("extended" \in flags, <<<<"ext1", 1>>>>)
                \o If("ext2" \in ext1, <<<<"ext2", 1>>>>)
        supported == ext2 \cap {"chunk", "discovery"} = {}
    IN  /\ pc = "header"
        /\ \/ Fails(want, supported)
           \/ /\ Goes(want, supported, "publisher id")
              /\ reader' = [Pass(want) EXCEPT !.on = flags \cup ext1 \cup ext2]
              /\ message' = [message EXCEPT !.pid_type =
                    IF ext1 \cap DOMAIN PidSize = {} THEN "BYTE"
                    ELSE CHOOSE t \in ext1 : t \in DOMAIN PidSize]

DecodePublisherId ==
    LET want == If("publisher id" \in reader.on,
                   <<<<"publisher id", PidSize[message.pid_type]>>>>)
                \o If("class id" \in reader.on, <<<<"class id", 16>>>>)
    IN  /\ pc = "publisher id"
        /\ \/ Fails(want, TRUE)
           \/ /\ Goes(want, TRUE, "group header")
              /\ reader' = Pass(want)
              /\ message' = [message EXCEPT !.pid = Got(want, "publisher id", @)]

DecodeGroupHeader ==
    LET flags == FlagsOf("group flags")
        want == If("group header" \in reader.on,
                   <<<<"group flags", 1>>>> \o If("group" \in flags, <<<<"group", 2>>>>)
                   \o If("group version" \in flags, <<<<"group version", 4>>>>)
                   \o If("number" \in flags, <<<<"number", 2>>>>)
                   \o If("group sequence" \in flags, <<<<"group sequence", 2>>>>))
    IN  /\ pc = "group header"
        /\ \/ Fails(want, TRUE)
           \/ /\ Goes(want, TRUE, "payload header")
              /\ reader' = Pass(want)
              /\ message' = [message EXCEPT !.group = Got(want, "group", None),
                                            !.sequence = Got(want, "group sequence", None)]

DecodePayloadHeader ==
    LET has == "payload header" \in reader.on
        count == IF has /\ Next1("count") THEN frame[reader.pos + 1].value ELSE 1
        want == If(has, <<<<"count", 1>>>> \o [i \in 1..count |-> <<"writer id", 2>>])
    IN  /\ pc = "payload header"
        /\ \/ Fails(want, count > 0)
           \/ /\ Goes(want, count > 0, "times")
              /\ reader' = [Pass(want) EXCEPT !.count = count, !.writers =
                    [i \in 1..(IF has THEN count ELSE 0) |-> frame[reader.pos + 1 + i].value]]
              /\ UNCHANGED message

DecodeTimes ==
    LET before == If("frame time" \in reader.on, <<<<"frame time", 8>>>>)
                  \o If("frame picoseconds" \in reader.on, <<<<"frame picoseconds", 2>>>>)
        promoted == "promoted" \in reader.on
        size == IF promoted /\ There(Len(before) + 1)
                THEN frame[reader.pos + Len(before) + 1].value ELSE 0
        want == before \o If(promoted, <<<<"promoted size", 2>>, <<"promoted", size>>>>)
    IN  /\ pc = "times"
        /\ \/ Fails(want, TRUE)
           \/ /\ Goes(want, TRUE, "security")
              /\ reader' = Pass(want)
              /\ UNCHANGED message

SecurityHeader ==
    LET nonce == IF There(3) THEN frame[reader.pos + 3].value ELSE 0
    IN  If("security" \in reader.on,
           <<<<"security flags", 1>>, <<"token", 4>>, <<"nonce length", 1>>, <<"nonce", nonce>>>>
           \o If("footer" \in FlagsOf("security flags"), <<<<"footer size", 2>>>>))

\* The last bytes are what the key makes of the bytes before them.
Verified(key) ==
    LET n == Len(frame)
    IN  /\ frame[n].kind = "signature"
        /\ frame[n].value = [key |-> key, over |-> SubSeq(frame, 1, n - 1)]

\* Faulty: a frame without a signature passes whatever is required.
SignatureHoldsIfThere(verified) ==
    "security" \in reader.on /\ receiver.key # None => verified

\* The signature of a signed frame is right if there is a key to check it with, and
\* a frame that must be verified is.
SignatureHolds(verified) ==
    /\ "security" \in reader.on /\ receiver.key # None => verified
    /\ receiver.require => verified

\* Faulty: payload reads may run into the signature.
EndOfPayloadFrame == reader.end

EndOfPayload ==
    reader.end - (IF "security" \in reader.on THEN SignatureLength ELSE 0)

DecodeSecurity ==
    LET want == SecurityHeader
        security == "security" \in reader.on
        verified == security /\ receiver.key # None /\ Verified(receiver.key)
        supported ==
            /\ security => /\ "signed" \in FlagsOf("security flags")
                           /\ "encrypted" \notin FlagsOf("security flags")
                           /\ Width(SubSeq(frame, 1, reader.pos + Len(want))) <= EndOfPayload
            /\ SignatureHolds(verified)
    IN  /\ pc = "security"
        /\ \/ Fails(want, supported)
           \/ /\ Goes(want, supported, "sizes")
              /\ reader' = [Pass(want) EXCEPT !.end = EndOfPayload]
              /\ message' = [message EXCEPT !.signed = security,
                    !.token = Got(want, "token", 0), !.verified = IF verified THEN TRUE ELSE None]

DecodeSizes ==
    LET want == If("payload header" \in reader.on /\ reader.count > 1,
                   [i \in 1..reader.count |-> <<"size", 2>>])
    IN  /\ pc = "sizes"
        /\ \/ Fails(want, TRUE)
           \/ /\ Goes(want, TRUE, "message")
              /\ reader' = Pass(want)
              /\ UNCHANGED message

\* After the last field of the last message.
After(messages, left) ==
    IF left > 0 THEN "field" ELSE IF messages < reader.count THEN "message" ELSE "decoded"

DecodeMessage ==
    LET flags1 == FlagsOf("flags1")
        flags2 == IF "flags2" \in flags1 /\ There(2) THEN frame[reader.pos + 2].value ELSE {}
        keep_alive == "keep alive" \in flags2
        want == <<<<"flags1", 1>>>> \o If("flags2" \in flags1, <<<<"flags2", 1>>>>)
                \o If("sequence" \in flags1, <<<<"sequence", 2>>>>)
                \o If("timestamp" \in flags2, <<<<"timestamp", 8>>>>)
                \o If("picoseconds" \in flags2, <<<<"picoseconds", 2>>>>)
                \o If("status" \in flags1, <<<<"message status", 2>>>>)
                \o If("major" \in flags1, <<<<"major", 4>>>>)
                \o If("minor" \in flags1, <<<<"minor", 4>>>>)
                \o If(~keep_alive, <<<<"field count", 2>>>>)
        supported == keep_alive \/ ("delta" \notin flags2 /\ "raw" \notin flags1)
        count == Got(want, "field count", 0)
        n == Len(message.messages) + 1
    IN  /\ pc = "message"
        /\ \/ Fails(want, supported)
           \/ /\ Goes(want, supported, After(n, count))
              /\ reader' = [Pass(want) EXCEPT !.left = count]
              /\ message' = [message EXCEPT !.messages = Append(@,
                   [writer |-> IF reader.writers = <<>> THEN 0 ELSE reader.writers[n],
                    sequence |-> Got(want, "sequence", None),
                    keep_alive |-> keep_alive, fields |-> <<>>,
                    encoding |-> IF keep_alive \/ "DataValue" \in flags1 THEN "DataValue"
                                 ELSE "Variant"])]

DecodeField ==
    LET n == Len(message.messages)
        datavalue == message.messages[n].encoding = "DataValue"
        mask == IF datavalue THEN FlagsOf("DataValue") ELSE {"value"}
        at == IF datavalue THEN 2 ELSE 1
        variant == IF "value" \in mask /\ There(at) THEN frame[reader.pos + at].value
                   ELSE <<"null", "NULL">>
        array == variant[1] = "array"
        length == There(at + 1) /\ frame[reader.pos + at + 1].kind = "array length"
        count == CASE variant[1] = "null" -> 0
                   [] array -> IF length THEN frame[reader.pos + at + 1].value ELSE 0
                   [] OTHER -> 1
        first == at + (IF array THEN 1 ELSE 0)
        want == If(datavalue, <<<<"DataValue", 1>>>>)
                \o If("value" \in mask, <<<<"variant", 1>>>>)
                \o If(array, <<<<"array length", 4>>>>)
                \o [i \in 1..count |-> <<"scalar", ScalarSize[variant[2]]>>]
                \o If("status" \in mask, <<<<"status", 4>>>>)
                \o If("time" \in mask, <<<<"time", 8>>>>)
                \o If("server time" \in mask, <<<<"server time", 8>>>>)
                \o If("picoseconds" \in mask, <<<<"picoseconds", 2>>>>)
        values == [i \in 1..count |-> frame[reader.pos + first + i].value]
    IN  /\ pc = "field"
        /\ \/ Fails(want, variant[1] # "matrix")
           \/ /\ Goes(want, variant[1] # "matrix", After(n, reader.left - 1))
              /\ reader' = [Pass(want) EXCEPT !.left = @ - 1]
              /\ message' = [message EXCEPT !.messages[n].fields = Append(@,
                   [type |-> variant[2],
                    value |-> CASE array -> values [] variant[1] = "null" -> None [] OTHER -> values[1],
                    status |-> Got(want, "status", "good"),
                    time |-> Got(want, "time", None)])]

-----------------------------------------------------------------------------
(* A signing relay encodes what it decoded, which it required to be signed   *)
(* if it has a key to verify with; another receiver is next.                 *)

Relay ==
    /\ pc = "decoded" /\ relayed = None
    /\ receiver.require = (receiver.key # None)
    /\ sent' \in [message : {message}, datavalue : {None}, key : RelayKeys, options : {None},
                  fate : {"whole"}]
    /\ receiver' \in Receivers
    /\ relayed' = message
    /\ pc' = "send"
    /\ UNCHANGED <<frame, reader, message>>

Init ==
    /\ sent \in Sent
    /\ receiver \in Receivers
    /\ frame = <<>>
    /\ pc = "send"
    /\ reader = [pos |-> 0, end |-> 0, on |-> {}, count |-> 1, writers |-> <<>>, left |-> 0]
    /\ message = Blank
    /\ relayed = None

Next ==
    \/ Sends \/ Arrive
    \/ DecodeFlags \/ DecodePublisherId \/ DecodeGroupHeader \/ DecodePayloadHeader
    \/ DecodeTimes \/ DecodeSecurity \/ DecodeSizes \/ DecodeMessage \/ DecodeField
    \/ Relay

Spec == Init /\ [][Next]_vars

-----------------------------------------------------------------------------
(* Properties. *)

Sections == {"header", "publisher id", "group header", "payload header", "times", "security",
             "sizes", "message", "field"}

Ends == {"decoded", "rejected", "garbled"}

TypeOK ==
    /\ pc \in Sections \cup Ends \cup {"send", "refused", "under way"}
    /\ receiver \in Receivers
    /\ pc \in Sections \cup Ends => reader.pos \in 0..Len(frame)
    /\ reader.left \in Nat /\ reader.end \in Nat
    /\ message.pid \in Nat /\ message.pid_type \in DOMAIN PidSize
    /\ Len(message.messages) <= reader.count
    /\ \A i \in DOMAIN message.messages :
          Range(message.messages[i].fields) \subseteq FieldValue

\* The field as the encoding carries it: a Variant has no status and no time, and a
\* null no type.
FieldCarried(f, dv) ==
    LET null == f.type = "NULL" \/ f.value = None
    IN  [type |-> IF null THEN "NULL" ELSE f.type, value |-> IF null THEN None ELSE f.value,
         status |-> IF dv THEN f.status ELSE "good", time |-> IF dv THEN f.time ELSE None]

\* A keep-alive carries nothing, a sequence number its 16 bits.
MessageCarried(d, datavalue) ==
    LET dv == IF datavalue = None THEN d.encoding = "DataValue" ELSE datavalue
    IN  IF d.keep_alive
        THEN [d EXCEPT !.sequence = None, !.fields = <<>>, !.encoding = "DataValue"]
        ELSE [d EXCEPT !.sequence = IF @ = None THEN None ELSE @ % SeqModulus,
                       !.fields = [i \in DOMAIN @ |-> FieldCarried(@[i], dv)],
                       !.encoding = IF dv THEN "DataValue" ELSE "Variant"]

\* So does one of a publisher of another make.
ForeignCarried(d, X) ==
    [d EXCEPT !.writer = IF "payload header" \in X THEN @ ELSE 0,
              !.keep_alive = "keep alive" \in X,
              !.fields = IF "keep alive" \in X THEN <<>> ELSE @]

\* What the receiver should make of a frame that reaches it whole.
Carried(s) ==
    LET X == s.options
        own == X = None
        m == s.message
    IN  [pid |-> IF own \/ "publisher id" \in X THEN m.pid ELSE 0, pid_type |-> m.pid_type,
         group |-> m.group,
         sequence |-> IF own /\ m.sequence # None THEN m.sequence % SeqModulus ELSE None,
         messages |-> [i \in DOMAIN m.messages |->
                          IF own THEN MessageCarried(m.messages[i], s.datavalue)
                          ELSE ForeignCarried(m.messages[i], X)],
         signed |-> s.key # None,
         verified |-> IF s.key # None /\ receiver.key # None THEN TRUE ELSE None,
         token |-> IF s.key = None THEN 0 ELSE IF own THEN 1 ELSE 7]

\* What the decoder does not support: of a keep-alive it reads no payload.
Unsupported(X) ==
    {"chunk", "discovery", "encrypted"}
    \cup (IF "keep alive" \in X THEN {} ELSE {"delta", "raw", "matrix"})

Welcome(s) ==
    /\ s.options # None =>
          s.options \cap Unsupported(s.options)
             \subseteq (IF s.key = None THEN {"encrypted"} ELSE {})
    /\ s.key # None /\ receiver.key # None => s.key = receiver.key
    /\ receiver.require => s.key = receiver.key

\* A frame that arrives whole is decoded to what it carries, every section read where
\* it was written, optional headers of other publishers skipped, unless it is one the
\* decoder does not support or must not trust: then it is rejected (wire.py:559-655).
\* So is one cut anywhere, signed or not, with a key or without: what is missing is
\* never read from the signature (tests/test_wire.py:69, :213).
RoundTrip ==
    pc \in Ends /\ sent.fate # "damaged" =>
        IF sent.fate = "whole" /\ Welcome(sent)
        THEN pc = "decoded" /\ message = Carried(sent)
        ELSE pc = "rejected"

\* Who requires signatures takes only frames signed with its key and not changed since,
\* be it by the publisher or by a relay, and only these are marked as verified for a
\* receiver that takes others too (wire.py:639-645, relay.py:105-107).
OnlyVerified ==
    pc = "decoded" /\ (receiver.require \/ message.verified # None) =>
        sent.key = receiver.key /\ sent.fate = "whole"

Data(m) ==
    [pid |-> m.pid, pid_type |-> m.pid_type, group |-> m.group, sequence |-> m.sequence,
     messages |-> [i \in DOMAIN m.messages |->
        IF m.messages[i].keep_alive THEN [m.messages[i] EXCEPT !.sequence = None]
        ELSE m.messages[i]]]

\* Behind a relay that signs, a receiver that accepts the relay's frame sees what the
\* relay decoded: values, status, times, encodings and keep-alives (relay.py:108-111);
\* only a keep-alive's sequence number does not pass.
RelayKeeps ==
    relayed # None /\ pc = "decoded" /\ sent.fate = "whole" => Data(message) = Data(relayed)

=============================================================================
