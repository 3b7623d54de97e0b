--------------------------- MODULE RoundTripProofs ---------------------------
(***************************************************************************)
(* That the decoder undoes what the encoder wrote: a frame of any length   *)
(* that arrives whole is decoded to what it carries or rejected as it      *)
(* should be, and one that is cut is rejected.  The invariant follows the  *)
(* decoder through the parts of the frame.  And what a relay keeps of a    *)
(* message it decodes and encodes again.                                   *)
(***************************************************************************)
EXTENDS WireProofs

-----------------------------------------------------------------------------
(* How far a frame that was not damaged is read, and what has been made of it. *)

\* How a frame is made, whatever happens to it.
Origin == [message |-> sent.message, datavalue |-> sent.datavalue, key |-> sent.key,
           options |-> sent.options]

Full(s) == Signed(Body(s), s.key)

\* What a field, and a message, should be decoded to.
FieldOf(s, n, j) ==
    [type |-> Shape(s, n, j)[2],
     value |-> CASE Shape(s, n, j)[1] = "array" -> Scalar(s, n, j)
                 [] Shape(s, n, j)[1] = "null" -> None [] OTHER -> Scalar(s, n, j)[1],
     status |-> IF "status" \in Mask(s, n, j) THEN FieldAt(s, n, j).status ELSE "good",
     time |-> IF "time" \in Mask(s, n, j) THEN FieldAt(s, n, j).time ELSE None]

MessageOf(s, n, fields) ==
    [writer |-> IF "payload header" \in On(s) THEN s.message.messages[n].writer ELSE 0,
     sequence |-> IF "sequence" \in Flags1(s, n) THEN Number(s, n) ELSE None,
     keep_alive |-> Quiet(s, n),
     fields |-> fields,
     encoding |-> IF Quiet(s, n) \/ "DataValue" \in Flags1(s, n) THEN "DataValue" ELSE "Variant"]

FieldsOf(s, n, count) == [j \in 1..count |-> FieldOf(s, n, j)]

MessagesOf(s, count) == [n \in 1..count |-> MessageOf(s, n, FieldsOf(s, n, Fields(s, n)))]

\* What the decoder supports of it, section by section.
HeaderTaken(s) == Ext2(s) \cap {"chunk", "discovery"} = {}

SecurityTaken(s, r) ==
    /\ s.key # None => "encrypted" \notin SecurityFlags(s)
    /\ s.key # None /\ r.key # None => s.key = r.key
    /\ r.require => s.key = r.key

MessageTaken(s, n) ==
    Quiet(s, n) \/ ("delta" \notin Flags2(s, n) /\ "raw" \notin Flags1(s, n))

FieldTaken(s, n, j) == Shape(s, n, j)[1] # "matrix"

\* The messages before n, and the fields of n before the j-th.
MessagesTaken(s, n) ==
    \A i \in 1..n : MessageTaken(s, i) /\ \A k \in 1..Fields(s, i) : FieldTaken(s, i, k)

FieldsTaken(s, n, j) == \A k \in 1..j : FieldTaken(s, n, k)

Accepts(s, r) == HeaderTaken(s) /\ SecurityTaken(s, r) /\ MessagesTaken(s, Count(s))

VerifiedOf(s, r) == IF s.key # None /\ r.key # None THEN TRUE ELSE None

MadeOf(s, r) ==
    [pid |-> IF "publisher id" \in On(s) THEN s.message.pid ELSE 0,
     pid_type |-> s.message.pid_type,
     group |-> s.message.group,
     sequence |-> IF Own(s) /\ s.message.sequence # None THEN s.message.sequence % SeqModulus
                  ELSE None,
     messages |-> MessagesOf(s, Count(s)),
     signed |-> s.key # None,
     verified |-> VerifiedOf(s, r),
     token |-> IF s.key # None THEN Token(s) ELSE 0]

-----------------------------------------------------------------------------

\* The rest of a body is what comes at a place of it.
Ahead(body, pos, rest) ==
    /\ rest \in Seq(Cells) /\ pos + Len(rest) = Len(body)
    /\ \A i \in 1..Len(rest) : body[pos + i] = rest[i]

\* The datagram is a front of what was sent, and of what length.
Arrived(s, f, whole) ==
    /\ Given(s)
    /\ Len(f) <= Len(Full(s)) /\ \A i \in 1..Len(f) : f[i] = Full(s)[i]
    /\ whole <=> f = Full(s)

\* All of the body is there, before the end.
Room(s, f, end) == Len(Body(s)) <= Len(f) /\ Width(SubSeq(f, 1, Len(Body(s)))) <= end

\* The payload ends where the signature starts, or would.
Fresh == {"header", "publisher id", "group header", "payload header", "times", "security"}

\* What arrives is the frame as it was made or the front of it; only the whole of it has
\* room for the body before the signature.
Copied ==
    /\ Arrived(Origin, frame, sent.fate = "whole")
    /\ sent.fate = "whole" => Room(Origin, frame, reader.end)
    /\ pc \in Fresh => reader.end = Width(frame)
    /\ pc \notin Fresh => (Room(Origin, frame, reader.end) => sent.fate = "whole")

\* What reader and message hold past each of the headers.
PastHeader ==
    /\ reader.on = On(Origin) /\ message.pid_type = sent.message.pid_type
    /\ HeaderTaken(Origin)

PastId ==
    /\ PastHeader
    /\ message.pid = (IF "publisher id" \in On(Origin) THEN sent.message.pid ELSE 0)

PastGroup ==
    /\ PastId /\ message.group = sent.message.group
    /\ message.sequence = (IF Own(Origin) /\ sent.message.sequence # None
                           THEN sent.message.sequence % SeqModulus ELSE None)

PastPayload ==
    /\ PastGroup /\ reader.count = Count(Origin)
    /\ reader.writers = [n \in 1..(IF "payload header" \in On(Origin) THEN Count(Origin) ELSE 0)
                            |-> sent.message.messages[n].writer]

PastSecurity ==
    /\ PastPayload
    /\ sent.fate = "whole" =>
          /\ SecurityTaken(Origin, receiver)
          /\ message.signed = (sent.key # None)
          /\ message.verified = VerifiedOf(Origin, receiver)
          /\ message.token = (IF sent.key # None THEN Token(Origin) ELSE 0)

\* What is still to be read.
Comes(rest) == Ahead(Body(Origin), reader.pos, rest)

\* The message whose fields are read, and how many were.
Current == Len(message.messages)
Passed == Fields(Origin, Current) - reader.left

\* Before a message: those before it are decoded.
BetweenMessages ==
    /\ Comes(MessagesFrom(Origin, Current)) /\ PastSecurity
    /\ Current < Count(Origin) /\ MessagesTaken(Origin, Current)
    /\ message.messages = MessagesOf(Origin, Current)

\* Before a field: the messages before its own are decoded, and the fields before it.
BetweenFields ==
    /\ Comes(FieldsFrom(Origin, Current, Passed) \o MessagesFrom(Origin, Current))
    /\ PastSecurity
    /\ Current \in 1..Count(Origin) /\ Passed \in 0..Fields(Origin, Current) - 1
    /\ MessagesTaken(Origin, Current - 1) /\ MessageTaken(Origin, Current)
    /\ FieldsTaken(Origin, Current, Passed)
    /\ message.messages = Append(MessagesOf(Origin, Current - 1),
                                 MessageOf(Origin, Current, FieldsOf(Origin, Current, Passed)))

\* How far the decoder has come in a frame that was not damaged.
Track ==
    pc \in Sections /\ sent.fate # "damaged" =>
        /\ Copied
        /\ pc = "header" => Comes(Body(Origin)) /\ message.pid = 0
        /\ pc = "publisher id" => Comes(FromId(Origin)) /\ PastHeader /\ message.pid = 0
        /\ pc = "group header" => Comes(FromGroup(Origin)) /\ PastId
        /\ pc = "payload header" => Comes(FromPayload(Origin)) /\ PastGroup
        /\ pc = "times" => Comes(FromTimes(Origin)) /\ PastPayload
        /\ pc = "security" => Comes(FromSecurity(Origin)) /\ PastPayload
        /\ pc = "sizes" => Comes(FromSizes(Origin)) /\ PastSecurity
        /\ pc = "message" => BetweenMessages
        /\ pc = "field" => BetweenFields

\* What is sent is of the layout.
Laid == pc = "under way" => Given(Origin) /\ frame = Full(Origin)

\* What becomes of a frame of the layout.
Judged ==
    pc \in Ends /\ sent.fate # "damaged" =>
        /\ Given(Origin)
        /\ IF sent.fate = "whole" /\ Accepts(Origin, receiver)
           THEN pc = "decoded" /\ message = MadeOf(Origin, receiver)
           ELSE pc = "rejected"

\* A frame is its body, and a signature or nothing.
LEMMA FullFront ==
    ASSUME NEW s, Given(s)
    PROVE  /\ Body(s) \in Seq(Cells) /\ Len(Body(s)) \in Nat
           /\ Len(Full(s)) \in Nat /\ Len(Body(s)) <= Len(Full(s))
           /\ \A i \in 1..Len(Body(s)) : Full(s)[i] = Body(s)[i]
           /\ s.key = None => Full(s) = Body(s)
           /\ s.key # None => Full(s) = Sealed(Body(s), Body(s), s.key)
           /\ s.key # None => Len(Full(s)) = Len(Body(s)) + 1
<1> DEFINE b == Body(s)
           f == Full(s)
<1>1. b \in Seq(Cells)
  BY PartsAreCells
<1>2. Len(b) \in Nat
  BY <1>1
<1>3. s.key = None => f = b
  <2>1. f = b \o If(s.key # None, Cell("signature", [key |-> s.key, over |-> b], SignatureLength))
    BY DEF Full, Signed
  <2>2. s.key = None => f = b \o <<>>
    BY <2>1 DEF If
  <2> HIDE DEF f, b
  <2>3. b \o <<>> = b
    BY <1>1
  <2>4. QED
    BY <2>2, <2>3
<1>4. s.key # None => f = Sealed(b, b, s.key)
  BY DEF Full, Signed, Sealed, If
<1> HIDE DEF f, b
<1>5. /\ Len(Sealed(b, b, s.key)) = Len(b) + 1
      /\ \A i \in 1..Len(b) : Sealed(b, b, s.key)[i] = b[i]
  BY <1>1, SealedFront
<1>6. QED
  BY <1>1, <1>2, <1>3, <1>4, <1>5 DEF b, f

\* What comes next is there as it was written.
LEMMA ComesNext ==
    ASSUME Copied, NEW part, part \in Seq(Cells), NEW rest, rest \in Seq(Cells),
           Comes(part \o rest), reader.pos \in Nat, Len(frame) \in Nat
    PROVE  Upcoming(part)
<1> DEFINE b == Body(Origin)
           f == Full(Origin)
           p == reader.pos
           n == Len(part)
           all == part \o rest
<1>1. /\ Given(Origin) /\ Len(frame) <= Len(f) /\ \A i \in 1..Len(frame) : frame[i] = f[i]
  BY DEF Copied, Arrived
<1>2. Len(b) \in Nat /\ \A i \in 1..Len(b) : f[i] = b[i]
  BY <1>1, FullFront
<1>3. p + Len(all) = Len(b) /\ \A i \in 1..Len(all) : b[p + i] = all[i]
  BY DEF Comes, Ahead
<1>4. /\ n \in Nat /\ Len(rest) \in Nat /\ Len(all) = n + Len(rest)
      /\ \A i \in 1..n : i \in 1..Len(all) /\ all[i] = part[i]
  BY JoinedPlaces
<1>5. p \in Nat /\ Len(frame) \in Nat
  OBVIOUS
<1> HIDE DEF b, f, p, n, all
<1>6. \A i \in 1..n : p + i <= Len(frame) => frame[p + i] = part[i]
  <2> SUFFICES ASSUME NEW i \in 1..n, p + i <= Len(frame) PROVE frame[p + i] = part[i]
    OBVIOUS
  <2>1. p + i \in 1..Len(frame) /\ p + i \in 1..Len(b)
    BY <1>2, <1>3, <1>4, <1>5
  <2>2. QED
    BY <1>1, <1>2, <1>3, <1>4, <2>1
<1>7. QED
  BY <1>6 DEF Upcoming, n, p

\* Past a part comes the rest.
LEMMA ComesAfter ==
    ASSUME NEW body, NEW pos, pos \in Nat, NEW part, part \in Seq(Cells),
           NEW rest, rest \in Seq(Cells), Ahead(body, pos, part \o rest)
    PROVE  Ahead(body, pos + Len(part), rest)
<1> DEFINE n == Len(part)
           all == part \o rest
<1>1. pos + Len(all) = Len(body) /\ \A i \in 1..Len(all) : body[pos + i] = all[i]
  BY DEF Ahead
<1>2. /\ n \in Nat /\ Len(rest) \in Nat /\ Len(all) = n + Len(rest)
      /\ \A i \in 1..Len(rest) : n + i \in 1..Len(all) /\ all[n + i] = rest[i]
  BY JoinedPlaces
<1> HIDE DEF n, all
<1>3. (pos + n) + Len(rest) = Len(body)
  BY <1>1, <1>2
<1>4. \A i \in 1..Len(rest) : body[(pos + n) + i] = rest[i]
  <2> SUFFICES ASSUME NEW i \in 1..Len(rest) PROVE body[(pos + n) + i] = rest[i]
    OBVIOUS
  <2>1. (pos + n) + i = pos + (n + i)
    BY <1>2
  <2>2. QED
    BY <1>1, <1>2, <2>1
<1>5. QED
  BY <1>3, <1>4 DEF Ahead, n

\* Where there is room for the body, what comes next is before the end.
LEMMA RoomBefore ==
    ASSUME Framed, ~Sending, reader.pos \in Nat, NEW end, end \in Int,
           NEW part, part \in Seq(Cells), NEW rest, rest \in Seq(Cells), Comes(part \o rest),
           Room(Origin, frame, end)
    PROVE  /\ reader.pos + Len(part) <= Len(frame)
           /\ Width(SubSeq(frame, 1, reader.pos + Len(part))) <= end
<1> DEFINE b == Body(Origin)
           p == reader.pos
           n == Len(part)
           all == part \o rest
           W(k) == Width(SubSeq(frame, 1, k))
<1>1. Datagram(frame) /\ Len(frame) \in Nat /\ p \in Nat
  BY FrameIsDatagram
<1>2. PICK S : frame \in Seq(S) /\ \A c \in S : c.width \in Nat
  BY <1>1, WidthsOfDatagram
<1>3. p + Len(all) = Len(b)
  BY DEF Comes, Ahead
<1>4. n \in Nat /\ Len(rest) \in Nat /\ Len(all) = n + Len(rest)
  BY JoinedPlaces
<1>5. Len(b) <= Len(frame) /\ W(Len(b)) <= end
  BY DEF Room
<1> HIDE DEF b, p, n, all
<1>6. Len(b) \in 0..Len(frame) /\ p + n \in 0..Len(b) /\ p + n \in 0..Len(frame)
  BY <1>1, <1>3, <1>4, <1>5
<1>7. W(p + n) <= W(Len(b))
  BY <1>2, <1>6, Wider
<1>8. W(p + n) \in Nat /\ W(Len(b)) \in Nat
  BY <1>1, <1>6, WidthOfFront
<1>9. p + n <= Len(frame) /\ W(p + n) <= end
  BY <1>1, <1>5, <1>6, <1>7, <1>8
<1>10. QED
  BY <1>9 DEF p, n

\* Then it is there.
LEMMA RoomThere ==
    ASSUME Framed, ~Sending, ReaderTyped, NEW part, part \in Seq(Cells),
           NEW rest, rest \in Seq(Cells), Comes(part \o rest), Room(Origin, frame, reader.end)
    PROVE  There(Len(part))
<1>1. reader.pos \in Nat /\ reader.end \in Int
  BY DEF ReaderTyped
<1>2. QED
  BY <1>1, RoomBefore DEF There

\* A section of a frame that is not read on: it is rejected, never taken for what it is
\* not, and not where it was to be accepted.
LEMMA FailsWell ==
    ASSUME Inv, pc \in Sections, NEW want, NEW supported, NEW part, NEW rest,
           sent.fate # "damaged" =>
              /\ Copied /\ part \in Seq(Cells) /\ rest \in Seq(Cells) /\ Comes(part \o rest)
              /\ Suits(want, part)
              /\ sent.fate = "whole" /\ Taken(want) /\ ~supported => ~Accepts(Origin, receiver),
           Fails(want, supported)
    PROVE  Track' /\ Judged'
<1>1. /\ ~(Taken(want) /\ supported) /\ pc' = (IF Garbled(want) THEN "garbled" ELSE "rejected")
      /\ UNCHANGED <<sent, receiver, frame, reader, message, relayed>>
  BY DEF Fails
<1>2. pc' \in {"garbled", "rejected"} /\ sent' = sent /\ receiver' = receiver
  BY <1>1
<1>3. Track'
  BY <1>2 DEF Track, Sections
<1>4. ASSUME sent.fate # "damaged" PROVE Given(Origin) /\ pc' = "rejected" /\ ~(sent.fate = "whole" /\ Accepts(Origin, receiver))
  <2>1. Framed /\ ~Sending /\ ReaderTyped /\ reader.pos \in Nat /\ Len(frame) \in Nat
    BY SectionReads
  <2>2. Upcoming(part)
    BY <1>4, <2>1, ComesNext
  <2>3. ~Garbled(want) /\ (Taken(want) <=> There(Len(part)))
    BY <1>4, <2>1, <2>2, Reads
  <2>4. Given(Origin)
    BY <1>4 DEF Copied, Arrived
  <2>5. ASSUME sent.fate = "whole" PROVE ~Accepts(Origin, receiver)
    <3>1. Room(Origin, frame, reader.end)
      BY <1>4, <2>5 DEF Copied
    <3>2. There(Len(part))
      BY <1>4, <2>1, <3>1, RoomThere
    <3>3. QED
      BY <1>1, <1>4, <2>3, <2>5, <3>2
  <2>6. QED
    BY <1>1, <2>3, <2>4, <2>5
<1>5. Origin' = Origin
  BY <1>2 DEF Origin
<1>6. sent.fate # "damaged" => pc' = "rejected" /\ Given(Origin') /\ ~(sent'.fate = "whole" /\ Accepts(Origin', receiver'))
  BY <1>2, <1>4, <1>5
<1>7. Judged'
  BY <1>2, <1>6, Zenon DEF Judged
<1>8. QED
  BY <1>3, <1>7

\* One that is read on was taken as it was written, and the rest comes next.
LEMMA GoesWell ==
    ASSUME Inv, pc \in Sections, NEW want, NEW supported, NEW next, NEW part, NEW rest,
           Copied, part \in Seq(Cells), rest \in Seq(Cells), Comes(part \o rest),
           Suits(want, part), Goes(want, supported, next)
    PROVE  /\ Fits(want, part) /\ Taken(want) /\ supported /\ Upcoming(part)
           /\ Len(want) = Len(part) /\ There(Len(part))
           /\ Origin' = Origin /\ frame' = frame /\ sent' = sent /\ receiver' = receiver
           /\ pc' = next
           /\ Ahead(Body(Origin), reader.pos + Len(want), rest)
<1>1. /\ Taken(want) /\ supported /\ pc' = next /\ UNCHANGED <<sent, receiver, frame, relayed>>
  BY DEF Goes
<1>2. Framed /\ ~Sending /\ ReaderTyped /\ reader.pos \in Nat /\ Len(frame) \in Nat
  BY SectionReads
<1>3. Upcoming(part)
  BY <1>2, ComesNext
<1>4. Fits(want, part) /\ There(Len(part))
  BY <1>1, <1>2, <1>3, Reads
<1>5. Len(want) = Len(part) /\ Len(part) \in Nat
  BY <1>4, TakingOne DEF Fits
<1>6. Ahead(Body(Origin), reader.pos + Len(part), rest)
  BY <1>2, ComesAfter DEF Comes
<1>7. Origin' = Origin
  BY <1>1 DEF Origin
<1>8. QED
  BY <1>1, <1>2, <1>3, <1>4, <1>5, <1>6, <1>7

-----------------------------------------------------------------------------
(* What changes in the records of the decoder, and what does not. *)

\* A reader that moves on by what was taken.
LEMMA MovedOn ==
    ASSUME ReaderTyped, NEW want
    PROVE  Pass(want) = [pos |-> reader.pos + Len(want), end |-> reader.end, on |-> reader.on,
                         count |-> reader.count, writers |-> reader.writers,
                         left |-> reader.left]
<1>1. PICK p, e, o, c, w, l :
        reader = [pos |-> p, end |-> e, on |-> o, count |-> c, writers |-> w, left |-> l]
  BY Zenon DEF ReaderTyped
<1>2. Pass(want) = [pos |-> p + Len(want), end |-> e, on |-> o, count |-> c, writers |-> w,
                    left |-> l]
  BY <1>1 DEF Pass
<1>3. QED
  BY <1>1, <1>2

\* The parts of a reader.
ReaderHas(r, pos, end, on, count, writers, left) ==
    /\ r.pos = pos /\ r.end = end /\ r.on = on /\ r.count = count /\ r.writers = writers
    /\ r.left = left

\* What each of the ways in which a section advances the reader makes of it.
LEMMA ReaderEdited ==
    ASSUME ReaderTyped, NEW want, NEW x, NEW y
    PROVE  LET p == reader.pos + Len(want)
           IN  /\ ReaderHas(Pass(want), p, reader.end, reader.on, reader.count, reader.writers,
                            reader.left)
               /\ ReaderHas([Pass(want) EXCEPT !.on = x], p, reader.end, x, reader.count,
                            reader.writers, reader.left)
               /\ ReaderHas([Pass(want) EXCEPT !.end = x], p, x, reader.on, reader.count,
                            reader.writers, reader.left)
               /\ ReaderHas([Pass(want) EXCEPT !.left = x], p, reader.end, reader.on,
                            reader.count, reader.writers, x)
               /\ ReaderHas([Pass(want) EXCEPT !.count = x, !.writers = y], p, reader.end,
                            reader.on, x, y, reader.left)
<1>1. PICK p, e, o, c, w, l :
         /\ Pass(want) = [pos |-> p, end |-> e, on |-> o, count |-> c, writers |-> w, left |-> l]
         /\ p = reader.pos + Len(want) /\ e = reader.end /\ o = reader.on /\ c = reader.count
         /\ w = reader.writers /\ l = reader.left
  BY MovedOn, Zenon
<1> DEFINE r == [pos |-> p, end |-> e, on |-> o, count |-> c, writers |-> w, left |-> l]
<1>2. /\ ReaderHas(r, p, e, o, c, w, l)
      /\ ReaderHas([r EXCEPT !.on = x], p, e, x, c, w, l)
      /\ ReaderHas([r EXCEPT !.end = x], p, x, o, c, w, l)
      /\ ReaderHas([r EXCEPT !.left = x], p, e, o, c, w, x)
      /\ ReaderHas([r EXCEPT !.count = x, !.writers = y], p, e, o, x, y, l)
  BY DEF ReaderHas
<1>3. QED
  BY <1>1, <1>2, Zenon

\* The parts of a message.
MessageHas(m, pid, type, group, sequence, messages, signed, verified, token) ==
    /\ m.pid = pid /\ m.pid_type = type /\ m.group = group /\ m.sequence = sequence
    /\ m.messages = messages /\ m.signed = signed /\ m.verified = verified /\ m.token = token

\* What each of the ways in which a section fills in the message makes of it.
LEMMA MessageEdited ==
    ASSUME MessageTyped, NEW x, NEW y, NEW z
    PROVE  LET m == message
           IN  /\ MessageHas([m EXCEPT !.pid_type = x], m.pid, x, m.group, m.sequence, m.messages,
                             m.signed, m.verified, m.token)
               /\ MessageHas([m EXCEPT !.pid = x], x, m.pid_type, m.group, m.sequence, m.messages,
                             m.signed, m.verified, m.token)
               /\ MessageHas([m EXCEPT !.group = x, !.sequence = y], m.pid, m.pid_type, x, y,
                             m.messages, m.signed, m.verified, m.token)
               /\ MessageHas([m EXCEPT !.signed = x, !.token = y, !.verified = z], m.pid,
                             m.pid_type, m.group, m.sequence, m.messages, x, z, y)
               /\ MessageHas([m EXCEPT !.messages = x], m.pid, m.pid_type, m.group, m.sequence,
                             x, m.signed, m.verified, m.token)
<1>1. PICK p, t, g, s, n, a, v, k :
         message = [pid |-> p, pid_type |-> t, group |-> g, sequence |-> s, messages |-> n,
                    signed |-> a, verified |-> v, token |-> k]
  BY Zenon DEF MessageTyped
<1> DEFINE r == [pid |-> p, pid_type |-> t, group |-> g, sequence |-> s, messages |-> n,
                 signed |-> a, verified |-> v, token |-> k]
<1>2. /\ MessageHas(r, p, t, g, s, n, a, v, k)
      /\ MessageHas([r EXCEPT !.pid_type = x], p, x, g, s, n, a, v, k)
      /\ MessageHas([r EXCEPT !.pid = x], x, t, g, s, n, a, v, k)
      /\ MessageHas([r EXCEPT !.group = x, !.sequence = y], p, t, x, y, n, a, v, k)
      /\ MessageHas([r EXCEPT !.signed = x, !.token = y, !.verified = z], p, t, g, s, n, x, z, y)
      /\ MessageHas([r EXCEPT !.messages = x], p, t, g, s, x, a, v, k)
  BY DEF MessageHas
<1>3. /\ message.pid = p /\ message.pid_type = t /\ message.group = g /\ message.sequence = s
      /\ message.messages = n /\ message.signed = a /\ message.verified = v /\ message.token = k
  BY <1>1, <1>2 DEF MessageHas
<1>4. QED
  BY <1>1, <1>2, <1>3, Zenon

-----------------------------------------------------------------------------
(* Section by section: what it wants suits what comes next. *)

\* The flags as the decoder sees them.
FlagsRead == FlagsOf("flags")
Ext1Read == IF "extended" \in FlagsRead /\ There(2) THEN frame[reader.pos + 2].value ELSE {}
Ext2Read == IF "ext2" \in Ext1Read /\ There(3) THEN frame[reader.pos + 3].value ELSE {}
HeaderWant(flags, ext1) ==
    <<<<"flags", 1>>>> \o If("extended" \in flags, <<<<"ext1", 1>>>>)
    \o If("ext2" \in ext1, <<<<"ext2", 1>>>>)

\* Where something is wanted first, something is wanted.
LEMMA WantsSome ==
    ASSUME NEW S, NEW want, want \in Wanted(S), want # <<>>, NEW more, more \in Wanted(S)
    PROVE  want \o more # <<>>
<1> DEFINE T == Kinds \X S
<1>1. want \in Seq(T) /\ more \in Seq(T)
  BY DEF Wanted
<1> HIDE DEF T
<1>2. Len(want) \in Nat /\ Len(want) > 0 /\ Len(more) \in Nat /\ Len(want \o more) = Len(want) + Len(more)
  BY <1>1
<1>3. Len(want \o more) > 0 /\ Len(<<>>) = 0
  BY <1>2
<1>4. QED
  BY <1>3

\* Cells of a kind wanted first.
LEMMA WantedFirst ==
    ASSUME NEW kind, kind \in Kinds, NEW width, width \in Nat
    PROVE  <<<<kind, width>>>> \in Wanted(Nat) /\ <<<<kind, width>>>> # <<>>
<1>1. <<<<kind, width>>>> # <<>>
  OBVIOUS
<1>2. QED
  BY <1>1, OneWanted

\* Where a cell of the part is missing, what suits it is not taken.
LEMMA NotTaken ==
    ASSUME Framed, ~Sending, ReaderTyped, NEW part, Upcoming(part), NEW want, Suits(want, part),
           NEW n, n \in 1..Len(part), ~There(n)
    PROVE  ~Taken(want)
<1>1. Taken(want) <=> There(Len(part))
  BY Reads
<1>2. Len(part) \in Nat
  BY DEF Upcoming
<1>3. n \in 0..Len(part)
  BY <1>2
<1>4. QED
  BY <1>1, <1>2, <1>3, ThereFewer

\* A section whose first flags are not there, or whose second, or third.
LEMMA HeaderSuits ==
    ASSUME Framed, ~Sending, ReaderTyped, NEW s, Given(s), Upcoming(HeaderPart(s))
    PROVE  /\ Suits(HeaderWant(FlagsRead, Ext1Read), HeaderPart(s))
           /\ Taken(HeaderWant(FlagsRead, Ext1Read)) =>
                 FlagsRead = Flags(s) /\ Ext1Read = Ext1(s) /\ Ext2Read = Ext2(s)
<1> DEFINE part == HeaderPart(s)
           want == HeaderWant(FlagsRead, Ext1Read)
           F == <<<<"flags", 1>>>>
           E == <<<<"ext1", 1>>>>
           X == <<<<"ext2", 1>>>>
           f == Cell("flags", Flags(s), 1)
           e == Cell("ext1", Ext1(s), 1)
           x == Cell("ext2", Ext2(s), 1)
<1>1. /\ Fits(HeaderWant(Flags(s), Ext1(s)), part)
      /\ Holds(part, 1, "flags", Flags(s))
      /\ "extended" \in Flags(s) => Holds(part, 2, "ext1", Ext1(s))
      /\ "ext2" \in Ext1(s) => Holds(part, 3, "ext2", Ext2(s))
  BY HeaderFits DEF HeaderWant
<1>2. /\ "extended" \notin Flags(s) => Ext1(s) = {}
      /\ "ext2" \notin Ext1(s) => Ext2(s) = {}
      /\ "ext2" \in Ext1(s) => "extended" \in Flags(s)
  BY Announced
<1>3. part # <<>> /\ part \in Seq(Cells) /\ Len(part) \in Nat
  BY <1>1, HoldsSome, Zenon
<1>4. /\ F \in Wanted(Nat) /\ E \in Wanted(Nat) /\ X \in Wanted(Nat) /\ F # <<>> /\ E # <<>> /\ X # <<>>
  <2>1. "flags" \in Kinds /\ "ext1" \in Kinds /\ "ext2" \in Kinds /\ 1 \in Nat
    BY DEF Kinds, FlagKinds
  <2>2. QED
    BY <2>1, WantedFirst
<1>5. want = F \o If("extended" \in FlagsRead, E) \o If("ext2" \in Ext1Read, X)
  BY DEF HeaderWant
<1>6. part = f \o If("extended" \in Flags(s), e) \o If("ext2" \in Ext1(s), x)
  BY DEF HeaderPart
<1>7. f \in Seq(Cells) /\ e \in Seq(Cells) /\ x \in Seq(Cells)
  <2>1. {"flags", "ext1", "ext2"} \subseteq FlagKinds /\ 1 \in Nat
    BY DEF FlagKinds
  <2>2. QED
    BY <2>1, Announced, FlagsCell
<1>8. Fits(F, f) /\ Fits(E, e) /\ Fits(X, x)
  BY <1>7, FitsCell, Zenon
<1>9. Len(f) = 1 /\ Len(e) = 1 /\ Len(x) = 1
  BY OneCell
<1> HIDE DEF part, want, F, E, X, f, e, x
<1>10. There(1) => FlagsRead = Flags(s)
  BY <1>1, SeesFlags, Zenon DEF FlagsRead, part
<1>11. There(2) /\ "extended" \in Flags(s) => frame[reader.pos + 2].value = Ext1(s)
  <2>1. There(2) => reader.pos + 2 <= Len(frame)
    BY DEF There
  <2>2. QED
    BY <1>1, <2>1, Sees, Zenon DEF part
<1>12. There(3) /\ "ext2" \in Ext1(s) => frame[reader.pos + 3].value = Ext2(s)
  <2>1. There(3) => reader.pos + 3 <= Len(frame)
    BY DEF There
  <2>2. QED
    BY <1>1, <2>1, Sees, ZenonT(30) DEF part
<1>13. CASE ~There(1)
  <2>1. want # <<>> /\ want \in Wanted(Nat)
    <3>1. If("extended" \in FlagsRead, E) \in Wanted(Nat) /\ If("ext2" \in Ext1Read, X) \in Wanted(Nat)
      BY <1>4, JoinWanted, Zenon
    <3>2. F \o If("extended" \in FlagsRead, E) \in Wanted(Nat)
      BY <1>4, <3>1, JoinWanted, Zenon
    <3>3. F \o If("extended" \in FlagsRead, E) # <<>>
      BY <1>4, <3>1, WantsSome, Zenon
    <3>4. want # <<>>
      BY <1>5, <3>1, <3>2, <3>3, WantsSome, Zenon
    <3>5. want \in Wanted(Nat)
      BY <1>5, <3>1, <3>2, JoinWanted, Zenon
    <3>6. QED
      BY <3>4, <3>5
  <2>2. Suits(want, part)
    BY <1>3, <1>13, <2>1, NothingThere
  <2>3. ~Taken(want)
    <3>1. 1 \in 1..Len(part)
      BY <1>3
    <3>2. QED
      BY <1>13, <2>2, <3>1, NotTaken DEF part
  <2>4. QED
    BY <2>2, <2>3 DEF want, part
<1>14. CASE There(1) /\ "extended" \in Flags(s) /\ ~There(2)
  <2>1. FlagsRead = Flags(s) /\ Ext1Read = {}
    BY <1>10, <1>14 DEF Ext1Read
  <2>2. want = F \o E \o If("ext2" \in {}, X)
    BY <1>5, <1>14, <2>1 DEF If
  <2>3. part = f \o e \o If("ext2" \in Ext1(s), x)
    BY <1>6, <1>14 DEF If
  <2>4. Starts(F \o E, f \o e, 1)
    <3>1. e # <<>>
      BY <1>9
    <3>2. Starts(F \o E, f \o e, Len(f))
      BY <1>4, <1>7, <1>8, <3>1, StartsWith
    <3>3. QED
      BY <1>9, <3>2
  <2>5. Starts(want, part, 1)
    <3>1. F \o E \in Wanted(Nat) /\ If("ext2" \in {}, X) \in Wanted(Nat)
      BY <1>4, JoinWanted, Zenon
    <3>2. f \o e \in Seq(Cells) /\ If("ext2" \in Ext1(s), x) \in Seq(Cells) /\ 1 \in Nat
      BY <1>7, Joined, GivenCells
    <3>3. QED
      BY <2>2, <2>3, <2>4, <3>1, <3>2, StartsLonger, Zenon
  <2>6. Suits(want, part)
    <3>1. ~There(1 + 1) /\ 1 \in Nat
      BY <1>14
    <3>2. QED
      BY <2>5, <3>1 DEF Suits
  <2>7. ~Taken(want)
    <3>1. 2 \in 1..Len(part)
      BY <1>1, <1>14 DEF Holds, part
    <3>2. QED
      BY <1>14, <2>6, <3>1, NotTaken DEF part
  <2>8. QED
    BY <2>6, <2>7 DEF want, part
<1>15. CASE There(1) /\ ("extended" \in Flags(s) => There(2)) /\ "ext2" \in Ext1(s) /\ ~There(3)
  <2>1. FlagsRead = Flags(s) /\ Ext1Read = Ext1(s) /\ "extended" \in Flags(s)
    BY <1>2, <1>10, <1>11, <1>15 DEF Ext1Read
  <2>2. want = F \o E \o X
    BY <1>5, <1>15, <2>1 DEF If
  <2>3. part = f \o e \o x
    BY <1>6, <1>15, <2>1 DEF If
  <2>4. Len(f \o e) = 2 /\ f \o e \in Seq(Cells)
    BY <1>7, <1>9, JoinedPlaces
  <2>5. Starts(want, part, 2)
    <3>1. x # <<>>
      BY <1>9
    <3>2. F \o E \in Wanted(Nat)
      BY <1>4, JoinWanted, Zenon
    <3>3. Fits(F \o E, f \o e)
      BY <1>8, FitsJoin, Zenon
    <3>4. Starts(F \o E \o X, f \o e \o x, Len(f \o e))
      BY <1>4, <1>7, <3>1, <3>2, <3>3, StartsWith
    <3>5. QED
      BY <2>2, <2>3, <2>4, <3>4
  <2>6. Suits(want, part)
    <3>1. ~There(2 + 1) /\ 2 \in Nat
      BY <1>15
    <3>2. QED
      BY <2>5, <3>1 DEF Suits
  <2>7. ~Taken(want)
    <3>1. 3 \in 1..Len(part)
      BY <1>1, <1>15 DEF Holds, part
    <3>2. QED
      BY <1>15, <2>6, <3>1, NotTaken DEF part
  <2>8. QED
    BY <2>6, <2>7 DEF want, part
<1>16. CASE There(1) /\ ("extended" \in Flags(s) => There(2)) /\ ("ext2" \in Ext1(s) => There(3))
  <2>1. FlagsRead = Flags(s)
    BY <1>10, <1>16
  <2>2. Ext1Read = Ext1(s)
    BY <1>2, <1>11, <1>16, <2>1 DEF Ext1Read
  <2>3. Ext2Read = Ext2(s)
    BY <1>2, <1>12, <1>16, <2>2 DEF Ext2Read
  <2>4. Fits(want, part)
    BY <1>1, <2>1, <2>2 DEF want
  <2>5. QED
    BY <2>1, <2>2, <2>3, <2>4 DEF Suits, want, part
<1>17. QED
  BY <1>13, <1>14, <1>15, <1>16

\* Of a damaged frame nothing is said.
LEMMA DamagedSaysNothing == sent' = sent /\ sent.fate = "damaged" => Track' /\ Judged'
BY DEF Track, Judged

\* As long as nothing but the place changes, the datagram is as it was.
LEMMA CopiedOn ==
    ASSUME Copied, Origin' = Origin, frame' = frame, sent' = sent, reader'.end = reader.end,
           pc \in Fresh <=> pc' \in Fresh
    PROVE  Copied'
BY DEF Copied

\* The type of the publisher id is announced by the second cell of flags.
LEMMA TypeAnnounced ==
    ASSUME NEW s, Given(s)
    PROVE  s.message.pid_type = IF Ext1(s) \cap DOMAIN PidSize = {} THEN "BYTE"
                                ELSE CHOOSE t \in Ext1(s) : t \in DOMAIN PidSize
<1> DEFINE p == s.message.pid_type
           E == Ext1(s)
<1>1. p \in DOMAIN PidSize
  BY GivenTyped
<1>2. DOMAIN PidSize = {"BYTE", "UINT16", "UINT32", "UINT64"}
  BY DEF PidSize
<1>3. (E = {} /\ p = "BYTE") \/ E \cap {"BYTE", "UINT16", "UINT32", "UINT64"} = {p}
  <2>1. CASE Own(s)
    <3>1. E = IF Extended(s) THEN {p} \cup Flag(s.key # None, "security") ELSE {}
      BY <2>1 DEF Ext1
    <3>2. ~Extended(s) => p = "BYTE"
      BY DEF Extended
    <3> HIDE DEF E, p
    <3>3. QED
      BY <1>1, <1>2, <3>1, <3>2 DEF Flag
  <2>2. CASE ~Own(s)
    <3>1. E = {p} \cup (s.options \cap {"class id", "frame time", "frame picoseconds", "ext2"})
              \cup Flag(s.key # None, "security")
      BY <2>2 DEF Ext1
    <3> HIDE DEF E, p
    <3>2. QED
      BY <1>1, <1>2, <3>1 DEF Flag
  <2>3. QED
    BY <2>1, <2>2
<1> HIDE DEF E, p
<1>4. CASE E = {} /\ p = "BYTE"
  BY <1>4 DEF E, p
<1>5. CASE E \cap DOMAIN PidSize = {p}
  <2>1. \A t \in E : t \in DOMAIN PidSize <=> t = p
    BY <1>5
  <2>2. p \in E
    BY <1>5
  <2>3. (CHOOSE t \in E : t \in DOMAIN PidSize) = p
    BY <2>1, <2>2
  <2>4. QED
    BY <1>5, <2>3 DEF E, p
<1>6. QED
  BY <1>2, <1>3, <1>4, <1>5

\* The header.
LEMMA TrackFlags == Inv /\ Track /\ DecodeFlags => Track' /\ Judged'
<1> SUFFICES ASSUME Inv, Track, DecodeFlags PROVE Track' /\ Judged'
  OBVIOUS
<1> DEFINE want == HeaderWant(FlagsRead, Ext1Read)
           supported == Ext2Read \cap {"chunk", "discovery"} = {}
           type == IF Ext1Read \cap DOMAIN PidSize = {} THEN "BYTE"
                   ELSE CHOOSE t \in Ext1Read : t \in DOMAIN PidSize
           part == HeaderPart(Origin)
           rest == FromId(Origin)
<1>1. pc = "header" /\ pc \in Sections /\ pc \in Fresh
  BY DEF DecodeFlags, Sections, Fresh
<1>2. \/ Fails(want, supported)
      \/ /\ Goes(want, supported, "publisher id")
         /\ reader' = [Pass(want) EXCEPT !.on = FlagsRead \cup Ext1Read \cup Ext2Read]
         /\ message' = [message EXCEPT !.pid_type = type]
  BY DEF DecodeFlags, HeaderWant, FlagsRead, Ext1Read, Ext2Read
<1>3. Framed /\ ~Sending /\ ReaderTyped /\ MessageTyped /\ reader.pos \in Nat /\ Len(frame) \in Nat
  BY <1>1, SectionReads
<1>4. ASSUME sent.fate # "damaged"
      PROVE  /\ Copied /\ Given(Origin) /\ part \in Seq(Cells) /\ rest \in Seq(Cells)
             /\ Comes(part \o rest) /\ message.pid = 0
             /\ Suits(want, part)
             /\ Taken(want) => /\ FlagsRead = Flags(Origin) /\ Ext1Read = Ext1(Origin)
                               /\ Ext2Read = Ext2(Origin)
  <2>1. Copied /\ Comes(Body(Origin)) /\ message.pid = 0
    BY <1>1, <1>4 DEF Track
  <2>2. Given(Origin)
    BY <2>1 DEF Copied, Arrived
  <2>3. part \in Seq(Cells) /\ rest \in Seq(Cells) /\ Comes(part \o rest)
    BY <2>1, <2>2, PartsAreCells DEF Body
  <2>4. Upcoming(part)
    BY <1>3, <2>1, <2>3, ComesNext
  <2>5. QED
    BY <1>3, <2>1, <2>2, <2>3, <2>4, HeaderSuits
<1>5. ASSUME Fails(want, supported) PROVE Track' /\ Judged'
  <2>1. sent.fate # "damaged" /\ Taken(want) /\ ~supported => ~Accepts(Origin, receiver)
    BY <1>4 DEF Accepts, HeaderTaken
  <2> HIDE DEF want, supported, part, rest
  <2>2. QED
    BY <1>1, <1>4, <1>5, <2>1, FailsWell
<1>6. ASSUME Goes(want, supported, "publisher id"),
             reader' = [Pass(want) EXCEPT !.on = FlagsRead \cup Ext1Read \cup Ext2Read],
             message' = [message EXCEPT !.pid_type = type],
             sent.fate # "damaged"
      PROVE  Track' /\ Judged'
  <2>1. /\ Taken(want) /\ supported /\ Origin' = Origin /\ frame' = frame /\ sent' = sent
        /\ receiver' = receiver /\ pc' = "publisher id"
        /\ Ahead(Body(Origin), reader.pos + Len(want), rest)
    <3> HIDE DEF want, supported, part, rest
    <3>1. QED
      BY <1>1, <1>4, <1>6, GoesWell
  <2>2. FlagsRead = Flags(Origin) /\ Ext1Read = Ext1(Origin) /\ Ext2Read = Ext2(Origin)
    BY <1>4, <1>6, <2>1
  <2>3. reader'.pos = reader.pos + Len(want) /\ reader'.end = reader.end /\ reader'.on = On(Origin)
    <3> HIDE DEF want
    <3> DEFINE on == FlagsRead \cup Ext1Read \cup Ext2Read
    <3>1. reader' = [Pass(want) EXCEPT !.on = on]
      BY <1>6
    <3>2. on = On(Origin)
      BY <2>2, Zenon DEF On
    <3> HIDE DEF on
    <3>3. ReaderHas([Pass(want) EXCEPT !.on = on], reader.pos + Len(want), reader.end, on,
                    reader.count, reader.writers, reader.left)
      BY <1>3, ReaderEdited, Zenon
    <3>4. ReaderHas(reader', reader.pos + Len(want), reader.end, on, reader.count, reader.writers,
                    reader.left)
      BY <3>1, <3>3, Zenon
    <3>5. QED
      BY <3>2, <3>4 DEF ReaderHas
  <2>4. message'.pid_type = type /\ message'.pid = message.pid
    <3> HIDE DEF type
    <3>1. QED
      BY <1>3, <1>6, MessageEdited, Zenon DEF MessageHas
  <2>5. type = sent.message.pid_type
    <3>1. type = Origin.message.pid_type
      BY <1>4, <1>6, <2>2, TypeAnnounced
    <3>2. QED
      BY <3>1 DEF Origin
  <2>6. HeaderTaken(Origin)
    BY <2>1, <2>2 DEF HeaderTaken
  <2> HIDE DEF want, supported, type, part
  <2>7. PastHeader' /\ message'.pid = 0
    BY <1>4, <1>6, <2>1, <2>3, <2>4, <2>5, <2>6 DEF PastHeader
  <2>8. Copied'
    BY <1>1, <1>4, <1>6, <2>1, <2>3, CopiedOn DEF Fresh
  <2>9. Comes(FromId(Origin))'
    BY <2>1, <2>3 DEF Comes, rest
  <2>10. QED
    BY <2>1, <2>7, <2>8, <2>9 DEF Track, Judged, Ends
<1>7. QED
  <2>1. Goes(want, supported, "publisher id") => sent' = sent
    BY DEF Goes
  <2> HIDE DEF want, supported, type, part, rest
  <2>2. QED
    BY <1>2, <1>5, <1>6, <2>1, DamagedSaysNothing

\* The frame has the origin of what was sent, whatever became of it.
LEMMA OriginIs ==
    /\ Origin.message = sent.message /\ Origin.datavalue = sent.datavalue
    /\ Origin.key = sent.key /\ Origin.options = sent.options
BY DEF Origin

\* What comes next in a datagram that was not damaged.
LEMMA Facing ==
    ASSUME Inv, pc \in Sections, Copied, NEW part, part \in Seq(Cells), NEW rest,
           rest \in Seq(Cells), Comes(part \o rest)
    PROVE  Given(Origin) /\ Upcoming(part) /\ Framed /\ ~Sending /\ ReaderTyped
<1>1. Framed /\ ~Sending /\ ReaderTyped /\ reader.pos \in Nat /\ Len(frame) \in Nat
  BY SectionReads
<1>2. Given(Origin)
  BY DEF Copied, Arrived
<1>3. QED
  BY <1>1, <1>2, ComesNext

IdWant ==
    If("publisher id" \in reader.on, <<<<"publisher id", PidSize[message.pid_type]>>>>)
    \o If("class id" \in reader.on, <<<<"class id", 16>>>>)

\* The publisher id.
LEMMA TrackPublisherId == Inv /\ Track /\ DecodePublisherId => Track' /\ Judged'
<1> SUFFICES ASSUME Inv, Track, DecodePublisherId PROVE Track' /\ Judged'
  OBVIOUS
<1> DEFINE want == IdWant
           id == Got(want, "publisher id", message.pid)
           part == IdPart(Origin)
           rest == FromGroup(Origin)
<1>1. pc = "publisher id" /\ pc \in Sections /\ pc \in Fresh
  BY DEF DecodePublisherId, Sections, Fresh
<1>2. \/ Fails(want, TRUE)
      \/ /\ Goes(want, TRUE, "group header")
         /\ reader' = Pass(want)
         /\ message' = [message EXCEPT !.pid = id]
  BY DEF DecodePublisherId, IdWant
<1>3. Framed /\ ~Sending /\ ReaderTyped /\ MessageTyped /\ reader.pos \in Nat /\ Len(frame) \in Nat
  BY <1>1, SectionReads
<1>4. ASSUME sent.fate # "damaged"
      PROVE  /\ Copied /\ Given(Origin) /\ part \in Seq(Cells) /\ rest \in Seq(Cells)
             /\ Comes(part \o rest) /\ PastHeader /\ message.pid = 0
             /\ Upcoming(part) /\ Fits(want, part) /\ Suits(want, part)
  <2>1. Copied /\ Comes(FromId(Origin)) /\ PastHeader /\ message.pid = 0
    BY <1>1, <1>4 DEF Track
  <2>2. Given(Origin)
    BY <2>1 DEF Copied, Arrived
  <2>3. part \in Seq(Cells) /\ rest \in Seq(Cells) /\ Comes(part \o rest)
    BY <2>1, <2>2, PartsAreCells DEF FromId
  <2>4. Upcoming(part)
    BY <1>1, <2>1, <2>3, Facing
  <2>5. Fits(want, part)
    BY <2>1, <2>2, IdFits, OriginIs DEF PastHeader, IdWant
  <2>6. QED
    BY <2>1, <2>2, <2>3, <2>4, <2>5 DEF Suits
<1>5. ASSUME Fails(want, TRUE) PROVE Track' /\ Judged'
  <2> HIDE DEF want, part, rest
  <2>1. QED
    BY <1>1, <1>4, <1>5, FailsWell
<1>6. ASSUME Goes(want, TRUE, "group header"), reader' = Pass(want),
             message' = [message EXCEPT !.pid = id], sent.fate # "damaged"
      PROVE  Track' /\ Judged'
  <2>1. /\ Taken(want) /\ Origin' = Origin /\ frame' = frame /\ sent' = sent
        /\ receiver' = receiver /\ pc' = "group header"
        /\ Ahead(Body(Origin), reader.pos + Len(want), rest)
    <3> HIDE DEF want, part, rest
    <3>1. QED
      BY <1>1, <1>4, <1>6, GoesWell
  <2>2. reader'.pos = reader.pos + Len(want) /\ reader'.end = reader.end /\ reader'.on = reader.on
    BY <1>3, <1>6, ReaderEdited, Zenon DEF ReaderHas
  <2>3. message'.pid_type = message.pid_type /\ message'.pid = id
    <3> HIDE DEF id
    <3>1. QED
      BY <1>3, <1>6, MessageEdited, Zenon DEF MessageHas
  <2>4. id = IF "publisher id" \in On(Origin) THEN sent.message.pid ELSE 0
    <3>1. /\ "publisher id" \in On(Origin) => Carries(part, "publisher id", sent.message.pid)
          /\ "publisher id" \notin On(Origin) => Lacks(part, "publisher id")
      BY <1>4, <1>6, IdFits, OriginIs
    <3> HIDE DEF want, part
    <3>2. /\ Lacks(part, "publisher id") => id = message.pid
          /\ \A value : Carries(part, "publisher id", value) => id = value
      BY <1>3, <1>4, <1>6, <2>1, GotCarried
    <3>3. QED
      BY <1>4, <1>6, <3>1, <3>2
  <2> HIDE DEF want, id, part
  <2>5. PastId'
    BY <1>4, <1>6, <2>1, <2>2, <2>3, <2>4 DEF PastHeader, PastId
  <2>6. Copied'
    BY <1>1, <1>4, <1>6, <2>1, <2>2, CopiedOn DEF Fresh
  <2>7. Comes(FromGroup(Origin))'
    BY <2>1, <2>2 DEF Comes, rest
  <2>8. QED
    BY <2>1, <2>5, <2>6, <2>7 DEF Track, Judged, Ends
<1>7. QED
  <2>1. Goes(want, TRUE, "group header") => sent' = sent
    BY DEF Goes
  <2> HIDE DEF want, id, part, rest
  <2>2. QED
    BY <1>2, <1>5, <1>6, <2>1, DamagedSaysNothing

GroupWant(flags) ==
    If("group header" \in reader.on,
       <<<<"group flags", 1>>>> \o If("group" \in flags, <<<<"group", 2>>>>)
       \o If("group version" \in flags, <<<<"group version", 4>>>>)
       \o If("number" \in flags, <<<<"number", 2>>>>)
       \o If("group sequence" \in flags, <<<<"group sequence", 2>>>>))

\* The group header says what there is of a group and a sequence number.
LEMMA GroupSaid ==
    ASSUME NEW s, Given(s)
    PROVE  /\ ("group header" \in On(s) /\ "group" \in GroupFlags(s)) \/ s.message.group = None
           /\ ("group header" \in On(s) /\ "group sequence" \in GroupFlags(s))
                 <=> (Own(s) /\ s.message.sequence # None)
<1>1. CASE Own(s)
  <2>1. "group header" \in On(s) <=> (s.message.group # None \/ s.message.sequence # None)
    BY <1>1, OwnAnnounces
  <2>2. GroupFlags(s) = Flag(s.message.group # None, "group")
                        \cup Flag(s.message.sequence # None, "group sequence")
    BY <1>1 DEF GroupFlags
  <2>3. "group" \in GroupFlags(s) <=> s.message.group # None
    BY <2>2 DEF Flag
  <2>4. "group sequence" \in GroupFlags(s) <=> s.message.sequence # None
    BY <2>2 DEF Flag
  <2>5. QED
    BY <1>1, <2>1, <2>3, <2>4
<1>2. CASE ~Own(s)
  <2>1. "group header" \in On(s)
    BY <1>2, ForeignAnnounces
  <2>2. GroupFlags(s) = {"group", "group version", "number"}
    BY <1>2 DEF GroupFlags
  <2>3. "group" \in GroupFlags(s) /\ "group sequence" \notin GroupFlags(s)
    BY <2>2
  <2>4. QED
    BY <1>2, <2>1, <2>3
<1>3. QED
  BY <1>1, <1>2

\* What the group header wants suits the group header that comes.
LEMMA GroupSuits ==
    ASSUME Framed, ~Sending, ReaderTyped, NEW s, Given(s), Upcoming(GroupPart(s)),
           reader.on = On(s)
    PROVE  /\ Suits(GroupWant(FlagsOf("group flags")), GroupPart(s))
<1> DEFINE part == GroupPart(s)
           F == FlagsOf("group flags")
           want == GroupWant(F)
<1>1. Fits(GroupWant(GroupFlags(s)), part)
  BY GroupFits DEF GroupWant
<1>2. CASE "group header" \notin On(s)
  <2>1. GroupWant(F) = <<>> /\ GroupWant(GroupFlags(s)) = <<>>
    BY <1>2 DEF GroupWant, If
  <2>2. QED
    BY <1>1, <2>1, Zenon DEF Suits
<1>3. CASE "group header" \in On(s) /\ There(1)
  <2>1. Holds(part, 1, "group flags", GroupFlags(s))
    BY <1>3, GroupFits
  <2>2. F = GroupFlags(s)
    BY <1>3, <2>1, SeesFlags, Zenon
  <2>3. QED
    BY <1>1, <2>2, Zenon DEF Suits
<1>4. CASE "group header" \in On(s) /\ ~There(1)
  <2>1. Holds(part, 1, "group flags", GroupFlags(s))
    BY <1>4, GroupFits
  <2>2. part # <<>> /\ part \in Seq(Cells)
    BY <2>1, HoldsSome, Zenon
  <2> DEFINE A == <<<<"group flags", 1>>>>
             B == If("group" \in F, <<<<"group", 2>>>>)
             C == If("group version" \in F, <<<<"group version", 4>>>>)
             D == If("number" \in F, <<<<"number", 2>>>>)
             E == If("group sequence" \in F, <<<<"group sequence", 2>>>>)
  <2>3. want = A \o B \o C \o D \o E
    BY <1>4 DEF GroupWant, If
  <2>4. A \in Wanted(Nat) /\ A # <<>> /\ B \in Wanted(Nat) /\ C \in Wanted(Nat) /\ D \in Wanted(Nat)
        /\ E \in Wanted(Nat)
    <3>1. {"group flags", "group", "group version", "number", "group sequence"} \subseteq Kinds
          /\ {1, 2, 4} \subseteq Nat
      BY DEF Kinds, Skips, FlagKinds
    <3>2. /\ <<<<"group flags", 1>>>> \in Wanted(Nat) /\ <<<<"group", 2>>>> \in Wanted(Nat)
          /\ <<<<"group version", 4>>>> \in Wanted(Nat) /\ <<<<"number", 2>>>> \in Wanted(Nat)
          /\ <<<<"group sequence", 2>>>> \in Wanted(Nat)
      BY <3>1, OneWanted
    <3>3. A # <<>>
      OBVIOUS
    <3>4. QED
      BY <3>2, <3>3, JoinWanted, Zenon
  <2> HIDE DEF part, want, A, B, C, D, E
  <2>5. A \o B \in Wanted(Nat) /\ A \o B # <<>>
    BY <2>4, JoinWanted, WantsSome, Zenon
  <2>6. A \o B \o C \in Wanted(Nat) /\ A \o B \o C # <<>>
    BY <2>4, <2>5, JoinWanted, WantsSome, Zenon
  <2>7. A \o B \o C \o D \in Wanted(Nat) /\ A \o B \o C \o D # <<>>
    BY <2>4, <2>6, JoinWanted, WantsSome, Zenon
  <2>8. want \in Wanted(Nat) /\ want # <<>>
    BY <2>3, <2>4, <2>7, JoinWanted, WantsSome, Zenon
  <2>9. Suits(want, part)
    BY <1>4, <2>2, <2>8, NothingThere
  <2>10. QED
    BY <2>9 DEF want, part
<1>5. QED
  BY <1>2, <1>3, <1>4

\* The group header.
LEMMA TrackGroupHeader == Inv /\ Track /\ DecodeGroupHeader => Track' /\ Judged'
<1> SUFFICES ASSUME Inv, Track, DecodeGroupHeader PROVE Track' /\ Judged'
  OBVIOUS
<1> DEFINE want == GroupWant(FlagsOf("group flags"))
           group == Got(want, "group", None)
           number == Got(want, "group sequence", None)
           part == GroupPart(Origin)
           rest == FromPayload(Origin)
<1>1. pc = "group header" /\ pc \in Sections /\ pc \in Fresh
  BY DEF DecodeGroupHeader, Sections, Fresh
<1>2. \/ Fails(want, TRUE)
      \/ /\ Goes(want, TRUE, "payload header")
         /\ reader' = Pass(want)
         /\ message' = [message EXCEPT !.group = group, !.sequence = number]
  BY DEF DecodeGroupHeader, GroupWant
<1>3. Framed /\ ~Sending /\ ReaderTyped /\ MessageTyped /\ reader.pos \in Nat /\ Len(frame) \in Nat
  BY <1>1, SectionReads
<1>4. ASSUME sent.fate # "damaged"
      PROVE  /\ Copied /\ Given(Origin) /\ part \in Seq(Cells) /\ rest \in Seq(Cells)
             /\ Comes(part \o rest) /\ PastId
             /\ Upcoming(part) /\ Suits(want, part)
  <2>1. Copied /\ Comes(FromGroup(Origin)) /\ PastId
    BY <1>1, <1>4 DEF Track
  <2>2. Given(Origin)
    BY <2>1 DEF Copied, Arrived
  <2>3. part \in Seq(Cells) /\ rest \in Seq(Cells) /\ Comes(part \o rest)
    BY <2>1, <2>2, PartsAreCells DEF FromGroup
  <2>4. Upcoming(part)
    BY <1>1, <2>1, <2>3, Facing
  <2>5. Suits(want, part)
    BY <1>3, <2>1, <2>2, <2>4, GroupSuits DEF PastId, PastHeader
  <2>6. QED
    BY <2>1, <2>2, <2>3, <2>4, <2>5
<1>5. ASSUME Fails(want, TRUE) PROVE Track' /\ Judged'
  <2> HIDE DEF want, part, rest
  <2>1. QED
    BY <1>1, <1>4, <1>5, FailsWell
<1>6. ASSUME Goes(want, TRUE, "payload header"), reader' = Pass(want),
             message' = [message EXCEPT !.group = group, !.sequence = number],
             sent.fate # "damaged"
      PROVE  Track' /\ Judged'
  <2>1. /\ Fits(want, part)
        /\ Taken(want) /\ Origin' = Origin /\ frame' = frame /\ sent' = sent
        /\ receiver' = receiver /\ pc' = "payload header"
        /\ Ahead(Body(Origin), reader.pos + Len(want), rest)
    <3> HIDE DEF want, part, rest
    <3>1. QED
      BY <1>1, <1>4, <1>6, GoesWell
  <2>2. reader'.pos = reader.pos + Len(want) /\ reader'.end = reader.end /\ reader'.on = reader.on
    <3> HIDE DEF want
    <3>1. QED
      BY <1>3, <1>6, ReaderEdited, Zenon DEF ReaderHas
  <2>3. /\ message'.pid_type = message.pid_type /\ message'.pid = message.pid
        /\ message'.group = group /\ message'.sequence = number
    <3> HIDE DEF group, number
    <3>1. MessageHas([message EXCEPT !.group = group, !.sequence = number], message.pid,
                     message.pid_type, group, number, message.messages, message.signed,
                     message.verified, message.token)
      BY <1>3, MessageEdited, Zenon
    <3>2. message' = [message EXCEPT !.group = group, !.sequence = number]
      BY <1>6
    <3>3. QED
      BY <3>1, <3>2 DEF MessageHas
  <2> DEFINE G == "group header" \in On(Origin) /\ "group" \in GroupFlags(Origin)
             N == "group header" \in On(Origin) /\ "group sequence" \in GroupFlags(Origin)
  <2>4. /\ G => Carries(part, "group", sent.message.group)
        /\ ~G => Lacks(part, "group")
        /\ N => Carries(part, "group sequence", sent.message.sequence % SeqModulus)
        /\ ~N => Lacks(part, "group sequence")
    BY <1>4, <1>6, GroupFits, OriginIs
  <2>5. (G \/ sent.message.group = None) /\ (N <=> (Own(Origin) /\ sent.message.sequence # None))
    BY <1>4, <1>6, GroupSaid, OriginIs
  <2> HIDE DEF want, part, G, N
  <2>6. /\ Lacks(part, "group") => group = None
        /\ \A value : Carries(part, "group", value) => group = value
    BY <1>3, <1>4, <1>6, <2>1, GotCarried
  <2>7. /\ Lacks(part, "group sequence") => number = None
        /\ \A value : Carries(part, "group sequence", value) => number = value
    BY <1>3, <1>4, <1>6, <2>1, GotCarried
  <2> HIDE DEF group, number
  <2>8. group = sent.message.group
    BY <2>4, <2>5, <2>6
  <2>9. number = IF Own(Origin) /\ sent.message.sequence # None
                 THEN sent.message.sequence % SeqModulus ELSE None
    BY <2>4, <2>5, <2>7
  <2>10. PastGroup'
    <3>1. PastId'
      BY <1>4, <1>6, <2>1, <2>2, <2>3 DEF PastId, PastHeader
    <3>2. QED
      BY <2>1, <2>3, <2>8, <2>9, <3>1 DEF PastGroup
  <2>11. Copied'
    BY <1>1, <1>4, <1>6, <2>1, <2>2, CopiedOn DEF Fresh
  <2>12. Comes(FromPayload(Origin))'
    BY <2>1, <2>2 DEF Comes, rest
  <2>13. QED
    BY <2>1, <2>10, <2>11, <2>12 DEF Track, Judged, Ends
<1>7. QED
  <2>1. Goes(want, TRUE, "payload header") => sent' = sent
    BY DEF Goes
  <2> HIDE DEF want, group, number, part, rest
  <2>2. QED
    BY <1>2, <1>5, <1>6, <2>1, DamagedSaysNothing

CountRead == IF "payload header" \in reader.on /\ Next1("count") THEN frame[reader.pos + 1].value ELSE 1

PayloadWant(count) ==
    If("payload header" \in reader.on, <<<<"count", 1>>>> \o [i \in 1..count |-> <<"writer id", 2>>])

\* Without a payload header there is one message.
LEMMA OneWithoutHeader ==
    ASSUME NEW s, Given(s), "payload header" \notin On(s)
    PROVE  Count(s) = 1
<1>1. ~Own(s)
  BY OwnAnnounces
<1>2. Expressible(s.message, s.options)
  BY <1>1 DEF Given, Own
<1>3. QED
  BY <1>2 DEF Expressible, Count

\* Some of a kind are wanted, as many as there should be.
LEMMA RepeatedWanted ==
    ASSUME NEW kind, kind \in Kinds, NEW width, width \in Nat, NEW count, count \in Nat
    PROVE  [i \in 1..count |-> <<kind, width>>] \in Wanted(Nat)
<1>1. <<kind, width>> \in Kinds \X Nat
  OBVIOUS
<1> DEFINE T == Kinds \X Nat
           c == <<kind, width>>
<1> HIDE DEF T, c
<1>2. [i \in 1..count |-> c] \in Seq(T)
  BY <1>1 DEF T, c
<1>3. QED
  BY <1>2 DEF Wanted, T, c

\* What the payload header wants suits the one that comes, and its count is read.
LEMMA PayloadSuits ==
    ASSUME Framed, ~Sending, ReaderTyped, NEW s, Given(s), Upcoming(PayloadPart(s)),
           reader.on = On(s)
    PROVE  /\ Suits(PayloadWant(CountRead), PayloadPart(s))
           /\ Taken(PayloadWant(CountRead)) => CountRead = Count(s)
<1> DEFINE part == PayloadPart(s)
           want == PayloadWant(CountRead)
<1>1. Fits(PayloadWant(Count(s)), part) /\ Count(s) \in Nat
  BY PayloadFits, GivenTyped DEF PayloadWant
<1>2. CASE "payload header" \notin On(s)
  <2>1. CountRead = Count(s)
    BY <1>2, OneWithoutHeader DEF CountRead
  <2>2. QED
    BY <1>1, <2>1 DEF Suits
<1>3. ASSUME "payload header" \in On(s) PROVE Holds(part, 1, "count", Count(s))
  BY <1>3, PayloadFits
<1>4. reader.pos \in Nat /\ Len(frame) \in Nat
  BY FrameIsDatagram DEF ReaderTyped
<1>5. ASSUME "payload header" \in On(s)
      PROVE  CountRead \in Nat /\ (There(1) => CountRead = Count(s))
  <2>1. reader.pos + 1 <= Len(frame) => frame[reader.pos + 1].kind = "count"
                                        /\ frame[reader.pos + 1].value = Count(s)
    BY <1>3, <1>5, Sees, Zenon
  <2>2. There(1) => reader.pos + 1 <= Len(frame)
    BY DEF There
  <2>3. reader.pos + 1 <= Len(frame) <=> reader.pos < Len(frame)
    BY <1>4
  <2>4. Next1("count") => reader.pos < Len(frame)
    BY DEF Next1
  <2>5. reader.pos < Len(frame) /\ frame[reader.pos + 1].kind = "count" => Next1("count")
    BY DEF Next1
  <2> DEFINE v == frame[reader.pos + 1].value
  <2>6. CountRead = IF Next1("count") THEN v ELSE 1
    BY <1>5 DEF CountRead
  <2> HIDE DEF v
  <2>7. reader.pos + 1 <= Len(frame) => v = Count(s)
    BY <2>1 DEF v
  <2>8. Next1("count") => v = Count(s)
    BY <2>3, <2>4, <2>7
  <2>9. CountRead \in Nat
    BY <1>1, <2>6, <2>8
  <2>10. There(1) => CountRead = Count(s)
    BY <2>1, <2>2, <2>3, <2>5, <2>6, <2>8
  <2>11. QED
    BY <2>9, <2>10
<1>6. CASE "payload header" \in On(s) /\ There(1)
  BY <1>1, <1>5, <1>6 DEF Suits
<1>7. CASE "payload header" \in On(s) /\ ~There(1)
  <2>1. part # <<>> /\ part \in Seq(Cells) /\ 1 \in 1..Len(part)
    BY <1>3, <1>7, HoldsSome, Zenon
  <2> DEFINE A == <<<<"count", 1>>>>
             B == [i \in 1..CountRead |-> <<"writer id", 2>>]
  <2>2. want = A \o B
    BY <1>7 DEF PayloadWant, If
  <2>3. A \in Wanted(Nat) /\ A # <<>> /\ B \in Wanted(Nat)
    <3>1. {"count", "writer id"} \subseteq Kinds /\ {1, 2} \subseteq Nat
      BY DEF Kinds, Numbers
    <3>2. A \in Wanted(Nat) /\ A # <<>>
      BY <3>1, WantedFirst
    <3>3. B \in Wanted(Nat)
      BY <1>5, <1>7, <3>1, RepeatedWanted
    <3>4. QED
      BY <3>2, <3>3
  <2> HIDE DEF part, want, A, B
  <2>4. want \in Wanted(Nat) /\ want # <<>>
    BY <2>2, <2>3, JoinWanted, WantsSome, Zenon
  <2>5. Suits(want, part)
    BY <1>7, <2>1, <2>4, NothingThere
  <2>6. ~Taken(want)
    BY <1>7, <2>1, <2>5, NotTaken DEF part
  <2>7. QED
    BY <2>5, <2>6 DEF want, part
<1>8. QED
  BY <1>2, <1>6, <1>7

WritersRead ==
    [i \in 1..(IF "payload header" \in reader.on THEN CountRead ELSE 0)
        |-> frame[reader.pos + 1 + i].value]

\* The payload header.
LEMMA TrackPayloadHeader == Inv /\ Track /\ DecodePayloadHeader => Track' /\ Judged'
<1> SUFFICES ASSUME Inv, Track, DecodePayloadHeader PROVE Track' /\ Judged'
  OBVIOUS
<1> DEFINE want == PayloadWant(CountRead)
           supported == CountRead > 0
           part == PayloadPart(Origin)
           rest == FromTimes(Origin)
<1>1. pc = "payload header" /\ pc \in Sections /\ pc \in Fresh
  BY DEF DecodePayloadHeader, Sections, Fresh
<1>2. \/ Fails(want, supported)
      \/ /\ Goes(want, supported, "times")
         /\ reader' = [Pass(want) EXCEPT !.count = CountRead, !.writers = WritersRead]
         /\ UNCHANGED message
  BY DEF DecodePayloadHeader, PayloadWant, CountRead, WritersRead
<1>3. Framed /\ ~Sending /\ ReaderTyped /\ MessageTyped /\ reader.pos \in Nat /\ Len(frame) \in Nat
  BY <1>1, SectionReads
<1>4. ASSUME sent.fate # "damaged"
      PROVE  /\ Copied /\ Given(Origin) /\ part \in Seq(Cells) /\ rest \in Seq(Cells)
             /\ Comes(part \o rest) /\ PastGroup /\ reader.on = On(Origin)
             /\ Upcoming(part) /\ Suits(want, part)
             /\ Taken(want) => CountRead = Count(Origin)
  <2>1. Copied /\ Comes(FromPayload(Origin)) /\ PastGroup
    BY <1>1, <1>4 DEF Track
  <2>2. Given(Origin)
    BY <2>1 DEF Copied, Arrived
  <2>3. part \in Seq(Cells) /\ rest \in Seq(Cells) /\ Comes(part \o rest)
    BY <2>1, <2>2, PartsAreCells DEF FromPayload
  <2>4. Upcoming(part)
    BY <1>1, <2>1, <2>3, Facing
  <2>5. reader.on = On(Origin)
    BY <2>1 DEF PastGroup, PastId, PastHeader
  <2>6. Suits(want, part) /\ (Taken(want) => CountRead = Count(Origin))
    BY <1>3, <2>2, <2>4, <2>5, PayloadSuits
  <2>7. QED
    BY <2>1, <2>2, <2>3, <2>4, <2>5, <2>6
<1>5. ASSUME Fails(want, supported) PROVE Track' /\ Judged'
  <2>1. sent.fate # "damaged" /\ Taken(want) => supported
    BY <1>4, GivenTyped
  <2> HIDE DEF want, part, rest, supported
  <2>2. QED
    BY <1>1, <1>4, <1>5, <2>1, FailsWell
<1>6. ASSUME Goes(want, supported, "times"), UNCHANGED message,
             reader' = [Pass(want) EXCEPT !.count = CountRead, !.writers = WritersRead],
             sent.fate # "damaged"
      PROVE  Track' /\ Judged'
  <2>1. /\ Fits(want, part)
        /\ Taken(want) /\ Origin' = Origin /\ frame' = frame /\ sent' = sent
        /\ receiver' = receiver /\ pc' = "times" /\ There(Len(part))
        /\ Ahead(Body(Origin), reader.pos + Len(want), rest)
    <3> HIDE DEF want, part, rest, supported
    <3>1. QED
      BY <1>1, <1>4, <1>6, GoesWell
  <2>2. /\ reader'.pos = reader.pos + Len(want) /\ reader'.end = reader.end /\ reader'.on = reader.on
        /\ reader'.count = CountRead /\ reader'.writers = WritersRead
    <3> HIDE DEF want
    <3>1. ReaderHas([Pass(want) EXCEPT !.count = CountRead, !.writers = WritersRead],
                    reader.pos + Len(want), reader.end, reader.on, CountRead, WritersRead,
                    reader.left)
      BY <1>3, ReaderEdited, Zenon
    <3>2. reader' = [Pass(want) EXCEPT !.count = CountRead, !.writers = WritersRead]
      BY <1>6
    <3>3. QED
      BY <3>1, <3>2 DEF ReaderHas
  <2>3. CountRead = Count(Origin)
    BY <1>4, <1>6, <2>1
  <2>4. WritersRead = [n \in 1..(IF "payload header" \in On(Origin) THEN Count(Origin) ELSE 0)
                         |-> sent.message.messages[n].writer]
    <3>1. CASE "payload header" \notin On(Origin)
      <4>1. WritersRead = [i \in 1..0 |-> frame[reader.pos + 1 + i].value]
        BY <1>4, <1>6, <3>1 DEF WritersRead
      <4>2. \A i \in 1..0 : FALSE
        OBVIOUS
      <4>3. WritersRead = [i \in 1..0 |-> sent.message.messages[i].writer]
        BY <4>1, <4>2, Zenon
      <4>4. QED
        BY <3>1, <4>3
    <3>2. CASE "payload header" \in On(Origin)
      <4>1. /\ Len(part) = Count(Origin) + 1 /\ Count(Origin) \in Nat
            /\ \A i \in 1..Count(Origin) : part[1 + i].value = sent.message.messages[i].writer
        BY <1>4, <1>6, <3>2, PayloadFits, GivenTyped, OriginIs
      <4>2. \A i \in 1..Len(part) : frame[reader.pos + i] = part[i]
        <5> HIDE DEF part
        <5>1. \A i \in 1..Len(part) : reader.pos + i <= Len(frame) => frame[reader.pos + i] = part[i]
          BY <1>4, <1>6 DEF Upcoming
        <5>2. reader.pos + Len(part) <= Len(frame)
          BY <2>1 DEF There
        <5>3. QED
          BY <1>3, <4>1, <5>1, <5>2
      <4> DEFINE c == Count(Origin)
      <4>3. WritersRead = [i \in 1..c |-> frame[reader.pos + 1 + i].value]
        BY <1>4, <1>6, <2>3, <3>2 DEF WritersRead
      <4> HIDE DEF part
      <4>7. Len(part) = c + 1 /\ c \in Nat /\ reader.pos \in Nat
        BY <1>3, <4>1
      <4> HIDE DEF c
      <4>4. \A i \in 1..c : frame[reader.pos + 1 + i].value = sent.message.messages[i].writer
        <5> SUFFICES ASSUME NEW i \in 1..c
                     PROVE  frame[reader.pos + 1 + i].value = sent.message.messages[i].writer
          OBVIOUS
        <5>1. 1 + i \in 1..Len(part) /\ reader.pos + 1 + i = reader.pos + (1 + i)
          BY <4>7
        <5>2. frame[reader.pos + (1 + i)] = part[1 + i]
          BY <4>2, <5>1
        <5>3. part[1 + i].value = sent.message.messages[i].writer
          BY <4>1 DEF c
        <5>4. QED
          BY <5>1, <5>2, <5>3
      <4>5. WritersRead = [i \in 1..c |-> sent.message.messages[i].writer]
        BY <4>3, <4>4
      <4>6. QED
        BY <3>2, <4>5 DEF c
    <3>3. QED
      BY <3>1, <3>2
  <2> HIDE DEF want, part, supported
  <2>5. PastPayload'
    <3>1. PastGroup'
      BY <1>4, <1>6, <2>1, <2>2 DEF PastGroup, PastId, PastHeader
    <3>2. QED
      BY <2>1, <2>2, <2>3, <2>4, <3>1 DEF PastPayload
  <2>6. Copied'
    BY <1>1, <1>4, <1>6, <2>1, <2>2, CopiedOn DEF Fresh
  <2>7. Comes(FromTimes(Origin))'
    BY <2>1, <2>2 DEF Comes, rest
  <2>8. QED
    BY <2>1, <2>5, <2>6, <2>7 DEF Track, Judged, Ends
<1>7. QED
  <2>1. Goes(want, supported, "times") => sent' = sent
    BY DEF Goes
  <2> HIDE DEF want, part, rest, supported
  <2>2. QED
    BY <1>2, <1>5, <1>6, <2>1, DamagedSaysNothing

TimesWant ==
    If("frame time" \in reader.on, <<<<"frame time", 8>>>>)
    \o If("frame picoseconds" \in reader.on, <<<<"frame picoseconds", 2>>>>)

SizeRead ==
    IF "promoted" \in reader.on /\ There(Len(TimesWant) + 1)
    THEN frame[reader.pos + Len(TimesWant) + 1].value ELSE 0

PromotedWant(size) ==
    TimesWant \o If("promoted" \in reader.on, <<<<"promoted size", 2>>, <<"promoted", size>>>>)

\* What the times want suits the times that come.
LEMMA TimesSuits ==
    ASSUME Framed, ~Sending, ReaderTyped, NEW s, Given(s), Upcoming(TimesPart(s)),
           reader.on = On(s)
    PROVE  Suits(PromotedWant(SizeRead), TimesPart(s))
<1> DEFINE part == TimesPart(s)
           n == Len(TimesWant)
           P == "promoted" \in On(s)
           two == <<<<"promoted size", 2>>, <<"promoted", 0>>>>
<1>1. TimesWant = If("frame time" \in On(s), <<<<"frame time", 8>>>>)
                  \o If("frame picoseconds" \in On(s), <<<<"frame picoseconds", 2>>>>)
  BY DEF TimesWant
<1>2. /\ Fits(PromotedWant(3), part)
      /\ P => Holds(part, n + 1, "promoted size", 3)
      /\ P => \A want \in Wanted(Nat) : want # <<>> => Starts(TimesWant \o want, part, n)
  BY <1>1, TimesFits DEF PromotedWant
<1>3. n \in Nat
  <2>1. TimesWant \in Wanted(Nat)
    <3>1. {"frame time", "frame picoseconds"} \subseteq Kinds /\ {2, 8} \subseteq Nat
      BY DEF Kinds, Skips
    <3>2. <<<<"frame time", 8>>>> \in Wanted(Nat) /\ <<<<"frame picoseconds", 2>>>> \in Wanted(Nat)
      BY <3>1, OneWanted
    <3>3. QED
      BY <3>2, JoinWanted, Zenon DEF TimesWant
  <2>2. QED
    BY <2>1 DEF Wanted
<1>4. CASE ~P
  <2>1. PromotedWant(SizeRead) = PromotedWant(3)
    BY <1>4 DEF PromotedWant, If
  <2>2. QED
    BY <1>2, <2>1, Zenon DEF Suits
<1>5. CASE P /\ There(n + 1)
  <2>1. reader.pos + (n + 1) <= Len(frame)
    BY <1>5 DEF There
  <2>2. frame[reader.pos + (n + 1)].value = 3
    BY <1>2, <1>5, <2>1, Sees
  <2>3. reader.pos + (n + 1) = reader.pos + n + 1
    BY <1>3 DEF ReaderTyped
  <2>4. SizeRead = 3
    BY <1>5, <2>2, <2>3 DEF SizeRead
  <2>5. QED
    BY <1>2, <2>4 DEF Suits
<1>6. CASE P /\ ~There(n + 1)
  <2>1. SizeRead = 0
    BY <1>6 DEF SizeRead
  <2>2. PromotedWant(SizeRead) = TimesWant \o two
    BY <1>6, <2>1 DEF PromotedWant, If
  <2>3. two \in Wanted(Nat) /\ two # <<>>
    <3>1. {"promoted size", "promoted"} \subseteq Kinds /\ {0, 2} \subseteq Nat
      BY DEF Kinds, Skips, Numbers
    <3> DEFINE T == Kinds \X Nat
               a == <<"promoted size", 2>>
               b == <<"promoted", 0>>
    <3>2. a \in T /\ b \in T
      BY <3>1
    <3>3. two = <<a, b>>
      OBVIOUS
    <3> HIDE DEF a, b, two
    <3>4. <<a, b>> \in Seq(Kinds \X Nat) /\ <<a, b>> # <<>>
      <4> HIDE DEF T
      <4>1. <<a, b>> \in Seq(T) /\ <<a, b>> # <<>>
        BY <3>2
      <4>2. QED
        BY <4>1 DEF T
    <3>5. QED
      BY <3>3, <3>4 DEF Wanted
  <2> HIDE DEF two, n
  <2>4. Starts(TimesWant \o two, part, n)
    BY <1>2, <1>6, <2>3
  <2>5. QED
    BY <1>3, <1>6, <2>2, <2>4 DEF Suits
<1>7. QED
  BY <1>4, <1>5, <1>6

\* The times and promoted fields, skipped.
LEMMA TrackTimes == Inv /\ Track /\ DecodeTimes => Track' /\ Judged'
<1> SUFFICES ASSUME Inv, Track, DecodeTimes PROVE Track' /\ Judged'
  OBVIOUS
<1> DEFINE want == PromotedWant(SizeRead)
           part == TimesPart(Origin)
           rest == FromSecurity(Origin)
<1>1. pc = "times" /\ pc \in Sections /\ pc \in Fresh
  BY DEF DecodeTimes, Sections, Fresh
<1>2. \/ Fails(want, TRUE)
      \/ Goes(want, TRUE, "security") /\ reader' = Pass(want) /\ UNCHANGED message
  BY DEF DecodeTimes, PromotedWant, SizeRead, TimesWant
<1>3. Framed /\ ~Sending /\ ReaderTyped /\ MessageTyped /\ reader.pos \in Nat /\ Len(frame) \in Nat
  BY <1>1, SectionReads
<1>4. ASSUME sent.fate # "damaged"
      PROVE  /\ Copied /\ Given(Origin) /\ part \in Seq(Cells) /\ rest \in Seq(Cells)
             /\ Comes(part \o rest) /\ PastPayload /\ Suits(want, part)
  <2>1. Copied /\ Comes(FromTimes(Origin)) /\ PastPayload
    BY <1>1, <1>4 DEF Track
  <2>2. Given(Origin)
    BY <2>1 DEF Copied, Arrived
  <2>3. part \in Seq(Cells) /\ rest \in Seq(Cells) /\ Comes(part \o rest)
    BY <2>1, <2>2, PartsAreCells DEF FromTimes
  <2>4. Upcoming(part)
    BY <1>1, <2>1, <2>3, Facing
  <2>5. Suits(want, part)
    BY <1>3, <2>1, <2>2, <2>4, TimesSuits DEF PastPayload, PastGroup, PastId, PastHeader
  <2>6. QED
    BY <2>1, <2>2, <2>3, <2>5
<1>5. ASSUME Fails(want, TRUE) PROVE Track' /\ Judged'
  <2> HIDE DEF want, part, rest
  <2>1. QED
    BY <1>1, <1>4, <1>5, FailsWell
<1>6. ASSUME Goes(want, TRUE, "security"), UNCHANGED message, reader' = Pass(want),
             sent.fate # "damaged"
      PROVE  Track' /\ Judged'
  <2>1. /\ Origin' = Origin /\ frame' = frame /\ sent' = sent
        /\ receiver' = receiver /\ pc' = "security"
        /\ Ahead(Body(Origin), reader.pos + Len(want), rest)
    <3> HIDE DEF want, part, rest
    <3>1. QED
      BY <1>1, <1>4, <1>6, GoesWell
  <2>2. /\ reader'.pos = reader.pos + Len(want) /\ reader'.end = reader.end /\ reader'.on = reader.on
        /\ reader'.count = reader.count /\ reader'.writers = reader.writers
    <3> HIDE DEF want
    <3>1. QED
      BY <1>3, <1>6, ReaderEdited, Zenon DEF ReaderHas
  <2> HIDE DEF want, part
  <2>3. PastPayload'
    BY <1>4, <1>6, <2>1, <2>2 DEF PastPayload, PastGroup, PastId, PastHeader
  <2>4. Copied'
    BY <1>1, <1>4, <1>6, <2>1, <2>2, CopiedOn DEF Fresh
  <2>5. Comes(FromSecurity(Origin))'
    BY <2>1, <2>2 DEF Comes, rest
  <2>6. QED
    BY <2>1, <2>3, <2>4, <2>5 DEF Track, Judged, Ends
<1>7. QED
  <2>1. Goes(want, TRUE, "security") => sent' = sent
    BY DEF Goes
  <2> HIDE DEF want, part, rest
  <2>2. QED
    BY <1>2, <1>5, <1>6, <2>1, DamagedSaysNothing

\* The front of a sealed frame, and its width.
LEMMA FullSealed ==
    ASSUME NEW s, Given(s)
    PROVE  /\ Datagram(Full(s))
           /\ SubSeq(Full(s), 1, Len(Body(s))) = Body(s)
           /\ Width(Body(s)) \in Nat
           /\ s.key # None =>
                 /\ Width(Full(s)) = Width(Body(s)) + SignatureLength
                 /\ Full(s)[Len(Body(s)) + 1].kind = "signature"
                 /\ Full(s)[Len(Body(s)) + 1].value = [key |-> s.key, over |-> Body(s)]
<1> DEFINE b == Body(s)
           f == Full(s)
           n == Len(Body(s))
           c == [kind |-> "signature", value |-> [key |-> s.key, over |-> b],
                 width |-> SignatureLength]
<1>1. /\ b \in Seq(Cells) /\ n \in Nat /\ Len(f) \in Nat /\ n <= Len(f)
      /\ \A i \in 1..n : f[i] = b[i]
      /\ s.key = None => f = b
      /\ s.key # None => f = Sealed(b, b, s.key) /\ Len(f) = n + 1
  BY FullFront
<1>2. Datagram(f)
  BY <1>1, Zenon DEF Datagram
<1>3. PICK S : f \in Seq(S) /\ \A x \in S : x.width \in Nat
  BY <1>2, WidthsOfDatagram
<1> HIDE DEF b, f
<1>4. SubSeq(f, 1, n) = b
  <2>1. b = [i \in 1..n |-> b[i]]
    BY <1>1 DEF b
  <2>2. SubSeq(f, 1, n) = [i \in 1..n |-> f[i]]
    BY <1>1, <1>3
  <2>3. QED
    BY <1>1, <2>1, <2>2
<1>5. Width(b) \in Nat
  <2>1. \A x \in Cells : x.width \in Nat
    BY CellKinds
  <2>2. Datagram(b)
    BY <1>1 DEF Datagram
  <2>3. QED
    BY <2>2, WidthOfFront
<1>6. ASSUME s.key # None
      PROVE  /\ Width(f) = Width(b) + SignatureLength
             /\ f[n + 1].kind = "signature" /\ f[n + 1].value = [key |-> s.key, over |-> b]
  <2>1. f = b \o <<c>> /\ c.width = SignatureLength
    BY <1>1, <1>6 DEF Sealed, Cell
  <2> HIDE DEF c
  <2>2. f[n + 1] = c
    BY <1>1, <2>1 DEF b
  <2>3. SubSeq(f, 1, n + 1) = f
    <3>1. SubSeq(f, 1, n + 1) = [i \in 1..n + 1 |-> f[i]]
      BY <1>1, <1>3, <1>6
    <3>2. f = [i \in 1..n + 1 |-> f[i]]
      BY <1>1, <1>3, <1>6
    <3>3. QED
      BY <3>1, <3>2
  <2>4. n \in 0..Len(f) - 1
    BY <1>1, <1>6
  <2>5. Width(SubSeq(f, 1, n + 1)) = Width(SubSeq(f, 1, n)) + f[n + 1].width
    BY <1>3, <2>4, OneWider
  <2>6. Width(f) = Width(b) + SignatureLength
    BY <1>4, <2>1, <2>2, <2>3, <2>5
  <2>7. f[n + 1].kind = "signature" /\ f[n + 1].value = [key |-> s.key, over |-> b]
    BY <2>2 DEF c
  <2>8. QED
    BY <2>6, <2>7
<1>7. QED
  BY <1>2, <1>4, <1>5, <1>6 DEF b, f

\* A datagram of full length is the frame.
LEMMA AllArrived ==
    ASSUME NEW s, NEW f, NEW whole, Arrived(s, f, whole), Datagram(f), Len(f) = Len(Full(s))
    PROVE  f = Full(s) /\ whole
<1>1. Given(s) /\ \A i \in 1..Len(f) : f[i] = Full(s)[i]
  BY DEF Arrived
<1>2. Datagram(Full(s))
  BY <1>1, FullSealed
<1>3. PICK S : f \in Seq(S)
  BY WidthsOfDatagram
<1>4. PICK T : Full(s) \in Seq(T)
  BY <1>2, WidthsOfDatagram
<1> DEFINE g == Full(s)
           n == Len(f)
<1> HIDE DEF g
<1>5. f = [i \in 1..n |-> f[i]]
  BY <1>3
<1>6. g = [i \in 1..n |-> g[i]]
  BY <1>4 DEF g
<1>7. \A i \in 1..n : f[i] = g[i]
  BY <1>1 DEF g
<1>8. f = g
  BY <1>5, <1>6, <1>7
<1>9. whole <=> f = Full(s)
  BY DEF Arrived
<1>10. QED
  BY <1>8, <1>9 DEF g

\* Of a frame that arrives whole, the signature is right for its key only.
LEMMA VerifiedByKey ==
    ASSUME Given(Origin), frame = Full(Origin), sent.key # None, NEW key
    PROVE  Verified(key) <=> key = sent.key
<1> DEFINE b == Body(Origin)
<1>1. Origin.key = sent.key
  BY OriginIs
<1>2. Len(frame) = Len(b) + 1 /\ Len(b) \in Nat
  BY <1>1, FullFront
<1>3. /\ frame[Len(b) + 1].kind = "signature"
      /\ frame[Len(b) + 1].value = [key |-> sent.key, over |-> b]
      /\ SubSeq(frame, 1, Len(b)) = b
  BY <1>1, FullSealed
<1> HIDE DEF b
<1>4. Len(frame) - 1 = Len(b)
  BY <1>2
<1>5. Verified(key) <=> [key |-> sent.key, over |-> b] = [key |-> key, over |-> b]
  BY <1>2, <1>3, <1>4 DEF Verified
<1>6. [key |-> sent.key, over |-> b] = [key |-> key, over |-> b] <=> key = sent.key
  OBVIOUS
<1>7. QED
  BY <1>5, <1>6

\* Where the payload ends, there is room for all of the body in a whole frame only.
LEMMA RoomIsWhole ==
    ASSUME Copied, Framed, ~Sending, reader.end = Width(frame), NEW end,
           end = Width(frame) - (IF sent.key # None THEN SignatureLength ELSE 0)
    PROVE  Room(Origin, frame, end) <=> sent.fate = "whole"
<1> DEFINE b == Body(Origin)
           f == Full(Origin)
           n == Len(Body(Origin))
<1>1. Arrived(Origin, frame, sent.fate = "whole") /\ Given(Origin) /\ Len(frame) <= Len(f)
      /\ (sent.fate = "whole" <=> frame = f)
  BY DEF Copied, Arrived
<1>2. /\ n \in Nat /\ Len(f) \in Nat /\ n <= Len(f)
      /\ sent.key = None => f = b
      /\ sent.key # None => Len(f) = n + 1
  BY <1>1, FullFront, OriginIs
<1>3. SubSeq(f, 1, n) = b /\ Width(b) \in Nat
      /\ (sent.key # None => Width(f) = Width(b) + SignatureLength)
  BY <1>1, FullSealed, OriginIs
<1>4. Datagram(frame) /\ Len(frame) \in Nat
  BY FrameIsDatagram
<1>5. SignatureLength \in Nat /\ SignatureLength > 0
  BY DEF SignatureLength
<1>6. Width(frame) \in Nat
  BY <1>4, WidthOfFront
<1>7. ASSUME sent.fate = "whole" PROVE Room(Origin, frame, end)
  <2>1. frame = f
    BY <1>1, <1>7
  <2>2. Width(SubSeq(frame, 1, n)) = Width(b)
    BY <1>3, <2>1
  <2>3. Width(b) <= end
    <3>1. CASE sent.key = None
      <4>1. Width(frame) = Width(b)
        BY <1>2, <2>1, <3>1
      <4>2. end = Width(frame) - 0
        BY <3>1
      <4> HIDE DEF b
      <4>3. QED
        BY <1>3, <4>1, <4>2
    <3>2. CASE sent.key # None
      <4>1. Width(frame) = Width(b) + SignatureLength
        BY <1>3, <2>1, <3>2
      <4>2. end = Width(frame) - SignatureLength
        BY <3>2
      <4> HIDE DEF b
      <4>3. QED
        BY <1>3, <1>5, <4>1, <4>2
    <3>3. QED
      BY <3>1, <3>2
  <2>4. QED
    BY <1>2, <2>1, <2>2, <2>3 DEF Room
<1>8. ASSUME Room(Origin, frame, end) PROVE sent.fate = "whole"
  <2>1. n <= Len(frame) /\ Width(SubSeq(frame, 1, n)) <= end
    BY <1>8 DEF Room
  <2>2. Len(frame) = Len(f)
    <3>1. CASE sent.key = None
      <4>1. Len(f) = n
        BY <1>2, <3>1
      <4> HIDE DEF f, n
      <4>2. QED
        BY <1>1, <1>2, <1>4, <2>1, <4>1
    <3>2. CASE sent.key # None
      <4>1. SUFFICES ASSUME Len(frame) # Len(f) PROVE FALSE
        OBVIOUS
      <4>2. Len(f) = n + 1
        BY <1>2, <3>2
      <4>3. Len(frame) = n
        <5> HIDE DEF f, n
        <5>1. QED
          BY <1>1, <1>2, <1>4, <2>1, <4>1, <4>2
      <4>4. SubSeq(frame, 1, n) = frame
        <5>1. PICK S : frame \in Seq(S)
          BY <1>4, WidthsOfDatagram
        <5> HIDE DEF n
        <5>2. QED
          BY <4>3, <5>1
      <4>5. end = Width(frame) - SignatureLength
        BY <3>2
      <4>6. Width(frame) <= end
        BY <2>1, <4>4
      <4>7. QED
        BY <1>5, <1>6, <4>5, <4>6
    <3>3. QED
      BY <3>1, <3>2
  <2>3. QED
    BY <1>1, <1>4, <2>2, AllArrived
<1>9. QED
  BY <1>7, <1>8

NonceRead == IF There(3) THEN frame[reader.pos + 3].value ELSE 0

FourWant(nonce) ==
    <<<<"security flags", 1>>, <<"token", 4>>, <<"nonce length", 1>>, <<"nonce", nonce>>>>

SecurityWant(nonce, flags) ==
    If("security" \in reader.on,
       FourWant(nonce) \o If("footer" \in flags, <<<<"footer size", 2>>>>))

HeadOf(want) == want[1] = <<"security flags", 1>> /\ want[2] = <<"token", 4>>

\* Two that begin with the same two cells agree on them.
LEMMA SameHead ==
    ASSUME NEW want, HeadOf(want), NEW other, HeadOf(other)
    PROVE  \A i \in 1..2 : want[i] = other[i]
<1>1. want[1] = other[1] /\ want[2] = other[2]
  BY Zenon DEF HeadOf
<1>2. \A i \in 1..2 : i = 1 \/ i = 2
  OBVIOUS
<1>3. QED
  BY <1>1, <1>2, Zenon

\* Four pairs, and some more.
LEMMA FourAndMore ==
    ASSUME NEW nonce, nonce \in Nat, NEW more, more \in Wanted(Nat)
    PROVE  /\ FourWant(nonce) \o more \in Wanted(Nat) /\ FourWant(nonce) \o more # <<>>
           /\ Len(FourWant(nonce) \o more) \in Nat /\ Len(FourWant(nonce) \o more) > 3
           /\ DOMAIN (FourWant(nonce) \o more) = 1..Len(FourWant(nonce) \o more)
           /\ HeadOf(FourWant(nonce) \o more)
<1> DEFINE T == Kinds \X Nat
           a == <<"security flags", 1>>
           b == <<"token", 4>>
           c == <<"nonce length", 1>>
           d == <<"nonce", nonce>>
<1>1. a \in T /\ b \in T /\ c \in T /\ d \in T
  <2>1. {"security flags", "token", "nonce length", "nonce"} \subseteq Kinds /\ {1, 4} \subseteq Nat
    BY DEF Kinds, Skips, Numbers, FlagKinds
  <2>2. QED
    BY <2>1
<1>2. more \in Seq(T) /\ FourWant(nonce) = <<a, b, c, d>>
  BY DEF Wanted, FourWant
<1> HIDE DEF T, a, b, c, d
<1>3. <<a, b, c, d>> \in Seq(T) /\ Len(<<a, b, c, d>>) = 4
      /\ <<a, b, c, d>>[1] = a /\ <<a, b, c, d>>[2] = b
  BY <1>1
<1> DEFINE f == <<a, b, c, d>>
<1> HIDE DEF f
<1>4. f \in Seq(T) /\ Len(f) = 4 /\ f[1] = a /\ f[2] = b
  BY <1>3 DEF f
<1>5. /\ f \o more \in Seq(T) /\ Len(f \o more) = 4 + Len(more) /\ Len(more) \in Nat
      /\ (f \o more)[1] = f[1] /\ (f \o more)[2] = f[2]
  <2>1. f \in Seq(T) /\ more \in Seq(T) /\ Len(more) \in Nat /\ Len(f) = 4
    BY <1>2, <1>4
  <2>2. /\ f \o more \in Seq(T) /\ Len(f \o more) = Len(f) + Len(more)
        /\ \A i \in 1..Len(f) + Len(more) :
              (f \o more)[i] = IF i <= Len(f) THEN f[i] ELSE more[i - Len(f)]
    BY <2>1, ConcatProperties, Zenon
  <2>3. QED
    BY <2>1, <2>2
<1>6. HeadOf(f \o more)
  BY <1>4, <1>5, Zenon DEF HeadOf, a, b
<1>7. Len(f \o more) \in Nat /\ Len(f \o more) > 3 /\ DOMAIN (f \o more) = 1..Len(f \o more)
  BY <1>5
<1>8. f \o more # <<>>
  BY <1>7
<1>9. FourWant(nonce) = f
  BY <1>2 DEF f
<1>10. f \o more \in Wanted(Nat)
  BY <1>5 DEF Wanted, T
<1>11. QED
  BY <1>6, <1>7, <1>8, <1>9, <1>10, Zenon

\* What the security header wants suits the one that comes, and its flags are read.
LEMMA SecuritySuits ==
    ASSUME Framed, ~Sending, ReaderTyped, NEW s, Given(s), Upcoming(SecurityPart(s)),
           reader.on = On(s)
    PROVE  /\ Suits(SecurityHeader, SecurityPart(s))
           /\ Taken(SecurityHeader) /\ "security" \in On(s) =>
                 FlagsOf("security flags") = SecurityFlags(s)
<1> DEFINE part == SecurityPart(s)
           F == FlagsOf("security flags")
           want == SecurityHeader
           more == If("footer" \in F, <<<<"footer size", 2>>>>)
           less == If("footer" \in SecurityFlags(s), <<<<"footer size", 2>>>>)
<1>1. want = SecurityWant(NonceRead, F)
  BY DEF SecurityHeader, SecurityWant, FourWant, NonceRead
<1>2. /\ Fits(SecurityWant(Nonce(s), SecurityFlags(s)), part)
      /\ "security" \in On(s) => Holds(part, 1, "security flags", SecurityFlags(s))
      /\ "security" \in On(s) => Holds(part, 3, "nonce length", Nonce(s))
  BY SecurityFits DEF SecurityWant, FourWant
<1>3. more \in Wanted(Nat) /\ less \in Wanted(Nat)
  <2>1. "footer size" \in Kinds /\ 2 \in Nat
    BY DEF Kinds, Skips
  <2>2. <<<<"footer size", 2>>>> \in Wanted(Nat)
    BY <2>1, OneWanted
  <2>3. QED
    BY <2>2, JoinWanted, Zenon
<1>4. Nonce(s) \in Nat /\ 0 \in Nat
  BY DEF Nonce
<1>5. CASE "security" \notin On(s)
  <2>1. SecurityWant(NonceRead, F) = <<>> /\ SecurityWant(Nonce(s), SecurityFlags(s)) = <<>>
    BY <1>5 DEF SecurityWant, If
  <2> HIDE DEF want, part
  <2>2. Suits(want, part)
    BY <1>1, <1>2, <2>1, Zenon DEF Suits
  <2>3. QED
    BY <1>5, <2>2 DEF want, part
<1>6. ASSUME "security" \in On(s)
      PROVE  /\ part # <<>> /\ part \in Seq(Cells) /\ Len(part) \in Nat
             /\ 1 \in 1..Len(part) /\ 3 \in 1..Len(part)
             /\ want = FourWant(NonceRead) \o more
             /\ SecurityWant(Nonce(s), SecurityFlags(s)) = FourWant(Nonce(s)) \o less
             /\ There(1) => F = SecurityFlags(s)
             /\ There(3) => NonceRead = Nonce(s)
             /\ ~There(3) => NonceRead = 0
  <2>1. part # <<>> /\ part \in Seq(Cells) /\ Len(part) \in Nat /\ 1 \in 1..Len(part)
    BY <1>2, <1>6, HoldsSome, Zenon
  <2>2. 3 \in 1..Len(part)
    BY <1>2, <1>6, HoldsSome, Zenon
  <2>3. want = FourWant(NonceRead) \o more
    BY <1>1, <1>6 DEF SecurityWant, If
  <2>4. SecurityWant(Nonce(s), SecurityFlags(s)) = FourWant(Nonce(s)) \o less
    BY <1>6 DEF SecurityWant, If
  <2>5. There(1) => F = SecurityFlags(s)
    BY <1>2, <1>6, SeesFlags, Zenon
  <2>6. There(3) => reader.pos + 3 <= Len(frame)
    BY DEF There
  <2>7. There(3) => NonceRead = Nonce(s)
    <3>1. ASSUME There(3) PROVE frame[reader.pos + 3].value = Nonce(s)
      <4>1. Holds(part, 3, "nonce length", Nonce(s))
        BY <1>2, <1>6
      <4> HIDE DEF part
      <4>2. Upcoming(part)
        BY DEF part
      <4>3. reader.pos + 3 <= Len(frame)
        BY <2>6, <3>1
      <4>4. QED
        BY <4>1, <4>2, <4>3, Sees
    <3>2. ASSUME There(3) PROVE NonceRead = frame[reader.pos + 3].value
      BY <3>2 DEF NonceRead
    <3>3. QED
      BY <3>1, <3>2, Zenon
  <2>8. ~There(3) => NonceRead = 0
    BY DEF NonceRead
  <2>9. QED
    BY <2>1, <2>2, <2>3, <2>4, <2>5, <2>7, <2>8
<1>7. There(3) => There(1)
  <2>1. 1 \in 0..3
    OBVIOUS
  <2>2. QED
    BY <2>1, ThereFewer
<1> HIDE DEF want, part, F, more, less
<1>8. CASE "security" \in On(s) /\ ~There(1)
  <2>1. want \in Wanted(Nat) /\ want # <<>>
    BY <1>3, <1>4, <1>6, <1>7, <1>8, FourAndMore
  <2>2. Suits(want, part)
    BY <1>6, <1>8, <2>1, NothingThere
  <2>3. ~Taken(want)
    BY <1>6, <1>8, <2>2, NotTaken DEF part
  <2>4. QED
    BY <2>2, <2>3 DEF want, part
<1>9. CASE "security" \in On(s) /\ There(1) /\ ~There(3)
  <2> DEFINE good == FourWant(Nonce(s)) \o less
             bad == FourWant(0) \o more
  <2>1. want = bad /\ Fits(good, part) /\ F = SecurityFlags(s)
    BY <1>2, <1>6, <1>9
  <2>2. /\ Len(bad) \in Nat /\ 2 < Len(bad) /\ DOMAIN bad = 1..Len(bad)
        /\ HeadOf(bad)
    <3>1. Len(bad) \in Nat /\ Len(bad) > 3 /\ DOMAIN bad = 1..Len(bad) /\ HeadOf(bad)
      BY <1>3, <1>4, FourAndMore, Zenon
    <3> HIDE DEF bad
    <3>2. QED
      BY <3>1
  <2>3. HeadOf(good)
    BY <1>3, <1>4, FourAndMore, Zenon
  <2>4. good = Taking(part)
    BY <2>1 DEF Fits
  <2> HIDE DEF good, bad
  <2>5. \A i \in 1..2 : bad[i] = Taking(part)[i]
    BY <2>2, <2>3, <2>4, SameHead
  <2>6. 2 < Len(part)
    <3>1. Len(part) \in Nat /\ 3 \in 1..Len(part)
      BY <1>6, <1>9
    <3>2. QED
      BY <3>1
  <2>7. Starts(want, part, 2)
    BY <2>1, <2>2, <2>5, <2>6 DEF Starts
  <2>8. Suits(want, part)
    <3>1. ~There(2 + 1) /\ 2 \in Nat
      BY <1>9
    <3>2. QED
      BY <2>7, <3>1 DEF Suits
  <2>9. ~Taken(want)
    BY <1>6, <1>9, <2>8, NotTaken DEF part
  <2>10. QED
    BY <2>8, <2>9 DEF want, part
<1>10. CASE "security" \in On(s) /\ There(3)
  <2>1. F = SecurityFlags(s) /\ NonceRead = Nonce(s)
    BY <1>6, <1>7, <1>10
  <2>2. Fits(want, part)
    BY <1>1, <1>2, <2>1
  <2>3. QED
    BY <2>1, <2>2 DEF Suits, want, part, F
<1>11. QED
  BY <1>5, <1>8, <1>9, <1>10

\* A frame is signed if it says so.
LEMMA SecuritySaid ==
    ASSUME NEW s, Given(s)
    PROVE  /\ "security" \in On(s) <=> s.key # None
           /\ "signed" \in SecurityFlags(s)
<1>1. "security" \in On(s) <=> s.key # None
  <2>1. Own(s) => ("security" \in On(s) <=> s.key # None)
    BY OwnAnnounces
  <2>2. ~Own(s) => ("security" \in On(s) <=> s.key # None)
    BY ForeignAnnounces
  <2>3. QED
    BY <2>1, <2>2
<1>2. "signed" \in SecurityFlags(s)
  BY DEF SecurityFlags
<1>3. QED
  BY <1>1, <1>2

VerifiedNow == "security" \in reader.on /\ receiver.key # None /\ Verified(receiver.key)

SecuritySupported(flags, n) ==
    /\ "security" \in reader.on =>
          /\ "signed" \in flags /\ "encrypted" \notin flags
          /\ Width(SubSeq(frame, 1, reader.pos + n)) <= EndOfPayload
    /\ SignatureHolds(VerifiedNow)

\* A signed frame that arrived whole is taken by who has its key, or none and requires none.
LEMMA SecurityJudged ==
    ASSUME Given(Origin), frame = Full(Origin), reader.on = On(Origin), receiver \in Receivers,
           NEW n, Width(SubSeq(frame, 1, reader.pos + n)) <= EndOfPayload
    PROVE  /\ SecuritySupported(SecurityFlags(Origin), n) <=> SecurityTaken(Origin, receiver)
           /\ SecurityTaken(Origin, receiver) =>
                 (IF VerifiedNow THEN TRUE ELSE None) = VerifiedOf(Origin, receiver)
<1>1. /\ "security" \in reader.on <=> sent.key # None
      /\ "signed" \in SecurityFlags(Origin) /\ Origin.key = sent.key
  BY SecuritySaid, OriginIs
<1>2. receiver.require => receiver.key # None
  BY WireConstants
<1>3. VerifiedNow <=> sent.key # None /\ receiver.key # None /\ receiver.key = sent.key
  BY <1>1, VerifiedByKey DEF VerifiedNow
<1>4. SignatureHolds(VerifiedNow) <=>
         /\ sent.key # None /\ receiver.key # None => VerifiedNow
         /\ receiver.require => VerifiedNow
  BY <1>1 DEF SignatureHolds
<1>5. SecurityTaken(Origin, receiver) <=>
         /\ sent.key # None => "encrypted" \notin SecurityFlags(Origin)
         /\ sent.key # None /\ receiver.key # None => sent.key = receiver.key
         /\ receiver.require => sent.key = receiver.key
  BY <1>1 DEF SecurityTaken
<1>6. SecuritySupported(SecurityFlags(Origin), n) <=>
         /\ sent.key # None => "encrypted" \notin SecurityFlags(Origin)
         /\ SignatureHolds(VerifiedNow)
  BY <1>1 DEF SecuritySupported
<1>7. VerifiedOf(Origin, receiver) = IF sent.key # None /\ receiver.key # None THEN TRUE ELSE None
  BY <1>1 DEF VerifiedOf
<1>8. SecuritySupported(SecurityFlags(Origin), n) <=> SecurityTaken(Origin, receiver)
  BY <1>2, <1>3, <1>4, <1>5, <1>6, Zenon
<1>9. ASSUME SecurityTaken(Origin, receiver)
      PROVE  (IF VerifiedNow THEN TRUE ELSE None) = VerifiedOf(Origin, receiver)
  <2>1. VerifiedNow <=> sent.key # None /\ receiver.key # None
    BY <1>3, <1>5, <1>9, Zenon
  <2>2. CASE VerifiedNow
    BY <1>7, <2>1, <2>2, Zenon
  <2>3. CASE ~VerifiedNow
    BY <1>7, <2>1, <2>3, Zenon
  <2>4. QED
    BY <2>2, <2>3
<1>10. QED
  BY <1>8, <1>9

\* The security header, and the end of the payload.
LEMMA TrackSecurity == Inv /\ Track /\ DecodeSecurity => Track' /\ Judged'
<1> SUFFICES ASSUME Inv, Track, DecodeSecurity PROVE Track' /\ Judged'
  OBVIOUS
<1> DEFINE want == SecurityHeader
           flags == FlagsOf("security flags")
           supported == SecuritySupported(flags, Len(want))
           security == "security" \in reader.on
           token == Got(want, "token", 0)
           verified == IF VerifiedNow THEN TRUE ELSE None
           part == SecurityPart(Origin)
           rest == FromSizes(Origin)
<1>1. pc = "security" /\ pc \in Sections /\ pc \in Fresh
  BY DEF DecodeSecurity, Sections, Fresh
<1>2. \/ Fails(want, supported)
      \/ /\ Goes(want, supported, "sizes")
         /\ reader' = [Pass(want) EXCEPT !.end = EndOfPayload]
         /\ message' = [message EXCEPT !.signed = security, !.token = token, !.verified = verified]
  BY DEF DecodeSecurity, SecuritySupported, VerifiedNow
<1>3. /\ Framed /\ ~Sending /\ ReaderTyped /\ MessageTyped /\ reader.pos \in Nat
      /\ Len(frame) \in Nat /\ reader.end \in Nat
  BY <1>1, SectionReads DEF ReaderTyped
<1>4. ASSUME sent.fate # "damaged"
      PROVE  /\ Copied /\ Given(Origin) /\ part \in Seq(Cells) /\ rest \in Seq(Cells)
             /\ Comes(part \o rest) /\ PastPayload /\ Upcoming(part) /\ Suits(want, part)
             /\ reader.on = On(Origin) /\ reader.end = Width(frame)
             /\ Taken(want) /\ security => flags = SecurityFlags(Origin)
             /\ Taken(want) => Fits(want, part) /\ Len(want) = Len(part)
             /\ security <=> sent.key # None
  <2>1. Copied /\ Comes(FromSecurity(Origin)) /\ PastPayload
    BY <1>1, <1>4 DEF Track
  <2>2. Given(Origin) /\ reader.end = Width(frame)
    BY <1>1, <2>1 DEF Copied, Arrived
  <2>3. part \in Seq(Cells) /\ rest \in Seq(Cells) /\ Comes(part \o rest)
    BY <2>1, <2>2, PartsAreCells DEF FromSecurity
  <2>4. Upcoming(part)
    BY <1>1, <2>1, <2>3, Facing
  <2>5. reader.on = On(Origin)
    BY <2>1 DEF PastPayload, PastGroup, PastId, PastHeader
  <2>6. Suits(want, part) /\ (Taken(want) /\ security => flags = SecurityFlags(Origin))
    BY <1>3, <2>2, <2>4, <2>5, SecuritySuits
  <2>7. security <=> sent.key # None
    BY <2>2, <2>5, SecuritySaid, OriginIs
  <2> HIDE DEF want, part, flags, security
  <2>8. Taken(want) => Fits(want, part)
    BY <1>3, <2>4, <2>6, Reads
  <2>9. Fits(want, part) => Len(want) = Len(part)
    BY TakingOne DEF Fits
  <2>10. QED
    BY <2>1, <2>2, <2>3, <2>4, <2>5, <2>6, <2>7, <2>8, <2>9
<1>5. ASSUME sent.fate # "damaged"
      PROVE  Room(Origin, frame, EndOfPayload) <=> sent.fate = "whole"
  <2>1. EndOfPayload = Width(frame) - (IF sent.key # None THEN SignatureLength ELSE 0)
    BY <1>4, <1>5 DEF EndOfPayload
  <2>2. QED
    BY <1>3, <1>4, <1>5, <2>1, RoomIsWhole
<1>6. ASSUME sent.fate = "whole", Taken(want)
      PROVE  /\ supported <=> SecurityTaken(Origin, receiver)
             /\ SecurityTaken(Origin, receiver) => verified = VerifiedOf(Origin, receiver)
  <2>1. sent.fate # "damaged"
    BY <1>6
  <2>2. Len(want) = Len(part) /\ EndOfPayload \in Int
    <3>1. Len(want) = Len(part)
      BY <1>4, <1>6, <2>1
    <3>2. EndOfPayload \in Int
      BY <1>3 DEF EndOfPayload, SignatureLength
    <3>3. QED
      BY <3>1, <3>2
  <2>3. Width(SubSeq(frame, 1, reader.pos + Len(want))) <= EndOfPayload
    <3> HIDE DEF want, part, rest
    <3>1. Room(Origin, frame, EndOfPayload)
      BY <1>5, <1>6, <2>1
    <3>2. QED
      BY <1>3, <1>4, <2>1, <2>2, <3>1, RoomBefore
  <2>4. frame = Full(Origin) /\ Given(Origin) /\ reader.on = On(Origin)
    BY <1>4, <1>6, <2>1 DEF Copied, Arrived
  <2>5. receiver \in Receivers
    BY <1>3 DEF Inv, Typed
  <2>6. /\ SecuritySupported(SecurityFlags(Origin), Len(want)) <=> SecurityTaken(Origin, receiver)
        /\ SecurityTaken(Origin, receiver) => verified = VerifiedOf(Origin, receiver)
    <3> HIDE DEF want
    <3>1. QED
      BY <2>3, <2>4, <2>5, SecurityJudged
  <2>7. CASE security
    <3>1. flags = SecurityFlags(Origin)
      BY <1>4, <1>6, <2>1, <2>7
    <3>2. QED
      BY <2>6, <3>1
  <2>8. CASE ~security
    <3>1. supported <=> SecuritySupported(SecurityFlags(Origin), Len(want))
      BY <2>8 DEF SecuritySupported
    <3>2. QED
      BY <2>6, <3>1
  <2>9. QED
    BY <2>7, <2>8
<1>7. ASSUME Fails(want, supported) PROVE Track' /\ Judged'
  <2>1. sent.fate = "whole" /\ Taken(want) /\ ~supported => ~Accepts(Origin, receiver)
    BY <1>6 DEF Accepts
  <2> HIDE DEF want, part, rest, supported
  <2>2. QED
    BY <1>1, <1>4, <1>7, <2>1, FailsWell
<1>8. ASSUME Goes(want, supported, "sizes"), sent.fate # "damaged",
             reader' = [Pass(want) EXCEPT !.end = EndOfPayload],
             message' = [message EXCEPT !.signed = security, !.token = token, !.verified = verified]
      PROVE  Track' /\ Judged'
  <2>1. /\ Fits(want, part) /\ supported
        /\ Taken(want) /\ Origin' = Origin /\ frame' = frame /\ sent' = sent
        /\ receiver' = receiver /\ pc' = "sizes"
        /\ Ahead(Body(Origin), reader.pos + Len(want), rest)
    <3> HIDE DEF want, part, rest, supported
    <3>1. QED
      BY <1>1, <1>4, <1>8, GoesWell
  <2>2. /\ reader'.pos = reader.pos + Len(want) /\ reader'.end = EndOfPayload
        /\ reader'.on = reader.on /\ reader'.count = reader.count
        /\ reader'.writers = reader.writers
    <3> HIDE DEF want
    <3>1. ReaderHas([Pass(want) EXCEPT !.end = EndOfPayload], reader.pos + Len(want),
                    EndOfPayload, reader.on, reader.count, reader.writers, reader.left)
      BY <1>3, ReaderEdited, Zenon
    <3>2. reader' = [Pass(want) EXCEPT !.end = EndOfPayload]
      BY <1>8
    <3>3. QED
      BY <3>1, <3>2 DEF ReaderHas
  <2>3. /\ message'.pid_type = message.pid_type /\ message'.pid = message.pid
        /\ message'.group = message.group /\ message'.sequence = message.sequence
        /\ message'.signed = security /\ message'.token = token /\ message'.verified = verified
    <3> HIDE DEF security, token, verified
    <3>1. MessageHas([message EXCEPT !.signed = security, !.token = token, !.verified = verified],
                     message.pid, message.pid_type, message.group, message.sequence,
                     message.messages, security, verified, token)
      BY <1>3, MessageEdited, Zenon
    <3>2. message' = [message EXCEPT !.signed = security, !.token = token, !.verified = verified]
      BY <1>8
    <3>3. QED
      BY <3>1, <3>2 DEF MessageHas
  <2>4. /\ security => Carries(part, "token", Token(Origin))
        /\ ~security => Lacks(part, "token")
    BY <1>4, <1>8, SecurityFits
  <2>5. token = IF security THEN Token(Origin) ELSE 0
    <3> HIDE DEF want, part, security
    <3>1. /\ Lacks(part, "token") => Got(want, "token", 0) = 0
          /\ \A value : Carries(part, "token", value) => Got(want, "token", 0) = value
      BY <1>3, <1>4, <1>8, <2>1, GotCarried
    <3>2. QED
      BY <2>4, <3>1
  <2>6. sent.fate = "whole" => SecurityTaken(Origin, receiver) /\ verified = VerifiedOf(Origin, receiver)
    BY <1>6, <2>1
  <2>7. token = IF sent.key # None THEN Token(Origin) ELSE 0
    BY <1>4, <1>8, <2>5
  <2>8. security = (sent.key # None)
    <3>1. security <=> sent.key # None
      BY <1>4, <1>8
    <3>2. QED
      BY <3>1
  <2> HIDE DEF want, part, flags, security, token, verified, supported
  <2>9. PastSecurity'
    <3>1. PastPayload'
      BY <1>4, <1>8, <2>1, <2>2, <2>3 DEF PastPayload, PastGroup, PastId, PastHeader
    <3>2. QED
      BY <2>1, <2>3, <2>6, <2>7, <2>8, <3>1 DEF PastSecurity
  <2>10. Copied'
    <3>1. Arrived(Origin', frame', sent'.fate = "whole")
      BY <1>4, <1>8, <2>1 DEF Copied
    <3>2. Room(Origin', frame', reader'.end) <=> sent'.fate = "whole"
      BY <1>5, <1>8, <2>1, <2>2
    <3>3. pc' \notin Fresh
      BY <2>1 DEF Fresh
    <3>4. QED
      BY <3>1, <3>2, <3>3 DEF Copied
  <2>11. Comes(FromSizes(Origin))'
    BY <2>1, <2>2 DEF Comes, rest
  <2>12. QED
    BY <2>1, <2>9, <2>10, <2>11 DEF Track, Judged, Ends
<1>9. QED
  <2>1. Goes(want, supported, "sizes") => sent' = sent
    BY DEF Goes
  <2> HIDE DEF want, flags, part, rest, supported, security, token, verified
  <2>2. QED
    BY <1>2, <1>7, <1>8, <2>1, DamagedSaysNothing

SizesWant == If("payload header" \in reader.on /\ reader.count > 1, [i \in 1..reader.count |-> <<"size", 2>>])

\* Before the first message there is none.
LEMMA NoneBefore ==
    ASSUME NEW s, Given(s)
    PROVE  MessagesOf(s, 0) = <<>> /\ MessagesTaken(s, 0) /\ 0 < Count(s) /\ Len(<<>>) = 0
<1>1. \A i \in 1..0 : FALSE
  OBVIOUS
<1>2. MessagesTaken(s, 0)
  BY <1>1, Zenon DEF MessagesTaken
<1>3. MessagesOf(s, 0) = <<>>
  <2>1. MessagesOf(s, 0) = [n \in 1..0 |-> MessageOf(s, n, FieldsOf(s, n, Fields(s, n)))]
    BY DEF MessagesOf
  <2>2. \A f : [n \in 1..0 |-> f[n]] = <<>>
    OBVIOUS
  <2> DEFINE g == [n \in 1..0 |-> MessageOf(s, n, FieldsOf(s, n, Fields(s, n)))]
  <2>3. g = [n \in 1..0 |-> g[n]]
    BY <1>1, Zenon
  <2> HIDE DEF g
  <2>4. g = <<>>
    BY <2>2, <2>3
  <2>5. QED
    BY <2>1, <2>4 DEF g
<1>4. 0 < Count(s)
  BY GivenTyped
<1>5. QED
  BY <1>2, <1>3, <1>4

\* The sizes of several messages, skipped.
LEMMA TrackSizes == Inv /\ Track /\ DecodeSizes => Track' /\ Judged'
<1> SUFFICES ASSUME Inv, Track, DecodeSizes PROVE Track' /\ Judged'
  OBVIOUS
<1> DEFINE want == SizesWant
           part == SizesPart(Origin)
           rest == MessagesFrom(Origin, 0)
<1>1. pc = "sizes" /\ pc \in Sections /\ pc \notin Fresh
  BY DEF DecodeSizes, Sections, Fresh
<1>2. \/ Fails(want, TRUE)
      \/ Goes(want, TRUE, "message") /\ reader' = Pass(want) /\ UNCHANGED message
  BY DEF DecodeSizes, SizesWant
<1>3. /\ Framed /\ ~Sending /\ ReaderTyped /\ MessageTyped /\ reader.pos \in Nat /\ Len(frame) \in Nat
      /\ message.messages = <<>>
  BY <1>1, SectionReads DEF Inv, Progress
<1>4. ASSUME sent.fate # "damaged"
      PROVE  /\ Copied /\ Given(Origin) /\ part \in Seq(Cells) /\ rest \in Seq(Cells)
             /\ Comes(part \o rest) /\ PastSecurity /\ Suits(want, part)
  <2>1. Copied /\ Comes(FromSizes(Origin)) /\ PastSecurity
    BY <1>1, <1>4 DEF Track
  <2>2. Given(Origin)
    BY <2>1 DEF Copied, Arrived
  <2>3. part \in Seq(Cells) /\ rest \in Seq(Cells) /\ Comes(part \o rest)
    <3>1. part \in Seq(Cells)
      BY <2>2, SizesFits DEF Fits
    <3>2. rest \in Seq(Cells)
      BY <2>2, MessagesOneByOne, GivenTyped
    <3>3. QED
      BY <2>1, <3>1, <3>2 DEF FromSizes
  <2>4. reader.on = On(Origin) /\ reader.count = Count(Origin)
    BY <2>1 DEF PastSecurity, PastPayload, PastGroup, PastId, PastHeader
  <2>5. Suits(want, part)
    BY <2>2, <2>4, SizesFits DEF SizesWant, Suits
  <2>6. QED
    BY <2>1, <2>2, <2>3, <2>5
<1>5. ASSUME Fails(want, TRUE) PROVE Track' /\ Judged'
  <2> HIDE DEF want, part, rest
  <2>1. QED
    BY <1>1, <1>4, <1>5, FailsWell
<1>6. ASSUME Goes(want, TRUE, "message"), UNCHANGED message, reader' = Pass(want),
             sent.fate # "damaged"
      PROVE  Track' /\ Judged'
  <2>1. /\ Origin' = Origin /\ frame' = frame /\ sent' = sent
        /\ receiver' = receiver /\ pc' = "message"
        /\ Ahead(Body(Origin), reader.pos + Len(want), rest)
    <3> HIDE DEF want, part, rest
    <3>1. QED
      BY <1>1, <1>4, <1>6, GoesWell
  <2>2. /\ reader'.pos = reader.pos + Len(want) /\ reader'.end = reader.end /\ reader'.on = reader.on
        /\ reader'.count = reader.count /\ reader'.writers = reader.writers
    <3> HIDE DEF want
    <3>1. QED
      BY <1>3, <1>6, ReaderEdited, Zenon DEF ReaderHas
  <2> HIDE DEF want, part
  <2>3. PastSecurity'
    BY <1>4, <1>6, <2>1, <2>2 DEF PastSecurity, PastPayload, PastGroup, PastId, PastHeader
  <2>4. Copied'
    BY <1>1, <1>4, <1>6, <2>1, <2>2, CopiedOn DEF Fresh
  <2>5. BetweenMessages'
    <3>1. message'.messages = <<>>
      BY <1>3, <1>6
    <3>2. Current' = 0
      BY <3>1 DEF Current
    <3>3. Comes(MessagesFrom(Origin, Current))'
      BY <2>1, <2>2, <3>2 DEF Comes, rest
    <3>4. Current' < Count(Origin') /\ MessagesTaken(Origin', Current')
          /\ message'.messages = MessagesOf(Origin', Current')
      BY <1>4, <1>6, <2>1, <3>1, <3>2, NoneBefore
    <3>5. QED
      BY <2>3, <3>3, <3>4 DEF BetweenMessages
  <2>6. QED
    BY <2>1, <2>4, <2>5 DEF Track, Judged, Ends
<1>7. QED
  <2>1. Goes(want, TRUE, "message") => sent' = sent
    BY DEF Goes
  <2> HIDE DEF want, part, rest
  <2>2. QED
    BY <1>2, <1>5, <1>6, <2>1, DamagedSaysNothing

-----------------------------------------------------------------------------
(* What a section wants begins with the cells that announce the others.       *)

Begins(want, head) ==
    /\ want \in Wanted(Nat) /\ head \in Wanted(Nat)
    /\ Len(want) \in Nat /\ Len(head) \in Nat /\ Len(head) <= Len(want)
    /\ \A i \in 1..Len(head) : want[i] = head[i]

\* A head begins with itself,
LEMMA BeginsSelf ==
    ASSUME NEW head, head \in Wanted(Nat)
    PROVE  Begins(head, head)
BY DEF Begins, Wanted

\* still begins what it began when more follows,
LEMMA BeginsOn ==
    ASSUME NEW want, NEW head, Begins(want, head), NEW more, more \in Wanted(Nat)
    PROVE  Begins(want \o more, head)
<1> DEFINE T == Kinds \X Nat
<1>1. /\ want \in Seq(T) /\ more \in Seq(T) /\ Len(want) \in Nat /\ Len(head) \in Nat
      /\ Len(head) <= Len(want) /\ \A i \in 1..Len(head) : want[i] = head[i]
  BY DEF Begins, Wanted
<1> HIDE DEF T
<1>2. /\ want \o more \in Seq(T) /\ Len(want \o more) = Len(want) + Len(more)
      /\ Len(more) \in Nat /\ Len(want \o more) \in Nat
      /\ \A i \in 1..Len(want) + Len(more) :
            (want \o more)[i] = IF i <= Len(want) THEN want[i] ELSE more[i - Len(want)]
  <2>1. /\ want \o more \in Seq(T) /\ Len(want \o more) = Len(want) + Len(more)
        /\ \A i \in 1..Len(want) + Len(more) :
              (want \o more)[i] = IF i <= Len(want) THEN want[i] ELSE more[i - Len(want)]
    BY <1>1, ConcatProperties
  <2>2. QED
    BY <1>1, <2>1, LenProperties
<1>3. \A i \in 1..Len(head) : (want \o more)[i] = head[i]
  BY <1>1, <1>2
<1>4. Len(head) <= Len(want \o more)
  BY <1>1, <1>2
<1>5. want \o more \in Wanted(Nat) /\ head \in Wanted(Nat)
  BY <1>2 DEF Begins, Wanted, T
<1>6. QED
  BY <1>1, <1>2, <1>3, <1>4, <1>5 DEF Begins

\* Two that begin alike, of which one is what the part was written in.
LEMMA BeginsStarts ==
    ASSUME NEW want, NEW good, NEW head, Begins(want, head), Begins(good, head),
           NEW part, Fits(good, part), NEW n, n \in Nat, n < Len(head)
    PROVE  Starts(want, part, n)
<1>1. good = Taking(part) /\ Len(good) = Len(part)
  BY TakingOne DEF Fits
<1>2. /\ Len(want) \in Nat /\ Len(head) \in Nat /\ Len(good) \in Nat
      /\ Len(head) <= Len(want) /\ Len(head) <= Len(good)
      /\ \A i \in 1..Len(head) : want[i] = head[i] /\ good[i] = head[i]
  BY DEF Begins
<1>3. DOMAIN want = 1..Len(want)
  BY DEF Begins, Wanted
<1>4. \A i \in 1..n : want[i] = good[i]
  BY <1>2
<1>5. n < Len(part) /\ n < Len(want)
  BY <1>1, <1>2
<1>6. QED
  BY <1>1, <1>2, <1>3, <1>4, <1>5 DEF Starts

\* and is not empty where it has a cell.
LEMMA BeginsSome ==
    ASSUME NEW want, NEW head, Begins(want, head), 0 < Len(head)
    PROVE  want \in Wanted(Nat) /\ want # <<>>
<1>1. Len(want) > 0
  BY DEF Begins
<1>2. Len(<<>>) = 0
  OBVIOUS
<1>3. QED
  BY <1>1, <1>2 DEF Begins

\* One pair, or two, or three.
LEMMA HeadsLong ==
    ASSUME NEW a, NEW b, NEW c, <<a>> \in Wanted(Nat), <<b>> \in Wanted(Nat), <<c>> \in Wanted(Nat)
    PROVE  /\ Len(<<a>>) = 1 /\ Len(<<a>> \o <<b>>) = 2 /\ Len(<<a>> \o <<b>> \o <<c>>) = 3
           /\ <<a>> \o <<b>> \in Wanted(Nat) /\ <<a>> \o <<b>> \o <<c>> \in Wanted(Nat)
           /\ <<a>> \o <<>> = <<a>> /\ <<a>> \o <<b>> \o <<>> = <<a>> \o <<b>>
           /\ <<>> \o <<a>> = <<a>>
<1> DEFINE T == Kinds \X Nat
<1>1. <<a>> \in Seq(T) /\ <<b>> \in Seq(T) /\ <<c>> \in Seq(T)
  BY DEF Wanted
<1> HIDE DEF T
<1>2. a \in T /\ b \in T /\ c \in T
  BY <1>1
<1>3. \A s, t \in Seq(T) : /\ s \o t \in Seq(T) /\ Len(s \o t) = Len(s) + Len(t)
                           /\ s \o <<>> = s /\ <<>> \o s = s
  OBVIOUS
<1>4. Len(<<a>>) = 1 /\ Len(<<b>>) = 1 /\ Len(<<c>>) = 1
  OBVIOUS
<1>5. <<a>> \o <<b>> \in Seq(T) /\ Len(<<a>> \o <<b>>) = 2 /\ <<a>> \o <<b>> \o <<>> = <<a>> \o <<b>>
      /\ <<a>> \o <<>> = <<a>> /\ <<>> \o <<a>> = <<a>>
  BY <1>1, <1>3, <1>4
<1>6. <<a>> \o <<b>> \o <<c>> \in Seq(T) /\ Len(<<a>> \o <<b>> \o <<c>>) = 3
  BY <1>1, <1>3, <1>4, <1>5
<1>7. QED
  BY <1>4, <1>5, <1>6 DEF Wanted, T

\* What a message wants first.
MessageHead(flags1) == <<<<"flags1", 1>>>> \o If("flags2" \in flags1, <<<<"flags2", 1>>>>)

\* What a DataSetMessage wants begins with its flags.
LEMMA MessageBegins ==
    ASSUME NEW flags1, NEW flags2
    PROVE  /\ Begins(MessageWant(flags1, flags2), MessageHead(flags1))
           /\ Len(MessageHead(flags1)) = IF "flags2" \in flags1 THEN 2 ELSE 1
<1> DEFINE a == <<<<"flags1", 1>>>>
           b == <<<<"flags2", 1>>>>
           q == If("sequence" \in flags1, <<<<"sequence", 2>>>>)
           t == If("timestamp" \in flags2, <<<<"timestamp", 8>>>>)
           p == If("picoseconds" \in flags2, <<<<"picoseconds", 2>>>>)
           u == If("status" \in flags1, <<<<"message status", 2>>>>)
           j == If("major" \in flags1, <<<<"major", 4>>>>)
           i == If("minor" \in flags1, <<<<"minor", 4>>>>)
           c == If(~("keep alive" \in flags2), <<<<"field count", 2>>>>)
           head == MessageHead(flags1)
<1>1. /\ {"flags1", "flags2", "sequence", "timestamp", "picoseconds", "message status", "major",
          "minor", "field count"} \subseteq Kinds
      /\ {1, 2, 4, 8} \subseteq Nat
  BY DEF Kinds, Numbers, Skips, FlagKinds
<1>2. a \in Wanted(Nat) /\ b \in Wanted(Nat)
  BY <1>1, OneWanted
<1>3. /\ q \in Wanted(Nat) /\ t \in Wanted(Nat) /\ p \in Wanted(Nat) /\ u \in Wanted(Nat)
      /\ j \in Wanted(Nat) /\ i \in Wanted(Nat) /\ c \in Wanted(Nat)
  <2>1. /\ <<<<"sequence", 2>>>> \in Wanted(Nat) /\ <<<<"timestamp", 8>>>> \in Wanted(Nat)
        /\ <<<<"picoseconds", 2>>>> \in Wanted(Nat) /\ <<<<"message status", 2>>>> \in Wanted(Nat)
        /\ <<<<"major", 4>>>> \in Wanted(Nat) /\ <<<<"minor", 4>>>> \in Wanted(Nat)
        /\ <<<<"field count", 2>>>> \in Wanted(Nat)
    BY <1>1, OneWanted
  <2>2. QED
    BY <2>1, JoinWanted, Zenon
<1>4. MessageWant(flags1, flags2) = head \o q \o t \o p \o u \o j \o i \o c
  BY DEF MessageWant, MessageHead
<1>5. head = a \o If("flags2" \in flags1, b)
  BY DEF MessageHead
<1>6. Len(a) = 1 /\ Len(a \o b) = 2 /\ a \o <<>> = a
  BY <1>2, HeadsLong
<1> HIDE DEF a, b, q, t, p, u, j, i, c, head
<1>7. head \in Wanted(Nat)
  BY <1>2, <1>5, JoinWanted, Zenon
<1>8. Begins(head \o q \o t \o p \o u \o j \o i \o c, head)
  <2>1. Begins(head \o q, head)
    BY <1>3, <1>7, BeginsSelf, BeginsOn, Zenon
  <2>2. Begins(head \o q \o t \o p, head)
    BY <1>3, <2>1, BeginsOn, Zenon
  <2>3. Begins(head \o q \o t \o p \o u \o j, head)
    BY <1>3, <2>2, BeginsOn, Zenon
  <2>4. QED
    BY <1>3, <2>3, BeginsOn, Zenon
<1>9. Len(head) = IF "flags2" \in flags1 THEN 2 ELSE 1
  BY <1>5, <1>6 DEF If
<1>10. QED
  BY <1>4, <1>8, <1>9 DEF head

\* What a field wants first.
FieldHead(datavalue, mask, array) ==
    If(datavalue, <<<<"DataValue", 1>>>>) \o If("value" \in mask, <<<<"variant", 1>>>>)
    \o If(array, <<<<"array length", 4>>>>)

\* What a field wants begins with its mask, its type and its length.
LEMMA FieldBegins ==
    ASSUME NEW datavalue, NEW mask, NEW variant, NEW count, count \in Nat,
           count = 0 \/ ScalarSize[variant[2]] \in Nat
    PROVE  Begins(FieldWant(datavalue, mask, variant, count),
                  FieldHead(datavalue, mask, variant[1] = "array"))
<1> DEFINE d == If(datavalue, <<<<"DataValue", 1>>>>)
           v == If("value" \in mask, <<<<"variant", 1>>>>)
           a == If(variant[1] = "array", <<<<"array length", 4>>>>)
           z == [i \in 1..count |-> <<"scalar", ScalarSize[variant[2]]>>]
           u == If("status" \in mask, <<<<"status", 4>>>>)
           t == If("time" \in mask, <<<<"time", 8>>>>)
           o == If("server time" \in mask, <<<<"server time", 8>>>>)
           p == If("picoseconds" \in mask, <<<<"picoseconds", 2>>>>)
           head == d \o v \o a
<1>1. /\ {"DataValue", "variant", "array length", "scalar", "status", "time", "server time",
          "picoseconds"} \subseteq Kinds
      /\ {1, 2, 4, 8} \subseteq Nat
  BY DEF Kinds, Numbers, Skips, FlagKinds
<1>2. /\ d \in Wanted(Nat) /\ v \in Wanted(Nat) /\ a \in Wanted(Nat) /\ u \in Wanted(Nat)
      /\ t \in Wanted(Nat) /\ o \in Wanted(Nat) /\ p \in Wanted(Nat)
  <2>1. /\ <<<<"DataValue", 1>>>> \in Wanted(Nat) /\ <<<<"variant", 1>>>> \in Wanted(Nat)
        /\ <<<<"array length", 4>>>> \in Wanted(Nat) /\ <<<<"status", 4>>>> \in Wanted(Nat)
        /\ <<<<"time", 8>>>> \in Wanted(Nat) /\ <<<<"server time", 8>>>> \in Wanted(Nat)
        /\ <<<<"picoseconds", 2>>>> \in Wanted(Nat)
    BY <1>1, OneWanted
  <2>2. QED
    BY <2>1, JoinWanted, Zenon
<1>3. z \in Wanted(Nat)
  <2> DEFINE w == ScalarSize[variant[2]]
  <2>1. CASE count = 0
    <3>1. z = [i \in 1..0 |-> <<"scalar", w>>]
      BY <2>1
    <3>2. \A i \in 1..0 : <<"scalar", w>> = <<"scalar", 1>>
      OBVIOUS
    <3>3. [i \in 1..0 |-> <<"scalar", w>>] = [i \in 1..0 |-> <<"scalar", 1>>]
      BY <3>2, Zenon
    <3>4. [i \in 1..0 |-> <<"scalar", 1>>] \in Wanted(Nat)
      <4>1. "scalar" \in Kinds /\ 1 \in Nat /\ 0 \in Nat
        BY <1>1
      <4>2. QED
        BY <4>1, RepeatedWanted
    <3>5. QED
      BY <3>1, <3>3, <3>4
  <2>2. CASE w \in Nat
    <3>1. "scalar" \in Kinds
      BY <1>1
    <3> HIDE DEF w
    <3>2. [i \in 1..count |-> <<"scalar", w>>] \in Wanted(Nat)
      BY <2>2, <3>1, RepeatedWanted
    <3>3. QED
      BY <3>2 DEF w
  <2>3. QED
    BY <2>1, <2>2
<1>4. FieldWant(datavalue, mask, variant, count) = head \o z \o u \o t \o o \o p
  BY DEF FieldWant
<1>5. FieldHead(datavalue, mask, variant[1] = "array") = head
  BY DEF FieldHead
<1> HIDE DEF d, v, a, z, u, t, o, p
<1>6. head \in Wanted(Nat)
  BY <1>2, JoinWanted, Zenon
<1> HIDE DEF head
<1>7. Begins(head \o z \o u \o t \o o \o p, head)
  <2>1. Begins(head \o z, head)
    BY <1>3, <1>6, BeginsSelf, BeginsOn, Zenon
  <2>2. Begins(head \o z \o u \o t, head)
    BY <1>2, <2>1, BeginsOn, Zenon
  <2>3. QED
    BY <1>2, <2>2, BeginsOn, Zenon
<1>8. QED
  BY <1>4, <1>5, <1>7

\* How many cells announce a field.
LEMMA FieldHeadLong ==
    ASSUME NEW datavalue, NEW mask, NEW array
    PROVE  /\ datavalue /\ "value" \notin mask /\ ~array => Len(FieldHead(datavalue, mask, array)) = 1
           /\ ~datavalue /\ "value" \in mask /\ ~array => Len(FieldHead(datavalue, mask, array)) = 1
           /\ datavalue /\ "value" \in mask /\ ~array => Len(FieldHead(datavalue, mask, array)) = 2
           /\ ~datavalue /\ "value" \in mask /\ array => Len(FieldHead(datavalue, mask, array)) = 2
           /\ datavalue /\ "value" \in mask /\ array => Len(FieldHead(datavalue, mask, array)) = 3
<1> DEFINE d == <<<<"DataValue", 1>>>>
           v == <<<<"variant", 1>>>>
           a == <<<<"array length", 4>>>>
<1>1. d \in Wanted(Nat) /\ v \in Wanted(Nat) /\ a \in Wanted(Nat)
  <2>1. {"DataValue", "variant", "array length"} \subseteq Kinds /\ {1, 4} \subseteq Nat
    BY DEF Kinds, Numbers, FlagKinds
  <2>2. QED
    BY <2>1, OneWanted
<1>2. /\ Len(d) = 1 /\ Len(v) = 1 /\ Len(d \o v) = 2 /\ Len(d \o v \o a) = 3 /\ Len(v \o a) = 2
      /\ d \o <<>> = d /\ d \o v \o <<>> = d \o v /\ <<>> \o v = v /\ v \o <<>> = v
  BY <1>1, HeadsLong, ZenonT(30)
<1>3. FieldHead(datavalue, mask, array) = If(datavalue, d) \o If("value" \in mask, v) \o If(array, a)
  BY DEF FieldHead
<1> HIDE DEF d, v, a
<1>4. QED
  BY <1>2, <1>3 DEF If

-----------------------------------------------------------------------------
(* What has been made of the messages and fields so far, one more at a time.  *)

\* A list by its number of elements grows by one at its end.
LEMMA OneMore ==
    ASSUME NEW h, NEW k, k \in Nat, h = [i \in 1..k + 1 |-> h[i]]
    PROVE  h = Append([i \in 1..k |-> h[i]], h[k + 1])
<1> DEFINE S == {h[i] : i \in 1..k + 1}
           g == [i \in 1..k |-> h[i]]
<1>1. \A i \in 1..k + 1 : h[i] \in S
  OBVIOUS
<1>2. \A i \in 1..k : i \in 1..k + 1
  OBVIOUS
<1>3. h[k + 1] \in S /\ k + 1 \in 1..k + 1
  BY <1>1
<1> HIDE DEF S
<1>4. g \in Seq(S) /\ Len(g) = k
  <2>1. g \in [1..k -> S]
    BY <1>1, <1>2, Zenon
  <2> HIDE DEF g
  <2>2. QED
    BY <2>1
<1>5. \A i \in 1..k : g[i] = h[i]
  OBVIOUS
<1> HIDE DEF g
<1>6. /\ Len(Append(g, h[k + 1])) = k + 1 /\ Append(g, h[k + 1]) \in Seq(S)
      /\ Append(g, h[k + 1])[k + 1] = h[k + 1]
      /\ \A i \in 1..k : Append(g, h[k + 1])[i] = g[i]
  BY <1>3, <1>4, AppendProperties
<1> DEFINE a == Append(g, h[k + 1])
<1>7. a = [i \in 1..k + 1 |-> a[i]]
  <2> HIDE DEF a
  <2>1. a \in Seq(S) /\ Len(a) = k + 1
    BY <1>6 DEF a
  <2>2. QED
    BY <2>1
<1>8. \A i \in 1..k + 1 : a[i] = h[i]
  <2>1. \A i \in 1..k + 1 : i \in 1..k \/ i = k + 1
    OBVIOUS
  <2>2. QED
    BY <1>5, <1>6, <2>1
<1> HIDE DEF a
<1>9. a = [i \in 1..k + 1 |-> h[i]]
  BY <1>7, <1>8
<1>10. a = h
  BY <1>9
<1>11. QED
  BY <1>10 DEF a, g

\* The messages decoded grow by the one that is decoded,
LEMMA MessagesOneMore ==
    ASSUME NEW s, NEW n, n \in Nat, n > 0
    PROVE  /\ MessagesOf(s, n) = Append(MessagesOf(s, n - 1), MessageOf(s, n, FieldsOf(s, n, Fields(s, n))))
           /\ Len(MessagesOf(s, n - 1)) = n - 1
           /\ MessagesOf(s, n - 1) \in Seq({MessagesOf(s, n - 1)[i] : i \in 1..n - 1})
<1> DEFINE h == MessagesOf(s, n)
           k == n - 1
           g == MessagesOf(s, n - 1)
<1>1. k \in Nat /\ k + 1 = n
  OBVIOUS
<1>2. h = [i \in 1..k + 1 |-> h[i]]
  BY <1>1, Zenon DEF MessagesOf
<1>3. g = [i \in 1..k |-> h[i]]
  <2>1. \A i \in 1..k : h[i] = g[i]
    <3> SUFFICES ASSUME NEW i \in 1..k PROVE h[i] = g[i]
      OBVIOUS
    <3>1. i \in 1..n
      OBVIOUS
    <3>2. QED
      BY <3>1, Zenon DEF MessagesOf
  <2>2. g = [i \in 1..k |-> g[i]]
    BY Zenon DEF MessagesOf
  <2> HIDE DEF g, h, k
  <2>3. QED
    BY <2>1, <2>2
<1>4. h[k + 1] = MessageOf(s, n, FieldsOf(s, n, Fields(s, n)))
  <2>1. n \in 1..n
    OBVIOUS
  <2>2. h[n] = MessageOf(s, n, FieldsOf(s, n, Fields(s, n)))
    BY <2>1, Zenon DEF MessagesOf
  <2>3. QED
    BY <1>1, <2>2
<1> HIDE DEF h, k, g
<1>5. h = Append(g, h[k + 1])
  BY <1>1, <1>2, <1>3, OneMore
<1>6. Len(g) = k
  BY <1>1, <1>3
<1>7. g \in Seq({g[i] : i \in 1..k})
  <2> DEFINE S == {g[i] : i \in 1..k}
  <2>1. \A i \in 1..k : g[i] \in S /\ h[i] = g[i]
    BY <1>3
  <2> HIDE DEF S
  <2>2. g \in Seq(S)
    BY <1>1, <1>3, <2>1
  <2>3. QED
    BY <2>2 DEF S
<1>8. QED
  BY <1>4, <1>5, <1>6, <1>7 DEF h, k, g

\* and the fields of a message by the one that is.
LEMMA FieldsOneMore ==
    ASSUME NEW s, NEW n, NEW k, k \in Nat
    PROVE  /\ FieldsOf(s, n, k + 1) = Append(FieldsOf(s, n, k), FieldOf(s, n, k + 1))
           /\ FieldsOf(s, n, 0) = <<>>
<1> DEFINE h == FieldsOf(s, n, k + 1)
           g == FieldsOf(s, n, k)
<1>1. h = [i \in 1..k + 1 |-> h[i]]
  BY Zenon DEF FieldsOf
<1>2. g = [i \in 1..k |-> h[i]]
  <2>1. \A i \in 1..k : h[i] = g[i]
    <3> SUFFICES ASSUME NEW i \in 1..k PROVE h[i] = g[i]
      OBVIOUS
    <3>1. i \in 1..k + 1
      OBVIOUS
    <3>2. QED
      BY <3>1, Zenon DEF FieldsOf
  <2>2. g = [i \in 1..k |-> g[i]]
    BY Zenon DEF FieldsOf
  <2> HIDE DEF g, h
  <2>3. QED
    BY <2>1, <2>2
<1>3. h[k + 1] = FieldOf(s, n, k + 1)
  <2>1. k + 1 \in 1..k + 1
    OBVIOUS
  <2>2. QED
    BY <2>1, Zenon DEF FieldsOf
<1> DEFINE e == FieldsOf(s, n, 0)
<1>4. e = [i \in 1..0 |-> e[i]]
  BY Zenon DEF FieldsOf
<1> HIDE DEF h, g, e
<1>5. h = Append(g, h[k + 1])
  BY <1>1, <1>2, OneMore
<1>6. e = <<>>
  BY <1>4
<1>7. QED
  BY <1>3, <1>5, <1>6 DEF h, g, e

\* One message more is supported, if all its fields are.
LEMMA TakenOneMore ==
    ASSUME NEW s, NEW n, n \in Nat, n > 0, MessagesTaken(s, n - 1), MessageTaken(s, n),
           FieldsTaken(s, n, Fields(s, n))
    PROVE  MessagesTaken(s, n)
<1>1. \A i \in 1..n : i \in 1..n - 1 \/ i = n
  OBVIOUS
<1>2. QED
  BY <1>1, Zenon DEF MessagesTaken, FieldsTaken

-----------------------------------------------------------------------------

\* After a message, or a field of it: what the next section finds, or what has been decoded.
LEMMA Onward ==
    ASSUME Inv, Inv', pc \in {"message", "field"}, Copied, PastSecurity,
           NEW n, n \in 1..Count(Origin), NEW k, k \in 0..Fields(Origin, n),
           Origin' = Origin, frame' = frame, sent' = sent, receiver' = receiver,
           NEW pos, pos \in Nat, reader'.pos = pos,
           reader'.end = reader.end, reader'.on = reader.on, reader'.count = reader.count,
           reader'.writers = reader.writers, reader'.left = Fields(Origin, n) - k,
           pc' = After(n, Fields(Origin, n) - k),
           message'.messages = Append(MessagesOf(Origin, n - 1),
                                      MessageOf(Origin, n, FieldsOf(Origin, n, k))),
           message'.pid = message.pid, message'.pid_type = message.pid_type,
           message'.group = message.group, message'.sequence = message.sequence,
           message'.signed = message.signed, message'.verified = message.verified,
           message'.token = message.token,
           Ahead(Body(Origin), pos, FieldsFrom(Origin, n, k) \o MessagesFrom(Origin, n)),
           pos <= Len(frame), Width(SubSeq(frame, 1, pos)) <= reader.end,
           MessagesTaken(Origin, n - 1), MessageTaken(Origin, n), FieldsTaken(Origin, n, k)
    PROVE  Track' /\ Judged'
<1> DEFINE s == Origin
           F == Fields(Origin, n)
           C == Count(Origin)
           rest == MessagesFrom(Origin, n)
<1>1. Given(Origin) /\ pc \notin Fresh
  BY DEF Copied, Arrived, Fresh
<1>2. F \in Nat /\ C \in Nat /\ n \in Nat /\ n > 0 /\ n <= C /\ k \in Nat /\ k <= F
  <2>1. F \in Nat /\ C \in Nat
    BY <1>1, FieldsOneByOne, GivenTyped
  <2> HIDE DEF F, C
  <2>2. n \in 1..C /\ k \in 0..F
    BY DEF F, C
  <2>3. QED
    BY <2>1, <2>2
<1>3. reader.count = C
  BY DEF PastSecurity, PastPayload
<1>4. pc' = IF F - k > 0 THEN "field" ELSE IF n < C THEN "message" ELSE "decoded"
  BY <1>3 DEF After
<1>5. PastSecurity'
  BY DEF PastSecurity, PastPayload, PastGroup, PastId, PastHeader
<1>6. Copied' \/ pc' = "decoded"
  <2>1. pc' # "decoded" => pc' \notin Fresh
    BY <1>4 DEF Fresh
  <2>2. QED
    BY <1>1, <2>1, CopiedOn
<1>7. Current' = n
  <2> DEFINE P == MessagesOf(Origin, n - 1)
             M == MessageOf(Origin, n, FieldsOf(Origin, n, k))
             S == {P[i] : i \in 1..n - 1}
  <2>1. Len(P) = n - 1 /\ P \in Seq(S)
    BY <1>2, MessagesOneMore, ZenonT(30)
  <2>2. message'.messages = Append(P, M)
    OBVIOUS
  <2> HIDE DEF P, M, S
  <2>3. Len(Append(P, M)) = Len(P) + 1
    <3>1. P \in Seq(S \cup {M}) /\ M \in S \cup {M}
      BY <2>1
    <3>2. QED
      BY <3>1, AppendProperties
  <2>4. Len(message'.messages) = n
    BY <1>2, <2>1, <2>2, <2>3
  <2>5. QED
    BY <2>4 DEF Current
<1>8. CASE F - k > 0
  <2>1. pc' = "field"
    BY <1>4, <1>8
  <2>2. Passed' = k
    <3>1. Passed' = Fields(Origin', Current') - reader'.left
      BY DEF Passed
    <3>2. Passed' = F - (F - k)
      BY <1>7, <3>1
    <3> HIDE DEF F
    <3>3. QED
      BY <1>2, <3>2
  <2>3. k \in 0..F - 1
    <3> HIDE DEF F
    <3>1. QED
      BY <1>2, <1>8
  <2>4. BetweenFields'
    <3>1. Comes(FieldsFrom(Origin, Current, Passed) \o MessagesFrom(Origin, Current))'
      BY <1>7, <2>2 DEF Comes
    <3>2. /\ Current' \in 1..Count(Origin') /\ Passed' \in 0..Fields(Origin', Current') - 1
          /\ MessagesTaken(Origin', Current' - 1) /\ MessageTaken(Origin', Current')
          /\ FieldsTaken(Origin', Current', Passed')
          /\ message'.messages = Append(MessagesOf(Origin', Current' - 1),
                                 MessageOf(Origin', Current', FieldsOf(Origin', Current', Passed')))
      BY <1>7, <2>2, <2>3
    <3>3. QED
      BY <1>5, <3>1, <3>2 DEF BetweenFields
  <2>5. QED
    BY <1>6, <2>1, <2>4 DEF Track, Judged, Ends
<1>9. ASSUME ~(F - k > 0)
      PROVE  /\ k = F /\ FieldsFrom(Origin, n, k) \o rest = rest /\ rest \in Seq(Cells)
             /\ message'.messages = MessagesOf(Origin, n) /\ MessagesTaken(Origin, n)
  <2>1. k = F
    <3> HIDE DEF F
    <3>1. QED
      BY <1>2, <1>9
  <2>2. FieldsFrom(Origin, n, k) = <<>>
    BY <1>1, <2>1, FieldsOneByOne
  <2>3. rest \in Seq(Cells)
    <3>1. n \in 0..C
      BY <1>2
    <3>2. QED
      BY <1>1, <3>1, MessagesOneByOne
  <2>4. <<>> \o rest = rest
    <3> HIDE DEF rest
    <3>1. QED
      BY <2>3
  <2>5. message'.messages = MessagesOf(Origin, n)
    BY <1>2, <2>1, MessagesOneMore
  <2>6. MessagesTaken(Origin, n)
    BY <1>2, <2>1, TakenOneMore
  <2>7. QED
    BY <2>1, <2>2, <2>3, <2>4, <2>5, <2>6
<1>10. CASE ~(F - k > 0) /\ n < C
  <2>1. pc' = "message"
    BY <1>4, <1>10
  <2>2. BetweenMessages'
    <3>1. Ahead(Body(Origin), pos, rest)
      BY <1>9, <1>10
    <3>2. Comes(MessagesFrom(Origin, Current))'
      BY <1>7, <3>1 DEF Comes
    <3>3. Current' < Count(Origin') /\ MessagesTaken(Origin', Current')
          /\ message'.messages = MessagesOf(Origin', Current')
      BY <1>7, <1>9, <1>10
    <3>4. QED
      BY <1>5, <3>2, <3>3 DEF BetweenMessages
  <2>3. QED
    BY <1>6, <2>1, <2>2 DEF Track, Judged, Ends
<1>11. CASE ~(F - k > 0) /\ ~(n < C)
  <2>1. pc' = "decoded" /\ n = C
    <3>1. n = C
      <4> HIDE DEF C
      <4>1. QED
        BY <1>2, <1>11
    <3>2. QED
      BY <1>4, <1>11, <3>1
  <2>2. Room(Origin, frame, reader.end)
    <3>1. Ahead(Body(Origin), pos, rest) /\ rest = <<>>
      BY <1>1, <1>9, <1>11, <2>1, MessagesOneByOne
    <3>2. pos + Len(<<>>) = Len(Body(Origin))
      BY <3>1 DEF Ahead
    <3>3. Len(Body(Origin)) = pos
      BY <3>2
    <3>4. QED
      BY <3>3 DEF Room
  <2>3. sent.fate = "whole"
    BY <1>1, <2>2 DEF Copied
  <2>4. Accepts(Origin, receiver)
    <3>1. HeaderTaken(Origin) /\ SecurityTaken(Origin, receiver)
      BY <2>3 DEF PastSecurity, PastPayload, PastGroup, PastId, PastHeader
    <3>2. MessagesTaken(Origin, Count(Origin))
      BY <1>9, <1>11, <2>1
    <3>3. QED
      BY <3>1, <3>2 DEF Accepts
  <2>5. message' = MadeOf(Origin, receiver)
    <3>1. message' = [pid |-> message'.pid, pid_type |-> message'.pid_type,
                      group |-> message'.group, sequence |-> message'.sequence,
                      messages |-> message'.messages, signed |-> message'.signed,
                      verified |-> message'.verified, token |-> message'.token]
      BY DEF Inv, Typed, MessageTyped
    <3>2. /\ message.pid = (IF "publisher id" \in On(Origin) THEN sent.message.pid ELSE 0)
          /\ message.pid_type = sent.message.pid_type /\ message.group = sent.message.group
          /\ message.sequence = (IF Own(Origin) /\ sent.message.sequence # None
                           THEN sent.message.sequence % SeqModulus ELSE None)
          /\ message.signed = (sent.key # None)
          /\ message.verified = VerifiedOf(Origin, receiver)
          /\ message.token = (IF sent.key # None THEN Token(Origin) ELSE 0)
      BY <2>3 DEF PastSecurity, PastPayload, PastGroup, PastId, PastHeader
    <3>3. Origin.message = sent.message /\ Origin.key = sent.key
      BY OriginIs
    <3>4. message'.messages = MessagesOf(Origin, Count(Origin))
      BY <1>9, <1>11, <2>1
    <3>5. MadeOf(Origin, receiver) =
            [pid |-> message'.pid, pid_type |-> message'.pid_type,
             group |-> message'.group, sequence |-> message'.sequence,
             messages |-> message'.messages, signed |-> message'.signed,
             verified |-> message'.verified, token |-> message'.token]
      BY <3>2, <3>3, <3>4, Zenon DEF MadeOf
    <3>6. QED
      BY <3>1, <3>5
  <2>6. Judged'
    BY <1>1, <2>1, <2>3, <2>4, <2>5 DEF Judged
  <2>7. Track'
    BY <2>1 DEF Track, Sections
  <2>8. QED
    BY <2>6, <2>7
<1>12. QED
  BY <1>8, <1>10, <1>11

Flags1Read == FlagsOf("flags1")
Flags2Read == IF "flags2" \in Flags1Read /\ There(2) THEN frame[reader.pos + 2].value ELSE {}

\* What a DataSetMessage wants suits the one that comes, and its flags are read.
LEMMA MessageSuits ==
    ASSUME Framed, ~Sending, ReaderTyped, NEW s, Given(s), NEW n, n \in 1..Count(s),
           Upcoming(MessagePart(s, n))
    PROVE  /\ Suits(MessageWant(Flags1Read, Flags2Read), MessagePart(s, n))
           /\ Taken(MessageWant(Flags1Read, Flags2Read)) =>
                 Flags1Read = Flags1(s, n) /\ Flags2Read = Flags2(s, n)
<1> DEFINE part == MessagePart(s, n)
           want == MessageWant(Flags1Read, Flags2Read)
           F == Flags1(s, n)
           G == Flags2(s, n)
           good == MessageWant(F, G)
<1>1. /\ Fits(good, part) /\ Holds(part, 1, "flags1", F)
      /\ "flags2" \in F => Holds(part, 2, "flags2", G)
  BY MessageFits
<1>2. "flags2" \notin F => G = {}
  BY MessageFlags
<1>3. Begins(want, MessageHead(Flags1Read)) /\ Begins(good, MessageHead(F))
  BY MessageBegins
<1>4. /\ Len(MessageHead(Flags1Read)) = (IF "flags2" \in Flags1Read THEN 2 ELSE 1)
      /\ Len(MessageHead(F)) = (IF "flags2" \in F THEN 2 ELSE 1)
  BY MessageBegins
<1>5. part # <<>> /\ part \in Seq(Cells) /\ Len(part) \in Nat /\ 1 \in 1..Len(part)
  BY <1>1, HoldsSome, Zenon
<1> HIDE DEF part, want, F, G, good
<1>6. There(1) => Flags1Read = F
  BY <1>1, SeesFlags, Zenon DEF Flags1Read, part
<1>7. ASSUME There(2), "flags2" \in F PROVE frame[reader.pos + 2].value = G
  <2>1. reader.pos + 2 <= Len(frame)
    BY <1>7 DEF There
  <2>2. Holds(part, 2, "flags2", G) /\ Upcoming(part)
    BY <1>1, <1>7 DEF part
  <2>3. QED
    BY <2>1, <2>2, Sees
<1>8. CASE ~There(1)
  <2>1. want # <<>> /\ want \in Wanted(Nat)
    <3>1. 0 < Len(MessageHead(Flags1Read))
      BY <1>4
    <3>2. QED
      BY <1>3, <3>1, BeginsSome
  <2>2. Suits(want, part)
    BY <1>5, <1>8, <2>1, NothingThere
  <2>3. ~Taken(want)
    BY <1>5, <1>8, <2>2, NotTaken DEF part
  <2>4. QED
    BY <2>2, <2>3 DEF want, part
<1>9. CASE There(1) /\ "flags2" \in F /\ ~There(2)
  <2>1. Flags1Read = F
    BY <1>6, <1>9
  <2>2. Starts(want, part, 1)
    <3>1. 1 < Len(MessageHead(F)) /\ 1 \in Nat
      BY <1>4, <1>9
    <3>2. QED
      BY <1>1, <1>3, <2>1, <3>1, BeginsStarts
  <2>3. Suits(want, part)
    <3>1. ~There(1 + 1) /\ 1 \in Nat
      BY <1>9
    <3>2. QED
      BY <2>2, <3>1 DEF Suits
  <2>4. ~Taken(want)
    <3>1. 2 \in 1..Len(part)
      BY <1>1, <1>9 DEF Holds
    <3>2. QED
      BY <1>9, <2>3, <3>1, NotTaken DEF part
  <2>5. QED
    BY <2>3, <2>4 DEF want, part
<1>10. CASE There(1) /\ ("flags2" \in F => There(2))
  <2>1. Flags1Read = F
    BY <1>6, <1>10
  <2>2. Flags2Read = G
    BY <1>2, <1>7, <1>10, <2>1 DEF Flags2Read
  <2>3. Fits(want, part)
    BY <1>1, <2>1, <2>2 DEF want, good
  <2>4. QED
    BY <2>1, <2>2, <2>3 DEF Suits, want, part, F, G
<1>11. QED
  BY <1>8, <1>9, <1>10

\* What is still to come where a message starts.
LEMMA MessageComes ==
    ASSUME NEW s, Given(s), NEW n, n \in 1..Count(s)
    PROVE  /\ MessagePart(s, n) \in Seq(Cells)
           /\ FieldsFrom(s, n, 0) \o MessagesFrom(s, n) \in Seq(Cells)
           /\ MessagesFrom(s, n - 1) = MessagePart(s, n) \o (FieldsFrom(s, n, 0) \o MessagesFrom(s, n))
<1> DEFINE a == MessagePart(s, n)
           b == FieldsFrom(s, n, 0)
           c == MessagesFrom(s, n)
           C == Count(s)
<1>1. C \in Nat
  BY GivenTyped
<1>2. n - 1 \in 0..C - 1 /\ n \in 0..C /\ n - 1 + 1 = n
  <2>1. n \in 1..C
    OBVIOUS
  <2> HIDE DEF C
  <2>2. QED
    BY <1>1, <2>1
<1>3. a \in Seq(Cells) /\ c \in Seq(Cells) /\ MessagesFrom(s, n - 1) = DataSetPart(s, n - 1 + 1) \o MessagesFrom(s, n - 1 + 1)
  BY <1>2, MessagesOneByOne
<1>4. Fields(s, n) \in Nat /\ \A j \in 0..Fields(s, n) : FieldsFrom(s, n, j) \in Seq(Cells)
  BY FieldsOneByOne
<1>5. b \in Seq(Cells)
  BY <1>4
<1>6. MessagesFrom(s, n - 1) = (a \o b) \o c
  BY <1>2, <1>3 DEF DataSetPart
<1> HIDE DEF a, b, c
<1>7. (a \o b) \o c = a \o (b \o c) /\ b \o c \in Seq(Cells)
  BY <1>3, <1>5, Rejoined, Joined
<1>8. QED
  BY <1>3, <1>6, <1>7 DEF a, b, c

MessageRead(want, n) ==
    [writer |-> IF reader.writers = <<>> THEN 0 ELSE reader.writers[n],
     sequence |-> Got(want, "sequence", None),
     keep_alive |-> "keep alive" \in Flags2Read, fields |-> <<>>,
     encoding |-> IF "keep alive" \in Flags2Read \/ "DataValue" \in Flags1Read THEN "DataValue"
                  ELSE "Variant"]

MessageSupported == "keep alive" \in Flags2Read \/ ("delta" \notin Flags2Read /\ "raw" \notin Flags1Read)

\* The message that was started is the one that was sent.
LEMMA MessageAsSent ==
    ASSUME Framed, ~Sending, ReaderTyped, NEW n, n \in 1..Count(Origin), PastPayload, Given(Origin),
           Upcoming(MessagePart(Origin, n)), NEW want, Fits(want, MessagePart(Origin, n)), Taken(want),
           Flags1Read = Flags1(Origin, n), Flags2Read = Flags2(Origin, n)
    PROVE  /\ MessageRead(want, n) = MessageOf(Origin, n, FieldsOf(Origin, n, 0))
           /\ Got(want, "field count", 0) = Fields(Origin, n)
           /\ MessageSupported <=> MessageTaken(Origin, n)
<1> DEFINE part == MessagePart(Origin, n)
           number == Got(want, "sequence", None)
           count == Got(want, "field count", 0)
           writer == IF reader.writers = <<>> THEN 0 ELSE reader.writers[n]
           Q == Quiet(Origin, n)
           F == Flags1(Origin, n)
           N == Number(Origin, n)
           L == Len(Origin.message.messages[n].fields)
           C == Count(Origin)
<1>1. /\ "sequence" \in F => Carries(part, "sequence", N)
      /\ "sequence" \notin F => Lacks(part, "sequence")
      /\ ~Q => Carries(part, "field count", L)
      /\ Q => Lacks(part, "field count")
  BY MessageFits
<1>2. Q <=> "keep alive" \in Flags2Read
  BY DEF Quiet
<1>3. Fields(Origin, n) = IF Q THEN 0 ELSE L
  BY DEF Fields
<1>4. MessageSupported <=> MessageTaken(Origin, n)
  BY DEF MessageSupported, MessageTaken, Quiet
<1> HIDE DEF part, Q, F, N, L
<1>0. Upcoming(part) /\ Fits(want, part)
  BY DEF part
<1>5. /\ Lacks(part, "sequence") => number = None
      /\ \A value : Carries(part, "sequence", value) => number = value
  BY <1>0, GotCarried
<1>6. /\ Lacks(part, "field count") => count = 0
      /\ \A value : Carries(part, "field count", value) => count = value
  BY <1>0, GotCarried, Zenon
<1> HIDE DEF number, count
<1>7. number = IF "sequence" \in F THEN N ELSE None
  BY <1>1, <1>5
<1>8. count = Fields(Origin, n)
  BY <1>1, <1>3, <1>6
<1>9. writer = IF "payload header" \in On(Origin) THEN Origin.message.messages[n].writer ELSE 0
  <2>1. Origin.message = sent.message /\ C \in Nat /\ C > 0
    BY OriginIs, GivenTyped
  <2>2. reader.writers = [i \in 1..(IF "payload header" \in On(Origin) THEN C ELSE 0)
                             |-> Origin.message.messages[i].writer]
    BY <2>1 DEF PastPayload
  <2>3. n \in 1..C
    OBVIOUS
  <2> HIDE DEF C
  <2>4. CASE "payload header" \in On(Origin)
    <3> DEFINE w(i) == Origin.message.messages[i].writer
    <3>1. reader.writers = [i \in 1..C |-> w(i)]
      BY <2>2, <2>4
    <3>2. reader.writers[n] = w(n)
      BY <2>3, <3>1, Zenon
    <3>3. reader.writers # <<>>
      <4> HIDE DEF w
      <4>1. Len(reader.writers) = C /\ Len(<<>>) = 0
        BY <2>1, <3>1
      <4>2. QED
        BY <2>1, <4>1
    <3>4. QED
      BY <2>4, <3>2, <3>3
  <2>5. CASE "payload header" \notin On(Origin)
    <3> DEFINE w(i) == Origin.message.messages[i].writer
    <3>1. reader.writers = [i \in 1..0 |-> w(i)]
      BY <2>2, <2>5
    <3> HIDE DEF w
    <3>2. reader.writers = <<>>
      BY <3>1
    <3>3. QED
      BY <2>5, <3>2
  <2>6. QED
    BY <2>4, <2>5
<1>10. FieldsOf(Origin, n, 0) = <<>>
  <2>1. 0 \in Nat
    OBVIOUS
  <2>2. QED
    BY <2>1, FieldsOneMore
<1>11. MessageRead(want, n) =
          [writer |-> writer, sequence |-> number, keep_alive |-> "keep alive" \in Flags2Read,
           fields |-> <<>>,
           encoding |-> IF "keep alive" \in Flags2Read \/ "DataValue" \in Flags1Read
                        THEN "DataValue" ELSE "Variant"]
  BY DEF MessageRead, number
<1>12. MessageOf(Origin, n, <<>>) =
          [writer |-> IF "payload header" \in On(Origin) THEN Origin.message.messages[n].writer ELSE 0,
           sequence |-> IF "sequence" \in F THEN N ELSE None,
           keep_alive |-> Q, fields |-> <<>>,
           encoding |-> IF Q \/ "DataValue" \in F THEN "DataValue" ELSE "Variant"]
  BY DEF MessageOf, Q, F, N
<1>13. Q = ("keep alive" \in Flags2Read)
  BY DEF Q, Quiet
<1>14. Flags1Read = F
  BY DEF F
<1> HIDE DEF writer
<1>15. MessageRead(want, n) = MessageOf(Origin, n, <<>>)
  BY <1>7, <1>9, <1>11, <1>12, <1>13, <1>14, Zenon
<1>16. QED
  BY <1>4, <1>8, <1>10, <1>15 DEF count

\* A message, before its fields.
LEMMA TrackMessage == Inv /\ Inv' /\ Track /\ DecodeMessage => Track' /\ Judged'
<1> SUFFICES ASSUME Inv, Inv', Track, DecodeMessage PROVE Track' /\ Judged'
  OBVIOUS
<1> DEFINE want == MessageWant(Flags1Read, Flags2Read)
           supported == MessageSupported
           count == Got(want, "field count", 0)
           n == Len(message.messages) + 1
           made == MessageRead(want, n)
           part == MessagePart(Origin, n)
           rest == FieldsFrom(Origin, n, 0) \o MessagesFrom(Origin, n)
<1>1. pc = "message" /\ pc \in Sections
  BY DEF DecodeMessage, Sections
<1>2. \/ Fails(want, supported)
      \/ /\ Goes(want, supported, After(n, count))
         /\ reader' = [Pass(want) EXCEPT !.left = count]
         /\ message' = [message EXCEPT !.messages = Append(@, made)]
  BY DEF DecodeMessage, MessageWant, Flags1Read, Flags2Read, MessageSupported, MessageRead
<1>3. Framed /\ ~Sending /\ ReaderTyped /\ MessageTyped /\ reader.pos \in Nat /\ Len(frame) \in Nat
  BY <1>1, SectionReads
<1>4. ASSUME sent.fate # "damaged"
      PROVE  /\ Copied /\ Given(Origin) /\ part \in Seq(Cells) /\ rest \in Seq(Cells)
             /\ n \in 1..Count(Origin) /\ n - 1 = Current /\ n \in Nat
             /\ Comes(part \o rest) /\ PastSecurity /\ PastPayload
             /\ Upcoming(part) /\ Suits(want, part)
             /\ MessagesTaken(Origin, n - 1) /\ message.messages = MessagesOf(Origin, n - 1)
             /\ Taken(want) => Flags1Read = Flags1(Origin, n) /\ Flags2Read = Flags2(Origin, n)
             /\ Taken(want) => Fits(want, part)
  <2>1. Copied /\ BetweenMessages
    BY <1>1, <1>4 DEF Track
  <2>2. Given(Origin)
    BY <2>1 DEF Copied, Arrived
  <2>3. n \in 1..Count(Origin) /\ n - 1 = Current /\ n \in Nat
    <3>1. Current < Count(Origin) /\ Count(Origin) \in Nat
      BY <2>1, <2>2, GivenTyped DEF BetweenMessages
    <3>2. Current \in Nat
      <4>1. message.messages \in Seq(DataSet)
        BY <1>3 DEF MessageTyped, Encodable
      <4>2. QED
        BY <4>1 DEF Current
    <3>3. n = Current + 1
      BY DEF Current
    <3> HIDE DEF n
    <3>4. QED
      BY <3>1, <3>2, <3>3
  <2> HIDE DEF n, want, supported, made
  <2>4. part \in Seq(Cells) /\ rest \in Seq(Cells) /\ Comes(part \o rest)
    <3>1. /\ part \in Seq(Cells) /\ rest \in Seq(Cells) /\ MessagesFrom(Origin, n - 1) = part \o rest
      BY <2>2, <2>3, MessageComes
    <3>2. Comes(MessagesFrom(Origin, n - 1))
      BY <2>1, <2>3 DEF BetweenMessages
    <3>3. QED
      BY <3>1, <3>2
  <2>5. Upcoming(part)
    <3> HIDE DEF part, rest
    <3>1. QED
      BY <1>1, <2>1, <2>4, Facing
  <2>6. /\ Suits(want, part)
        /\ Taken(want) => Flags1Read = Flags1(Origin, n) /\ Flags2Read = Flags2(Origin, n)
    BY <1>3, <2>2, <2>3, <2>5, MessageSuits DEF want
  <2>7. Taken(want) => Fits(want, part)
    <3> HIDE DEF part
    <3>1. QED
      BY <1>3, <2>5, <2>6, Reads
  <2>8. /\ PastSecurity /\ PastPayload /\ MessagesTaken(Origin, n - 1)
        /\ message.messages = MessagesOf(Origin, n - 1)
    BY <2>1, <2>3 DEF BetweenMessages, PastSecurity
  <2>9. QED
    BY <2>1, <2>2, <2>3, <2>4, <2>5, <2>6, <2>7, <2>8
<1> HIDE DEF n, want, supported, made
<1>5. ASSUME sent.fate # "damaged", Taken(want)
      PROVE  /\ made = MessageOf(Origin, n, FieldsOf(Origin, n, 0))
             /\ count = Fields(Origin, n)
             /\ supported <=> MessageTaken(Origin, n)
  BY <1>3, <1>4, <1>5, MessageAsSent DEF made, supported
<1>6. ASSUME Fails(want, supported) PROVE Track' /\ Judged'
  <2>1. sent.fate = "whole" /\ Taken(want) /\ ~supported => ~Accepts(Origin, receiver)
    <3>1. sent.fate = "whole" /\ Taken(want) /\ ~supported => ~MessageTaken(Origin, n)
      BY <1>5
    <3>2. sent.fate = "whole" => n \in 1..Count(Origin)
      BY <1>4
    <3>3. QED
      BY <3>1, <3>2 DEF Accepts, MessagesTaken
  <2> HIDE DEF part, rest
  <2>2. QED
    BY <1>1, <1>4, <1>6, <2>1, FailsWell
<1>7. ASSUME Goes(want, supported, After(n, count)), sent.fate # "damaged",
             reader' = [Pass(want) EXCEPT !.left = count],
             message' = [message EXCEPT !.messages = Append(@, made)]
      PROVE  Track' /\ Judged'
  <2>1. /\ Len(want) = Len(part) /\ There(Len(part)) /\ supported
        /\ Taken(want) /\ Origin' = Origin /\ frame' = frame /\ sent' = sent
        /\ receiver' = receiver /\ pc' = After(n, count)
        /\ Ahead(Body(Origin), reader.pos + Len(want), rest)
    <3> HIDE DEF part, rest, count
    <3>1. QED
      BY <1>1, <1>4, <1>7, GoesWell
  <2>2. /\ reader'.pos = reader.pos + Len(want) /\ reader'.end = reader.end
        /\ reader'.on = reader.on /\ reader'.count = reader.count
        /\ reader'.writers = reader.writers /\ reader'.left = count
    <3> HIDE DEF count
    <3>1. ReaderHas([Pass(want) EXCEPT !.left = count], reader.pos + Len(want),
                    reader.end, reader.on, reader.count, reader.writers, count)
      BY <1>3, ReaderEdited, Zenon
    <3>2. QED
      BY <1>7, <3>1 DEF ReaderHas
  <2>3. /\ message'.pid_type = message.pid_type /\ message'.pid = message.pid
        /\ message'.group = message.group /\ message'.sequence = message.sequence
        /\ message'.signed = message.signed /\ message'.token = message.token
        /\ message'.verified = message.verified
        /\ message'.messages = Append(message.messages, made)
    <3> DEFINE more == Append(message.messages, made)
    <3>1. message' = [message EXCEPT !.messages = more]
      BY <1>7
    <3> HIDE DEF more
    <3>2. MessageHas([message EXCEPT !.messages = more],
                     message.pid, message.pid_type, message.group, message.sequence,
                     more, message.signed, message.verified, message.token)
      BY <1>3, MessageEdited, Zenon
    <3>3. QED
      BY <3>1, <3>2 DEF MessageHas, more
  <2>4. /\ made = MessageOf(Origin, n, FieldsOf(Origin, n, 0)) /\ count = Fields(Origin, n)
        /\ MessageTaken(Origin, n)
    BY <1>5, <1>7, <2>1
  <2>5. Fields(Origin, n) \in Nat
    BY <1>4, <1>7, FieldsOneByOne
  <2> DEFINE pos == reader.pos + Len(want)
  <2>6. pos \in Nat /\ pos <= Len(frame) /\ Width(SubSeq(frame, 1, pos)) <= reader.end
    <3>1. Len(want) \in Nat
      <4>1. part \in Seq(Cells) /\ Len(want) = Len(part)
        BY <1>4, <1>7, <2>1
      <4> HIDE DEF part
      <4>2. QED
        BY <4>1
    <3>2. /\ reader.pos + Len(part) <= Len(frame)
          /\ Width(SubSeq(frame, 1, reader.pos + Len(part))) <= reader.end
      BY <2>1 DEF There
    <3>3. pos = reader.pos + Len(part)
      BY <2>1
    <3>4. pos \in Nat
      BY <1>3, <3>1
    <3> HIDE DEF pos
    <3>5. QED
      BY <3>2, <3>3, <3>4
  <2>7. 0 \in 0..Fields(Origin, n) /\ Fields(Origin, n) - 0 = Fields(Origin, n)
    <3> DEFINE F == Fields(Origin, n)
    <3>1. F \in Nat
      BY <2>5
    <3> HIDE DEF F
    <3>2. 0 \in 0..F /\ F - 0 = F
      BY <3>1
    <3>3. QED
      BY <3>2 DEF F
  <2>8. FieldsTaken(Origin, n, 0)
    BY DEF FieldsTaken
  <2>9. pc \in {"message", "field"}
    BY <1>1
  <2> HIDE DEF pos, count, part
  <2>10. /\ reader'.pos = pos /\ reader'.left = Fields(Origin, n) - 0
         /\ pc' = After(n, Fields(Origin, n) - 0)
         /\ message'.messages = Append(MessagesOf(Origin, n - 1),
                                       MessageOf(Origin, n, FieldsOf(Origin, n, 0)))
         /\ Ahead(Body(Origin), pos, FieldsFrom(Origin, n, 0) \o MessagesFrom(Origin, n))
    BY <1>4, <1>7, <2>1, <2>2, <2>3, <2>4, <2>7 DEF pos, rest
  <2> HIDE DEF rest
  <2>11. QED
    BY <1>4, <1>7, <2>1, <2>2, <2>3, <2>4, <2>6, <2>7, <2>8, <2>9, <2>10, Onward
<1>8. QED
  <2>1. Goes(want, supported, After(n, count)) => sent' = sent
    BY DEF Goes
  <2> HIDE DEF count, part, rest
  <2>2. QED
    BY <1>2, <1>6, <1>7, <2>1, DamagedSaysNothing

\* What begins with a head begins with the front of the head.
LEMMA BeginsLess ==
    ASSUME NEW want, NEW head, NEW more, Begins(want, head \o more), head \in Wanted(Nat),
           more \in Wanted(Nat)
    PROVE  Begins(want, head)
<1> DEFINE T == Kinds \X Nat
<1>1. /\ head \in Seq(T) /\ more \in Seq(T) /\ Len(want) \in Nat
      /\ Len(head \o more) <= Len(want) /\ \A i \in 1..Len(head \o more) : want[i] = (head \o more)[i]
  BY DEF Begins, Wanted
<1> HIDE DEF T
<1>2. /\ Len(head) \in Nat /\ Len(more) \in Nat /\ Len(head \o more) = Len(head) + Len(more)
      /\ \A i \in 1..Len(head) + Len(more) :
            (head \o more)[i] = IF i <= Len(head) THEN head[i] ELSE more[i - Len(head)]
  <2>1. Len(head) \in Nat /\ Len(more) \in Nat
    BY <1>1
  <2>2. QED
    BY <1>1, <2>1, ConcatProperties
<1>3. Len(head) <= Len(want) /\ \A i \in 1..Len(head) : want[i] = head[i]
  BY <1>1, <1>2
<1>4. QED
  BY <1>1, <1>2, <1>3 DEF Begins

\* A field of an array wants a variant first, too.
LEMMA FieldBeginsAlike ==
    ASSUME NEW datavalue, NEW mask, NEW variant, NEW count, count \in Nat,
           count = 0 \/ ScalarSize[variant[2]] \in Nat
    PROVE  Begins(FieldWant(datavalue, mask, variant, count), FieldHead(datavalue, mask, FALSE))
<1> DEFINE d == If(datavalue, <<<<"DataValue", 1>>>>)
           v == If("value" \in mask, <<<<"variant", 1>>>>)
           a == If(variant[1] = "array", <<<<"array length", 4>>>>)
           want == FieldWant(datavalue, mask, variant, count)
<1>1. d \in Wanted(Nat) /\ v \in Wanted(Nat) /\ a \in Wanted(Nat)
  <2>1. {"DataValue", "variant", "array length"} \subseteq Kinds /\ {1, 4} \subseteq Nat
    BY DEF Kinds, Numbers, FlagKinds
  <2>2. /\ <<<<"DataValue", 1>>>> \in Wanted(Nat) /\ <<<<"variant", 1>>>> \in Wanted(Nat)
        /\ <<<<"array length", 4>>>> \in Wanted(Nat)
    BY <2>1, OneWanted
  <2>3. QED
    BY <2>2, JoinWanted, Zenon
<1>2. Begins(want, d \o v \o a)
  BY FieldBegins DEF FieldHead
<1>3. FieldHead(datavalue, mask, FALSE) = d \o v \o <<>>
  BY DEF FieldHead, If
<1> HIDE DEF d, v, a, want
<1>4. d \o v \in Wanted(Nat)
  BY <1>1, JoinWanted, Zenon
<1>5. d \o v \o <<>> = d \o v
  BY <1>4 DEF Wanted
<1>6. Begins(want, d \o v)
  BY <1>1, <1>2, <1>4, BeginsLess
<1>7. QED
  BY <1>3, <1>5, <1>6 DEF want

-----------------------------------------------------------------------------
(* A field, as the decoder sees it. *)

MaskRead(dv) == IF dv THEN FlagsOf("DataValue") ELSE {"value"}
At(dv) == IF dv THEN 2 ELSE 1
VariantRead(dv) ==
    IF "value" \in MaskRead(dv) /\ There(At(dv)) THEN frame[reader.pos + At(dv)].value
    ELSE <<"null", "NULL">>
LengthRead(dv) ==
    IF There(At(dv) + 1) /\ frame[reader.pos + At(dv) + 1].kind = "array length"
    THEN frame[reader.pos + At(dv) + 1].value ELSE 0
ScalarsRead(dv) ==
    CASE VariantRead(dv)[1] = "null" -> 0
      [] VariantRead(dv)[1] = "array" -> LengthRead(dv)
      [] OTHER -> 1
WantField(dv) == FieldWant(dv, MaskRead(dv), VariantRead(dv), ScalarsRead(dv))

\* How many scalars there are by the kind of a variant.
LEMMA ScalarsAre ==
    ASSUME NEW dv
    PROVE  /\ VariantRead(dv)[1] = "null" => ScalarsRead(dv) = 0
           /\ VariantRead(dv)[1] = "array" => ScalarsRead(dv) = LengthRead(dv)
           /\ VariantRead(dv)[1] \notin {"null", "array"} => ScalarsRead(dv) = 1
BY DEF ScalarsRead

\* What a field wants suits the field that comes, and its mask and type are read.
LEMMA FieldSuits ==
    ASSUME Framed, ~Sending, ReaderTyped, NEW s, Given(s), NEW n, n \in 1..Count(s),
           NEW j, j \in 1..Len(s.message.messages[n].fields), Upcoming(FieldPart(s, n, j)),
           NEW dv, dv <=> AsDataValue(s, n)
    PROVE  /\ Suits(WantField(dv), FieldPart(s, n, j))
           /\ Taken(WantField(dv)) =>
                 /\ MaskRead(dv) = Mask(s, n, j) /\ VariantRead(dv) = Shape(s, n, j)
                 /\ ScalarsRead(dv) = Len(Scalar(s, n, j))
<1> DEFINE part == FieldPart(s, n, j)
           want == WantField(dv)
           D == AsDataValue(s, n)
           M == Mask(s, n, j)
           V == Shape(s, n, j)
           L == Len(Scalar(s, n, j))
           good == FieldWant(dv, M, V, L)
           at == At(dv)
           null == <<"null", "NULL">>
           A == V[1] = "array"
           W == ScalarSize[V[2]]
           Val == "value" \in M
<1>1. /\ Fits(FieldWant(D, M, V, L), part)
      /\ D => Holds(part, 1, "DataValue", M)
      /\ Val => Holds(part, IF D THEN 2 ELSE 1, "variant", V)
      /\ Val /\ A => Holds(part, IF D THEN 3 ELSE 2, "array length", L)
  BY FieldFits
<1>2. /\ ~Val => V = null /\ D
      /\ V \in Variants /\ L \in Nat
      /\ V[1] \notin {"null", "array"} => L = 1
      /\ V[1] = "null" => Scalar(s, n, j) = <<>>
  BY FieldTyped
<1>3. V[1] = "null" => L = 0
  <2>1. Len(<<>>) = 0
    OBVIOUS
  <2>2. QED
    BY <1>2, <2>1
<1>4. L = 0 \/ W \in Nat
  <2> HIDE DEF V, L
  <2>1. V = null \/ V[2] \in DOMAIN ScalarSize
    BY <1>2 DEF Variants
  <2>2. V = null => V[1] = "null"
    OBVIOUS
  <2>3. \A t \in DOMAIN ScalarSize : ScalarSize[t] \in Nat
    BY DEF ScalarSize
  <2>4. QED
    BY <1>3, <2>1, <2>2, <2>3
<1>5. ~D => M = {"value"}
  BY DEF Mask
<1>6. D <=> dv
  OBVIOUS
<1> HIDE DEF part, M, V, L, D
<1>7. Fits(good, part)
  <2>1. CASE D
    <3>1. FieldWant(D, M, V, L) = good
      BY <1>6, <2>1 DEF FieldWant, If
    <3>2. QED
      BY <1>1, <3>1
  <2>2. CASE ~D
    <3>1. FieldWant(D, M, V, L) = good
      BY <1>6, <2>2 DEF FieldWant, If
    <3>2. QED
      BY <1>1, <3>1
  <2>3. QED
    BY <2>1, <2>2
<1>8. /\ dv => at = 2
      /\ ~dv => at = 1
      /\ dv => Holds(part, 1, "DataValue", M)
      /\ Val => Holds(part, at, "variant", V)
      /\ Val /\ A => Holds(part, at + 1, "array length", L)
  <2>1. dv => at = 2
    BY DEF At
  <2>2. ~dv => at = 1
    BY DEF At
  <2>3. dv => Holds(part, 1, "DataValue", M)
    BY <1>1, <1>6
  <2> HIDE DEF at
  <2>4. Val => Holds(part, at, "variant", V)
    BY <1>1, <1>6, <2>1, <2>2, Zenon
  <2>5. 2 + 1 = 3 /\ 1 + 1 = 2
    OBVIOUS
  <2>6. Val /\ A => Holds(part, at + 1, "array length", L)
    BY <1>1, <1>6, <2>1, <2>2, <2>5, Zenon
  <2>7. QED
    BY <2>1, <2>2, <2>3, <2>4, <2>6, Zenon
<1>9. 1 \in 1..Len(part) /\ part # <<>> /\ part \in Seq(Cells) /\ Len(part) \in Nat
  <2>1. CASE dv
    BY <1>8, <2>1, HoldsSome, Zenon
  <2>2. CASE ~dv
    <3>1. Val /\ at = 1
      BY <1>2, <1>6, <1>8, <2>2
    <3>2. Holds(part, 1, "variant", V)
      BY <1>8, <3>1, Zenon
    <3>3. QED
      BY <3>2, HoldsSome, Zenon
  <2>3. QED
    BY <2>1, <2>2
<1>10. Upcoming(part)
  BY DEF part
<1>11. There(1) => MaskRead(dv) = M
  <2>1. CASE dv
    <3>1. There(1) => FlagsOf("DataValue") = M
      BY <1>8, <1>10, <2>1, SeesFlags, Zenon
    <3>2. QED
      BY <2>1, <3>1 DEF MaskRead
  <2>2. CASE ~dv
    BY <1>5, <1>6, <2>2 DEF MaskRead
  <2>3. QED
    BY <2>1, <2>2
<1>12. ~dv => MaskRead(dv) = {"value"}
  BY DEF MaskRead
<1>13. /\ at \in Nat /\ at + 1 \in Nat /\ 1 \in 0..at /\ at \in 0..at + 1
       /\ reader.pos \in Nat /\ reader.pos + (at + 1) = reader.pos + at + 1
  <2>1. at \in Nat /\ 1 <= at
    <3>1. at = 1 \/ at = 2
      BY <1>8
    <3> HIDE DEF at
    <3>2. QED
      BY <3>1
  <2>2. reader.pos \in Nat
    BY DEF ReaderTyped
  <2> HIDE DEF at
  <2>3. QED
    BY <2>1, <2>2
<1>14. (There(at) => There(1)) /\ (There(at + 1) => There(at))
  BY <1>13, ThereFewer
<1>15. ASSUME Val, There(at) PROVE VariantRead(dv) = V
  <2>1. reader.pos + at <= Len(frame)
    BY <1>15 DEF There
  <2>2. frame[reader.pos + at].value = V
    BY <1>8, <1>10, <1>15, <2>1, Sees, Zenon
  <2>3. QED
    BY <1>11, <1>14, <1>15, <2>2 DEF VariantRead
<1>16. ASSUME Val, A, There(at + 1) PROVE LengthRead(dv) = L
  <2>1. reader.pos + (at + 1) <= Len(frame)
    BY <1>16 DEF There
  <2>2. frame[reader.pos + (at + 1)].kind = "array length" /\ frame[reader.pos + (at + 1)].value = L
    BY <1>8, <1>10, <1>16, <2>1, Sees, Zenon
  <2>3. QED
    BY <1>13, <1>16, <2>2 DEF LengthRead
<1>17. ASSUME ~There(at) PROVE VariantRead(dv) = null
  BY <1>17 DEF VariantRead
<1>18. null[1] = "null" /\ "null" # "array"
  OBVIOUS
<1>19. VariantRead(dv) = null => ScalarsRead(dv) = 0
  BY <1>18, ScalarsAre
<1>20. want = FieldWant(dv, MaskRead(dv), VariantRead(dv), ScalarsRead(dv))
  BY DEF WantField
<1>21. 0 \in Nat /\ (FALSE = (null[1] = "array"))
  BY <1>18
<1> HIDE DEF want, good, at, null, A, W, Val
<1>22. CASE ~There(1)
  <2>1. want = FieldWant(dv, MaskRead(dv), null, 0)
    BY <1>14, <1>17, <1>19, <1>20, <1>22
  <2> DEFINE h == FieldHead(dv, MaskRead(dv), FALSE)
  <2>2. Begins(want, h)
    BY <1>21, <2>1, FieldBeginsAlike
  <2>3. Len(h) = 1 \/ Len(h) = 2
    <3>1. ~dv => "value" \in MaskRead(dv)
      BY <1>12
    <3>2. QED
      BY <3>1, FieldHeadLong, Zenon
  <2>4. want # <<>> /\ want \in Wanted(Nat)
    <3> HIDE DEF h
    <3>1. 0 < Len(h)
      <4> DEFINE k == Len(h)
      <4>1. k = 1 \/ k = 2
        BY <2>3
      <4> HIDE DEF k
      <4>2. 0 < k
        BY <4>1
      <4>3. QED
        BY <4>2 DEF k
    <3>2. QED
      BY <2>2, <3>1, BeginsSome
  <2>5. Suits(want, part)
    BY <1>9, <1>22, <2>4, NothingThere
  <2>6. ~Taken(want)
    BY <1>9, <1>10, <1>22, <2>5, NotTaken
  <2>7. QED
    BY <2>5, <2>6 DEF want, part
<1>23. CASE There(1) /\ Val /\ ~There(at)
  <2>1. dv /\ at = 2
    BY <1>8, <1>23
  <2>2. want = FieldWant(dv, M, null, 0)
    BY <1>11, <1>17, <1>19, <1>20, <1>23
  <2>3. Begins(want, FieldHead(dv, M, FALSE))
    BY <1>21, <2>2, FieldBeginsAlike
  <2>4. Begins(good, FieldHead(dv, M, FALSE))
    BY <1>2, <1>4, FieldBeginsAlike DEF good, W
  <2>5. Len(FieldHead(dv, M, FALSE)) = 2
    BY <1>23, <2>1, FieldHeadLong DEF Val
  <2>6. Starts(want, part, 1)
    <3> DEFINE h == FieldHead(dv, M, FALSE)
    <3>1. Begins(want, h) /\ Begins(good, h) /\ Len(h) = 2
      BY <2>3, <2>4, <2>5
    <3> HIDE DEF h
    <3>2. 1 \in Nat /\ 1 < Len(h)
      BY <3>1
    <3>3. QED
      BY <1>7, <3>1, <3>2, BeginsStarts
  <2>7. Suits(want, part)
    <3>1. ~There(1 + 1) /\ 1 \in Nat
      BY <1>23, <2>1
    <3>2. QED
      BY <2>6, <3>1 DEF Suits
  <2>8. ~Taken(want)
    <3>1. at \in 1..Len(part)
      BY <1>8, <1>23 DEF Holds
    <3>2. QED
      BY <1>10, <1>23, <2>7, <3>1, NotTaken
  <2>9. QED
    BY <2>7, <2>8 DEF want, part
<1>24. CASE There(1) /\ Val /\ There(at) /\ A /\ ~There(at + 1)
  <2>1. MaskRead(dv) = M /\ VariantRead(dv) = V
    BY <1>11, <1>15, <1>24
  <2>2. LengthRead(dv) = 0
    BY <1>24 DEF LengthRead, at
  <2>3. ScalarsRead(dv) = 0
    BY <1>24, <2>1, <2>2, ScalarsAre DEF A
  <2>4. want = FieldWant(dv, M, V, 0)
    BY <1>20, <2>1, <2>3
  <2>5. Begins(want, FieldHead(dv, M, A)) /\ Begins(good, FieldHead(dv, M, A))
    BY <1>2, <1>4, <1>21, <2>4, FieldBegins DEF good, W, A
  <2> DEFINE h == FieldHead(dv, M, A)
  <2>6. (dv => Len(h) = 3) /\ (~dv => Len(h) = 2)
    <3>1. A /\ "value" \in M
      BY <1>24 DEF Val
    <3>2. QED
      BY <3>1, FieldHeadLong, Zenon
  <2>7. Starts(want, part, at)
    <3>1. Begins(want, h) /\ Begins(good, h)
      BY <2>5
    <3> HIDE DEF h
    <3>2. at < Len(h)
      <4> DEFINE k == Len(h)
      <4>1. (at = 2 /\ k = 3) \/ (at = 1 /\ k = 2)
        BY <1>8, <2>6, Zenon
      <4> HIDE DEF k
      <4>2. at < k
        BY <4>1
      <4>3. QED
        BY <4>2 DEF k
    <3>3. QED
      BY <1>7, <1>13, <3>1, <3>2, BeginsStarts
  <2>8. Suits(want, part)
    BY <1>13, <1>24, <2>7 DEF Suits
  <2>9. ~Taken(want)
    <3>1. at + 1 \in 1..Len(part)
      BY <1>8, <1>24 DEF Holds
    <3>2. QED
      BY <1>10, <1>24, <2>8, <3>1, NotTaken
  <2>10. QED
    BY <2>8, <2>9 DEF want, part
<1>25. CASE There(1) /\ (Val => There(at)) /\ (Val /\ A => There(at + 1))
  <2>1. MaskRead(dv) = M
    BY <1>11, <1>25
  <2>2. VariantRead(dv) = V
    <3>1. CASE Val
      BY <1>15, <1>25, <3>1
    <3>2. CASE ~Val
      BY <1>2, <2>1, <3>2 DEF VariantRead, Val, null
    <3>3. QED
      BY <3>1, <3>2
  <2>3. ScalarsRead(dv) = L
    <3>1. CASE V[1] = "null"
      BY <1>3, <2>2, <3>1, ScalarsAre
    <3>2. CASE V[1] = "array"
      <4>1. Val
        BY <1>2, <1>18, <3>2 DEF null
      <4>2. QED
        BY <1>16, <1>25, <2>2, <3>2, <4>1, ScalarsAre DEF A
    <3>3. CASE V[1] \notin {"null", "array"}
      BY <1>2, <2>2, <3>3, ScalarsAre
    <3>4. QED
      BY <3>1, <3>2, <3>3
  <2>4. Fits(want, part)
    BY <1>7, <1>20, <2>1, <2>2, <2>3 DEF good
  <2>5. QED
    BY <2>1, <2>2, <2>3, <2>4 DEF Suits, want, part, M, V, L
<1>26. QED
  BY <1>22, <1>23, <1>24, <1>25

\* What the decoder makes of a field.
FirstRead(dv) == At(dv) + (IF VariantRead(dv)[1] = "array" THEN 1 ELSE 0)
ValuesRead(dv) == [i \in 1..ScalarsRead(dv) |-> frame[reader.pos + FirstRead(dv) + i].value]
FieldRead(dv) ==
    [type |-> VariantRead(dv)[2],
     value |-> CASE VariantRead(dv)[1] = "array" -> ValuesRead(dv)
                 [] VariantRead(dv)[1] = "null" -> None [] OTHER -> ValuesRead(dv)[1],
     status |-> Got(WantField(dv), "status", "good"),
     time |-> Got(WantField(dv), "time", None)]

\* The values of a field are those that were sent.
LEMMA ValuesAsSent ==
    ASSUME Framed, ~Sending, ReaderTyped, NEW s, Given(s), NEW n, n \in 1..Count(s),
           NEW j, j \in 1..Len(s.message.messages[n].fields), Upcoming(FieldPart(s, n, j)),
           NEW dv, dv <=> AsDataValue(s, n), There(Len(FieldPart(s, n, j))),
           VariantRead(dv) = Shape(s, n, j), ScalarsRead(dv) = Len(Scalar(s, n, j))
    PROVE  ValuesRead(dv) = Scalar(s, n, j)
<1> DEFINE part == FieldPart(s, n, j)
           V == Shape(s, n, j)
           vs == Scalar(s, n, j)
           L == Len(vs)
           at == First(s, n, j)
           read(i) == frame[reader.pos + at + i].value
<1>1. FirstRead(dv) = at
  BY DEF FirstRead, First, At
<1>2. /\ "value" \notin Mask(s, n, j) => V = <<"null", "NULL">>
      /\ V[1] = "null" => vs = <<>>
      /\ vs \in Seq(Values \cup {Damaged}) /\ L \in Nat
  BY FieldTyped
<1>3. "value" \in Mask(s, n, j) => \A i \in 1..L : Holds(part, at + i, "scalar", vs[i])
  BY FieldFits
<1>4. /\ "value" \notin Mask(s, n, j) => vs = <<>>
  <2>1. V = <<"null", "NULL">> => V[1] = "null"
    OBVIOUS
  <2>2. QED
    BY <1>2, <2>1, Zenon
<1>5. /\ at \in Nat /\ reader.pos \in Nat /\ Len(frame) \in Nat
      /\ reader.pos + Len(part) <= Len(frame)
  <2>1. at \in Nat
    BY DEF First
  <2> HIDE DEF at, part
  <2>2. QED
    BY <2>1, FrameIsDatagram DEF ReaderTyped, There, part
<1>6. ValuesRead(dv) = [i \in 1..L |-> read(i)]
  BY <1>1, Zenon DEF ValuesRead
<1> HIDE DEF part, V, at
<1>7. ASSUME NEW i \in 1..L PROVE read(i) = vs[i]
  <2>1. Len(vs) # 0
    <3> HIDE DEF vs
    <3>1. QED
      BY <1>2
  <2>2. vs # <<>>
    BY <2>1
  <2>3. Holds(part, at + i, "scalar", vs[i])
    <3> HIDE DEF vs
    <3>1. QED
      BY <1>3, <1>4, <2>2
  <2>4. i \in Nat /\ reader.pos + (at + i) = reader.pos + at + i
    <3> HIDE DEF vs
    <3>1. QED
      BY <1>2, <1>5
  <2>5. reader.pos + (at + i) <= Len(frame)
    <3>1. at + i \in 1..Len(part) /\ Len(part) \in Nat
      BY <2>3 DEF Holds
    <3>2. QED
      BY <1>5, <3>1
  <2>6. Upcoming(part)
    BY DEF part
  <2> HIDE DEF vs
  <2>7. frame[reader.pos + (at + i)].value = vs[i]
    BY <2>3, <2>5, <2>6, Sees, Zenon
  <2>8. QED
    BY <2>4, <2>7
<1> HIDE DEF vs, read
<1>8. vs = [i \in 1..L |-> vs[i]]
  BY <1>2
<1> HIDE DEF L
<1>9. ValuesRead(dv) = vs
  BY <1>6, <1>7, <1>8
<1>10. QED
  BY <1>9 DEF vs

\* The field that was read is the one that was sent.
LEMMA FieldAsSent ==
    ASSUME Framed, ~Sending, ReaderTyped, NEW s, Given(s), NEW n, n \in 1..Count(s),
           NEW j, j \in 1..Len(s.message.messages[n].fields), Upcoming(FieldPart(s, n, j)),
           NEW dv, dv <=> AsDataValue(s, n), Taken(WantField(dv))
    PROVE  /\ FieldRead(dv) = FieldOf(s, n, j)
           /\ VariantRead(dv)[1] # "matrix" <=> FieldTaken(s, n, j)
<1> DEFINE part == FieldPart(s, n, j)
           want == WantField(dv)
           M == Mask(s, n, j)
           f == FieldAt(s, n, j)
           status == Got(want, "status", "good")
           time == Got(want, "time", None)
<1>1. /\ Suits(want, part) /\ MaskRead(dv) = M /\ VariantRead(dv) = Shape(s, n, j)
      /\ ScalarsRead(dv) = Len(Scalar(s, n, j))
  BY FieldSuits
<1>2. Fits(want, part) /\ There(Len(part))
  <2> HIDE DEF part, want
  <2>1. Upcoming(part) /\ Taken(want)
    BY DEF part, want
  <2>2. QED
    BY <1>1, <2>1, Reads
<1>3. ValuesRead(dv) = Scalar(s, n, j)
  BY <1>1, <1>2, ValuesAsSent
<1>4. /\ "status" \in M => Carries(part, "status", f.status)
      /\ "status" \notin M => Lacks(part, "status")
      /\ "time" \in M => Carries(part, "time", f.time)
      /\ "time" \notin M => Lacks(part, "time")
  BY FieldFits
<1>0. Upcoming(part) /\ Taken(want)
  OBVIOUS
<1> HIDE DEF part, want
<1>5. /\ Lacks(part, "status") => status = "good"
      /\ \A value : Carries(part, "status", value) => status = value
  BY <1>0, <1>2, GotCarried
<1>6. /\ Lacks(part, "time") => time = None
      /\ \A value : Carries(part, "time", value) => time = value
  BY <1>0, <1>2, GotCarried
<1> HIDE DEF M, f, status, time
<1>7. status = (IF "status" \in M THEN f.status ELSE "good")
  BY <1>4, <1>5
<1>8. time = (IF "time" \in M THEN f.time ELSE None)
  BY <1>4, <1>6
<1>9. FieldRead(dv) =
        [type |-> VariantRead(dv)[2],
         value |-> CASE VariantRead(dv)[1] = "array" -> ValuesRead(dv)
                     [] VariantRead(dv)[1] = "null" -> None [] OTHER -> ValuesRead(dv)[1],
         status |-> status, time |-> time]
  BY DEF FieldRead, status, time, want
<1>10. FieldOf(s, n, j) =
        [type |-> Shape(s, n, j)[2],
         value |-> CASE Shape(s, n, j)[1] = "array" -> Scalar(s, n, j)
                     [] Shape(s, n, j)[1] = "null" -> None [] OTHER -> Scalar(s, n, j)[1],
         status |-> IF "status" \in M THEN f.status ELSE "good",
         time |-> IF "time" \in M THEN f.time ELSE None]
  BY DEF FieldOf, M, f
<1>11. FieldRead(dv) = FieldOf(s, n, j)
  BY <1>1, <1>3, <1>7, <1>8, <1>9, <1>10
<1>12. QED
  BY <1>1, <1>11 DEF FieldTaken

\* What is still to come where a field starts.
LEMMA FieldComes ==
    ASSUME NEW s, Given(s), NEW n, n \in 1..Count(s), NEW k, k \in 0..Fields(s, n) - 1
    PROVE  /\ FieldPart(s, n, k + 1) \in Seq(Cells)
           /\ FieldsFrom(s, n, k + 1) \o MessagesFrom(s, n) \in Seq(Cells)
           /\ FieldsFrom(s, n, k) \o MessagesFrom(s, n)
                = FieldPart(s, n, k + 1) \o (FieldsFrom(s, n, k + 1) \o MessagesFrom(s, n))
           /\ k + 1 \in 1..Len(s.message.messages[n].fields) /\ k + 1 \in 0..Fields(s, n)
           /\ k \in Nat
<1> DEFINE a == FieldPart(s, n, k + 1)
           b == FieldsFrom(s, n, k + 1)
           c == MessagesFrom(s, n)
           F == Fields(s, n)
           C == Count(s)
<1>1. F \in Nat /\ C \in Nat
  BY GivenTyped, FieldsOneByOne
<1>2. k + 1 \in 1..F /\ k + 1 \in 0..F /\ k \in Nat /\ n \in 0..C
  <2>1. n \in 1..C /\ k \in 0..F - 1
    OBVIOUS
  <2> HIDE DEF C, F
  <2>2. QED
    BY <1>1, <2>1
<1>3. c \in Seq(Cells)
  BY <1>2, MessagesOneByOne
<1>4. a \in Seq(Cells) /\ k + 1 \in 1..Len(s.message.messages[n].fields)
  BY <1>2, FieldsOneByOne
<1>5. b \in Seq(Cells)
  BY <1>2, FieldsOneByOne
<1>6. FieldsFrom(s, n, k) = a \o b
  BY FieldsOneByOne
<1> HIDE DEF a, b, c
<1>7. (a \o b) \o c = a \o (b \o c) /\ b \o c \in Seq(Cells)
  BY <1>3, <1>4, <1>5, Rejoined, Joined, SMTT(30)
<1>8. FieldsFrom(s, n, k) \o c = a \o (b \o c)
  BY <1>6, <1>7
<1>9. QED
  <2>1. FieldPart(s, n, k + 1) \in Seq(Cells)
    BY <1>4, Zenon DEF a
  <2>2. FieldsFrom(s, n, k + 1) \o MessagesFrom(s, n) \in Seq(Cells)
    BY <1>7, Zenon DEF b, c
  <2>3. a \o (b \o c)
          = FieldPart(s, n, k + 1) \o (FieldsFrom(s, n, k + 1) \o MessagesFrom(s, n))
    BY Zenon DEF a, b, c
  <2>4. FieldsFrom(s, n, k) \o MessagesFrom(s, n) = a \o (b \o c)
    BY <1>8, Zenon DEF c
  <2>5. QED
    BY <1>2, <1>4, <2>1, <2>2, <2>3, <2>4, Zenon

\* The last of some elements changed is another one appended to those before.
LEMMA LastChanged ==
    ASSUME NEW S, NEW P, P \in Seq(S), NEW d, NEW e
    PROVE  /\ Len(Append(P, d)) = Len(P) + 1 /\ Append(P, d)[Len(P) + 1] = d
           /\ [Append(P, d) EXCEPT ![Len(P) + 1] = e] = Append(P, e)
<1> DEFINE T == S \cup {d, e}
           k == Len(P)
           a == Append(P, d)
           b == Append(P, e)
           c == [a EXCEPT ![k + 1] = e]
<1>1. P \in Seq(T) /\ d \in T /\ e \in T /\ k \in Nat
  OBVIOUS
<1> HIDE DEF T
<1>2. /\ a \in Seq(T) /\ Len(a) = k + 1 /\ a[k + 1] = d
      /\ \A i \in 1..k : a[i] = P[i]
  BY <1>1, AppendProperties
<1>3. /\ b \in Seq(T) /\ Len(b) = k + 1 /\ b[k + 1] = e
      /\ \A i \in 1..k : b[i] = P[i]
  BY <1>1, AppendProperties
<1> HIDE DEF a, b, k
<1>4. b = [i \in 1..k + 1 |-> b[i]] /\ DOMAIN a = 1..k + 1
  BY <1>1, <1>2, <1>3
<1>5. c = [i \in 1..k + 1 |-> IF i = k + 1 THEN e ELSE a[i]]
  BY <1>4
<1>6. \A i \in 1..k + 1 : b[i] = IF i = k + 1 THEN e ELSE a[i]
  <2>1. \A i \in 1..k + 1 : i \in 1..k \/ i = k + 1
    BY <1>1
  <2>2. QED
    BY <1>2, <1>3, <2>1
<1> HIDE DEF c
<1>7. c = b
  BY <1>4, <1>5, <1>6
<1>8. QED
  BY <1>2, <1>7 DEF a, b, c, k

\* A field more of a message.
LEMMA FieldsChanged ==
    ASSUME NEW w, NEW u, NEW q, NEW c, NEW x, NEW f, NEW d,
           d = [writer |-> w, sequence |-> u, keep_alive |-> q, fields |-> x, encoding |-> c]
    PROVE  /\ d.fields = x
           /\ [d EXCEPT !.fields = f]
                = [writer |-> w, sequence |-> u, keep_alive |-> q, fields |-> f, encoding |-> c]
OBVIOUS

\* One field less is left.
LEMMA OneLess ==
    ASSUME ReaderTyped, NEW want, reader' = [Pass(want) EXCEPT !.left = @ - 1]
    PROVE  reader' = [Pass(want) EXCEPT !.left = reader.left - 1]
<1> DEFINE p == Pass(want)
<1>1. p.left = reader.left
  BY MovedOn
<1>2. reader' = [p EXCEPT !.left = p.left - 1]
  OBVIOUS
<1> HIDE DEF p
<1>3. reader' = [p EXCEPT !.left = reader.left - 1]
  BY <1>1, <1>2
<1>4. QED
  BY <1>3 DEF p

\* A field more of the last message.
LastIs(P, s, n, fields) ==
    message.messages = Append(P, MessageOf(s, n, fields)) /\ n = Len(P) + 1

LastMade(P, s, n, fields) ==
    [message EXCEPT !.messages = Append(P, MessageOf(s, n, fields))]

FieldAdded(m, n, f) == [m EXCEPT !.messages[n].fields = Append(@, f)]

\* A field appended to the last message is one more of its fields.
LEMMA FieldAppended ==
    ASSUME MessageTyped, NEW S, NEW P, P \in Seq(S), NEW s, NEW n, NEW fields,
           NEW f, LastIs(P, s, n, fields), message' = FieldAdded(message, n, f)
    PROVE  message' = LastMade(P, s, n, Append(fields, f))
<1>1. PICK p \in Nat, t \in DOMAIN PidSize, g \in Nat \cup {None}, q \in Nat \cup {None},
           m \in Seq(DataSet),
           a \in {message.signed}, v \in {message.verified}, k \in {message.token} :
           message = [pid |-> p, pid_type |-> t, group |-> g, sequence |-> q,
                      messages |-> m, signed |-> a, verified |-> v, token |-> k]
  BY MessageIs
<1>2. message.messages = m /\ n = Len(P) + 1
  BY <1>1 DEF LastIs
<1> DEFINE d == m[n]
           e == [d EXCEPT !.fields = Append(@, f)]
           more == [m EXCEPT ![n] = e]
           D == MessageOf(s, n, fields)
<1>3. message' = [message EXCEPT !.messages = more]
  BY <1>2 DEF FieldAdded
<1>4. m = Append(P, D)
  BY <1>2 DEF LastIs
<1>5. D.fields = fields /\ [D EXCEPT !.fields = Append(@, f)] = MessageOf(s, n, Append(fields, f))
  <2> DEFINE w == IF "payload header" \in On(s) THEN s.message.messages[n].writer ELSE 0
             u == IF "sequence" \in Flags1(s, n) THEN Number(s, n) ELSE None
             o == Quiet(s, n)
             c == IF Quiet(s, n) \/ "DataValue" \in Flags1(s, n) THEN "DataValue" ELSE "Variant"
  <2>1. /\ D = [writer |-> w, sequence |-> u, keep_alive |-> o, fields |-> fields, encoding |-> c]
        /\ MessageOf(s, n, Append(fields, f))
              = [writer |-> w, sequence |-> u, keep_alive |-> o, fields |-> Append(fields, f),
                 encoding |-> c]
    BY Zenon DEF MessageOf
  <2> DEFINE y == Append(fields, f)
  <2> HIDE DEF w, u, o, c, D, y
  <2>2. D.fields = fields
    BY <2>1, FieldsChanged, Zenon
  <2>3. [D EXCEPT !.fields = Append(@, f)] = [D EXCEPT !.fields = y]
    BY <2>2 DEF y
  <2>4. [D EXCEPT !.fields = y]
          = [writer |-> w, sequence |-> u, keep_alive |-> o, fields |-> y, encoding |-> c]
    BY <2>1, FieldsChanged
  <2>5. QED
    BY <2>1, <2>2, <2>3, <2>4 DEF y
<1> HIDE DEF D
<1>6. d = D /\ [Append(P, D) EXCEPT ![n] = e] = Append(P, e)
  <2>1. d = Append(P, D)[n]
    BY <1>4
  <2> HIDE DEF d, e
  <2>2. QED
    BY <1>2, <2>1, LastChanged
<1>7. e = MessageOf(s, n, Append(fields, f))
  BY <1>5, <1>6
<1>8. more = Append(P, MessageOf(s, n, Append(fields, f)))
  BY <1>4, <1>6, <1>7
<1> HIDE DEF more
<1>9. QED
  BY <1>3, <1>8 DEF LastMade

\* A field.
LEMMA TrackField == Inv /\ Inv' /\ Track /\ DecodeField => Track' /\ Judged'
<1> SUFFICES ASSUME Inv, Inv', Track, DecodeField PROVE Track' /\ Judged'
  OBVIOUS
<1> DEFINE n == Len(message.messages)
           dv == message.messages[n].encoding = "DataValue"
           want == WantField(dv)
           supported == VariantRead(dv)[1] # "matrix"
           f == FieldRead(dv)
           k == Passed
           part == FieldPart(Origin, n, k + 1)
           rest == FieldsFrom(Origin, n, k + 1) \o MessagesFrom(Origin, n)
           before == MessagesOf(Origin, n - 1)
           now == FieldsOf(Origin, n, k)
<1>1. pc = "field" /\ pc \in Sections
  BY DEF DecodeField, Sections
<1>2. \/ Fails(want, supported)
      \/ /\ Goes(want, supported, After(n, reader.left - 1))
         /\ reader' = [Pass(want) EXCEPT !.left = @ - 1]
         /\ message' = [message EXCEPT !.messages[n].fields = Append(@, f)]
  BY DEF DecodeField, WantField, FieldWant, MaskRead, VariantRead, LengthRead, ScalarsRead, At,
         FieldRead, FirstRead, ValuesRead
<1>3. Framed /\ ~Sending /\ ReaderTyped /\ MessageTyped /\ reader.pos \in Nat /\ Len(frame) \in Nat
  BY <1>1, SectionReads
<1>4. ASSUME sent.fate # "damaged"
      PROVE  /\ Copied /\ Given(Origin) /\ part \in Seq(Cells) /\ rest \in Seq(Cells)
             /\ n \in 1..Count(Origin) /\ k \in 0..Fields(Origin, n) - 1
             /\ k + 1 \in 1..Len(Origin.message.messages[n].fields)
             /\ Comes(part \o rest) /\ PastSecurity /\ Upcoming(part)
             /\ MessagesTaken(Origin, n - 1) /\ MessageTaken(Origin, n)
             /\ FieldsTaken(Origin, n, k)
             /\ message.messages = Append(before, MessageOf(Origin, n, now))
  <2>1. Copied /\ BetweenFields
    BY <1>1, <1>4 DEF Track
  <2>2. Given(Origin)
    BY <2>1 DEF Copied, Arrived
  <2>3. n = Current
    BY DEF Current
  <2>4. /\ Comes(FieldsFrom(Origin, n, k) \o MessagesFrom(Origin, n))
        /\ PastSecurity
        /\ n \in 1..Count(Origin) /\ k \in 0..Fields(Origin, n) - 1
        /\ MessagesTaken(Origin, n - 1) /\ MessageTaken(Origin, n)
        /\ FieldsTaken(Origin, n, k)
        /\ message.messages = Append(before, MessageOf(Origin, n, now))
    BY <2>1, <2>3 DEF BetweenFields
  <2> HIDE DEF n, k, before, now
  <2>5. /\ part \in Seq(Cells) /\ rest \in Seq(Cells)
        /\ FieldsFrom(Origin, n, k) \o MessagesFrom(Origin, n) = part \o rest
        /\ k + 1 \in 1..Len(Origin.message.messages[n].fields)
    BY <2>2, <2>4, FieldComes
  <2>6. Comes(part \o rest)
    BY <2>4, <2>5
  <2> HIDE DEF part, rest
  <2>7. Upcoming(part)
    BY <1>1, <2>1, <2>5, <2>6, Facing
  <2>8. QED
    BY <2>1, <2>2, <2>4, <2>5, <2>6, <2>7
<1>5. ASSUME sent.fate # "damaged" PROVE dv <=> AsDataValue(Origin, n)
  <2>1. ~Quiet(Origin, n)
    <3>1. k \in 0..Fields(Origin, n) - 1
      BY <1>4, <1>5
    <3>2. CASE Quiet(Origin, n)
      <4>1. Fields(Origin, n) = 0
        BY <3>2 DEF Fields
      <4> HIDE DEF k
      <4>2. QED
        BY <3>1, <4>1
    <3>3. QED
      BY <3>2
  <2>2. message.messages[n] = MessageOf(Origin, n, now)
    <3> DEFINE D == MessageOf(Origin, n, now)
               S == {before[i] : i \in 1..n - 1}
    <3>1. n \in Nat /\ n > 0 /\ n - 1 + 1 = n
      <4>1. n \in 1..Count(Origin) /\ Count(Origin) \in Nat
        BY <1>4, <1>5, GivenTyped
      <4> HIDE DEF n
      <4>2. QED
        BY <4>1
    <3>2. before \in Seq(S) /\ Len(before) = n - 1
      BY <3>1, MessagesOneMore
    <3>3. message.messages = Append(before, D)
      BY <1>4, <1>5
    <3> HIDE DEF n, before, D, S
    <3>4. Append(before, D)[Len(before) + 1] = D
      BY <3>2, LastChanged
    <3>5. QED
      BY <3>1, <3>2, <3>3, <3>4 DEF D
  <2>3. MessageTaken(Origin, n)
    BY <1>4, <1>5
  <2>4. dv <=> (Quiet(Origin, n) \/ "DataValue" \in Flags1(Origin, n))
    <3>1. dv <=> MessageOf(Origin, n, now).encoding = "DataValue"
      BY <2>2
    <3> HIDE DEF dv, n, now
    <3>2. QED
      BY <3>1 DEF MessageOf
  <2> HIDE DEF dv, n
  <2>5. "raw" \notin Flags1(Origin, n)
    BY <2>1, <2>3 DEF MessageTaken
  <2>6. Own(Origin) => ~Origin.message.messages[n].keep_alive
    BY <2>1 DEF Quiet, Flags2
  <2>7. "DataValue" \in Flags1(Origin, n) <=> AsDataValue(Origin, n)
    BY <2>5, <2>6 DEF Flags1, Flag, AsDataValue
  <2>8. QED
    BY <2>1, <2>4, <2>7
<1>6. ASSUME sent.fate # "damaged"
      PROVE  /\ Suits(want, part)
             /\ Taken(want) => /\ f = FieldOf(Origin, n, k + 1)
                               /\ supported <=> FieldTaken(Origin, n, k + 1)
  <2>1. /\ n \in 1..Count(Origin) /\ k + 1 \in 1..Len(Origin.message.messages[n].fields)
        /\ Upcoming(part) /\ Given(Origin) /\ (dv <=> AsDataValue(Origin, n))
    BY <1>4, <1>5, <1>6
  <2> HIDE DEF n, k, dv
  <2>2. Suits(want, part)
    BY <1>3, <2>1, FieldSuits
  <2>3. Taken(want) => /\ f = FieldOf(Origin, n, k + 1)
                       /\ supported <=> FieldTaken(Origin, n, k + 1)
    BY <1>3, <2>1, FieldAsSent
  <2>4. QED
    BY <2>2, <2>3
<1> HIDE DEF want, supported, f
<1>7. ASSUME Fails(want, supported) PROVE Track' /\ Judged'
  <2>1. sent.fate = "whole" /\ Taken(want) /\ ~supported => ~Accepts(Origin, receiver)
    <3>1. sent.fate = "whole" /\ Taken(want) /\ ~supported => ~FieldTaken(Origin, n, k + 1)
      BY <1>6
    <3>2. sent.fate = "whole" => n \in 1..Count(Origin) /\ k + 1 \in 1..Fields(Origin, n)
      <4>1. ASSUME sent.fate = "whole" PROVE k + 1 \in 1..Fields(Origin, n)
        <5> DEFINE F == Fields(Origin, n)
        <5>1. k \in 0..F - 1 /\ F \in Nat
          BY <1>4, <4>1, FieldsOneByOne
        <5> HIDE DEF F, k
        <5>2. k + 1 \in 1..F
          BY <5>1
        <5>3. QED
          BY <5>2 DEF F
      <4>2. QED
        BY <1>4, <4>1
    <3> HIDE DEF n, k
    <3>3. QED
      BY <3>1, <3>2 DEF Accepts, MessagesTaken
  <2> HIDE DEF part, rest
  <2>2. QED
    BY <1>1, <1>4, <1>6, <1>7, <2>1, FailsWell
<1>8. ASSUME Goes(want, supported, After(n, reader.left - 1)), sent.fate # "damaged",
             reader' = [Pass(want) EXCEPT !.left = @ - 1],
             message' = [message EXCEPT !.messages[n].fields = Append(@, f)]
      PROVE  Track' /\ Judged'
  <2> DEFINE left == reader.left - 1
             more == Append(before, MessageOf(Origin, n, FieldsOf(Origin, n, k + 1)))
             pos == reader.pos + Len(want)
  <2>1. /\ Len(want) = Len(part) /\ There(Len(part)) /\ supported
        /\ Taken(want) /\ Origin' = Origin /\ frame' = frame /\ sent' = sent
        /\ receiver' = receiver /\ pc' = After(n, left)
        /\ Ahead(Body(Origin), reader.pos + Len(want), rest)
    <3> DEFINE next == After(n, left)
    <3>1. Goes(want, supported, next)
      BY <1>8
    <3>2. /\ Copied /\ part \in Seq(Cells) /\ rest \in Seq(Cells) /\ Comes(part \o rest)
          /\ Suits(want, part)
      BY <1>4, <1>6, <1>8
    <3> HIDE DEF part, rest, next
    <3>3. /\ Len(want) = Len(part) /\ There(Len(part)) /\ supported
          /\ Taken(want) /\ Origin' = Origin /\ frame' = frame /\ sent' = sent
          /\ receiver' = receiver /\ pc' = next
          /\ Ahead(Body(Origin), reader.pos + Len(want), rest)
      BY <1>1, <3>1, <3>2, GoesWell
    <3>4. QED
      BY <3>3 DEF next
  <2>2. /\ reader'.pos = pos /\ reader'.end = reader.end
        /\ reader'.on = reader.on /\ reader'.count = reader.count
        /\ reader'.writers = reader.writers /\ reader'.left = left
    <3>1. reader' = [Pass(want) EXCEPT !.left = @ - 1]
      BY <1>8
    <3>2. reader' = [Pass(want) EXCEPT !.left = left]
      BY <1>3, <3>1, OneLess
    <3> HIDE DEF left
    <3>3. ReaderHas([Pass(want) EXCEPT !.left = left], reader.pos + Len(want),
                    reader.end, reader.on, reader.count, reader.writers, left)
      BY <1>3, ReaderEdited, Zenon
    <3>4. QED
      BY <3>2, <3>3 DEF ReaderHas
  <2>3. /\ n \in Nat /\ n > 0 /\ n \in 1..Count(Origin)
        /\ k \in Nat /\ k + 1 \in 0..Fields(Origin, n) /\ left = Fields(Origin, n) - (k + 1)
    <3> DEFINE F == Fields(Origin, n)
               C == Count(Origin)
    <3>1. /\ k \in 0..F - 1 /\ n \in 1..C /\ F \in Nat /\ C \in Nat
          /\ reader.left \in Nat
      BY <1>3, <1>4, <1>8, FieldsOneByOne, GivenTyped DEF ReaderTyped
    <3>2. k = F - reader.left
      BY DEF Passed, Current
    <3> HIDE DEF F, C, k, n
    <3>3. n \in Nat /\ n > 0 /\ k \in Nat /\ k + 1 \in 0..F /\ left = F - (k + 1)
      BY <3>1, <3>2
    <3>4. QED
      BY <3>1, <3>3 DEF F, C
  <2>4. /\ f = FieldOf(Origin, n, k + 1) /\ FieldTaken(Origin, n, k + 1)
    BY <1>6, <1>8, <2>1
  <2>5. message' = [message EXCEPT !.messages = more]
    <3> DEFINE S == {before[i] : i \in 1..n - 1}
    <3>1. before \in Seq(S) /\ Len(before) = n - 1
      BY <2>3, MessagesOneMore
    <3>2. FieldsOf(Origin, n, k + 1) = Append(now, f)
      BY <2>3, <2>4, FieldsOneMore
    <3>3. message.messages = Append(before, MessageOf(Origin, n, now))
      BY <1>4, <1>8
    <3>4. message' = FieldAdded(message, n, f)
      BY <1>8 DEF FieldAdded
    <3> HIDE DEF n, before, now, k, S
    <3>5. LastIs(before, Origin, n, now)
      <4>1. n = Len(before) + 1
        BY <2>3, <3>1
      <4>2. QED
        BY <3>3, <4>1 DEF LastIs
    <3>6. message' = LastMade(before, Origin, n, Append(now, f))
      BY <1>3, <3>1, <3>4, <3>5, FieldAppended
    <3>7. QED
      BY <3>2, <3>6 DEF LastMade
  <2>6. /\ message'.pid_type = message.pid_type /\ message'.pid = message.pid
        /\ message'.group = message.group /\ message'.sequence = message.sequence
        /\ message'.signed = message.signed /\ message'.token = message.token
        /\ message'.verified = message.verified /\ message'.messages = more
    <3> HIDE DEF more
    <3>1. MessageHas([message EXCEPT !.messages = more],
                     message.pid, message.pid_type, message.group, message.sequence,
                     more, message.signed, message.verified, message.token)
      BY <1>3, MessageEdited, Zenon
    <3>2. QED
      BY <2>5, <3>1 DEF MessageHas
  <2>7. pos \in Nat /\ pos <= Len(frame) /\ Width(SubSeq(frame, 1, pos)) <= reader.end
    <3>1. Len(want) \in Nat
      <4>1. part \in Seq(Cells) /\ Len(want) = Len(part)
        BY <1>4, <1>8, <2>1
      <4> HIDE DEF part
      <4>2. QED
        BY <4>1
    <3>2. /\ reader.pos + Len(part) <= Len(frame)
          /\ Width(SubSeq(frame, 1, reader.pos + Len(part))) <= reader.end
      BY <2>1 DEF There
    <3>3. pos = reader.pos + Len(part)
      BY <2>1
    <3>4. pos \in Nat
      BY <1>3, <3>1
    <3> HIDE DEF pos
    <3>5. QED
      BY <3>2, <3>3, <3>4
  <2>8. FieldsTaken(Origin, n, k + 1)
    <3>1. FieldsTaken(Origin, n, k)
      BY <1>4, <1>8
    <3> HIDE DEF n, k
    <3>2. \A i \in 1..k + 1 : i \in 1..k \/ i = k + 1
      BY <2>3
    <3>3. QED
      BY <2>4, <3>1, <3>2 DEF FieldsTaken
  <2>9. pc \in {"message", "field"}
    BY <1>1
  <2>10. /\ Copied /\ PastSecurity /\ MessagesTaken(Origin, n - 1) /\ MessageTaken(Origin, n)
         /\ Ahead(Body(Origin), pos, FieldsFrom(Origin, n, k + 1) \o MessagesFrom(Origin, n))
    BY <1>4, <1>8, <2>1
  <2>11. message'.messages = Append(MessagesOf(Origin, n - 1),
                                   MessageOf(Origin, n, FieldsOf(Origin, n, k + 1)))
    BY <2>6
  <2>12. /\ reader'.left = Fields(Origin, n) - (k + 1)
         /\ pc' = After(n, Fields(Origin, n) - (k + 1))
    BY <2>1, <2>2, <2>3
  <2> DEFINE j == k + 1
  <2>13. /\ n \in 1..Count(Origin) /\ j \in 0..Fields(Origin, n)
         /\ reader'.left = Fields(Origin, n) - j /\ pc' = After(n, Fields(Origin, n) - j)
         /\ message'.messages = Append(MessagesOf(Origin, n - 1),
                                       MessageOf(Origin, n, FieldsOf(Origin, n, j)))
         /\ Ahead(Body(Origin), pos, FieldsFrom(Origin, n, j) \o MessagesFrom(Origin, n))
         /\ FieldsTaken(Origin, n, j)
    BY <2>3, <2>8, <2>10, <2>11, <2>12
  <2> HIDE DEF pos, n, k, more, left, j
  <2>14. QED
    BY <1>8, <2>1, <2>2, <2>6, <2>7, <2>9, <2>10, <2>13, Onward
<1>9. QED
  <2>1. Goes(want, supported, After(n, reader.left - 1)) => sent' = sent
    BY DEF Goes
  <2> HIDE DEF n, part, rest, k
  <2>2. QED
    BY <1>2, <1>7, <1>8, <2>1, DamagedSaysNothing

-----------------------------------------------------------------------------
(* From what is sent to what becomes of it. *)

Followed == Laid /\ Track /\ Judged

\* At the start nothing is under way.
LEMMA FollowedInit == Init => Followed
BY DEF Init, Followed, Laid, Track, Judged, Sections, Ends

\* What is sent is of the layout.
LEMMA FollowedSends == Inv /\ Sends => Followed'
<1> SUFFICES ASSUME Inv, Sends PROVE Followed'
  OBVIOUS
<1>1. UNCHANGED <<sent, receiver>> /\ pc = "send" /\ pc' \in {"refused", "under way"}
  BY DEF Sends
<1>2. Track' /\ Judged'
  BY <1>1 DEF Track, Judged, Sections, Ends
<1>3. CASE pc' = "refused"
  BY <1>2, <1>3 DEF Followed, Laid
<1>4. CASE pc' # "refused"
  <2>1. /\ ~(sent.options = None /\ Unencodable(sent.message, sent.datavalue))
        /\ frame' = IF sent.options = None
                    THEN Encode(sent.message, sent.datavalue, sent.key)
                    ELSE Foreign(sent.message, sent.key, sent.options)
    BY <1>1, <1>4 DEF Sends
  <2>2. /\ Encodable(sent.message)
        /\ sent.options # None => Expressible(sent.message, sent.options)
    BY DEF Inv, Typed, Sendable
  <2>3. sent.message.messages # <<>>
    <3> DEFINE ms == sent.message.messages
    <3>1. Len(<<>>) = 0
      OBVIOUS
    <3>2. CASE sent.options = None
      <4>1. Len(ms) \in 1..MaxMessages
        BY <2>1, <3>2 DEF Unencodable
      <4> HIDE DEF ms
      <4>2. Len(ms) # 0
        BY <4>1, WireConstants
      <4>3. QED
        BY <3>1, <4>2 DEF ms
    <3>3. CASE sent.options # None
      <4>1. Len(ms) = 1
        BY <2>2, <3>3 DEF Expressible
      <4> HIDE DEF ms
      <4>2. Len(ms) # 0
        BY <4>1
      <4>3. QED
        BY <3>1, <4>2 DEF ms
    <3>4. QED
      BY <3>2, <3>3
  <2>4. Given(Origin)
    BY <2>2, <2>3, OriginIs DEF Given
  <2>5. frame' = Full(Origin)
    <3>1. CASE sent.options = None
      BY <2>1, <2>4, <3>1, OriginIs, OwnLayout DEF Own, Full
    <3>2. CASE sent.options # None
      BY <2>1, <2>4, <3>2, OriginIs, ForeignLayout DEF Own, Full
    <3>3. QED
      BY <3>1, <3>2
  <2>6. Origin' = Origin
    BY <1>1 DEF Origin
  <2>7. QED
    BY <1>2, <2>4, <2>5, <2>6 DEF Followed, Laid
<1>5. QED
  BY <1>3, <1>4

\* A datagram is no narrower than what it starts with.
LEMMA RoomForAll ==
    ASSUME NEW f, Datagram(f), NEW n, n \in 0..Len(f), Len(f) \in Nat
    PROVE  Width(SubSeq(f, 1, n)) <= Width(f)
<1>1. PICK S : f \in Seq(S) /\ \A c \in S : c.width \in Nat
  BY WidthsOfDatagram
<1>2. Width(SubSeq(f, 1, n)) <= Width(SubSeq(f, 1, Len(f)))
  <2>1. Len(f) \in 0..Len(f)
    OBVIOUS
  <2>2. QED
    BY <1>1, <2>1, Wider
<1>3. SubSeq(f, 1, Len(f)) = f
  BY <1>1
<1>4. QED
  BY <1>2, <1>3

\* What arrives is what was sent, or the front of it, if it was not damaged.
LEMMA FollowedArrive == Inv /\ Inv' /\ Laid /\ Arrive => Followed'
<1> SUFFICES ASSUME Inv, Inv', Laid, Arrive PROVE Followed'
  OBVIOUS
<1>1. /\ pc = "under way" /\ pc' = "header" /\ message' = Blank
      /\ reader' = [pos |-> 0, end |-> Width(frame'), on |-> {}, count |-> 1, writers |-> <<>>,
                    left |-> 0]
      /\ \/ frame' = frame /\ sent' = sent
         \/ /\ \E k \in 0..Len(frame) - 1 : frame' = SubSeq(frame, 1, k)
            /\ sent' = [sent EXCEPT !.fate = "cut"]
         \/ sent' = [sent EXCEPT !.fate = "damaged"]
  BY DEF Arrive
<1>2. Given(Origin) /\ frame = Full(Origin) /\ sent.fate = "whole" /\ Sendable(sent)
  BY <1>1 DEF Laid, Inv, Whole, Typed
<1>3. Laid' /\ Judged'
  BY <1>1 DEF Laid, Judged, Ends
<1>4. /\ reader'.pos = 0 /\ reader'.end = Width(frame') /\ message'.pid = 0 /\ pc' \in Fresh
      /\ pc' \in Sections
  BY <1>1 DEF Blank, Fresh, Sections
<1> DEFINE b == Body(Origin)
           full == Full(Origin)
<1>5. /\ b \in Seq(Cells) /\ Len(b) \in Nat /\ Len(full) \in Nat /\ Len(b) <= Len(full)
  BY <1>2, FullFront
<1>6. Datagram(frame') /\ Datagram(frame) /\ Len(frame) \in Nat
  <2>1. Framed' /\ ~Sending' /\ Framed /\ ~Sending
    BY <1>1 DEF Inv, Sending
  <2>2. Datagram(frame')
    <3>1. \/ frame' \in Seq(Cells)
          \/ \E body, over \in Seq(Cells) : frame' = Sealed(body, over, sent'.key)
      BY <2>1, Zenon DEF Framed
    <3>2. QED
      BY <3>1, Zenon DEF Datagram
  <2>3. QED
    BY <2>1, <2>2, FrameIsDatagram
<1>7. Ahead(b, 0, b)
  <2> HIDE DEF b
  <2>1. QED
    BY <1>5 DEF Ahead
<1>8. ASSUME frame' = frame, sent' = sent PROVE Origin' = Origin /\ Copied'
  <2>1. Origin' = Origin
    BY <1>8 DEF Origin
  <2>2. Arrived(Origin, frame', TRUE)
    <3> HIDE DEF full
    <3>1. frame' = full
      BY <1>2, <1>8 DEF full
    <3>2. QED
      BY <1>2, <1>5, <3>1 DEF Arrived, full
  <2>3. Room(Origin, frame', Width(frame'))
    <3>1. frame' = full
      BY <1>2, <1>8
    <3> HIDE DEF b, full
    <3>2. Len(b) \in 0..Len(full)
      BY <1>5
    <3>3. Width(SubSeq(frame', 1, Len(b))) <= Width(frame')
      BY <1>5, <1>6, <3>1, <3>2, RoomForAll
    <3>4. QED
      BY <1>5, <3>1, <3>3 DEF Room, b
  <2>4. sent'.fate = "whole"
    BY <1>2, <1>8
  <2>5. QED
    BY <1>4, <2>1, <2>2, <2>3, <2>4 DEF Copied
<1>9. ASSUME NEW k \in 0..Len(frame) - 1, frame' = SubSeq(frame, 1, k),
             sent' = [sent EXCEPT !.fate = "cut"]
      PROVE  Origin' = Origin /\ Copied'
  <2>1. /\ sent'.fate = "cut" /\ sent'.message = sent.message /\ sent'.key = sent.key
        /\ sent'.datavalue = sent.datavalue /\ sent'.options = sent.options
    BY <1>2, <1>9 DEF Sendable
  <2>2. Origin' = Origin
    BY <2>1 DEF Origin
  <2>3. /\ Len(frame') = k /\ k \in Nat /\ k < Len(frame)
        /\ \A i \in 1..k : frame'[i] = frame[i]
    <3>1. PICK S : frame \in Seq(S)
      BY <1>6, WidthOfFront
    <3>2. QED
      BY <1>9, <3>1
  <2>4. Arrived(Origin, frame', FALSE)
    <3> HIDE DEF full
    <3>1. frame = full
      BY <1>2 DEF full
    <3>2. Len(frame') <= Len(full) /\ frame' # full
      BY <1>5, <2>3, <3>1
    <3>3. \A i \in 1..Len(frame') : frame'[i] = full[i]
      BY <2>3, <3>1
    <3>4. QED
      BY <1>2, <3>2, <3>3 DEF Arrived, full
  <2>5. QED
    BY <1>4, <2>1, <2>2, <2>4 DEF Copied
<1>10. ASSUME sent' = [sent EXCEPT !.fate = "damaged"] PROVE Track'
  <2>1. sent'.fate = "damaged"
    BY <1>2, <1>10, Fated
  <2>2. QED
    BY <2>1 DEF Track
<1>11. ASSUME Origin' = Origin, Copied' PROVE Track'
  <2>1. Comes(Body(Origin))'
    BY <1>4, <1>7, <1>11 DEF Comes
  <2>2. QED
    BY <1>1, <1>4, <1>11, <2>1 DEF Track
<1>12. Track'
  BY <1>1, <1>8, <1>9, <1>10, <1>11
<1>13. QED
  BY <1>3, <1>12 DEF Followed

\* Where nothing is sent and nothing decoded, nothing is to be followed.
LEMMA FollowedRelay == Relay => Followed'
BY DEF Relay, Followed, Laid, Track, Judged, Sections, Ends

\* Nothing changes what is followed where nothing changes,
LEMMA FollowedStutters == Followed /\ UNCHANGED vars => Followed'
<1> SUFFICES ASSUME Followed, UNCHANGED vars PROVE Followed'
  OBVIOUS
<1>1. /\ sent' = sent /\ receiver' = receiver /\ frame' = frame /\ pc' = pc /\ reader' = reader
      /\ message' = message
  BY DEF vars
<1>2. Origin' = Origin
  BY <1>1 DEF Origin
<1>3. Copied' <=> Copied
  BY <1>1, <1>2, Zenon DEF Copied
<1>4. PastHeader' <=> PastHeader
  BY <1>1, <1>2, Zenon DEF PastHeader
<1>5. PastId' <=> PastId
  BY <1>1, <1>2, <1>4, Zenon DEF PastId
<1>6. PastGroup' <=> PastGroup
  BY <1>1, <1>2, <1>5, Zenon DEF PastGroup
<1>7. PastPayload' <=> PastPayload
  BY <1>1, <1>2, <1>6, Zenon DEF PastPayload
<1>8. PastSecurity' <=> PastSecurity
  BY <1>1, <1>2, <1>7, Zenon DEF PastSecurity
<1>9. Current' = Current /\ Passed' = Passed
  BY <1>1, <1>2, Zenon DEF Current, Passed
<1>10. BetweenMessages' <=> BetweenMessages
  BY <1>1, <1>2, <1>8, <1>9, Zenon DEF BetweenMessages, Comes
<1>11. BetweenFields' <=> BetweenFields
  BY <1>1, <1>2, <1>8, <1>9, Zenon DEF BetweenFields, Comes
<1>12. Track'
  BY <1>1, <1>2, <1>3, <1>4, <1>5, <1>6, <1>7, <1>8, <1>10, <1>11, Zenon
     DEF Followed, Track, Comes
<1>13. Laid' /\ Judged'
  BY <1>1, <1>2, Zenon DEF Followed, Laid, Judged
<1>14. QED
  BY <1>12, <1>13 DEF Followed

\* every step keeps it,
LEMMA FollowedNext == Inv /\ Followed /\ [Next]_vars => Followed'
<1> SUFFICES ASSUME Inv, Followed, [Next]_vars PROVE Followed'
  OBVIOUS
<1>1. Inv' /\ Laid /\ Track /\ Judged
  BY InvNext DEF Followed
<1>2. ASSUME pc' # "under way" PROVE Laid'
  BY <1>2 DEF Laid
<1>3. CASE DecodeFlags
  <2>1. pc' # "under way"
    BY <1>3 DEF DecodeFlags, Fails, Goes
  <2>2. QED
    BY <1>1, <1>2, <1>3, <2>1, TrackFlags DEF Followed
<1>4. CASE DecodePublisherId
  <2>1. pc' # "under way"
    BY <1>4 DEF DecodePublisherId, Fails, Goes
  <2>2. QED
    BY <1>1, <1>2, <1>4, <2>1, TrackPublisherId DEF Followed
<1>5. CASE DecodeGroupHeader
  <2>1. pc' # "under way"
    BY <1>5 DEF DecodeGroupHeader, Fails, Goes
  <2>2. QED
    BY <1>1, <1>2, <1>5, <2>1, TrackGroupHeader DEF Followed
<1>6. CASE DecodePayloadHeader
  <2>1. pc' # "under way"
    BY <1>6 DEF DecodePayloadHeader, Fails, Goes
  <2>2. QED
    BY <1>1, <1>2, <1>6, <2>1, TrackPayloadHeader DEF Followed
<1>7. CASE DecodeTimes
  <2>1. pc' # "under way"
    BY <1>7 DEF DecodeTimes, Fails, Goes
  <2>2. QED
    BY <1>1, <1>2, <1>7, <2>1, TrackTimes DEF Followed
<1>8. CASE DecodeSecurity
  <2>1. pc' # "under way"
    BY <1>8 DEF DecodeSecurity, Fails, Goes
  <2>2. QED
    BY <1>1, <1>2, <1>8, <2>1, TrackSecurity DEF Followed
<1>9. CASE DecodeSizes
  <2>1. pc' # "under way"
    BY <1>9 DEF DecodeSizes, Fails, Goes
  <2>2. QED
    BY <1>1, <1>2, <1>9, <2>1, TrackSizes DEF Followed
<1>10. CASE DecodeMessage
  <2>1. pc' # "under way"
    BY <1>10 DEF DecodeMessage, Fails, Goes, After
  <2>2. QED
    BY <1>1, <1>2, <1>10, <2>1, TrackMessage DEF Followed
<1>11. CASE DecodeField
  <2>1. pc' # "under way"
    BY <1>11 DEF DecodeField, Fails, Goes, After
  <2>2. QED
    BY <1>1, <1>2, <1>11, <2>1, TrackField DEF Followed
<1>12. CASE Sends \/ Arrive \/ Relay
  BY <1>1, <1>12, FollowedSends, FollowedArrive, FollowedRelay
<1>13. CASE UNCHANGED vars
  BY <1>13, FollowedStutters
<1>14. QED
  BY <1>3, <1>4, <1>5, <1>6, <1>7, <1>8, <1>9, <1>10, <1>11, <1>12, <1>13, Zenon DEF Next

\* and it holds of every state.
LEMMA FollowedInvariant == Spec => []Followed
<1>1. Init => Inv /\ Followed
  BY InvInit, FollowedInit
<1>2. Inv /\ Followed /\ [Next]_vars => (Inv /\ Followed)'
  BY InvNext, FollowedNext
<1>3. QED
  BY <1>1, <1>2, PTL DEF Spec

-----------------------------------------------------------------------------
(* What was made of the layout is what the sender meant. *)

\* A field, as a hypernova publisher encodes it.
LEMMA FieldMeant ==
    ASSUME NEW s, Given(s), Own(s), NEW n, n \in 1..Count(s),
           NEW j, j \in 1..Len(s.message.messages[n].fields), NEW dv, dv <=> AsDataValue(s, n)
    PROVE  FieldOf(s, n, j) = FieldCarried(FieldAt(s, n, j), dv)
<1> DEFINE f == FieldAt(s, n, j)
           V == Shape(s, n, j)
           vs == Scalar(s, n, j)
           M == Mask(s, n, j)
           null == f.type = "NULL" \/ f.value = None
           status == IF "status" \in M THEN f.status ELSE "good"
           time == IF "time" \in M THEN f.time ELSE None
           value == CASE V[1] = "array" -> vs [] V[1] = "null" -> None [] OTHER -> vs[1]
<1>1. f \in FieldValue
  BY FieldTyped
<1>2. /\ null => V = <<"null", "NULL">>
      /\ ~null => V = <<IF IsArray(f.value) THEN "array" ELSE "scalar", f.type>>
      /\ ~null /\ IsArray(f.value) => vs = f.value
      /\ ~null /\ ~IsArray(f.value) => vs = <<f.value>>
  BY DEF Shape, Scalar, IsNull
<1>3. /\ dv => ("status" \in M <=> f.status # "good") /\ ("time" \in M <=> f.time # None)
      /\ ~dv => M = {"value"}
  BY DEF Mask, Flag
<1>4. status = (IF dv THEN f.status ELSE "good")
  <2> HIDE DEF f, M
  <2>1. QED
    BY <1>3
<1>5. time = (IF dv THEN f.time ELSE None)
  <2> HIDE DEF f, M
  <2>1. QED
    BY <1>3
<1>6. V[2] = IF null THEN "NULL" ELSE f.type
  <2> HIDE DEF f, V, vs
  <2>1. QED
    BY <1>2
<1>7. value = IF null THEN None ELSE f.value
  <2> HIDE DEF f, V, vs
  <2>1. CASE null
    <3>1. V[1] = "null"
      BY <1>2, <2>1
    <3>2. QED
      BY <2>1, <3>1
  <2>2. CASE ~null /\ IsArray(f.value)
    <3>1. V[1] = "array" /\ vs = f.value
      BY <1>2, <2>2
    <3>2. QED
      BY <2>2, <3>1
  <2>3. CASE ~null /\ ~IsArray(f.value)
    <3>1. V[1] = "scalar" /\ vs = <<f.value>>
      BY <1>2, <2>3
    <3>2. vs[1] = f.value
      BY <3>1
    <3>3. QED
      BY <2>3, <3>1, <3>2
  <2>4. QED
    BY <2>1, <2>2, <2>3
<1>8. FieldOf(s, n, j) = [type |-> V[2], value |-> value, status |-> status, time |-> time]
  BY DEF FieldOf
<1>9. FieldCarried(f, dv) =
         [type |-> IF null THEN "NULL" ELSE f.type, value |-> IF null THEN None ELSE f.value,
          status |-> IF dv THEN f.status ELSE "good", time |-> IF dv THEN f.time ELSE None]
  BY DEF FieldCarried
<1> HIDE DEF f, V, vs, M, null, status, time, value
<1>10. FieldOf(s, n, j) = FieldCarried(f, dv)
  BY <1>4, <1>5, <1>6, <1>7, <1>8, <1>9
<1>11. QED
  BY <1>10 DEF f

\* What a message is made of.
LEMMA DataSetIs ==
    ASSUME NEW s, Given(s), NEW n, n \in 1..Count(s)
    PROVE  LET d == s.message.messages[n]
           IN  /\ d = [writer |-> d.writer, sequence |-> d.sequence, keep_alive |-> d.keep_alive,
                       fields |-> d.fields, encoding |-> d.encoding]
               /\ d.keep_alive \in BOOLEAN /\ d.fields \in Seq(FieldValue)
               /\ d.fields = [i \in 1..Len(d.fields) |-> d.fields[i]]
               /\ DOMAIN d.fields = 1..Len(d.fields) /\ Len(d.fields) \in Nat
<1> DEFINE d == s.message.messages[n]
<1>1. d \in DataSet
  BY GivenTyped
<1> HIDE DEF d
<1>2. /\ d = [writer |-> d.writer, sequence |-> d.sequence, keep_alive |-> d.keep_alive,
              fields |-> d.fields, encoding |-> d.encoding]
      /\ d.keep_alive \in BOOLEAN /\ d.fields \in Seq(FieldValue)
  BY <1>1 DEF DataSet
<1>3. /\ d.fields = [i \in 1..Len(d.fields) |-> d.fields[i]]
      /\ DOMAIN d.fields = 1..Len(d.fields) /\ Len(d.fields) \in Nat
  BY <1>2
<1>4. QED
  BY <1>2, <1>3 DEF d

\* Three fields of a record of five changed.
LEMMA MessageChanged ==
    ASSUME NEW w, NEW u, NEW q, NEW x, NEW c, NEW d,
           d = [writer |-> w, sequence |-> u, keep_alive |-> q, fields |-> x, encoding |-> c],
           NEW a, NEW b, NEW e
    PROVE  /\ [d EXCEPT !.sequence = a, !.fields = b, !.encoding = e]
                = [writer |-> w, sequence |-> a, keep_alive |-> q, fields |-> b, encoding |-> e]
           /\ [d EXCEPT !.writer = a, !.keep_alive = b, !.fields = e]
                = [writer |-> a, sequence |-> u, keep_alive |-> b, fields |-> e, encoding |-> c]
<1> DEFINE d1 == [writer |-> w, sequence |-> a, keep_alive |-> q, fields |-> x, encoding |-> c]
           d2 == [writer |-> w, sequence |-> a, keep_alive |-> q, fields |-> b, encoding |-> c]
           d3 == [writer |-> w, sequence |-> a, keep_alive |-> q, fields |-> b, encoding |-> e]
           e1 == [writer |-> a, sequence |-> u, keep_alive |-> q, fields |-> x, encoding |-> c]
           e2 == [writer |-> a, sequence |-> u, keep_alive |-> b, fields |-> x, encoding |-> c]
           e3 == [writer |-> a, sequence |-> u, keep_alive |-> b, fields |-> e, encoding |-> c]
<1>1. [d EXCEPT !.sequence = a] = d1
  OBVIOUS
<1>2. [d1 EXCEPT !.fields = b] = d2
  OBVIOUS
<1>3. [d2 EXCEPT !.encoding = e] = d3
  OBVIOUS
<1>4. [d EXCEPT !.writer = a] = e1
  OBVIOUS
<1>5. [e1 EXCEPT !.keep_alive = b] = e2
  OBVIOUS
<1>6. [e2 EXCEPT !.fields = e] = e3
  OBVIOUS
<1> HIDE DEF d1, d2, d3, e1, e2, e3
<1>7. [d EXCEPT !.sequence = a, !.fields = b, !.encoding = e] = d3
  BY <1>1, <1>2, <1>3, Zenon
<1>8. [d EXCEPT !.writer = a, !.keep_alive = b, !.fields = e] = e3
  BY <1>4, <1>5, <1>6, Zenon
<1>9. QED
  BY <1>7, <1>8 DEF d3, e3

\* The fields of a message that are written, together.
LEMMA FieldsMeant ==
    ASSUME NEW s, Given(s), Own(s), NEW n, n \in 1..Count(s), NEW dv, dv <=> AsDataValue(s, n)
    PROVE  LET fields == s.message.messages[n].fields
           IN  FieldsOf(s, n, Len(fields)) = [i \in DOMAIN fields |-> FieldCarried(fields[i], dv)]
<1> DEFINE fields == s.message.messages[n].fields
           L == Len(fields)
<1>1. DOMAIN fields = 1..L
  BY DataSetIs
<1>2. \A i \in 1..L : FieldOf(s, n, i) = FieldCarried(fields[i], dv)
  BY FieldMeant DEF FieldAt
<1>3. FieldsOf(s, n, L) = [i \in 1..L |-> FieldOf(s, n, i)]
  BY DEF FieldsOf
<1> HIDE DEF fields, L
<1>4. FieldsOf(s, n, L) = [i \in DOMAIN fields |-> FieldCarried(fields[i], dv)]
  BY <1>1, <1>2, <1>3
<1>5. QED
  BY <1>4 DEF fields, L

\* A message, as a hypernova publisher encodes it.
LEMMA MessageMeant ==
    ASSUME NEW s, Given(s), Own(s), NEW n, n \in 1..Count(s)
    PROVE  MessageOf(s, n, FieldsOf(s, n, Fields(s, n)))
             = MessageCarried(s.message.messages[n], s.datavalue)
<1> DEFINE d == s.message.messages[n]
           dv == IF s.datavalue = None THEN d.encoding = "DataValue" ELSE s.datavalue
           Q == Quiet(s, n)
           F == Flags1(s, n)
           fields == FieldsOf(s, n, Fields(s, n))
           all == [i \in DOMAIN d.fields |-> FieldCarried(d.fields[i], dv)]
           number == IF d.sequence = None THEN None ELSE d.sequence % SeqModulus
           encoding == IF dv THEN "DataValue" ELSE "Variant"
<1>1. /\ d = [writer |-> d.writer, sequence |-> d.sequence, keep_alive |-> d.keep_alive,
              fields |-> d.fields, encoding |-> d.encoding]
      /\ d.keep_alive \in BOOLEAN
  BY DataSetIs
<1>2. dv <=> AsDataValue(s, n)
  BY DEF AsDataValue, UseDataValue
<1>3. "payload header" \in On(s)
  BY OwnAnnounces
<1>4. Q <=> d.keep_alive
  BY DEF Quiet, Flags2
<1>5. Q \in BOOLEAN
  BY DEF Quiet
<1>6. Q = d.keep_alive
  BY <1>1, <1>4, <1>5
<1>7. MessageOf(s, n, fields) =
         [writer |-> d.writer, sequence |-> IF "sequence" \in F THEN Number(s, n) ELSE None,
          keep_alive |-> Q, fields |-> fields,
          encoding |-> IF Q \/ "DataValue" \in F THEN "DataValue" ELSE "Variant"]
  BY <1>3 DEF MessageOf
<1>8. CASE d.keep_alive
  <2>1. F = {"flags2"}
    BY <1>8 DEF Flags1
  <2>2. "sequence" \notin F
    BY <2>1
  <2>3. fields = <<>>
    <3>1. Fields(s, n) = 0
      BY <1>4, <1>8 DEF Fields
    <3>2. 0 \in Nat
      OBVIOUS
    <3>3. QED
      BY <3>1, <3>2, FieldsOneMore
  <2>4. MessageCarried(d, s.datavalue) = [d EXCEPT !.sequence = None, !.fields = <<>>,
                                                    !.encoding = "DataValue"]
    BY <1>8 DEF MessageCarried
  <2> HIDE DEF d, Q, F, fields
  <2>5. MessageCarried(d, s.datavalue) =
          [writer |-> d.writer, sequence |-> None, keep_alive |-> d.keep_alive, fields |-> <<>>,
           encoding |-> "DataValue"]
    BY <1>1, <2>4, MessageChanged
  <2>6. MessageOf(s, n, fields) = MessageCarried(d, s.datavalue)
    BY <1>4, <1>6, <1>7, <1>8, <2>2, <2>3, <2>5
  <2>7. QED
    BY <2>6 DEF d, fields
<1>9. CASE ~d.keep_alive
  <2>1. F = {IF AsDataValue(s, n) THEN "DataValue" ELSE "Variant"}
            \cup Flag(d.sequence # None, "sequence")
    BY <1>9 DEF Flags1
  <2>2. /\ "sequence" \in F <=> d.sequence # None
        /\ "DataValue" \in F <=> AsDataValue(s, n)
    BY <2>1 DEF Flag
  <2>3. Number(s, n) = d.sequence % SeqModulus
    BY DEF Number
  <2>4. fields = all
    <3>1. Fields(s, n) = Len(d.fields)
      BY <1>4, <1>9 DEF Fields
    <3>2. FieldsOf(s, n, Len(d.fields)) = all
      <4> HIDE DEF dv
      <4>1. QED
        BY <1>2, FieldsMeant
    <3>3. QED
      BY <3>1, <3>2
  <2>5. MessageCarried(d, s.datavalue) = [d EXCEPT !.sequence = number, !.fields = all,
                                                    !.encoding = encoding]
    BY <1>9 DEF MessageCarried
  <2> HIDE DEF all
  <2>6. number = IF "sequence" \in F THEN Number(s, n) ELSE None
    <3> HIDE DEF d, F
    <3>1. QED
      BY <2>2, <2>3
  <2>7. encoding = IF Q \/ "DataValue" \in F THEN "DataValue" ELSE "Variant"
    <3> HIDE DEF d, F, dv, Q
    <3>1. QED
      BY <1>2, <1>4, <1>9, <2>2
  <2> HIDE DEF d, Q, F, fields, number, encoding
  <2>8. MessageCarried(d, s.datavalue) =
          [writer |-> d.writer, sequence |-> number, keep_alive |-> d.keep_alive, fields |-> all,
           encoding |-> encoding]
    BY <1>1, <2>5, MessageChanged
  <2>9. MessageOf(s, n, fields) = MessageCarried(d, s.datavalue)
    BY <1>6, <1>7, <2>4, <2>6, <2>7, <2>8
  <2>10. QED
    BY <2>9 DEF d, fields
<1>10. QED
  BY <1>8, <1>9

\* The only message of a publisher of another make, and its only field.
LEMMA ForeignSays ==
    ASSUME NEW s, Given(s), ~Own(s)
    PROVE  LET d == s.message.messages[1]
           IN  /\ Count(s) = 1 /\ 1 \in 1..Count(s) /\ Len(d.fields) = 1
               /\ d.encoding = "DataValue" /\ d.sequence \in Nat
               /\ d.fields[1].type = "BYTE" /\ d.fields[1].time = None
               /\ AsDataValue(s, 1)
<1>1. Expressible(s.message, s.options)
  BY DEF Given, Own
<1>2. AsDataValue(s, 1)
  BY DEF AsDataValue
<1> DEFINE d == s.message.messages[1]
<1>3. /\ Count(s) = 1 /\ Len(d.fields) = 1
      /\ d.encoding = "DataValue" /\ d.sequence \in 0..SeqModulus - 1
      /\ d.fields[1].type = "BYTE" /\ d.fields[1].time = None
  BY <1>1, Zenon DEF Expressible, Count
<1>4. 1 \in 1..Count(s)
  BY <1>3
<1> HIDE DEF d
<1>5. d.sequence \in Nat
  BY <1>3, WireConstants
<1>6. QED
  BY <1>2, <1>3, <1>4, <1>5 DEF d

\* What of it the decoder takes.
LEMMA ForeignTaken ==
    ASSUME NEW s, Given(s), ~Own(s)
    PROVE  /\ MessageTaken(s, 1) <=> "keep alive" \in s.options
                                     \/ {"delta", "raw"} \cap s.options = {}
           /\ FieldTaken(s, 1, 1) <=> "matrix" \notin s.options
           /\ Quiet(s, 1) <=> "keep alive" \in s.options
           /\ Fields(s, 1) = IF "keep alive" \in s.options THEN 0 ELSE 1
           /\ HeaderTaken(s) <=> {"chunk", "discovery"} \cap s.options = {}
<1>1. Quiet(s, 1) <=> "keep alive" \in s.options
  BY DEF Quiet, Flags2
<1>2. "delta" \in Flags2(s, 1) <=> "delta" \in s.options
  BY DEF Flags2
<1>3. "raw" \in Flags1(s, 1) <=> "raw" \in s.options
  BY DEF Flags1
<1>4. MessageTaken(s, 1) <=> "keep alive" \in s.options
                             \/ {"delta", "raw"} \cap s.options = {}
  BY <1>1, <1>2, <1>3 DEF MessageTaken
<1>5. FieldTaken(s, 1, 1) <=> "matrix" \notin s.options
  <2>1. Shape(s, 1, 1) = <<IF "matrix" \in s.options THEN "matrix" ELSE "scalar", "BYTE">>
    BY DEF Shape
  <2>2. Shape(s, 1, 1)[1] = IF "matrix" \in s.options THEN "matrix" ELSE "scalar"
    BY <2>1
  <2>3. QED
    BY <2>2 DEF FieldTaken
<1>6. Fields(s, 1) = IF "keep alive" \in s.options THEN 0 ELSE 1
  BY <1>1, ForeignSays DEF Fields
<1>7. HeaderTaken(s) <=> {"chunk", "discovery"} \cap s.options = {}
  BY DEF HeaderTaken, Ext2
<1>8. QED
  BY <1>1, <1>4, <1>5, <1>6, <1>7

\* A message of another make is made of what it carries.
LEMMA ForeignMeant ==
    ASSUME NEW s, Given(s), ~Own(s), MessageTaken(s, 1)
    PROVE  MessageOf(s, 1, FieldsOf(s, 1, Fields(s, 1)))
             = ForeignCarried(s.message.messages[1], s.options)
<1> DEFINE d == s.message.messages[1]
           X == s.options
           Q == Quiet(s, 1)
           F == Flags1(s, 1)
           fields == FieldsOf(s, 1, Fields(s, 1))
           w == IF "payload header" \in X THEN d.writer ELSE 0
           q == "keep alive" \in X
           x == IF "keep alive" \in X THEN <<>> ELSE d.fields
           f == d.fields[1]
<1>1. /\ Count(s) = 1 /\ 1 \in 1..Count(s) /\ Len(d.fields) = 1
      /\ d.encoding = "DataValue" /\ d.sequence \in Nat
      /\ f.type = "BYTE" /\ f.time = None
      /\ AsDataValue(s, 1)
  BY ForeignSays
<1>2. /\ d = [writer |-> d.writer, sequence |-> d.sequence, keep_alive |-> d.keep_alive,
              fields |-> d.fields, encoding |-> d.encoding]
      /\ d.fields \in Seq(FieldValue)
  <2>1. d \in DataSet
    BY <1>1, GivenTyped
  <2> HIDE DEF d
  <2>2. QED
    BY <2>1 DEF DataSet
<1>3. Q <=> q
  BY ForeignTaken
<1>4. Q = q
  <2>1. Q \in BOOLEAN
    BY DEF Quiet
  <2>2. q \in BOOLEAN
    OBVIOUS
  <2> HIDE DEF Q, q
  <2>3. QED
    BY <1>3, <2>1, <2>2
<1>5. "payload header" \in On(s) <=> "payload header" \in X
  BY ForeignAnnounces
<1>6. "sequence" \in F /\ Number(s, 1) = d.sequence
  BY DEF Flags1, Number
<1>7. Q \/ "DataValue" \in F
  <2>1. CASE Q
    BY <2>1
  <2>2. CASE ~Q
    <3>1. "raw" \notin X
      BY <1>3, <2>2, ForeignTaken
    <3>2. QED
      BY <3>1 DEF Flags1
  <2>3. QED
    BY <2>1, <2>2
<1>8. fields = x
  <2>1. CASE q
    <3>1. Fields(s, 1) = 0
      BY <2>1, ForeignTaken
    <3>2. 0 \in Nat
      OBVIOUS
    <3>3. FieldsOf(s, 1, 0) = <<>>
      BY <3>2, FieldsOneMore
    <3>4. QED
      BY <2>1, <3>1, <3>3
  <2>2. CASE ~q
    <3>1. Fields(s, 1) = 1
      BY <2>2, ForeignTaken
    <3>2. FieldOf(s, 1, 1) = f
      <4> DEFINE V == Shape(s, 1, 1)
                 vs == Scalar(s, 1, 1)
                 M == Mask(s, 1, 1)
                 value == CASE V[1] = "array" -> vs [] V[1] = "null" -> None [] OTHER -> vs[1]
                 status == IF "status" \in M THEN f.status ELSE "good"
                 time == IF "time" \in M THEN f.time ELSE None
      <4>1. V = <<IF "matrix" \in X THEN "matrix" ELSE "scalar", "BYTE">> /\ vs = <<f.value>>
        BY DEF Shape, Scalar, FieldAt
      <4>2. /\ V[1] = "matrix" \/ V[1] = "scalar"
            /\ V[2] = "BYTE" /\ vs[1] = f.value
        BY <4>1
      <4>3. M = {"value", "status", "server time", "picoseconds"}
        BY <1>1 DEF Mask
      <4>4. "status" \in M /\ "time" \notin M
        BY <4>3
      <4>5. FieldOf(s, 1, 1) = [type |-> V[2], value |-> value, status |-> status, time |-> time]
        BY DEF FieldOf, FieldAt
      <4>6. f \in FieldValue
        BY <1>1, <1>2
      <4> HIDE DEF f, V, vs, M
      <4>7. value = f.value
        BY <4>2
      <4>8. status = f.status /\ time = None
        BY <4>4
      <4>9. f = [type |-> f.type, value |-> f.value, status |-> f.status, time |-> f.time]
        BY <4>6 DEF FieldValue
      <4> HIDE DEF value, status, time
      <4>10. f = [type |-> "BYTE", value |-> f.value, status |-> f.status, time |-> None]
        BY <1>1, <4>9
      <4>11. FieldOf(s, 1, 1) = [type |-> "BYTE", value |-> f.value, status |-> f.status,
                                 time |-> None]
        BY <4>2, <4>5, <4>7, <4>8
      <4>12. QED
        BY <4>10, <4>11
    <3>3. fields = [j \in 1..1 |-> FieldOf(s, 1, j)]
      BY <3>1 DEF FieldsOf
    <3>4. \A j \in 1..1 : FieldOf(s, 1, j) = d.fields[j]
      BY <3>2
    <3>5. d.fields = [j \in 1..1 |-> d.fields[j]]
      <4> HIDE DEF d
      <4>1. QED
        BY <1>1, <1>2
    <3> HIDE DEF d, fields
    <3>6. fields = d.fields
      BY <3>3, <3>4, <3>5
    <3>7. QED
      BY <2>2, <3>6 DEF d
  <2>3. QED
    BY <2>1, <2>2
<1>9. MessageOf(s, 1, fields) =
         [writer |-> IF "payload header" \in On(s) THEN d.writer ELSE 0,
          sequence |-> IF "sequence" \in F THEN Number(s, 1) ELSE None,
          keep_alive |-> Q, fields |-> fields,
          encoding |-> IF Q \/ "DataValue" \in F THEN "DataValue" ELSE "Variant"]
  BY DEF MessageOf
<1>10. ForeignCarried(d, X) = [d EXCEPT !.writer = w, !.keep_alive = q, !.fields = x]
  BY DEF ForeignCarried
<1> HIDE DEF d, X, Q, F, fields, q, x
<1>11. MessageOf(s, 1, fields) = [writer |-> w, sequence |-> d.sequence, keep_alive |-> q,
                                  fields |-> x, encoding |-> d.encoding]
  BY <1>1, <1>4, <1>5, <1>6, <1>7, <1>8, <1>9
<1> HIDE DEF w
<1>12. ForeignCarried(d, X) = [writer |-> w, sequence |-> d.sequence, keep_alive |-> q,
                               fields |-> x, encoding |-> d.encoding]
  BY <1>2, <1>10, MessageChanged
<1>13. QED
  BY <1>11, <1>12 DEF d, X, fields

\* Whom a frame is to be welcome to, by its key.
Keyed(s, r) ==
    /\ s.key # None /\ r.key # None => s.key = r.key
    /\ r.require => s.key = r.key

\* The decoder takes all that hypernova encodes.
LEMMA OwnTaken ==
    ASSUME NEW s, Given(s), Own(s), NEW r
    PROVE  Accepts(s, r) <=> Keyed(s, r)
<1>1. HeaderTaken(s)
  BY DEF HeaderTaken, Ext2
<1>2. SecurityTaken(s, r) <=> Keyed(s, r)
  <2>1. "encrypted" \notin SecurityFlags(s)
    BY DEF SecurityFlags
  <2>2. QED
    BY <2>1 DEF SecurityTaken, Keyed
<1>3. \A n \in 1..Count(s) : MessageTaken(s, n)
  <2>1. SUFFICES ASSUME NEW n \in 1..Count(s) PROVE MessageTaken(s, n)
    OBVIOUS
  <2>2. "delta" \notin Flags2(s, n)
    BY DEF Flags2
  <2>3. "raw" \notin Flags1(s, n)
    BY DEF Flags1, Flag
  <2>4. QED
    BY <2>2, <2>3 DEF MessageTaken
<1>4. \A n \in 1..Count(s) : \A j \in 1..Fields(s, n) : FieldTaken(s, n, j)
  <2>1. SUFFICES ASSUME NEW n \in 1..Count(s), NEW j \in 1..Fields(s, n) PROVE FieldTaken(s, n, j)
    OBVIOUS
  <2> DEFINE f == FieldAt(s, n, j)
             V == Shape(s, n, j)
  <2>2. V = <<"null", "NULL">> \/ V = <<IF IsArray(f.value) THEN "array" ELSE "scalar", f.type>>
    BY DEF Shape
  <2> HIDE DEF V, f
  <2>3. V[1] # "matrix"
    <3>1. CASE V = <<"null", "NULL">>
      BY <3>1
    <3>2. CASE V = <<IF IsArray(f.value) THEN "array" ELSE "scalar", f.type>>
      <4>1. V[1] = IF IsArray(f.value) THEN "array" ELSE "scalar"
        BY <3>2
      <4>2. QED
        BY <4>1
    <3>3. QED
      BY <2>2, <3>1, <3>2
  <2>4. QED
    BY <2>3 DEF V, FieldTaken
<1>5. QED
  BY <1>1, <1>2, <1>3, <1>4 DEF Accepts, MessagesTaken

\* Of a frame of another make, what is not among what it does not support.
LEMMA ForeignWelcome ==
    ASSUME NEW s, Given(s), ~Own(s), NEW r
    PROVE  Accepts(s, r) <=>
             /\ Keyed(s, r)
             /\ s.options \cap Unsupported(s.options)
                  \subseteq (IF s.key = None THEN {"encrypted"} ELSE {})
<1> DEFINE X == s.options
           quiet == "keep alive" \in X
<1>1. /\ MessageTaken(s, 1) <=> quiet \/ {"delta", "raw"} \cap X = {}
      /\ FieldTaken(s, 1, 1) <=> "matrix" \notin X
      /\ Fields(s, 1) = IF quiet THEN 0 ELSE 1
      /\ HeaderTaken(s) <=> {"chunk", "discovery"} \cap X = {}
  BY ForeignTaken
<1>2. Count(s) = 1
  BY ForeignSays
<1>3. SecurityTaken(s, r) <=> Keyed(s, r) /\ (s.key # None => "encrypted" \notin X)
  <2>1. "encrypted" \in SecurityFlags(s) <=> "encrypted" \in X
    BY DEF SecurityFlags
  <2>2. QED
    BY <2>1 DEF SecurityTaken, Keyed
<1>4. MessagesTaken(s, 1) <=> quiet \/ {"delta", "raw", "matrix"} \cap X = {}
  <2>1. MessagesTaken(s, 1) <=>
          MessageTaken(s, 1) /\ \A k \in 1..Fields(s, 1) : FieldTaken(s, 1, k)
    <3>1. 1..1 = {1}
      OBVIOUS
    <3>2. QED
      BY <3>1 DEF MessagesTaken
  <2>2. CASE quiet
    <3>1. Fields(s, 1) = 0
      BY <1>1, <2>2
    <3>2. \A k \in 1..Fields(s, 1) : FieldTaken(s, 1, k)
      BY <3>1
    <3> HIDE DEF quiet, X
    <3>3. QED
      BY <1>1, <2>1, <2>2, <3>2, Zenon
  <2>3. CASE ~quiet
    <3>1. Fields(s, 1) = 1
      BY <1>1, <2>3
    <3>2. (\A k \in 1..Fields(s, 1) : FieldTaken(s, 1, k)) <=> FieldTaken(s, 1, 1)
      <4>1. 1 \in 1..1 /\ \A k \in 1..1 : k = 1
        OBVIOUS
      <4>2. QED
        BY <3>1, <4>1, Zenon
    <3>3. {"delta", "raw"} \cap X = {} /\ "matrix" \notin X
             <=> {"delta", "raw", "matrix"} \cap X = {}
      OBVIOUS
    <3> HIDE DEF quiet, X
    <3>4. QED
      BY <1>1, <2>1, <2>3, <3>2, <3>3, Zenon
  <2>4. QED
    BY <2>2, <2>3
<1>5. X \cap Unsupported(X) \subseteq (IF s.key = None THEN {"encrypted"} ELSE {}) <=>
        /\ {"chunk", "discovery"} \cap X = {}
        /\ s.key # None => "encrypted" \notin X
        /\ quiet \/ {"delta", "raw", "matrix"} \cap X = {}
  <2> HIDE DEF X
  <2>1. CASE quiet
    <3>1. Unsupported(X) = {"chunk", "discovery", "encrypted"}
      BY <2>1 DEF Unsupported
    <3>2. QED
      BY <2>1, <3>1
  <2>2. CASE ~quiet
    <3>1. Unsupported(X) = {"chunk", "discovery", "encrypted", "delta", "raw", "matrix"}
      BY <2>2 DEF Unsupported
    <3>2. QED
      BY <2>2, <3>1
  <2>3. QED
    BY <2>1, <2>2
<1>6. Accepts(s, r) <=> HeaderTaken(s) /\ SecurityTaken(s, r) /\ MessagesTaken(s, 1)
  BY <1>2 DEF Accepts
<1> HIDE DEF X, quiet
<1>7. Accepts(s, r) <=>
             /\ Keyed(s, r)
             /\ X \cap Unsupported(X) \subseteq (IF s.key = None THEN {"encrypted"} ELSE {})
  BY <1>1, <1>3, <1>4, <1>5, <1>6
<1>8. QED
  BY <1>7 DEF X

\* A frame is accepted by whom it is welcome to.
LEMMA WelcomeAccepted ==
    ASSUME Given(Origin)
    PROVE  Welcome(sent) <=> Accepts(Origin, receiver)
<1>1. Origin.key = sent.key /\ Origin.options = sent.options
  BY OriginIs
<1>2. Keyed(Origin, receiver) <=>
        /\ sent.key # None /\ receiver.key # None => sent.key = receiver.key
        /\ receiver.require => sent.key = receiver.key
  BY <1>1 DEF Keyed
<1>3. Own(Origin) <=> sent.options = None
  BY <1>1 DEF Own
<1>4. CASE Own(Origin)
  BY <1>2, <1>3, <1>4, OwnTaken DEF Welcome
<1>5. CASE ~Own(Origin)
  <2>1. Accepts(Origin, receiver) <=>
          /\ Keyed(Origin, receiver)
          /\ sent.options \cap Unsupported(sent.options)
               \subseteq (IF sent.key = None THEN {"encrypted"} ELSE {})
    BY <1>1, <1>5, ForeignWelcome
  <2>2. QED
    BY <1>2, <1>3, <1>5, <2>1 DEF Welcome
<1>6. QED
  BY <1>4, <1>5

\* What is to be made of an accepted frame is what it carries.
LEMMA CarriedMade ==
    ASSUME Given(Origin), Accepts(Origin, receiver)
    PROVE  MadeOf(Origin, receiver) = Carried(sent)
<1> DEFINE s == Origin
           m == sent.message
           X == sent.options
           own == X = None
           C == Count(Origin)
           carried == [i \in DOMAIN m.messages |->
                          IF own THEN MessageCarried(m.messages[i], sent.datavalue)
                          ELSE ForeignCarried(m.messages[i], X)]
           pid == IF own \/ "publisher id" \in X THEN m.pid ELSE 0
           token == IF sent.key = None THEN 0 ELSE IF own THEN 1 ELSE 7
           sequence == IF own /\ m.sequence # None THEN m.sequence % SeqModulus ELSE None
           verified == IF sent.key # None /\ receiver.key # None THEN TRUE ELSE None
<1>1. /\ Origin.message = m /\ Origin.key = sent.key /\ Origin.options = X
      /\ Origin.datavalue = sent.datavalue
  BY OriginIs
<1>2. Own(Origin) <=> own
  BY <1>1 DEF Own
<1>3. (IF "publisher id" \in On(Origin) THEN m.pid ELSE 0) = pid
  <2>1. CASE own
    BY <1>2, <2>1, OwnAnnounces
  <2>2. CASE ~own
    <3>1. "publisher id" \in On(Origin) <=> "publisher id" \in X
      BY <1>1, <1>2, <2>2, ForeignAnnounces
    <3>2. QED
      BY <2>2, <3>1
  <2>3. QED
    BY <2>1, <2>2
<1>4. (IF sent.key # None THEN Token(Origin) ELSE 0) = token
  BY <1>2 DEF Token
<1>5. MessagesOf(Origin, C) = carried
  <2>1. DOMAIN m.messages = 1..C
    BY <1>1, GivenTyped DEF Count
  <2>2. CASE own
    <3>1. \A n \in 1..C : MessageOf(Origin, n, FieldsOf(Origin, n, Fields(Origin, n)))
                            = MessageCarried(m.messages[n], sent.datavalue)
      BY <1>1, <1>2, <2>2, MessageMeant
    <3>2. MessagesOf(Origin, C)
            = [n \in 1..C |-> MessageOf(Origin, n, FieldsOf(Origin, n, Fields(Origin, n)))]
      BY DEF MessagesOf
    <3>3. carried = [n \in 1..C |-> MessageCarried(m.messages[n], sent.datavalue)]
      BY <2>1, <2>2
    <3> HIDE DEF C, carried, m
    <3>4. QED
      BY <3>1, <3>2, <3>3
  <2>3. CASE ~own
    <3>1. C = 1
      BY <1>2, <2>3, ForeignSays
    <3>2. MessageTaken(Origin, 1)
      <4>1. 1 \in 1..1
        OBVIOUS
      <4>2. QED
        BY <3>1, <4>1 DEF Accepts, MessagesTaken
    <3>3. MessageOf(Origin, 1, FieldsOf(Origin, 1, Fields(Origin, 1)))
            = ForeignCarried(m.messages[1], X)
      BY <1>1, <1>2, <2>3, <3>2, ForeignMeant
    <3>4. MessagesOf(Origin, C)
            = [n \in 1..1 |-> MessageOf(Origin, n, FieldsOf(Origin, n, Fields(Origin, n)))]
      BY <3>1 DEF MessagesOf
    <3>5. carried = [n \in 1..1 |-> ForeignCarried(m.messages[n], X)]
      BY <2>1, <2>3, <3>1
    <3>6. \A n \in 1..1 : n = 1
      OBVIOUS
    <3> HIDE DEF C, carried, m, X
    <3>7. \A n \in 1..1 : MessageOf(Origin, n, FieldsOf(Origin, n, Fields(Origin, n)))
                            = ForeignCarried(m.messages[n], X)
      BY <3>3, <3>6, Zenon
    <3>8. QED
      BY <3>4, <3>5, <3>7
  <2>4. QED
    BY <2>2, <2>3
<1>6. MadeOf(Origin, receiver) =
        [pid |-> IF "publisher id" \in On(Origin) THEN m.pid ELSE 0, pid_type |-> m.pid_type,
         group |-> m.group, sequence |-> sequence, messages |-> MessagesOf(Origin, C),
         signed |-> sent.key # None, verified |-> verified,
         token |-> IF sent.key # None THEN Token(Origin) ELSE 0]
  <2>1. (IF Own(Origin) /\ m.sequence # None THEN m.sequence % SeqModulus ELSE None) = sequence
    BY <1>2
  <2>2. VerifiedOf(Origin, receiver) = verified
    BY <1>1 DEF VerifiedOf
  <2> HIDE DEF sequence, verified, C
  <2>3. MadeOf(Origin, receiver) =
          [pid |-> IF "publisher id" \in On(Origin) THEN m.pid ELSE 0, pid_type |-> m.pid_type,
           group |-> m.group,
           sequence |-> IF Own(Origin) /\ m.sequence # None THEN m.sequence % SeqModulus ELSE None,
           messages |-> MessagesOf(Origin, C),
           signed |-> sent.key # None, verified |-> VerifiedOf(Origin, receiver),
           token |-> IF sent.key # None THEN Token(Origin) ELSE 0]
    BY <1>1, Zenon DEF MadeOf, C
  <2>4. QED
    BY <2>1, <2>2, <2>3, Zenon
<1>7. Carried(sent) =
        [pid |-> pid, pid_type |-> m.pid_type, group |-> m.group, sequence |-> sequence,
         messages |-> carried, signed |-> sent.key # None, verified |-> verified,
         token |-> token]
  BY Zenon DEF Carried
<1> HIDE DEF pid, token, sequence, verified, carried, C
<1>8. QED
  BY <1>3, <1>4, <1>5, <1>6, <1>7, Zenon

\* A frame judged as its layout says is judged as RoundTrip asks.
LEMMA JudgedRight == Judged => RoundTrip
<1> SUFFICES ASSUME Judged, pc \in Ends, sent.fate # "damaged"
             PROVE  IF sent.fate = "whole" /\ Welcome(sent)
                    THEN pc = "decoded" /\ message = Carried(sent)
                    ELSE pc = "rejected"
  BY DEF RoundTrip
<1>1. /\ Given(Origin)
      /\ IF sent.fate = "whole" /\ Accepts(Origin, receiver)
         THEN pc = "decoded" /\ message = MadeOf(Origin, receiver)
         ELSE pc = "rejected"
  BY DEF Judged
<1>2. Welcome(sent) <=> Accepts(Origin, receiver)
  BY <1>1, WelcomeAccepted
<1>3. Accepts(Origin, receiver) => MadeOf(Origin, receiver) = Carried(sent)
  BY <1>1, CarriedMade
<1>4. QED
  BY <1>1, <1>2, <1>3

\* decode_network_message undoes encode_network_message (wire.py:546-655, 332-403): a frame
\* that arrives whole, of hypernova or of another make, is decoded to what it carries if the
\* receiver supports it and trusts it, and rejected if not; one cut anywhere is rejected.
THEOREM DecodesWhatWasSent == Spec => []RoundTrip
BY FollowedInvariant, JudgedRight, PTL DEF Followed

-----------------------------------------------------------------------------
(* What a relay sends again: messages as a decoder makes them, which an encoder that keeps *)
(* their encodings changes nothing of.                                                     *)

\* A message as a decoder makes it: numbers of 16 bits, and nothing in a keep-alive.
TidyMessage(d) ==
    /\ d.sequence \in Residues \cup {None}
    /\ d.keep_alive => d.fields = <<>> /\ d.encoding = "DataValue"
    /\ \A j \in DOMAIN d.fields : TidyField(d.fields[j], d.encoding = "DataValue")

Tidy(m) ==
    /\ m.sequence \in Residues \cup {None}
    /\ \A i \in DOMAIN m.messages : TidyMessage(m.messages[i])

\* What is decoded is tidy, also of a damaged frame, and so is what was relayed.
Tidied ==
    /\ Tidy(message)
    /\ pc = "field" => ~message.messages[Len(message.messages)].keep_alive
    /\ relayed # None =>
          /\ Tidy(relayed) /\ sent.message = relayed /\ sent.datavalue = None
          /\ sent.options = None

FieldGiven(d, f) == [d EXCEPT !.fields = Append(@, f)]

\* The numbers and the messages of a message, one field added to one of them.
LEMMA FieldAddedTo ==
    ASSUME MessageTyped, NEW n, NEW f, message' = FieldAdded(message, n, f)
    PROVE  /\ message'.sequence = message.sequence
           /\ message'.messages = [message.messages EXCEPT ![n] = FieldGiven(message.messages[n], f)]
<1>1. PICK p \in Nat, t \in DOMAIN PidSize, g \in Nat \cup {None}, q \in Nat \cup {None},
           m \in Seq(DataSet),
           a \in {message.signed}, v \in {message.verified}, k \in {message.token} :
           message = [pid |-> p, pid_type |-> t, group |-> g, sequence |-> q,
                      messages |-> m, signed |-> a, verified |-> v, token |-> k]
  BY MessageIs
<1> DEFINE d == m[n]
           e == [d EXCEPT !.fields = Append(@, f)]
           more == [m EXCEPT ![n] = e]
<1>2. message.messages = m
  BY <1>1
<1>3. message' = [message EXCEPT !.messages = more]
  BY <1>2 DEF FieldAdded
<1> HIDE DEF more
<1>4. message'.sequence = message.sequence /\ message'.messages = more
  BY <1>1, <1>3
<1>5. QED
  BY <1>2, <1>4 DEF more, FieldGiven

\* A tidy field more leaves a message tidy.
LEMMA TidyFieldAdded ==
    ASSUME NEW d \in DataSet, TidyMessage(d), ~d.keep_alive, NEW f \in FieldValue,
           TidyField(f, d.encoding = "DataValue")
    PROVE  TidyMessage(FieldGiven(d, f)) /\ ~FieldGiven(d, f).keep_alive
<1> DEFINE e == FieldGiven(d, f)
           dv == d.encoding = "DataValue"
<1>1. /\ e.sequence = d.sequence /\ e.keep_alive = d.keep_alive /\ e.encoding = d.encoding
      /\ e.fields = Append(d.fields, f)
  BY DEF DataSet, FieldGiven
<1>2. d.fields \in Seq(FieldValue)
  BY DEF DataSet
<1>3. \A j \in DOMAIN d.fields : TidyField(d.fields[j], dv)
  BY DEF TidyMessage
<1>4. \A j \in DOMAIN Append(d.fields, f) :
          \/ j \in DOMAIN d.fields /\ Append(d.fields, f)[j] = d.fields[j]
          \/ Append(d.fields, f)[j] = f
  BY <1>2
<1> HIDE DEF e
<1>5. \A j \in DOMAIN e.fields : TidyField(e.fields[j], dv)
  <2> HIDE DEF dv
  <2>1. TidyField(f, dv)
    BY DEF dv
  <2>2. QED
    BY <1>1, <1>3, <1>4, <2>1, Zenon
<1>6. TidyMessage(e)
  BY <1>1, <1>5 DEF TidyMessage
<1>7. QED
  BY <1>1, <1>6 DEF e

\* Of a section that fails, or is none, nothing becomes untidy.
LEMMA TidiedKept ==
    ASSUME Tidied, message' = message, relayed' = relayed, sent'.message = sent.message,
           sent'.datavalue = sent.datavalue, sent'.options = sent.options,
           pc' = "field" => pc = "field"
    PROVE  Tidied'
<1>1. Tidy(message') /\ (relayed' # None => Tidy(relayed'))
  BY DEF Tidied
<1>2. QED
  BY <1>1 DEF Tidied, Tidy

\* What was relayed stays while a message is made.
LEMMA TidiedMade ==
    ASSUME Tidied, relayed' = relayed, sent' = sent, Tidy(message'),
           pc' = "field" => ~message'.messages[Len(message'.messages)].keep_alive
    PROVE  Tidied'
BY DEF Tidied, Tidy

-----------------------------------------------------------------------------
(* The sections. *)

\* The sections of the header, and the payload header, the times and the sizes.
LEMMA TidiedHeader ==
    ASSUME Inv, Tidied, \/ DecodeFlags \/ DecodePublisherId \/ DecodePayloadHeader
                        \/ DecodeTimes \/ DecodeSecurity \/ DecodeSizes
    PROVE  Tidied'
<1>1. message'.sequence = message.sequence /\ message'.messages = message.messages
  <2>1. MessageTyped
    BY DEF Inv, Typed
  <2>2. PICK p \in Nat, t \in DOMAIN PidSize, g \in Nat \cup {None}, q \in Nat \cup {None},
             m \in Seq(DataSet),
             a \in {message.signed}, v \in {message.verified}, k \in {message.token} :
             message = [pid |-> p, pid_type |-> t, group |-> g, sequence |-> q,
                        messages |-> m, signed |-> a, verified |-> v, token |-> k]
    BY <2>1, MessageIs
  <2>3. \A x : /\ [message EXCEPT !.pid_type = x].sequence = q
               /\ [message EXCEPT !.pid_type = x].messages = m
               /\ [message EXCEPT !.pid = x].sequence = q
               /\ [message EXCEPT !.pid = x].messages = m
    BY <2>2
  <2>4. \A x, y, z : /\ [message EXCEPT !.signed = x, !.token = y, !.verified = z].sequence = q
                     /\ [message EXCEPT !.signed = x, !.token = y, !.verified = z].messages = m
    BY <2>2
  <2>5. message.sequence = q /\ message.messages = m
    BY <2>2
  <2>6. \/ message' = message
        \/ \E x : message' = [message EXCEPT !.pid_type = x]
        \/ \E x : message' = [message EXCEPT !.pid = x]
        \/ \E x, y, z : message' = [message EXCEPT !.signed = x, !.token = y, !.verified = z]
    <3>1. DecodeFlags => message' = message \/ \E x : message' = [message EXCEPT !.pid_type = x]
      BY DEF DecodeFlags, Fails
    <3>2. DecodePublisherId => message' = message \/ \E x : message' = [message EXCEPT !.pid = x]
      BY DEF DecodePublisherId, Fails
    <3>3. DecodePayloadHeader \/ DecodeTimes \/ DecodeSizes => message' = message
      BY DEF DecodePayloadHeader, DecodeTimes, DecodeSizes, Fails
    <3>4. DecodeSecurity =>
            \/ message' = message
            \/ \E x, y, z : message' = [message EXCEPT !.signed = x, !.token = y, !.verified = z]
      <4> SUFFICES ASSUME DecodeSecurity, message' # message
                   PROVE  \E x, y, z : message' = [message EXCEPT !.signed = x, !.token = y,
                                                                  !.verified = z]
        BY Zenon
      <4> DEFINE security == "security" \in reader.on
                 verified == security /\ receiver.key # None /\ Verified(receiver.key)
                 token == Got(SecurityHeader, "token", 0)
                 z == IF verified THEN TRUE ELSE None
      <4>1. message' = [message EXCEPT !.signed = security, !.token = token, !.verified = z]
        BY DEF DecodeSecurity, Fails
      <4> HIDE DEF security, verified, token, z
      <4>2. QED
        BY <4>1, Zenon
    <3>5. QED
      BY <3>1, <3>2, <3>3, <3>4, Zenon
  <2>7. CASE \E x : message' = [message EXCEPT !.pid_type = x]
    BY <2>3, <2>5, <2>7
  <2>8. CASE \E x : message' = [message EXCEPT !.pid = x]
    BY <2>3, <2>5, <2>8
  <2>9. CASE \E x, y, z : message' = [message EXCEPT !.signed = x, !.token = y, !.verified = z]
    <3>1. PICK x, y, z : message' = [message EXCEPT !.signed = x, !.token = y, !.verified = z]
      BY <2>9
    <3>2. QED
      BY <2>4, <2>5, <3>1
  <2>10. CASE message' = message
    BY <2>10
  <2>11. QED
    BY <2>6, <2>7, <2>8, <2>9, <2>10, Zenon
<1>2. relayed' = relayed /\ sent' = sent /\ pc' # "field"
  BY DEF DecodeFlags, DecodePublisherId, DecodePayloadHeader, DecodeTimes, DecodeSecurity,
         DecodeSizes, Fails, Goes
<1>3. Tidy(message')
  BY <1>1 DEF Tidied, Tidy
<1>4. QED
  BY <1>2, <1>3, TidiedMade

\* The GroupHeader has a number of 16 bits, or none.
LEMMA TidiedGroup == Inv /\ Tidied /\ DecodeGroupHeader => Tidied'
<1> SUFFICES ASSUME Inv, Tidied, DecodeGroupHeader PROVE Tidied'
  OBVIOUS
<1> DEFINE flags == FlagsOf("group flags")
           want == If("group header" \in reader.on,
                      <<<<"group flags", 1>>>> \o If("group" \in flags, <<<<"group", 2>>>>)
                      \o If("group version" \in flags, <<<<"group version", 4>>>>)
                      \o If("number" \in flags, <<<<"number", 2>>>>)
                      \o If("group sequence" \in flags, <<<<"group sequence", 2>>>>))
           h == Got(want, "group", None)
           s == Got(want, "group sequence", None)
<1>1. pc = "group header" /\ pc \in Sections
  BY DEF DecodeGroupHeader, Sections
<1>2. Framed /\ ~Sending /\ reader.pos \in Nat /\ MessageTyped
  BY <1>1, SectionReads
<1>3. want \in Wanted(Nat)
  <2>1. /\ "group flags" \in Kinds /\ "group" \in Kinds /\ "group version" \in Kinds
        /\ "number" \in Kinds /\ "group sequence" \in Kinds /\ 1 \in Nat /\ 2 \in Nat /\ 4 \in Nat
    BY DEF Kinds, FlagKinds, Numbers, Skips
  <2> HIDE DEF flags
  <2>2. QED
    BY <2>1, OneWanted, JoinWanted, Zenon
<1>4. \/ Fails(want, TRUE)
      \/ /\ Goes(want, TRUE, "payload header")
         /\ message' = [message EXCEPT !.group = h, !.sequence = s]
  BY DEF DecodeGroupHeader
<1> HIDE DEF want
<1>5. CASE Fails(want, TRUE)
  BY <1>5, TidiedKept DEF Fails
<1>6. CASE Goes(want, TRUE, "payload header") /\ message' = [message EXCEPT !.group = h, !.sequence = s]
  <2>1. relayed' = relayed /\ sent' = sent /\ pc' # "field" /\ Taken(want)
    BY <1>6 DEF Goes
  <2>2. s = None \/ s \in Residues
    BY <1>2, <1>3, <2>1, GotAsWanted
  <2>3. message'.sequence = s /\ message'.messages = message.messages
    <3>1. PICK p \in Nat, t \in DOMAIN PidSize, g \in Nat \cup {None}, q \in Nat \cup {None},
               m \in Seq(DataSet),
               a \in {message.signed}, v \in {message.verified}, k \in {message.token} :
               message = [pid |-> p, pid_type |-> t, group |-> g, sequence |-> q,
                          messages |-> m, signed |-> a, verified |-> v, token |-> k]
      BY <1>2, MessageIs
    <3> HIDE DEF h, s
    <3>2. message' = [pid |-> p, pid_type |-> t, group |-> h, sequence |-> s,
                      messages |-> m, signed |-> a, verified |-> v, token |-> k]
      BY <1>6, <3>1
    <3>3. QED
      BY <3>1, <3>2
  <2> HIDE DEF s
  <2>4. Tidy(message')
    BY <2>2, <2>3 DEF Tidied, Tidy
  <2>5. QED
    BY <2>1, <2>4, TidiedMade
<1>7. QED
  BY <1>4, <1>5, <1>6

\* A DataSetMessage begins without fields, and no fields of a keep-alive are to come.
LEMMA TidiedMessage == Inv /\ Tidied /\ DecodeMessage => Tidied'
<1>0. \A Q, w : w \in Seq(Q) /\ (\A p \in Q : p[1] # "field count") => Got(w, "field count", 0) = 0
  <2>1. \A Q, w, k, e : w \in Seq(Q) /\ (\A p \in Q : p[1] # k) => Got(w, k, e) = e
    BY NothingGot
  <2>2. QED
    BY <2>1, Zenon
<1> SUFFICES ASSUME Inv, Tidied, DecodeMessage PROVE Tidied'
  OBVIOUS
<1> DEFINE flags1 == FlagsOf("flags1")
           flags2 == IF "flags2" \in flags1 /\ There(2) THEN frame[reader.pos + 2].value ELSE {}
           keep_alive == "keep alive" \in flags2
           front == <<<<"flags1", 1>>>> \o If("flags2" \in flags1, <<<<"flags2", 1>>>>)
                   \o If("sequence" \in flags1, <<<<"sequence", 2>>>>)
                   \o If("timestamp" \in flags2, <<<<"timestamp", 8>>>>)
                   \o If("picoseconds" \in flags2, <<<<"picoseconds", 2>>>>)
                   \o If("status" \in flags1, <<<<"message status", 2>>>>)
                   \o If("major" \in flags1, <<<<"major", 4>>>>)
                   \o If("minor" \in flags1, <<<<"minor", 4>>>>)
           want == front \o If(~keep_alive, <<<<"field count", 2>>>>)
           supported == keep_alive \/ ("delta" \notin flags2 /\ "raw" \notin flags1)
           count == Got(want, "field count", 0)
           n == Len(message.messages) + 1
           writer == IF reader.writers = <<>> THEN 0 ELSE reader.writers[n]
           number == Got(want, "sequence", None)
           encoding == IF keep_alive \/ "DataValue" \in flags1 THEN "DataValue" ELSE "Variant"
           d == [writer |-> writer, sequence |-> number, keep_alive |-> keep_alive,
                 fields |-> <<>>, encoding |-> encoding]
           K == Kinds \ {"field count"}
           P == K \X Nat
<1>1. pc = "message" /\ pc \in Sections
  BY DEF DecodeMessage, Sections
<1>2. Framed /\ ~Sending /\ ReaderTyped /\ MessageTyped /\ reader.pos \in Nat
  BY <1>1, SectionReads
<1>3. front \in Seq(P)
  <2>1. /\ "flags1" \in K /\ "flags2" \in K /\ "sequence" \in K
        /\ "timestamp" \in K /\ "picoseconds" \in K /\ "message status" \in K
        /\ "major" \in K /\ "minor" \in K
    BY DEF Kinds, FlagKinds, Numbers, Skips
  <2>2. 1 \in Nat /\ 2 \in Nat /\ 4 \in Nat /\ 8 \in Nat
    OBVIOUS
  <2>3. \A k \in K : \A i \in Nat : <<<<k, i>>>> \in Seq(P)
    <3>1. \A k \in K : \A i \in Nat : <<k, i>> \in P
      OBVIOUS
    <3> HIDE DEF P, K
    <3>2. QED
      BY <3>1, OneInSeq, Zenon
  <2>4. \A given, cells : (given => cells \in Seq(P)) => If(given, cells) \in Seq(P)
    BY GivenCells, Zenon
  <2>5. \A s, t \in Seq(P) : s \o t \in Seq(P)
    BY Joined, Zenon
  <2> HIDE DEF flags1, flags2, K, P
  <2>6. QED
    BY <2>1, <2>2, <2>3, <2>4, <2>5, Zenon
<1>4. want \in Wanted(Nat)
  <2>1. front \in Wanted(Nat)
    <3>1. P \subseteq Kinds \X Nat
      OBVIOUS
    <3> HIDE DEF front, P
    <3>2. front \in Seq(Kinds \X Nat)
      BY <1>3, <3>1
    <3>3. QED
      BY <3>2 DEF Wanted
  <2>2. "field count" \in Kinds /\ 2 \in Nat
    BY DEF Kinds, Numbers
  <2> HIDE DEF front, keep_alive
  <2>3. QED
    BY <2>1, <2>2, OneWanted, JoinWanted, Zenon
<1>5. keep_alive => count = 0
  <2>1. \A p \in P : p[1] # "field count"
    OBVIOUS
  <2>2. keep_alive => want = front \o <<>>
    BY DEF If
  <2> HIDE DEF P, front, keep_alive, want
  <2>3. front \o <<>> = front
    BY <1>3
  <2>4. keep_alive => want \in Seq(P)
    BY <1>3, <2>2, <2>3
  <2>5. ASSUME want \in Seq(P) PROVE count = 0
    BY <1>0, <2>1, <2>5, Zenon
  <2>6. QED
    BY <2>4, <2>5
<1>6. \/ Fails(want, supported)
      \/ /\ Goes(want, supported, After(n, count))
         /\ message' = [message EXCEPT !.messages = Append(@, d)]
  BY DEF DecodeMessage
<1> HIDE DEF want, supported, K, P
<1>7. CASE Fails(want, supported)
  BY <1>7, TidiedKept DEF Fails
<1>8. CASE /\ Goes(want, supported, After(n, count))
           /\ message' = [message EXCEPT !.messages = Append(@, d)]
  <2>1. relayed' = relayed /\ sent' = sent /\ pc' = After(n, count) /\ Taken(want)
    BY <1>8 DEF Goes
  <2>2. number = None \/ number \in Residues
    BY <1>2, <1>4, <2>1, GotAsWanted
  <2> HIDE DEF count, number, flags1, flags2, writer
  <2>3. pc' = "field" => ~keep_alive
    <3>1. pc' = "field" => count > 0
      BY <2>1 DEF After
    <3> HIDE DEF keep_alive, n
    <3>2. QED
      BY <1>5, <3>1
  <2>4. TidyMessage(d) /\ d.keep_alive = keep_alive
    <3>1. keep_alive => encoding = "DataValue"
      OBVIOUS
    <3> HIDE DEF keep_alive, encoding
    <3>2. QED
      BY <2>2, <3>1 DEF TidyMessage
  <2> HIDE DEF d, keep_alive
  <2>5. /\ message.messages \in Seq(DataSet) /\ message'.sequence = message.sequence
        /\ message'.messages = Append(message.messages, d)
    <3>1. PICK p \in Nat, t \in DOMAIN PidSize, g \in Nat \cup {None}, q \in Nat \cup {None},
               m \in Seq(DataSet),
               a \in {message.signed}, v \in {message.verified}, k \in {message.token} :
               message = [pid |-> p, pid_type |-> t, group |-> g, sequence |-> q,
                          messages |-> m, signed |-> a, verified |-> v, token |-> k]
      BY <1>2, MessageIs
    <3>2. message' = [pid |-> p, pid_type |-> t, group |-> g, sequence |-> q,
                      messages |-> Append(m, d), signed |-> a, verified |-> v, token |-> k]
      BY <1>8, <3>1
    <3>3. QED
      BY <3>1, <3>2
  <2> DEFINE more == Append(message.messages, d)
  <2>6. /\ Len(more) = n /\ more[n] = d
        /\ \A i \in DOMAIN more :
              (i \in DOMAIN message.messages /\ more[i] = message.messages[i]) \/ more[i] = d
    BY <2>5
  <2> HIDE DEF more
  <2>7. Tidy(message')
    <3>1. \A i \in DOMAIN more : TidyMessage(more[i])
      BY <2>4, <2>6 DEF Tidied, Tidy
    <3>2. QED
      BY <2>5, <3>1 DEF Tidied, Tidy, more
  <2>8. pc' = "field" => ~message'.messages[Len(message'.messages)].keep_alive
    <3>1. message'.messages = more
      BY <2>5 DEF more
    <3>2. message'.messages[Len(message'.messages)] = d
      BY <2>6, <3>1
    <3>3. QED
      BY <2>3, <2>4, <3>2
  <2>9. QED
    BY <2>1, <2>7, <2>8, TidiedMade
<1>9. QED
  BY <1>6, <1>7, <1>8

\* A field of the last message, which is no keep-alive.
LEMMA TidiedField == Inv /\ Tidied /\ DecodeField => Tidied'
<1> SUFFICES ASSUME Inv, Tidied, DecodeField PROVE Tidied'
  OBVIOUS
<1> DEFINE n == Len(message.messages)
           d == message.messages[n]
<1>1. pc = "field" /\ pc \in Sections
  BY DEF DecodeField, Sections
<1>2. MessageTyped /\ message.messages # <<>> /\ message.messages \in Seq(DataSet)
  BY <1>1 DEF Inv, Typed, Progress, MessageTyped, Encodable
<1>3. n \in DOMAIN message.messages /\ d \in DataSet /\ TidyMessage(d) /\ ~d.keep_alive
  <2>1. n \in DOMAIN message.messages
    BY <1>2
  <2> HIDE DEF n
  <2>2. d \in DataSet
    BY <1>2, <2>1
  <2>3. TidyMessage(d)
    BY <2>1 DEF Tidied, Tidy
  <2>4. ~d.keep_alive
    BY <1>1 DEF Tidied, n
  <2>5. QED
    BY <2>1, <2>2, <2>3, <2>4
<1>4. ASSUME NEW want, NEW supported, Fails(want, supported) PROVE Tidied'
  BY <1>4, TidiedKept DEF Fails
<1>5. ASSUME NEW S, NEW want \in Wanted(S), NEW supported, NEW f \in FieldValue,
             GoesWithField(want, supported, f)
      PROVE  Tidied'
  <2>1. /\ TidyField(f, d.encoding = "DataValue")
        /\ Goes(want, supported, After(n, reader.left - 1))
        /\ message' = FieldAdded(message, n, f)
    BY <1>5 DEF GoesWithField, FieldAdded
  <2>2. relayed' = relayed /\ sent' = sent
    BY <2>1 DEF Goes
  <2>3. /\ message'.sequence = message.sequence
        /\ message'.messages = [message.messages EXCEPT ![n] = FieldGiven(d, f)]
    BY <1>2, <2>1, FieldAddedTo
  <2>4. TidyMessage(FieldGiven(d, f)) /\ ~FieldGiven(d, f).keep_alive
    BY <1>3, <2>1, TidyFieldAdded
  <2> DEFINE e == FieldGiven(d, f)
             more == [message.messages EXCEPT ![n] = e]
  <2>5. Len(more) = n /\ DOMAIN more = DOMAIN message.messages
    BY <1>2
  <2> HIDE DEF d, e, n
  <2>6. more[n] = e /\ \A i \in DOMAIN more : more[i] = e \/ more[i] = message.messages[i]
    BY <1>3, <2>5
  <2> HIDE DEF more
  <2>7. message'.messages = more
    BY <2>3 DEF more, e
  <2>8. Tidy(message')
    <3>1. \A i \in DOMAIN more : TidyMessage(more[i])
      BY <2>4, <2>5, <2>6 DEF Tidied, Tidy, e
    <3>2. QED
      BY <2>3, <2>7, <3>1 DEF Tidied, Tidy
  <2>9. ~message'.messages[Len(message'.messages)].keep_alive
    BY <2>4, <2>5, <2>6, <2>7 DEF e
  <2>10. QED
    BY <2>2, <2>8, <2>9, TidiedMade
<1>6. QED
  BY <1>4, <1>5, FieldDecoded

\* The steps before the decoder.
LEMMA TidiedBefore == Inv /\ Tidied /\ (Sends \/ Arrive) => Tidied'
<1> SUFFICES ASSUME Inv, Tidied, Sends \/ Arrive PROVE Tidied'
  OBVIOUS
<1>1. CASE Sends
  BY <1>1, TidiedKept DEF Sends
<1>2. CASE Arrive
  <2>1. Tidy(message')
    <3>1. message'.sequence = None /\ message'.messages = <<>>
      BY <1>2 DEF Arrive, Blank
    <3>2. QED
      BY <3>1 DEF Tidy
  <2>2. /\ sent'.message = sent.message /\ sent'.datavalue = sent.datavalue
        /\ sent'.options = sent.options
    <3>1. sent' = sent \/ \E fate : sent' = [sent EXCEPT !.fate = fate]
      BY <1>2 DEF Arrive
    <3>2. Sendable(sent)
      BY DEF Inv, Typed
    <3>3. QED
      BY <3>1, <3>2 DEF Sendable
  <2>3. relayed' = relayed /\ pc' # "field"
    BY <1>2 DEF Arrive
  <2>4. QED
    BY <2>1, <2>2, <2>3 DEF Tidied, Tidy
<1>3. QED
  BY <1>1, <1>2

\* A relay sends what it decoded, in the encodings it came in.
LEMMA TidiedRelay == Tidied /\ Relay => Tidied'
<1> SUFFICES ASSUME Tidied, Relay PROVE Tidied'
  OBVIOUS
<1>1. /\ sent'.message = message /\ sent'.datavalue = None /\ sent'.options = None
      /\ relayed' = message /\ message' = message /\ pc' # "field"
  BY DEF Relay
<1>2. Tidy(message') /\ Tidy(relayed')
  BY <1>1 DEF Tidied
<1>3. QED
  BY <1>1, <1>2 DEF Tidied, Tidy

\* Nothing has been decoded at the start,
LEMMA TidiedInit == Init => Tidied
BY DEF Init, Tidied, Tidy, Blank

\* every step leaves tidy what was tidy,
LEMMA TidiedNext == Inv /\ Tidied /\ [Next]_vars => Tidied'
<1> SUFFICES ASSUME Inv, Tidied, [Next]_vars PROVE Tidied'
  OBVIOUS
<1>1. CASE UNCHANGED vars
  BY <1>1, TidiedKept DEF vars
<1>2. CASE Next
  BY <1>2, TidiedBefore, TidiedHeader, TidiedGroup, TidiedMessage, TidiedField, TidiedRelay, Zenon
     DEF Next
<1>3. QED
  BY <1>1, <1>2

\* and all that is decoded or relayed always is.
LEMMA TidiedInvariant == Spec => []Tidied
<1>1. Init => Inv /\ Tidied
  BY InvInit, TidiedInit
<1>2. Inv /\ Tidied /\ [Next]_vars => (Inv /\ Tidied)'
  BY InvNext, TidiedNext
<1>3. QED
  BY <1>1, <1>2, PTL DEF Spec

-----------------------------------------------------------------------------
(* What a tidy message is encoded to is what it is. *)

\* A field comes through as it is.
LEMMA TidyFieldCarried ==
    ASSUME NEW f \in FieldValue, NEW dv, TidyField(f, dv)
    PROVE  FieldCarried(f, dv) = f
<1>1. f = [type |-> f.type, value |-> f.value, status |-> f.status, time |-> f.time]
  BY DEF FieldValue
<1>2. /\ f.type = "NULL" <=> f.value = None
      /\ ~dv => f.status = "good" /\ f.time = None
  BY DEF TidyField
<1> DEFINE null == f.type = "NULL" \/ f.value = None
           t == IF null THEN "NULL" ELSE f.type
           v == IF null THEN None ELSE f.value
           s == IF dv THEN f.status ELSE "good"
           c == IF dv THEN f.time ELSE None
<1>3. t = f.type /\ v = f.value /\ s = f.status /\ c = f.time
  BY <1>2
<1>4. FieldCarried(f, dv) = [type |-> t, value |-> v, status |-> s, time |-> c]
  BY Zenon DEF FieldCarried
<1> HIDE DEF t, v, s, c
<1>5. QED
  BY <1>1, <1>3, <1>4, Zenon

\* Three parts of a message changed.
LEMMA MessageGiven ==
    ASSUME NEW d \in DataSet, NEW a, NEW b, NEW c
    PROVE  [d EXCEPT !.sequence = a, !.fields = b, !.encoding = c]
              = [writer |-> d.writer, sequence |-> a, keep_alive |-> d.keep_alive, fields |-> b,
                 encoding |-> c]
<1>1. PICK w, u, q, x, y :
          d = [writer |-> w, sequence |-> u, keep_alive |-> q, fields |-> x, encoding |-> y]
  BY DEF DataSet
<1>2. d.writer = w /\ d.keep_alive = q
  BY <1>1
<1>3. [d EXCEPT !.sequence = a, !.fields = b, !.encoding = c]
        = [writer |-> w, sequence |-> a, keep_alive |-> q, fields |-> b, encoding |-> c]
  <2> DEFINE x1 == [d EXCEPT !.sequence = a, !.fields = b, !.encoding = c]
  <2>1. x1 = [d EXCEPT !.sequence = a, !.fields = b, !.encoding = c]
    OBVIOUS
  <2> HIDE DEF x1
  <2>2. x1 = [writer |-> w, sequence |-> a, keep_alive |-> q, fields |-> b, encoding |-> c]
    BY <1>1, <2>1, MessageChanged
  <2>3. QED
    BY <2>1, <2>2, Zenon
<1>4. QED
  BY <1>2, <1>3

Unnumbered(d) == IF d.keep_alive THEN [d EXCEPT !.sequence = None] ELSE d

\* A message comes through as it is, but for a keep-alive's number.
LEMMA TidyMessageCarried ==
    ASSUME NEW d \in DataSet, TidyMessage(d)
    PROVE  Unnumbered(MessageCarried(d, None)) = Unnumbered(d)
<1> DEFINE dv == d.encoding = "DataValue"
           D(s, f, e) == [writer |-> d.writer, sequence |-> s, keep_alive |-> d.keep_alive,
                          fields |-> f, encoding |-> e]
           s == IF d.sequence = None THEN None ELSE d.sequence % SeqModulus
           fs == [i \in DOMAIN d.fields |-> FieldCarried(d.fields[i], dv)]
           e == IF dv THEN "DataValue" ELSE "Variant"
<1>1. d = D(d.sequence, d.fields, d.encoding) /\ d.keep_alive \in BOOLEAN
  BY DEF DataSet
<1>0. \A a, b, c : [d EXCEPT !.sequence = a, !.fields = b, !.encoding = c]
                     = [writer |-> d.writer, sequence |-> a, keep_alive |-> d.keep_alive,
                        fields |-> b, encoding |-> c]
  BY MessageGiven
<1>2. CASE d.keep_alive
  <2>1. d.fields = <<>> /\ d.encoding = "DataValue"
    BY <1>2 DEF TidyMessage
  <2>2. MessageCarried(d, None) = [d EXCEPT !.sequence = None, !.fields = <<>>, !.encoding = "DataValue"]
    BY <1>2, Zenon DEF MessageCarried
  <2>3. [d EXCEPT !.sequence = None, !.fields = <<>>, !.encoding = "DataValue"]
           = D(None, <<>>, "DataValue")
    BY <1>0, Zenon
  <2>4. [d EXCEPT !.sequence = None] = D(None, d.fields, d.encoding)
    BY <1>1
  <2>5. \A f, c : [D(None, f, c) EXCEPT !.sequence = None] = D(None, f, c)
                  /\ D(None, f, c).keep_alive = d.keep_alive
    OBVIOUS
  <2> HIDE DEF D
  <2>6. Unnumbered(MessageCarried(d, None)) = D(None, <<>>, "DataValue")
    BY <1>2, <2>2, <2>3, <2>5, Zenon DEF Unnumbered
  <2>7. Unnumbered(d) = D(None, d.fields, d.encoding)
    BY <1>2, <2>4, Zenon DEF Unnumbered
  <2>8. QED
    BY <2>1, <2>6, <2>7, Zenon
<1>3. CASE ~d.keep_alive
  <2>1. s = d.sequence
    <3>1. d.sequence = None \/ d.sequence \in Residues
      BY DEF TidyMessage
    <3>2. \A x \in Residues : x % SeqModulus = x
      BY WireConstants DEF Residues
    <3>3. QED
      BY <3>1, <3>2
  <2>2. fs = d.fields
    <3>1. d.fields \in Seq(FieldValue)
      BY DEF DataSet
    <3>2. \A i \in DOMAIN d.fields : d.fields[i] \in FieldValue /\ TidyField(d.fields[i], dv)
      BY <3>1 DEF TidyMessage
    <3> HIDE DEF dv
    <3>3. \A i \in DOMAIN d.fields : FieldCarried(d.fields[i], dv) = d.fields[i]
      BY <3>2, TidyFieldCarried
    <3>4. d.fields = [i \in DOMAIN d.fields |-> d.fields[i]]
      BY <3>1
    <3>5. QED
      BY <3>3, <3>4
  <2>3. e = d.encoding
    BY DEF DataSet
  <2>4. MessageCarried(d, None) = [d EXCEPT !.sequence = s, !.fields = fs, !.encoding = e]
    <3>1. \A x : x = None => (IF x = None THEN dv ELSE x) = dv
      OBVIOUS
    <3>2. QED
      BY <1>3, Zenon DEF MessageCarried
  <2> HIDE DEF s, fs, e
  <2>5. [d EXCEPT !.sequence = s, !.fields = fs, !.encoding = e] = D(s, fs, e)
    BY <1>0, Zenon
  <2> HIDE DEF D
  <2>6. MessageCarried(d, None) = d
    BY <1>1, <2>1, <2>2, <2>3, <2>4, <2>5, Zenon
  <2>7. QED
    BY <2>6
<1>4. QED
  BY <1>2, <1>3

\* What a relay's frame is decoded to has the data of what it decoded.
LEMMA KeptAsRelayed == Inv /\ Judged /\ Tidied => RelayKeeps
<1> SUFFICES ASSUME Inv, Judged, Tidied, relayed # None, pc = "decoded", sent.fate = "whole"
             PROVE  Data(message) = Data(relayed)
  BY DEF RelayKeeps
<1> DEFINE m == relayed
           carried == [i \in DOMAIN m.messages |-> MessageCarried(m.messages[i], None)]
           sequence == IF m.sequence # None THEN m.sequence % SeqModulus ELSE None
<1>1. /\ sent.message = m /\ sent.datavalue = None /\ sent.options = None /\ Tidy(m)
  BY DEF Tidied
<1>2. m.messages \in Seq(DataSet)
  BY <1>1 DEF Inv, Typed, Sendable, Encodable
<1>3. message = Carried(sent)
  BY JudgedRight DEF RoundTrip, Ends
<1>4. /\ message.pid = m.pid /\ message.pid_type = m.pid_type /\ message.group = m.group
      /\ message.sequence = sequence /\ message.messages = carried
  <2> DEFINE p == m.pid
             x1 == sent.key # None
             x2 == IF sent.key # None /\ receiver.key # None THEN TRUE ELSE None
             x3 == IF sent.key = None THEN 0 ELSE 1
  <2>1. message = [pid |-> p, pid_type |-> m.pid_type, group |-> m.group, sequence |-> sequence,
                   messages |-> carried, signed |-> x1, verified |-> x2, token |-> x3]
    BY <1>1, <1>3, Zenon DEF Carried
  <2> HIDE DEF p, x1, x2, x3, carried, sequence
  <2>2. QED
    BY <2>1 DEF p
<1>5. sequence = m.sequence
  <2>1. m.sequence = None \/ m.sequence \in Residues
    BY <1>1 DEF Tidy
  <2>2. \A x \in Residues : x % SeqModulus = x
    BY WireConstants DEF Residues
  <2>3. QED
    BY <2>1, <2>2
<1>6. /\ DOMAIN carried = DOMAIN m.messages
      /\ \A i \in DOMAIN m.messages : Unnumbered(carried[i]) = Unnumbered(m.messages[i])
  <2>1. \A i \in DOMAIN m.messages : m.messages[i] \in DataSet /\ TidyMessage(m.messages[i])
    BY <1>1, <1>2 DEF Tidy
  <2>2. \A i \in DOMAIN m.messages :
           Unnumbered(MessageCarried(m.messages[i], None)) = Unnumbered(m.messages[i])
    BY <2>1, TidyMessageCarried
  <2>3. QED
    BY <2>2
<1>7. \A x : Data(x) = [pid |-> x.pid, pid_type |-> x.pid_type, group |-> x.group,
                        sequence |-> x.sequence,
                        messages |-> [i \in DOMAIN x.messages |-> Unnumbered(x.messages[i])]]
  BY Zenon DEF Data, Unnumbered
<1> HIDE DEF sequence, carried, m
<1>8. [i \in DOMAIN carried |-> Unnumbered(carried[i])]
        = [i \in DOMAIN m.messages |-> Unnumbered(m.messages[i])]
  BY <1>6
<1>9. Data(message) = Data(m)
  BY <1>4, <1>5, <1>7, <1>8, Zenon
<1>10. QED
  BY <1>9 DEF m

\* What a receiver decodes behind a signing relay is what the relay decoded: values, qualities,
\* times, encodings and keep-alives, but for a keep-alive's number (relay.py:108-111).
THEOREM RelaysKeepTheData == Spec => []RelayKeeps
BY InvInvariant, FollowedInvariant, TidiedInvariant, KeptAsRelayed, PTL DEF Followed

=============================================================================
