----------------------- MODULE Socks5HandshakeProofs -----------------------
(***************************************************************************)
(* The handshake serves the request the client wrote and no other, refuses *)
(* what SOCKS5 does not allow and nothing else, and never waits for a byte  *)
(* too many: for every script of any length, every way the network cuts it *)
(* up, and every message SOCKS5 allows.                                    *)
(***************************************************************************)
EXTENDS Socks5Handshake, SequenceFacts

(* The parts of what a client writes, by the bytes that say where they end. *)
GreetingEnd == 2 + script[2]
TypeCode == script[GreetingEnd + 4]
AddressAt == IF TypeCode = 3 THEN GreetingEnd + 5 ELSE GreetingEnd + 4
AddressSize ==
    IF TypeCode = 3 THEN script[GreetingEnd + 5] ELSE IF TypeCode = 1 THEN 4 ELSE 16
PortAt == AddressAt + AddressSize
PortRequested == 256 * script[PortAt + 1] + script[PortAt + 2]

\* The greeting offers no authentication.
Greets ==
    /\ script[1] = Version /\ script[2] \in 1 .. 255
    /\ \E i \in 1 .. script[2] : script[2 + i] = NoAuth

\* The request is a CONNECT to an address of a known type.
Connects ==
    /\ Greets
    /\ script[GreetingEnd + 1] = Version /\ script[GreetingEnd + 2] = Connect
    /\ TypeCode \in {1, 3, 4}

\* The address has at least a byte.
Names == Connects /\ AddressSize \in 1 .. 255

NoMethod ==
    /\ script[1] = Version /\ script[2] \in Byte
    /\ \A i \in 1 .. script[2] : script[2 + i] # NoAuth

\* What is wrong with a message that gets an answer.
Reason(reply) ==
    CASE reply = "NO_ACCEPTABLE" -> NoMethod
      [] reply = "COMMAND_NOT_SUPPORTED" -> Greets /\ script[GreetingEnd + 2] # Connect
      [] reply = "ADDRESS_TYPE_NOT_SUPPORTED" -> Greets /\ TypeCode \notin {1, 3, 4}
      [] reply = "GENERAL_FAILURE" ->
            \/ Connects /\ TypeCode = 3 /\ script[GreetingEnd + 5] = 0
            \/ Names /\ PortRequested = 0
      [] OTHER -> FALSE

\* How much of the script has been received when that answer is given.
ReceivedBefore(reply) ==
    CASE reply = "NO_ACCEPTABLE" -> GreetingEnd
      [] reply \in {"COMMAND_NOT_SUPPORTED", "ADDRESS_TYPE_NOT_SUPPORTED"} -> GreetingEnd + 4
      [] OTHER -> 0

Errors == Reply \ {"NO_AUTH"}
Said(reply) == IF reply = "NO_ACCEPTABLE" THEN <<>> ELSE <<"NO_AUTH">>

Start == taken - Len(buffer)

----------------------------------------------------------------------------
(* What is known at each point of the handshake. *)

BufferInv ==
    /\ Len(buffer) <= taken
    /\ \A i \in 1 .. Len(buffer) : buffer[i] = script[Start + i]

ReadsHeader == Start = 0 /\ want = 2 /\ told = <<>>
ReadsMethods ==
    /\ Start = 2 /\ want = script[2] /\ want # 0
    /\ script[1] = Version /\ told = <<>>
ReadsRequest == Start = GreetingEnd /\ want = 4 /\ Greets /\ told = <<"NO_AUTH">>
ReadsAddress ==
    /\ Connects /\ told = <<"NO_AUTH">>
    /\ address.type \in AddressType /\ Code(address.type) = TypeCode
    /\ at = "length" => TypeCode = 3 /\ Start = GreetingEnd + 4 /\ want = 1
    /\ at = "address" => Start = AddressAt /\ want = AddressSize /\ Names
    /\ at = "port" =>
         /\ Start = PortAt /\ want = 2 /\ Names
         /\ address.bytes = Decoded(address.type, [i \in 1 .. AddressSize |-> script[AddressAt + i]])

Answers ==
    \/ /\ pending.reply = "NO_AUTH" /\ pending.next = "request"
       /\ Greets /\ taken = GreetingEnd /\ told = <<>>
    \/ /\ pending.reply \in Errors /\ Reason(pending.reply)
       /\ pending.next = IF pending.reply = "GENERAL_FAILURE" THEN "malformed" ELSE "refused"
       /\ pending.reply # "GENERAL_FAILURE" => taken = ReceivedBefore(pending.reply)
       /\ told = Said(pending.reply)

Accepted ==
    /\ Names /\ PortRequested # 0 /\ taken = PortAt + 2
    /\ outcome.port = PortRequested
    /\ outcome.address.type \in AddressType /\ Code(outcome.address.type) = TypeCode
    /\ outcome.address.bytes =
         Decoded(outcome.address.type, [i \in 1 .. AddressSize |-> script[AddressAt + i]])
    /\ told = <<"NO_AUTH">>

\* A message of another version is not answered; the rest is, with the reason.
Refused ==
    \/ script[1] # Version /\ told = <<>>
    \/ Greets /\ script[GreetingEnd + 1] # Version /\ taken = GreetingEnd + 4 /\ told = <<"NO_AUTH">>
    \/ \E reply \in Errors \ {"GENERAL_FAILURE"} :
         /\ Reason(reply)
         /\ client = "open" => taken = ReceivedBefore(reply) /\ told = Append(Said(reply), reply)

MalformedSaid ==
    /\ Reason("GENERAL_FAILURE")
    /\ client = "open" => told = <<"NO_AUTH", "GENERAL_FAILURE">>

Over ==
    /\ outcome.kind # "pending"
    /\ outcome.kind = "accepted" => Accepted
    /\ outcome.kind = "refused" => Refused
    /\ outcome.kind = "malformed" => MalformedSaid

HandshakeInv ==
    /\ TypeOK
    /\ BufferInv
    /\ at = "header" => ReadsHeader
    /\ at = "methods" => ReadsMethods
    /\ at = "request" => ReadsRequest
    /\ at \in {"length", "address", "port"} => ReadsAddress
    /\ at = "answering" => Answers
    /\ at = "over" => Over
    /\ at # "over" => outcome.kind = "pending"

----------------------------------------------------------------------------
(* Types *)

LEMMA TypeFacts ==
    ASSUME TypeOK
    PROVE  /\ script \in Seq(Byte) /\ Len(script) \in Nat
           /\ written \in Nat /\ written <= Len(script)
           /\ taken \in Nat /\ taken <= written
           /\ want \in Nat /\ want <= 255
           /\ buffer \in Seq(Byte) /\ Len(buffer) \in Nat /\ Len(buffer) <= want
           /\ told \in Seq(Reply)
           /\ \A i \in 1 .. Len(script) : script[i] \in Byte
<1>0. StreamOK /\ want \in 0 .. 255 /\ buffer \in Seq(Byte) /\ Len(buffer) <= want
      /\ told \in Seq(Reply)
  BY DEF TypeOK
<1>1. script \in Seq(Byte) /\ buffer \in Seq(Byte)
  BY <1>0, ScriptAssumption DEF StreamOK
<1>2. Len(script) \in Nat /\ Len(buffer) \in Nat
  BY <1>1, LenProperties
<1>3. \A i \in 1 .. Len(script) : script[i] \in Byte
  BY <1>1, ElementOfSeq
<1> QED BY <1>0, <1>1, <1>2, <1>3 DEF StreamOK

\* What a completed read hands over: want bytes of the script, from Start on.
LEMMA ReadFacts ==
    ASSUME TypeOK, BufferInv, NEW read, Completed(read)
    PROVE  /\ at = read /\ UNCHANGED network /\ told' = told
           /\ Start \in Nat /\ taken' = Start + want /\ taken' <= written
           /\ taken' \in 0 .. written
           /\ Len(Bytes) = want /\ DOMAIN Bytes = 1 .. want /\ Bytes \in Seq(Byte)
           /\ \A i \in 1 .. want : Bytes[i] = script[Start + i] /\ Bytes[i] \in Byte
<1> DEFINE n == Len(buffer)
           rest == SubSeq(script, taken + 1, taken + Missing)
<1>1. /\ script \in Seq(Byte) /\ Len(script) \in Nat
      /\ written \in Nat /\ written <= Len(script)
      /\ taken \in Nat /\ taken <= written /\ want \in Nat
      /\ buffer \in Seq(Byte) /\ n \in Nat /\ n <= want
      /\ \A i \in 1 .. Len(script) : script[i] \in Byte
  BY TypeFacts
<1>2. n <= taken /\ \A i \in 1 .. n : buffer[i] = script[Start + i]
  BY DEF BufferInv
<1>3. Missing = want - n /\ Start = taken - n
  BY DEF Missing, Start
<1>4. at = read /\ written - taken >= Missing /\ taken' = taken + Missing
      /\ UNCHANGED network /\ told' = told
  BY DEF Completed
<1> HIDE DEF n
<1>5. Start \in Nat /\ taken' = Start + want /\ taken' <= written /\ taken' \in 0 .. written
  BY <1>1, <1>2, <1>3, <1>4
<1>6. /\ rest \in Seq(Byte) /\ Len(rest) = want - n
      /\ \A i \in 1 .. (want - n) : rest[i] = script[taken + i]
  <2>1. taken + 1 \in Int /\ taken + Missing \in Int
    BY <1>1, <1>3
  <2>2. \A i \in (taken + 1) .. (taken + Missing) : script[i] \in Byte
    BY <1>1, <1>3, <1>4
  <2>3. /\ rest \in Seq(Byte)
        /\ Len(rest) = IF taken + 1 <= taken + Missing
                       THEN (taken + Missing) - (taken + 1) + 1 ELSE 0
        /\ \A i \in 1 .. ((taken + Missing) - (taken + 1) + 1) :
             rest[i] = script[(taken + 1) + i - 1]
    BY <2>1, <2>2, SubSeqProperties
  <2> HIDE DEF rest
  <2>4. Len(rest) = want - n
    BY <1>1, <1>3, <2>3
  <2>5. \A i \in 1 .. (want - n) : rest[i] = script[taken + i]
    <3>1. \A i \in 1 .. (want - n) :
            /\ i \in 1 .. ((taken + Missing) - (taken + 1) + 1)
            /\ (taken + 1) + i - 1 = taken + i
      BY <1>1, <1>3
    <3> QED BY <2>3, <3>1
  <2> QED BY <2>3, <2>4, <2>5
<1>7. Bytes = buffer \o rest
  BY DEF Bytes
<1> HIDE DEF rest
<1>8. /\ Bytes \in Seq(Byte) /\ Len(Bytes) = want
      /\ \A i \in 1 .. want : Bytes[i] = IF i <= n THEN buffer[i] ELSE rest[i - n]
  <2>1. /\ buffer \o rest \in Seq(Byte) /\ Len(buffer \o rest) = Len(buffer) + Len(rest)
        /\ \A i \in 1 .. (Len(buffer) + Len(rest)) : (buffer \o rest)[i] =
             IF i <= Len(buffer) THEN buffer[i] ELSE rest[i - Len(buffer)]
    BY <1>1, <1>6, ConcatProperties
  <2>2. Len(buffer) + Len(rest) = want
    BY <1>1, <1>6 DEF n
  <2> QED BY <1>7, <2>1, <2>2 DEF n
<1>9. ASSUME NEW i \in 1 .. want
      PROVE  Bytes[i] = script[Start + i]
  <2>1. CASE i <= n
    BY <1>1, <1>2, <1>8, <2>1
  <2>2. CASE ~ (i <= n)
    <3>1. i - n \in 1 .. (want - n) /\ taken + (i - n) = Start + i
      BY <1>1, <1>2, <1>3, <2>2
    <3> QED BY <1>6, <1>8, <2>2, <3>1
  <2> QED BY <2>1, <2>2
<1>10. \A i \in 1 .. want : Bytes[i] \in Byte
  BY <1>8, ElementOfSeq
<1> QED BY <1>4, <1>5, <1>8, <1>9, <1>10, LenProperties

LEMMA EmptyBuffer ==
    ASSUME buffer' = <<>>, taken' \in Nat
    PROVE  buffer' \in Seq(Byte) /\ Len(buffer') = 0 /\ BufferInv' /\ Start' = taken'
<1>1. PICK n \in Nat : taken' = n
  OBVIOUS
<1>2. buffer' \in Seq(Byte) /\ Len(buffer') = 0
  BY EmptySeq
<1>3. Start' = n - 0
  BY <1>1, <1>2 DEF Start
<1>4. BufferInv'
  BY <1>1, <1>2 DEF BufferInv
<1> QED BY <1>1, <1>2, <1>3, <1>4

\* The three moves of the handler keep the types.
LEMMA MoveTypes ==
    ASSUME TypeOK, UNCHANGED network, taken' \in 0 .. written, buffer' = <<>>,
           at' \in Reads \cup {"answering", "over"}, want' \in 0 .. 255,
           address' \in AddressOrNone, told' \in Seq(Reply),
           PendingOK(pending'), OutcomeOK(outcome')
    PROVE  TypeOK' /\ BufferInv' /\ Start' = taken'
<1>1. StreamOK
  BY DEF TypeOK
<1>2. StreamOK'
  BY <1>1 DEF StreamOK, network
<1>3. taken' \in Nat
  BY <1>1 DEF StreamOK
<1>4. buffer' \in Seq(Byte) /\ Len(buffer') = 0 /\ BufferInv' /\ Start' = taken'
  BY <1>3, EmptyBuffer
<1>5. PICK n \in 0 .. 255 : want' = n
  OBVIOUS
<1>6. Len(buffer') <= want'
  BY <1>4, <1>5
<1>7. TypeOK'
  BY <1>2, <1>4, <1>6 DEF TypeOK
<1> QED BY <1>4, <1>7

LEMMA AwaitTypes ==
    ASSUME TypeOK, UNCHANGED network, taken' \in 0 .. written, NEW read \in Reads,
           NEW n \in 0 .. 255, Await(read, n), address' \in AddressOrNone, told' \in Seq(Reply)
    PROVE  /\ TypeOK' /\ BufferInv' /\ Start' = taken'
           /\ at' = read /\ want' = n /\ outcome' = outcome
<1>1. /\ at' = read /\ want' = n /\ buffer' = <<>> /\ pending' = pending /\ outcome' = outcome
  BY DEF Await
<1>2. PendingOK(pending') /\ OutcomeOK(outcome')
  BY <1>1 DEF TypeOK
<1>3. at' \in Reads \cup {"answering", "over"} /\ want' \in 0 .. 255
  BY <1>1
<1> QED BY <1>1, <1>2, <1>3, MoveTypes

LEMMA AnswerTypes ==
    ASSUME TypeOK, UNCHANGED network, taken' \in 0 .. written, NEW reply \in Reply,
           NEW next \in Ending \cup {"request"}, Answer(reply, next),
           address' \in AddressOrNone, told' \in Seq(Reply)
    PROVE  /\ TypeOK' /\ BufferInv' /\ Start' = taken' /\ at' = "answering"
           /\ pending'.reply = reply /\ pending'.next = next /\ outcome' = outcome
<1>1. /\ at' = "answering" /\ want' = 0 /\ buffer' = <<>> /\ outcome' = outcome
      /\ pending' = [reply |-> reply, next |-> next]
  BY DEF Answer
<1>2. pending'.reply = reply /\ pending'.next = next
  BY <1>1
<1>3. PendingOK(pending')
  BY <1>2 DEF PendingOK
<1>4. OutcomeOK(outcome')
  BY <1>1 DEF TypeOK
<1>5. at' \in Reads \cup {"answering", "over"} /\ want' \in 0 .. 255
  BY <1>1
<1> QED BY <1>1, <1>2, <1>3, <1>4, <1>5, MoveTypes

LEMMA EndTypes ==
    ASSUME TypeOK, UNCHANGED network, taken' \in 0 .. written, NEW kind \in Ending,
           End(kind), address' \in AddressOrNone, told' \in Seq(Reply)
    PROVE  /\ TypeOK' /\ BufferInv' /\ Start' = taken' /\ at' = "over" /\ outcome'.kind = kind
<1>1. /\ at' = "over" /\ want' = 0 /\ buffer' = <<>> /\ pending' = pending
      /\ outcome' = [kind |-> kind]
  BY DEF End, Return
<1>2. PendingOK(pending')
  BY <1>1 DEF TypeOK
<1>3. outcome'.kind = kind
  BY <1>1
<1>4. OutcomeOK(outcome')
  BY <1>3 DEF OutcomeOK
<1>5. at' \in Reads \cup {"answering", "over"} /\ want' \in 0 .. 255
  BY <1>1
<1> QED BY <1>1, <1>2, <1>3, <1>4, <1>5, MoveTypes

----------------------------------------------------------------------------
(* Steps *)

\* What a client writes does not change, so neither do its parts.
LEMMA SameScript ==
    ASSUME script' = script
    PROVE  /\ GreetingEnd' = GreetingEnd /\ TypeCode' = TypeCode
           /\ AddressAt' = AddressAt /\ AddressSize' = AddressSize
           /\ PortAt' = PortAt /\ PortRequested' = PortRequested
           /\ Greets' = Greets /\ Connects' = Connects /\ Names' = Names
           /\ NoMethod' = NoMethod
           /\ \A reply : Reason(reply)' = Reason(reply)
                         /\ ReceivedBefore(reply)' = ReceivedBefore(reply)
<1>1. GreetingEnd' = GreetingEnd
  BY DEF GreetingEnd
<1>2. TypeCode' = TypeCode
  BY <1>1 DEF TypeCode
<1>3. AddressAt' = AddressAt /\ AddressSize' = AddressSize
  BY <1>1, <1>2 DEF AddressAt, AddressSize
<1>4. PortAt' = PortAt
  BY <1>3 DEF PortAt
<1>5. PortRequested' = PortRequested
  BY <1>4 DEF PortRequested
<1>6. Greets' = Greets /\ NoMethod' = NoMethod
  BY DEF Greets, NoMethod
<1>7. Connects' = Connects
  BY <1>1, <1>2, <1>6 DEF Connects
<1>8. Names' = Names
  BY <1>3, <1>7 DEF Names
<1>9. \A reply : Reason(reply)' = Reason(reply)
                 /\ ReceivedBefore(reply)' = ReceivedBefore(reply)
  BY <1>1, <1>2, <1>5, <1>6, <1>7, <1>8 DEF Reason, ReceivedBefore
<1> QED BY <1>1, <1>2, <1>3, <1>4, <1>5, <1>6, <1>7, <1>8, <1>9

\* The client's steps leave what the handler knows; one that has left stays away.
LEMMA HandlerStays ==
    ASSUME HandshakeInv, TypeOK', client' = "open" => client = "open",
           UNCHANGED <<script, taken, at, want, buffer, address, pending, told, outcome>>
    PROVE  HandshakeInv'
<1>1. /\ GreetingEnd' = GreetingEnd /\ TypeCode' = TypeCode
      /\ AddressAt' = AddressAt /\ AddressSize' = AddressSize
      /\ PortAt' = PortAt /\ PortRequested' = PortRequested
      /\ Greets' = Greets /\ Connects' = Connects /\ Names' = Names
      /\ NoMethod' = NoMethod
      /\ \A reply : Reason(reply)' = Reason(reply)
                    /\ ReceivedBefore(reply)' = ReceivedBefore(reply)
  BY SameScript
<1>2. Start' = Start
  BY DEF Start
<1>3. BufferInv'
  BY <1>2 DEF HandshakeInv, BufferInv
<1>4. ReadsHeader' = ReadsHeader /\ ReadsMethods' = ReadsMethods
      /\ ReadsRequest' = ReadsRequest
  BY <1>1, <1>2 DEF ReadsHeader, ReadsMethods, ReadsRequest
<1>5. ReadsAddress' = ReadsAddress
  BY <1>1, <1>2 DEF ReadsAddress
<1>6. Answers' = Answers
  BY <1>1 DEF Answers
<1>7. Over => Over'
  <2>1. Accepted' = Accepted
    BY <1>1 DEF Accepted
  <2>2. Refused => Refused'
    BY <1>1 DEF Refused
  <2>3. MalformedSaid => MalformedSaid'
    BY <1>1 DEF MalformedSaid
  <2> QED BY <2>1, <2>2, <2>3 DEF Over
<1> QED BY <1>3, <1>4, <1>5, <1>6, <1>7 DEF HandshakeInv

LEMMA ClientKeeps ==
    ASSUME HandshakeInv, ClientWrites \/ ClientLeaves \/ UNCHANGED vars
    PROVE  HandshakeInv'
<1>0. TypeOK /\ StreamOK
  BY DEF HandshakeInv, TypeOK
<1>1. CASE ClientWrites
  <2>1. /\ written' = written + 1 /\ written < Len(script)
        /\ UNCHANGED <<script, client, taken, at, want, buffer, address, pending, told, outcome>>
    BY <1>1 DEF ClientWrites
  <2>2. StreamOK'
    <3>1. Len(script) \in Nat /\ written \in 0 .. Len(script) /\ taken \in 0 .. written
      BY <1>0, TypeFacts DEF StreamOK
    <3>2. written + 1 \in 0 .. Len(script) /\ taken \in 0 .. (written + 1)
      BY <2>1, <3>1
    <3> QED BY <1>0, <2>1, <3>2 DEF StreamOK
  <2>3. TypeOK'
    BY <1>0, <2>1, <2>2 DEF TypeOK
  <2> QED BY <2>1, <2>3, HandlerStays
<1>2. CASE ClientLeaves
  <2>1. /\ client = "open" /\ client' \in {"finished", "reset"}
        /\ UNCHANGED <<script, written, taken, at, want, buffer, address, pending, told, outcome>>
    BY <1>2 DEF ClientLeaves
  <2>2. StreamOK'
    BY <1>0, <2>1 DEF StreamOK
  <2>3. TypeOK'
    BY <1>0, <2>1, <2>2 DEF TypeOK
  <2> QED BY <2>1, <2>3, HandlerStays
<1>3. CASE UNCHANGED vars
  <2>1. UNCHANGED <<script, written, client, taken, at, want, buffer, address, pending, told, outcome>>
    BY <1>3 DEF vars, network
  <2>2. StreamOK'
    BY <1>0, <2>1 DEF StreamOK
  <2>3. TypeOK'
    BY <1>0, <2>1, <2>2 DEF TypeOK
  <2> QED BY <2>1, <2>3, HandlerStays
<1> QED BY <1>1, <1>2, <1>3

\* The three moves, when what is known where they lead holds there.
LEMMA Awaiting ==
    ASSUME HandshakeInv, at # "over", UNCHANGED network, taken' \in 0 .. written,
           NEW read \in Reads \ {"header"}, NEW n \in 0 .. 255, Await(read, n),
           address' \in AddressOrNone, told' \in Seq(Reply),
           at' = read /\ want' = n /\ Start' = taken'
             => CASE read = "methods" -> ReadsMethods'
                  [] read = "request" -> ReadsRequest'
                  [] OTHER -> ReadsAddress'
    PROVE  HandshakeInv'
<1>1. TypeOK /\ outcome.kind = "pending"
  BY DEF HandshakeInv
<1>2. /\ TypeOK' /\ BufferInv' /\ Start' = taken'
      /\ at' = read /\ want' = n /\ outcome' = outcome
  BY <1>1, AwaitTypes DEF Reads
<1>3. read \in {"methods", "request", "length", "address", "port"}
  BY DEF Reads
<1>4. /\ read = "methods" => ReadsMethods'
      /\ read = "request" => ReadsRequest'
      /\ read \in {"length", "address", "port"} => ReadsAddress'
  BY <1>2, <1>3
<1> QED BY <1>1, <1>2, <1>3, <1>4 DEF HandshakeInv

LEMMA Answering ==
    ASSUME HandshakeInv, at # "over", UNCHANGED network, taken' \in 0 .. written,
           NEW reply \in Reply, NEW next \in Ending \cup {"request"}, Answer(reply, next),
           address' \in AddressOrNone, told' \in Seq(Reply),
           pending'.reply = reply /\ pending'.next = next => Answers'
    PROVE  HandshakeInv'
<1>1. TypeOK /\ outcome.kind = "pending"
  BY DEF HandshakeInv
<1>2. /\ TypeOK' /\ BufferInv' /\ at' = "answering"
      /\ pending'.reply = reply /\ pending'.next = next /\ outcome' = outcome
  BY <1>1, AnswerTypes
<1> QED BY <1>1, <1>2 DEF HandshakeInv

LEMMA Ends ==
    ASSUME HandshakeInv, UNCHANGED network, taken' \in 0 .. written,
           NEW kind \in Ending, End(kind), address' \in AddressOrNone, told' \in Seq(Reply),
           kind = "refused" => Refused', kind = "malformed" => MalformedSaid'
    PROVE  HandshakeInv'
<1>1. TypeOK
  BY DEF HandshakeInv
<1>2. TypeOK' /\ BufferInv' /\ at' = "over" /\ outcome'.kind = kind
  BY <1>1, EndTypes
<1>3. kind # "pending" /\ kind # "accepted"
  BY DEF Ending
<1>4. Over'
  BY <1>2, <1>3 DEF Over
<1> QED BY <1>2, <1>4 DEF HandshakeInv

\* What a handler that answers knows of the answer.
LEMMA PendingFacts ==
    ASSUME HandshakeInv, at = "answering"
    PROVE  /\ pending.reply \in Reply /\ Append(told, pending.reply) \in Seq(Reply)
           /\ Answers /\ outcome.kind = "pending"
<1>1. Answers /\ outcome.kind = "pending" /\ told \in Seq(Reply)
  BY DEF HandshakeInv, TypeOK
<1>2. pending.reply \in Reply
  BY <1>1 DEF Answers, Errors, Reply
<1> QED BY <1>1, <1>2, AppendProperties

LEMMA ReceivePartKeeps ==
    ASSUME HandshakeInv, ReceivePart
    PROVE  HandshakeInv'
<1>1. TypeOK /\ StreamOK
  BY DEF HandshakeInv, TypeOK
<1>2. /\ script \in Seq(Byte) /\ Len(script) \in Nat
      /\ written \in Nat /\ written <= Len(script)
      /\ taken \in Nat /\ taken <= written /\ want \in Nat
      /\ buffer \in Seq(Byte) /\ Len(buffer) \in Nat /\ Len(buffer) <= want
      /\ \A i \in 1 .. Len(script) : script[i] \in Byte
  BY <1>1, TypeFacts
<1>3. PICK k \in 1 .. written - taken :
        /\ k < Missing
        /\ buffer' = buffer \o SubSeq(script, taken + 1, taken + k)
        /\ taken' = taken + k
  BY DEF ReceivePart
<1>4. at \in Reads /\ UNCHANGED <<network, at, want, address, pending, told, outcome>>
  BY DEF ReceivePart
<1>5. UNCHANGED <<script, written, client>>
  BY <1>4 DEF network
<1> DEFINE n == Len(buffer)
           part == SubSeq(script, taken + 1, taken + k)
<1>6. Missing = want - n /\ Start = taken - n
  BY DEF Missing, Start
<1>7. n <= taken /\ \A i \in 1 .. n : buffer[i] = script[Start + i]
  BY DEF HandshakeInv, BufferInv
<1>8. /\ part \in Seq(Byte) /\ Len(part) = k
      /\ \A i \in 1 .. k : part[i] = script[taken + i]
  <2>1. taken + 1 \in Int /\ taken + k \in Int
    BY <1>2, <1>3
  <2>2. \A i \in (taken + 1) .. (taken + k) : script[i] \in Byte
    BY <1>2, <1>3
  <2>3. /\ part \in Seq(Byte)
        /\ Len(part) = IF taken + 1 <= taken + k THEN (taken + k) - (taken + 1) + 1 ELSE 0
        /\ \A i \in 1 .. ((taken + k) - (taken + 1) + 1) : part[i] = script[(taken + 1) + i - 1]
    BY <2>1, <2>2, SubSeqProperties
  <2> HIDE DEF part
  <2>4. Len(part) = k
    BY <1>2, <1>3, <2>3
  <2>5. \A i \in 1 .. k : i \in 1 .. ((taken + k) - (taken + 1) + 1)
                          /\ (taken + 1) + i - 1 = taken + i
    BY <1>2, <1>3
  <2> QED BY <2>3, <2>4, <2>5
<1> HIDE DEF part
<1>9. /\ buffer' \in Seq(Byte) /\ Len(buffer') = n + k
      /\ \A i \in 1 .. (n + k) : buffer'[i] = IF i <= n THEN buffer[i] ELSE part[i - n]
  <2>1. /\ buffer \o part \in Seq(Byte) /\ Len(buffer \o part) = Len(buffer) + Len(part)
        /\ \A i \in 1 .. (Len(buffer) + Len(part)) : (buffer \o part)[i] =
             IF i <= Len(buffer) THEN buffer[i] ELSE part[i - Len(buffer)]
    BY <1>2, <1>8, ConcatProperties
  <2>2. buffer' = buffer \o part
    BY <1>3 DEF part
  <2> QED BY <1>8, <2>1, <2>2
<1> HIDE DEF n
<1>10. n \in Nat /\ n <= want
  BY <1>2 DEF n
<1>11. Start' = Start
  <2>1. Start' = (taken + k) - (n + k)
    BY <1>3, <1>9 DEF Start
  <2> QED BY <1>2, <1>3, <1>6, <1>10, <2>1
<1>12. BufferInv'
  <2>1. Len(buffer') <= taken'
    <3>1. n + k <= taken + k
      BY <1>2, <1>3, <1>7, <1>10
    <3> QED BY <1>3, <1>9, <3>1
  <2>2. ASSUME NEW i \in 1 .. (n + k)
        PROVE  buffer'[i] = script[Start + i]
    <3>1. CASE i <= n
      <4>1. i \in 1 .. n
        BY <1>10, <3>1
      <4> QED BY <1>7, <1>9, <3>1, <4>1
    <3>2. CASE ~ (i <= n)
      <4>1. i - n \in 1 .. k /\ taken + (i - n) = Start + i
        BY <1>2, <1>3, <1>6, <1>10, <3>2
      <4> QED BY <1>8, <1>9, <3>2, <4>1
    <3> QED BY <3>1, <3>2
  <2> QED BY <1>5, <1>9, <1>11, <2>1, <2>2 DEF BufferInv
<1>13. TypeOK'
  <2>1. taken + k \in 0 .. written /\ n + k <= want
    BY <1>2, <1>3, <1>6, <1>10
  <2>2. StreamOK'
    BY <1>1, <1>3, <1>5, <2>1 DEF StreamOK
  <2> QED BY <1>1, <1>4, <1>9, <2>1, <2>2 DEF TypeOK
<1>14. /\ GreetingEnd' = GreetingEnd /\ TypeCode' = TypeCode
       /\ AddressAt' = AddressAt /\ AddressSize' = AddressSize
       /\ PortAt' = PortAt /\ Greets' = Greets /\ Connects' = Connects /\ Names' = Names
  BY <1>5, SameScript
<1>15. ReadsHeader' = ReadsHeader /\ ReadsMethods' = ReadsMethods
       /\ ReadsRequest' = ReadsRequest
  BY <1>4, <1>5, <1>11, <1>14 DEF ReadsHeader, ReadsMethods, ReadsRequest
<1>16. ReadsAddress' = ReadsAddress
  BY <1>4, <1>5, <1>11, <1>14 DEF ReadsAddress
<1>17. at # "answering" /\ at # "over"
  BY <1>4 DEF Reads
<1> QED BY <1>4, <1>12, <1>13, <1>15, <1>16, <1>17 DEF HandshakeInv

LEMMA CodeFacts ==
    /\ Code("IPV4") = 1 /\ Code("DOMAIN") = 3 /\ Code("IPV6") = 4
    /\ \A type \in AddressType : Code(type) \in {1, 3, 4}
    /\ \A code \in {1, 3, 4} : TypeWith(code) \in AddressType /\ Code(TypeWith(code)) = code
<1>1. Code("IPV4") = 1 /\ Code("DOMAIN") = 3 /\ Code("IPV6") = 4
  BY DEF Code
<1>2. \A type \in AddressType : Code(type) \in {1, 3, 4}
  BY <1>1 DEF AddressType
<1>3. ASSUME NEW code \in {1, 3, 4}
      PROVE  TypeWith(code) \in AddressType /\ Code(TypeWith(code)) = code
  <2>1. \E type \in AddressType : Code(type) = code
    BY <1>1 DEF AddressType
  <2> QED BY <2>1 DEF TypeWith
<1> QED BY <1>1, <1>2, <1>3

LEMMA HeaderReadKeeps ==
    ASSUME HandshakeInv, HeaderRead
    PROVE  HandshakeInv'
<1>1. TypeOK /\ BufferInv /\ Completed("header") /\ at = "header" /\ address' = address
  BY DEF HandshakeInv, HeaderRead, Completed
<1>2. /\ UNCHANGED network /\ told' = told /\ taken' = Start + want
      /\ taken' \in 0 .. written
      /\ \A i \in 1 .. want : Bytes[i] = script[Start + i] /\ Bytes[i] \in Byte
  BY <1>1, ReadFacts
<1>3. Start = 0 /\ want = 2 /\ told = <<>> /\ at # "over"
  BY <1>1 DEF HandshakeInv, ReadsHeader
<1>4. /\ taken' = 2 /\ Bytes[1] = script[1] /\ Bytes[2] = script[2] /\ Bytes[2] \in Byte
  BY <1>2, <1>3
<1>5. address' \in AddressOrNone /\ told' \in Seq(Reply) /\ told' = <<>>
  BY <1>1, <1>2, <1>3 DEF TypeOK
<1>6. script' = script
  BY <1>2 DEF network
<1>7. CASE Bytes[1] # Version /\ End("refused")
  <2>1. Refused'
    BY <1>4, <1>5, <1>6, <1>7 DEF Refused
  <2> QED BY <1>2, <1>5, <1>7, <2>1, Ends DEF Ending
<1>8. CASE Bytes[1] = Version /\ Bytes[2] = 0 /\ Answer("NO_ACCEPTABLE", "refused")
  <2>1. NoMethod /\ GreetingEnd = 2
    BY <1>4, <1>8 DEF NoMethod, GreetingEnd, Byte
  <2>2. Reason("NO_ACCEPTABLE")' /\ taken' = ReceivedBefore("NO_ACCEPTABLE")'
    BY <1>4, <1>6, <2>1, SameScript DEF Reason, ReceivedBefore
  <2>3. pending'.reply = "NO_ACCEPTABLE" /\ pending'.next = "refused" => Answers'
    BY <1>5, <2>2 DEF Answers, Errors, Reply, Said
  <2> QED BY <1>2, <1>3, <1>5, <1>8, <2>3, Answering DEF Ending, Reply
<1>9. CASE Bytes[1] = Version /\ Bytes[2] # 0 /\ Await("methods", Bytes[2])
  <2>1. at' = "methods" /\ want' = Bytes[2] /\ Start' = taken' => ReadsMethods'
    BY <1>4, <1>5, <1>6, <1>9 DEF ReadsMethods
  <2>2. Bytes[2] \in 0 .. 255 /\ "methods" \in Reads \ {"header"}
    BY <1>4 DEF Byte, Reads
  <2> QED BY <1>2, <1>3, <1>5, <1>9, <2>1, <2>2, Awaiting
<1> QED BY <1>7, <1>8, <1>9 DEF HeaderRead

LEMMA MethodsReadKeeps ==
    ASSUME HandshakeInv, MethodsRead
    PROVE  HandshakeInv'
<1>1. TypeOK /\ BufferInv /\ Completed("methods") /\ at = "methods" /\ address' = address
  BY DEF HandshakeInv, MethodsRead, Completed
<1>2. /\ UNCHANGED network /\ told' = told /\ taken' = Start + want
      /\ taken' \in 0 .. written
      /\ Bytes \in Seq(Byte) /\ Len(Bytes) = want
      /\ \A i \in 1 .. want : Bytes[i] = script[Start + i] /\ Bytes[i] \in Byte
  BY <1>1, ReadFacts
<1>3. /\ Start = 2 /\ want = script[2] /\ want # 0 /\ script[1] = Version
      /\ told = <<>> /\ at # "over"
  BY <1>1 DEF HandshakeInv, ReadsMethods
<1>4. want \in 1 .. 255
  <2>1. want \in Nat /\ want <= 255
    BY <1>1, TypeFacts
  <2>2. want # 0
    BY <1>3
  <2> QED BY <2>1, <2>2
<1>5. address' \in AddressOrNone /\ told' \in Seq(Reply) /\ told' = <<>>
  BY <1>1, <1>2, <1>3 DEF TypeOK
<1>6. script' = script
  BY <1>2 DEF network
<1>7. taken' = GreetingEnd
  BY <1>2, <1>3 DEF GreetingEnd
<1>8. Contains(Bytes, NoAuth) <=> \E i \in 1 .. want : script[2 + i] = NoAuth
  BY <1>2, <1>3 DEF Contains
<1>9. CASE Contains(Bytes, NoAuth)
  <2>1. Answer("NO_AUTH", "request")
    BY <1>9 DEF MethodsRead
  <2>2. Greets
    BY <1>3, <1>4, <1>8, <1>9 DEF Greets
  <2>3. Greets' /\ taken' = GreetingEnd'
    BY <1>6, <1>7, <2>2, SameScript
  <2>4. pending'.reply = "NO_AUTH" /\ pending'.next = "request" => Answers'
    BY <1>5, <2>3 DEF Answers
  <2> QED BY <1>2, <1>3, <1>5, <2>1, <2>4, Answering DEF Reply
<1>10. CASE ~ Contains(Bytes, NoAuth)
  <2>1. Answer("NO_ACCEPTABLE", "refused")
    BY <1>10 DEF MethodsRead
  <2>2. NoMethod
    BY <1>3, <1>4, <1>8, <1>10 DEF NoMethod, Byte
  <2>3. Reason("NO_ACCEPTABLE")' /\ taken' = ReceivedBefore("NO_ACCEPTABLE")'
    BY <1>6, <1>7, <2>2, SameScript DEF Reason, ReceivedBefore
  <2>4. pending'.reply = "NO_ACCEPTABLE" /\ pending'.next = "refused" => Answers'
    BY <1>5, <2>3 DEF Answers, Errors, Reply, Said
  <2> QED BY <1>2, <1>3, <1>5, <2>1, <2>4, Answering DEF Ending, Reply
<1> QED BY <1>9, <1>10

LEMMA RequestReadKeeps ==
    ASSUME HandshakeInv, RequestRead
    PROVE  HandshakeInv'
<1>1. TypeOK /\ BufferInv /\ Completed("request") /\ at = "request"
  BY DEF HandshakeInv, RequestRead, Completed
<1>2. /\ UNCHANGED network /\ told' = told /\ taken' = Start + want
      /\ taken' \in 0 .. written
      /\ \A i \in 1 .. want : Bytes[i] = script[Start + i] /\ Bytes[i] \in Byte
  BY <1>1, ReadFacts
<1>3. Start = GreetingEnd /\ want = 4 /\ Greets /\ told = <<"NO_AUTH">> /\ at # "over"
  BY <1>1 DEF HandshakeInv, ReadsRequest
<1>4. /\ taken' = GreetingEnd + 4 /\ Bytes[1] = script[GreetingEnd + 1]
      /\ Bytes[2] = script[GreetingEnd + 2] /\ Bytes[4] = TypeCode
  BY <1>2, <1>3 DEF TypeCode
<1>5. told' \in Seq(Reply) /\ told' = <<"NO_AUTH">>
  BY <1>1, <1>2, <1>3 DEF TypeOK
<1>6. script' = script
  BY <1>2 DEF network
<1>7. /\ GreetingEnd' = GreetingEnd /\ Greets' = Greets /\ Connects' = Connects
      /\ Names' = Names /\ TypeCode' = TypeCode /\ AddressAt' = AddressAt
      /\ AddressSize' = AddressSize
      /\ \A reply : Reason(reply)' = Reason(reply)
                    /\ ReceivedBefore(reply)' = ReceivedBefore(reply)
  BY <1>6, SameScript
<1>8. address' = address => address' \in AddressOrNone
  BY <1>1 DEF TypeOK
<1>9. ASSUME NEW reply \in {"COMMAND_NOT_SUPPORTED", "ADDRESS_TYPE_NOT_SUPPORTED"},
             Answer(reply, "refused"), address' = address, Reason(reply)
      PROVE  HandshakeInv'
  <2>1. ReceivedBefore(reply) = GreetingEnd + 4 /\ Said(reply) = <<"NO_AUTH">>
    BY DEF ReceivedBefore, Said
  <2>2. reply \in Errors /\ reply # "NO_AUTH" /\ reply # "GENERAL_FAILURE" /\ reply \in Reply
    BY DEF Errors, Reply
  <2>3. pending'.reply = reply /\ pending'.next = "refused" => Answers'
    BY <1>4, <1>5, <1>7, <1>9, <2>1, <2>2 DEF Answers, Said
  <2> QED BY <1>2, <1>3, <1>5, <1>8, <1>9, <2>2, <2>3, Answering DEF Ending
<1>10. CASE Bytes[1] # Version /\ End("refused") /\ UNCHANGED address
  <2>1. Greets' /\ (script[GreetingEnd + 1] # Version)' /\ taken' = GreetingEnd' + 4
        /\ told' = <<"NO_AUTH">>
    BY <1>3, <1>4, <1>5, <1>6, <1>7, <1>10
  <2>2. Refused'
    BY <2>1 DEF Refused
  <2> QED BY <1>2, <1>5, <1>8, <1>10, <2>2, Ends DEF Ending
<1>11. CASE /\ Bytes[1] = Version /\ Bytes[2] # Connect
            /\ Answer("COMMAND_NOT_SUPPORTED", "refused") /\ UNCHANGED address
  <2>1. Reason("COMMAND_NOT_SUPPORTED")
    BY <1>3, <1>4, <1>11 DEF Reason
  <2> QED BY <1>9, <1>11, <2>1
<1>12. CASE Bytes[1] = Version /\ Bytes[2] = Connect /\ AwaitAddress(Bytes[4])
  <2>1. (\A type \in AddressType : Code(type) # TypeCode) <=> TypeCode \notin {1, 3, 4}
    BY CodeFacts
  <2>2. CASE TypeCode \notin {1, 3, 4}
    <3>1. Answer("ADDRESS_TYPE_NOT_SUPPORTED", "refused") /\ UNCHANGED address
      BY <1>4, <1>12, <2>1, <2>2 DEF AwaitAddress
    <3>2. Reason("ADDRESS_TYPE_NOT_SUPPORTED")
      BY <1>3, <2>2 DEF Reason
    <3> QED BY <1>9, <3>1, <3>2
  <2>3. CASE TypeCode \in {1, 3, 4}
    <3> DEFINE type == TypeWith(TypeCode)
    <3>1. type \in AddressType /\ Code(type) = TypeCode
      BY <2>3, CodeFacts
    <3>2. /\ address' = [type |-> type, bytes |-> <<>>]
          /\ IF type = "DOMAIN" THEN Await("length", 1) ELSE Await("address", Size(type))
      BY <1>4, <1>12, <2>1, <2>3 DEF AwaitAddress
    <3> HIDE DEF type
    <3>3. address' \in AddressOrNone /\ address'.type = type
      <4>1. <<>> \in Seq(Int)
        BY EmptySeq
      <4> QED BY <3>1, <3>2, <4>1 DEF AddressOrNone
    <3>4. Connects /\ Connects'
      BY <1>3, <1>4, <1>7, <1>12, <2>3 DEF Connects
    <3>5. CASE type = "DOMAIN"
      <4>1. TypeCode = 3 /\ Await("length", 1)
        BY <3>1, <3>2, <3>5, CodeFacts
      <4>2. at' = "length" /\ want' = 1 /\ Start' = taken' => ReadsAddress'
        BY <1>4, <1>5, <1>7, <3>1, <3>3, <3>4, <4>1 DEF ReadsAddress
      <4>3. "length" \in Reads \ {"header"} /\ 1 \in 0 .. 255
        BY DEF Reads
      <4> QED BY <1>2, <1>3, <1>5, <3>3, <4>1, <4>2, <4>3, Awaiting
    <3>6. CASE type # "DOMAIN"
      <4>1. TypeCode # 3 /\ Await("address", Size(type))
        BY <3>1, <3>2, <3>6, CodeFacts DEF AddressType
      <4>2. Size(type) = AddressSize /\ AddressAt = GreetingEnd + 4 /\ Size(type) \in 1 .. 255
        BY <3>1, <3>6, <4>1, CodeFacts DEF AddressType, Size, AddressSize, AddressAt
      <4>3. Names /\ Names'
        BY <1>7, <3>4, <4>2 DEF Names
      <4>4. at' = "address" /\ want' = Size(type) /\ Start' = taken' => ReadsAddress'
        BY <1>4, <1>5, <1>7, <3>1, <3>3, <3>4, <4>2, <4>3 DEF ReadsAddress
      <4>5. "address" \in Reads \ {"header"} /\ Size(type) \in 0 .. 255
        BY <4>2 DEF Reads
      <4> QED BY <1>2, <1>3, <1>5, <3>3, <4>1, <4>4, <4>5, Awaiting
    <3> QED BY <3>5, <3>6
  <2> QED BY <2>2, <2>3
<1> QED BY <1>10, <1>11, <1>12 DEF RequestRead

LEMMA LengthReadKeeps ==
    ASSUME HandshakeInv, LengthRead
    PROVE  HandshakeInv'
<1>1. TypeOK /\ BufferInv /\ Completed("length") /\ at = "length" /\ address' = address
  BY DEF HandshakeInv, LengthRead, Completed
<1>2. /\ UNCHANGED network /\ told' = told /\ taken' = Start + want
      /\ taken' \in 0 .. written
      /\ \A i \in 1 .. want : Bytes[i] = script[Start + i] /\ Bytes[i] \in Byte
  BY <1>1, ReadFacts
<1>3. ReadsAddress /\ at # "over"
  BY <1>1 DEF HandshakeInv
<1>4. /\ Connects /\ told = <<"NO_AUTH">> /\ address.type \in AddressType
      /\ Code(address.type) = TypeCode
      /\ TypeCode = 3 /\ Start = GreetingEnd + 4 /\ want = 1
  BY <1>1, <1>3 DEF ReadsAddress
<1>5. taken' = (GreetingEnd + 4) + 1 /\ Bytes[1] = script[(GreetingEnd + 4) + 1] /\ Bytes[1] \in Byte
  <2>1. Start = GreetingEnd + 4 /\ want = 1 /\ 1 \in 1 .. want
    BY <1>4
  <2> QED BY <1>2, <2>1
<1>6. address' \in AddressOrNone /\ told' \in Seq(Reply) /\ told' = <<"NO_AUTH">>
  BY <1>1, <1>2, <1>4 DEF TypeOK
<1>7. script' = script
  BY <1>2 DEF network
<1>8. GreetingEnd \in Int
  <2>1. Greets
    BY <1>4 DEF Connects
  <2> QED BY <2>1 DEF Greets, GreetingEnd
<1>9. taken' = GreetingEnd + 5 /\ Bytes[1] = script[GreetingEnd + 5]
  <2>1. (GreetingEnd + 4) + 1 = GreetingEnd + 5
    BY <1>8
  <2> QED BY <1>5, <2>1
<1>10. CASE Bytes[1] = 0
  <2>1. Answer("GENERAL_FAILURE", "malformed")
    BY <1>10 DEF LengthRead, Malformed
  <2>2. Reason("GENERAL_FAILURE")
    BY <1>4, <1>9, <1>10 DEF Reason
  <2>3. Reason("GENERAL_FAILURE")'
    BY <1>7, <2>2, SameScript
  <2>4. pending'.reply = "GENERAL_FAILURE" /\ pending'.next = "malformed" => Answers'
    BY <1>6, <2>3 DEF Answers, Errors, Reply, Said
  <2> QED BY <1>2, <1>3, <1>6, <2>1, <2>4, Answering DEF Ending, Reply
<1>11. CASE Bytes[1] # 0
  <2>1. Await("address", Bytes[1])
    BY <1>11 DEF LengthRead
  <2>2. AddressAt = GreetingEnd + 5 /\ AddressSize = Bytes[1] /\ AddressSize \in 1 .. 255
    BY <1>4, <1>5, <1>9, <1>11 DEF AddressAt, AddressSize, Byte
  <2>3. Names
    BY <1>4, <2>2 DEF Names
  <2>4. /\ Connects' /\ Names' /\ AddressAt' = AddressAt /\ AddressSize' = AddressSize
        /\ TypeCode' = TypeCode
    BY <1>4, <1>7, <2>3, SameScript
  <2>5. at' = "address" /\ want' = Bytes[1] /\ Start' = taken' => ReadsAddress'
    BY <1>1, <1>4, <1>6, <1>9, <2>2, <2>4 DEF ReadsAddress
  <2>6. Bytes[1] \in 0 .. 255 /\ "address" \in Reads \ {"header"}
    BY <1>5 DEF Byte, Reads
  <2> QED BY <1>2, <1>3, <1>6, <2>1, <2>5, <2>6, Awaiting
<1> QED BY <1>10, <1>11

\* Where the address is, once it is known to have a length.
LEMMA AddressBounds ==
    ASSUME Names
    PROVE  /\ script[2] \in 1 .. 255 /\ GreetingEnd = 2 + script[2]
           /\ AddressSize \in 1 .. 255
           /\ AddressAt = IF TypeCode = 3 THEN GreetingEnd + 5 ELSE GreetingEnd + 4
           /\ GreetingEnd \in Nat /\ AddressAt \in Nat /\ PortAt \in Nat
           /\ PortAt = AddressAt + AddressSize
<1>1. script[2] \in 1 .. 255 /\ AddressSize \in 1 .. 255
  BY DEF Names, Connects, Greets
<1>2. GreetingEnd = 2 + script[2] /\ GreetingEnd \in Nat
  BY <1>1 DEF GreetingEnd
<1>3. AddressAt = (IF TypeCode = 3 THEN GreetingEnd + 5 ELSE GreetingEnd + 4) /\ AddressAt \in Nat
  BY <1>2 DEF AddressAt
<1> QED BY <1>1, <1>2, <1>3 DEF PortAt

LEMMA AddressReadKeeps ==
    ASSUME HandshakeInv, AddressRead
    PROVE  HandshakeInv'
<1>1. TypeOK /\ BufferInv /\ Completed("address") /\ at = "address"
  BY DEF HandshakeInv, AddressRead, Completed
<1>2. /\ UNCHANGED network /\ told' = told /\ taken' = Start + want
      /\ taken' \in 0 .. written
      /\ Bytes \in Seq(Byte) /\ DOMAIN Bytes = 1 .. want
      /\ \A i \in 1 .. want : Bytes[i] = script[Start + i] /\ Bytes[i] \in Byte
  BY <1>1, ReadFacts
<1>3. ReadsAddress /\ at # "over"
  BY <1>1 DEF HandshakeInv
<1>4. /\ Connects /\ Names /\ told = <<"NO_AUTH">> /\ address.type \in AddressType
      /\ Code(address.type) = TypeCode
      /\ Start = AddressAt /\ want = AddressSize
  BY <1>1, <1>3 DEF ReadsAddress
<1> DEFINE bytes == Decoded(address.type, Bytes)
<1>5. Bytes = [i \in 1 .. AddressSize |-> script[AddressAt + i]]
  BY <1>2, <1>4
<1>6. bytes \in Seq(Int)
  <2>1. \A i \in DOMAIN Bytes : Bytes[i] \in Int
    <3>1. \A b \in Byte : b \in Int
      BY DEF Byte
    <3>2. \A i \in 1 .. want : Bytes[i] \in Byte
      BY <1>2
    <3> HIDE DEF bytes
    <3> QED BY <1>2, <3>1, <3>2
  <2>2. want \in Nat
    BY <1>1, TypeFacts
  <2> QED BY <1>2, <2>1, <2>2 DEF Decoded
<1>7. address' = [address EXCEPT !.bytes = bytes] /\ Await("port", 2)
  BY DEF AddressRead
<1>8. taken' = PortAt
  BY <1>2, <1>4, AddressBounds
<1> HIDE DEF bytes
<1>9. /\ address \in [type : AddressType, bytes : Seq(Int)]
  BY <1>1, <1>4 DEF TypeOK, AddressOrNone, None, AddressType
<1>10. address' \in AddressOrNone /\ address'.type = address.type /\ address'.bytes = bytes
  BY <1>6, <1>7, <1>9 DEF AddressOrNone
<1>11. told' \in Seq(Reply) /\ told' = <<"NO_AUTH">>
  BY <1>1, <1>2, <1>4 DEF TypeOK
<1>12. script' = script
  BY <1>2 DEF network
<1>13. /\ Connects' /\ Names' /\ AddressAt' = AddressAt /\ AddressSize' = AddressSize
       /\ TypeCode' = TypeCode /\ PortAt' = PortAt
  BY <1>4, <1>12, SameScript
<1>14. bytes = Decoded(address'.type, [i \in 1 .. AddressSize' |-> script'[AddressAt' + i]])
  BY <1>5, <1>10, <1>12, <1>13 DEF bytes
<1>15. at' = "port" /\ want' = 2 /\ Start' = taken' => ReadsAddress'
  BY <1>4, <1>8, <1>10, <1>11, <1>13, <1>14 DEF ReadsAddress
<1>16. 2 \in 0 .. 255 /\ "port" \in Reads \ {"header"}
  BY DEF Reads
<1> QED BY <1>2, <1>3, <1>7, <1>10, <1>11, <1>15, <1>16, Awaiting

\* Two bytes make a port number, if they are not both zero.
LEMMA PortFacts ==
    /\ \A x, y \in Byte : 256 * x + y \in 0 .. MaxPort
    /\ \A n \in 0 .. MaxPort : n # 0 => n \in AllPortNumbers
<1>1. ASSUME NEW x \in Byte, NEW y \in Byte
      PROVE  256 * x + y \in Nat /\ 256 * x + y <= MaxPort
  BY SMT DEF Byte, MaxPort
<1>2. MaxPort \in Nat
  BY SMT DEF MaxPort
<1>3. \A x, y \in Byte : 256 * x + y \in 0 .. MaxPort
  BY <1>1, <1>2
<1>4. \A n \in 0 .. MaxPort : n # 0 => n \in AllPortNumbers
  BY <1>2 DEF AllPortNumbers
<1> QED BY <1>3, <1>4

LEMMA AppendOne ==
    ASSUME NEW a, NEW b
    PROVE  Append(<<a>>, b) = <<a, b>>
<1>1. <<a>> \in Seq({a, b}) /\ Len(<<a>>) = 1
  OBVIOUS
<1>2. <<a, b>> \in Seq({a, b}) /\ Len(<<a, b>>) = 2 /\ <<a, b>>[1] = a /\ <<a, b>>[2] = b
  OBVIOUS
<1>3. /\ Append(<<a>>, b) \in Seq({a, b}) /\ Len(Append(<<a>>, b)) = 2
      /\ Append(<<a>>, b)[1] = a /\ Append(<<a>>, b)[2] = b
  BY <1>1, AppendProperties
<1> DEFINE s == Append(<<a>>, b)
           t == <<a, b>>
<1> HIDE DEF s, t
<1>4. /\ s \in Seq({a, b}) /\ t \in Seq({a, b}) /\ Len(s) = 2 /\ Len(t) = 2
      /\ s[1] = t[1] /\ s[2] = t[2]
  BY <1>2, <1>3 DEF s, t
<1>5. \A i \in 1 .. Len(s) : s[i] = t[i]
  BY <1>4
<1>6. s = t
  BY <1>4, <1>5, SeqEqual
<1> QED BY <1>6 DEF s, t

LEMMA PortReadKeeps ==
    ASSUME HandshakeInv, PortRead
    PROVE  HandshakeInv'
<1>1. TypeOK /\ BufferInv /\ Completed("port") /\ at = "port" /\ address' = address
  BY DEF HandshakeInv, PortRead, Completed
<1>2. /\ UNCHANGED network /\ told' = told /\ taken' = Start + want
      /\ taken' \in 0 .. written
      /\ \A i \in 1 .. want : Bytes[i] = script[Start + i] /\ Bytes[i] \in Byte
  BY <1>1, ReadFacts
<1>3. ReadsAddress /\ at # "over"
  BY <1>1 DEF HandshakeInv
<1>4. /\ Connects /\ Names /\ told = <<"NO_AUTH">> /\ address.type \in AddressType
      /\ Code(address.type) = TypeCode
      /\ Start = PortAt /\ want = 2
      /\ address.bytes = Decoded(address.type, [i \in 1 .. AddressSize |-> script[AddressAt + i]])
  BY <1>1, <1>3 DEF ReadsAddress
<1>5. /\ taken' = PortAt + 2 /\ Bytes[1] = script[PortAt + 1] /\ Bytes[2] = script[PortAt + 2]
      /\ Bytes[1] \in Byte /\ Bytes[2] \in Byte
  BY <1>2, <1>4
<1>6. 256 * Bytes[1] + Bytes[2] = PortRequested
  BY <1>5 DEF PortRequested
<1>7. PortRequested \in 0 .. MaxPort
  BY <1>5, <1>6, PortFacts
<1>8. address' \in AddressOrNone /\ told' \in Seq(Reply) /\ told' = <<"NO_AUTH">>
  BY <1>1, <1>2, <1>4 DEF TypeOK
<1>9. script' = script
  BY <1>2 DEF network
<1>10. CASE PortRequested = 0
  <2>1. Answer("GENERAL_FAILURE", "malformed")
    BY <1>6, <1>10 DEF PortRead, Malformed
  <2>2. Reason("GENERAL_FAILURE")
    BY <1>4, <1>10 DEF Reason
  <2>3. Reason("GENERAL_FAILURE")'
    BY <1>9, <2>2, SameScript
  <2>4. pending'.reply = "GENERAL_FAILURE" /\ pending'.next = "malformed" => Answers'
    BY <1>8, <2>3 DEF Answers, Errors, Reply, Said
  <2> QED BY <1>2, <1>3, <1>8, <2>1, <2>4, Answering DEF Ending, Reply
<1>11. CASE PortRequested # 0
  <2>1. /\ at' = "over" /\ want' = 0 /\ buffer' = <<>> /\ pending' = pending
        /\ outcome' = [kind |-> "accepted", address |-> address, port |-> PortRequested]
    BY <1>6, <1>11 DEF PortRead, Return
  <2>2. outcome'.kind = "accepted" /\ outcome'.port = PortRequested /\ outcome'.address = address
    BY <2>1
  <2>3. OutcomeOK(outcome')
    <3>1. PortRequested \in AllPortNumbers
      BY <1>7, <1>11, PortFacts
    <3> QED BY <2>2, <3>1 DEF OutcomeOK
  <2>4. PendingOK(pending')
    BY <1>1, <2>1 DEF TypeOK
  <2>5. at' \in Reads \cup {"answering", "over"} /\ want' \in 0 .. 255
    BY <2>1
  <2>6. TypeOK' /\ BufferInv'
    BY <1>1, <1>2, <1>8, <2>1, <2>3, <2>4, <2>5, MoveTypes
  <2>7. /\ Names' /\ AddressAt' = AddressAt /\ AddressSize' = AddressSize
        /\ TypeCode' = TypeCode /\ PortAt' = PortAt /\ PortRequested' = PortRequested
    BY <1>4, <1>9, SameScript
  <2>8. Accepted'
    BY <1>4, <1>5, <1>8, <1>9, <1>11, <2>2, <2>7 DEF Accepted
  <2>9. Over'
    BY <2>2, <2>8 DEF Over
  <2> QED BY <2>1, <2>6, <2>9 DEF HandshakeInv
<1> QED BY <1>10, <1>11

LEMMA ReplySentKeeps ==
    ASSUME HandshakeInv, ReplySent
    PROVE  HandshakeInv'
<1>1. /\ at = "answering" /\ UNCHANGED <<network, taken, address>>
      /\ told' = Append(told, pending.reply)
      /\ IF pending.next = "request" THEN Await("request", 4) ELSE End(pending.next)
  BY DEF ReplySent
<1>2. /\ Answers /\ told' \in Seq(Reply)
  BY <1>1, PendingFacts
<1>3. taken' \in 0 .. written /\ address' \in AddressOrNone
  BY <1>1 DEF HandshakeInv, TypeOK, StreamOK
<1>4. script' = script
  BY <1>1 DEF network
<1>5. CASE pending.reply = "NO_AUTH"
  <2>1. /\ pending.next = "request" /\ Greets /\ taken = GreetingEnd /\ told = <<>>
    BY <1>2, <1>5 DEF Answers, Errors
  <2>2. told' = <<"NO_AUTH">>
    BY <1>1, <1>5, <2>1
  <2>3. Greets' /\ GreetingEnd' = GreetingEnd
    BY <1>4, <2>1, SameScript
  <2>4. at' = "request" /\ want' = 4 /\ Start' = taken' => ReadsRequest'
    BY <1>1, <2>1, <2>2, <2>3 DEF ReadsRequest
  <2>5. "request" \in Reads \ {"header"} /\ 4 \in 0 .. 255
    BY DEF Reads
  <2> QED BY <1>1, <1>2, <1>3, <2>1, <2>4, <2>5, Awaiting
<1>6. CASE pending.reply # "NO_AUTH"
  <2>1. /\ pending.reply \in Errors /\ Reason(pending.reply)
        /\ pending.next = IF pending.reply = "GENERAL_FAILURE" THEN "malformed" ELSE "refused"
        /\ pending.reply # "GENERAL_FAILURE" => taken = ReceivedBefore(pending.reply)
        /\ told = Said(pending.reply)
    BY <1>2, <1>6 DEF Answers
  <2>2. PICK reply \in Errors : reply = pending.reply
    BY <2>1
  <2>3. Reason(reply)' /\ ReceivedBefore(reply)' = ReceivedBefore(reply)
    BY <1>4, <2>1, <2>2, SameScript
  <2>4. End(pending.next) /\ pending.next \in Ending
    BY <1>1, <2>1 DEF Ending
  <2>5. pending.next = "refused" => Refused'
    BY <1>1, <2>1, <2>2, <2>3 DEF Refused
  <2>6. pending.next = "malformed" => MalformedSaid'
    <3>1. CASE reply = "GENERAL_FAILURE"
      <4>1. told = <<"NO_AUTH">> /\ pending.reply = "GENERAL_FAILURE"
        BY <2>1, <2>2, <3>1 DEF Said
      <4>2. told' = Append(<<"NO_AUTH">>, "GENERAL_FAILURE")
        BY <1>1, <4>1
      <4>3. told' = <<"NO_AUTH", "GENERAL_FAILURE">>
        BY <4>2, AppendOne
      <4> QED BY <2>3, <3>1, <4>3 DEF MalformedSaid
    <3> QED BY <2>1, <2>2, <3>1
  <2> QED BY <1>1, <1>2, <1>3, <2>4, <2>5, <2>6, Ends
<1> QED BY <1>5, <1>6

\* What has been told stays a list of replies.
LEMMA ToldFacts ==
    ASSUME HandshakeInv, MayBeTold
    PROVE  told' \in Seq(Reply)
<1>1. told \in Seq(Reply) /\ (at = "answering" => Append(told, pending.reply) \in Seq(Reply))
  BY PendingFacts DEF HandshakeInv, TypeOK
<1> QED BY <1>1 DEF MayBeTold

LEMMA FailuresKeep ==
    ASSUME HandshakeInv, ReceiveRaises \/ ReplyRaises \/ HandshakeTimeout
    PROVE  HandshakeInv'
<1>1. UNCHANGED <<network, taken, address>> /\ script' = script /\ client' = client
  BY DEF ReceiveRaises, ReplyRaises, HandshakeTimeout, network
<1>2. taken' \in 0 .. written /\ address' \in AddressOrNone /\ told \in Seq(Reply)
  BY <1>1 DEF HandshakeInv, TypeOK, StreamOK
<1>3. CASE ReceiveRaises
  BY <1>1, <1>2, <1>3, Ends DEF ReceiveRaises, Ending
<1>4. CASE HandshakeTimeout
  BY <1>1, <1>2, <1>4, Ends, ToldFacts DEF HandshakeTimeout, Ending
<1>5. CASE ReplyRaises
  <2>1. /\ at = "answering" /\ client' # "open" /\ MayBeTold
        /\ End(IF pending.next = "malformed" THEN "malformed" ELSE "gone")
    BY <1>1, <1>5 DEF ReplyRaises
  <2>2. Answers /\ told' \in Seq(Reply)
    BY <2>1, PendingFacts, ToldFacts
  <2>3. pending.next = "malformed" => MalformedSaid'
    <3>1. pending.next = "malformed" => Reason("GENERAL_FAILURE")
      BY <2>2 DEF Answers
    <3>2. Reason("GENERAL_FAILURE")' = Reason("GENERAL_FAILURE")
      BY <1>1, SameScript
    <3> QED BY <2>1, <3>1, <3>2 DEF MalformedSaid
  <2> QED BY <1>1, <1>2, <2>1, <2>2, <2>3, Ends DEF Ending
<1> QED BY <1>3, <1>4, <1>5

\* The handler is always where the bytes it has received lead: this is what the
\* properties below follow from.
THEOREM HandshakeInvariant == Spec => []HandshakeInv
<1>1. Init => HandshakeInv
  <2> SUFFICES ASSUME Init PROVE HandshakeInv
    OBVIOUS
  <2>1. /\ script \in Script /\ written = 0 /\ client = "open" /\ taken = 0
        /\ at = "header" /\ want = 2 /\ buffer = <<>> /\ address = None
        /\ pending = [reply |-> "none", next |-> "request"] /\ told = <<>>
        /\ outcome = [kind |-> "pending"]
    BY DEF Init
  <2>2. Len(script) \in Nat
    BY <2>1, ScriptAssumption, LenProperties
  <2>3. StreamOK
    BY <2>1, <2>2 DEF StreamOK
  <2>4. PendingOK(pending) /\ OutcomeOK(outcome) /\ outcome.kind = "pending"
    BY <2>1 DEF PendingOK, OutcomeOK
  <2>5. buffer \in Seq(Byte) /\ Len(buffer) = 0 /\ told \in Seq(Reply)
    BY <2>1, EmptySeq
  <2>6. TypeOK
    BY <2>1, <2>3, <2>4, <2>5 DEF TypeOK, AddressOrNone, Reads
  <2>7. BufferInv /\ ReadsHeader
    <3>1. taken = 0 /\ want = 2 /\ told = <<>>
      BY <2>1
    <3>2. Start = 0
      BY <2>5, <3>1 DEF Start
    <3>3. BufferInv
      BY <2>5, <3>1 DEF BufferInv
    <3> QED BY <3>1, <3>2, <3>3 DEF ReadsHeader
  <2> QED BY <2>1, <2>4, <2>6, <2>7 DEF HandshakeInv
<1>2. HandshakeInv /\ [Next]_vars => HandshakeInv'
  BY ClientKeeps, ReceivePartKeeps, HeaderReadKeeps, MethodsReadKeeps, RequestReadKeeps,
     LengthReadKeeps, AddressReadKeeps, PortReadKeeps, ReplySentKeeps, FailuresKeep
  DEF Next
<1> QED BY <1>1, <1>2, PTL DEF Spec

----------------------------------------------------------------------------
(* The messages SOCKS5 allows, byte by byte *)

AnyMessage ==
    [methods : AllMethodLists, reserved : Byte, address : AllAddresses, port : AllPortNumbers]

LEMMA MessageIsAny == Message \subseteq AnyMessage
BY MessageAssumption DEF Message, AnyMessage

\* The bytes of a message, and where the address ends in it.
WireOf(m) == Greeting(m.methods) \o Request(m.reserved, m.address, m.port)
Offered(m) == Len(m.methods)
NameAt(m) == 2 + Offered(m) + (IF m.address.type = "DOMAIN" THEN 5 ELSE 4)
NameSize(m) == Len(m.address.bytes)

LEMMA MessageFacts ==
    ASSUME NEW m \in AnyMessage
    PROVE  /\ m.methods \in Seq(Byte) /\ Offered(m) \in 1 .. 255
           /\ m.reserved \in Byte
           /\ m.address.type \in AddressType /\ m.address.bytes \in Seq(Byte)
           /\ NameSize(m) \in 1 .. 255
           /\ m.address.type # "DOMAIN" => NameSize(m) = Size(m.address.type)
           /\ NameAt(m) \in Nat /\ m.port \in Nat /\ m.port # 0 /\ m.port <= MaxPort
<1>1. /\ m.methods \in AllMethodLists /\ m.reserved \in Byte
      /\ m.address \in AllAddresses /\ m.port \in AllPortNumbers
  BY DEF AnyMessage
<1>2. m.methods \in Seq(Byte) /\ Offered(m) \in 1 .. 255
  BY <1>1 DEF AllMethodLists, Offered
<1>3. /\ m.address \in [type : AddressType, bytes : Seq(Byte)]
      /\ Len(m.address.bytes) \in
           IF m.address.type = "DOMAIN" THEN 1 .. 255 ELSE {Size(m.address.type)}
  BY <1>1 DEF AllAddresses
<1>4. m.address.type \in AddressType /\ m.address.bytes \in Seq(Byte)
  BY <1>3
<1>5. /\ m.address.type = "DOMAIN" => NameSize(m) \in 1 .. 255
      /\ m.address.type # "DOMAIN" => NameSize(m) = Size(m.address.type)
  BY <1>3 DEF NameSize
<1>6. Size(m.address.type) \in {4, 16}
  BY DEF Size
<1>7. NameSize(m) \in 1 .. 255
  BY <1>5, <1>6
<1>8. m.port \in Nat /\ m.port # 0 /\ m.port <= MaxPort
  <2>1. MaxPort \in Nat
    BY SMT DEF MaxPort
  <2> QED BY <1>1, <2>1 DEF AllPortNumbers
<1>9. NameAt(m) \in Nat
  <2> DEFINE ahead == IF m.address.type = "DOMAIN" THEN 5 ELSE 4
             offered == Offered(m)
  <2>1. ahead \in Nat /\ offered \in 1 .. 255
    BY <1>2
  <2>2. NameAt(m) = 2 + offered + ahead
    BY DEF NameAt
  <2> HIDE DEF ahead, offered
  <2> QED BY <2>1, <2>2
<1> QED BY <1>1, <1>2, <1>4, <1>5, <1>7, <1>8, <1>9

\* A port as its two bytes.
LEMMA PortBytes ==
    ASSUME NEW p \in Nat, p <= MaxPort
    PROVE  /\ p \div 256 \in Byte /\ p % 256 \in Byte
           /\ 256 * (p \div 256) + (p % 256) = p
<1>1. p \div 256 \in Int /\ p % 256 \in 0 .. 255 /\ 256 * (p \div 256) + (p % 256) = p
  BY SMT
<1>2. p \div 256 >= 0 /\ p \div 256 <= 255
  BY SMT, <1>1 DEF MaxPort
<1> QED BY <1>1, <1>2 DEF Byte

LEMMA BytesOfPort ==
    ASSUME NEW x \in Byte, NEW y \in Byte
    PROVE  (256 * x + y) \div 256 = x /\ (256 * x + y) % 256 = y
BY SMT DEF Byte

LEMMA WireFacts ==
    ASSUME NEW m \in AnyMessage
    PROVE  /\ WireOf(m) \in Seq(Byte) /\ Len(WireOf(m)) = NameAt(m) + NameSize(m) + 2
           /\ WireOf(m)[1] = Version /\ WireOf(m)[2] = Offered(m)
           /\ \A i \in 1 .. Offered(m) : WireOf(m)[2 + i] = m.methods[i]
           /\ WireOf(m)[2 + Offered(m) + 1] = Version
           /\ WireOf(m)[2 + Offered(m) + 2] = Connect
           /\ WireOf(m)[2 + Offered(m) + 3] = m.reserved
           /\ WireOf(m)[2 + Offered(m) + 4] = Code(m.address.type)
           /\ m.address.type = "DOMAIN" => WireOf(m)[2 + Offered(m) + 5] = NameSize(m)
           /\ \A i \in 1 .. NameSize(m) : WireOf(m)[NameAt(m) + i] = m.address.bytes[i]
           /\ WireOf(m)[NameAt(m) + NameSize(m) + 1] = m.port \div 256
           /\ WireOf(m)[NameAt(m) + NameSize(m) + 2] = m.port % 256
<1> DEFINE k == Offered(m)
           l == NameSize(m)
           d == IF m.address.type = "DOMAIN" THEN 1 ELSE 0
           hello == <<Version, k>>
           ask == <<Version, Connect, m.reserved, Code(m.address.type)>>
           size == IF m.address.type = "DOMAIN" THEN <<l>> ELSE <<>>
           port == <<m.port \div 256, m.port % 256>>
           start == ask \o size
           named == start \o m.address.bytes
           request == named \o port
           greeting == hello \o m.methods
<1>1. /\ m.methods \in Seq(Byte) /\ k \in 1 .. 255 /\ Len(m.methods) = k
      /\ m.reserved \in Byte
      /\ m.address.type \in AddressType /\ m.address.bytes \in Seq(Byte)
      /\ l \in 1 .. 255 /\ Len(m.address.bytes) = l
      /\ NameAt(m) \in Nat /\ m.port \in Nat /\ m.port <= MaxPort
  <2>1. Len(m.methods) = k /\ Len(m.address.bytes) = l
    BY DEF Offered, NameSize
  <2> QED BY <2>1, MessageFacts
<1>2. k \in Byte /\ l \in Byte /\ Version \in Byte /\ Connect \in Byte
      /\ Code(m.address.type) \in Byte
  <2>1. Code(m.address.type) \in {1, 3, 4}
    BY <1>1, CodeFacts
  <2> HIDE DEF k, l
  <2> QED BY <1>1, <2>1 DEF Byte, Version, Connect
<1>3. /\ m.port \div 256 \in Byte /\ m.port % 256 \in Byte
  BY <1>1, PortBytes
<1>4. WireOf(m) = greeting \o request
  BY DEF WireOf, Greeting, Request, Offered, NameSize
<1>5. NameAt(m) = 2 + k + 4 + d /\ d \in {0, 1}
  <2> HIDE DEF k
  <2> QED BY <1>1 DEF NameAt, k
<1>6. /\ hello \in Seq(Byte) /\ Len(hello) = 2 /\ hello[1] = Version /\ hello[2] = k
  <2> HIDE DEF k
  <2> QED BY <1>2
<1>7. /\ ask \in Seq(Byte) /\ Len(ask) = 4 /\ ask[1] = Version /\ ask[2] = Connect
      /\ ask[3] = m.reserved /\ ask[4] = Code(m.address.type)
  BY <1>1, <1>2
<1>8. /\ size \in Seq(Byte) /\ Len(size) = d
      /\ m.address.type = "DOMAIN" => d = 1 /\ size[1] = l
  <2> HIDE DEF l
  <2> QED BY <1>2, EmptySeq
<1>9. /\ port \in Seq(Byte) /\ Len(port) = 2 /\ port[1] = m.port \div 256
      /\ port[2] = m.port % 256
  BY <1>3
<1> HIDE DEF hello, ask, size, port, k, l, d
<1>10. /\ greeting \in Seq(Byte) /\ Len(greeting) = 2 + k
       /\ greeting[1] = Version /\ greeting[2] = k
       /\ \A i \in 1 .. k : greeting[2 + i] = m.methods[i]
  <2>1. /\ greeting \in Seq(Byte) /\ Len(greeting) = Len(hello) + Len(m.methods)
        /\ \A i \in 1 .. Len(hello) : greeting[i] = hello[i]
        /\ \A i \in 1 .. Len(m.methods) : greeting[Len(hello) + i] = m.methods[i]
    <3>1. hello \in Seq(Byte) /\ m.methods \in Seq(Byte)
      BY <1>1, <1>6
    <3> QED BY <3>1, ConcatParts
  <2> HIDE DEF greeting
  <2> QED BY <1>1, <1>6, <2>1
<1>11. /\ start \in Seq(Byte) /\ Len(start) = 4 + d
       /\ \A i \in 1 .. 4 : start[i] = ask[i]
       /\ m.address.type = "DOMAIN" => start[5] = l
  <2>1. /\ start \in Seq(Byte) /\ Len(start) = Len(ask) + Len(size)
        /\ \A i \in 1 .. Len(ask) : start[i] = ask[i]
        /\ \A i \in 1 .. Len(size) : start[Len(ask) + i] = size[i]
    <3>1. ask \in Seq(Byte) /\ size \in Seq(Byte)
      BY <1>7, <1>8
    <3> QED BY <3>1, ConcatParts
  <2> HIDE DEF start
  <2> QED BY <1>7, <1>8, <2>1
<1> HIDE DEF start
<1>12. /\ named \in Seq(Byte) /\ Len(named) = 4 + d + l
       /\ \A i \in 1 .. (4 + d) : named[i] = start[i]
       /\ \A i \in 1 .. l : named[4 + d + i] = m.address.bytes[i]
  <2>1. /\ named \in Seq(Byte) /\ Len(named) = Len(start) + Len(m.address.bytes)
        /\ \A i \in 1 .. Len(start) : named[i] = start[i]
        /\ \A i \in 1 .. Len(m.address.bytes) : named[Len(start) + i] = m.address.bytes[i]
    <3>1. start \in Seq(Byte) /\ m.address.bytes \in Seq(Byte)
      BY <1>1, <1>11
    <3> QED BY <3>1, ConcatParts
  <2> HIDE DEF named
  <2> QED BY <1>1, <1>11, <2>1
<1> HIDE DEF named
<1>13. /\ request \in Seq(Byte) /\ Len(request) = 4 + d + l + 2
       /\ \A i \in 1 .. (4 + d + l) : request[i] = named[i]
       /\ request[4 + d + l + 1] = m.port \div 256 /\ request[4 + d + l + 2] = m.port % 256
  <2>1. /\ request \in Seq(Byte) /\ Len(request) = Len(named) + Len(port)
        /\ \A i \in 1 .. Len(named) : request[i] = named[i]
        /\ \A i \in 1 .. Len(port) : request[Len(named) + i] = port[i]
    <3>1. named \in Seq(Byte) /\ port \in Seq(Byte)
      BY <1>9, <1>12
    <3> QED BY <3>1, ConcatParts
  <2> HIDE DEF request
  <2> QED BY <1>9, <1>12, <2>1
<1> HIDE DEF greeting, request
<1> DEFINE w == greeting \o request
           size2 == 2 + k
<1>14. /\ w \in Seq(Byte) /\ Len(w) = (2 + k) + (4 + d + l + 2)
       /\ \A i \in 1 .. (2 + k) : w[i] = greeting[i]
       /\ \A i \in 1 .. (4 + d + l + 2) : w[(2 + k) + i] = request[i]
  <2>1. /\ w \in Seq(Byte) /\ Len(w) = Len(greeting) + Len(request)
        /\ \A i \in 1 .. Len(greeting) : w[i] = greeting[i]
        /\ \A i \in 1 .. Len(request) : w[Len(greeting) + i] = request[i]
    <3>1. greeting \in Seq(Byte) /\ request \in Seq(Byte)
      BY <1>10, <1>13
    <3> QED BY <3>1, ConcatParts
  <2> HIDE DEF w
  <2> QED BY <1>10, <1>13, <2>1
<1> HIDE DEF w
<1>15. k \in 1 .. 255 /\ l \in 1 .. 255 /\ d \in {0, 1}
  BY <1>1, <1>5
<1>16. w[1] = Version /\ w[2] = k /\ \A i \in 1 .. k : w[2 + i] = m.methods[i]
  <2>1. 1 \in 1 .. (2 + k) /\ 2 \in 1 .. (2 + k) /\ \A i \in 1 .. k : 2 + i \in 1 .. (2 + k)
    BY <1>15
  <2> QED BY <1>10, <1>14, <2>1
<1>17. ASSUME NEW i \in 1 .. (4 + d)
       PROVE  w[2 + k + i] = start[i]
  <2>1. i \in 1 .. (4 + d + l + 2) /\ i \in 1 .. (4 + d + l)
    BY <1>15
  <2> QED BY <1>12, <1>13, <1>14, <2>1
<1>18. /\ w[2 + k + 1] = Version /\ w[2 + k + 2] = Connect /\ w[2 + k + 3] = m.reserved
       /\ w[2 + k + 4] = Code(m.address.type)
  <2>1. 1 \in 1 .. (4 + d) /\ 2 \in 1 .. (4 + d) /\ 3 \in 1 .. (4 + d) /\ 4 \in 1 .. (4 + d)
    BY <1>15
  <2>2. \A i \in 1 .. 4 : start[i] = ask[i]
    BY <1>11
  <2> QED BY <1>7, <1>17, <2>1, <2>2
<1>19. m.address.type = "DOMAIN" => w[2 + k + 5] = l
  <2> SUFFICES ASSUME m.address.type = "DOMAIN" PROVE w[2 + k + 5] = l
    OBVIOUS
  <2>1. d = 1 /\ start[5] = l
    BY <1>8, <1>11
  <2>2. 5 \in 1 .. (4 + d)
    BY <2>1
  <2> QED BY <1>17, <2>1, <2>2
<1>20. ASSUME NEW i \in 1 .. l
       PROVE  w[NameAt(m) + i] = m.address.bytes[i]
  <2>1. /\ 4 + d + i \in 1 .. (4 + d + l + 2) /\ 4 + d + i \in 1 .. (4 + d + l)
        /\ NameAt(m) + i = (2 + k) + (4 + d + i)
    BY <1>5, <1>15
  <2> QED BY <1>12, <1>13, <1>14, <2>1
<1>21. /\ w[NameAt(m) + l + 1] = m.port \div 256 /\ w[NameAt(m) + l + 2] = m.port % 256
  <2>1. /\ 4 + d + l + 1 \in 1 .. (4 + d + l + 2) /\ 4 + d + l + 2 \in 1 .. (4 + d + l + 2)
        /\ NameAt(m) + l + 1 = (2 + k) + (4 + d + l + 1)
        /\ NameAt(m) + l + 2 = (2 + k) + (4 + d + l + 2)
    BY <1>5, <1>15
  <2> QED BY <1>13, <1>14, <2>1
<1>22. Len(w) = NameAt(m) + l + 2
  <2>1. Len(w) = (2 + k) + (4 + d + l + 2)
    BY <1>14
  <2> QED BY <1>5, <1>15, <2>1
<1>23. WireOf(m) = w
  BY <1>4 DEF w
<1> QED BY <1>14, <1>16, <1>18, <1>19, <1>20, <1>21, <1>22, <1>23 DEF k, l

----------------------------------------------------------------------------
(* A client that has written a message *)

\* A beginning of what has arrived is, byte by byte, the script.
LEMMA PrefixFacts ==
    ASSUME TypeOK, NEW w \in Seq(Byte), IsPrefix(w, SubSeq(script, 1, written))
    PROVE  Len(w) \in Nat /\ Len(w) <= written /\ \A i \in 1 .. Len(w) : script[i] = w[i]
<1> DEFINE arrived == SubSeq(script, 1, written)
           n == Len(w)
<1>1. /\ script \in Seq(Byte) /\ written \in Nat /\ written <= Len(script)
  BY TypeFacts
<1>2. /\ arrived \in Seq(Byte) /\ Len(arrived) = written
      /\ \A i \in 1 .. written : arrived[i] = script[i]
  <2>1. \A i \in 1 .. Len(script) : script[i] \in Byte
    BY <1>1, ElementOfSeq
  <2> QED BY <1>1, <2>1, SubSeqProperties
<1>3. n \in Nat
  BY LenProperties
<1>4. n <= written /\ SubSeq(w, 1, n) = SubSeq(arrived, 1, n)
  BY <1>2 DEF IsPrefix
<1> HIDE DEF arrived, n
<1>5. \A i \in 1 .. n : SubSeq(w, 1, n)[i] = w[i]
  <2>1. \A i \in 1 .. n : w[i] \in Byte
    BY ElementOfSeq DEF n
  <2> QED BY <1>3, <2>1, SubSeqProperties
<1>6. \A i \in 1 .. n : SubSeq(arrived, 1, n)[i] = arrived[i]
  <2>1. \A i \in 1 .. written : arrived[i] \in Byte
    BY <1>2, ElementOfSeq
  <2>2. \A i \in 1 .. n : arrived[i] \in Byte
    BY <1>1, <1>3, <1>4, <2>1
  <2> QED BY <1>3, <2>2, SubSeqProperties
<1>7. \A i \in 1 .. n : i \in 1 .. written
  BY <1>1, <1>3, <1>4
<1> QED BY <1>2, <1>3, <1>4, <1>5, <1>6, <1>7 DEF n

\* The parts of its script are those of the message.
LEMMA AskedFacts ==
    ASSUME TypeOK, NEW m \in Message, Asked(m)
    PROVE  /\ m \in AnyMessage /\ Wire[m] = WireOf(m)
           /\ GreetingEnd = 2 + Offered(m) /\ TypeCode = Code(m.address.type)
           /\ AddressAt = NameAt(m) /\ AddressSize = NameSize(m)
           /\ PortRequested = m.port /\ PortRequested # 0
           /\ Names
           /\ Len(Wire[m]) = PortAt + 2 /\ Len(Wire[m]) <= written
<1> DEFINE k == Offered(m)
           w == WireOf(m)
<1>1. m \in AnyMessage /\ Wire[m] = w
  BY MessageIsAny DEF Wire, WireOf
<1>2. /\ m.methods \in Seq(Byte) /\ k \in 1 .. 255
      /\ m.address.type \in AddressType
      /\ NameSize(m) \in 1 .. 255
      /\ m.address.type # "DOMAIN" => NameSize(m) = Size(m.address.type)
      /\ NameAt(m) \in Nat /\ m.port \in Nat /\ m.port # 0 /\ m.port <= MaxPort
  BY <1>1, MessageFacts
<1>3. /\ w \in Seq(Byte) /\ Len(w) = NameAt(m) + NameSize(m) + 2
      /\ w[1] = Version /\ w[2] = k
      /\ \A i \in 1 .. k : w[2 + i] = m.methods[i]
      /\ w[2 + k + 1] = Version /\ w[2 + k + 2] = Connect
      /\ w[2 + k + 4] = Code(m.address.type)
      /\ m.address.type = "DOMAIN" => w[2 + k + 5] = NameSize(m)
      /\ w[NameAt(m) + NameSize(m) + 1] = m.port \div 256
      /\ w[NameAt(m) + NameSize(m) + 2] = m.port % 256
  BY <1>1, WireFacts
<1>4. Contains(m.methods, NoAuth) /\ IsPrefix(w, SubSeq(script, 1, written))
  BY <1>1 DEF Asked
<1> HIDE DEF w
<1>5. Len(w) \in Nat /\ Len(w) <= written /\ \A i \in 1 .. Len(w) : script[i] = w[i]
  BY <1>3, <1>4, PrefixFacts
<1>6. NameAt(m) = 2 + k + (IF m.address.type = "DOMAIN" THEN 5 ELSE 4)
  BY DEF NameAt
<1> HIDE DEF k
<1> DEFINE a == NameAt(m)
           l == NameSize(m)
<1>7. a \in Nat /\ l \in 1 .. 255 /\ a >= 2 + k + 4 /\ Len(w) = a + l + 2
      /\ (m.address.type = "DOMAIN" => a = 2 + k + 5)
      /\ (m.address.type # "DOMAIN" => a = 2 + k + 4)
  <2>1. /\ m.address.type = "DOMAIN" => a = 2 + k + 5
        /\ m.address.type # "DOMAIN" => a = 2 + k + 4
    BY <1>6
  <2> HIDE DEF a, l
  <2>2. 2 + k + 5 >= 2 + k + 4
    BY <1>2
  <2>3. a >= 2 + k + 4
    BY <1>2, <2>1, <2>2
  <2> QED BY <1>2, <1>3, <2>1, <2>3 DEF a, l
<1> HIDE DEF a, l
<1>8. ASSUME NEW i \in Nat, i # 0, i <= a + l + 2
      PROVE  script[i] = w[i]
  BY <1>5, <1>7, <1>8
<1>9. script[1] = Version /\ script[2] = k
  <2>1. 1 <= a + l + 2 /\ 2 <= a + l + 2
    BY <1>2, <1>7
  <2> QED BY <1>3, <1>8, <2>1
<1>10. GreetingEnd = 2 + k
  BY <1>9 DEF GreetingEnd
<1>11. Greets
  <2>1. PICK i \in 1 .. k : m.methods[i] = NoAuth
    <3>1. Len(m.methods) = k
      BY DEF k, Offered
    <3> QED BY <1>4, <3>1 DEF Contains
  <2>2. 2 + i \in Nat /\ 2 + i # 0 /\ 2 + i <= a + l + 2
    BY <1>2, <1>7
  <2>3. script[2 + i] = NoAuth
    BY <1>3, <1>8, <2>1, <2>2
  <2> QED BY <1>2, <1>9, <2>3 DEF Greets
<1>12. /\ script[2 + k + 1] = Version /\ script[2 + k + 2] = Connect
       /\ script[2 + k + 4] = Code(m.address.type)
  <2>1. ASSUME NEW j \in 1 .. 4
        PROVE  script[2 + k + j] = w[2 + k + j]
    <3>1. 2 + k + j \in Nat /\ 2 + k + j # 0 /\ 2 + k + j <= a + l + 2
      BY <1>2, <1>7
    <3> QED BY <1>8, <3>1
  <2> QED BY <1>3, <2>1
<1>13. TypeCode = Code(m.address.type) /\ Connects
  <2>1. TypeCode = Code(m.address.type)
    BY <1>10, <1>12 DEF TypeCode
  <2> QED BY <1>2, <1>10, <1>11, <1>12, <2>1, CodeFacts DEF Connects
<1>14. AddressAt = a /\ AddressSize = l
  <2>1. CASE m.address.type = "DOMAIN"
    <3>1. TypeCode = 3
      BY <1>13, <2>1, CodeFacts
    <3>2. script[2 + k + 5] = w[2 + k + 5]
      <4>1. 2 + k + 5 \in Nat /\ 2 + k + 5 # 0 /\ 2 + k + 5 <= a + l + 2
        BY <1>2, <1>7, <2>1
      <4> QED BY <1>8, <4>1
    <3> QED BY <1>3, <1>7, <1>10, <2>1, <3>1, <3>2 DEF AddressAt, AddressSize, l
  <2>2. CASE m.address.type # "DOMAIN"
    <3>1. TypeCode # 3 /\ (TypeCode = 1 => m.address.type = "IPV4")
          /\ (TypeCode # 1 => m.address.type = "IPV6")
      BY <1>2, <1>13, <2>2, CodeFacts DEF AddressType
    <3>2. l = Size(m.address.type)
      BY <1>2, <2>2 DEF l
    <3> QED BY <1>7, <1>10, <2>2, <3>1, <3>2 DEF AddressAt, AddressSize, Size
  <2> QED BY <2>1, <2>2
<1>15. PortAt = a + l
  BY <1>14 DEF PortAt
<1>16. PortRequested = m.port
  <2>1. script[a + l + 1] = w[a + l + 1] /\ script[a + l + 2] = w[a + l + 2]
    <3>1. /\ a + l + 1 \in Nat /\ a + l + 1 # 0 /\ a + l + 1 <= a + l + 2
          /\ a + l + 2 \in Nat /\ a + l + 2 # 0 /\ a + l + 2 <= a + l + 2
      BY <1>7
    <3> QED BY <1>8, <3>1
  <2>2. script[PortAt + 1] = m.port \div 256 /\ script[PortAt + 2] = m.port % 256
    BY <1>3, <1>15, <2>1 DEF a, l
  <2>3. 256 * (m.port \div 256) + (m.port % 256) = m.port
    BY <1>2, PortBytes
  <2> QED BY <2>2, <2>3 DEF PortRequested
<1>17. Names
  BY <1>7, <1>13, <1>14 DEF Names
<1>18. Len(w) = PortAt + 2
  BY <1>7, <1>15
<1>19. GreetingEnd = 2 + Offered(m) /\ AddressAt = NameAt(m) /\ AddressSize = NameSize(m)
  BY <1>10, <1>14 DEF k, a, l
<1>20. PortRequested # 0 /\ Len(w) <= written
  BY <1>2, <1>5, <1>16
<1> QED BY <1>1, <1>13, <1>16, <1>17, <1>18, <1>19, <1>20 DEF w

----------------------------------------------------------------------------
(* The properties *)

\* No message SOCKS5 allows is refused or called malformed, whatever its
\* methods, its address and its port are: the checks of negotiate_auth and
\* read_connect_request reject nothing else.
THEOREM RefusesOnlyBadRequestsProved == Spec => []RefusesOnlyBadRequests
<1>1. HandshakeInv => RefusesOnlyBadRequests
  <2> SUFFICES ASSUME HandshakeInv, outcome.kind \in {"refused", "malformed"},
                      NEW m \in Message, Asked(m)
               PROVE  FALSE
    BY DEF RefusesOnlyBadRequests
  <2>1. TypeOK /\ Over
    BY DEF HandshakeInv
  <2>2. /\ Names /\ PortRequested # 0
    BY <2>1, AskedFacts
  <2>3. Connects /\ Greets /\ AddressSize # 0
    BY <2>2 DEF Names, Connects
  <2>4. ~ NoMethod
    <3>1. PICK i \in 1 .. script[2] : script[2 + i] = NoAuth
      BY <2>3 DEF Greets
    <3> QED BY <3>1 DEF NoMethod
  <2>5. ASSUME NEW reply \in Errors, Reason(reply)
        PROVE  FALSE
    <3>1. TypeCode = 3 => AddressSize = script[GreetingEnd + 5]
      BY DEF AddressSize
    <3> QED BY <2>2, <2>3, <2>4, <2>5, <3>1 DEF Reason, Connects, Errors, Reply
  <2>6. script[1] = Version /\ script[GreetingEnd + 1] = Version
    BY <2>3 DEF Connects, Greets
  <2>7. ~ Refused
    BY <2>5, <2>6 DEF Refused
  <2>8. ~ MalformedSaid
    BY <2>5 DEF MalformedSaid, Errors, Reply
  <2> QED BY <2>1, <2>7, <2>8 DEF Over
<1> QED BY <1>1, HandshakeInvariant, PTL

\* While it reads a message SOCKS5 allows, the handler never asks read_exact for
\* a byte beyond it, so it never waits for a client that waits for its answer.
THEOREM NeverWantsMoreProved == Spec => []NeverWantsMore
<1>1. HandshakeInv => NeverWantsMore
  <2> SUFFICES ASSUME HandshakeInv, at \in Reads
               PROVE  NeverWantsMore
    BY DEF NeverWantsMore
  <2>1. TypeOK /\ taken \in Nat /\ Len(buffer) \in Nat /\ want \in Nat
    BY TypeFacts DEF HandshakeInv
  <2>2. taken + Missing = Start + want
    BY <2>1 DEF Missing, Start
  <2>3. ASSUME NEW methods \in MethodList, told = <<>>, IsPrefix(Greeting(methods), script)
        PROVE  Start + want <= Len(Greeting(methods))
    <3> DEFINE k == Len(methods)
               hello == <<Version, k>>
    <3>1. methods \in Seq(Byte) /\ k \in 1 .. 255
      BY MessageAssumption DEF AllMethodLists
    <3> HIDE DEF k
    <3>2. hello \in Seq(Byte) /\ Len(hello) = 2 /\ hello[2] = k
      <4>1. Version \in Byte /\ k \in Byte
        BY <3>1 DEF Version, Byte
      <4> QED BY <4>1
    <3> HIDE DEF hello
    <3>3. Greeting(methods) = hello \o methods
      BY DEF Greeting, hello, k
    <3>4. /\ Greeting(methods) \in Seq(Byte) /\ Len(Greeting(methods)) = 2 + k
          /\ Greeting(methods)[2] = k
      <4>1. /\ hello \o methods \in Seq(Byte) /\ Len(hello \o methods) = Len(hello) + Len(methods)
            /\ \A i \in 1 .. Len(hello) : (hello \o methods)[i] = hello[i]
        <5>1. hello \in Seq(Byte) /\ methods \in Seq(Byte)
          BY <3>1, <3>2
        <5> QED BY <5>1, ConcatParts
      <4>2. 2 \in 1 .. Len(hello)
        BY <3>2
      <4> QED BY <3>1, <3>2, <3>3, <4>1, <4>2 DEF k
    <3>5. script[2] = k
      <4>1. SubSeq(Greeting(methods), 1, 2 + k) = SubSeq(script, 1, 2 + k) /\ 2 + k <= Len(script)
        BY <2>3, <3>4 DEF IsPrefix
      <4>2. 2 + k \in Nat /\ 2 \in 1 .. (2 + k)
        BY <3>1
      <4>3. \A i \in 1 .. (2 + k) : Greeting(methods)[i] \in Byte /\ script[i] \in Byte
        <5>1. /\ \A i \in 1 .. Len(script) : script[i] \in Byte
              /\ Len(script) \in Nat
          BY <2>1, TypeFacts
        <5> QED BY <3>4, <4>1, <4>2, <5>1, ElementOfSeq
      <4>4. SubSeq(Greeting(methods), 1, 2 + k)[2] = Greeting(methods)[2]
        BY <4>2, <4>3, SubSeqProperties
      <4>5. SubSeq(script, 1, 2 + k)[2] = script[2]
        BY <4>2, <4>3, SubSeqProperties
      <4> QED BY <3>4, <4>1, <4>4, <4>5
    <3>6. CASE at = "header"
      <4>1. Start = 0 /\ want = 2
        BY <3>6 DEF HandshakeInv, ReadsHeader
      <4> QED BY <3>1, <3>4, <4>1
    <3>7. CASE at = "methods"
      <4>1. Start = 2 /\ want = script[2]
        BY <3>7 DEF HandshakeInv, ReadsMethods
      <4> QED BY <3>4, <3>5, <4>1
    <3>8. CASE at \notin {"header", "methods"}
      <4>1. told = <<"NO_AUTH">>
        BY <3>8 DEF HandshakeInv, ReadsRequest, ReadsAddress, Reads
      <4> QED BY <2>3, <4>1
    <3> QED BY <3>6, <3>7, <3>8
  <2>4. ASSUME NEW m \in Message, Asked(m)
        PROVE  Start + want <= Len(Wire[m])
    <3>1. Names /\ Len(Wire[m]) = PortAt + 2
      BY <2>1, <2>4, AskedFacts
    <3>2. /\ script[2] \in 1 .. 255 /\ GreetingEnd = 2 + script[2]
          /\ AddressSize \in 1 .. 255
          /\ AddressAt = IF TypeCode = 3 THEN GreetingEnd + 5 ELSE GreetingEnd + 4
          /\ GreetingEnd \in Nat /\ AddressAt \in Nat /\ PortAt \in Nat
          /\ PortAt = AddressAt + AddressSize
      BY <3>1, AddressBounds
    <3>3. AddressAt >= GreetingEnd + 4 /\ (TypeCode = 3 => AddressAt = GreetingEnd + 5)
      BY <3>2
    <3>4. CASE at = "header"
      <4>1. Start = 0 /\ want = 2
        BY <3>4 DEF HandshakeInv, ReadsHeader
      <4> QED BY <3>1, <3>2, <4>1, SMTT(30)
    <3>5. CASE at = "methods"
      <4>1. Start = 2 /\ want = script[2]
        BY <3>5 DEF HandshakeInv, ReadsMethods
      <4>2. Start + want = GreetingEnd /\ GreetingEnd <= PortAt + 2
        BY <3>2, <3>3, <4>1
      <4> QED BY <3>1, <4>2
    <3>6. CASE at = "request"
      <4>1. Start = GreetingEnd /\ want = 4
        BY <3>6 DEF HandshakeInv, ReadsRequest
      <4>2. Start + want = GreetingEnd + 4 /\ GreetingEnd + 4 <= PortAt + 2
        BY <3>2, <3>3, <4>1
      <4> QED BY <3>1, <4>2
    <3>7. CASE at = "length"
      <4>1. TypeCode = 3 /\ Start = GreetingEnd + 4 /\ want = 1
        BY <3>7 DEF HandshakeInv, ReadsAddress
      <4>2. Start + want = AddressAt /\ AddressAt <= PortAt + 2
        BY <3>2, <3>3, <4>1
      <4> QED BY <3>1, <4>2
    <3>8. CASE at = "address"
      <4>1. Start = AddressAt /\ want = AddressSize
        BY <3>8 DEF HandshakeInv, ReadsAddress
      <4>2. Start + want = PortAt /\ PortAt <= PortAt + 2
        BY <3>2, <4>1
      <4> QED BY <3>1, <4>2
    <3>9. CASE at = "port"
      <4>1. Start = PortAt /\ want = 2
        BY <3>9 DEF HandshakeInv, ReadsAddress
      <4>2. Start + want = PortAt + 2 /\ PortAt + 2 <= PortAt + 2
        BY <3>2, <4>1
      <4> QED BY <3>1, <4>2
    <3> QED BY <3>4, <3>5, <3>6, <3>7, <3>8, <3>9 DEF Reads
  <2> QED BY <2>2, <2>3, <2>4 DEF NeverWantsMore
<1> QED BY <1>1, HandshakeInvariant, PTL

\* Whoever stays is told what was wrong: each answer negotiate_auth and
\* read_connect_request give is the one the bytes call for, and a message that
\* gets none is of another version.
THEOREM RefusalsAreExplainedProved == Spec => []RefusalsAreExplained
<1>1. HandshakeInv => RefusalsAreExplained
  <2> SUFFICES ASSUME HandshakeInv, at = "over", client = "open"
               PROVE  RefusalsAreExplained
    BY DEF RefusalsAreExplained
  <2>1. TypeOK /\ Over
    BY DEF HandshakeInv
  <2>2. outcome.kind = "accepted" => told = <<"NO_AUTH">>
    BY <2>1 DEF Over, Accepted
  <2>3. outcome.kind = "malformed" => told = <<"NO_AUTH", "GENERAL_FAILURE">>
    BY <2>1 DEF Over, MalformedSaid
  <2> DEFINE Explained ==
         \/ told = <<>> /\ script[1] # Version
         \/ told = <<"NO_ACCEPTABLE">> /\ ~Contains(SubSeq(script, 3, taken), NoAuth)
         \/ told = <<"NO_AUTH">> /\ script[taken - 3] # Version
         \/ told = <<"NO_AUTH", "COMMAND_NOT_SUPPORTED">> /\ script[taken - 2] # Connect
         \/ /\ told = <<"NO_AUTH", "ADDRESS_TYPE_NOT_SUPPORTED">>
            /\ script[taken] \notin {1, 3, 4}
  <2>4. ASSUME Refused PROVE Explained
    <3>1. CASE script[1] # Version /\ told = <<>>
      BY <3>1
    <3>2. CASE /\ Greets /\ script[GreetingEnd + 1] # Version
               /\ taken = GreetingEnd + 4 /\ told = <<"NO_AUTH">>
      <4>1. GreetingEnd \in Nat
        BY <3>2 DEF Greets, GreetingEnd
      <4>2. taken - 3 = GreetingEnd + 1
        BY <3>2, <4>1
      <4> QED BY <3>2, <4>2
    <3>3. ASSUME NEW reply \in Errors \ {"GENERAL_FAILURE"}, Reason(reply),
                 taken = ReceivedBefore(reply), told = Append(Said(reply), reply)
          PROVE  Explained
      <4>1. CASE reply = "NO_ACCEPTABLE"
        <5>1. NoMethod /\ taken = GreetingEnd
          BY <3>3, <4>1 DEF Reason, ReceivedBefore
        <5>2. told = <<"NO_ACCEPTABLE">>
          BY <3>3, <4>1 DEF Said
        <5> DEFINE n == script[2]
                   list == SubSeq(script, 2 + 1, 2 + n)
        <5>3. n \in Nat /\ taken = 2 + n
          BY <5>1 DEF NoMethod, GreetingEnd, Byte
        <5>4. script \in Seq(Byte) /\ Len(script) \in Nat /\ taken <= Len(script)
          BY <2>1, TypeFacts DEF StreamOK
        <5> HIDE DEF n
        <5>5. list \in Seq(Byte) /\ Len(list) = n /\ \A i \in 1 .. n : list[i] = script[2 + i]
          BY <5>3, <5>4, PartFacts
        <5> HIDE DEF list
        <5>6. ~ Contains(list, NoAuth)
          BY <5>1, <5>5 DEF NoMethod, Contains, n
        <5>7. list = SubSeq(script, 3, taken)
          BY <5>3 DEF list
        <5> QED BY <5>2, <5>6, <5>7
      <4>2. CASE reply = "COMMAND_NOT_SUPPORTED"
        <5>1. Greets /\ script[GreetingEnd + 2] # Connect /\ taken = GreetingEnd + 4
          BY <3>3, <4>2 DEF Reason, ReceivedBefore
        <5>2. told = <<"NO_AUTH", "COMMAND_NOT_SUPPORTED">>
          BY <3>3, <4>2, AppendOne DEF Said
        <5>3. GreetingEnd \in Nat
          BY <5>1 DEF Greets, GreetingEnd
        <5>4. taken - 2 = GreetingEnd + 2
          BY <5>1, <5>3
        <5> QED BY <5>1, <5>2, <5>4
      <4>3. CASE reply = "ADDRESS_TYPE_NOT_SUPPORTED"
        <5>1. TypeCode \notin {1, 3, 4} /\ taken = GreetingEnd + 4
          BY <3>3, <4>3 DEF Reason, ReceivedBefore
        <5>2. told = <<"NO_AUTH", "ADDRESS_TYPE_NOT_SUPPORTED">>
          BY <3>3, <4>3, AppendOne DEF Said
        <5>3. script[taken] = TypeCode
          BY <5>1 DEF TypeCode
        <5> QED BY <5>1, <5>2, <5>3
      <4> QED BY <4>1, <4>2, <4>3 DEF Errors, Reply
    <3> QED BY <2>4, <3>1, <3>2, <3>3 DEF Refused
  <2>5. outcome.kind = "refused" => Explained
    BY <2>1, <2>4 DEF Over
  <2> HIDE DEF Explained
  <2> QED BY <2>2, <2>3, <2>5 DEF RefusalsAreExplained, Explained
<1> QED BY <1>1, HandshakeInvariant, PTL

\* The message that a script with these parts spells out.
Spelled(type) ==
    [methods |-> SubSeq(script, 3, GreetingEnd),
     reserved |-> script[GreetingEnd + 3],
     address |-> [type |-> type, bytes |-> SubSeq(script, AddressAt + 1, PortAt)],
     port |-> PortRequested]

LEMMA SpelledFacts ==
    ASSUME TypeOK, Names, PortAt + 2 <= written, PortRequested # 0,
           NEW type \in AddressType, Code(type) = TypeCode
    PROVE  /\ Spelled(type) \in AnyMessage
           /\ Contains(Spelled(type).methods, NoAuth)
           /\ Len(WireOf(Spelled(type))) = PortAt + 2
           /\ \A i \in 1 .. PortAt + 2 : WireOf(Spelled(type))[i] = script[i]
           /\ Spelled(type).address.bytes = [i \in 1 .. AddressSize |-> script[AddressAt + i]]
<1> DEFINE m == Spelled(type)
           k == script[2]
           l == AddressSize
           a == AddressAt
           g == GreetingEnd
           methods == SubSeq(script, 2 + 1, 2 + k)
           bytes == SubSeq(script, a + 1, a + l)
           w == WireOf(m)
<1>1. /\ script \in Seq(Byte) /\ Len(script) \in Nat
      /\ written \in Nat /\ written <= Len(script)
      /\ \A i \in 1 .. Len(script) : script[i] \in Byte
  BY TypeFacts
<1>2. /\ k \in 1 .. 255 /\ g = 2 + k /\ l \in 1 .. 255
      /\ (TypeCode = 3 => a = g + 5) /\ (TypeCode # 3 => a = g + 4)
      /\ g \in Nat /\ a \in Nat /\ PortAt = a + l /\ PortAt \in Nat
  BY AddressBounds
<1>3. /\ Greets /\ Connects /\ script[g + 1] = Version /\ script[g + 2] = Connect
      /\ script[1] = Version /\ \E i \in 1 .. k : script[2 + i] = NoAuth
  BY DEF Names, Connects, Greets
<1>4. script[g + 4] = TypeCode
  BY DEF TypeCode
<1>5. /\ TypeCode = 3 => script[g + 5] = l
      /\ (TypeCode # 3 => l = IF TypeCode = 1 THEN 4 ELSE 16)
  BY DEF AddressSize
<1>6. PortRequested = 256 * script[PortAt + 1] + script[PortAt + 2]
  BY DEF PortRequested
<1>7. /\ m.methods = methods /\ m.reserved = script[g + 3]
      /\ m.address = [type |-> type, bytes |-> bytes]
      /\ m.address.type = type /\ m.address.bytes = bytes /\ m.port = PortRequested
  BY <1>2 DEF Spelled
<1>8. m = [methods |-> methods, reserved |-> script[g + 3],
           address |-> [type |-> type, bytes |-> bytes], port |-> PortRequested]
  BY <1>2 DEF Spelled
<1> HIDE DEF m, k, l, a, g
<1>9. a >= g + 4 /\ a + l + 2 <= Len(script) /\ a + l + 2 <= written
  BY <1>1, <1>2
<1>10. ASSUME NEW i \in Nat, i # 0, i <= a + l + 2
       PROVE  script[i] \in Byte
  <2>1. i \in 1 .. Len(script)
    <3>1. a + l + 2 \in Nat
      BY <1>2
    <3> QED BY <1>1, <1>9, <1>10, <3>1
  <2> QED BY <1>1, <2>1
<1>11. methods \in Seq(Byte) /\ Len(methods) = k /\ \A i \in 1 .. k : methods[i] = script[2 + i]
  <2>1. 2 \in Nat /\ k \in Nat /\ 2 + k <= Len(script)
    BY <1>1, <1>2, <1>9
  <2> QED BY <1>1, <2>1, PartFacts
<1>12. bytes \in Seq(Byte) /\ Len(bytes) = l /\ \A i \in 1 .. l : bytes[i] = script[a + i]
  <2>1. a \in Nat /\ l \in Nat /\ a + l <= Len(script)
    BY <1>1, <1>2, <1>9
  <2> QED BY <1>1, <2>1, PartFacts
<1> HIDE DEF methods, bytes
<1>13. methods \in AllMethodLists
  BY <1>2, <1>11 DEF AllMethodLists
<1>14. (type = "DOMAIN" <=> TypeCode = 3) /\ (type # "DOMAIN" => l = Size(type))
  BY <1>5, CodeFacts DEF AddressType, Size
<1>15. [type |-> type, bytes |-> bytes] \in AllAddresses
  <2>1. Len(bytes) \in IF type = "DOMAIN" THEN 1 .. 255 ELSE {Size(type)}
    BY <1>2, <1>12, <1>14
  <2> QED BY <1>12, <2>1 DEF AllAddresses
<1>16. script[g + 3] \in Byte
  <2>1. g + 3 \in Nat /\ g + 3 # 0 /\ g + 3 <= a + l + 2
    BY <1>2, <1>9
  <2> QED BY <1>10, <2>1
<1>17. /\ script[PortAt + 1] \in Byte /\ script[PortAt + 2] \in Byte
  <2>1. /\ PortAt + 1 \in Nat /\ PortAt + 1 # 0 /\ PortAt + 1 <= a + l + 2
        /\ PortAt + 2 \in Nat /\ PortAt + 2 # 0 /\ PortAt + 2 <= a + l + 2
    BY <1>2
  <2> QED BY <1>10, <2>1
<1>18. PortRequested \in AllPortNumbers
  BY <1>6, <1>17, PortFacts
<1>19. m \in AnyMessage
  BY <1>8, <1>13, <1>15, <1>16, <1>18 DEF AnyMessage
<1>20. Contains(m.methods, NoAuth)
  BY <1>3, <1>7, <1>11 DEF Contains
<1>21. PortRequested \div 256 = script[PortAt + 1] /\ PortRequested % 256 = script[PortAt + 2]
  BY <1>6, <1>17, BytesOfPort
<1>22. Offered(m) = k /\ NameAt(m) = a /\ NameSize(m) = l
  <2>1. Offered(m) = k /\ NameSize(m) = l
    BY <1>7, <1>11, <1>12 DEF Offered, NameSize
  <2>2. NameAt(m) = a
    BY <1>2, <1>7, <1>14, <2>1 DEF NameAt
  <2> QED BY <2>1, <2>2
<1>23. /\ Len(w) = a + l + 2 /\ w[1] = Version /\ w[2] = k
       /\ \A i \in 1 .. k : w[2 + i] = m.methods[i]
       /\ w[2 + k + 1] = Version /\ w[2 + k + 2] = Connect
       /\ w[2 + k + 3] = m.reserved /\ w[2 + k + 4] = Code(m.address.type)
       /\ m.address.type = "DOMAIN" => w[2 + k + 5] = l
       /\ \A i \in 1 .. l : w[a + i] = m.address.bytes[i]
       /\ w[a + l + 1] = m.port \div 256 /\ w[a + l + 2] = m.port % 256
  BY <1>19, <1>22, WireFacts, SMTT(30), ZenonT(30)
<1> HIDE DEF w
<1>24. ASSUME NEW i \in 1 .. (a + l + 2)
       PROVE  w[i] = script[i]
  <2>1. CASE i <= 2
    <3>1. i = 1 \/ i = 2
      BY <2>1
    <3> QED BY <1>3, <1>23, <3>1 DEF k
  <2>2. CASE i > 2 /\ i <= 2 + k
    <3>1. i - 2 \in 1 .. k /\ 2 + (i - 2) = i
      BY <1>2, <2>2
    <3> QED BY <1>7, <1>11, <1>23, <3>1
  <2>3. CASE i > 2 + k /\ i <= a
    <3>1. i = 2 + k + 1 \/ i = 2 + k + 2 \/ i = 2 + k + 3 \/ i = 2 + k + 4
          \/ (i = 2 + k + 5 /\ type = "DOMAIN")
      BY <1>2, <1>14, <2>3
    <3>2. /\ script[2 + k + 1] = Version /\ script[2 + k + 2] = Connect
          /\ script[2 + k + 3] = m.reserved /\ script[2 + k + 4] = Code(m.address.type)
      BY <1>2, <1>3, <1>4, <1>7
    <3>3. type = "DOMAIN" => script[2 + k + 5] = l /\ w[2 + k + 5] = l
      BY <1>2, <1>5, <1>7, <1>14, <1>23
    <3>4. CASE i = 2 + k + 1
      BY <1>23, <3>2, <3>4
    <3>5. CASE i = 2 + k + 2
      BY <1>23, <3>2, <3>5
    <3>6. CASE i = 2 + k + 3
      BY <1>23, <3>2, <3>6
    <3>7. CASE i = 2 + k + 4
      BY <1>23, <3>2, <3>7
    <3>8. CASE i = 2 + k + 5 /\ type = "DOMAIN"
      BY <3>3, <3>8
    <3> QED BY <3>1, <3>4, <3>5, <3>6, <3>7, <3>8
  <2>4. CASE i > a /\ i <= a + l
    <3>1. i - a \in 1 .. l /\ a + (i - a) = i
      BY <1>2, <2>4
    <3> QED BY <1>7, <1>12, <1>23, <3>1
  <2>5. CASE i > a + l
    <3>1. i = a + l + 1 \/ i = a + l + 2
      BY <1>2, <2>5
    <3>2. /\ w[a + l + 1] = m.port \div 256 /\ w[a + l + 2] = m.port % 256
          /\ m.port \div 256 = script[PortAt + 1] /\ m.port % 256 = script[PortAt + 2]
      BY <1>7, <1>21, <1>23
    <3>3. PortAt + 1 = a + l + 1 /\ PortAt + 2 = a + l + 2
      BY <1>2
    <3> QED BY <3>1, <3>2, <3>3
  <2> QED BY <1>2, <2>1, <2>2, <2>3, <2>4, <2>5
<1>25. bytes = [i \in 1 .. l |-> script[a + i]]
  BY <1>12
<1>26. PortAt + 2 = a + l + 2
  BY <1>2
<1> QED BY <1>7, <1>19, <1>20, <1>23, <1>24, <1>25, <1>26 DEF m, w, l, a

\* An accepted request is one the client wrote in full, its bytes and no more
\* are gone from the stream, and what the caller of read_connect_request gets
\* is its address and its port.  The hypothesis says that the messages the
\* property compares with are all that SOCKS5 allows.
THEOREM AcceptsWhatWasAskedProved ==
    ASSUME MethodList = AllMethodLists, Address = AllAddresses,
           PortNumber = AllPortNumbers, Reserved = Byte
    PROVE  Spec => []AcceptsWhatWasAsked
<1>1. HandshakeInv => AcceptsWhatWasAsked
  <2> SUFFICES ASSUME HandshakeInv, outcome.kind = "accepted"
               PROVE  \E m \in Message :
                        /\ Asked(m) /\ taken = Len(Wire[m])
                        /\ outcome.port = m.port
                        /\ outcome.address.type = m.address.type
                        /\ outcome.address.bytes = Decoded(m.address.type, m.address.bytes)
    BY DEF AcceptsWhatWasAsked
  <2> DEFINE type == outcome.address.type
             m == Spelled(type)
             w == WireOf(m)
             arrived == SubSeq(script, 1, written)
             n == PortAt + 2
  <2>1. TypeOK /\ Accepted
    BY DEF HandshakeInv, Over
  <2>2. /\ Names /\ PortRequested # 0 /\ taken = n
        /\ outcome.port = PortRequested
        /\ type \in AddressType /\ Code(type) = TypeCode
        /\ outcome.address.bytes =
             Decoded(type, [i \in 1 .. AddressSize |-> script[AddressAt + i]])
    BY <2>1 DEF Accepted
  <2>3. /\ script \in Seq(Byte) /\ Len(script) \in Nat
        /\ written \in Nat /\ written <= Len(script) /\ taken \in Nat /\ taken <= written
        /\ \A i \in 1 .. Len(script) : script[i] \in Byte
    BY <2>1, TypeFacts
  <2>4. n \in Nat /\ n <= written /\ PortAt + 2 <= written
    BY <2>2, <2>3
  <2>5. /\ m \in AnyMessage /\ Contains(m.methods, NoAuth)
        /\ Len(w) = PortAt + 2 /\ \A i \in 1 .. PortAt + 2 : w[i] = script[i]
        /\ m.address.bytes = [i \in 1 .. AddressSize |-> script[AddressAt + i]]
    BY <2>1, <2>2, <2>4, SpelledFacts
  <2>6. m \in Message /\ Wire[m] = w
    <3>1. Message = AnyMessage
      BY DEF Message, AnyMessage
    <3> QED BY <2>5, <3>1 DEF Wire, WireOf
  <2>7. m.port = PortRequested /\ m.address.type = type
    BY DEF Spelled
  <2> HIDE DEF n, w
  <2>8. /\ arrived \in Seq(Byte) /\ Len(arrived) = written
        /\ \A i \in 1 .. written : arrived[i] = script[i]
    BY <2>3, SubSeqProperties
  <2>9. IsPrefix(w, arrived)
    <3>1. w \in Seq(Byte) /\ Len(w) = n /\ \A i \in 1 .. n : w[i] = script[i]
      BY <2>5, WireFacts DEF n, w
    <3> HIDE DEF arrived
    <3>2. \A i \in 1 .. n : i \in 1 .. written /\ w[i] = arrived[i] /\ w[i] \in Byte
      BY <2>4, <2>3, <2>8, <3>1, ElementOfSeq
    <3>3. /\ SubSeq(w, 1, n) \in Seq(Byte) /\ Len(SubSeq(w, 1, n)) = n
          /\ \A i \in 1 .. n : SubSeq(w, 1, n)[i] = w[i]
      BY <2>4, <3>2, SubSeqProperties
    <3>4. /\ SubSeq(arrived, 1, n) \in Seq(Byte) /\ Len(SubSeq(arrived, 1, n)) = n
          /\ \A i \in 1 .. n : SubSeq(arrived, 1, n)[i] = arrived[i]
      BY <2>4, <3>2, SubSeqProperties
    <3> DEFINE s1 == SubSeq(w, 1, n)
               s2 == SubSeq(arrived, 1, n)
    <3> HIDE DEF s1, s2
    <3>5. s1 \in Seq(Byte) /\ s2 \in Seq(Byte) /\ Len(s1) = Len(s2)
          /\ \A i \in 1 .. Len(s1) : s1[i] = s2[i]
      BY <3>2, <3>3, <3>4 DEF s1, s2
    <3>6. s1 = s2
      BY <3>5, SeqEqual
    <3> QED BY <2>4, <2>8, <3>1, <3>6 DEF IsPrefix, s1, s2
  <2>10. Asked(m) /\ taken = Len(Wire[m])
    BY <2>2, <2>5, <2>6, <2>9 DEF Asked, n
  <2> QED BY <2>2, <2>5, <2>6, <2>7, <2>10
<1> QED BY <1>1, HandshakeInvariant, PTL
=============================================================================
