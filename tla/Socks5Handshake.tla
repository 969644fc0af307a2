-------------------------- MODULE Socks5Handshake --------------------------
(***************************************************************************)
(* socks5.py under the handshake timer of server.py: the greeting and the  *)
(* CONNECT request, read from a stream that hands over any part of what has *)
(* arrived, from a client that may stop, leave or run ahead at any byte.   *)
(*                                                                         *)
(* This is the inside of the phase "handshake" of ProxyServer: accepted is *)
(* its RequestAllowed or RequestDenied, malformed its RequestMalformed,    *)
(* timeout its HandshakeTimeout, and refused and gone its HandshakeAborts. *)
(***************************************************************************)
EXTENDS Integers, Sequences, SequencesExt

CONSTANTS
    Script,      \* what a client may write, first to last byte
    MethodList,  \* greetings and requests that SOCKS5 allows, to compare with
    Reserved,
    Address,
    PortNumber

Byte == 0 .. 255
Version == 5
NoAuth == 0
Connect == 1
AddressType == {"IPV4", "DOMAIN", "IPV6"}
Code(type) == CASE type = "IPV4" -> 1 [] type = "DOMAIN" -> 3 [] type = "IPV6" -> 4
TypeWith(code) == CHOOSE type \in AddressType : Code(type) = code
Size(type) == IF type = "IPV4" THEN 4 ELSE 16

ASSUME ScriptAssumption == Script \subseteq Seq(Byte)

\* What SOCKS5 allows a client to write.
AllMethodLists == {list \in Seq(Byte) : Len(list) \in 1 .. 255}
AllAddresses == {a \in [type : AddressType, bytes : Seq(Byte)] :
                    Len(a.bytes) \in IF a.type = "DOMAIN" THEN 1 .. 255 ELSE {Size(a.type)}}
MaxPort == 65535
AllPortNumbers == 1 .. MaxPort

ASSUME MessageAssumption ==
    /\ MethodList \subseteq AllMethodLists /\ Address \subseteq AllAddresses
    /\ PortNumber \subseteq AllPortNumbers /\ Reserved \subseteq Byte

VARIABLES
    script,   \* what this client writes
    written,  \* how much of it has reached the proxy
    client,   \* "open", "finished" (end of file) or "reset"
    taken,    \* how much of it the proxy has received
    at,       \* what the handler awaits
    want,     \* the argument of the current read_exact
    buffer,   \* what that call has so far
    address,  \* the address, once read
    pending,  \* the reply being sent, and what follows it
    told,     \* replies the client was sent
    outcome   \* how the handshake ended

network == <<script, written, client>>
vars == <<network, taken, at, want, buffer, address, pending, told, outcome>>

Reads == {"header", "methods", "request", "length", "address", "port"}
Reply == {"NO_AUTH", "NO_ACCEPTABLE", "COMMAND_NOT_SUPPORTED",
          "ADDRESS_TYPE_NOT_SUPPORTED", "GENERAL_FAILURE"}
Ending == {"refused", "malformed", "gone", "timeout"}
None == [type |-> "none"]

AddressOrNone == [type : AddressType, bytes : Seq(Int)] \cup {None}
PendingOK(p) == p.reply \in Reply \cup {"none"} /\ p.next \in Ending \cup {"request"}
OutcomeOK(o) ==
    \/ o.kind \in Ending \cup {"pending"}
    \/ o.kind = "accepted" /\ o.port \in AllPortNumbers

StreamOK ==
    /\ script \in Script /\ written \in 0 .. Len(script) /\ taken \in 0 .. written
    /\ client \in {"open", "finished", "reset"}

TypeOK ==
    /\ StreamOK
    /\ at \in Reads \cup {"answering", "over"}
    /\ want \in 0 .. 255 /\ buffer \in Seq(Byte) /\ Len(buffer) <= want
    /\ address \in AddressOrNone
    /\ PendingOK(pending) /\ told \in Seq(Reply) /\ OutcomeOK(outcome)

Init ==
    /\ script \in Script /\ written = 0 /\ client = "open"
    /\ taken = 0
    /\ at = "header" /\ want = 2 /\ buffer = <<>>
    /\ address = None
    /\ pending = [reply |-> "none", next |-> "request"]
    /\ told = <<>>
    /\ outcome = [kind |-> "pending"]

----------------------------------------------------------------------------
(* The client *)

ClientWrites ==
    /\ client = "open" /\ written < Len(script)
    /\ written' = written + 1
    /\ UNCHANGED <<script, client, taken, at, want, buffer, address, pending, told, outcome>>

ClientLeaves ==
    /\ client = "open"
    /\ client' \in {"finished", "reset"}
    /\ UNCHANGED <<script, written, taken, at, want, buffer, address, pending, told, outcome>>

----------------------------------------------------------------------------
(* Moves of the handler *)

Await(read, n) ==
    /\ at' = read /\ want' = n /\ buffer' = <<>>
    /\ UNCHANGED <<pending, outcome>>

Answer(reply, next) ==
    /\ at' = "answering" /\ pending' = [reply |-> reply, next |-> next]
    /\ want' = 0 /\ buffer' = <<>>
    /\ UNCHANGED outcome

Return(result) ==
    /\ at' = "over" /\ outcome' = result
    /\ want' = 0 /\ buffer' = <<>>
    /\ UNCHANGED pending

End(kind) == Return([kind |-> kind])

Missing == want - Len(buffer)

\* A ValueError: the handler answers after the timer's block.
Malformed == Answer("GENERAL_FAILURE", "malformed")

----------------------------------------------------------------------------
(* read_exact *)

\* receive(remaining) returns some of what is there.
ReceivePart ==
    /\ at \in Reads
    /\ \E k \in 1 .. written - taken :
         /\ k < Missing
         /\ buffer' = buffer \o SubSeq(script, taken + 1, taken + k)
         /\ taken' = taken + k
    /\ UNCHANGED <<network, at, want, address, pending, told, outcome>>

\* Mutant: the read takes a byte more than is missing, if there is one.
ReadsBeyond(read) ==
    /\ at = read /\ written - taken >= Missing
    /\ taken' = IF written - taken > Missing THEN taken + Missing + 1 ELSE taken + Missing
    /\ UNCHANGED <<network, told>>

\* The rest of what the read asked for has come.
Completed(read) ==
    /\ at = read /\ written - taken >= Missing
    /\ taken' = taken + Missing
    /\ UNCHANGED <<network, told>>

Bytes == buffer \o SubSeq(script, taken + 1, taken + Missing)

\* End of file, or a reset, which may discard what has arrived.
ReceiveRaises ==
    /\ at \in Reads
    /\ client = "reset" \/ (client = "finished" /\ taken = written)
    /\ End("gone")
    /\ UNCHANGED <<network, taken, address, told>>

----------------------------------------------------------------------------
(* negotiate_auth *)

\* With no methods there is nothing to read and nothing to accept.
HeaderRead ==
    /\ Completed("header")
    /\ \/ Bytes[1] # Version /\ End("refused")
       \/ Bytes[1] = Version /\ Bytes[2] = 0 /\ Answer("NO_ACCEPTABLE", "refused")
       \/ Bytes[1] = Version /\ Bytes[2] # 0 /\ Await("methods", Bytes[2])
    /\ UNCHANGED address

\* Mutant: only the first method counts.
FirstMethodOnly ==
    /\ Completed("methods")
    /\ IF Bytes[1] = NoAuth THEN Answer("NO_AUTH", "request")
                            ELSE Answer("NO_ACCEPTABLE", "refused")
    /\ UNCHANGED address

MethodsRead ==
    /\ Completed("methods")
    /\ IF Contains(Bytes, NoAuth) THEN Answer("NO_AUTH", "request")
                                  ELSE Answer("NO_ACCEPTABLE", "refused")
    /\ UNCHANGED address

----------------------------------------------------------------------------
(* read_connect_request *)

AwaitAddress(code) ==
    IF \A type \in AddressType : Code(type) # code
    THEN Answer("ADDRESS_TYPE_NOT_SUPPORTED", "refused") /\ UNCHANGED address
    ELSE LET type == TypeWith(code)
         IN  /\ address' = [type |-> type, bytes |-> <<>>]
             /\ IF type = "DOMAIN" THEN Await("length", 1) ELSE Await("address", Size(type))

\* Mutant: a request for another command is dropped without a reply.
UnsupportedUnanswered ==
    /\ Completed("request")
    /\ IF Bytes[1] # Version \/ Bytes[2] # Connect THEN End("refused") /\ UNCHANGED address
                                                   ELSE AwaitAddress(Bytes[4])

RequestRead ==
    /\ Completed("request")
    /\ \/ Bytes[1] # Version /\ End("refused") /\ UNCHANGED address
       \/ /\ Bytes[1] = Version /\ Bytes[2] # Connect
          /\ Answer("COMMAND_NOT_SUPPORTED", "refused") /\ UNCHANGED address
       \/ Bytes[1] = Version /\ Bytes[2] = Connect /\ AwaitAddress(Bytes[4])

\* Mutant: the length is taken to leave out a last byte.
LengthOffByOne ==
    /\ Completed("length")
    /\ IF Bytes[1] = 0 THEN Malformed ELSE Await("address", Bytes[1] + 1)
    /\ UNCHANGED address

LengthRead ==
    /\ Completed("length")
    /\ IF Bytes[1] = 0 THEN Malformed ELSE Await("address", Bytes[1])
    /\ UNCHANGED address

\* decode("ascii", errors="replace"): a byte that is no ASCII becomes U+FFFD.
\* Printing an IP address loses nothing.
Decoded(type, bytes) ==
    [i \in DOMAIN bytes |->
        IF type = "DOMAIN" /\ bytes[i] > 127 THEN 65533 ELSE bytes[i]]

AddressRead ==
    /\ Completed("address")
    /\ address' = [address EXCEPT !.bytes = Decoded(address.type, Bytes)]
    /\ Await("port", 2)

PortRead ==
    /\ Completed("port")
    /\ LET port == 256 * Bytes[1] + Bytes[2]
       IN  IF port = 0 THEN Malformed
           ELSE Return([kind |-> "accepted", address |-> address, port |-> port])
    /\ UNCHANGED address

----------------------------------------------------------------------------
(* Replies and the timer *)

\* A send that is cut off may have got its few bytes out.
MayBeTold == told' \in {told} \cup (IF at = "answering" THEN {Append(told, pending.reply)} ELSE {})

ReplySent ==
    /\ at = "answering" /\ client # "reset"
    /\ told' = Append(told, pending.reply)
    /\ IF pending.next = "request" THEN Await("request", 4) ELSE End(pending.next)
    /\ UNCHANGED <<network, taken, address>>

\* The exception of a send to a client that is gone; swallowed after a
\* malformed request.
ReplyRaises ==
    /\ at = "answering" /\ client # "open"
    /\ End(IF pending.next = "malformed" THEN "malformed" ELSE "gone")
    /\ MayBeTold
    /\ UNCHANGED <<network, taken, address>>

\* fail_after(5.0), around everything but the answer to a malformed request.
HandshakeTimeout ==
    /\ at \in Reads \/ (at = "answering" /\ pending.next # "malformed")
    /\ End("timeout")
    /\ MayBeTold
    /\ UNCHANGED <<network, taken, address>>

----------------------------------------------------------------------------
Next ==
    \/ ClientWrites \/ ClientLeaves
    \/ ReceivePart \/ ReceiveRaises
    \/ HeaderRead \/ MethodsRead
    \/ RequestRead \/ LengthRead \/ AddressRead \/ PortRead
    \/ ReplySent \/ ReplyRaises \/ HandshakeTimeout

Spec == Init /\ [][Next]_vars

----------------------------------------------------------------------------
(* The messages as a client writes them, whole.  What it puts in the        *)
(* reserved byte makes no difference.                                       *)

Message == [methods : MethodList, reserved : Reserved, address : Address, port : PortNumber]

Greeting(methods) == <<Version, Len(methods)>> \o methods

Request(reserved, a, port) ==
    <<Version, Connect, reserved, Code(a.type)>>
    \o (IF a.type = "DOMAIN" THEN <<Len(a.bytes)>> ELSE <<>>) \o a.bytes
    \o <<port \div 256, port % 256>>

Wire == [m \in Message |-> Greeting(m.methods) \o Request(m.reserved, m.address, m.port)]

\* The client has written all of m.
Asked(m) ==
    Contains(m.methods, NoAuth) /\ IsPrefix(Wire[m], SubSeq(script, 1, written))

\* However the bytes are cut up, the request that is served is the one the
\* client wrote, and exactly its bytes are gone from the stream: what the
\* client sends ahead, before it is told of success, is left for the relay.
AcceptsWhatWasAsked ==
    outcome.kind = "accepted" =>
        \E m \in Message :
            /\ Asked(m) /\ taken = Len(Wire[m])
            /\ outcome.port = m.port
            /\ outcome.address.type = m.address.type
            /\ outcome.address.bytes = Decoded(m.address.type, m.address.bytes)

\* A client that asked as SOCKS5 allows is turned away only if it leaves or is
\* too slow, never for what it wrote.
RefusesOnlyBadRequests ==
    outcome.kind \in {"refused", "malformed"} => ~ \E m \in Message : Asked(m)

\* The proxy never waits for a byte the client need not write: while it reads
\* the greeting none beyond it, and none beyond the request.  Otherwise each
\* would wait for the other until the timer fires.
NeverWantsMore ==
    at \in Reads =>
        /\ \A methods \in MethodList :
             told = <<>> /\ IsPrefix(Greeting(methods), script)
                 => taken + Missing <= Len(Greeting(methods))
        /\ \A m \in Message : Asked(m) => taken + Missing <= Len(Wire[m])

\* What a client that stayed was told explains how it ended: acceptance of no
\* authentication before any word on the request, and one error at most, which
\* names the reason.  Only a message of another version gets no answer.
RefusalsAreExplained ==
    at = "over" /\ client = "open" =>
        CASE outcome.kind = "accepted" -> told = <<"NO_AUTH">>
          [] outcome.kind = "malformed" -> told = <<"NO_AUTH", "GENERAL_FAILURE">>
          [] outcome.kind = "refused" ->
               \/ told = <<>> /\ script[1] # Version
               \/ told = <<"NO_ACCEPTABLE">> /\ ~Contains(SubSeq(script, 3, taken), NoAuth)
               \/ told = <<"NO_AUTH">> /\ script[taken - 3] # Version
               \/ told = <<"NO_AUTH", "COMMAND_NOT_SUPPORTED">> /\ script[taken - 2] # Connect
               \/ /\ told = <<"NO_AUTH", "ADDRESS_TYPE_NOT_SUPPORTED">>
                  /\ script[taken] \notin {1, 3, 4}
          [] OTHER -> TRUE
=============================================================================
