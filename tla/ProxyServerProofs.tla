------------------------- MODULE ProxyServerProofs -------------------------
(***************************************************************************)
(* Theorems about ProxyServer, for every set of connections, every cap and *)
(* every length of the history.                                            *)
(***************************************************************************)
EXTENDS ProxyServer, SequenceFacts

----------------------------------------------------------------------------
(* The operations of the tracker keep its variables well typed. *)

LEMMA OpenConnectionType ==
    ASSUME TrackerTypeOK, NEW c \in Conn, OpenConnection(c)
    PROVE  TrackerTypeOK'
<1>1. stats' \in Stats
  <2>1. stats \in Stats /\ stats' = [stats EXCEPT !.connections = @ + 1]
    BY DEF TrackerTypeOK, OpenConnection
  <2>2. QED
    BY <2>1 DEF Stats
<1>2. status' \in [Conn -> Status]
  BY DEF TrackerTypeOK, OpenConnection, Status, Live
<1>3. QED
  BY <1>1, <1>2 DEF TrackerTypeOK, OpenConnection

LEMMA ActivateType ==
    ASSUME TrackerTypeOK, NEW c \in Conn, Activate(c)
    PROVE  TrackerTypeOK'
BY DEF TrackerTypeOK, Activate, Status, Live

LEMMA AddToHistoryType ==
    ASSUME history \in Seq(Conn), NEW c \in Conn
    PROVE  AddToHistory(c) \in Seq(Conn)
BY MaxHistoryAssumption DEF AddToHistory

LEMMA DenyType ==
    ASSUME TrackerTypeOK, NEW c \in Conn, Deny(c)
    PROVE  TrackerTypeOK'
<1>1. stats' \in Stats
  <2>1. stats \in Stats /\ stats' = [stats EXCEPT !.denied = @ + 1]
    BY DEF TrackerTypeOK, Deny
  <2>2. QED
    BY <2>1 DEF Stats
<1>2. status' \in [Conn -> Status]
  BY DEF TrackerTypeOK, Deny, Status, Ended
<1>3. QED
  BY <1>1, <1>2, AddToHistoryType DEF TrackerTypeOK, Deny

LEMMA CloseType ==
    ASSUME TrackerTypeOK, NEW c \in Conn, NEW o \in Ended, Close(c, o)
    PROVE  TrackerTypeOK'
<1>1. counted[c]["up"] \in Nat /\ counted[c]["down"] \in Nat
  BY DEF TrackerTypeOK, Dir
<1>2. stats' \in Stats
  <2> DEFINE u == counted[c]["up"]
             v == counted[c]["down"]
  <2>1. stats \in Stats
    BY DEF TrackerTypeOK
  <2>2. stats' = [stats EXCEPT !.bytes = @ + u + v, !.up = @ + u, !.down = @ + v]
    BY DEF Close
  <2>3. u \in Nat /\ v \in Nat
    BY <1>1
  <2> HIDE DEF u, v
  <2>4. stats.bytes + u + v \in Nat /\ stats.up + u \in Nat /\ stats.down + v \in Nat
    BY <2>1, <2>3 DEF Stats
  <2>5. QED
    BY <2>1, <2>2, <2>4 DEF Stats
<1>3. status' \in [Conn -> Status]
  BY DEF TrackerTypeOK, Close, Status
<1>4. QED
  BY <1>2, <1>3, AddToHistoryType DEF TrackerTypeOK, Close

LEMMA CountChunkType ==
    ASSUME TrackerTypeOK, NEW c \in Conn, NEW d \in Dir, CountChunk(c, d)
    PROVE  TrackerTypeOK'
BY DEF TrackerTypeOK, CountChunk

LEMMA SoftResetType ==
    ASSUME TrackerTypeOK, SoftReset
    PROVE  TrackerTypeOK'
<1>1. Cardinality(active) \in Nat
  BY ConnAssumption, FS_Subset, FS_CardinalityType DEF TrackerTypeOK
<1>2. stats' \in Stats
  BY <1>1 DEF TrackerTypeOK, SoftReset, Stats
<1>3. QED
  BY <1>2 DEF TrackerTypeOK, SoftReset

LEMMA TrackerUnchangedType ==
    ASSUME TrackerTypeOK, UNCHANGED trackerVars
    PROVE  TrackerTypeOK'
BY DEF TrackerTypeOK, trackerVars

----------------------------------------------------------------------------
(* Type correctness *)

USE DEF relayVars, socketVars, serveVars, Goto

\* Steps that leave the tracker alone and move one handler.
LEMMA ServerType ==
    ASSUME TypeOK, Server
    PROVE  TypeOK'
<1>1. CASE Bind
  BY <1>1, TrackerUnchangedType DEF TypeOK, Bind, Serving
<1>2. CASE BindFails
  BY <1>2, TrackerUnchangedType DEF TypeOK, BindFails, Serving
<1>3. CASE Stop
  BY <1>3, TrackerUnchangedType DEF TypeOK, Stop
<1>4. CASE AcceptFails
  BY <1>4, TrackerUnchangedType DEF TypeOK, AcceptFails, Serving
<1>5. CASE ServeReturns
  BY <1>5, TrackerUnchangedType DEF TypeOK, ServeReturns, Serving
<1>6. CASE Reset
  BY <1>6, SoftResetType DEF TypeOK, Reset, serverVars
<1>7. QED
  BY <1>1, <1>2, <1>3, <1>4, <1>5, <1>6 DEF Server

LEMMA HandlerType ==
    ASSUME TypeOK, NEW c \in Conn, HandlerStep(c)
    PROVE  TypeOK'
<1> USE DEF TypeOK, Phase, Answer, Refusal
<1>1. CASE Accept(c)
  BY <1>1, TrackerUnchangedType DEF Accept
<1>2. CASE AcquireSlot(c)
  BY <1>2, TrackerUnchangedType DEF AcquireSlot
<1>3. CASE HandshakeAborts(c) \/ HandshakeTimeout(c)
  BY <1>3, TrackerUnchangedType DEF HandshakeAborts, HandshakeTimeout
<1>4. CASE RequestMalformed(c)
  BY <1>4, TrackerUnchangedType DEF RequestMalformed
<1>5. CASE RequestDenied(c)
  BY <1>5, OpenConnectionType DEF RequestDenied
<1>6. CASE RequestAllowed(c)
  BY <1>6, OpenConnectionType DEF RequestAllowed
<1>7. CASE Resolved(c)
  BY <1>7, TrackerUnchangedType DEF Resolved
<1>8. CASE ResolverRaises(c)
  BY <1>8, TrackerUnchangedType DEF ResolverRaises
<1>9. CASE Dialed(c)
  BY <1>9, TrackerUnchangedType DEF Dialed
<1>10. CASE DialTimeout(c) \/ \E why \in Refusal : ConnectFails(c, why)
  <2>1. PICK why \in Refusal : ConnectFails(c, why)
    BY <1>10 DEF DialTimeout
  <2>2. QED
    BY <2>1, TrackerUnchangedType DEF ConnectFails
<1>11. CASE DeniedReplied(c)
  BY <1>11, DenyType DEF DeniedReplied, ReplyDelivered
<1>12. CASE FailureReplied(c)
  BY <1>12, CloseType DEF FailureReplied, ReplyDelivered, Ended
<1>13. CASE MalformedReplied(c)
  BY <1>13, TrackerUnchangedType DEF MalformedReplied, ReplyDelivered
<1>14. CASE ClientLeftBeforeTunnel(c)
  BY <1>14, CloseType DEF ClientLeftBeforeTunnel, Ended
<1>15. CASE TunnelOpens(c)
  BY <1>15, ActivateType DEF TunnelOpens
<1>16. CASE StartPipes(c)
  BY <1>16, TrackerUnchangedType DEF StartPipes, Pipe
<1>17. CASE Kill(c)
  BY <1>17, TrackerUnchangedType DEF Kill
<1>18. CASE RelayCloses(c) \/ RelayFails(c) \/ RelayKilled(c)
  <2>1. PICK o \in Ended : LeaveRelay(c, o)
    BY <1>18 DEF RelayCloses, RelayFails, RelayKilled, Ended
  <2>2. QED
    BY <2>1, CloseType DEF LeaveRelay
<1>19. CASE StreamsClosed(c)
  BY <1>19, TrackerUnchangedType DEF StreamsClosed, ReleaseStreams, ReleaseSlot
<1>20. CASE QueuedCancelled(c)
  BY <1>20, TrackerUnchangedType DEF QueuedCancelled
<1>21. CASE HandlerCancelled(c)
  BY <1>21, TrackerUnchangedType
     DEF HandlerCancelled, ReplyDelivered, ReleaseStreams, ReleaseSlot
<1>22. QED
  BY <1>1, <1>2, <1>3, <1>4, <1>5, <1>6, <1>7, <1>8, <1>9, <1>10, <1>11, <1>12, <1>13,
     <1>14, <1>15, <1>16, <1>17, <1>18, <1>19, <1>20, <1>21 DEF HandlerStep

LEMMA RelayType ==
    ASSUME TypeOK, NEW c \in Conn, NEW d \in Dir, RelayStep(c, d)
    PROVE  TypeOK'
<1>1. ASSUME NEW from, NEW to \in Pipe, PipeStep(c, d, from, to)
      PROVE  /\ pipe' \in [Conn -> [Dir -> Pipe]]
             /\ UNCHANGED <<serveVars, slots, pc, answer, told, socketVars, registered, killed>>
  BY <1>1 DEF TypeOK, PipeStep
<1>2. CASE PipeReceives(c, d) \/ PipeWakes(c, d) \/ PipeEnds(c, d) \/ PipeBreaks(c, d)
           \/ PipeCancelled(c, d)
  <2>1. UNCHANGED <<trackerVars, delivered>>
    BY <1>2 DEF PipeReceives, PipeWakes, PipeEnds, PipeBreaks, PipeCancelled
  <2>2. \E from : \E to \in Pipe : PipeStep(c, d, from, to)
    <3>1. CASE PipeReceives(c, d)
      BY <3>1 DEF PipeReceives, Pipe
    <3>2. CASE PipeWakes(c, d)
      BY <3>2 DEF PipeWakes, Pipe
    <3>3. CASE PipeEnds(c, d)
      BY <3>3 DEF PipeEnds, Pipe
    <3>4. CASE PipeBreaks(c, d)
      BY <3>4 DEF PipeBreaks, Pipe
    <3>5. CASE PipeCancelled(c, d)
      BY <3>5 DEF PipeCancelled, Pipe
    <3>6. QED
      BY <1>2, <3>1, <3>2, <3>3, <3>4, <3>5
  <2>3. QED
    BY <1>1, <2>1, <2>2, TrackerUnchangedType DEF TypeOK
<1>3. CASE PipeDelivers(c, d)
  <2>1. PipeStep(c, d, {"sending"}, "draining") /\ "draining" \in Pipe
    BY <1>3 DEF PipeDelivers, Pipe
  <2>2. delivered' \in [Conn -> [Dir -> Nat]] /\ TrackerTypeOK'
    BY <1>3, TrackerUnchangedType DEF TypeOK, PipeDelivers
  <2>3. QED
    BY <1>1, <2>1, <2>2 DEF TypeOK
<1>4. CASE PipeCounts(c, d)
  <2>1. PICK to \in Pipe : PipeStep(c, d, {"draining"}, to)
    BY <1>4 DEF PipeCounts, Pipe
  <2>2. delivered' = delivered /\ TrackerTypeOK'
    BY <1>4, CountChunkType DEF TypeOK, PipeCounts
  <2>3. QED
    BY <1>1, <2>1, <2>2 DEF TypeOK
<1>5. QED
  BY <1>2, <1>3, <1>4 DEF RelayStep

\* Every variable keeps its type: no slot count below zero, no status outside
\* the enumeration, no record in the history that is not a connection.
THEOREM TypeCorrect == Spec => []TypeOK
<1>1. Init => TypeOK
  <2>1. TrackerInit => TrackerTypeOK
    <3> SUFFICES ASSUME TrackerInit PROVE TrackerTypeOK
      OBVIOUS
    <3>1. stats \in Stats /\ history \in Seq(Conn)
      BY DEF TrackerInit, Stats
    <3>2. counted \in [Conn -> [Dir -> Nat]]
      BY DEF TrackerInit
    <3>3. QED
      BY <3>1, <3>2 DEF TrackerInit, TrackerTypeOK, Status
  <2>2. Init => /\ pipe \in [Conn -> [Dir -> Pipe]]
                /\ delivered \in [Conn -> [Dir -> Nat]]
    BY DEF Init, Pipe
  <2>3. Init => /\ pc \in [Conn -> Phase]
                /\ answer \in [Conn -> Answer]
                /\ serving \in Serving
    BY DEF Init, Phase, Answer, Serving
  <2>4. Init => listening \in BOOLEAN /\ slots \in Nat
    BY MaxConnectionsAssumption DEF Init
  <2>5. QED
    BY <2>1, <2>2, <2>3, <2>4 DEF Init, TypeOK
<1>2. TypeOK /\ [Next]_vars => TypeOK'
  <2>1. CASE UNCHANGED vars
    BY <2>1, TrackerUnchangedType DEF TypeOK, vars, serverVars
  <2>2. QED
    BY <2>1, ServerType, HandlerType, RelayType DEF Next
<1>3. QED
  BY <1>1, <1>2, PTL DEF Spec

----------------------------------------------------------------------------
(* The inductive invariant: where a handler is determines what its record,   *)
(* its reply, its sockets and its registration are.                          *)

RecordAt(c) ==
    /\ pc[c] \in {"new", "queued", "handshake"} => status[c] = "NONE" /\ answer[c] = "none"
    /\ pc[c] \in {"resolving", "dialing", "crashing", "crashed"} =>
          status[c] = "CONNECTING" /\ answer[c] = "none"
    /\ pc[c] = "replying" =>
          /\ answer[c] # "none"
          /\ status[c] = IF answer[c] = "GENERAL_FAILURE" THEN "NONE" ELSE "CONNECTING"
    /\ pc[c] \in Relaying => status[c] = "ACTIVE"
    /\ pc[c] \in {"closing", "returned"} => status[c] \notin Live

ReplyAt(c) ==
    /\ status[c] = "DENIED" => answer[c] = "NOT_ALLOWED"
    /\ status[c] \in {"ACTIVE", "CLOSED"} => answer[c] = "SUCCEEDED" /\ c \in told
    /\ status[c] = "FAILED" => answer[c] \in Refusal \cup {"SUCCEEDED"}

SocketsAt(c) ==
    /\ c \in registered <=> pc[c] \in Relaying
    /\ c \in targetOpen =>
          pc[c] \in Relaying \cup {"replying", "closing"} /\ answer[c] = "SUCCEEDED"
    /\ pc[c] \in Relaying \/ (pc[c] = "replying" /\ answer[c] = "SUCCEEDED") => c \in targetOpen
    /\ pc[c] \in HoldsSlot \cup {"queued"} => c \in clientOpen
    /\ pc[c] \in Finished \ {"dropped"} => c \notin clientOpen

PipesAt(c) ==
    \A d \in Dir :
        /\ pipe[c][d] \notin {"idle"} \cup PipeStopped => pc[c] = "relaying"
        /\ delivered[c][d] > 0 => answer[c] = "SUCCEEDED" /\ c \in told
        /\ delivered[c][d] - counted[c][d] \in {0, 1}
        /\ delivered[c][d] - counted[c][d] = 1 => pipe[c][d] \in PipeStopped \cup {"draining"}
        /\ pipe[c][d] = "draining" => delivered[c][d] - counted[c][d] = 1
        /\ pc[c] \in Phase \ (Finished \cup {"relaying", "closing"}) => pipe[c][d] = "idle"

HandlerAt(c) == RecordAt(c) /\ ReplyAt(c) /\ SocketsAt(c) /\ PipesAt(c)

HandlerInv == \A c \in Conn : HandlerAt(c)

\* Nothing that HandlerAt(c) speaks of changes.
Untouched(c) ==
    /\ UNCHANGED <<status[c], counted[c], pc[c], answer[c], pipe[c], delivered[c]>>
    /\ c \in told' <=> c \in told
    /\ c \in clientOpen' <=> c \in clientOpen
    /\ c \in targetOpen' <=> c \in targetOpen
    /\ c \in registered' <=> c \in registered

LEMMA UntouchedKeeps ==
    ASSUME NEW c \in Conn, Untouched(c), HandlerAt(c)
    PROVE  HandlerAt(c)'
<1>1. RecordAt(c)'
  BY DEF Untouched, HandlerAt, RecordAt
<1>2. ReplyAt(c)'
  BY DEF Untouched, HandlerAt, ReplyAt
<1>3. SocketsAt(c)'
  BY DEF Untouched, HandlerAt, SocketsAt
<1>4. PipesAt(c)'
  BY DEF Untouched, HandlerAt, PipesAt
<1>5. QED
  BY <1>1, <1>2, <1>3, <1>4 DEF HandlerAt

\* A step of one handler leaves every other handler's state alone.
LEMMA HandlerStepFrame ==
    ASSUME TypeOK, NEW c \in Conn, HandlerStep(c), NEW x \in Conn, x # c
    PROVE  Untouched(x)
<1> USE DEF TypeOK, TrackerTypeOK, Untouched, trackerVars
<1>1. CASE Accept(c) \/ AcquireSlot(c)
  BY <1>1 DEF Accept, AcquireSlot
<1>2. CASE HandshakeAborts(c) \/ HandshakeTimeout(c) \/ RequestMalformed(c)
  BY <1>2 DEF HandshakeAborts, HandshakeTimeout, RequestMalformed
<1>3. CASE RequestDenied(c) \/ RequestAllowed(c)
  BY <1>3 DEF RequestDenied, RequestAllowed, OpenConnection
<1>4. CASE Resolved(c) \/ ResolverRaises(c) \/ Dialed(c)
  BY <1>4 DEF Resolved, ResolverRaises, Dialed
<1>5. CASE DialTimeout(c) \/ \E why \in Refusal : ConnectFails(c, why)
  BY <1>5 DEF DialTimeout, ConnectFails
<1>6. CASE DeniedReplied(c) \/ FailureReplied(c) \/ MalformedReplied(c)
  BY <1>6 DEF DeniedReplied, FailureReplied, MalformedReplied, ReplyDelivered, Deny, Close
<1>7. CASE ClientLeftBeforeTunnel(c) \/ TunnelOpens(c)
  BY <1>7 DEF ClientLeftBeforeTunnel, TunnelOpens, Activate, Close
<1>8. CASE StartPipes(c) \/ Kill(c)
  BY <1>8 DEF StartPipes, Kill
<1>9. CASE RelayCloses(c) \/ RelayFails(c) \/ RelayKilled(c)
  BY <1>9 DEF RelayCloses, RelayFails, RelayKilled, LeaveRelay, Close
<1>10. CASE StreamsClosed(c) \/ QueuedCancelled(c) \/ HandlerCancelled(c)
  BY <1>10 DEF StreamsClosed, QueuedCancelled, HandlerCancelled, ReleaseStreams, ReplyDelivered
<1>11. QED
  BY <1>1, <1>2, <1>3, <1>4, <1>5, <1>6, <1>7, <1>8, <1>9, <1>10 DEF HandlerStep

LEMMA RelayStepFrame ==
    ASSUME TypeOK, NEW c \in Conn, NEW d \in Dir, RelayStep(c, d), NEW x \in Conn, x # c
    PROVE  Untouched(x)
BY DEF TypeOK, TrackerTypeOK, Untouched, trackerVars, RelayStep, PipeReceives, PipeDelivers,
       PipeCounts, PipeWakes, PipeEnds, PipeBreaks, PipeCancelled, PipeStep, CountChunk

\* A step of a handler keeps its own state in order.
LEMMA HandlerStepKeeps ==
    ASSUME TypeOK, NEW c \in Conn, HandlerAt(c), HandlerStep(c)
    PROVE  HandlerAt(c)'
<1> USE DEF TypeOK, TrackerTypeOK, trackerVars, HandlerAt, RecordAt, ReplyAt, SocketsAt, PipesAt,
            Relaying, Finished, HoldsSlot, Live, Ended, PipeStopped, Refusal, Phase
<1>1. CASE Accept(c)
  BY <1>1 DEF Accept
<1>2. CASE AcquireSlot(c)
  BY <1>2 DEF AcquireSlot
<1>3. CASE HandshakeAborts(c) \/ HandshakeTimeout(c)
  BY <1>3 DEF HandshakeAborts, HandshakeTimeout
<1>4. CASE RequestMalformed(c)
  BY <1>4 DEF RequestMalformed
<1>5. CASE RequestDenied(c)
  BY <1>5 DEF RequestDenied, OpenConnection
<1>6. CASE RequestAllowed(c)
  BY <1>6 DEF RequestAllowed, OpenConnection
<1>7. CASE Resolved(c)
  BY <1>7 DEF Resolved
<1>8. CASE ResolverRaises(c)
  BY <1>8 DEF ResolverRaises
<1>9. CASE Dialed(c)
  BY <1>9 DEF Dialed
<1>10. CASE DialTimeout(c) \/ \E why \in Refusal : ConnectFails(c, why)
  <2>1. PICK why \in Refusal : ConnectFails(c, why)
    BY <1>10, Zenon DEF DialTimeout
  <2> QED BY <2>1 DEF ConnectFails
<1>11. CASE DeniedReplied(c)
  BY <1>11 DEF DeniedReplied, ReplyDelivered, Deny
<1>12. CASE FailureReplied(c)
  BY <1>12 DEF FailureReplied, ReplyDelivered, Close
<1>13. CASE MalformedReplied(c)
  BY <1>13 DEF MalformedReplied, ReplyDelivered
<1>14. CASE ClientLeftBeforeTunnel(c)
  BY <1>14 DEF ClientLeftBeforeTunnel, Close
<1>15. CASE TunnelOpens(c)
  BY <1>15 DEF TunnelOpens, Activate
<1>16. CASE StartPipes(c)
  BY <1>16 DEF StartPipes
<1>17. CASE Kill(c)
  BY <1>17 DEF Kill
<1>18. CASE RelayCloses(c) \/ RelayFails(c) \/ RelayKilled(c)
  BY <1>18 DEF RelayCloses, RelayFails, RelayKilled, RelayStopped, LeaveRelay, Close
<1>19. CASE StreamsClosed(c)
  BY <1>19 DEF StreamsClosed, ReleaseStreams
<1>20. CASE QueuedCancelled(c)
  BY <1>20 DEF QueuedCancelled
<1>21. CASE HandlerCancelled(c)
  BY <1>21 DEF HandlerCancelled, ReplyDelivered, ReleaseStreams, RelayStopped
<1>22. QED
  BY <1>1, <1>2, <1>3, <1>4, <1>5, <1>6, <1>7, <1>8, <1>9, <1>10, <1>11, <1>12, <1>13,
     <1>14, <1>15, <1>16, <1>17, <1>18, <1>19, <1>20, <1>21 DEF HandlerStep

LEMMA PipeDeliversKeeps ==
    ASSUME TypeOK, NEW c \in Conn, HandlerAt(c), NEW d \in Dir, PipeDelivers(c, d)
    PROVE  HandlerAt(c)'
<1>1. /\ UNCHANGED <<trackerVars, serveVars, slots, pc, answer, told, socketVars, registered, killed>>
      /\ pipe[c][d] = "sending"
      /\ pipe' = [pipe EXCEPT ![c][d] = "draining"]
      /\ delivered' = [delivered EXCEPT ![c][d] = @ + 1]
  BY DEF PipeDelivers, PipeStep
<1>2. RecordAt(c)' /\ ReplyAt(c)' /\ SocketsAt(c)'
  BY <1>1 DEF HandlerAt, RecordAt, ReplyAt, SocketsAt, trackerVars
<1>3. pc[c] = "relaying"
  BY <1>1 DEF HandlerAt, PipesAt, PipeStopped
<1>4. answer[c] = "SUCCEEDED" /\ c \in told
  BY <1>3 DEF HandlerAt, RecordAt, ReplyAt, Relaying
<1>5. PipesAt(c)'
  <2> SUFFICES ASSUME NEW e \in Dir
               PROVE  PipesAt(c)!(e)'
    BY DEF PipesAt
  <2>1. delivered[c][e] \in Nat /\ counted[c][e] \in Nat
    BY DEF TypeOK, TrackerTypeOK
  <2>2. counted' = counted /\ pc' = pc /\ answer' = answer /\ told' = told
    BY <1>1 DEF trackerVars
  <2>3. CASE e # d
    <3>1. delivered'[c][e] = delivered[c][e] /\ pipe'[c][e] = pipe[c][e]
      BY <1>1, <2>3 DEF TypeOK
    <3>2. QED
      BY <2>2, <3>1 DEF HandlerAt, PipesAt
  <2>4. CASE e = d
    <3>1. delivered'[c][e] = delivered[c][e] + 1 /\ pipe'[c][e] = "draining"
      BY <1>1, <2>4 DEF TypeOK
    <3>2. delivered[c][e] = counted[c][e]
      BY <1>1, <2>1, <2>4 DEF HandlerAt, PipesAt, PipeStopped
    <3>3. QED
      BY <1>3, <1>4, <2>1, <2>2, <3>1, <3>2 DEF PipeStopped, Finished, Phase
  <2>5. QED
    BY <2>3, <2>4
<1>6. QED
  BY <1>2, <1>5 DEF HandlerAt

LEMMA RelayStepKeeps ==
    ASSUME TypeOK, NEW c \in Conn, HandlerAt(c), NEW d \in Dir, RelayStep(c, d)
    PROVE  HandlerAt(c)'
<1> USE DEF TypeOK, TrackerTypeOK, trackerVars, HandlerAt, RecordAt, ReplyAt, SocketsAt, PipesAt,
            Relaying, Finished, HoldsSlot, Live, PipeStopped, Phase, Pipe, PipeStep
<1>1. CASE PipeReceives(c, d)
  BY <1>1 DEF PipeReceives
<1>2. CASE PipeDelivers(c, d)
  BY <1>2, PipeDeliversKeeps
<1>3. CASE PipeCounts(c, d)
  BY <1>3 DEF PipeCounts, CountChunk
<1>4. CASE PipeWakes(c, d)
  BY <1>4 DEF PipeWakes
<1>5. CASE PipeEnds(c, d)
  BY <1>5 DEF PipeEnds
<1>6. CASE PipeBreaks(c, d)
  BY <1>6 DEF PipeBreaks
<1>7. CASE PipeCancelled(c, d)
  BY <1>7 DEF PipeCancelled
<1>8. QED
  BY <1>1, <1>2, <1>3, <1>4, <1>5, <1>6, <1>7 DEF RelayStep

LEMMA ServerFrame ==
    ASSUME Server \/ UNCHANGED vars, NEW c \in Conn
    PROVE  Untouched(c)
BY DEF Untouched, Server, Bind, BindFails, Stop, AcceptFails, ServeReturns, Reset, SoftReset,
       trackerVars, serverVars, vars

\* Whatever the interleaving, a handler's place in the code determines its
\* record, its reply, its sockets, its registration and its pipes.
THEOREM HandlersInOrder == Spec => []HandlerInv
<1>1. Init => HandlerInv
  <2> SUFFICES ASSUME Init, NEW c \in Conn
               PROVE  HandlerAt(c)
    BY DEF HandlerInv
  <2>1. QED
    BY DEF Init, TrackerInit, HandlerAt, RecordAt, ReplyAt, SocketsAt, PipesAt, Relaying,
           HoldsSlot, Finished, Live, PipeStopped
<1>2. TypeOK /\ HandlerInv /\ [Next]_vars => HandlerInv'
  <2> SUFFICES ASSUME TypeOK, HandlerInv, [Next]_vars, NEW x \in Conn
               PROVE  HandlerAt(x)'
    BY DEF HandlerInv
  <2>1. HandlerAt(x)
    BY DEF HandlerInv
  <2>2. CASE Server \/ UNCHANGED vars
    BY <2>1, <2>2, ServerFrame, UntouchedKeeps
  <2>3. ASSUME NEW c \in Conn, HandlerStep(c)
        PROVE  HandlerAt(x)'
    <3>1. CASE x = c
      BY <2>1, <2>3, <3>1, HandlerStepKeeps
    <3>2. CASE x # c
      BY <2>1, <2>3, <3>2, HandlerStepFrame, UntouchedKeeps
    <3>3. QED
      BY <3>1, <3>2
  <2>4. ASSUME NEW c \in Conn, NEW d \in Dir, RelayStep(c, d)
        PROVE  HandlerAt(x)'
    <3>1. CASE x = c
      BY <2>1, <2>4, <3>1, RelayStepKeeps
    <3>2. CASE x # c
      BY <2>1, <2>4, <3>2, RelayStepFrame, UntouchedKeeps
    <3>3. QED
      BY <3>1, <3>2
  <2>5. QED
    BY <2>2, <2>3, <2>4 DEF Next
<1>3. QED
  BY <1>1, <1>2, TypeCorrect, PTL DEF Spec

\* A kill reaches a relay that runs, and nothing else.
THEOREM KillableProved == Spec => []KillableWhileRelaying
<1>1. TypeOK /\ HandlerInv => KillableWhileRelaying
  BY DEF TypeOK, HandlerInv, HandlerAt, RecordAt, SocketsAt, KillableWhileRelaying, HoldsSlot,
         Relaying, Phase, Finished
<1>2. QED
  BY <1>1, TypeCorrect, HandlersInOrder, PTL

\* Every return of a handler has filed the record.
THEOREM ReturnFilesRecordProved == Spec => []ReturnFilesRecord
<1>1. HandlerInv => ReturnFilesRecord
  BY DEF HandlerInv, HandlerAt, RecordAt, ReturnFilesRecord
<1>2. QED
  BY <1>1, HandlersInOrder, PTL

\* The dashboard's outcome and the client's reply agree.
THEOREM OutcomeMatchesReplyProved == Spec => []OutcomeMatchesReply
<1>1. HandlerInv => OutcomeMatchesReply
  BY DEF HandlerInv, HandlerAt, ReplyAt, PipesAt, OutcomeMatchesReply
<1>2. QED
  BY <1>1, HandlersInOrder, PTL

\* No socket outlives a handler that returned or crashed.
THEOREM SocketsFollowHandlerProved == Spec => []SocketsFollowHandler
<1>1. TypeOK /\ HandlerInv => SocketsFollowHandler
  BY DEF TypeOK, HandlerInv, HandlerAt, SocketsAt, SocketsFollowHandler
<1>2. QED
  BY <1>1, TypeCorrect, HandlersInOrder, PTL

\* What a pipe delivered and what it counted differ by at most the chunk that a
\* cancellation caught between the two.
THEOREM CountedAsDeliveredProved == Spec => []CountedAsDelivered
<1>1. HandlerInv => CountedAsDelivered
  BY DEF HandlerInv, HandlerAt, PipesAt, CountedAsDelivered
<1>2. QED
  BY <1>1, HandlersInOrder, PTL

----------------------------------------------------------------------------
(* Records, lists and counters.  Each step of the server does one of four     *)
(* things to them.                                                            *)

Opens(c) ==
    /\ status[c] = "NONE"
    /\ OpenConnection(c)

Activates(c) ==
    /\ status[c] = "CONNECTING"
    /\ Activate(c)

Ends(c) ==
    /\ status[c] \in Live
    /\ Deny(c) \/ \E o \in {"CLOSED", "FAILED"} : Close(c, o)

Rests == UNCHANGED <<status, active, history, stats>>

LEMMA TrackerSteps ==
    ASSUME TypeOK, HandlerInv, [Next]_vars
    PROVE  SoftReset \/ Rests \/ \E c \in Conn : Opens(c) \/ Activates(c) \/ Ends(c)
<1> USE DEF trackerVars, Rests
<1>1. CASE Server \/ UNCHANGED vars
  BY <1>1 DEF Server, Bind, BindFails, Stop, AcceptFails, ServeReturns, Reset, vars
<1>2. ASSUME NEW c \in Conn, NEW d \in Dir, RelayStep(c, d)
      PROVE  Rests
  BY <1>2 DEF RelayStep, PipeReceives, PipeDelivers, PipeCounts, PipeWakes, PipeEnds, PipeBreaks,
              PipeCancelled, CountChunk
<1>3. ASSUME NEW c \in Conn, HandlerStep(c)
      PROVE  Rests \/ Opens(c) \/ Activates(c) \/ Ends(c)
  <2>1. RecordAt(c)
    BY DEF HandlerInv, HandlerAt
  <2>2. CASE RequestDenied(c) \/ RequestAllowed(c)
    <3>1. Opens(c)
      BY <2>1, <2>2 DEF RequestDenied, RequestAllowed, RecordAt, Opens
    <3>2. QED
      BY <3>1
  <2>3. CASE TunnelOpens(c)
    <3>1. Activates(c)
      BY <2>1, <2>3 DEF TunnelOpens, RecordAt, Activates
    <3>2. QED
      BY <3>1
  <2>4. CASE DeniedReplied(c) \/ FailureReplied(c) \/ ClientLeftBeforeTunnel(c)
    <3>1. Ends(c)
      BY <2>1, <2>4
         DEF DeniedReplied, FailureReplied, ClientLeftBeforeTunnel, RecordAt, Ends, Live, Refusal
    <3>2. QED
      BY <3>1
  <2>5. CASE RelayCloses(c) \/ RelayFails(c) \/ RelayKilled(c)
    <3>1. pc[c] \in Relaying
      BY <2>5 DEF RelayCloses, RelayFails, RelayKilled, RelayStopped, Relaying
    <3>2. Ends(c)
      BY <2>1, <2>5, <3>1
         DEF RelayCloses, RelayFails, RelayKilled, LeaveRelay, RecordAt, Ends, Live
    <3>3. QED
      BY <3>2
  <2>6. CASE \/ Accept(c) \/ AcquireSlot(c)
             \/ HandshakeAborts(c) \/ HandshakeTimeout(c) \/ RequestMalformed(c)
             \/ Resolved(c) \/ ResolverRaises(c) \/ Dialed(c)
             \/ DialTimeout(c) \/ \E why \in Refusal : ConnectFails(c, why)
             \/ MalformedReplied(c) \/ StartPipes(c) \/ Kill(c)
             \/ StreamsClosed(c) \/ QueuedCancelled(c) \/ HandlerCancelled(c)
    BY <2>6 DEF Accept, AcquireSlot, HandshakeAborts, HandshakeTimeout, RequestMalformed,
                Resolved, ResolverRaises, Dialed, DialTimeout, ConnectFails, MalformedReplied,
                StartPipes, Kill, StreamsClosed, QueuedCancelled, HandlerCancelled
  <2>7. QED
    BY <1>3, <2>2, <2>3, <2>4, <2>5, <2>6 DEF HandlerStep
<1>4. QED
  BY <1>1, <1>2, <1>3 DEF Next

\* What appending to the bounded deque leaves in it.
LEMMA AddToHistoryKeeps ==
    ASSUME TypeOK, RecordsFiled, NEW c \in Conn, status[c] \in Live, NEW h, h = AddToHistory(c)
    PROVE  /\ h \in Seq(Conn)
           /\ Len(h) \in 1 .. MaxHistory
           /\ h[Len(h)] = c
           /\ \A i \in 1 .. Len(h) - 1 : h[i] # c /\ status[h[i]] \in Ended
           /\ \A i, j \in 1 .. Len(h) : h[i] = h[j] => i = j
<1> DEFINE base == IF Len(history) < MaxHistory THEN history ELSE Tail(history)
<1>1. history \in Seq(Conn) /\ Len(history) <= MaxHistory
  BY DEF TypeOK, TrackerTypeOK, RecordsFiled
<1>2. /\ base \in Seq(Conn)
      /\ Len(base) < MaxHistory
      /\ \E k \in {0, 1} : \A i \in 1 .. Len(base) : i + k \in 1 .. Len(history) /\ base[i] = history[i + k]
  <2>1. CASE Len(history) < MaxHistory
    BY <1>1, <2>1
  <2>2. CASE ~(Len(history) < MaxHistory)
    BY <1>1, <2>2, MaxHistoryAssumption
  <2>3. QED
    BY <2>1, <2>2
<1>3. h = Append(base, c)
  BY DEF AddToHistory
<1> HIDE DEF base
<1>4. PICK k \in {0, 1} :
        \A i \in 1 .. Len(base) : i + k \in 1 .. Len(history) /\ base[i] = history[i + k]
  BY <1>2
<1>5. \A i \in 1 .. Len(base) : base[i] # c /\ status[base[i]] \in Ended
  BY <1>1, <1>4 DEF RecordsFiled, Live, Ended
<1>6. \A i, j \in 1 .. Len(base) : base[i] = base[j] => i = j
  BY <1>1, <1>2, <1>4 DEF RecordsFiled
<1>7. /\ h \in Seq(Conn) /\ Len(h) = Len(base) + 1 /\ h[Len(h)] = c
      /\ \A i \in 1 .. Len(base) : h[i] = base[i]
  BY <1>2, <1>3
<1>8. Len(base) \in Nat /\ Len(h) \in 1 .. MaxHistory
  BY <1>2, <1>7, MaxHistoryAssumption
<1>9. \A i \in 1 .. Len(h) - 1 : h[i] # c /\ status[h[i]] \in Ended
  BY <1>5, <1>7, <1>8
<1>10. ASSUME NEW i \in 1 .. Len(h), NEW j \in 1 .. Len(h), h[i] = h[j]
       PROVE  i = j
  <2>1. CASE i <= Len(base) /\ j <= Len(base)
    BY <1>6, <1>7, <1>8, <1>10, <2>1
  <2>2. CASE i = Len(h) \/ j = Len(h)
    BY <1>5, <1>7, <1>8, <1>10, <2>2
  <2>3. QED
    BY <1>7, <1>8, <2>1, <2>2
<1>11. QED
  BY <1>7, <1>8, <1>9, <1>10

LEMMA EndsKeepsFiled ==
    ASSUME TypeOK, RecordsFiled, NEW c \in Conn, Ends(c)
    PROVE  RecordsFiled'
<1>1. PICK o \in Ended : /\ status' = [status EXCEPT ![c] = o]
                         /\ active' = active \ {c}
                         /\ history' = AddToHistory(c)
  BY DEF Ends, Deny, Close, Ended
<1>2. /\ history' \in Seq(Conn)
      /\ Len(history') \in 1 .. MaxHistory
      /\ history'[Len(history')] = c
      /\ \A i \in 1 .. Len(history') - 1 : history'[i] # c /\ status[history'[i]] \in Ended
      /\ \A i, j \in 1 .. Len(history') : history'[i] = history'[j] => i = j
  BY <1>1, AddToHistoryKeeps DEF Ends
<1>3. active' = {x \in Conn : status'[x] \in Live}
  BY <1>1 DEF RecordsFiled, TypeOK, TrackerTypeOK, Live, Ended
<1>4. \A i \in DOMAIN history' : status'[history'[i]] \in Ended
  <2> SUFFICES ASSUME NEW i \in 1 .. Len(history')
               PROVE  status'[history'[i]] \in Ended
    BY <1>2
  <2>1. history'[i] \in Conn
    BY <1>2
  <2>2. CASE i = Len(history')
    BY <1>1, <1>2, <2>2 DEF TypeOK, TrackerTypeOK
  <2>3. CASE i # Len(history')
    <3>1. history'[i] # c /\ status[history'[i]] \in Ended
      BY <1>2, <2>3
    <3>2. QED
      BY <1>1, <2>1, <3>1 DEF TypeOK, TrackerTypeOK
  <2>4. QED
    BY <2>2, <2>3
<1>5. QED
  BY <1>2, <1>3, <1>4, MaxHistoryAssumption DEF RecordsFiled

LEMMA MovesKeepsFiled ==
    ASSUME TypeOK, RecordsFiled, NEW c \in Conn, Opens(c) \/ Activates(c)
    PROVE  RecordsFiled'
<1>1. PICK s \in Live : /\ status' = [status EXCEPT ![c] = s]
                        /\ active' = active \cup {c}
                        /\ history' = history
  BY DEF Opens, OpenConnection, Activates, Activate, RecordsFiled, Live
<1>2. status[c] \notin Ended
  BY DEF Opens, Activates, Ended
<1>3. active' = {x \in Conn : status'[x] \in Live}
  BY <1>1 DEF RecordsFiled, TypeOK, TrackerTypeOK, Live
<1>4. \A i \in DOMAIN history : history[i] \in Conn
  BY DEF TypeOK, TrackerTypeOK
<1>5. QED
  BY <1>1, <1>2, <1>3, <1>4 DEF RecordsFiled, TypeOK, TrackerTypeOK

\* A record is active exactly until it ended; the history never shows one
\* twice, never one that still runs, and never more than it may hold.
THEOREM RecordsFiledProved == Spec => []RecordsFiled
<1>1. Init => RecordsFiled
  BY MaxHistoryAssumption DEF Init, TrackerInit, RecordsFiled, Live
<1>2. TypeOK /\ HandlerInv /\ RecordsFiled /\ [Next]_vars => RecordsFiled'
  <2> SUFFICES ASSUME TypeOK, HandlerInv, RecordsFiled, [Next]_vars
               PROVE  RecordsFiled'
    OBVIOUS
  <2>1. CASE SoftReset
    BY <2>1, MaxHistoryAssumption DEF SoftReset, RecordsFiled
  <2>2. CASE Rests
    BY <2>2 DEF Rests, RecordsFiled
  <2>3. CASE \E c \in Conn : Opens(c) \/ Activates(c) \/ Ends(c)
    BY <2>3, MovesKeepsFiled, EndsKeepsFiled
  <2>4. QED
    BY <2>1, <2>2, <2>3, TrackerSteps
<1>3. QED
  BY <1>1, <1>2, TypeCorrect, HandlersInOrder, PTL DEF Spec

LEMMA ActiveFinite == ASSUME TypeOK PROVE IsFiniteSet(active) /\ Cardinality(active) \in Nat
BY ConnAssumption, FS_Subset, FS_CardinalityType DEF TypeOK, TrackerTypeOK

\* The connection counter of the dashboard never falls behind what it counts.
THEOREM ConnectionsAccountedProved == Spec => []ConnectionsAccounted
<1>1. Init => ConnectionsAccounted
  BY FS_EmptySet DEF Init, TrackerInit, ConnectionsAccounted
<1>2. TypeOK /\ HandlerInv /\ RecordsFiled /\ ConnectionsAccounted /\ [Next]_vars
        => ConnectionsAccounted'
  <2> SUFFICES ASSUME TypeOK, HandlerInv, RecordsFiled, ConnectionsAccounted, [Next]_vars
               PROVE  ConnectionsAccounted'
    OBVIOUS
  <2>1. IsFiniteSet(active) /\ Cardinality(active) \in Nat
    BY ActiveFinite
  <2>2. stats \in Stats /\ stats.connections \in Nat /\ stats.denied \in Nat
    BY DEF TypeOK, TrackerTypeOK, Stats
  <2>3. stats.connections >= Cardinality(active) + stats.denied
    BY DEF ConnectionsAccounted
  <2>4. CASE SoftReset
    <3>1. stats'.connections = Cardinality(active) /\ stats'.denied = 0 /\ active' = active
      BY <2>2, <2>4 DEF SoftReset, Stats
    <3>2. QED
      BY <2>1, <3>1 DEF ConnectionsAccounted
  <2>5. CASE Rests
    BY <2>5 DEF Rests, ConnectionsAccounted
  <2>6. ASSUME NEW c \in Conn, Opens(c)
        PROVE  ConnectionsAccounted'
    <3>1. c \notin active
      BY <2>6 DEF Opens, RecordsFiled, Live
    <3>2. Cardinality(active') = Cardinality(active) + 1
      BY <2>1, <2>6, <3>1, FS_AddElement DEF Opens, OpenConnection
    <3>3. stats'.connections = stats.connections + 1 /\ stats'.denied = stats.denied
      BY <2>2, <2>6 DEF Opens, OpenConnection, Stats
    <3>4. QED
      BY <2>1, <2>2, <2>3, <3>2, <3>3 DEF ConnectionsAccounted
  <2>7. ASSUME NEW c \in Conn, Activates(c)
        PROVE  ConnectionsAccounted'
    BY <2>7 DEF Activates, Activate, ConnectionsAccounted
  <2>8. ASSUME NEW c \in Conn, Ends(c)
        PROVE  ConnectionsAccounted'
    <3>1. c \in active /\ active' = active \ {c}
      BY <2>8 DEF Ends, Deny, Close, RecordsFiled
    <3>2. Cardinality(active') = Cardinality(active) - 1
      BY <2>1, <3>1, FS_RemoveElement
    <3>3. stats'.connections = stats.connections /\ stats'.denied \in {stats.denied, stats.denied + 1}
      BY <2>2, <2>8 DEF Ends, Deny, Close, Stats
    <3>4. QED
      BY <2>1, <2>2, <2>3, <3>2, <3>3 DEF ConnectionsAccounted
  <2>9. QED
    BY <2>4, <2>5, <2>6, <2>7, <2>8, TrackerSteps
<1>3. QED
  BY <1>1, <1>2, TypeCorrect, HandlersInOrder, RecordsFiledProved, PTL DEF Spec

----------------------------------------------------------------------------
(* The semaphore *)

Holders == {c \in Conn : pc[c] \in HoldsSlot}

LEMMA HoldersFinite == IsFiniteSet(Holders) /\ Cardinality(Holders) \in Nat
BY ConnAssumption, FS_Subset, FS_CardinalityType DEF Holders

\* Every step leaves the slots and their holders alone, or moves one slot
\* between the semaphore and one handler.
LEMMA SlotSteps ==
    ASSUME TypeOK, MaxConnections > 0, [Next]_vars
    PROVE  \/ Holders' = Holders /\ slots' = slots
           \/ \E c \in Conn : c \notin Holders /\ Holders' = Holders \cup {c} /\ slots' = slots - 1
           \/ \E c \in Holders : Holders' = Holders \ {c} /\ slots' = slots + 1
<1> USE DEF TypeOK, Holders, HoldsSlot, Finished, Phase
<1>1. CASE Server \/ UNCHANGED vars
  BY <1>1 DEF Server, Bind, BindFails, Stop, AcceptFails, ServeReturns, Reset, serverVars, vars
<1>2. ASSUME NEW c \in Conn, NEW d \in Dir, RelayStep(c, d)
      PROVE  Holders' = Holders /\ slots' = slots
  BY <1>2 DEF RelayStep, PipeReceives, PipeDelivers, PipeCounts, PipeWakes, PipeEnds, PipeBreaks,
              PipeCancelled, PipeStep
<1>3. ASSUME NEW c \in Conn, HandlerStep(c)
      PROVE  \/ Holders' = Holders /\ slots' = slots
             \/ c \notin Holders /\ Holders' = Holders \cup {c} /\ slots' = slots - 1
             \/ c \in Holders /\ Holders' = Holders \ {c} /\ slots' = slots + 1
  <2>1. CASE Accept(c)
    BY <2>1 DEF Accept
  <2>2. CASE AcquireSlot(c)
    BY <2>2 DEF AcquireSlot
  <2>3. CASE \/ HandshakeAborts(c) \/ HandshakeTimeout(c) \/ RequestMalformed(c)
             \/ RequestDenied(c) \/ RequestAllowed(c)
             \/ Resolved(c) \/ ResolverRaises(c) \/ Dialed(c)
             \/ DialTimeout(c) \/ \E why \in Refusal : ConnectFails(c, why)
    BY <2>3 DEF HandshakeAborts, HandshakeTimeout, RequestMalformed, RequestDenied, RequestAllowed,
                Resolved, ResolverRaises, Dialed, DialTimeout, ConnectFails
  <2>4. CASE \/ DeniedReplied(c) \/ FailureReplied(c) \/ MalformedReplied(c)
             \/ ClientLeftBeforeTunnel(c) \/ TunnelOpens(c) \/ StartPipes(c) \/ Kill(c)
             \/ RelayCloses(c) \/ RelayFails(c) \/ RelayKilled(c)
    BY <2>4 DEF DeniedReplied, FailureReplied, MalformedReplied, ClientLeftBeforeTunnel,
                TunnelOpens, StartPipes, Kill, RelayCloses, RelayFails, RelayKilled,
                RelayStopped, LeaveRelay
  <2>5. CASE StreamsClosed(c)
    BY <2>5 DEF StreamsClosed, ReleaseSlot
  <2>6. CASE QueuedCancelled(c)
    BY <2>6 DEF QueuedCancelled
  <2>7. CASE HandlerCancelled(c)
    BY <2>7 DEF HandlerCancelled, ReleaseSlot, RelayStopped
  <2>8. QED
    BY <1>3, <2>1, <2>2, <2>3, <2>4, <2>5, <2>6, <2>7 DEF HandlerStep
<1>4. QED
  BY <1>1, <1>2, <1>3 DEF Next

\* However handlers end, MaxConnections bounds those past the semaphore, and
\* every slot comes back.
THEOREM SlotsConservedProved == Spec => []SlotsConserved
<1>1. Init => SlotsConserved
  <2> SUFFICES ASSUME Init, MaxConnections > 0
               PROVE  slots + Cardinality(Holders) = MaxConnections
    BY DEF SlotsConserved, Holders
  <2>1. Holders = {}
    BY DEF Init, Holders, HoldsSlot
  <2>2. QED
    BY <2>1, FS_EmptySet, MaxConnectionsAssumption DEF Init
<1>2. TypeOK /\ SlotsConserved /\ [Next]_vars => SlotsConserved'
  <2> SUFFICES ASSUME TypeOK, SlotsConserved, [Next]_vars, MaxConnections > 0
               PROVE  slots' + Cardinality(Holders') = MaxConnections
    BY DEF SlotsConserved, Holders
  <2>1. slots + Cardinality(Holders) = MaxConnections
    BY DEF SlotsConserved, Holders
  <2>2. slots \in Nat /\ IsFiniteSet(Holders) /\ Cardinality(Holders) \in Nat
    BY HoldersFinite DEF TypeOK
  <2>3. CASE Holders' = Holders /\ slots' = slots
    BY <2>1, <2>3
  <2>4. ASSUME NEW c \in Conn, c \notin Holders, Holders' = Holders \cup {c}, slots' = slots - 1
        PROVE  slots' + Cardinality(Holders') = MaxConnections
    BY <2>1, <2>2, <2>4, FS_AddElement, MaxConnectionsAssumption
  <2>5. ASSUME NEW c \in Holders, Holders' = Holders \ {c}, slots' = slots + 1
        PROVE  slots' + Cardinality(Holders') = MaxConnections
    BY <2>1, <2>2, <2>5, FS_RemoveElement, MaxConnectionsAssumption
  <2>6. QED
    BY <2>3, <2>4, <2>5, SlotSteps
<1>3. QED
  BY <1>1, <1>2, TypeCorrect, PTL DEF Spec

----------------------------------------------------------------------------
(* What each step of the server means to a reader of the tracker: it is a  *)
(* step of the abstract life of one connection, and it does not go unseen. *)

\* An ending whose outcome fits how far the connection came.
EndsAs(c, o) ==
    /\ status[c] \in Live
    /\ o \in Lifecycle!Possible(StageOf(c))
    /\ \/ Deny(c) /\ o = "DENIED"
       \/ Close(c, o)

Counts(c, d) ==
    /\ status[c] = "ACTIVE"
    /\ CountChunk(c, d)

Quiet == UNCHANGED <<status, counted, active, history, stats>>

\* A step does one of six things to what a reader can see.
LEMMA ReaderSteps ==
    ASSUME TypeOK, HandlerInv, [Next]_vars
    PROVE  \/ Reset \/ Quiet
           \/ \E c \in Conn : Opens(c) \/ Activates(c) \/ \E o \in Ended : EndsAs(c, o)
           \/ \E c \in Conn, d \in Dir : Counts(c, d)
<1> USE DEF trackerVars, Quiet
<1>1. CASE Server \/ UNCHANGED vars
  BY <1>1 DEF Server, Bind, BindFails, Stop, AcceptFails, ServeReturns, Reset, vars
<1>2. ASSUME NEW c \in Conn, NEW d \in Dir, RelayStep(c, d)
      PROVE  Quiet \/ Counts(c, d)
  <2>1. CASE PipeCounts(c, d)
    <3>1. pipe[c][d] = "draining" /\ CountChunk(c, d)
      BY <2>1 DEF PipeCounts, PipeStep
    <3>2. pc[c] = "relaying"
      BY <3>1 DEF HandlerInv, HandlerAt, PipesAt, PipeStopped
    <3>3. status[c] = "ACTIVE"
      BY <3>2 DEF HandlerInv, HandlerAt, RecordAt, Relaying
    <3>4. QED
      BY <3>1, <3>3 DEF Counts
  <2>2. CASE ~PipeCounts(c, d)
    BY <1>2, <2>2 DEF RelayStep, PipeReceives, PipeDelivers, PipeWakes, PipeEnds, PipeBreaks,
                      PipeCancelled
  <2>3. QED
    BY <2>1, <2>2
<1>3. ASSUME NEW c \in Conn, HandlerStep(c)
      PROVE  Quiet \/ Opens(c) \/ Activates(c) \/ \E o \in Ended : EndsAs(c, o)
  <2>1. RecordAt(c)
    BY DEF HandlerInv, HandlerAt
  <2>2. CASE RequestDenied(c) \/ RequestAllowed(c)
    <3>1. Opens(c)
      BY <2>1, <2>2 DEF RequestDenied, RequestAllowed, RecordAt, Opens
    <3>2. QED
      BY <3>1
  <2>3. CASE TunnelOpens(c)
    <3>1. Activates(c)
      BY <2>1, <2>3 DEF TunnelOpens, RecordAt, Activates
    <3>2. QED
      BY <3>1
  <2>4. CASE DeniedReplied(c) \/ FailureReplied(c) \/ ClientLeftBeforeTunnel(c)
    <3>1. status[c] = "CONNECTING"
      BY <2>1, <2>4 DEF DeniedReplied, FailureReplied, ClientLeftBeforeTunnel, RecordAt, Refusal
    <3>2. Lifecycle!Possible(StageOf(c)) = {"DENIED", "FAILED"}
      BY <3>1 DEF Lifecycle!Possible, StageOf, Ended
    <3>3. Deny(c) \/ Close(c, "FAILED")
      BY <2>4 DEF DeniedReplied, FailureReplied, ClientLeftBeforeTunnel
    <3>4. EndsAs(c, "DENIED") \/ EndsAs(c, "FAILED")
      BY <3>1, <3>2, <3>3 DEF EndsAs, Live
    <3>5. QED
      BY <3>4 DEF Ended
  <2>5. CASE RelayCloses(c) \/ RelayFails(c) \/ RelayKilled(c)
    <3>1. pc[c] \in Relaying
      BY <2>5 DEF RelayCloses, RelayFails, RelayKilled, RelayStopped, Relaying
    <3>2. status[c] = "ACTIVE"
      BY <2>1, <3>1 DEF RecordAt
    <3>3. Lifecycle!Possible(StageOf(c)) = {"CLOSED", "FAILED"}
      BY <3>2 DEF Lifecycle!Possible, StageOf, Ended
    <3>4. Close(c, "CLOSED") \/ Close(c, "FAILED")
      BY <2>5 DEF RelayCloses, RelayFails, RelayKilled, LeaveRelay
    <3>5. EndsAs(c, "CLOSED") \/ EndsAs(c, "FAILED")
      BY <3>2, <3>3, <3>4 DEF EndsAs, Live
    <3>6. QED
      BY <3>5 DEF Ended
  <2>6. CASE \/ Accept(c) \/ AcquireSlot(c)
             \/ HandshakeAborts(c) \/ HandshakeTimeout(c) \/ RequestMalformed(c)
             \/ Resolved(c) \/ ResolverRaises(c) \/ Dialed(c)
             \/ DialTimeout(c) \/ \E why \in Refusal : ConnectFails(c, why)
             \/ MalformedReplied(c) \/ StartPipes(c) \/ Kill(c)
             \/ StreamsClosed(c) \/ QueuedCancelled(c) \/ HandlerCancelled(c)
    BY <2>6 DEF Accept, AcquireSlot, HandshakeAborts, HandshakeTimeout, RequestMalformed,
                Resolved, ResolverRaises, Dialed, DialTimeout, ConnectFails, MalformedReplied,
                StartPipes, Kill, StreamsClosed, QueuedCancelled, HandlerCancelled
  <2>7. QED
    BY <1>3, <2>2, <2>3, <2>4, <2>5, <2>6 DEF HandlerStep
<1>4. QED
  BY <1>1, <1>2, <1>3 DEF Next

----------------------------------------------------------------------------
\* The dashboard redraws when structure_version moved: no step of the server
\* changes a status or a list without raising it.
THEOREM ChangesAreVersionedProved == Spec => ChangesAreVersioned
<1>1. ASSUME TypeOK, HandlerInv, [Next]_vars
      PROVE  <<status, active, history>>' # <<status, active, history>> => version' > version
  <2>1. version \in Nat
    BY <1>1 DEF TypeOK, TrackerTypeOK
  <2>2. CASE Rests
    BY <2>2 DEF Rests
  <2>3. CASE SoftReset
    BY <2>1, <2>3 DEF SoftReset
  <2>4. ASSUME NEW c \in Conn, Opens(c) \/ Activates(c) \/ Ends(c)
        PROVE  version' = version + 1
    BY <2>4 DEF Opens, Activates, Ends, OpenConnection, Activate, Deny, Close
  <2>5. QED
    BY <1>1, <2>1, <2>2, <2>3, <2>4, TrackerSteps
<1>2. QED
  BY <1>1, TypeCorrect, HandlersInOrder, PTL DEF Spec, ChangesAreVersioned

----------------------------------------------------------------------------
(* Traffic: a sum over connections, in one direction. *)

Total(table, d, S) == MapThenSumSet(LAMBDA c : table[c][d], S)

Tables == [Conn -> [Dir -> Nat]]

LEMMA TotalSums ==
    ASSUME NEW table \in Tables, NEW d \in Dir, NEW S \in SUBSET Conn
    PROVE  /\ IsFiniteSet(S) /\ [c \in S |-> table[c][d]] \in [S -> Int]
           /\ \E h : Sums(h, [c \in S |-> table[c][d]], S) /\ Total(table, d, S) = h[S]
<1> DEFINE f == [c \in S |-> table[c][d]]
           Iterates(h) == h = [s \in SUBSET S |->
               IF s = {} THEN 0
               ELSE table[CHOOSE x \in s : TRUE][d] + h[s \ {CHOOSE x \in s : TRUE}]]
           iter == CHOOSE h : Iterates(h)
<1>1. IsFiniteSet(S)
  BY ConnAssumption, FS_Subset
<1>2. f \in [S -> Int]
  BY DEF Tables
<1>3. Total(table, d, S) = iter[S]
  BY DEF Total, MapThenSumSet, MapThenFoldSet
<1>4. ASSUME NEW h, NEW s \in SUBSET S
      PROVE  Plus(h, f, s) = IF s = {} THEN 0
                             ELSE table[CHOOSE x \in s : TRUE][d] + h[s \ {CHOOSE x \in s : TRUE}]
  <2>1. CASE s = {}
    BY <2>1 DEF Plus
  <2>2. CASE s # {}
    <3>1. AnyOf(s) \in S
      BY <2>2, AnyOfIn
    <3>2. f[AnyOf(s)] = table[AnyOf(s)][d]
      BY <3>1
    <3> HIDE DEF f
    <3> QED BY <2>2, <3>2 DEF Plus, AnyOf
  <2> QED BY <2>1, <2>2
<1>5. \E h : Iterates(h)
  <2>1. PICK h \in [SUBSET S -> Int] : Sums(h, f, S)
    <3> HIDE DEF f
    <3> QED BY <1>1, <1>2, SumExists
  <2>2. h = [s \in SUBSET S |-> h[s]]
    BY <2>1
  <2>3. h = [s \in SUBSET S |-> Plus(h, f, s)]
    BY <2>1, <2>2 DEF Sums
  <2>4. Iterates(h)
    <3> HIDE DEF f
    <3> QED BY <1>4, <2>3
  <2> HIDE DEF Iterates
  <2> QED BY <2>4
<1>6. Iterates(iter)
  <2> HIDE DEF Iterates
  <2> QED BY <1>5
<1> HIDE DEF iter
<1>7. Sums(iter, f, S)
  <2>1. ASSUME NEW s \in SUBSET S
        PROVE  iter[s] = IF s = {} THEN 0
                         ELSE table[CHOOSE x \in s : TRUE][d] + iter[s \ {CHOOSE x \in s : TRUE}]
    BY <1>6
  <2>2. ASSUME NEW s \in SUBSET S
        PROVE  iter[s] = Plus(iter, f, s)
    <3> HIDE DEF f, Iterates
    <3> QED BY <1>4, <2>1
  <2> HIDE DEF f, Iterates
  <2> QED BY <2>2 DEF Sums
<1> QED BY <1>1, <1>2, <1>3, <1>7

LEMMA TotalIsInt ==
    ASSUME NEW table \in Tables, NEW d \in Dir, NEW S \in SUBSET Conn
    PROVE  Total(table, d, S) \in Int
<1> DEFINE f == [c \in S |-> table[c][d]]
<1>1. PICK h : Sums(h, f, S) /\ Total(table, d, S) = h[S]
  BY TotalSums
<1>2. IsFiniteSet(S) /\ f \in [S -> Int]
  BY TotalSums
<1> HIDE DEF f
<1> QED BY <1>1, <1>2, SumIsInt

\* Tables that agree on S have the same total there.
LEMMA TotalSame ==
    ASSUME NEW table \in Tables, NEW other \in Tables, NEW d \in Dir, NEW S \in SUBSET Conn,
           \A c \in S : table[c][d] = other[c][d]
    PROVE  Total(table, d, S) = Total(other, d, S)
<1> DEFINE f == [c \in S |-> table[c][d]]
           e == [c \in S |-> other[c][d]]
<1>1. PICK h : Sums(h, f, S) /\ Total(table, d, S) = h[S]
  BY TotalSums
<1>2. PICK k : Sums(k, e, S) /\ Total(other, d, S) = k[S]
  BY TotalSums
<1>3. IsFiniteSet(S) /\ \A x \in S : f[x] = e[x]
  BY TotalSums
<1> HIDE DEF f, e
<1>4. S \in SUBSET S
  OBVIOUS
<1>5. h[S] = k[S]
  BY <1>1, <1>2, <1>3, <1>4, SumsAgree
<1> QED BY <1>1, <1>2, <1>5

\* One connection's share of a total.
LEMMA TotalLessOne ==
    ASSUME NEW table \in Tables, NEW d \in Dir, NEW S \in SUBSET Conn, NEW c \in S
    PROVE  Total(table, d, S) = table[c][d] + Total(table, d, S \ {c})
<1> DEFINE f == [x \in S |-> table[x][d]]
           R == S \ {c}
           e == [x \in R |-> table[x][d]]
<1>1. PICK h : Sums(h, f, S) /\ Total(table, d, S) = h[S]
  BY TotalSums
<1>2. R \in SUBSET Conn /\ R \in SUBSET S /\ R \in SUBSET R /\ S \in SUBSET S
  OBVIOUS
<1> HIDE DEF R
<1>3. PICK k : Sums(k, e, R) /\ Total(table, d, R) = k[R]
  BY <1>2, TotalSums
<1>4. IsFiniteSet(S) /\ f \in [S -> Int] /\ IsFiniteSet(R)
  BY <1>2, TotalSums
<1>5. f[c] = table[c][d] /\ \A x \in R : f[x] = e[x]
  BY <1>2
<1>6. h[S] = f[c] + h[S \ {c}]
  <2> HIDE DEF f
  <2> QED BY <1>1, <1>2, <1>4, SumLessOne
<1>7. h[R] = k[R]
  <2> HIDE DEF f, e
  <2> QED BY <1>1, <1>2, <1>3, <1>4, <1>5, SumsAgree
<1> QED BY <1>1, <1>3, <1>5, <1>6, <1>7 DEF R

\* No traffic is counted before the relay.
Uncounted == \A c \in Conn, d \in Dir : status[c] \in {"NONE", "CONNECTING"} => counted[c][d] = 0

LEMMA UncountedAlways == Spec => []Uncounted
<1>1. Init => Uncounted
  BY DEF Init, TrackerInit, Uncounted
<1>2. ASSUME TypeOK, HandlerInv, Uncounted, [Next]_vars
      PROVE  Uncounted'
  <2>1. status \in [Conn -> Status] /\ counted \in Tables
    BY <1>2 DEF TypeOK, TrackerTypeOK, Tables
  <2>2. CASE Reset \/ Quiet
    BY <1>2, <2>2 DEF Uncounted, Reset, SoftReset, Quiet
  <2>3. ASSUME NEW c \in Conn, Opens(c)
        PROVE  Uncounted'
    <3>1. status[c] = "NONE" /\ status' = [status EXCEPT ![c] = "CONNECTING"] /\ counted' = counted
      BY <2>3 DEF Opens, OpenConnection
    <3> QED BY <1>2, <2>1, <3>1 DEF Uncounted
  <2>4. ASSUME NEW c \in Conn, Activates(c) \/ \E o \in Ended : EndsAs(c, o)
        PROVE  Uncounted'
    <3>1. PICK t \in {"ACTIVE"} \cup Ended : status' = [status EXCEPT ![c] = t] /\ counted' = counted
      <4>1. CASE Activates(c)
        BY <4>1 DEF Activates, Activate
      <4>2. CASE \E o \in Ended : EndsAs(c, o)
        BY <4>2 DEF EndsAs, Deny, Close
      <4> QED BY <2>4, <4>1, <4>2
    <3> QED BY <1>2, <2>1, <3>1 DEF Uncounted, Ended
  <2>5. ASSUME NEW c \in Conn, NEW w \in Dir, Counts(c, w)
        PROVE  Uncounted'
    <3>1. /\ status[c] = "ACTIVE" /\ status' = status
          /\ counted' = [counted EXCEPT ![c][w] = counted[c][w] + 1]
      BY <2>5 DEF Counts, CountChunk
    <3>2. \A x \in Conn : x # c => counted'[x] = counted[x]
      BY <2>1, <3>1 DEF Tables
    <3> QED BY <1>2, <3>1, <3>2 DEF Uncounted
  <2> QED BY <1>2, <2>2, <2>3, <2>4, <2>5, ReaderSteps
<1> QED BY <1>1, <1>2, TypeCorrect, HandlersInOrder, PTL DEF Spec

\* What is displayed and what was carried change alike in every step but a reset.
LEMMA TrafficStep ==
    ASSUME TypeOK, TypeOK', HandlerInv, RecordsFiled, Uncounted, [Next]_vars, ~Reset, NEW d \in Dir
    PROVE  Displayed(d)' - Displayed(d) = Carried(d)' - Carried(d)
<1> DEFINE T == counted
           S == active
<1>1. /\ T \in Tables /\ T' \in Tables /\ S \in SUBSET Conn /\ S' \in SUBSET Conn
      /\ stats[d] \in Nat /\ stats'[d] \in Nat /\ stats \in Stats
      /\ Conn \in SUBSET Conn
  BY DEF TypeOK, TrackerTypeOK, Tables, Stats, Dir
<1>2. /\ Displayed(d) = stats[d] + Total(T, d, S) /\ Displayed(d)' = stats'[d] + Total(T', d, S')
      /\ Carried(d) = Total(T, d, Conn) /\ Carried(d)' = Total(T', d, Conn)
  <2>1. Displayed(d) = stats[d] + Total(counted, d, active)
    BY DEF Displayed, Total
  <2>2. Displayed(d)' = stats'[d] + Total(counted', d, active')
    BY DEF Displayed, Total, MapThenSumSet, MapThenFoldSet
  <2>3. Carried(d) = Total(counted, d, Conn)
    BY DEF Carried, Total
  <2>4. Carried(d)' = Total(counted', d, Conn)
    BY DEF Carried, Total, MapThenSumSet, MapThenFoldSet
  <2> QED BY <2>1, <2>2, <2>3, <2>4
<1>3. /\ Total(T, d, S) \in Int /\ Total(T', d, S') \in Int
      /\ Total(T, d, Conn) \in Int /\ Total(T', d, Conn) \in Int
  BY <1>1, TotalIsInt
<1>4. CASE Quiet
  <2>1. T' = T /\ S' = S /\ stats' = stats
    BY <1>4 DEF Quiet
  <2> QED BY <1>1, <1>2, <1>3, <2>1
<1>5. ASSUME NEW c \in Conn, Opens(c) \/ Activates(c)
      PROVE  Displayed(d)' - Displayed(d) = Carried(d)' - Carried(d)
  <2>1. /\ T' = T /\ stats'[d] = stats[d]
        /\ S' = S \/ (S' = S \cup {c} /\ c \notin S /\ counted[c][d] = 0)
    <3>1. CASE Opens(c)
      <4>1. /\ status[c] = "NONE" /\ counted' = counted /\ active' = active \cup {c}
            /\ stats' = [stats EXCEPT !.connections = @ + 1]
        BY <3>1 DEF Opens, OpenConnection
      <4>2. stats'[d] = stats[d]
        BY <1>1, <4>1 DEF Stats, Dir
      <4>3. c \notin active /\ counted[c][d] = 0
        BY <4>1 DEF RecordsFiled, Uncounted, Live
      <4> QED BY <4>1, <4>2, <4>3
    <3>2. CASE Activates(c)
      BY <3>2 DEF Activates, Activate
    <3> QED BY <1>5, <3>1, <3>2
  <2>2. Total(T, d, S') = Total(T, d, S)
    <3>1. CASE S' = S
      BY <3>1
    <3>2. CASE S' = S \cup {c} /\ c \notin S /\ counted[c][d] = 0
      <4>1. c \in S' /\ S' \ {c} = S
        BY <3>2
      <4>2. Total(T, d, S') = 0 + Total(T, d, S)
        BY <1>1, <3>2, <4>1, TotalLessOne
      <4> QED BY <1>3, <4>2
    <3> QED BY <2>1, <3>1, <3>2
  <2> HIDE DEF T, S
  <2> QED BY <1>1, <1>2, <1>3, <2>1, <2>2
<1>6. ASSUME NEW c \in Conn, NEW o \in Ended, EndsAs(c, o)
      PROVE  Displayed(d)' - Displayed(d) = Carried(d)' - Carried(d)
  <2>1. c \in S /\ T' = T /\ S' = S \ {c} /\ stats'[d] = stats[d] + T[c][d]
    <3>1. c \in active
      BY <1>6 DEF EndsAs, RecordsFiled
    <3>2. CASE Deny(c) /\ o = "DENIED"
      <4>1. status[c] = "CONNECTING"
        <5>1. status[c] = "ACTIVE" => o \notin Lifecycle!Possible(StageOf(c))
          BY <3>2 DEF StageOf, Ended, Lifecycle!Possible
        <5> QED BY <1>6, <5>1 DEF EndsAs, Live
      <4>2. counted[c][d] = 0
        BY <4>1 DEF Uncounted
      <4>3. counted' = counted /\ active' = active \ {c} /\ stats' = [stats EXCEPT !.denied = @ + 1]
        BY <3>2 DEF Deny
      <4>4. stats'[d] = stats[d]
        BY <1>1, <4>3 DEF Stats, Dir
      <4> QED BY <1>1, <3>1, <4>2, <4>3, <4>4
    <3>3. CASE Close(c, o)
      <4> DEFINE u == counted[c]["up"]
                 v == counted[c]["down"]
      <4>1. /\ counted' = counted /\ active' = active \ {c}
            /\ stats' = [stats EXCEPT !.bytes = @ + u + v, !.up = @ + u, !.down = @ + v]
        BY <3>3 DEF Close
      <4>2. CASE d = "up"
        <5>1. stats'.up = stats.up + u
          <6> HIDE DEF u, v
          <6> QED BY <1>1, <4>1 DEF Stats
        <5> QED BY <3>1, <4>1, <4>2, <5>1
      <4>3. CASE d = "down"
        <5>1. stats'.down = stats.down + v
          <6> HIDE DEF u, v
          <6> QED BY <1>1, <4>1 DEF Stats
        <5> QED BY <3>1, <4>1, <4>3, <5>1
      <4> QED BY <4>2, <4>3 DEF Dir
    <3> QED BY <1>6, <3>2, <3>3 DEF EndsAs
  <2>2. Total(T, d, S) = T[c][d] + Total(T, d, S \ {c})
    BY <1>1, <2>1, TotalLessOne
  <2>3. T[c][d] \in Nat
    BY <1>1 DEF Tables
  <2> HIDE DEF T, S
  <2> QED BY <1>1, <1>2, <1>3, <2>1, <2>2, <2>3
<1>7. ASSUME NEW c \in Conn, NEW w \in Dir, Counts(c, w)
      PROVE  Displayed(d)' - Displayed(d) = Carried(d)' - Carried(d)
  <2>1. /\ c \in S /\ S' = S /\ stats' = stats
        /\ T' = [T EXCEPT ![c][w] = T[c][w] + 1]
    BY <1>7 DEF Counts, CountChunk, RecordsFiled, Live
  <2>2. T[c][d] \in Nat /\ T'[c][d] \in Nat
    BY <1>1 DEF Tables
  <2>3. \A x \in Conn : x # c => T'[x][d] = T[x][d]
    BY <1>1, <2>1 DEF Tables
  <2>4. ASSUME NEW R \in SUBSET Conn, c \in R
        PROVE  Total(T', d, R) - Total(T, d, R) = T'[c][d] - T[c][d]
    <3> DEFINE Q == R \ {c}
    <3>1. Q \in SUBSET Conn /\ \A x \in Q : T'[x][d] = T[x][d]
      BY <2>3
    <3>2. Total(T', d, R) = T'[c][d] + Total(T', d, Q) /\ Total(T, d, R) = T[c][d] + Total(T, d, Q)
      BY <1>1, <2>4, TotalLessOne
    <3> HIDE DEF Q
    <3>3. Total(T', d, Q) = Total(T, d, Q)
      BY <1>1, <3>1, TotalSame
    <3>4. Total(T, d, Q) \in Int
      BY <1>1, <3>1, TotalIsInt
    <3> QED BY <2>2, <3>2, <3>3, <3>4
  <2>5. /\ Total(T', d, S) - Total(T, d, S) = T'[c][d] - T[c][d]
        /\ Total(T', d, Conn) - Total(T, d, Conn) = T'[c][d] - T[c][d]
    BY <1>1, <2>1, <2>4
  <2> HIDE DEF T, S
  <2> QED BY <1>1, <1>2, <1>3, <2>1, <2>2, <2>5
<1> QED BY <1>4, <1>5, <1>6, <1>7, ReaderSteps

\* The traffic on display grows by what the relays counted and nothing else, for
\* any number of connections that open, relay and end in any order.
THEOREM TrafficConservedProved == Spec => TrafficConserved
<1>1. ASSUME TypeOK, TypeOK', HandlerInv, RecordsFiled, Uncounted, [Next]_vars
      PROVE  [Reset \/ \A d \in Dir : Displayed(d)' - Displayed(d) = Carried(d)' - Carried(d)]_vars
  BY <1>1, TrafficStep
<1> QED BY <1>1, TypeCorrect, HandlersInOrder, RecordsFiledProved, UncountedAlways, PTL
        DEF Spec, TrafficConserved

----------------------------------------------------------------------------
(* The refinement *)

\* The deque forgets at most its oldest entry.
LEMMA HistoryRemembers ==
    ASSUME TypeOK, NEW c \in Conn, history' = AddToHistory(c)
    PROVE  Lifecycle!Remember(c)
<1>1. history \in Seq(Conn)
  BY DEF TypeOK, TrackerTypeOK
<1>2. CASE Len(history) < MaxHistory
  <2>1. SubSeq(history, 1, Len(history)) = history
    BY <1>1
  <2>2. history' = Append(SubSeq(history, 1, Len(history)), c)
    BY <1>2, <2>1 DEF AddToHistory
  <2>3. QED
    BY <1>1, <2>2 DEF Lifecycle!Remember
<1>3. CASE ~(Len(history) < MaxHistory)
  <2>1. Len(history) >= 1 /\ Tail(history) = SubSeq(history, 2, Len(history))
    BY <1>1, <1>3, MaxHistoryAssumption
  <2>2. history' = Append(SubSeq(history, 2, Len(history)), c)
    BY <1>3, <2>1 DEF AddToHistory
  <2>3. 2 \in 1 .. Len(history) + 1
    BY <1>1, <2>1
  <2>4. QED
    BY <2>2, <2>3 DEF Lifecycle!Remember
<1>4. QED
  BY <1>2, <1>3

\* A new status of one connection is a new stage and outcome of that one.
LEMMA StageMoves ==
    ASSUME TypeOK, NEW c \in Conn, NEW s \in Status, status' = [status EXCEPT ![c] = s]
    PROVE  /\ [x \in Conn |-> StageOf(x)]' = [[x \in Conn |-> StageOf(x)] EXCEPT ![c] = StageOf(c)']
           /\ [x \in Conn |-> OutcomeOf(x)]'
                = [[x \in Conn |-> OutcomeOf(x)] EXCEPT ![c] = OutcomeOf(c)']
           /\ status'[c] = s
<1>1. status \in [Conn -> Status]
  BY DEF TypeOK, TrackerTypeOK
<1>2. \A x \in Conn : x # c => status'[x] = status[x]
  BY <1>1
<1>3. \A x \in Conn : x # c => StageOf(x)' = StageOf(x) /\ OutcomeOf(x)' = OutcomeOf(x)
  BY <1>2 DEF StageOf, OutcomeOf
<1>4. QED
  BY <1>1, <1>3

LEMMA StepRefines ==
    ASSUME TypeOK, HandlerInv, [Next]_vars
    PROVE  [Lifecycle!Next]_Lifecycle!lifeVars
<1>1. status \in [Conn -> Status] /\ history \in Seq(Conn)
  BY DEF TypeOK, TrackerTypeOK
<1>2. CASE Quiet
  BY <1>2 DEF Quiet, Lifecycle!lifeVars, StageOf, OutcomeOf
<1>3. CASE Reset
  BY <1>3 DEF Reset, SoftReset, Lifecycle!Next, Lifecycle!Forget, StageOf, OutcomeOf
<1>4. ASSUME NEW c \in Conn, Opens(c)
      PROVE  Lifecycle!Open(c)
  <2>1. status' = [status EXCEPT ![c] = "CONNECTING"] /\ UNCHANGED <<counted, history>>
    BY <1>4 DEF Opens, OpenConnection
  <2>2. StageOf(c) = "none" /\ OutcomeOf(c) = "none"
    BY <1>4 DEF Opens, StageOf, OutcomeOf, Ended
  <2>3. StageOf(c)' = "open" /\ OutcomeOf(c)' = "none"
    BY <1>1, <2>1 DEF StageOf, OutcomeOf, Ended
  <2>4. QED
    BY <2>1, <2>2, <2>3, StageMoves DEF Lifecycle!Open, Status, Live
<1>5. ASSUME NEW c \in Conn, Activates(c)
      PROVE  Lifecycle!Relay(c)
  <2>1. status' = [status EXCEPT ![c] = "ACTIVE"] /\ UNCHANGED <<counted, history>>
    BY <1>5 DEF Activates, Activate
  <2>2. StageOf(c) = "open" /\ OutcomeOf(c) = "none"
    BY <1>5 DEF Activates, StageOf, OutcomeOf, Ended
  <2>3. StageOf(c)' = "relaying" /\ OutcomeOf(c)' = "none"
    BY <1>1, <2>1 DEF StageOf, OutcomeOf, Ended
  <2>4. QED
    BY <2>1, <2>2, <2>3, StageMoves DEF Lifecycle!Relay, Status, Live
<1>6. ASSUME NEW c \in Conn, NEW o \in Ended, EndsAs(c, o)
      PROVE  Lifecycle!End(c)
  <2>1. /\ status' = [status EXCEPT ![c] = o]
        /\ history' = AddToHistory(c)
        /\ UNCHANGED counted
    BY <1>6 DEF EndsAs, Deny, Close
  <2>2. StageOf(c)' = "over" /\ OutcomeOf(c)' = o
    BY <1>1, <2>1 DEF StageOf, OutcomeOf, Ended
  <2>3. Lifecycle!Remember(c)
    BY <2>1, HistoryRemembers
  <2>4. o \in Lifecycle!Possible(StageOf(c))
    BY <1>6 DEF EndsAs
  <2>5. QED
    BY <2>1, <2>2, <2>3, <2>4, StageMoves DEF Lifecycle!End, Status
<1>7. ASSUME NEW c \in Conn, NEW d \in Dir, Counts(c, d)
      PROVE  Lifecycle!Count(c, d)
  <2>1. StageOf(c) = "relaying"
    BY <1>7 DEF Counts, StageOf, Ended
  <2>2. QED
    BY <1>7, <2>1 DEF Counts, CountChunk, Lifecycle!Count, StageOf, OutcomeOf
<1>8. Lifecycle!Way = Dir
  BY DEF Lifecycle!Way, Dir
<1>9. QED
  BY <1>2, <1>3, <1>4, <1>5, <1>6, <1>7, <1>8, ReaderSteps DEF Lifecycle!Next

\* The server with its tracker implements the abstract life of a connection:
\* opened once, ended once, with an outcome that fits how far it came.
THEOREM ImplementsLifecycleProved == Spec => ImplementsLifecycle
<1>1. Init => Lifecycle!Init
  BY DEF Init, TrackerInit, Lifecycle!Init, Lifecycle!Way, Dir, StageOf, OutcomeOf, Ended
<1>2. TypeOK /\ HandlerInv /\ [Next]_vars => [Lifecycle!Next]_Lifecycle!lifeVars
  BY StepRefines
<1>3. QED
  BY <1>1, <1>2, TypeCorrect, HandlersInOrder, PTL DEF Spec, ImplementsLifecycle, Lifecycle!Spec
=============================================================================
