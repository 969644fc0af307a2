---------------------------- MODULE ProxyServer ----------------------------
(***************************************************************************)
(* server.py with relay.py: one handler task per accepted client, the two  *)
(* pipes of its relay, the registry of running relays that the dashboard   *)
(* kills through, the connection cap, and the shutdown.                    *)
(*                                                                         *)
(* Everything runs in one event loop, so a step is what a task does        *)
(* between two awaits.  A cancelled task sees the cancellation only at its *)
(* next await, and may first complete the await it is in.                  *)
(*                                                                         *)
(* The filter verdict, the result of a lookup or a dial, and what clients  *)
(* and targets send are nondeterministic here.                             *)
(***************************************************************************)
EXTENDS Tracker

CONSTANTS
    MaxConnections,   \* the cap on handlers past the semaphore; 0: no cap
    MaxChunks         \* bound: chunks a pipe moves in one direction

ASSUME MaxConnectionsAssumption == MaxConnections \in Nat
ASSUME MaxChunksAssumption == MaxChunks \in Nat

VARIABLES
    serving,      \* what start() is doing
    listening,    \* the listener socket is open
    slots,        \* value of the semaphore
    pc,           \* where each handler task is
    answer,       \* the reply the handler decided on
    told,         \* connections whose client was sent that reply
    clientOpen,   \* client sockets the proxy holds
    targetOpen,   \* connections whose target socket is open
    registered,   \* keys of _cancel_scopes and _conn_throttle
    killed,       \* connections whose relay scope was cancelled
    pipe,         \* where each pipe task of a relay is
    delivered     \* chunks each pipe has written to its destination

serverVars == <<serving, listening, slots, pc, answer, told, clientOpen,
                targetOpen, registered, killed, pipe, delivered>>
vars == <<trackerVars, serverVars>>

Serving == {"starting", "accepting", "cancelling", "returned"}

\* "new": not accepted yet.  "queued": waiting for a semaphore slot.
\* "closing": the tracker is done with the connection, the streams are not.
\* "crashing": an unexpected exception is unwinding to the catch-all.
\* "dropped": cancelled in the queue; "cancelled": cancelled past the semaphore.
Phase == {"new", "queued", "handshake", "resolving", "dialing", "replying",
          "delaying", "relaying", "closing", "crashing",
          "returned", "crashed", "cancelled", "dropped"}
Finished == {"returned", "crashed", "cancelled", "dropped"}
Relaying == {"delaying", "relaying"}
HoldsSlot == Phase \ (Finished \cup {"new", "queued"})

Refusal == {"CONNECTION_REFUSED", "HOST_UNREACHABLE"}
Answer == Refusal \cup {"none", "SUCCEEDED", "NOT_ALLOWED", "GENERAL_FAILURE"}

\* "draining": written to the destination, not counted yet.
Pipe == {"idle", "receiving", "sending", "draining", "sleeping", "over", "broken"}
PipeStopped == {"over", "broken"}

TypeOK ==
    /\ TrackerTypeOK
    /\ serving \in Serving
    /\ listening \in BOOLEAN
    /\ slots \in Nat
    /\ pc \in [Conn -> Phase]
    /\ answer \in [Conn -> Answer]
    /\ told \in SUBSET Conn
    /\ clientOpen \in SUBSET Conn
    /\ targetOpen \in SUBSET Conn
    /\ registered \in SUBSET Conn
    /\ killed \in SUBSET Conn
    /\ pipe \in [Conn -> [Dir -> Pipe]]
    /\ delivered \in [Conn -> [Dir -> Nat]]

Init ==
    /\ TrackerInit
    /\ serving = "starting" /\ listening = FALSE
    /\ slots = MaxConnections
    /\ pc = [c \in Conn |-> "new"]
    /\ answer = [c \in Conn |-> "none"]
    /\ told = {} /\ clientOpen = {} /\ targetOpen = {}
    /\ registered = {} /\ killed = {}
    /\ pipe = [c \in Conn |-> [d \in Dir |-> "idle"]]
    /\ delivered = [c \in Conn |-> [d \in Dir |-> 0]]

relayVars == <<registered, killed, pipe, delivered>>
socketVars == <<clientOpen, targetOpen>>
serveVars == <<serving, listening>>

Goto(c, p) == pc' = [pc EXCEPT ![c] = p]

----------------------------------------------------------------------------
(* start() and stop() *)

Bind ==
    /\ serving = "starting"
    /\ serving' = "accepting" /\ listening' = TRUE
    /\ UNCHANGED <<trackerVars, slots, pc, answer, told, socketVars, relayVars>>

BindFails ==
    /\ serving = "starting"
    /\ serving' = "returned"
    /\ UNCHANGED <<trackerVars, listening, slots, pc, answer, told, socketVars, relayVars>>

Stop ==
    /\ listening
    /\ listening' = FALSE
    /\ UNCHANGED <<trackerVars, serving, slots, pc, answer, told, socketVars, relayVars>>

\* accept() on the closed listener raises inside serve()'s task group, which
\* cancels every handler the group started.
AcceptFails ==
    /\ serving = "accepting" /\ ~listening
    /\ serving' = "cancelling"
    /\ UNCHANGED <<trackerVars, listening, slots, pc, answer, told, socketVars, relayVars>>

ServeReturns ==
    /\ serving = "cancelling"
    /\ \A c \in Conn : pc[c] \in Finished \cup {"new"}
    /\ serving' = "returned"
    /\ UNCHANGED <<trackerVars, listening, slots, pc, answer, told, socketVars, relayVars>>

Accept(c) ==
    /\ serving = "accepting" /\ listening
    /\ pc[c] = "new"
    /\ Goto(c, IF MaxConnections = 0 THEN "handshake" ELSE "queued")
    /\ clientOpen' = clientOpen \cup {c}
    /\ UNCHANGED <<trackerVars, serveVars, slots, answer, told, targetOpen, relayVars>>

----------------------------------------------------------------------------
(* The semaphore around the handler body *)

\* Mutant: the semaphore is decremented without looking at its value.
AcquireBelowZero(c) ==
    /\ pc[c] = "queued"
    /\ slots' = slots - 1
    /\ Goto(c, "handshake")
    /\ UNCHANGED <<trackerVars, serveVars, answer, told, socketVars, relayVars>>

AcquireSlot(c) ==
    /\ pc[c] = "queued" /\ slots > 0
    /\ slots' = slots - 1
    /\ Goto(c, "handshake")
    /\ UNCHANGED <<trackerVars, serveVars, answer, told, socketVars, relayVars>>

\* Mutant: a handler that is cancelled keeps its slot.
ReleaseSlotIfReturning(c) ==
    slots' = IF MaxConnections > 0 /\ pc[c] = "closing" THEN slots + 1 ELSE slots

ReleaseSlot(c) ==
    slots' = IF MaxConnections > 0 /\ pc[c] \in HoldsSlot THEN slots + 1 ELSE slots

----------------------------------------------------------------------------
(* Phase 1: the handshake, under a 5 s timer *)

\* No acceptable method, not a CONNECT request, or the client gone.
HandshakeAborts(c) ==
    /\ pc[c] = "handshake"
    /\ Goto(c, "closing")
    /\ UNCHANGED <<trackerVars, serveVars, slots, answer, told, socketVars, relayVars>>

\* Mutant: the handshake runs without its timer.
NoHandshakeTimer(c) == FALSE

HandshakeTimeout(c) == HandshakeAborts(c)

RequestMalformed(c) ==
    /\ pc[c] = "handshake"
    /\ Goto(c, "replying")
    /\ answer' = [answer EXCEPT ![c] = "GENERAL_FAILURE"]
    /\ UNCHANGED <<trackerVars, serveVars, slots, told, socketVars, relayVars>>

(* Phase 2 and 3: classify, record, filter, look up the throttle: no await. *)

RequestDenied(c) ==
    /\ pc[c] = "handshake"
    /\ OpenConnection(c)
    /\ Goto(c, "replying")
    /\ answer' = [answer EXCEPT ![c] = "NOT_ALLOWED"]
    /\ UNCHANGED <<serveVars, slots, told, socketVars, relayVars>>

\* An IP literal or a cached name goes straight to the dial.
RequestAllowed(c) ==
    /\ pc[c] = "handshake"
    /\ OpenConnection(c)
    /\ \E p \in {"resolving", "dialing"} : Goto(c, p)
    /\ UNCHANGED <<serveVars, slots, answer, told, socketVars, relayVars>>

----------------------------------------------------------------------------
(* Phase 3: resolve and connect, under the connect timer *)

\* getaddrinfo runs in a worker thread.  Waiting for a free worker can be
\* cancelled; a lookup that has started cannot, so neither the timer nor a
\* shutdown is sure to move the handler before the thread returns.
Resolved(c) ==
    /\ pc[c] = "resolving"
    /\ Goto(c, "dialing")
    /\ UNCHANGED <<trackerVars, serveVars, slots, answer, told, socketVars, relayVars>>

\* A name the IDNA codec rejects raises UnicodeError, which is no OSError: only
\* the catch-all of the handler sees it.
ResolverRaises(c) ==
    /\ pc[c] = "resolving"
    /\ Goto(c, "crashing")
    /\ UNCHANGED <<trackerVars, serveVars, slots, answer, told, socketVars, relayVars>>

\* gaierror, or a refused or unreachable dial.
ConnectFails(c, why) ==
    /\ pc[c] \in {"resolving", "dialing"}
    /\ pc[c] = "resolving" => why = "HOST_UNREACHABLE"
    /\ Goto(c, "replying")
    /\ answer' = [answer EXCEPT ![c] = why]
    /\ UNCHANGED <<trackerVars, serveVars, slots, told, socketVars, relayVars>>

\* Mutant: the dial runs without its timer.
NoDialTimer(c) == FALSE

\* The connect timer; on a lookup waiting for a worker it is ConnectFails.
DialTimeout(c) == pc[c] = "dialing" /\ ConnectFails(c, "HOST_UNREACHABLE")

Dialed(c) ==
    /\ pc[c] = "dialing"
    /\ targetOpen' = targetOpen \cup {c}
    /\ answer' = [answer EXCEPT ![c] = "SUCCEEDED"]
    /\ Goto(c, "replying")
    /\ UNCHANGED <<trackerVars, serveVars, slots, told, clientOpen, relayVars>>

----------------------------------------------------------------------------
(* await send_reply and what follows it *)

\* The reply was sent, or the client is gone and the exception is swallowed.
ReplyDelivered(c) == told' \in {told, told \cup {c}}

\* Mutant: the denied connection is closed as a failed one.
DeniedRecordedFailed(c) ==
    /\ pc[c] = "replying" /\ answer[c] = "NOT_ALLOWED"
    /\ ReplyDelivered(c)
    /\ Close(c, "FAILED")
    /\ Goto(c, "closing")
    /\ UNCHANGED <<serveVars, slots, answer, socketVars, relayVars>>

DeniedReplied(c) ==
    /\ pc[c] = "replying" /\ answer[c] = "NOT_ALLOWED"
    /\ ReplyDelivered(c)
    /\ Deny(c)
    /\ Goto(c, "closing")
    /\ UNCHANGED <<serveVars, slots, answer, socketVars, relayVars>>

\* Mutant: a failed connect is closed without failed=True.
FailureRecordedClosed(c) ==
    /\ pc[c] = "replying" /\ answer[c] \in Refusal
    /\ ReplyDelivered(c)
    /\ Close(c, "CLOSED")
    /\ Goto(c, "closing")
    /\ UNCHANGED <<serveVars, slots, answer, socketVars, relayVars>>

\* Mutant: the early return of the failure path forgets the record.
FailureUnrecorded(c) ==
    /\ pc[c] = "replying" /\ answer[c] \in Refusal
    /\ ReplyDelivered(c)
    /\ Goto(c, "closing")
    /\ UNCHANGED <<trackerVars, serveVars, slots, answer, socketVars, relayVars>>

FailureReplied(c) ==
    /\ pc[c] = "replying" /\ answer[c] \in Refusal
    /\ ReplyDelivered(c)
    /\ Close(c, "FAILED")
    /\ Goto(c, "closing")
    /\ UNCHANGED <<serveVars, slots, answer, socketVars, relayVars>>

MalformedReplied(c) ==
    /\ pc[c] = "replying" /\ answer[c] = "GENERAL_FAILURE"
    /\ ReplyDelivered(c)
    /\ Goto(c, "closing")
    /\ UNCHANGED <<trackerVars, serveVars, slots, answer, socketVars, relayVars>>

ClientLeftBeforeTunnel(c) ==
    /\ pc[c] = "replying" /\ answer[c] = "SUCCEEDED"
    /\ Close(c, "FAILED")
    /\ Goto(c, "closing")
    /\ UNCHANGED <<serveVars, slots, answer, told, socketVars, relayVars>>

\* Reply sent: activate, register the relay scope, enter relay_streams (whose
\* delay may be zero).
TunnelOpens(c) ==
    /\ pc[c] = "replying" /\ answer[c] = "SUCCEEDED"
    /\ told' = told \cup {c}
    /\ Activate(c)
    /\ registered' = registered \cup {c}
    /\ Goto(c, "delaying")
    /\ UNCHANGED <<serveVars, slots, answer, socketVars, killed, pipe, delivered>>

----------------------------------------------------------------------------
(* Phase 4 and 5: the relay *)

StartPipes(c) ==
    /\ pc[c] = "delaying"
    /\ Goto(c, "relaying")
    /\ pipe' = [pipe EXCEPT ![c] = [d \in Dir |-> "receiving"]]
    /\ UNCHANGED <<trackerVars, serveVars, slots, answer, told, socketVars,
                   registered, killed, delivered>>

PipeStep(c, d, from, to) ==
    /\ pipe[c][d] \in from
    /\ pipe' = [pipe EXCEPT ![c][d] = to]
    /\ UNCHANGED <<serveVars, slots, pc, answer, told, socketVars, registered, killed>>

PipeReceives(c, d) ==
    /\ delivered[c][d] < MaxChunks
    /\ PipeStep(c, d, {"receiving"}, "sending")
    /\ UNCHANGED <<trackerVars, delivered>>

\* dest.send writes the chunk, then may wait for the transport to drain.
PipeDelivers(c, d) ==
    /\ PipeStep(c, d, {"sending"}, "draining")
    /\ delivered' = [delivered EXCEPT ![c][d] = @ + 1]
    /\ UNCHANGED trackerVars

\* Mutant: the chunk is counted as soon as it is read.
PipeCountsEarly(c, d) ==
    /\ \/ pipe[c][d] = "draining" /\ UNCHANGED trackerVars
       \/ pipe[c][d] = "sending" /\ CountChunk(c, d)
    /\ \E to \in {"receiving", "sleeping"} : PipeStep(c, d, {"sending", "draining"}, to)
    /\ UNCHANGED delivered

\* on_data, then the next receive or the pacing sleep.
PipeCounts(c, d) ==
    /\ \E to \in {"receiving", "sleeping"} : PipeStep(c, d, {"draining"}, to)
    /\ CountChunk(c, d)
    /\ UNCHANGED delivered

PipeWakes(c, d) ==
    /\ PipeStep(c, d, {"sleeping"}, "receiving")
    /\ UNCHANGED <<trackerVars, delivered>>

\* EOF or a reset connection on either stream: the pipe returns silently.
PipeEnds(c, d) ==
    /\ PipeStep(c, d, {"receiving", "sending", "draining"}, "over")
    /\ UNCHANGED <<trackerVars, delivered>>

\* Any other exception is raised again as RuntimeError.
PipeBreaks(c, d) ==
    /\ PipeStep(c, d, {"receiving", "sending", "draining"}, "broken")
    /\ UNCHANGED <<trackerVars, delivered>>

\* Mutant: a pipe that ends leaves its sibling running.
SiblingNotCancelled(c) == c \in killed \/ serving = "cancelling"

\* Mutant: the kill sets a flag that no pipe looks at.
KillIgnored(c) == serving = "cancelling" \/ \E d \in Dir : pipe[c][d] \in PipeStopped

\* Mutant: the shutdown does not reach the pipes.
ShutdownIgnored(c) == c \in killed \/ \E d \in Dir : pipe[c][d] \in PipeStopped

\* _pipe_and_cancel cancels the group however its pipe ended.
GroupCancelled(c) ==
    \/ c \in killed
    \/ serving = "cancelling"
    \/ \E d \in Dir : pipe[c][d] \in PipeStopped

PipeCancelled(c, d) ==
    /\ GroupCancelled(c)
    /\ PipeStep(c, d, Pipe \ (PipeStopped \cup {"idle"}), "over")
    /\ UNCHANGED <<trackerVars, delivered>>

\* cancel_connection: only a registered relay can be killed.
Kill(c) ==
    /\ c \in registered
    /\ killed' = killed \cup {c}
    /\ UNCHANGED <<trackerVars, serveVars, slots, pc, answer, told, socketVars,
                   registered, pipe, delivered>>

RelayStopped(c) ==
    /\ pc[c] = "relaying"
    /\ \A d \in Dir : pipe[c][d] \in PipeStopped

RelayBroke(c) == \E d \in Dir : pipe[c][d] = "broken"

\* Mutant: the finally block does not unregister the relay.
LeaveRelayRegistered(c, outcome) ==
    /\ Close(c, outcome)
    /\ Goto(c, "closing")
    /\ UNCHANGED <<serveVars, slots, answer, told, socketVars,
                   registered, killed, pipe, delivered>>

\* relay_streams is over: unregister, record the outcome.
LeaveRelay(c, outcome) ==
    /\ registered' = registered \ {c}
    /\ Close(c, outcome)
    /\ Goto(c, "closing")
    /\ UNCHANGED <<serveVars, slots, answer, told, socketVars, killed, pipe, delivered>>

\* Both pipes ended by themselves, or a kill came too late to be seen.
RelayCloses(c) ==
    /\ RelayStopped(c) /\ ~RelayBroke(c)
    /\ LeaveRelay(c, "CLOSED")

RelayFails(c) ==
    /\ RelayStopped(c) /\ RelayBroke(c)
    /\ LeaveRelay(c, "FAILED")

\* The relay scope caught the cancellation.
RelayKilled(c) ==
    /\ c \in killed
    /\ pc[c] = "delaying" \/ (RelayStopped(c) /\ ~RelayBroke(c))
    /\ LeaveRelay(c, "FAILED")

----------------------------------------------------------------------------
(* The end of a handler *)

\* Mutant: the client stream is closed by the last statement of the handler, which
\* a cancellation skips, and not by "async with".
ReleaseClientAtEnd(c) ==
    /\ clientOpen' = IF pc'[c] = "cancelled" THEN clientOpen ELSE clientOpen \ {c}
    /\ targetOpen' = targetOpen \ {c}

\* Leaving the two "async with" blocks.
ReleaseStreams(c) ==
    /\ clientOpen' = clientOpen \ {c}
    /\ targetOpen' = targetOpen \ {c}

StreamsClosed(c) ==
    /\ pc[c] \in {"closing", "crashing"}
    /\ Goto(c, IF pc[c] = "closing" THEN "returned" ELSE "crashed")
    /\ ReleaseStreams(c)
    /\ ReleaseSlot(c)
    /\ UNCHANGED <<trackerVars, serveVars, answer, told, relayVars>>

\* A handler that is still queued has not entered "async with client_stream".
QueuedCancelled(c) ==
    /\ serving = "cancelling"
    /\ pc[c] = "queued"
    /\ Goto(c, "dropped")
    /\ UNCHANGED <<trackerVars, serveVars, slots, answer, told, socketVars, relayVars>>

\* No except clause of the handler catches the cancellation, so nothing is
\* recorded; the finally blocks and context managers do run.
HandlerCancelled(c) ==
    /\ serving = "cancelling"
    /\ \/ pc[c] \in {"handshake", "resolving", "dialing", "replying", "delaying",
                     "closing", "crashing"}
       \/ RelayStopped(c) /\ ~RelayBroke(c)
    /\ Goto(c, "cancelled")
    /\ IF pc[c] = "replying" THEN ReplyDelivered(c) ELSE UNCHANGED told
    /\ ReleaseStreams(c)
    /\ ReleaseSlot(c)
    /\ registered' = registered \ {c}
    /\ UNCHANGED <<trackerVars, serveVars, answer, killed, pipe, delivered>>

\* The dashboard's session reset.  One with an empty history is left out here: it
\* would raise structure_version without bound and change nothing else.
Reset == history # <<>> /\ SoftReset /\ UNCHANGED serverVars

----------------------------------------------------------------------------
Server == Bind \/ BindFails \/ Stop \/ AcceptFails \/ ServeReturns \/ Reset

HandlerStep(c) ==
    \/ Accept(c) \/ AcquireSlot(c)
    \/ HandshakeAborts(c) \/ HandshakeTimeout(c) \/ RequestMalformed(c)
    \/ RequestDenied(c) \/ RequestAllowed(c)
    \/ Resolved(c) \/ ResolverRaises(c) \/ Dialed(c)
    \/ DialTimeout(c) \/ \E why \in Refusal : ConnectFails(c, why)
    \/ DeniedReplied(c) \/ FailureReplied(c) \/ MalformedReplied(c)
    \/ ClientLeftBeforeTunnel(c) \/ TunnelOpens(c)
    \/ StartPipes(c) \/ Kill(c)
    \/ RelayCloses(c) \/ RelayFails(c) \/ RelayKilled(c)
    \/ StreamsClosed(c) \/ QueuedCancelled(c) \/ HandlerCancelled(c)

RelayStep(c, d) ==
    \/ PipeReceives(c, d) \/ PipeDelivers(c, d) \/ PipeCounts(c, d)
    \/ PipeWakes(c, d) \/ PipeEnds(c, d) \/ PipeBreaks(c, d) \/ PipeCancelled(c, d)

Next ==
    \/ Server
    \/ \E c \in Conn : HandlerStep(c)
    \/ \E c \in Conn, d \in Dir : RelayStep(c, d)

Spec == Init /\ [][Next]_vars

ResolverReturns(c) ==
    Resolved(c) \/ ResolverRaises(c) \/ (pc[c] = "resolving" /\ ConnectFails(c, "HOST_UNREACHABLE"))

ReplySettles(c) ==
    \/ DeniedReplied(c) \/ FailureReplied(c) \/ MalformedReplied(c)
    \/ ClientLeftBeforeTunnel(c) \/ TunnelOpens(c)

RelayEnds(c) == RelayCloses(c) \/ RelayFails(c) \/ RelayKilled(c)

\* What the event loop, the timers and the kernel bring about by themselves.  A
\* client, a target and the operator never have to do anything.
Fairness ==
    /\ WF_vars(AcceptFails) /\ WF_vars(ServeReturns)
    /\ \A c \in Conn :
         /\ WF_vars(HandshakeTimeout(c)) /\ WF_vars(DialTimeout(c))
         /\ WF_vars(ResolverReturns(c))
         /\ WF_vars(ReplySettles(c))
         /\ WF_vars(StartPipes(c))
         /\ WF_vars(RelayEnds(c))
         /\ WF_vars(StreamsClosed(c))
         /\ WF_vars(QueuedCancelled(c))
         /\ WF_vars(pc[c] # "resolving" /\ HandlerCancelled(c))
         /\ \A d \in Dir : WF_vars(PipeCancelled(c, d))

FairSpec == Spec /\ Fairness

----------------------------------------------------------------------------
(* Safety *)

\* A record is among the active ones exactly until it has an outcome; the
\* history holds ended records only, each once, at most MaxHistory of them.
RecordsFiled ==
    /\ active = {c \in Conn : status[c] \in Live}
    /\ \A i \in DOMAIN history : status[history[i]] \in Ended
    /\ \A i, j \in DOMAIN history : history[i] = history[j] => i = j
    /\ Len(history) <= MaxHistory

\* A handler that returns, by whichever of its early returns, has given the
\* record it opened an outcome.
ReturnFilesRecord ==
    \A c \in Conn : pc[c] \in {"closing", "returned"} => status[c] \notin Live

\* cancel_connection finds a connection exactly while its relay runs: a kill
\* never reaches a record that is not ACTIVE or a stream that is gone.
KillableWhileRelaying ==
    /\ registered = {c \in Conn : pc[c] \in Relaying}
    /\ \A c \in registered : status[c] = "ACTIVE"
    /\ registered \subseteq clientOpen \cap targetOpen

\* The dashboard and the client are told the same story: what a record says
\* happened is what the SOCKS reply said, and data moves only behind SUCCEEDED.
OutcomeMatchesReply ==
    \A c \in Conn :
        /\ status[c] = "DENIED" => answer[c] = "NOT_ALLOWED"
        /\ status[c] \in {"ACTIVE", "CLOSED"} => answer[c] = "SUCCEEDED" /\ c \in told
        /\ status[c] = "FAILED" => answer[c] \in Refusal \cup {"SUCCEEDED"}
        /\ (\E d \in Dir : delivered[c][d] > 0) => answer[c] = "SUCCEEDED" /\ c \in told

\* A target socket is open only from the dial to the end of its handler; and a
\* handler that got past the semaphore leaves no socket behind, whether it returned,
\* crashed or was cancelled.  One that is dropped from the queue does leave its own.
SocketsFollowHandler ==
    /\ \A c \in targetOpen :
         /\ pc[c] \in Relaying \cup {"replying", "closing"}
         /\ answer[c] = "SUCCEEDED"
    /\ \A c \in Conn : pc[c] \in HoldsSlot \cup {"queued"} => c \in clientOpen
    /\ \A c \in Conn : pc[c] \in Finished \ {"dropped"} => c \notin clientOpen

\* A pipe counts exactly what it delivered; a chunk can go uncounted only when
\* the pipe was stopped between the write and on_data.
CountedAsDelivered ==
    \A c \in Conn, d \in Dir :
        LET uncounted == delivered[c][d] - counted[c][d]
        IN  /\ uncounted \in {0, 1}
            /\ uncounted = 1 => pipe[c][d] \in PipeStopped \cup {"draining"}
            /\ pipe[c][d] = "draining" => uncounted = 1

\* The connection counter covers the active and the denied connections, also
\* across a session reset in the middle of running connections.
ConnectionsAccounted == stats.connections >= Cardinality(active) + stats.denied

\* Semaphore slots are neither lost nor minted, whichever way handlers end, so
\* never more than MaxConnections handlers are past the semaphore.
SlotsConserved ==
    MaxConnections > 0 =>
        slots + Cardinality({c \in Conn : pc[c] \in HoldsSlot}) = MaxConnections

(* Action properties *)

\* The traffic the dashboard shows grows by what the relays counted and by
\* nothing else; only a session reset takes anything off.
TrafficConserved ==
    [][Reset \/ \A d \in Dir : Displayed(d)' - Displayed(d) = Carried(d)' - Carried(d)]_vars

\* structure_version is what a reader of the tracker may compare to see whether
\* anything changed: no record changes its status, or its list, without it.
ChangesAreVersioned ==
    [][<<status, active, history>>' # <<status, active, history>> => version' > version]_vars

(* Liveness *)

\* A client that connects and stays silent does not hold its handler.
HandshakeEnds == \A c \in Conn : pc[c] = "handshake" ~> pc[c] # "handshake"

\* A request that was recorded gets an outcome or a relay, unless the handler
\* crashed or was cancelled.
ConnectingSettles ==
    \A c \in Conn :
        status[c] = "CONNECTING"
            ~> (status[c] # "CONNECTING" \/ pc[c] \in {"crashed", "cancelled"})

\* A killed relay ends, whatever its streams do.
KillEndsRelay == \A c \in Conn : c \in killed ~> c \notin registered

\* When one direction ends, the other does not keep the connection open.
OneSideEndsBoth ==
    \A c \in Conn : (\E d \in Dir : pipe[c][d] \in PipeStopped) ~> pc[c] \in Finished

\* After stop(), start() returns.
StopEndsServe == (serving = "accepting" /\ ~listening) ~> serving = "returned"

----------------------------------------------------------------------------
(* What the documentation says and the code does not do. *)

\* ARCHITECTURE.md:127: _active holds the live connections.
ActiveAreLive == \A c \in active : pc[c] # "crashed"

----------------------------------------------------------------------------
\* How far the record of a connection is, and how it ended.
StageOf(c) ==
    CASE status[c] = "NONE" -> "none"
      [] status[c] = "CONNECTING" -> "open"
      [] status[c] = "ACTIVE" -> "relaying"
      [] status[c] \in Ended -> "over"

OutcomeOf(c) == IF status[c] \in Ended THEN status[c] ELSE "none"

Lifecycle ==
    INSTANCE ConnLifecycle WITH
        stage <- [c \in Conn |-> StageOf(c)],
        outcome <- [c \in Conn |-> OutcomeOf(c)],
        traffic <- counted,
        recent <- history

\* Every step of the server is a step of the abstract life of one connection.
ImplementsLifecycle == Lifecycle!Spec
=============================================================================
