------------------------------ MODULE Tracker ------------------------------
(***************************************************************************)
(* tracker.py: the registry of connection records that the handlers write  *)
(* and the dashboard reads.  A record is identified with the connection it *)
(* describes: a handler opens at most one, and _next_id never repeats, so  *)
(* record ids carry no more information than the connection itself.        *)
(*                                                                         *)
(* The operations are action operators over the tracker's variables; the   *)
(* handlers of ProxyServer call them.  Time stamps, addresses and the      *)
(* change callbacks (no caller registers one) are left out.                *)
(***************************************************************************)
EXTENDS Integers, Sequences, FiniteSets, FiniteSetsExt

CONSTANTS
    Conn,        \* accepted client connections, each with its handler and record
    MaxHistory   \* maxlen of the history deque (200 in the program)

ASSUME MaxHistoryAssumption == MaxHistory \in Nat \ {0}
ASSUME ConnAssumption == IsFiniteSet(Conn)

Dir == {"up", "down"}     \* bytes_sent and bytes_recv
Live == {"CONNECTING", "ACTIVE"}
Ended == {"CLOSED", "DENIED", "FAILED"}
Status == {"NONE"} \cup Live \cup Ended   \* NONE: no record yet

VARIABLES
    status,    \* ConnectionRecord.status
    counted,   \* ConnectionRecord.bytes_sent / bytes_recv, in chunks
    active,    \* keys of _active
    history,   \* _history, oldest first
    stats,     \* the aggregate counters
    version    \* structure_version

trackerVars == <<status, counted, active, history, stats, version>>

Stats == [connections : Nat, denied : Nat, bytes : Nat, up : Nat, down : Nat]

TrackerTypeOK ==
    /\ status \in [Conn -> Status]
    /\ counted \in [Conn -> [Dir -> Nat]]
    /\ active \in SUBSET Conn
    /\ history \in Seq(Conn)
    /\ stats \in Stats
    /\ version \in Nat

TrackerInit ==
    /\ status = [c \in Conn |-> "NONE"]
    /\ counted = [c \in Conn |-> [d \in Dir |-> 0]]
    /\ active = {}
    /\ history = <<>>
    /\ stats = [connections |-> 0, denied |-> 0, bytes |-> 0, up |-> 0, down |-> 0]
    /\ version = 0

----------------------------------------------------------------------------
(* Lifecycle operations. *)

OpenConnection(c) ==
    /\ status' = [status EXCEPT ![c] = "CONNECTING"]
    /\ active' = active \cup {c}
    /\ stats' = [stats EXCEPT !.connections = @ + 1]
    /\ version' = version + 1
    /\ UNCHANGED <<counted, history>>

Activate(c) ==
    /\ status' = [status EXCEPT ![c] = "ACTIVE"]
    /\ version' = version + 1
    /\ UNCHANGED <<counted, active, history, stats>>

\* Appending to a full deque drops its oldest entry.
AddToHistory(c) ==
    Append(IF Len(history) < MaxHistory THEN history ELSE Tail(history), c)

\* Mutant: the record is filed in the history but stays among the active ones.
DenyKeepsActive(c) ==
    /\ status' = [status EXCEPT ![c] = "DENIED"]
    /\ history' = AddToHistory(c)
    /\ stats' = [stats EXCEPT !.denied = @ + 1]
    /\ version' = version + 1
    /\ UNCHANGED <<counted, active>>

\* Mutant: a denial forgets to announce itself to the dashboard.
DenyUnversioned(c) ==
    /\ status' = [status EXCEPT ![c] = "DENIED"]
    /\ active' = active \ {c}
    /\ history' = AddToHistory(c)
    /\ stats' = [stats EXCEPT !.denied = @ + 1]
    /\ UNCHANGED <<counted, version>>

Deny(c) ==
    /\ status' = [status EXCEPT ![c] = "DENIED"]
    /\ active' = active \ {c}
    /\ history' = AddToHistory(c)
    /\ stats' = [stats EXCEPT !.denied = @ + 1]
    /\ version' = version + 1
    /\ UNCHANGED counted

\* Mutant: the record's upload bytes are dropped from the totals.
CloseForgetsUpload(c, outcome) ==
    /\ status' = [status EXCEPT ![c] = outcome]
    /\ stats' = [stats EXCEPT !.bytes = @ + counted[c]["up"] + counted[c]["down"],
                              !.down = @ + counted[c]["down"]]
    /\ active' = active \ {c}
    /\ history' = AddToHistory(c)
    /\ version' = version + 1
    /\ UNCHANGED counted

\* close(conn, failed): outcome is FAILED when failed is set, CLOSED otherwise.
Close(c, outcome) ==
    /\ status' = [status EXCEPT ![c] = outcome]
    /\ stats' = [stats EXCEPT !.bytes = @ + counted[c]["up"] + counted[c]["down"],
                              !.up = @ + counted[c]["up"],
                              !.down = @ + counted[c]["down"]]
    /\ active' = active \ {c}
    /\ history' = AddToHistory(c)
    /\ version' = version + 1
    /\ UNCHANGED counted

\* The closures of make_upload_counter and make_download_counter, for one chunk.
CountChunk(c, d) ==
    /\ counted' = [counted EXCEPT ![c][d] = @ + 1]
    /\ UNCHANGED <<status, active, history, stats, version>>

\* Mutant: the reset also zeroes the number of connections still running.
SoftResetToZero ==
    /\ history' = <<>>
    /\ stats' = [stats EXCEPT !.connections = 0, !.denied = 0, !.up = 0, !.down = 0]
    /\ version' = version + 1
    /\ UNCHANGED <<status, counted, active>>

\* The dashboard's session reset (tracker part): clear_history and the counters,
\* total_bytes excepted.
SoftReset ==
    /\ history' = <<>>
    /\ stats' = [stats EXCEPT !.connections = Cardinality(active),
                              !.denied = 0, !.up = 0, !.down = 0]
    /\ version' = version + 1
    /\ UNCHANGED <<status, counted, active>>

----------------------------------------------------------------------------
(* What the dashboard shows as traffic: closed connections plus active ones. *)

Displayed(d) == stats[d] + MapThenSumSet(LAMBDA c : counted[c][d], active)

Carried(d) == MapThenSumSet(LAMBDA c : counted[c][d], Conn)
=============================================================================
