---------------------------- MODULE RelayPacing ----------------------------
(***************************************************************************)
(* relay.py, the throttle of one pipe: how the loop of relay_streams spends *)
(* the limit of its ThrottleState while the dashboard changes it.  Both     *)
(* pipes run the same loop with a window of their own, so one is enough;    *)
(* how a pipe ends is in ProxyServer.                                       *)
(*                                                                         *)
(* Time is in ticks, traffic in the units of the smallest read, limits in   *)
(* units per second.  The limits divide a second, so that every expected    *)
(* time is a whole number of ticks and no sleep is below the millisecond    *)
(* the loop skips.                                                          *)
(***************************************************************************)
EXTENDS Integers

CONSTANTS
    Rate,       \* limits the operator gives, in units per second
    None,       \* no limit
    Second,     \* ticks of one second
    ChunkSize,  \* chunk_size: the largest read, in units
    MaxWindow,  \* bound: units counted in one window
    MaxElapsed  \* bound: a window is not seen to grow older than this

ASSUME RateAssumption ==
    /\ Second \in Nat \ {0} /\ ChunkSize \in Nat \ {0}
    /\ Rate \subseteq Nat \ {0} /\ None \notin Int
    /\ \A r \in Rate : Second % r = 0
ASSUME BoundAssumption ==
    /\ MaxWindow \in Nat /\ MaxElapsed \in Nat
    /\ \A r \in Rate : MaxElapsed > (MaxWindow + ChunkSize) * (Second \div r) + Second

\* Zero is a limit like another for the commands and none for the relay.
Limit == Rate \cup {None, 0}

Throttles(l) == l \in Rate

VARIABLES
    limit,    \* the ThrottleState's limit in this direction
    pc,       \* where the loop waits: "receive", "send" or "sleep"
    bps,      \* the limit read at the top of the loop
    lastBps,  \* last_bps; -1 before the first chunk
    bytes,    \* window_bytes
    elapsed,  \* time since window_start
    data,     \* length of the last chunk received
    wake,     \* ticks the sleep has left
    debt      \* ghost: sent since the limit was given, beyond what it has allowed

vars == <<limit, pc, bps, lastBps, bytes, elapsed, data, wake, debt>>

Least(a, b) == IF a < b THEN a ELSE b
Largest(a, b) == IF a < b THEN b ELSE a

\* The most the loop reads at once: a tenth of a second of the limit.
Effective(l) == IF Throttles(l) THEN Least(ChunkSize, Largest(1, l \div 10)) ELSE ChunkSize

\* The time n units take at limit l.
Expected(n, l) == n * (Second \div l)

----------------------------------------------------------------------------

\* To the top of the loop, where the limit is read, and into the receive.
NextRead ==
    /\ pc' = "receive" /\ wake' = 0
    /\ bps' = limit

Init ==
    /\ limit \in Limit
    /\ pc = "receive" /\ bps = limit
    /\ lastBps = -1 /\ bytes = 0 /\ elapsed = 0
    /\ data = 0 /\ wake = 0 /\ debt = 0

\* The source had something; it may have waited for it.
Receive ==
    /\ pc = "receive"
    /\ data' \in 1..Effective(bps)
    /\ pc' = "send"
    /\ UNCHANGED <<limit, bps, lastBps, bytes, elapsed, wake, debt>>

\* The chunk is charged to the limit in force, which may be younger than the
\* one it was read under.
Charge == debt' = IF Throttles(limit) THEN debt + data * Second ELSE 0

\* Mutant: a window outlives the limit it was begun for.
NewWindowAtFirst == lastBps = -1

\* The limit is another one than for the chunk before, or this is the first.
NewWindow == bps # lastBps

SentUnthrottled ==
    /\ pc = "send" /\ ~Throttles(bps)
    /\ lastBps' = bps
    /\ bytes' = IF NewWindow THEN 0 ELSE bytes
    /\ elapsed' = IF NewWindow THEN 0 ELSE elapsed
    /\ Charge /\ NextRead
    /\ UNCHANGED <<limit, data>>

\* Mutant: the credit of an idle time is never cut.
NeverTooFarBehind(counted, age) == FALSE

\* More than a second behind what the limit allows.
TooFarBehind(counted, age) == age > Expected(counted, bps) + Second

\* The pipe is ahead of its limit.
SleepsFor(surplus) == surplus > 0

(* The window is brought up to date with the chunk, or begun again with it; *)
(* what is ahead of the limit is slept off.                                 *)
SentThrottled ==
    LET counted == (IF NewWindow THEN 0 ELSE bytes) + data
        age == IF NewWindow THEN 0 ELSE elapsed
        reset == TooFarBehind(counted, age)
        surplus == Expected(bytes', bps) - elapsed'
    IN  /\ pc = "send" /\ Throttles(bps)
        /\ lastBps' = bps
        /\ bytes' = IF reset THEN data ELSE counted
        /\ bytes' <= MaxWindow
        /\ elapsed' = IF reset THEN 0 ELSE age
        /\ IF SleepsFor(surplus)
           THEN pc' = "sleep" /\ wake' = surplus /\ UNCHANGED bps
           ELSE NextRead
        /\ Charge
        /\ UNCHANGED <<limit, data>>

\* The sleep is over; the event loop may be late.
Wake ==
    /\ pc = "sleep" /\ wake = 0
    /\ NextRead
    /\ UNCHANGED <<limit, lastBps, bytes, elapsed, data, debt>>

\* set_conn_throttle, from a command of the dashboard.
ChangeLimit ==
    /\ limit' \in Limit \ {limit}
    /\ debt' = 0
    /\ UNCHANGED <<pc, bps, lastBps, bytes, elapsed, data, wake>>

\* A tick of time.monotonic.
Tick ==
    /\ elapsed' = Least(elapsed + 1, MaxElapsed)
    /\ wake' = Largest(wake - 1, 0)
    /\ debt' = IF Throttles(limit) THEN Largest(debt - limit, 0) ELSE 0
    /\ UNCHANGED <<limit, pc, bps, lastBps, bytes, data>>

Next == Receive \/ SentUnthrottled \/ SentThrottled \/ Wake \/ ChangeLimit \/ Tick

Spec == Init /\ [][Next]_vars

----------------------------------------------------------------------------

TypeOK ==
    /\ limit \in Limit /\ bps \in Limit /\ lastBps \in Limit \cup {-1}
    /\ pc \in {"receive", "send", "sleep"}
    /\ bytes \in 0..MaxWindow /\ elapsed \in 0..MaxElapsed
    /\ data \in 0..ChunkSize
    /\ wake \in Nat /\ debt \in Nat

\* Over any stretch of time in which a limit stands, the pipe sends at most
\* what the limit gives, plus one second of it (the credit an idle pipe may
\* keep), plus the chunk that is slept off afterwards and the one that was on
\* its way when the limit was given.  relay.py counts on this for "reset the
\* window ... to keep the burst bounded" (198-202).
LimitHolds ==
    Throttles(limit) => debt <= (limit + Effective(limit) + ChunkSize) * Second

\* The pipe never sleeps for more than the chunk it has just sent takes at the
\* limit it was read under: the window carries no old traffic into a new limit
\* and a pipe with enough to send is not slower than its limit.
SleepsAreShort == pc = "sleep" => wake <= Expected(data, bps)
=============================================================================
