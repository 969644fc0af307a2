------------------------------ MODULE DnsCache ------------------------------
(***************************************************************************)
(* The cache in front of getaddrinfo (_resolve of server.py): two tables,  *)
(* one written to and one that only ages.  Handlers call _resolve          *)
(* concurrently; the lookup in the worker thread separates the miss from   *)
(* the store, so stores come in any order.  IP literals never get here.    *)
(*                                                                         *)
(* An answer is identified by the time its lookup was asked.               *)
(***************************************************************************)
EXTENDS Integers, FiniteSets

CONSTANTS
    Host,       \* names that are looked up
    Caller,     \* handlers that may be in _resolve at the same time
    GenLimit,   \* _DNS_GEN_LIMIT (512)
    TTL,        \* _DNS_TTL (60 s)
    MaxTime     \* bound on the clock

ASSUME HostAssumption == IsFiniteSet(Host)
ASSUME GenLimitAssumption == GenLimit \in Nat \ {0}
ASSUME TTLAssumption == TTL \in Nat
ASSUME MaxTimeAssumption == MaxTime \in Nat

VARIABLES
    clock,     \* time.monotonic()
    active,    \* _DNS_ACTIVE
    backup,    \* _DNS_BACKUP
    lookup,    \* the lookup each caller has in a worker thread
    since      \* history variable: names stored after the last store of a name

vars == <<clock, active, backup, lookup, since>>

Entry == [asked : Nat, expires : Nat]
Table == UNION {[keys -> Entry] : keys \in SUBSET Host}
EmptyTable == [h \in {} |-> [asked |-> 0, expires |-> 0]]

Idle == [host |-> "none", asked |-> 0]
Lookup == [host : Host, asked : Nat] \cup {Idle}

TypeOK ==
    /\ clock \in Nat
    /\ active \in Table /\ backup \in Table
    /\ lookup \in [Caller -> Lookup]
    /\ since \in [Host -> SUBSET Host]

\* Until its first store, everything counts as stored after a name.
Init ==
    /\ clock = 0
    /\ active = EmptyTable /\ backup = EmptyTable
    /\ lookup = [c \in Caller |-> Idle]
    /\ since = [h \in Host |-> Host]

----------------------------------------------------------------------------
Fresh(table, h) == h \in DOMAIN table /\ clock < table[h].expires

\* The entry a call would return: the active table is asked first.
Hit(h) == Fresh(active, h) \/ Fresh(backup, h)
Answer(h) == IF Fresh(active, h) THEN active[h] ELSE backup[h]

\* A miss reads the clock and goes to a worker.  A hit changes nothing.
Miss(c, h) ==
    /\ lookup[c] = Idle
    /\ ~Hit(h)
    /\ lookup' = [lookup EXCEPT ![c] = [host |-> h, asked |-> clock]]
    /\ UNCHANGED <<clock, active, backup, since>>

With(table, h, entry) ==
    [k \in DOMAIN table \cup {h} |-> IF k = h THEN entry ELSE table[k]]

\* Mutant: the table rotates only when it has outgrown its limit.
RotateLate(table) ==
    IF Cardinality(DOMAIN table) > GenLimit
    THEN active' = EmptyTable /\ backup' = table
    ELSE active' = table /\ UNCHANGED backup

\* Mutant: the rotation clears both tables.
RotateDropping(table) ==
    IF Cardinality(DOMAIN table) >= GenLimit
    THEN active' = EmptyTable /\ backup' = EmptyTable
    ELSE active' = table /\ UNCHANGED backup

\* A full active table becomes the backup; the old backup is cleared.
Rotate(table) ==
    IF Cardinality(DOMAIN table) >= GenLimit
    THEN active' = EmptyTable /\ backup' = table
    ELSE active' = table /\ UNCHANGED backup

\* Mutant: the clock is read when the lookup returns.
EntryFromReturn(asked) == [asked |-> asked, expires |-> clock + TTL]

EntryFor(asked) == [asked |-> asked, expires |-> asked + TTL]

Store(c) ==
    /\ lookup[c] # Idle
    /\ LET h == lookup[c].host
       IN  /\ Rotate(With(active, h, EntryFor(lookup[c].asked)))
           /\ since' = [k \in Host |-> IF k = h THEN {} ELSE since[k] \cup {h}]
    /\ lookup' = [lookup EXCEPT ![c] = Idle]
    /\ UNCHANGED clock

\* The lookup raised, or was cancelled while it waited for a worker.
LookupFails(c) ==
    /\ lookup[c] # Idle
    /\ lookup' = [lookup EXCEPT ![c] = Idle]
    /\ UNCHANGED <<clock, active, backup, since>>

Tick ==
    /\ clock < MaxTime
    /\ clock' = clock + 1
    /\ UNCHANGED <<active, backup, lookup, since>>

Next ==
    \/ Tick
    \/ \E c \in Caller : Store(c) \/ LookupFails(c) \/ \E h \in Host : Miss(c, h)

Spec == Init /\ [][Next]_vars

----------------------------------------------------------------------------
\* The two tables never hold more than two generations, whatever the order in
\* which concurrent lookups return.
CacheBounded ==
    Cardinality(DOMAIN active) + Cardinality(DOMAIN backup) < 2 * GenLimit

\* What a hit returns was asked for less than TTL ago: the time a lookup spends
\* in its worker does not lengthen the life of its answer.
HitsAreFresh == \A h \in Host : Hit(h) => clock < Answer(h).asked + TTL

\* A name stays reachable until GenLimit other names were stored after it: the
\* rotation never evicts a name that was just refreshed.
KeptForAGeneration ==
    \A h \in Host :
        Cardinality(since[h]) < GenLimit /\ since[h] # Host
            => h \in DOMAIN active \cup DOMAIN backup
=============================================================================
