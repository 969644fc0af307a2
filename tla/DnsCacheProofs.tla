--------------------------- MODULE DnsCacheProofs ---------------------------
(***************************************************************************)
(* The cache keeps its size and its promises for every number of names,    *)
(* callers and table sizes.                                                *)
(***************************************************************************)
EXTENDS DnsCache, FiniteSetTheorems, TLAPS

\* Between two stores the active table is below its limit; the backup was
\* rotated out exactly when it reached it.
Bounds ==
    /\ Cardinality(DOMAIN active) < GenLimit
    /\ Cardinality(DOMAIN backup) <= GenLimit

\* An entry lives TTL from the time it was asked for.
Stamped ==
    /\ \A h \in DOMAIN active : active[h].expires = active[h].asked + TTL
    /\ \A h \in DOMAIN backup : backup[h].expires = backup[h].asked + TTL

\* A name is in the active table, or the active table holds only names that
\* were stored after it.
Aging(h) ==
    \/ h \in DOMAIN active
    \/ h \in DOMAIN backup /\ DOMAIN active \subseteq since[h]
    \/ Cardinality(since[h]) >= GenLimit
    \/ since[h] = Host

CacheInv ==
    /\ TypeOK
    /\ Bounds
    /\ Stamped
    /\ \A h \in Host : Aging(h)

----------------------------------------------------------------------------
\* A table is a function from some of the names to entries.
LEMMA TableIsFunction ==
    ASSUME NEW table \in Table
    PROVE  /\ DOMAIN table \subseteq Host
           /\ IsFiniteSet(DOMAIN table)
           /\ Cardinality(DOMAIN table) \in Nat
           /\ \A k \in DOMAIN table : table[k] \in Entry
<1>1. PICK keys \in SUBSET Host : table \in [keys -> Entry]
  BY DEF Table
<1>2. DOMAIN table = keys
  BY <1>1
<1>3. IsFiniteSet(keys)
  BY <1>1, HostAssumption, FS_Subset
<1> QED BY <1>1, <1>2, <1>3, FS_CardinalityType

LEMMA FunctionIsTable ==
    ASSUME NEW keys \in SUBSET Host, NEW table \in [keys -> Entry]
    PROVE  table \in Table
BY DEF Table

\* The empty table is a table, and it is empty.
LEMMA EmptyTableFacts ==
    /\ EmptyTable \in Table
    /\ DOMAIN EmptyTable = {}
    /\ Cardinality(DOMAIN EmptyTable) = 0
<1>1. DOMAIN EmptyTable = {}
  BY DEF EmptyTable
<1>2. EmptyTable \in [{} -> Entry]
  BY DEF EmptyTable, Entry
<1> QED BY <1>1, <1>2, FunctionIsTable, FS_EmptySet

\* Storing a name adds at most that name to the table.
LEMMA WithFacts ==
    ASSUME NEW table \in Table, NEW h \in Host, NEW entry \in Entry
    PROVE  /\ With(table, h, entry) \in Table
           /\ DOMAIN With(table, h, entry) = DOMAIN table \cup {h}
           /\ Cardinality(DOMAIN With(table, h, entry)) <= Cardinality(DOMAIN table) + 1
<1> DEFINE new == With(table, h, entry)
<1>1. DOMAIN new = DOMAIN table \cup {h}
  BY DEF With
<1>2. new \in [DOMAIN table \cup {h} -> Entry]
  BY TableIsFunction DEF With
<1>3. new \in Table
  BY <1>2, TableIsFunction, FunctionIsTable
<1>4. Cardinality(DOMAIN new) <= Cardinality(DOMAIN table) + 1
  <2>1. IsFiniteSet(DOMAIN table) /\ Cardinality(DOMAIN table) \in Nat
    BY TableIsFunction
  <2>2. Cardinality(DOMAIN table \cup {h}) =
          IF h \in DOMAIN table THEN Cardinality(DOMAIN table)
                                ELSE Cardinality(DOMAIN table) + 1
    BY <2>1, FS_AddElement
  <2> QED BY <1>1, <2>1, <2>2
<1> QED BY <1>1, <1>3, <1>4

\* What is stored after a name only grows, and is never more than the names.
LEMMA SinceCounts ==
    ASSUME NEW S \in SUBSET Host
    PROVE  IsFiniteSet(S) /\ Cardinality(S) \in Nat
BY HostAssumption, FS_Subset, FS_CardinalityType

----------------------------------------------------------------------------
\* The empty cache satisfies the invariant.
LEMMA CacheInvInit == Init => CacheInv
<1> SUFFICES ASSUME Init PROVE CacheInv
  OBVIOUS
<1>1. active = EmptyTable /\ backup = EmptyTable
  BY DEF Init
<1>2. TypeOK
  BY <1>1, EmptyTableFacts DEF Init, TypeOK, Lookup
<1>3. Bounds
  BY <1>1, EmptyTableFacts, GenLimitAssumption DEF Bounds
<1>4. Stamped
  BY <1>1, EmptyTableFacts DEF Stamped
<1>5. \A h \in Host : Aging(h)
  BY DEF Init, Aging
<1> QED BY <1>2, <1>3, <1>4, <1>5 DEF CacheInv

\* A store, whichever lookup returns first, keeps the invariant.
LEMMA StoreKeepsInv ==
    ASSUME CacheInv, NEW c \in Caller, Store(c)
    PROVE  CacheInv'
<1> DEFINE h == lookup[c].host
<1> DEFINE entry == EntryFor(lookup[c].asked)
<1> DEFINE new == With(active, h, entry)
<1>1. h \in Host /\ lookup[c].asked \in Nat
  BY DEF CacheInv, TypeOK, Store, Lookup
<1>2. entry \in Entry /\ entry.expires = entry.asked + TTL
  BY <1>1, TTLAssumption DEF EntryFor, Entry
<1>3. active \in Table /\ backup \in Table
  BY DEF CacheInv, TypeOK
<1>4. /\ new \in Table
      /\ DOMAIN new = DOMAIN active \cup {h}
      /\ Cardinality(DOMAIN new) <= Cardinality(DOMAIN active) + 1
      /\ \A k \in DOMAIN new : new[k] = IF k = h THEN entry ELSE active[k]
  <2> HIDE DEF h, entry
  <2>1. /\ new \in Table
        /\ DOMAIN new = DOMAIN active \cup {h}
        /\ Cardinality(DOMAIN new) <= Cardinality(DOMAIN active) + 1
    BY <1>1, <1>2, <1>3, WithFacts
  <2>2. \A k \in DOMAIN new : new[k] = IF k = h THEN entry ELSE active[k]
    BY DEF With
  <2> QED BY <2>1, <2>2
<1>5. Cardinality(DOMAIN new) \in Nat /\ Cardinality(DOMAIN new) <= GenLimit
  <2>1. Cardinality(DOMAIN active) \in Nat /\ Cardinality(DOMAIN new) \in Nat
    BY <1>3, <1>4, TableIsFunction
  <2>2. Cardinality(DOMAIN active) < GenLimit
    BY DEF CacheInv, Bounds
  <2> QED BY <1>4, <2>1, <2>2, GenLimitAssumption
<1>6. \A k \in DOMAIN new : new[k].expires = new[k].asked + TTL
  BY <1>2, <1>4 DEF CacheInv, Stamped
<1>7. /\ since' = [k \in Host |-> IF k = h THEN {} ELSE since[k] \cup {h}]
      /\ lookup' = [lookup EXCEPT ![c] = Idle] /\ clock' = clock
      /\ Rotate(new)
  BY DEF Store
<1>8. /\ since' \in [Host -> SUBSET Host]
      /\ lookup' \in [Caller -> Lookup] /\ clock' \in Nat
  BY <1>1, <1>7 DEF CacheInv, TypeOK, Lookup
<1>9. \A k \in Host : k # h => /\ since[k] \subseteq since'[k] /\ h \in since'[k]
                               /\ since[k] \in SUBSET Host /\ since'[k] \in SUBSET Host
  BY <1>1, <1>7, <1>8 DEF CacheInv, TypeOK
<1>10. \A k \in Host : k # h /\ Cardinality(since[k]) >= GenLimit
                          => Cardinality(since'[k]) >= GenLimit
  <2> SUFFICES ASSUME NEW k \in Host, k # h, Cardinality(since[k]) >= GenLimit
               PROVE  Cardinality(since'[k]) >= GenLimit
    OBVIOUS
  <2>1. Cardinality(since[k]) <= Cardinality(since'[k])
    BY <1>9, SinceCounts, FS_Subset
  <2> QED BY <1>9, <2>1, SinceCounts, GenLimitAssumption
<1>11. CASE Cardinality(DOMAIN new) >= GenLimit
  <2>1. active' = EmptyTable /\ backup' = new
    BY <1>7, <1>11 DEF Rotate
  <2>2. TypeOK'
    BY <1>4, <1>8, <2>1, EmptyTableFacts DEF TypeOK
  <2>3. Bounds'
    BY <1>5, <2>1, EmptyTableFacts, GenLimitAssumption DEF Bounds
  <2>4. Stamped'
    BY <1>6, <2>1, EmptyTableFacts DEF Stamped
  <2>5. ASSUME NEW k \in Host PROVE Aging(k)'
    <3>1. CASE k \in DOMAIN new
      BY <2>1, <3>1, EmptyTableFacts DEF Aging
    <3>2. CASE k \notin DOMAIN new
      <4>1. k # h /\ k \notin DOMAIN active
        BY <1>4, <3>2
      <4>2. CASE DOMAIN active \subseteq since[k]
        <5>1. DOMAIN new \subseteq since'[k]
          BY <1>4, <1>9, <4>1, <4>2
        <5>2. Cardinality(DOMAIN new) <= Cardinality(since'[k])
          BY <1>9, <4>1, <5>1, SinceCounts, FS_Subset
        <5>3. Cardinality(since'[k]) >= GenLimit
          BY <1>5, <1>9, <1>11, <4>1, <5>2, SinceCounts, GenLimitAssumption
        <5> QED BY <5>3 DEF Aging
      <4>3. CASE Cardinality(since[k]) >= GenLimit
        BY <1>10, <4>1, <4>3 DEF Aging
      <4>4. CASE since[k] = Host
        BY <1>9, <4>1, <4>4 DEF Aging
      <4> QED BY <4>1, <4>2, <4>3, <4>4 DEF CacheInv, Aging
    <3> QED BY <3>1, <3>2
  <2> QED BY <2>2, <2>3, <2>4, <2>5 DEF CacheInv
<1>12. CASE ~(Cardinality(DOMAIN new) >= GenLimit)
  <2>1. active' = new /\ backup' = backup
    BY <1>7, <1>12 DEF Rotate
  <2>2. TypeOK'
    BY <1>3, <1>4, <1>8, <2>1 DEF TypeOK
  <2>3. Bounds'
    BY <1>5, <1>12, <2>1, GenLimitAssumption DEF Bounds, CacheInv
  <2>4. Stamped'
    BY <1>6, <2>1 DEF Stamped, CacheInv
  <2>5. ASSUME NEW k \in Host PROVE Aging(k)'
    <3>1. CASE k = h
      BY <1>4, <2>1, <3>1 DEF Aging
    <3>2. CASE k # h
      <4>1. CASE k \in DOMAIN active
        BY <1>4, <2>1, <4>1 DEF Aging
      <4>2. CASE k \in DOMAIN backup /\ DOMAIN active \subseteq since[k]
        BY <1>4, <1>9, <2>1, <3>2, <4>2 DEF Aging
      <4>3. CASE Cardinality(since[k]) >= GenLimit
        BY <1>10, <3>2, <4>3 DEF Aging
      <4>4. CASE since[k] = Host
        BY <1>9, <3>2, <4>4 DEF Aging
      <4> QED BY <4>1, <4>2, <4>3, <4>4 DEF CacheInv, Aging
    <3> QED BY <3>1, <3>2
  <2> QED BY <2>2, <2>3, <2>4, <2>5 DEF CacheInv
<1> QED BY <1>11, <1>12

\* The steps that leave the tables alone keep the invariant.
LEMMA TablesUntouched ==
    ASSUME CacheInv, TypeOK', UNCHANGED <<active, backup, since>>
    PROVE  CacheInv'
BY DEF CacheInv, Bounds, Stamped, Aging

\* Every step of the cache keeps the invariant.
LEMMA CacheInvStep == CacheInv /\ [Next]_vars => CacheInv'
<1> SUFFICES ASSUME CacheInv, [Next]_vars PROVE CacheInv'
  OBVIOUS
<1> USE DEF CacheInv
<1>1. CASE Tick
  <2>1. TypeOK'
    BY <1>1 DEF TypeOK, Tick
  <2> QED BY <1>1, <2>1, TablesUntouched DEF Tick
<1>2. ASSUME NEW c \in Caller, Store(c) PROVE CacheInv'
  BY <1>2, StoreKeepsInv
<1>3. ASSUME NEW c \in Caller, LookupFails(c) PROVE CacheInv'
  <2>1. TypeOK'
    BY <1>3 DEF TypeOK, LookupFails, Lookup
  <2> QED BY <1>3, <2>1, TablesUntouched DEF LookupFails
<1>4. ASSUME NEW c \in Caller, NEW h \in Host, Miss(c, h) PROVE CacheInv'
  <2>1. TypeOK'
    BY <1>4 DEF TypeOK, Miss, Lookup
  <2> QED BY <1>4, <2>1, TablesUntouched DEF Miss
<1>5. CASE UNCHANGED vars
  <2>1. TypeOK'
    BY <1>5 DEF TypeOK, vars
  <2> QED BY <1>5, <2>1, TablesUntouched DEF vars
<1> QED BY <1>1, <1>2, <1>3, <1>4, <1>5 DEF Next

\* The invariant holds in every state of the cache.
LEMMA CacheInvAlways == Spec => []CacheInv
BY CacheInvInit, CacheInvStep, PTL DEF Spec

----------------------------------------------------------------------------
\* The cache never outgrows two generations, for any number of concurrent
\* lookups and any order of their answers.
THEOREM CacheBoundedProved == Spec => []CacheBounded
<1>1. CacheInv => CacheBounded
  <2> SUFFICES ASSUME CacheInv PROVE CacheBounded
    OBVIOUS
  <2>1. Cardinality(DOMAIN active) \in Nat /\ Cardinality(DOMAIN backup) \in Nat
    BY TableIsFunction DEF CacheInv, TypeOK
  <2> QED BY <2>1, GenLimitAssumption DEF CacheInv, Bounds, CacheBounded
<1> QED BY <1>1, CacheInvAlways, PTL

\* No hit returns an answer that was asked for TTL ago or earlier.
THEOREM HitsAreFreshProved == Spec => []HitsAreFresh
<1>1. CacheInv => HitsAreFresh
  BY DEF CacheInv, Stamped, HitsAreFresh, Hit, Answer, Fresh
<1> QED BY <1>1, CacheInvAlways, PTL

\* A name that was just stored survives GenLimit - 1 stores of other names.
THEOREM KeptForAGenerationProved == Spec => []KeptForAGeneration
<1>1. CacheInv => KeptForAGeneration
  <2> SUFFICES ASSUME CacheInv, NEW h \in Host,
                      Cardinality(since[h]) < GenLimit, since[h] # Host
               PROVE  h \in DOMAIN active \cup DOMAIN backup
    BY DEF KeptForAGeneration
  <2>1. Cardinality(since[h]) \in Nat
    BY SinceCounts DEF CacheInv, TypeOK
  <2> QED BY <2>1, GenLimitAssumption DEF CacheInv, Aging
<1> QED BY <1>1, CacheInvAlways, PTL
=============================================================================
