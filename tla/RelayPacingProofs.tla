------------------------- MODULE RelayPacingProofs -------------------------
(***************************************************************************)
(* A pipe keeps to its limit, for every set of limits, chunk size and       *)
(* length of a second, whatever the operator changes on the way.           *)
(***************************************************************************)
EXTENDS RelayPacing, TLAPS

\* What was received was read under bps.
ChunkFits == pc \in {"send", "sleep"} => data \in 1..Effective(bps)

\* Outside a sleep the window is not ahead of the limit it was begun for; in a
\* sleep it is ahead by no more than what is left to sleep, which is no more than
\* the last chunk takes.
WindowPaced ==
    /\ pc # "sleep" /\ Throttles(lastBps) => Expected(bytes, lastBps) <= elapsed
    /\ pc = "sleep" =>
         /\ Throttles(bps) /\ lastBps = bps
         /\ Expected(bytes, bps) - elapsed <= wake
         /\ wake <= Expected(data, bps)

\* How far the window is ahead, in the unit of the debt.
Ahead == bytes * Second - limit * elapsed

\* Until the limit in force is read, at most one chunk was charged to it; until
\* its window begins, at most one, too; from then on the debt follows the window.
DebtFollowsWindow ==
    Throttles(limit) =>
        /\ bps # limit => debt <= (IF pc = "sleep" THEN ChunkSize * Second ELSE 0)
        /\ bps = limit /\ lastBps # limit => debt <= ChunkSize * Second
        /\ bps = limit /\ lastBps = limit =>
             debt = 0 \/ debt <= Ahead + (limit + ChunkSize) * Second

PacingInv == TypeOK /\ ChunkFits /\ WindowPaced /\ DebtFollowsWindow

----------------------------------------------------------------------------
(* Arithmetic.  The limits divide a second, so that nothing is lost between *)
(* the time a chunk takes and the debt it is charged with.                  *)

LEMMA PeriodExact ==
    ASSUME NEW l \in Rate
    PROVE  /\ l \in Nat \ {0} /\ l \in Limit /\ Throttles(l)
           /\ Second \div l \in Nat
           /\ l * (Second \div l) = Second
<1>1. l \in Nat \ {0} /\ Second \in Nat /\ Second % l = 0
  BY RateAssumption
<1>2. Second = l * (Second \div l) + (Second % l) /\ Second \div l \in Nat
  BY <1>1, SMT
<1> QED BY <1>1, <1>2, SMT DEF Limit, Throttles

\* Products keep the order.
LEMMA TimesMonotone ==
    ASSUME NEW l \in Nat, NEW a \in Int, NEW b \in Int, a <= b
    PROVE  l * a \in Int /\ l * b \in Int /\ l * a <= l * b
BY SMT

\* A tick brings the end of the sleep and the age of the window together.
LEMMA TickPacesWindow ==
    ASSUME NEW taken \in Nat, NEW age \in Nat, NEW left \in Nat, NEW leftNow \in Nat,
           taken - age <= left, left <= leftNow + 1
    PROVE  taken - (age + 1) <= leftNow
OBVIOUS

LEMMA TimesAssociative ==
    ASSUME NEW a \in Nat, NEW b \in Nat, NEW c \in Nat
    PROVE  a * (b * c) = b * (a * c)
BY SMT

LEMMA TimesDistributes ==
    ASSUME NEW a \in Int, NEW b \in Int, NEW c \in Int
    PROVE  /\ a * b \in Int
           /\ (a + b) * c = a * c + b * c /\ (a - b) * c = a * c - b * c
           /\ c * (a + b) = c * a + c * b /\ c * (a - b) = c * a - c * b
BY SMT

\* The time n units take, times the limit, is n seconds' worth.
LEMMA ExpectedScales ==
    ASSUME NEW l \in Rate, NEW n \in Nat
    PROVE  Expected(n, l) \in Nat /\ l * Expected(n, l) = n * Second
<1> DEFINE period == Second \div l
<1>1. period \in Nat /\ l \in Nat /\ l * period = Second
  BY PeriodExact
<1> HIDE DEF period
<1>2. l * (n * period) = n * (l * period)
  BY <1>1, TimesAssociative
<1>3. n * period \in Nat
  BY <1>1, SMT
<1> QED BY <1>1, <1>2, <1>3 DEF Expected, period

\* More takes longer.
LEMMA ExpectedAdds ==
    ASSUME NEW l \in Rate, NEW m \in Nat, NEW n \in Nat
    PROVE  /\ Expected(m + n, l) = Expected(m, l) + Expected(n, l)
           /\ Expected(0, l) = 0
<1>1. Second \div l \in Nat
  BY PeriodExact
<1> QED BY <1>1, TimesDistributes, SMT DEF Expected

\* A read is at least one unit and at most a chunk.
LEMMA EffectiveFits ==
    ASSUME NEW l \in Limit
    PROVE  Effective(l) \in 1..ChunkSize
<1>1. CASE ~Throttles(l)
  BY <1>1, RateAssumption DEF Effective
<1>2. CASE Throttles(l)
  <2>1. l \in Nat \ {0} /\ l \div 10 \in Nat
    BY <1>2, PeriodExact, SMT DEF Throttles
  <2> QED BY <1>2, <2>1, RateAssumption DEF Effective, Least, Largest
<1> QED BY <1>1, <1>2

----------------------------------------------------------------------------
\* A pipe begins with nothing sent.
LEMMA PacingInvInit == Init => PacingInv
<1> SUFFICES ASSUME Init PROVE PacingInv
  OBVIOUS
<1>1. TypeOK
  BY RateAssumption, BoundAssumption DEF Init, TypeOK
<1>2. -1 \notin Rate /\ lastBps = -1
  BY RateAssumption DEF Init
<1>3. ChunkFits /\ WindowPaced
  BY <1>2 DEF Init, ChunkFits, WindowPaced, Throttles
<1>4. DebtFollowsWindow
  BY <1>2, RateAssumption DEF Init, DebtFollowsWindow, Throttles
<1> QED BY <1>1, <1>3, <1>4 DEF PacingInv

LEMMA ReceiveKeepsInv ==
    ASSUME PacingInv, Receive
    PROVE  PacingInv'
<1>1. Effective(bps) \in 1..ChunkSize
  BY EffectiveFits DEF PacingInv, TypeOK
<1>2. data' \in 1..Effective(bps) /\ pc = "receive" /\ pc' = "send"
  BY DEF Receive
<1>3. UNCHANGED <<limit, bps, lastBps, bytes, elapsed, wake, debt>>
  BY DEF Receive
<1>4. TypeOK'
  BY <1>1, <1>2, <1>3, RateAssumption DEF PacingInv, TypeOK
<1>5. ChunkFits'
  BY <1>2, <1>3 DEF ChunkFits, Effective
<1>6. WindowPaced'
  BY <1>2, <1>3 DEF PacingInv, WindowPaced, Expected
<1>7. DebtFollowsWindow'
  BY <1>2, <1>3 DEF PacingInv, DebtFollowsWindow, Ahead, Throttles
<1> QED BY <1>4, <1>5, <1>6, <1>7 DEF PacingInv

\* What a send charges to the limit in force.
LEMMA ChargeFacts ==
    ASSUME PacingInv, pc = "send", Charge, UNCHANGED limit
    PROVE  /\ data \in Nat /\ 1 <= data /\ data <= ChunkSize
           /\ data * Second \in Nat /\ data * Second <= ChunkSize * Second
           /\ ChunkSize * Second \in Nat
           /\ debt' \in Nat
           /\ Throttles(limit) => debt' = debt + data * Second
<1>1. Effective(bps) \in 1..ChunkSize /\ data \in 1..Effective(bps)
  BY EffectiveFits DEF PacingInv, TypeOK, ChunkFits
<1>2. data \in Nat /\ 1 <= data /\ data <= ChunkSize /\ ChunkSize \in Nat /\ Second \in Nat
  BY <1>1, RateAssumption
<1>3. /\ data * Second \in Nat /\ ChunkSize * Second \in Nat
      /\ data * Second <= ChunkSize * Second
  BY <1>2, SMT
<1> QED BY <1>2, <1>3 DEF PacingInv, TypeOK, Charge

LEMMA SentUnthrottledKeepsInv ==
    ASSUME PacingInv, SentUnthrottled
    PROVE  PacingInv'
<1>1. pc = "send" /\ ~Throttles(bps) /\ UNCHANGED <<limit, data>>
  BY DEF SentUnthrottled
<1>2. pc' = "receive" /\ wake' = 0 /\ bps' = limit /\ lastBps' = bps
  BY DEF SentUnthrottled, NextRead
<1>3. bytes' \in {0, bytes} /\ elapsed' \in {0, elapsed}
  BY DEF SentUnthrottled
<1>4. /\ data * Second \in Nat /\ data * Second <= ChunkSize * Second
      /\ debt' \in Nat
      /\ Throttles(limit) => debt' = debt + data * Second
  BY <1>1, ChargeFacts DEF SentUnthrottled
<1>5. TypeOK'
  BY <1>1, <1>2, <1>3, <1>4, BoundAssumption DEF PacingInv, TypeOK
<1>6. ChunkFits' /\ WindowPaced'
  BY <1>1, <1>2 DEF ChunkFits, WindowPaced, Throttles
<1>7. DebtFollowsWindow'
  <2>1. Throttles(limit) => bps # limit
    BY <1>1
  <2>2. Throttles(limit) => debt = 0
    BY <1>1, <2>1 DEF PacingInv, TypeOK, DebtFollowsWindow
  <2> QED BY <1>1, <1>2, <1>4, <2>1, <2>2 DEF DebtFollowsWindow, Throttles
<1> QED BY <1>5, <1>6, <1>7 DEF PacingInv

\* The debt of a window that is a time t ahead of its limit is t seconds' worth
\* of the limit.
LEMMA AheadIsTime ==
    ASSUME NEW l \in Rate, NEW n \in Nat, NEW a \in Nat
    PROVE  /\ n * Second \in Nat /\ l * a \in Nat /\ l * Second \in Nat
           /\ n * Second - l * a = l * (Expected(n, l) - a)
           /\ Expected(n, l) <= a => n * Second - l * a <= 0
           /\ a <= Expected(n, l) + Second => l * a <= n * Second + l * Second
<1>1. /\ Expected(n, l) \in Nat /\ l * Expected(n, l) = n * Second
      /\ l \in Nat /\ Second \in Nat
  BY ExpectedScales, PeriodExact, RateAssumption
<1>2. n * Second \in Nat /\ l * a \in Nat /\ l * Second \in Nat
  BY <1>1, SMT
<1>3. l * (Expected(n, l) - a) = l * Expected(n, l) - l * a
  BY <1>1, TimesDistributes
<1>4. Expected(n, l) <= a => l * Expected(n, l) <= l * a
  BY <1>1, TimesMonotone
<1>5. a <= Expected(n, l) + Second => l * a <= l * Expected(n, l) + l * Second
  <2>1. l * (Expected(n, l) + Second) = l * Expected(n, l) + l * Second
    BY <1>1, TimesDistributes
  <2> QED BY <1>1, <2>1, TimesMonotone
<1> QED BY <1>1, <1>2, <1>3, <1>4, <1>5

\* The window after a chunk under the limit bps, and what remains to be slept off.
LEMMA WindowAfterChunk ==
    ASSUME PacingInv, SentThrottled
    PROVE  /\ bps \in Rate /\ bytes' \in Nat /\ elapsed' \in 0..MaxElapsed
           /\ \/ pc' = "receive" /\ wake' = 0 /\ bps' = limit
                 /\ Expected(bytes', bps) <= elapsed'
              \/ pc' = "sleep" /\ bps' = bps /\ wake' \in Nat
                 /\ wake' = Expected(bytes', bps) - elapsed'
                 /\ wake' <= Expected(data, bps)
           /\ \/ bytes' = data /\ elapsed' = 0
              \/ /\ bps = lastBps /\ bytes' = bytes + data /\ elapsed' = elapsed
                 /\ elapsed' <= Expected(bytes', bps) + Second
<1> DEFINE counted == (IF NewWindow THEN 0 ELSE bytes) + data
<1> DEFINE age == IF NewWindow THEN 0 ELSE elapsed
<1> DEFINE surplus == Expected(bytes', bps) - elapsed'
<1>1. bps \in Rate /\ bytes \in Nat /\ elapsed \in 0..MaxElapsed /\ data \in Nat
      /\ Second \in Nat /\ 0 \in 0..MaxElapsed
  BY EffectiveFits, BoundAssumption, RateAssumption
     DEF PacingInv, TypeOK, ChunkFits, SentThrottled, Throttles
<1>2. counted \in Nat /\ age \in 0..MaxElapsed
  BY <1>1
<1>3. /\ bytes' = IF TooFarBehind(counted, age) THEN data ELSE counted
      /\ elapsed' = IF TooFarBehind(counted, age) THEN 0 ELSE age
  BY DEF SentThrottled
<1>4. IF surplus > 0 THEN pc' = "sleep" /\ wake' = surplus /\ bps' = bps
                     ELSE pc' = "receive" /\ wake' = 0 /\ bps' = limit
  BY DEF SentThrottled, SleepsFor, NextRead
<1>5. bytes' \in Nat /\ elapsed' \in 0..MaxElapsed
  BY <1>1, <1>2, <1>3
<1>6. Expected(bytes', bps) \in Nat /\ Expected(data, bps) \in Nat
  BY <1>1, <1>5, ExpectedScales
<1>7. \/ bytes' = data /\ elapsed' = 0
      \/ /\ bps = lastBps /\ bytes' = bytes + data /\ elapsed' = elapsed
         /\ elapsed' <= Expected(bytes', bps) + Second
  <2>1. CASE TooFarBehind(counted, age) \/ NewWindow
    BY <1>1, <1>3, <2>1
  <2>2. CASE ~TooFarBehind(counted, age) /\ ~NewWindow
    BY <1>1, <1>2, <1>3, <1>6, <2>2 DEF NewWindow, TooFarBehind
  <2> QED BY <2>1, <2>2
<1>8. surplus <= Expected(data, bps)
  <2>1. CASE bytes' = data /\ elapsed' = 0
    BY <1>6, <2>1
  <2>2. CASE bps = lastBps /\ bytes' = bytes + data /\ elapsed' = elapsed
    <3>1. Expected(bytes, bps) <= elapsed
      BY <1>1, <2>2 DEF PacingInv, WindowPaced, SentThrottled, Throttles
    <3>2. Expected(bytes', bps) = Expected(bytes, bps) + Expected(data, bps)
      BY <1>1, <2>2, ExpectedAdds
    <3>3. Expected(bytes, bps) \in Nat
      BY <1>1, ExpectedScales
    <3> QED BY <1>1, <1>6, <2>2, <3>1, <3>2, <3>3
  <2> QED BY <1>7, <2>1, <2>2
<1> HIDE DEF surplus, counted, age
<1>9. surplus \in Int /\ surplus = Expected(bytes', bps) - elapsed'
  BY <1>5, <1>6 DEF surplus
<1> QED BY <1>1, <1>4, <1>5, <1>6, <1>7, <1>8, <1>9

LEMMA SentThrottledKeepsInv ==
    ASSUME PacingInv, SentThrottled
    PROVE  PacingInv'
<1>1. /\ pc = "send" /\ Throttles(bps) /\ lastBps' = bps /\ bytes' <= MaxWindow
      /\ UNCHANGED <<limit, data>>
  BY DEF SentThrottled
<1>2. /\ data \in Nat /\ data * Second \in Nat /\ data * Second <= ChunkSize * Second
      /\ ChunkSize * Second \in Nat /\ debt' \in Nat
      /\ Throttles(limit) => debt' = debt + data * Second
  BY <1>1, ChargeFacts DEF SentThrottled
<1>3. TypeOK'
  BY <1>1, <1>2, WindowAfterChunk, BoundAssumption DEF PacingInv, TypeOK
<1>4. ChunkFits'
  BY <1>1, WindowAfterChunk DEF PacingInv, ChunkFits, Effective
<1>5. WindowPaced'
  BY <1>1, WindowAfterChunk DEF PacingInv, TypeOK, WindowPaced, Expected
<1>6. DebtFollowsWindow'
  <2> SUFFICES ASSUME Throttles(limit)
               PROVE  /\ bps' # limit => debt' <= (IF pc' = "sleep" THEN ChunkSize * Second ELSE 0)
                      /\ bps' = limit /\ lastBps' # limit => debt' <= ChunkSize * Second
                      /\ bps' = limit /\ lastBps' = limit =>
                           \/ debt' = 0
                           \/ debt' <= bytes' * Second - limit * elapsed'
                                         + (limit + ChunkSize) * Second
    BY <1>1 DEF DebtFollowsWindow, Throttles, Ahead
  <2>1. CASE bps # limit
    <3>1. debt = 0
      BY <1>1, <2>1 DEF PacingInv, TypeOK, DebtFollowsWindow
    <3> QED BY <1>1, <1>2, <2>1, <3>1, WindowAfterChunk
  <2>2. CASE bps = limit
    <3>1. /\ limit \in Rate /\ limit \in Nat /\ bytes \in Nat /\ elapsed \in Nat
          /\ debt \in Nat /\ ChunkSize \in Nat /\ Second \in Nat
      BY <2>2, BoundAssumption, RateAssumption, PeriodExact DEF PacingInv, TypeOK, Throttles
    <3>2. /\ (limit + ChunkSize) * Second = limit * Second + ChunkSize * Second
          /\ limit * Second \in Nat
      BY <3>1, TimesDistributes, AheadIsTime
    <3>3. CASE bytes' = data /\ elapsed' = 0
      <4>1. debt <= (limit + ChunkSize) * Second
        <5>1. CASE lastBps # limit
          BY <1>2, <2>2, <3>1, <3>2, <5>1 DEF PacingInv, DebtFollowsWindow
        <5>2. CASE lastBps = limit
          <6>1. bytes * Second - limit * elapsed <= 0
                /\ bytes * Second \in Nat /\ limit * elapsed \in Nat
            BY <1>1, <3>1, <5>2, AheadIsTime DEF PacingInv, WindowPaced
          <6> QED BY <1>2, <2>2, <3>1, <3>2, <5>2, <6>1
                  DEF PacingInv, DebtFollowsWindow, Ahead
        <5> QED BY <5>1, <5>2
      <4>2. limit * elapsed' = 0
        BY <3>1, <3>3
      <4> QED BY <1>1, <1>2, <2>2, <3>1, <3>2, <3>3, <4>1, <4>2, WindowAfterChunk
    <3>4. CASE /\ bps = lastBps /\ bytes' = bytes + data /\ elapsed' = elapsed
               /\ elapsed' <= Expected(bytes', bps) + Second
      <4>1. bytes' * Second = bytes * Second + data * Second /\ bytes * Second \in Nat
        BY <1>2, <3>1, <3>4, TimesDistributes, AheadIsTime
      <4>2. limit * elapsed' <= bytes' * Second + limit * Second
            /\ limit * elapsed' \in Nat
        <5>1. /\ bytes' \in Nat /\ elapsed' \in Nat
              /\ elapsed' <= Expected(bytes', limit) + Second
          BY <1>2, <2>2, <3>1, <3>4
        <5> QED BY <3>1, <5>1, AheadIsTime
      <4>3. debt = 0 \/ debt <= bytes * Second - limit * elapsed + (limit + ChunkSize) * Second
        BY <2>2, <3>4 DEF PacingInv, DebtFollowsWindow, Ahead
      <4> QED BY <1>1, <1>2, <2>2, <3>1, <3>2, <3>4, <4>1, <4>2, <4>3, WindowAfterChunk
    <3> QED BY <3>3, <3>4, WindowAfterChunk
  <2> QED BY <2>1, <2>2
<1> QED BY <1>3, <1>4, <1>5, <1>6 DEF PacingInv

LEMMA WakeKeepsInv ==
    ASSUME PacingInv, Wake
    PROVE  PacingInv'
<1>1. /\ pc = "sleep" /\ wake = 0 /\ pc' = "receive" /\ wake' = 0 /\ bps' = limit
      /\ UNCHANGED <<limit, lastBps, bytes, elapsed, data, debt>>
  BY DEF Wake, NextRead
<1>2. /\ bps \in Rate /\ lastBps = bps /\ bytes \in Nat /\ elapsed \in Nat
      /\ Expected(bytes, lastBps) <= elapsed
  <2>1. bps \in Rate /\ lastBps = bps /\ bytes \in Nat /\ elapsed \in Nat
        /\ Expected(bytes, bps) - elapsed <= 0
    BY <1>1, BoundAssumption DEF PacingInv, TypeOK, WindowPaced, Throttles
  <2>2. Expected(bytes, bps) \in Nat
    BY <2>1, ExpectedScales
  <2> QED BY <2>1, <2>2
<1>3. TypeOK' /\ ChunkFits'
  BY <1>1 DEF PacingInv, TypeOK, ChunkFits
<1>4. WindowPaced'
  BY <1>1, <1>2 DEF WindowPaced, Expected
<1>5. DebtFollowsWindow'
  <2> SUFFICES ASSUME Throttles(limit)
               PROVE  /\ lastBps # limit => debt <= ChunkSize * Second
                      /\ lastBps = limit =>
                           debt = 0 \/ debt <= Ahead + (limit + ChunkSize) * Second
    BY <1>1 DEF DebtFollowsWindow, Throttles, Ahead
  <2> QED BY <1>1, <1>2 DEF PacingInv, DebtFollowsWindow
<1> QED BY <1>3, <1>4, <1>5 DEF PacingInv

LEMMA ChangeLimitKeepsInv ==
    ASSUME PacingInv, ChangeLimit
    PROVE  PacingInv'
<1>1. /\ limit' \in Limit /\ debt' = 0
      /\ UNCHANGED <<pc, bps, lastBps, bytes, elapsed, data, wake>>
  BY DEF ChangeLimit
<1>2. TypeOK'
  BY <1>1 DEF PacingInv, TypeOK
<1>3. ChunkFits' /\ WindowPaced'
  BY <1>1 DEF PacingInv, ChunkFits, WindowPaced, Effective, Expected
<1>4. ChunkSize * Second \in Nat
  BY RateAssumption, SMT
<1>5. DebtFollowsWindow'
  BY <1>1, <1>4 DEF DebtFollowsWindow
<1> QED BY <1>2, <1>3, <1>5 DEF PacingInv

\* A window that is not seen to grow older is long past its limit by then.
LEMMA OldWindowIsBehind ==
    ASSUME PacingInv, lastBps \in Rate, elapsed = MaxElapsed
    PROVE  Expected(bytes, lastBps) < elapsed
<1> DEFINE period == Second \div lastBps
<1>1. period \in Nat /\ bytes \in Nat /\ bytes <= MaxWindow /\ MaxWindow \in Nat
      /\ ChunkSize \in Nat /\ Second \in Nat /\ elapsed \in Nat
  BY PeriodExact, BoundAssumption, RateAssumption DEF PacingInv, TypeOK
<1>2. elapsed > (MaxWindow + ChunkSize) * period + Second
  BY BoundAssumption
<1> HIDE DEF period
<1>3. bytes * period <= (MaxWindow + ChunkSize) * period
      /\ bytes * period \in Nat /\ (MaxWindow + ChunkSize) * period \in Nat
  BY <1>1, SMT
<1>4. Expected(bytes, lastBps) = bytes * period
  BY DEF Expected, period
<1> QED BY <1>1, <1>2, <1>3, <1>4

LEMMA TickKeepsInv ==
    ASSUME PacingInv, Tick
    PROVE  PacingInv'
<1>1. UNCHANGED <<limit, pc, bps, lastBps, bytes, data>>
  BY DEF Tick
<1>2. /\ elapsed \in 0..MaxElapsed /\ MaxElapsed \in Nat /\ wake \in Nat /\ debt \in Nat
      /\ bytes \in Nat
  BY BoundAssumption DEF PacingInv, TypeOK
<1>3. /\ elapsed' \in 0..MaxElapsed /\ elapsed <= elapsed' /\ elapsed' <= elapsed + 1
      /\ elapsed' = elapsed => elapsed = MaxElapsed
      /\ wake' \in Nat /\ wake' <= wake /\ wake <= wake' + 1
  BY <1>2 DEF Tick, Least, Largest
<1>4. Throttles(limit) => limit \in Rate /\ limit \in Nat /\ Second \in Nat /\ ChunkSize \in Nat
  BY PeriodExact, RateAssumption DEF Throttles
<1>5. debt' \in Nat /\ (Throttles(limit) => debt' = 0 \/ debt' = debt - limit)
  BY <1>2, <1>4 DEF Tick, Largest
<1>6. TypeOK' /\ ChunkFits'
  BY <1>1, <1>3, <1>5 DEF PacingInv, TypeOK, ChunkFits, Effective
<1>7. WindowPaced'
  <2>1. ASSUME pc # "sleep", Throttles(lastBps)
        PROVE  Expected(bytes, lastBps) <= elapsed'
    <3>1. Expected(bytes, lastBps) <= elapsed /\ Expected(bytes, lastBps) \in Nat
      BY <1>2, <2>1, ExpectedScales DEF PacingInv, WindowPaced, Throttles
    <3> QED BY <1>2, <1>3, <3>1
  <2>2. ASSUME pc = "sleep"
        PROVE  /\ Throttles(bps) /\ lastBps = bps
               /\ Expected(bytes, bps) - elapsed' <= wake'
               /\ wake' <= Expected(data, bps)
    <3>1. /\ bps \in Rate /\ lastBps = bps
          /\ Expected(bytes, bps) - elapsed <= wake
          /\ wake <= Expected(data, bps)
      BY <2>2 DEF PacingInv, WindowPaced, Throttles
    <3>2. Expected(bytes, bps) \in Nat /\ data \in Nat
      BY <1>2, <3>1, ExpectedScales, RateAssumption DEF PacingInv, TypeOK
    <3>3. Expected(data, bps) \in Nat
      BY <3>1, <3>2, ExpectedScales
    <3>4. CASE elapsed' = elapsed
      <4>1. Expected(bytes, bps) < elapsed
        BY <1>3, <3>1, <3>4, OldWindowIsBehind
      <4> QED BY <1>2, <1>3, <3>1, <3>2, <3>3, <3>4, <4>1 DEF Throttles
    <3>5. CASE elapsed' # elapsed
      <4>1. elapsed' = elapsed + 1
        BY <1>2, <1>3, <3>5
      <4>2. Expected(bytes, bps) - elapsed' <= wake'
        <5> DEFINE taken == Expected(bytes, bps)
        <5>1. taken \in Nat /\ taken - elapsed <= wake
          BY <3>1, <3>2
        <5>2. wake \in Nat /\ wake' \in Nat /\ wake <= wake' + 1 /\ elapsed \in Nat
          <6>1. wake <= wake' + 1
            BY <1>3
          <6>2. wake' \in Nat
            BY <1>3
          <6>3. wake \in Nat
            BY <1>2
          <6>4. elapsed \in Nat
            BY <1>2
          <6> QED BY <6>1, <6>2, <6>3, <6>4
        <5> HIDE DEF taken
        <5>3. taken - elapsed' <= wake'
          BY <4>1, <5>1, <5>2, TickPacesWindow
        <5> QED BY <5>3 DEF taken
      <4>3. wake' <= Expected(data, bps)
        BY <1>2, <1>3, <3>1, <3>3
      <4> QED BY <3>1, <4>2, <4>3 DEF Throttles
    <3> QED BY <3>4, <3>5
  <2> QED BY <1>1, <2>1, <2>2 DEF WindowPaced, Expected
<1>8. DebtFollowsWindow'
  <2> SUFFICES ASSUME Throttles(limit)
               PROVE  /\ bps # limit => debt' <= (IF pc = "sleep" THEN ChunkSize * Second ELSE 0)
                      /\ bps = limit /\ lastBps # limit => debt' <= ChunkSize * Second
                      /\ bps = limit /\ lastBps = limit =>
                           \/ debt' = 0
                           \/ debt' <= bytes * Second - limit * elapsed'
                                         + (limit + ChunkSize) * Second
    BY <1>1 DEF DebtFollowsWindow, Throttles, Ahead
  <2>1. CASE debt' = 0
    <3>1. ChunkSize * Second \in Nat
      BY <1>4, SMT
    <3> QED BY <2>1, <3>1
  <2>2. CASE debt' = debt - limit
    <3>1. debt' <= debt
      BY <1>2, <1>4, <2>2
    <3>2. ChunkSize * Second \in Nat /\ (limit + ChunkSize) * Second \in Nat
      BY <1>4, SMT
    <3>3. /\ limit * elapsed' <= limit * elapsed + limit
          /\ limit * elapsed' \in Nat /\ limit * elapsed \in Nat /\ bytes * Second \in Nat
      <4>1. limit * (elapsed + 1) = limit * elapsed + limit
        BY <1>2, <1>4, TimesDistributes
      <4>2. elapsed' \in Nat /\ elapsed \in Nat /\ elapsed' <= elapsed + 1
        BY <1>2, <1>3
      <4>3. limit * elapsed' <= limit * (elapsed + 1)
        BY <1>4, <4>2, TimesMonotone
      <4> QED BY <1>2, <1>4, <4>1, <4>2, <4>3, AheadIsTime
    <3>4. ASSUME bps = limit, lastBps = limit
          PROVE  \/ debt' = 0
                 \/ debt' <= bytes * Second - limit * elapsed' + (limit + ChunkSize) * Second
      <4>1. debt = 0 \/ debt <= bytes * Second - limit * elapsed + (limit + ChunkSize) * Second
        BY <3>4 DEF PacingInv, DebtFollowsWindow, Ahead
      <4> QED BY <1>2, <1>4, <1>5, <2>2, <3>2, <3>3, <4>1
    <3>5. /\ bps # limit => debt <= (IF pc = "sleep" THEN ChunkSize * Second ELSE 0)
          /\ bps = limit /\ lastBps # limit => debt <= ChunkSize * Second
      BY DEF PacingInv, DebtFollowsWindow
    <3> QED BY <1>2, <1>5, <3>1, <3>2, <3>4, <3>5
  <2> QED BY <1>5, <2>1, <2>2
<1> QED BY <1>6, <1>7, <1>8 DEF PacingInv

LEMMA PacingInvStep == PacingInv /\ [Next]_vars => PacingInv'
<1> SUFFICES ASSUME PacingInv, [Next]_vars PROVE PacingInv'
  OBVIOUS
<1>1. CASE UNCHANGED vars
  BY <1>1 DEF vars, PacingInv, TypeOK, ChunkFits, WindowPaced, DebtFollowsWindow, Ahead,
              Effective, Expected, Throttles
<1> QED BY <1>1, ReceiveKeepsInv, SentUnthrottledKeepsInv, SentThrottledKeepsInv,
           WakeKeepsInv, ChangeLimitKeepsInv, TickKeepsInv DEF Next

\* The invariant of a pipe, for every set of limits.
THEOREM PacingInvariant == Spec => []PacingInv
BY PacingInvInit, PacingInvStep, PTL DEF Spec

----------------------------------------------------------------------------
LEMMA LimitHoldsFromInv == PacingInv => LimitHolds
<1> SUFFICES ASSUME PacingInv, Throttles(limit)
             PROVE  debt <= (limit + Effective(limit) + ChunkSize) * Second
  BY DEF LimitHolds
<1>1. /\ limit \in Rate /\ limit \in Nat /\ bytes \in Nat /\ elapsed \in Nat
      /\ debt \in Nat /\ wake \in Nat /\ data \in Nat
      /\ ChunkSize \in Nat /\ Second \in Nat
  BY PeriodExact, BoundAssumption, RateAssumption DEF PacingInv, TypeOK, Throttles
<1>2. Effective(limit) \in Nat
  BY <1>1, EffectiveFits, PeriodExact
<1> DEFINE burst == (limit + ChunkSize) * Second
<1>3. /\ (limit + Effective(limit) + ChunkSize) * Second = burst + Effective(limit) * Second
      /\ burst = limit * Second + ChunkSize * Second
      /\ Effective(limit) * Second \in Nat /\ limit * Second \in Nat /\ ChunkSize * Second \in Nat
  BY <1>1, <1>2, SMT
<1> HIDE DEF burst
<1>4. CASE bps # limit \/ lastBps # limit
  BY <1>1, <1>3, <1>4 DEF PacingInv, DebtFollowsWindow
<1>5. CASE bps = limit /\ lastBps = limit
  <2>1. debt = 0 \/ debt <= bytes * Second - limit * elapsed + burst
    BY <1>5 DEF PacingInv, DebtFollowsWindow, Ahead, burst
  <2>2. bytes * Second - limit * elapsed <= Effective(limit) * Second
        /\ bytes * Second \in Nat /\ limit * elapsed \in Nat
    <3>1. CASE pc # "sleep"
      BY <1>1, <1>3, <1>5, <3>1, AheadIsTime DEF PacingInv, WindowPaced
    <3>2. CASE pc = "sleep"
      <4>1. /\ Expected(bytes, limit) - elapsed <= Expected(data, limit)
            /\ Expected(bytes, limit) \in Nat /\ Expected(data, limit) \in Nat
        BY <1>1, <1>5, <3>2, ExpectedScales DEF PacingInv, WindowPaced
      <4>2. limit * (Expected(bytes, limit) - elapsed) <= data * Second
        <5>1. /\ limit * Expected(data, limit) = data * Second
              /\ Expected(bytes, limit) - elapsed \in Int /\ Expected(data, limit) \in Int
          BY <1>1, <4>1, ExpectedScales
        <5>2. limit * (Expected(bytes, limit) - elapsed) <= limit * Expected(data, limit)
          BY <1>1, <4>1, <5>1, TimesMonotone
        <5> QED BY <5>1, <5>2
      <4>3. data <= Effective(limit)
        BY <1>2, <1>5, <3>2 DEF PacingInv, ChunkFits
      <4>4. data * Second <= Effective(limit) * Second /\ data * Second \in Nat
        BY <1>1, <1>2, <4>3, SMT
      <4> QED BY <1>1, <1>3, <4>2, <4>4, AheadIsTime
    <3> QED BY <3>1, <3>2
  <2>3. burst \in Nat
    BY <1>3
  <2> QED BY <1>1, <1>3, <2>1, <2>2, <2>3
<1> QED BY <1>4, <1>5

\* For every set of limits, whatever the operator changes and however long the
\* source and the destination take, the pipe sends at most what the limit in
\* force gives, one second of it and two reads.
THEOREM LimitHoldsProved == Spec => []LimitHolds
BY PacingInvariant, LimitHoldsFromInv, PTL

\* No sleep outlasts the last chunk at the limit it was read under.
THEOREM SleepsAreShortProved == Spec => []SleepsAreShort
<1>1. PacingInv => SleepsAreShort
  BY DEF PacingInv, WindowPaced, SleepsAreShort
<1> QED BY <1>1, PacingInvariant, PTL
=============================================================================
