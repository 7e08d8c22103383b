----------------------- MODULE ContinuityCounterProofs -----------------------
(***************************************************************************)
(* Type correctness of the continuity check, the absence of false alarms   *)
(* and the books it keeps of losses and errors, for every set of PIDs,     *)
(* every modulus and every bound.                                          *)
(***************************************************************************)
EXTENDS ContinuityCounter, TLAPS

\* The wrap-around of the counter stays in range, and neither neighbour of a
\* counter value is the value itself.
LEMMA Neighbours ==
    ASSUME NEW c \in Counters
    PROVE  /\ Successor(c) \in Counters
           /\ Predecessor(c) \in Counters
           /\ Predecessor(c) # c
BY CCAssumption DEF Counters, Successor, Predecessor

\* One packet leaves the code's part of the state well typed.
LEMMA CheckType ==
    ASSUME TypeOK,
           NEW pid, NEW cc, NEW afc,
           CheckContinuityCounter(pid, cc, afc)
    PROVE  /\ Watched' = Watched
           /\ cc_list_' \in [Watched -> Counters]
           /\ cc_error_counter_' \in Nat
           /\ initialised' \in BOOLEAN
<1>1. initialised' \in BOOLEAN
  BY DEF CheckContinuityCounter, TypeOK
<1>2. cc_error_counter_' \in Nat
  BY DEF CheckContinuityCounter, TypeOK
<1>3. cc_list_' \in [Watched -> Counters]
  <2>1. CASE Expected(pid, cc)
    <3>1. pid \in Watched /\ cc_list_[pid] \in Counters
      BY <2>1 DEF Expected, Checked, TypeOK
    <3>2. Successor(cc_list_[pid]) \in Counters
      BY <3>1, Neighbours
    <3>3. cc_list_' = [cc_list_ EXCEPT ![pid] = Successor(cc_list_[pid])]
      BY <2>1 DEF CheckContinuityCounter
    <3> QED BY <3>1, <3>2, <3>3 DEF TypeOK
  <2>2. CASE ~Expected(pid, cc)
    BY <2>2 DEF CheckContinuityCounter, TypeOK
  <2> QED BY <2>1, <2>2
<1>4. Watched' = Watched
  BY <1>3 DEF Watched, TypeOK
<1> QED BY <1>1, <1>2, <1>3, <1>4

\* Counting an event in a tally leaves a tally.
LEMMA IncrementType ==
    ASSUME NEW f \in [PIDs -> Nat], NEW p \in PIDs, NEW condition \in BOOLEAN
    PROVE  Increment(f, p, condition) \in [PIDs -> Nat]
BY DEF Increment

-----------------------------------------------------------------------------
\* Every reachable state of the check is well typed.
THEOREM TypeCorrect == Spec => []TypeOK
<1>1. Init => TypeOK
  <2> SUFFICES ASSUME Init PROVE TypeOK
    OBVIOUS
  <2>1. Watched = {} /\ cc_list_ \in [Watched -> Counters]
    BY DEF Init, Watched
  <2>2. /\ lost \in [PIDs -> 0 .. MaxLost]
        /\ repeated \in [PIDs -> 0 .. MaxRepeated]
        /\ reported \in [PIDs -> Nat] /\ realigned \in [PIDs -> Nat]
    BY CCAssumption DEF Init
  <2>3. next \in [PIDs -> Counters] /\ first \in [PIDs -> Counters]
    BY DEF Init
  <2> QED BY <2>1, <2>2, <2>3 DEF Init, TypeOK
<1>2. TypeOK /\ [Next]_vars => TypeOK'
  <2> SUFFICES ASSUME TypeOK, [Next]_vars PROVE TypeOK'
    OBVIOUS
  <2>1. ASSUME NEW streams \in SUBSET (PIDs \cup {NullPID}),
               SetPidValueInit(streams)
        PROVE  TypeOK'
    <3>1. cc_list_' \in [Watched \cup streams -> Counters]
      BY <2>1, CCAssumption DEF SetPidValueInit, TypeOK, Counters, Watched
    <3>2. Watched' = Watched \cup streams
      BY <3>1 DEF Watched
    <3> QED BY <2>1, <3>1, <3>2
            DEF SetPidValueInit, TypeOK, stream, tally
  <2>2. ASSUME NEW p \in PIDs, Payload(p) PROVE TypeOK'
    <3>1. CheckContinuityCounter(p, next[p], 1)
      BY <2>2 DEF Payload
    <3>2. next' \in [PIDs -> Counters]
      BY <2>2, Neighbours DEF Payload, TypeOK
    <3>3. reported' \in [PIDs -> Nat]
      BY <2>2, IncrementType DEF Payload, TypeOK, Reports, Checked, Expected
    <3> QED BY <2>2, <3>1, <3>2, <3>3, CheckType DEF Payload, TypeOK
  <2>3. ASSUME NEW p \in PIDs, Lose(p) PROVE TypeOK'
    <3>1. next' \in [PIDs -> Counters]
      BY <2>3, Neighbours DEF Lose, TypeOK
    <3>2. lost' \in [PIDs -> 0 .. MaxLost]
      BY <2>3, CCAssumption DEF Lose, TypeOK
    <3> QED BY <2>3, <3>1, <3>2 DEF Lose, TypeOK, code, tally, Watched
  <2>4. ASSUME NEW p \in PIDs, Repeat(p) PROVE TypeOK'
    <3>1. CheckContinuityCounter(p, Predecessor(next[p]), 1)
      BY <2>4 DEF Repeat
    <3>2. repeated' \in [PIDs -> 0 .. MaxRepeated]
      BY <2>4, CCAssumption DEF Repeat, TypeOK
    <3>3. realigned' \in [PIDs -> Nat]
      BY <2>4, IncrementType DEF Repeat, TypeOK, Checked, Expected
    <3> QED BY <2>4, <3>1, <3>2, <3>3, CheckType DEF Repeat, TypeOK
  <2>5. ASSUME NEW p \in PIDs, NEW afc \in {0, 2}, NoPayload(p, afc)
        PROVE  TypeOK'
    <3>1. CheckContinuityCounter(p, Predecessor(next[p]), afc)
      BY <2>5 DEF NoPayload
    <3>2. realigned' \in [PIDs -> Nat]
      BY <2>5, IncrementType DEF NoPayload, TypeOK, Checked, Expected
    <3> QED BY <2>5, <3>1, <3>2, CheckType DEF NoPayload, TypeOK, stream
  <2>6. ASSUME NEW cc \in Counters, NullPacket(cc) PROVE TypeOK'
    <3>1. CheckContinuityCounter(NullPID, cc, 1)
      BY <2>6 DEF NullPacket
    <3> QED BY <2>6, <3>1, CheckType DEF NullPacket, TypeOK, stream, tally
  <2>7. ASSUME UNCHANGED vars PROVE TypeOK'
    BY <2>7 DEF vars, TypeOK, Watched
  <2> QED BY <2>1, <2>2, <2>3, <2>4, <2>5, <2>6, <2>7 DEF Next
<1> QED BY <1>1, <1>2, PTL DEF Spec

-----------------------------------------------------------------------------
\* The strengthening of NoFalseAlarm: as long as a watched PID has lost and
\* repeated nothing, the code expects exactly the counter that comes next.
InStep == /\ ~initialised => Watched = {} /\ next = first
          /\ \A p \in Watched \cap PIDs : Clean(p) => cc_list_[p] = next[p]

AllClean == \A p \in PIDs : Clean(p)

AlarmInv == InStep /\ (AllClean => cc_error_counter_ = 0)

\* No packet that belongs to a clean PID, carries no payload or is a NULL
\* packet makes the code report an error, and a clean PID stays in step.
THEOREM NoFalseAlarms == Spec => []NoFalseAlarm
<1>1. Init => AlarmInv
  BY DEF Init, AlarmInv, InStep, Watched
<1>2. TypeOK /\ AlarmInv /\ [Next]_vars => AlarmInv'
  <2> SUFFICES ASSUME TypeOK, AlarmInv, [Next]_vars PROVE AlarmInv'
    OBVIOUS
  <2>1. ASSUME NEW streams \in SUBSET (PIDs \cup {NullPID}),
               SetPidValueInit(streams)
        PROVE  AlarmInv'
    <3>1. /\ Watched = {} /\ next = first
          /\ initialised' = TRUE /\ cc_error_counter_' = 0
          /\ next' = next /\ first' = first
      BY <2>1 DEF SetPidValueInit, AlarmInv, InStep, stream
    <3>2. cc_list_' = [p \in streams |-> 0]
      BY <2>1, <3>1 DEF SetPidValueInit
    <3>3. ASSUME NEW p \in PIDs, p \in Watched', Clean(p)'
          PROVE  cc_list_'[p] = next'[p]
      BY <3>1, <3>2, <3>3 DEF Clean, Watched
    <3> QED BY <3>1, <3>3 DEF AlarmInv, InStep
  <2>2. ASSUME NEW p \in PIDs, Payload(p) PROVE AlarmInv'
    <3>1. CheckContinuityCounter(p, next[p], 1)
      BY <2>2 DEF Payload
    <3>2. /\ Watched' = Watched /\ initialised /\ initialised'
          /\ first' = first /\ lost' = lost /\ repeated' = repeated
          /\ next' = [next EXCEPT ![p] = Successor(next[p])]
      BY <2>2, <3>1, CheckType DEF Payload, CheckContinuityCounter
    <3>3. \A q \in PIDs : Clean(q)' <=> Clean(q)
      BY <3>2 DEF Clean
    <3>4. ASSUME NEW q \in PIDs, q \in Watched', Clean(q)'
          PROVE  cc_list_'[q] = next'[q]
      <4>1. q \in Watched /\ cc_list_[q] = next[q]
        BY <3>2, <3>3, <3>4 DEF AlarmInv, InStep
      <4>2. CASE q = p
        <5>1. Expected(p, next[p])
          BY <4>1, <4>2, CCAssumption DEF Expected, Checked
        <5>2. cc_list_' = [cc_list_ EXCEPT ![p] = Successor(cc_list_[p])]
          BY <3>1, <5>1 DEF CheckContinuityCounter
        <5> QED BY <4>1, <4>2, <5>2, <3>2 DEF TypeOK
      <4>3. CASE q # p
        <5>1. cc_list_'[q] = cc_list_[q]
          BY <3>1, <4>1, <4>3 DEF CheckContinuityCounter, TypeOK
        <5> QED BY <4>1, <4>3, <5>1, <3>2 DEF TypeOK
      <4> QED BY <4>2, <4>3
    <3>5. ASSUME AllClean' PROVE cc_error_counter_' = 0
      <4>1. AllClean /\ cc_error_counter_ = 0
        BY <3>3, <3>5 DEF AllClean, AlarmInv
      <4>2. ~Reports(p, next[p], 1)
        BY <4>1 DEF AllClean, AlarmInv, InStep, Reports, Checked, Expected
      <4> QED BY <4>1, <4>2, <3>1 DEF CheckContinuityCounter
    <3> QED BY <3>2, <3>4, <3>5 DEF AlarmInv, InStep
  <2>3. ASSUME NEW p \in PIDs, Lose(p) PROVE AlarmInv'
    <3>1. /\ lost' = [lost EXCEPT ![p] = lost[p] + 1]
          /\ next' = [next EXCEPT ![p] = Successor(next[p])]
          /\ first' = first /\ repeated' = repeated /\ cc_list_' = cc_list_
          /\ cc_error_counter_' = cc_error_counter_
          /\ initialised /\ initialised' /\ Watched' = Watched
      BY <2>3 DEF Lose, code, Watched
    <3>2. lost'[p] # 0
      BY <3>1, CCAssumption DEF TypeOK
    <3>3. ~AllClean'
      BY <3>2 DEF AllClean, Clean
    <3>4. ASSUME NEW q \in PIDs, q \in Watched', Clean(q)'
          PROVE  cc_list_'[q] = next'[q]
      <4>1. q # p
        BY <3>2, <3>4 DEF Clean
      <4>2. Clean(q) /\ next'[q] = next[q]
        BY <3>1, <3>4, <4>1 DEF Clean, TypeOK
      <4> QED BY <3>1, <3>4, <4>2 DEF AlarmInv, InStep
    <3> QED BY <3>1, <3>3, <3>4 DEF AlarmInv, InStep
  <2>4. ASSUME NEW p \in PIDs, Repeat(p) PROVE AlarmInv'
    <3>1. CheckContinuityCounter(p, Predecessor(next[p]), 1)
      BY <2>4 DEF Repeat
    <3>2. /\ Watched' = Watched /\ initialised /\ initialised'
          /\ first' = first /\ lost' = lost /\ next' = next
          /\ repeated' = [repeated EXCEPT ![p] = repeated[p] + 1]
      BY <2>4, <3>1, CheckType DEF Repeat, CheckContinuityCounter
    <3>3. repeated'[p] # 0
      BY <3>2, CCAssumption DEF TypeOK
    <3>4. ~AllClean'
      BY <3>3 DEF AllClean, Clean
    <3>5. ASSUME NEW q \in PIDs, q \in Watched', Clean(q)'
          PROVE  cc_list_'[q] = next'[q]
      <4>1. q # p
        BY <3>3, <3>5 DEF Clean
      <4>2. Clean(q) /\ q \in Watched
        BY <3>2, <3>5, <4>1 DEF Clean, TypeOK
      <4>3. cc_list_'[q] = cc_list_[q]
        BY <3>1, <4>1, <4>2 DEF CheckContinuityCounter, TypeOK
      <4> QED BY <3>2, <4>2, <4>3 DEF AlarmInv, InStep
    <3> QED BY <3>2, <3>4, <3>5 DEF AlarmInv, InStep
  <2>5. ASSUME NEW p \in PIDs, NEW afc \in {0, 2}, NoPayload(p, afc)
        PROVE  AlarmInv'
    <3>1. CheckContinuityCounter(p, Predecessor(next[p]), afc)
      BY <2>5 DEF NoPayload
    <3>2. /\ Watched' = Watched /\ initialised /\ initialised'
          /\ first' = first /\ lost' = lost /\ next' = next
          /\ repeated' = repeated
      BY <2>5, <3>1, CheckType DEF NoPayload, CheckContinuityCounter, stream
    <3>3. cc_error_counter_' = cc_error_counter_
      BY <3>1 DEF CheckContinuityCounter, Reports
    <3>4. ASSUME NEW q \in PIDs, q \in Watched', Clean(q)'
          PROVE  cc_list_'[q] = next'[q]
      <4>1. q \in Watched /\ cc_list_[q] = next[q] /\ next[q] \in Counters
        BY <3>2, <3>4 DEF AlarmInv, InStep, Clean, TypeOK
      <4>2. q = p => ~Expected(p, Predecessor(next[p]))
        BY <4>1, Neighbours DEF Expected
      <4>3. cc_list_'[q] = cc_list_[q]
        BY <3>1, <4>1, <4>2 DEF CheckContinuityCounter, TypeOK
      <4> QED BY <3>2, <4>1, <4>3
    <3>5. AllClean' <=> AllClean
      BY <3>2 DEF AllClean, Clean
    <3> QED BY <3>2, <3>3, <3>4, <3>5 DEF AlarmInv, InStep
  <2>6. ASSUME NEW cc \in Counters, NullPacket(cc) PROVE AlarmInv'
    <3>1. /\ cc_list_' = cc_list_ /\ cc_error_counter_' = cc_error_counter_
          /\ initialised /\ initialised' /\ Watched' = Watched
          /\ next' = next /\ first' = first /\ lost' = lost
          /\ repeated' = repeated
      BY <2>6 DEF NullPacket, CheckContinuityCounter, Expected, Reports,
                  Checked, stream, Watched
    <3> QED BY <3>1 DEF AlarmInv, InStep, AllClean, Clean
  <2>7. ASSUME UNCHANGED vars PROVE AlarmInv'
    BY <2>7 DEF vars, AlarmInv, InStep, AllClean, Clean, Watched
  <2> QED BY <2>1, <2>2, <2>3, <2>4, <2>5, <2>6, <2>7 DEF Next
<1>3. AlarmInv => NoFalseAlarm
  BY DEF AlarmInv, AllClean, NoFalseAlarm
<1> QED BY <1>1, <1>2, <1>3, TypeCorrect, PTL DEF Spec

-----------------------------------------------------------------------------
(* Remainders.                                                             *)

\* A remainder is determined by its equation.
LEMMA Remainder ==
    ASSUME NEW m \in Nat \ {0}, NEW q \in Int, NEW r \in 0 .. m - 1
    PROVE  (m * q + r) % m = r
<1> DEFINE a == m * q + r
           s == a % m
           k == a \div m
<1>1. a \in Int /\ s \in 0 .. m - 1 /\ k \in Int /\ a = m * k + s
  BY SMTT(30)
<1> HIDE DEF s, k
<1>2. m * (k - q) = r - s
  BY <1>1
<1>3. CASE k - q >= 1
  <2>1. m * (k - q) >= m
    BY <1>1, <1>3, SMTT(30)
  <2> QED BY <1>1, <1>2, <2>1
<1>4. CASE k - q <= -1
  <2>1. m * (k - q) <= -m
    BY <1>1, <1>4, SMTT(30)
  <2> QED BY <1>1, <1>2, <2>1
<1>5. CASE k - q = 0
  <2>1. m * (k - q) = 0
    BY <1>1, <1>5
  <2> QED BY <1>1, <1>2, <2>1 DEF s
<1> QED BY <1>1, <1>3, <1>4, <1>5

\* The remainder of the number above, and below.
LEMMA RemainderOfNext ==
    ASSUME NEW m \in Nat \ {0, 1}, NEW a \in Int
    PROVE  /\ a % m \in 0 .. m - 1
           /\ (a + 1) % m = IF a % m = m - 1 THEN 0 ELSE (a % m) + 1
           /\ a % m = 1 => (a - 1) % m = 0
<1>1. PICK q \in Int, r \in 0 .. m - 1 : a = m * q + r
  <2>1. a % m \in 0 .. m - 1 /\ a \div m \in Int /\ a = m * (a \div m) + (a % m)
    BY SMTT(30)
  <2> QED BY <2>1
<1>2. a % m = r
  BY <1>1, Remainder
<1>3. CASE r = m - 1
  <2>1. q + 1 \in Int /\ 0 \in 0 .. m - 1
    OBVIOUS
  <2>2. (m * (q + 1) + 0) % m = 0
    BY <2>1, Remainder
  <2>3. a + 1 = m * (q + 1) + 0
    BY <1>1, <1>3
  <2> QED BY <1>2, <1>3, <2>2, <2>3
<1>4. CASE r # m - 1
  <2>1. a + 1 = m * q + (r + 1) /\ r + 1 \in 0 .. m - 1
    BY <1>1, <1>4
  <2>2. (m * q + (r + 1)) % m = r + 1
    BY <2>1, Remainder
  <2> QED BY <1>2, <1>4, <2>1, <2>2
<1>5. ASSUME r = 1 PROVE (a - 1) % m = 0
  <2>1. a - 1 = m * q + 0
    BY <1>1, <1>5
  <2> QED BY <2>1, Remainder
<1> QED BY <1>2, <1>3, <1>4, <1>5

-----------------------------------------------------------------------------
(* What one step does to a watched PID.                                    *)

\* How many counter values n is ahead of c.
Distance(n, c) == IF n >= c THEN n - c ELSE n - c + Modulus

Up(d) == IF d = Modulus - 1 THEN 0 ELSE d + 1

\* Distances on the circle of counter values.
LEMMA Distances ==
    ASSUME NEW n \in Counters, NEW c \in Counters
    PROVE  /\ Distance(n, c) \in Counters
           /\ Distance(n, c) = 0 <=> c = n
           /\ Distance(Successor(n), c) = Up(Distance(n, c))
           /\ c # n => Distance(n, c) # 0
           /\ Distance(Successor(n), Successor(c)) = Distance(n, c)
           /\ c = Predecessor(n) => /\ Distance(n, c) = 1
                                    /\ Distance(n, Successor(c)) = 0
BY CCAssumption DEF Counters, Distance, Successor, Predecessor, Up

Same(p) == lost'[p] = lost[p] /\ reported'[p] = reported[p] /\ realigned'[p] = realigned[p]

\* Nothing changes.
Keeps(p)   == Behind(p)' = Behind(p) /\ Same(p)
\* A packet that arrives out of step is reported.
IsReported(p) == /\ Behind(p) # 0 /\ Behind(p)' = Up(Behind(p))
                 /\ reported'[p] = reported[p] + 1 /\ cc_error_counter_' > 0
                 /\ lost'[p] = lost[p] /\ realigned'[p] = realigned[p]
\* A packet is lost.
IsLost(p) == /\ Behind(p)' = Up(Behind(p)) /\ lost'[p] = lost[p] + 1
             /\ reported'[p] = reported[p] /\ realigned'[p] = realigned[p]
\* A packet without payload or a repeated one hides the last loss.
IsHidden(p) == /\ Behind(p) = 1 /\ Behind(p)' = 0 /\ realigned'[p] = realigned[p] + 1
               /\ lost'[p] = lost[p] /\ reported'[p] = reported[p]

Effect(p) == Keeps(p) \/ IsReported(p) \/ IsLost(p) \/ IsHidden(p)

\* The distance of a watched PID.
LEMMA BehindIsDistance ==
    ASSUME TypeOK, NEW p \in Watched \cap PIDs
    PROVE  /\ next[p] \in Counters /\ cc_list_[p] \in Counters
           /\ Behind(p) = Distance(next[p], cc_list_[p])
           /\ lost[p] \in Nat /\ reported[p] \in Nat /\ realigned[p] \in Nat
           /\ first[p] \in Counters
BY CCAssumption DEF TypeOK, Behind, Distance

\* A packet of another PID does not touch what is expected of q.
LEMMA OtherPID ==
    ASSUME TypeOK, NEW q \in Watched, NEW pid, pid # q, NEW cc, NEW afc,
           CheckContinuityCounter(pid, cc, afc)
    PROVE  cc_list_'[q] = cc_list_[q]
BY DEF CheckContinuityCounter, TypeOK

\* The packets a PID sends.
LEMMA PayloadEffect ==
    ASSUME TypeOK, NEW p \in PIDs, Payload(p), NEW q \in Watched \cap PIDs
    PROVE  Effect(q)
<1>1. /\ CheckContinuityCounter(p, next[p], 1)
      /\ next' = [next EXCEPT ![p] = Successor(next[p])]
      /\ reported' = Increment(reported, p, Reports(p, next[p], 1))
      /\ lost' = lost /\ realigned' = realigned
  BY DEF Payload
<1>2. CASE q # p
  <2>1. cc_list_'[q] = cc_list_[q]
    BY <1>1, <1>2, OtherPID
  <2>2. next'[q] = next[q] /\ reported'[q] = reported[q]
    BY <1>1, <1>2 DEF TypeOK, Increment
  <2> QED BY <1>1, <2>1, <2>2 DEF Effect, Keeps, Same, Behind
<1>3. CASE q = p /\ cc_list_[q] = next[q]
  <2>1. Expected(q, next[q]) /\ ~Reports(q, next[q], 1)
    BY <1>3, CCAssumption DEF Expected, Checked, Reports
  <2>2. cc_list_'[q] = Successor(cc_list_[q]) /\ next'[q] = Successor(next[q])
    BY <1>1, <1>3, <2>1 DEF CheckContinuityCounter, TypeOK
  <2>3. reported' = reported
    BY <1>1, <1>3, <2>1 DEF Increment
  <2>4. Behind(q)' = Distance(next'[q], cc_list_'[q])
    BY DEF Behind, Distance
  <2> QED BY <1>1, <2>2, <2>3, <2>4, BehindIsDistance, Distances DEF Effect, Keeps, Same
<1>4. CASE q = p /\ cc_list_[q] # next[q]
  <2>1. ~Expected(q, next[q]) /\ Reports(q, next[q], 1)
    BY <1>4, CCAssumption DEF Expected, Checked, Reports
  <2>2. /\ cc_list_' = cc_list_ /\ next'[q] = Successor(next[q])
        /\ cc_error_counter_' = cc_error_counter_ + 1
    BY <1>1, <1>4, <2>1 DEF CheckContinuityCounter, TypeOK
  <2>3. reported'[q] = reported[q] + 1
    BY <1>1, <1>4, <2>1 DEF Increment, TypeOK
  <2>4. Behind(q)' = Distance(next'[q], cc_list_'[q])
    BY DEF Behind, Distance
  <2>5. Behind(q) # 0 /\ Behind(q)' = Up(Behind(q))
    BY <1>4, <2>2, <2>4, BehindIsDistance, Distances
  <2>6. cc_error_counter_' > 0
    BY <2>2 DEF TypeOK
  <2> QED BY <1>1, <2>3, <2>5, <2>6 DEF Effect, IsReported
<1> QED BY <1>2, <1>3, <1>4

\* A packet that shows the counter of the payload packet before it.
LEMMA OldCounterEffect ==
    ASSUME TypeOK, NEW p \in PIDs, NEW afc,
           CheckContinuityCounter(p, Predecessor(next[p]), afc),
           realigned' = Increment(realigned, p, Expected(p, Predecessor(next[p]))),
           UNCHANGED <<next, lost, reported>>, NEW q \in Watched \cap PIDs
    PROVE  Effect(q)
<1>1. Behind(q)' = Distance(next'[q], cc_list_'[q])
  BY DEF Behind, Distance
<1>2. CASE q # p
  <2>1. cc_list_'[q] = cc_list_[q]
    BY <1>2, OtherPID
  <2>2. realigned'[q] = realigned[q]
    BY <1>2 DEF TypeOK, Increment
  <2> QED BY <2>1, <2>2 DEF Effect, Keeps, Same, Behind
<1>3. CASE q = p /\ ~Expected(p, Predecessor(next[p]))
  <2>1. cc_list_' = cc_list_ /\ realigned' = realigned
    BY <1>3 DEF CheckContinuityCounter, Increment
  <2> QED BY <2>1 DEF Effect, Keeps, Same, Behind
<1>4. CASE q = p /\ Expected(p, Predecessor(next[p]))
  <2>1. cc_list_[q] = Predecessor(next[q])
    BY <1>4 DEF Expected
  <2>2. cc_list_'[q] = Successor(cc_list_[q])
    BY <1>4 DEF CheckContinuityCounter, TypeOK
  <2>3. realigned'[q] = realigned[q] + 1
    BY <1>4 DEF Increment, TypeOK
  <2> QED BY <1>1, <2>1, <2>2, <2>3, BehindIsDistance, Distances DEF Effect, IsHidden
<1> QED BY <1>2, <1>3, <1>4

\* A packet that never arrives.
LEMMA LoseEffect ==
    ASSUME TypeOK, NEW p \in PIDs, Lose(p), NEW q \in Watched \cap PIDs
    PROVE  Effect(q)
<1>1. /\ lost' = [lost EXCEPT ![p] = lost[p] + 1]
      /\ next' = [next EXCEPT ![p] = Successor(next[p])]
      /\ UNCHANGED <<cc_list_, reported, realigned>>
  BY DEF Lose, code, tally
<1>2. CASE q # p
  <2>1. next'[q] = next[q] /\ lost'[q] = lost[q]
    BY <1>1, <1>2 DEF TypeOK
  <2> QED BY <1>1, <2>1 DEF Effect, Keeps, Same, Behind
<1>3. CASE q = p
  <2>1. next'[q] = Successor(next[q]) /\ lost'[q] = lost[q] + 1
    BY <1>1, <1>3 DEF TypeOK
  <2>2. Behind(q)' = Distance(next'[q], cc_list_'[q])
    BY DEF Behind, Distance
  <2> QED BY <1>1, <2>1, <2>2, BehindIsDistance, Distances DEF Effect, IsLost
<1> QED BY <1>2, <1>3

\* Of a PID that is watched already, the constructor changes nothing; every
\* other step has one of the effects above.
LEMMA StepEffect ==
    ASSUME TypeOK, [Next]_vars, NEW q \in Watched \cap PIDs, initialised
    PROVE  Effect(q) /\ first' = first
<1>1. ASSUME NEW p \in PIDs, Payload(p) PROVE Effect(q) /\ first' = first
  BY <1>1, PayloadEffect DEF Payload
<1>2. ASSUME NEW p \in PIDs, Lose(p) PROVE Effect(q) /\ first' = first
  BY <1>2, LoseEffect DEF Lose
<1>3. ASSUME NEW p \in PIDs, Repeat(p) PROVE Effect(q) /\ first' = first
  BY <1>3, OldCounterEffect DEF Repeat
<1>4. ASSUME NEW p \in PIDs, NEW afc \in {0, 2}, NoPayload(p, afc)
      PROVE  Effect(q) /\ first' = first
  BY <1>4, OldCounterEffect DEF NoPayload, stream
<1>5. ASSUME NEW cc \in Counters, NullPacket(cc)
      PROVE  Effect(q) /\ first' = first
  BY <1>5 DEF NullPacket, CheckContinuityCounter, Expected, Checked, stream, tally,
              Effect, Keeps, Same, Behind
<1>6. ASSUME UNCHANGED vars PROVE Effect(q) /\ first' = first
  BY <1>6 DEF vars, Effect, Keeps, Same, Behind
<1>7. ASSUME NEW streams, SetPidValueInit(streams) PROVE FALSE
  BY <1>7 DEF SetPidValueInit
<1> QED BY <1>1, <1>2, <1>3, <1>4, <1>5, <1>6, <1>7 DEF Next

-----------------------------------------------------------------------------
(* The books of the check.                                                 *)

\* Before the constructor nothing is watched and nothing has happened.
StartInv == ~initialised => /\ Watched = {} /\ next = first
                            /\ \A p \in PIDs : /\ lost[p] = 0 /\ reported[p] = 0
                                               /\ realigned[p] = 0

\* An error that was reported was counted.
ErrorsCounted == \A p \in Watched \cap PIDs : reported[p] > 0 => cc_error_counter_ > 0

BookInv == StartInv /\ Accounting /\ AmplificationBounded /\ ErrorsCounted

\* The three books of one PID.
Sum(p)     == first[p] + lost[p] + reported[p] - realigned[p]
ToGo(p)    == IF Behind(p) = 0 THEN 0 ELSE Modulus - Behind(p)
Limit(p)   == (Modulus - 1) * (lost[p] + (IF first[p] = 0 THEN 0 ELSE 1))
Books(p)   == /\ Behind(p) = Sum(p) % Modulus
              /\ reported[p] + ToGo(p) <= Limit(p)
              /\ reported[p] > 0 => cc_error_counter_ > 0

\* One more loss raises the limit by one round of the counter.
LEMMA LimitOfNext ==
    ASSUME NEW n \in Nat, NEW k \in Nat, NEW m \in Nat
    PROVE  m * ((n + 1) + k) = m * (n + k) + m
OBVIOUS

\* The constructor: the distance to the stream is that of its first counter.
LEMMA FirstBooks ==
    ASSUME TypeOK, StartInv, NEW streams \in SUBSET (PIDs \cup {NullPID}),
           SetPidValueInit(streams)
    PROVE  \A p \in Watched' \cap PIDs : Books(p)'
<1>1. /\ Watched = {} /\ next = first /\ next' = next /\ first' = first
      /\ \A p \in PIDs : lost'[p] = 0 /\ reported'[p] = 0 /\ realigned'[p] = 0
  BY DEF SetPidValueInit, StartInv, stream, tally
<1>2. cc_list_' = [p \in streams |-> 0] /\ Watched' = streams
  BY <1>1 DEF SetPidValueInit, Watched
<1> SUFFICES ASSUME NEW p \in streams \cap PIDs PROVE Books(p)'
  BY <1>2
<1>3. first[p] \in Counters /\ first'[p] = first[p] /\ next'[p] = first[p]
      /\ cc_list_'[p] = 0
  BY <1>1, <1>2 DEF TypeOK
<1>4. Behind(p)' = first[p] /\ Sum(p)' = first[p]
  BY <1>1, <1>3 DEF Behind, Sum, Counters
<1>5. first[p] % Modulus = first[p]
  <2>1. first[p] = Modulus * 0 + first[p]
    BY <1>3, CCAssumption DEF Counters
  <2>2. (Modulus * 0 + first[p]) % Modulus = first[p]
    BY <1>3, CCAssumption, Remainder DEF Counters
  <2> QED BY <2>1, <2>2
<1>6. (reported[p] + ToGo(p) <= Limit(p))'
  BY <1>1, <1>3, <1>4, CCAssumption DEF ToGo, Limit, Counters
<1> QED BY <1>1, <1>4, <1>5, <1>6 DEF Books

\* Every effect leaves the books of a PID balanced.
LEMMA EffectBooks ==
    ASSUME TypeOK, NEW p \in Watched \cap PIDs, Books(p), Effect(p), first' = first,
           cc_error_counter_' >= cc_error_counter_, cc_error_counter_' \in Nat
    PROVE  Books(p)'
<1> DEFINE o == IF first[p] = 0 THEN 0 ELSE 1
<1>1. /\ Behind(p) \in Counters
      /\ lost[p] \in Nat /\ reported[p] \in Nat /\ realigned[p] \in Nat
      /\ first[p] \in Nat /\ Sum(p) \in Int /\ cc_error_counter_ \in Nat
      /\ Modulus \in Nat \ {0, 1}
  BY BehindIsDistance, Distances, CCAssumption DEF Sum, Counters, TypeOK
<1>2. Limit(p) = (Modulus - 1) * (lost[p] + o) /\ o \in {0, 1}
  BY DEF Limit
<1>3. (Limit(p))' = (Modulus - 1) * (lost'[p] + o)
  BY DEF Limit
<1> HIDE DEF o
<1>4. Limit(p) \in Int
  BY <1>1, <1>2
<1>5. CASE Keeps(p)
  <2>1. (Sum(p))' = Sum(p) /\ (ToGo(p))' = ToGo(p) /\ (Limit(p))' = Limit(p)
    BY <1>2, <1>3, <1>5 DEF Keeps, Same, Sum, ToGo
  <2> QED BY <1>1, <1>5, <2>1 DEF Books, Keeps, Same
<1>6. CASE IsReported(p)
  <2>1. (Sum(p))' = Sum(p) + 1
    BY <1>1, <1>6 DEF IsReported, Sum
  <2>2. (Behind(p))' = (Sum(p))' % Modulus
    BY <1>1, <1>6, <2>1, RemainderOfNext DEF IsReported, Books, Up
  <2>3. (Limit(p))' = Limit(p) /\ (ToGo(p))' = ToGo(p) - 1
    BY <1>1, <1>2, <1>3, <1>6 DEF IsReported, ToGo, Up, Counters
  <2>4. ToGo(p) \in Nat
    BY <1>1 DEF ToGo, Counters
  <2>5. (reported[p] + ToGo(p) <= Limit(p))'
    BY <1>1, <1>4, <1>6, <2>3, <2>4 DEF IsReported, Books
  <2> QED BY <1>6, <2>2, <2>5 DEF Books, IsReported
<1>7. CASE IsLost(p)
  <2>1. (Sum(p))' = Sum(p) + 1
    BY <1>1, <1>7 DEF IsLost, Sum
  <2>2. (Behind(p))' = (Sum(p))' % Modulus
    BY <1>1, <1>7, <2>1, RemainderOfNext DEF IsLost, Books, Up
  <2>3. (Limit(p))' = Limit(p) + (Modulus - 1)
    <3>1. (Limit(p))' = (Modulus - 1) * ((lost[p] + 1) + o)
      BY <1>3, <1>7 DEF IsLost
    <3>2. o \in Nat /\ Modulus - 1 \in Nat
      BY <1>1, <1>2
    <3> QED BY <1>1, <1>2, <3>1, <3>2, LimitOfNext
  <2>4. ToGo(p) \in Nat /\ (ToGo(p))' \in Nat /\ (ToGo(p))' <= ToGo(p) + (Modulus - 1)
    BY <1>1, <1>7 DEF IsLost, ToGo, Up, Counters
  <2>5. (reported[p] + ToGo(p) <= Limit(p))'
    BY <1>1, <1>4, <1>7, <2>3, <2>4 DEF IsLost, Books
  <2> QED BY <1>1, <1>7, <2>2, <2>5 DEF Books, IsLost
<1>8. CASE IsHidden(p)
  <2>1. (Sum(p))' = Sum(p) - 1
    BY <1>1, <1>8 DEF IsHidden, Sum
  <2>2. (Behind(p))' = (Sum(p))' % Modulus
    BY <1>1, <1>8, <2>1, RemainderOfNext DEF IsHidden, Books
  <2>3. (Limit(p))' = Limit(p) /\ (ToGo(p))' = 0 /\ ToGo(p) \in Nat
    BY <1>1, <1>2, <1>3, <1>8 DEF IsHidden, ToGo, Counters
  <2>4. (reported[p] + ToGo(p) <= Limit(p))'
    BY <1>1, <1>4, <1>8, <2>3 DEF IsHidden, Books
  <2> QED BY <1>1, <1>8, <2>2, <2>4 DEF Books, IsHidden
<1> QED BY <1>5, <1>6, <1>7, <1>8 DEF Effect

\* Once the constructor has run, the list stays and errors are only added.
LEMMA ListStays ==
    ASSUME TypeOK, initialised, [Next]_vars
    PROVE  /\ initialised' /\ Watched' = Watched
           /\ cc_error_counter_' \in Nat /\ cc_error_counter_' >= cc_error_counter_
<1>1. ASSUME NEW pid, NEW cc, NEW afc, CheckContinuityCounter(pid, cc, afc)
      PROVE  /\ initialised' /\ Watched' = Watched
             /\ cc_error_counter_' \in Nat /\ cc_error_counter_' >= cc_error_counter_
  <2>1. Watched' = Watched
    BY <1>1, CheckType
  <2>2. initialised' = initialised
    BY <1>1 DEF CheckContinuityCounter
  <2>3. \/ cc_error_counter_' = cc_error_counter_
        \/ cc_error_counter_' = cc_error_counter_ + 1
    BY <1>1 DEF CheckContinuityCounter
  <2>4. cc_error_counter_ \in Nat
    BY DEF TypeOK
  <2> QED BY <2>1, <2>2, <2>3, <2>4
<1>2. CASE UNCHANGED <<cc_list_, cc_error_counter_, initialised>>
  BY <1>2 DEF TypeOK, Watched
<1> QED BY <1>1, <1>2 DEF Next, SetPidValueInit, Payload, Lose, Repeat, NoPayload,
           NullPacket, code, vars

\* The books balance in every state.
LEMMA BooksBalance == Spec => []BookInv
<1>1. Init => BookInv
  BY DEF Init, BookInv, StartInv, Accounting, AmplificationBounded, ErrorsCounted, Watched
<1>2. TypeOK /\ BookInv /\ [Next]_vars => BookInv'
  <2> SUFFICES ASSUME TypeOK, BookInv, [Next]_vars PROVE BookInv'
    OBVIOUS
  <2>0. (\A p \in Watched \cap PIDs : Books(p)) <=>
           Accounting /\ AmplificationBounded /\ ErrorsCounted
    BY DEF Books, Sum, ToGo, Limit, Accounting, AmplificationBounded, ErrorsCounted
  <2>1. (\A p \in Watched' \cap PIDs : Books(p)') <=>
           Accounting' /\ AmplificationBounded' /\ ErrorsCounted'
    BY DEF Books, Sum, ToGo, Limit, Accounting, AmplificationBounded, ErrorsCounted
  <2>2. CASE initialised
    <3>1. /\ initialised' /\ Watched' = Watched
          /\ cc_error_counter_' \in Nat /\ cc_error_counter_' >= cc_error_counter_
      BY <2>2, ListStays
    <3>2. \A p \in Watched \cap PIDs : Books(p)'
      BY <2>0, <2>2, <3>1, StepEffect, EffectBooks DEF BookInv
    <3> QED BY <2>1, <3>1, <3>2 DEF BookInv, StartInv
  <2>3. CASE ~initialised
    <3>1. CASE UNCHANGED vars
      BY <3>1 DEF vars, BookInv, StartInv, Accounting, AmplificationBounded,
                  ErrorsCounted, Behind, Watched
    <3>2. ASSUME NEW streams \in SUBSET (PIDs \cup {NullPID}), SetPidValueInit(streams)
          PROVE  BookInv'
      <4>1. initialised'
        BY <3>2 DEF SetPidValueInit
      <4> QED BY <2>1, <3>2, <4>1, FirstBooks DEF BookInv, StartInv
    <3> QED BY <2>3, <3>1, <3>2 DEF Next, Payload, Lose, Repeat, NoPayload, NullPacket,
               CheckContinuityCounter
  <2> QED BY <2>2, <2>3
<1> QED BY <1>1, <1>2, TypeCorrect, PTL DEF Spec

\* What the check expects is exactly what happened to the stream, for every
\* modulus: losses and reported packets move it away, hidden losses bring it back.
THEOREM ExactBooks == Spec => []Accounting
<1>1. BookInv => Accounting
  BY DEF BookInv
<1> QED BY <1>1, BooksBalance, PTL

\* One lost packet costs at most Modulus - 1 errors.
THEOREM BoundedErrors == Spec => []AmplificationBounded
<1>1. BookInv => AmplificationBounded
  BY DEF BookInv
<1> QED BY <1>1, BooksBalance, PTL

\* A loss that is not hidden and not a multiple of the period left an error.
THEOREM LossIsReported == Spec => []LossLeavesError
<1>1. TypeOK /\ BookInv => LossLeavesError
  <2> SUFFICES ASSUME TypeOK, BookInv, NEW p \in Watched \cap PIDs, Behind(p) = 0,
                      (first[p] + lost[p]) % Modulus # 0, realigned[p] = 0
               PROVE  cc_error_counter_ > 0
    BY DEF LossLeavesError
  <2>1. reported[p] \in Nat /\ first[p] \in Nat /\ lost[p] \in Nat
    BY BehindIsDistance DEF Counters
  <2>2. (first[p] + lost[p] + reported[p] - realigned[p]) % Modulus = 0
    BY DEF BookInv, Accounting
  <2>3. reported[p] # 0
    <3> SUFFICES ASSUME reported[p] = 0 PROVE FALSE
      OBVIOUS
    <3>1. first[p] + lost[p] + reported[p] - realigned[p] = first[p] + lost[p]
      BY <2>1
    <3> QED BY <2>2, <3>1
  <2> QED BY <2>1, <2>3 DEF BookInv, ErrorsCounted
<1> QED BY <1>1, BooksBalance, TypeCorrect, PTL
=============================================================================
