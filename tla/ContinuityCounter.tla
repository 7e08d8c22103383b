------------------------- MODULE ContinuityCounter -------------------------
(***************************************************************************)
(* TSPacket::CheckContinuityCounter, fed with the packets of a transport   *)
(* stream one after the other.                                             *)
(*                                                                         *)
(* The code keeps, for every elementary PID of the programme map, the      *)
(* counter value it expects next (last_continuity_counter_) and one global *)
(* error counter.  The stream is the environment: it numbers the payload   *)
(* packets of a PID modulo Modulus, may lose a packet, repeat one, insert  *)
(* packets without payload and insert NULL packets.  The variables first,  *)
(* lost, repeated, reported and realigned only record what happened.       *)
(***************************************************************************)
EXTENDS Integers

CONSTANTS PIDs,        \* the elementary PIDs that occur in the stream
          NullPID,     \* PID 8191, the NULL packet
          Modulus,     \* 16: the counter has four bits
          MaxLost,     \* bound: packets lost per PID
          MaxRepeated  \* bound: packets repeated per PID

ASSUME CCAssumption == /\ NullPID \notin PIDs
                       /\ Modulus \in Nat \ {0, 1}
                       /\ MaxLost \in Nat
                       /\ MaxRepeated \in Nat

VARIABLES cc_list_,           \* watched PID -> the counter expected next
          cc_error_counter_,  \* errors reported so far
          initialised,        \* SetPidValueInit has run
          next,               \* PID -> counter of its next payload packet
          first,              \* PID -> counter of its first payload packet
          lost,               \* PID -> payload packets that never arrived
          repeated,           \* PID -> payload packets that arrived twice
          reported,           \* PID -> errors counted on a payload packet
          realigned           \* PID -> losses hidden by a later packet

code   == <<cc_list_, cc_error_counter_, initialised>>
stream == <<next, first, lost, repeated>>
tally  == <<reported, realigned>>
vars   == <<cc_list_, cc_error_counter_, initialised, next, first, lost,
            repeated, reported, realigned>>

Counters == 0 .. Modulus - 1
Watched  == DOMAIN cc_list_

\* Mutant: the wrap-around is tested before the increment instead of after it.
SuccessorWrapsLate(c) == IF c = Modulus THEN 0 ELSE c + 1

Successor(c)   == IF c + 1 = Modulus THEN 0 ELSE c + 1
Predecessor(c) == IF c = 0 THEN Modulus - 1 ELSE c - 1

\* How many counter values the stream is ahead of what the code expects.
Behind(p) == IF next[p] >= cc_list_[p]
             THEN next[p] - cc_list_[p]
             ELSE next[p] - cc_list_[p] + Modulus

-----------------------------------------------------------------------------
(* The code.                                                               *)

Init == /\ cc_list_ = [p \in {} |-> 0]
        /\ cc_error_counter_ = 0
        /\ initialised = FALSE
        /\ first \in [PIDs -> Counters]
        /\ next = first
        /\ lost = [p \in PIDs |-> 0]
        /\ repeated = [p \in PIDs |-> 0]
        /\ reported = [p \in PIDs |-> 0]
        /\ realigned = [p \in PIDs |-> 0]

\* Mutant: the first expected counter is 1.
SetPidValueInitAtOne(streams) ==
    /\ ~initialised
    /\ initialised' = TRUE
    /\ cc_error_counter_' = 0
    /\ cc_list_' = [p \in Watched \cup streams |->
                        IF p \in Watched THEN cc_list_[p] ELSE 1]
    /\ UNCHANGED <<stream, tally>>

\* The PIDs of the programme map that are not in the list yet join it with
\* an expected counter of 0.  The constructor calls this once.
SetPidValueInit(streams) ==
    /\ ~initialised
    /\ initialised' = TRUE
    /\ cc_error_counter_' = 0
    /\ cc_list_' = [p \in Watched \cup streams |->
                        IF p \in Watched THEN cc_list_[p] ELSE 0]
    /\ UNCHANGED <<stream, tally>>

\* A NULL packet, or a PID that is not in the list, is not looked at.
Checked(pid)      == pid # NullPID /\ pid \in Watched
Expected(pid, cc) == Checked(pid) /\ cc_list_[pid] = cc

\* Mutants: the adaptation field control is not looked at, or compared with
\* the value of a packet that has payload.
ReportsWithoutPayload(pid, cc, afc) == Checked(pid) /\ ~Expected(pid, cc)
ReportsNoPayloadOnly(pid, cc, afc) ==
    Checked(pid) /\ ~Expected(pid, cc) /\ afc \notin {0, 1}

\* adaptation_field_control 0 and 2: the packet carries no payload.
Reports(pid, cc, afc) ==
    Checked(pid) /\ ~Expected(pid, cc) /\ afc \notin {0, 2}

\* Mutant: a match moves the expectation of every PID on.
CheckContinuityCounterEveryPID(pid, cc, afc) ==
    /\ initialised
    /\ cc_list_' = IF Expected(pid, cc)
                   THEN [p \in Watched |-> Successor(cc_list_[p])]
                   ELSE cc_list_
    /\ cc_error_counter_' = IF Reports(pid, cc, afc)
                            THEN cc_error_counter_ + 1
                            ELSE cc_error_counter_
    /\ UNCHANGED initialised

\* One packet: a match moves the expectation on whatever the packet carries,
\* a mismatch on payload is an error and leaves the expectation alone.
CheckContinuityCounter(pid, cc, afc) ==
    /\ initialised
    /\ cc_list_' = IF Expected(pid, cc)
                   THEN [cc_list_ EXCEPT ![pid] = Successor(@)]
                   ELSE cc_list_
    /\ cc_error_counter_' = IF Reports(pid, cc, afc)
                            THEN cc_error_counter_ + 1
                            ELSE cc_error_counter_
    /\ UNCHANGED initialised

-----------------------------------------------------------------------------
(* The stream.                                                             *)

Increment(f, p, condition) == IF condition THEN [f EXCEPT ![p] = @ + 1] ELSE f

\* The next payload packet of p arrives.
Payload(p) ==
    /\ CheckContinuityCounter(p, next[p], 1)
    /\ next' = [next EXCEPT ![p] = Successor(@)]
    /\ reported' = Increment(reported, p, Reports(p, next[p], 1))
    /\ UNCHANGED <<first, lost, repeated, realigned>>

\* The next payload packet of p never reaches the file.
Lose(p) ==
    /\ initialised
    /\ lost[p] < MaxLost
    /\ lost' = [lost EXCEPT ![p] = @ + 1]
    /\ next' = [next EXCEPT ![p] = Successor(@)]
    /\ UNCHANGED <<code, first, repeated, tally>>

\* A packet without payload shows the counter of the payload packet before it.
NoPayload(p, afc) ==
    /\ CheckContinuityCounter(p, Predecessor(next[p]), afc)
    /\ realigned' = Increment(realigned, p, Expected(p, Predecessor(next[p])))
    /\ UNCHANGED <<stream, reported>>

\* A payload packet is sent a second time, with its counter unchanged.
Repeat(p) ==
    /\ repeated[p] < MaxRepeated
    /\ CheckContinuityCounter(p, Predecessor(next[p]), 1)
    /\ repeated' = [repeated EXCEPT ![p] = @ + 1]
    /\ realigned' = Increment(realigned, p, Expected(p, Predecessor(next[p])))
    /\ UNCHANGED <<next, first, lost, reported>>

\* A NULL packet: its counter is arbitrary.
NullPacket(cc) ==
    /\ CheckContinuityCounter(NullPID, cc, 1)
    /\ UNCHANGED <<stream, tally>>

Next == \/ \E streams \in SUBSET (PIDs \cup {NullPID}) : SetPidValueInit(streams)
        \/ \E p \in PIDs : \/ Payload(p)
                           \/ Lose(p)
                           \/ Repeat(p)
        \/ \E p \in PIDs, afc \in {0, 2} : NoPayload(p, afc)
        \/ \E cc \in Counters : NullPacket(cc)

Spec == Init /\ [][Next]_vars

-----------------------------------------------------------------------------
(* Properties.                                                             *)

\* Every variable has its type; an expected counter stays below Modulus.
TypeOK == /\ Watched \subseteq PIDs \cup {NullPID}
          /\ cc_list_ \in [Watched -> Counters]
          /\ cc_error_counter_ \in Nat
          /\ initialised \in BOOLEAN
          /\ next \in [PIDs -> Counters]
          /\ first \in [PIDs -> Counters]
          /\ lost \in [PIDs -> 0 .. MaxLost]
          /\ repeated \in [PIDs -> 0 .. MaxRepeated]
          /\ reported \in [PIDs -> Nat]
          /\ realigned \in [PIDs -> Nat]

\* The stream did nothing to PID p the check could hold against it.
Clean(p) == first[p] = 0 /\ lost[p] = 0 /\ repeated[p] = 0

\* CheckContinuityCounter never counts an error for a stream that lost and
\* repeated nothing and whose counters start at 0, whatever packets without
\* payload, NULL packets and unlisted PIDs are mixed into it.
NoFalseAlarm == (\A p \in PIDs : Clean(p)) => cc_error_counter_ = 0

\* What the check knows about a watched PID is exactly what happened to it:
\* the distance to the stream is the losses plus the packets reported since,
\* less the losses a later packet hid, modulo the counter.
Accounting ==
    \A p \in Watched \cap PIDs :
        Behind(p) = (first[p] + lost[p] + reported[p] - realigned[p]) % Modulus

\* The code does not resynchronise after a loss, so each loss is reported
\* again with every packet until the counter has gone round; it is never
\* reported more than Modulus - 1 times.
AmplificationBounded ==
    \A p \in Watched \cap PIDs :
        reported[p] + (IF Behind(p) = 0 THEN 0 ELSE Modulus - Behind(p))
            <= (Modulus - 1) * (lost[p] + (IF first[p] = 0 THEN 0 ELSE 1))

\* When the check is back in step, a number of losses that is not a multiple
\* of the counter's period has left an error behind, unless a packet without
\* payload or a repeated packet hid one of them.
LossLeavesError ==
    \A p \in Watched \cap PIDs :
        /\ Behind(p) = 0
        /\ (first[p] + lost[p]) % Modulus # 0
        /\ realigned[p] = 0
        => cc_error_counter_ > 0
=============================================================================
