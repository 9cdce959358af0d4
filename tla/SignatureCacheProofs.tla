------------------------- MODULE SignatureCacheProofs -------------------------
(***************************************************************************)
(* One sign in flight per context, a wait that covers the retry, a cap on  *)
(* what is kept and the safety of SigningService, for any number of        *)
(* callers, contexts and signs and any timeouts, cap and sweep interval.   *)
(*                                                                         *)
(* SingleFlight is not inductive by itself.  A step that starts a sign     *)
(* must know that a miss for h means that no attempt for h is running,     *)
(* which takes that a running attempt is registered for its own hash, that *)
(* its channel is pending (so that InFlight keeps it through sweeps), and  *)
(* that an entry registered for h was started for h.                       *)
(***************************************************************************)
EXTENDS SignatureCache, FiniteSetTheorems, TLAPS

\* Entries beyond `started` do not exist yet.
NotYetBorn == \A e \in Signs : e > started <=> sign[e].task = "unborn"

\* A task that has not ended has sent nothing.
SilentUntilDone ==
    \A e \in Signs : sign[e].task # "gone" => sign[e].state = "pending"

\* An entry is registered under the hash it signs.
RegisteredByHash == \A h \in DOMAIN map : sign[map[h].entry].hash = h

\* A running attempt is the registered entry of its hash.
AttemptsRegistered ==
    \A e \in Signs : sign[e].task \in Attempts =>
       sign[e].hash \in DOMAIN map /\ map[sign[e].hash].entry = e

\* A sign that has failed is no longer registered, told or not.
FailuresEvicted ==
    \A h \in DOMAIN map : /\ sign[map[h].entry].task # "failing"
                          /\ sign[map[h].entry].state # "failed"

SignInv == /\ TypeOK
           /\ NotYetBorn
           /\ SilentUntilDone
           /\ RegisteredByHash
           /\ AttemptsRegistered
           /\ FailuresEvicted

-----------------------------------------------------------------------------
\* The insert of a fresh entry never drops another hash's sign in flight,
\* whichever of the sweeps it runs, and keeps nothing that was not there.
LEMMA KeptLemma ==
    ASSUME NEW h
    PROVE  /\ Kept(h) \subseteq DOMAIN map \ {h}
           /\ \A x \in DOMAIN map \ {h} : InFlight(map[x].entry) => x \in Kept(h)
BY DEF Kept, IsLive

\* evict touches no other entry, and leaves what it keeps as it was.
LEMMA WithoutLemma ==
    ASSUME NEW e \in Signs, TypeOK
    PROVE  /\ DOMAIN Without(e) \subseteq DOMAIN map
           /\ \A h \in DOMAIN Without(e) : Without(e)[h] = map[h]
           /\ \A h \in DOMAIN map : map[h].entry # e => h \in DOMAIN Without(e)
           /\ \A h \in DOMAIN Without(e) : sign[e].hash = h => map[h].entry # e
           /\ Without(e) \in [DOMAIN Without(e) -> Slots]
BY DEF Without, Restrict, TypeOK

\* A deadline is an instant not in the past.
LEMMA DeadlineLemma ==
    ASSUME NEW start \in Nat, clock \in Nat
    PROVE  Deadline(start) \in Nat
BY SignAssumption DEF Deadline

-----------------------------------------------------------------------------
LEMMA InitSignInv == Init => SignInv
<1> SUFFICES ASSUME Init PROVE SignInv
    OBVIOUS
<1>1. Unborn \in SignRecord
    BY SignAssumption DEF Unborn, SignRecord, Attempts
<1>2. TypeOK
    BY <1>1, SignAssumption DEF Init, TypeOK, NoCall, CallRecord, Slots, Signs
<1>3. NotYetBorn /\ SilentUntilDone /\ RegisteredByHash
      /\ AttemptsRegistered /\ FailuresEvicted
    BY DEF Init, Unborn, Signs, Attempts, NotYetBorn, SilentUntilDone,
           RegisteredByHash, AttemptsRegistered, FailuresEvicted
<1> QED BY <1>2, <1>3 DEF SignInv

-----------------------------------------------------------------------------
LEMMA JoinStep ==
    ASSUME SignInv, NEW c \in Callers, NEW h \in Hashes, Join(c, h)
    PROVE  SignInv'
<1> USE DEF SignInv
<1> DEFINE e == map[h].entry
<1>1. h \in DOMAIN map /\ e \in Signs /\ e <= started /\ map[h] \in Slots
    BY DEF Join, Hit, TypeOK, Slots
<1>2. /\ DOMAIN map' = DOMAIN map
      /\ \A x \in DOMAIN map : map'[x].entry = map[x].entry
      /\ map' \in [DOMAIN map -> Slots]
    BY <1>1 DEF Join, TypeOK, Slots
<1>3. Waiting(e, sign[e].start) \in CallRecord
      /\ Waiting(e, sign[e].start).entry = e
    <2>1. sign[e].start \in Nat
        BY <1>1 DEF TypeOK, SignRecord
    <2> QED BY <2>1, <1>1, DeadlineLemma DEF Waiting, CallRecord, Signs, TypeOK
<1>4. TypeOK'
    BY <1>1, <1>2, <1>3 DEF Join, TypeOK, Signs
<1> QED BY <1>2, <1>4
        DEF Join, TypeOK, NotYetBorn, SilentUntilDone, RegisteredByHash,
            AttemptsRegistered, FailuresEvicted

LEMMA StartSignStep ==
    ASSUME SignInv, NEW c \in Callers, NEW h \in Hashes, StartSign(c, h)
    PROVE  SignInv'
<1> USE DEF SignInv
<1> DEFINE e == started + 1
           fresh == [hash |-> h, state |-> "pending", task |-> "first",
                     start |-> clock, since |-> clock]
<1>1. e \in Signs /\ started' = e /\ started \in Nat
    BY SignAssumption DEF StartSign, TypeOK, Signs
<1>2. sign' = [sign EXCEPT ![e] = fresh] /\ fresh \in SignRecord
    BY DEF StartSign, TypeOK, SignRecord, Attempts
<1>3. /\ DOMAIN map' = Kept(h) \cup {h}
      /\ map'[h] = [entry |-> e, lastUsed |-> clock]
      /\ \A x \in Kept(h) : map'[x] = map[x]
    BY KeptLemma DEF StartSign
<1>4. Kept(h) \subseteq DOMAIN map /\ h \notin Kept(h)
    BY KeptLemma
<1>5. \A x \in DOMAIN map : map[x].entry \in Signs /\ map[x].entry # e
    BY <1>1 DEF TypeOK, Slots, Signs
<1>6. \A f \in Signs \ {e} : sign'[f] = sign[f]
    BY <1>2 DEF TypeOK
<1>7. sign'[e] = fresh
    BY <1>1, <1>2 DEF TypeOK
\* A miss: no attempt for h is running.
<1>8. \A f \in Signs : sign[f].task \in Attempts => sign[f].hash # h
    <2> SUFFICES ASSUME NEW f \in Signs, sign[f].task \in Attempts, sign[f].hash = h
                 PROVE  FALSE
        OBVIOUS
    <2>1. h \in DOMAIN map /\ map[h].entry = f
        BY DEF AttemptsRegistered
    <2>2. InFlight(f)
        BY DEF InFlight, SenderAlive, Attempts, SilentUntilDone
    <2> QED BY <2>1, <2>2 DEF StartSign, Hit, IsLive
<1>9. TypeOK'
    <2>1. /\ DOMAIN map' \subseteq Hashes
          /\ map' \in [DOMAIN map' -> Slots]
          /\ \A x \in DOMAIN map' : map'[x].entry <= started'
        <3>1. map' = [x \in Kept(h) \cup {h} |->
                        IF x = h THEN [entry |-> e, lastUsed |-> clock] ELSE map[x]]
            BY DEF StartSign
        <3>2. \A x \in Kept(h) : map[x] \in Slots /\ map[x].entry <= started
            BY <1>4 DEF TypeOK
        <3>3. [entry |-> e, lastUsed |-> clock] \in Slots
            BY <1>1 DEF TypeOK, Slots
        <3>4. \A x \in Kept(h) : map[x].entry \in Nat
            BY <3>2 DEF Slots, Signs
        <3> QED BY <1>1, <1>3, <1>4, <3>1, <3>2, <3>3, <3>4 DEF TypeOK
    <2>2. sign' \in [Signs -> SignRecord]
        BY <1>2 DEF TypeOK
    <2>3. inserts' \in Nat /\ clock' \in Nat /\ started' \in 0 .. MaxSigns
        BY <1>1 DEF StartSign, TypeOK, Signs
    <2>4. Waiting(e, clock) \in CallRecord /\ Waiting(e, clock).entry = e
        BY <1>1, DeadlineLemma DEF Waiting, CallRecord, TypeOK, Signs
    <2>5. caller' \in [Callers -> CallRecord]
        BY <2>4 DEF StartSign, TypeOK
    <2>6. \A d \in Callers : caller'[d].pc = "waiting" => caller'[d].entry \in 1 .. started'
        BY <2>4, <1>1 DEF StartSign, TypeOK
    <2> QED BY <2>1, <2>2, <2>3, <2>5, <2>6 DEF TypeOK
<1>10. NotYetBorn'
    BY <1>1, <1>6, <1>7 DEF NotYetBorn, Signs
<1>11. SilentUntilDone'
    BY <1>6, <1>7 DEF SilentUntilDone
<1>12. RegisteredByHash'
    BY <1>3, <1>4, <1>5, <1>6, <1>7 DEF RegisteredByHash
<1>13. AttemptsRegistered'
    <2> SUFFICES ASSUME NEW f \in Signs, f # e, sign[f].task \in Attempts
                 PROVE  /\ sign[f].hash \in DOMAIN map'
                        /\ map'[sign[f].hash].entry = f
        BY <1>3, <1>6, <1>7 DEF AttemptsRegistered
    <2>1. sign[f].hash \in DOMAIN map \ {h} /\ map[sign[f].hash].entry = f
        BY <1>8 DEF AttemptsRegistered
    <2>2. InFlight(f)
        BY DEF InFlight, SenderAlive, Attempts, SilentUntilDone
    <2>3. sign[f].hash \in Kept(h)
        BY <2>1, <2>2, KeptLemma
    <2> QED BY <2>1, <2>3, <1>3
<1>14. FailuresEvicted'
    BY <1>3, <1>4, <1>5, <1>6, <1>7 DEF FailuresEvicted
<1> QED BY <1>9, <1>10, <1>11, <1>12, <1>13, <1>14

\* A step of one task that leaves the map alone.
LEMMA QuietTaskStep ==
    ASSUME SignInv, NEW e \in Signs,
           AttemptSucceeds(e) \/ FirstFails(e) \/ BroadcastFailure(e) \/ TaskDies(e)
    PROVE  SignInv'
<1> USE DEF SignInv
<1>1. UNCHANGED <<clock, started, map, inserts, caller>>
    BY DEF AttemptSucceeds, FirstFails, BroadcastFailure, TaskDies
<1>2. \A f \in Signs \ {e} : sign'[f] = sign[f]
    BY DEF AttemptSucceeds, FirstFails, BroadcastFailure, TaskDies, TypeOK
<1>3. sign' \in [Signs -> SignRecord] /\ sign'[e].hash = sign[e].hash
    BY DEF AttemptSucceeds, FirstFails, BroadcastFailure, TaskDies, TypeOK,
           SignRecord, Attempts
<1>4. /\ sign[e].task # "unborn" /\ sign'[e].task \in {"second", "gone"}
      /\ sign'[e].task = "second" => sign[e].task = "first"
      /\ sign'[e].task = "second" => sign'[e].state = "pending"
      /\ sign'[e].state = "failed" => sign[e].state = "failed" \/ sign[e].task = "failing"
    BY DEF AttemptSucceeds, FirstFails, BroadcastFailure, TaskDies, TypeOK,
           SignRecord, Attempts, SilentUntilDone
<1>5. TypeOK'
    BY <1>1, <1>3 DEF TypeOK
<1>6. \A h \in DOMAIN map : map[h].entry \in Signs
    BY DEF TypeOK, Slots
<1>7. NotYetBorn' /\ SilentUntilDone'
    BY <1>1, <1>2, <1>4 DEF NotYetBorn, SilentUntilDone
<1>8. RegisteredByHash'
    BY <1>1, <1>2, <1>3, <1>6 DEF RegisteredByHash
<1>9. AttemptsRegistered'
    BY <1>1, <1>2, <1>3, <1>4 DEF AttemptsRegistered, Attempts
<1>10. FailuresEvicted'
    BY <1>1, <1>2, <1>4, <1>6 DEF FailuresEvicted
<1> QED BY <1>5, <1>7, <1>8, <1>9, <1>10

\* The failing task evicts its own entry and nobody else's.
LEMMA SecondFailsStep ==
    ASSUME SignInv, NEW e \in Signs, SecondFails(e)
    PROVE  SignInv'
<1> USE DEF SignInv
<1>1. map' = Without(e) /\ UNCHANGED <<clock, started, inserts, caller>>
    BY DEF SecondFails
<1>2. \A f \in Signs \ {e} : sign'[f] = sign[f]
    BY DEF SecondFails, TypeOK
<1>3. sign' \in [Signs -> SignRecord] /\ sign'[e].hash = sign[e].hash
      /\ sign'[e].task = "failing" /\ sign'[e].state = sign[e].state
      /\ sign[e].task = "second"
    <2>1. sign[e] \in SignRecord /\ sign \in [Signs -> SignRecord]
        BY DEF TypeOK
    <2>2. [sign[e] EXCEPT !.task = "failing", !.since = 0] \in SignRecord
        BY <2>1 DEF SignRecord, Attempts
    <2>3. sign[e].task = "second"
          /\ sign' = [sign EXCEPT ![e] = [sign[e] EXCEPT !.task = "failing",
                                                        !.since = 0]]
        BY <2>1 DEF SecondFails, SignRecord
    <2> QED BY <2>1, <2>2, <2>3 DEF SignRecord
<1>4. /\ DOMAIN map' \subseteq DOMAIN map
      /\ \A h \in DOMAIN map' : map'[h] = map[h]
      /\ \A h \in DOMAIN map : map[h].entry # e => h \in DOMAIN map'
      /\ \A h \in DOMAIN map' : sign[e].hash = h => map[h].entry # e
      /\ map' \in [DOMAIN map' -> Slots]
    BY <1>1, WithoutLemma
<1>5. TypeOK'
    BY <1>1, <1>3, <1>4 DEF TypeOK
<1>6. \A h \in DOMAIN map' : map[h].entry \in Signs \ {e}
    BY <1>4 DEF TypeOK, Slots, RegisteredByHash
<1>7. NotYetBorn' /\ SilentUntilDone'
    BY <1>1, <1>2, <1>3 DEF NotYetBorn, SilentUntilDone
<1>8. RegisteredByHash' /\ FailuresEvicted'
    BY <1>2, <1>4, <1>6 DEF RegisteredByHash, FailuresEvicted
<1>9. AttemptsRegistered'
    BY <1>2, <1>3, <1>4 DEF AttemptsRegistered, Attempts
<1> QED BY <1>5, <1>7, <1>8, <1>9

\* A waiter that sees a dead sender evicts an entry that is not in flight, so
\* a fresh sign started meanwhile for the same hash stays registered.
LEMMA SeeDeathStep ==
    ASSUME SignInv, NEW c \in Callers, SeeDeath(c)
    PROVE  SignInv'
<1> USE DEF SignInv
<1> DEFINE e == caller[c].entry
<1>1. e \in Signs /\ sign[e].task = "gone"
    BY SignAssumption DEF SeeDeath, TypeOK, Signs, SenderAlive
<1>2. map' = Without(e) /\ UNCHANGED <<clock, sign, started, inserts>>
    BY DEF SeeDeath
<1>3. caller' = [caller EXCEPT ![c] = NoCall] /\ NoCall \in CallRecord
    BY SignAssumption DEF SeeDeath, Leave, NoCall, CallRecord
<1>4. /\ DOMAIN map' \subseteq DOMAIN map
      /\ \A h \in DOMAIN map' : map'[h] = map[h]
      /\ \A h \in DOMAIN map : map[h].entry # e => h \in DOMAIN map'
      /\ map' \in [DOMAIN map' -> Slots]
    BY <1>1, <1>2, WithoutLemma
<1>5. TypeOK'
    BY <1>2, <1>3, <1>4 DEF TypeOK, NoCall
<1>6. NotYetBorn' /\ SilentUntilDone'
    BY <1>2 DEF NotYetBorn, SilentUntilDone
<1>7. RegisteredByHash' /\ FailuresEvicted'
    BY <1>2, <1>4 DEF RegisteredByHash, FailuresEvicted
<1>8. AttemptsRegistered'
    BY <1>1, <1>2, <1>4 DEF AttemptsRegistered, Attempts
<1> QED BY <1>5, <1>6, <1>7, <1>8

\* A call that ends otherwise, and the clock.
LEMMA LeaveStep ==
    ASSUME SignInv, NEW c \in Callers, Leave(c),
           UNCHANGED <<clock, sign, started, map, inserts>>
    PROVE  SignInv'
<1>1. TypeOK'
    BY SignAssumption DEF SignInv, TypeOK, Leave, NoCall, CallRecord
<1> QED BY <1>1 DEF SignInv, NotYetBorn, SilentUntilDone, RegisteredByHash,
                    AttemptsRegistered, FailuresEvicted

LEMMA TickStep ==
    ASSUME SignInv, Tick
    PROVE  SignInv'
BY DEF Tick, SignInv, TypeOK, NotYetBorn, SilentUntilDone, RegisteredByHash,
       AttemptsRegistered, FailuresEvicted

-----------------------------------------------------------------------------
LEMMA NextSignInv == SignInv /\ [Next]_vars => SignInv'
<1> SUFFICES ASSUME SignInv, [Next]_vars PROVE SignInv'
    OBVIOUS
<1>1. ASSUME NEW c \in Callers, NEW h \in Hashes, Join(c, h) \/ StartSign(c, h)
      PROVE  SignInv'
    BY <1>1, JoinStep, StartSignStep
<1>2. ASSUME NEW e \in Signs, TaskStep(e) PROVE SignInv'
    BY <1>2, QuietTaskStep, SecondFailsStep DEF TaskStep
<1>3. ASSUME NEW c \in Callers, WaiterStep(c) \/ Abandon(c) PROVE SignInv'
    BY <1>3, SeeDeathStep, LeaveStep DEF WaiterStep, Settle, TimeOut, Abandon
<1>4. ASSUME Tick PROVE SignInv'
    BY <1>4, TickStep
<1>5. CASE UNCHANGED vars
    BY <1>5 DEF vars, SignInv, TypeOK, NotYetBorn, SilentUntilDone,
                RegisteredByHash, AttemptsRegistered, FailuresEvicted
<1> QED BY <1>1, <1>2, <1>3, <1>4, <1>5 DEF Next

LEMMA SignInvImplies == SignInv => TypeOK /\ SingleFlight /\ FailureNeverCached
BY DEF SignInv, AttemptsRegistered, FailuresEvicted, SingleFlight, FailureNeverCached

-----------------------------------------------------------------------------
\* The state of the signature cache keeps its types, whatever the callers, the
\* KMS and the clock do.
THEOREM SignTypes == Spec => []TypeOK
<1>1. Spec => []SignInv
    BY InitSignInv, NextSignInv, PTL DEF Spec
<1> QED BY <1>1, SignInvImplies, PTL

\* No context is ever being signed twice at once (sign.rs: one KMS call per
\* hash), for every number of callers and contexts and every cap, time to live
\* and sweep interval.
THEOREM OneFlightPerContext == Spec => []SingleFlight
<1>1. Spec => []SignInv
    BY InitSignInv, NextSignInv, PTL DEF Spec
<1> QED BY <1>1, SignInvImplies, PTL

\* A lookup never finds a sign that was broadcast as failed: the eviction
\* before the broadcast cannot be undone by a racing waiter or sweep.
THEOREM FailuresNeverServed == Spec => []FailureNeverCached
<1>1. Spec => []SignInv
    BY InitSignInv, NextSignInv, PTL DEF Spec
<1> QED BY <1>1, SignInvImplies, PTL

LEMMA SignAlways == Spec => []SignInv
BY InitSignInv, NextSignInv, PTL DEF Spec

-----------------------------------------------------------------------------
(* Timers.                                                                  *)

\* sign.rs sets WAIT_TIMEOUT to two attempts and a second more; "on time" is
\* that the runtime fires an attempt's timer when it is due.
BudgetOfTwo == Lag = 0 /\ WaitTimeout > 2 * SignTimeout

\* How far the clock may have come since a sign was started.
AttemptsOnTime ==
    \A e \in Signs :
       /\ sign[e].task = "first" => /\ sign[e].since = sign[e].start
                                   /\ clock <= sign[e].since + SignTimeout
       /\ sign[e].task = "second" => /\ sign[e].since <= sign[e].start + SignTimeout
                                    /\ clock <= sign[e].since + SignTimeout
       /\ sign[e].task = "failing" => clock <= sign[e].start + 2 * SignTimeout

\* A caller's budget is counted from the start of the sign it waits for.
BudgetsFromStart ==
    \A c \in Callers : caller[c].pc = "waiting" =>
       caller[c].deadline >= sign[caller[c].entry].start + WaitTimeout

TimerInv == AttemptsOnTime /\ BudgetsFromStart

LEMMA DeadlineCovers ==
    ASSUME NEW start \in Nat, clock \in Nat
    PROVE  Deadline(start) >= start + WaitTimeout
BY SignAssumption DEF Deadline

\* What a waiting caller's entry is.
LEMMA WaitsFor ==
    ASSUME SignInv, NEW c \in Callers, caller[c].pc = "waiting"
    PROVE  /\ caller[c].entry \in Signs /\ caller[c].entry <= started
           /\ sign[caller[c].entry] \in SignRecord
           /\ sign[caller[c].entry].task # "unborn"
           /\ caller[c].deadline \in Nat
<1>1. caller[c].entry \in 1 .. started /\ started \in 0 .. MaxSigns /\ caller[c] \in CallRecord
    BY DEF SignInv, TypeOK
<1>2. caller[c].entry \in Signs /\ caller[c].entry <= started
    BY <1>1, SignAssumption DEF Signs
<1> QED BY <1>1, <1>2 DEF SignInv, TypeOK, NotYetBorn, CallRecord

LEMMA TimerNext ==
    ASSUME BudgetOfTwo, SignInv, TimerInv, [Next]_vars
    PROVE  TimerInv'
<1> USE SignAssumption
<1>0. /\ clock \in Nat /\ started \in 0 .. MaxSigns
      /\ sign \in [Signs -> SignRecord] /\ caller \in [Callers -> CallRecord]
      /\ \A e \in Signs : sign[e].start \in Nat /\ sign[e].since \in Nat
    BY DEF SignInv, TypeOK, SignRecord
<1>1. ASSUME NEW c \in Callers, NEW h \in Hashes, Join(c, h)
      PROVE  TimerInv'
    <2> DEFINE e == map[h].entry
    <2>1. e \in Signs
        BY <1>1 DEF Join, Hit, SignInv, TypeOK, Slots
    <2>2. /\ UNCHANGED <<clock, sign>>
          /\ caller' = [caller EXCEPT ![c] = Waiting(e, sign[e].start)]
        BY <1>1 DEF Join
    <2>3. Deadline(sign[e].start) >= sign[e].start + WaitTimeout
        BY <1>0, <2>1, DeadlineCovers
    <2>4. BudgetsFromStart'
        BY <1>0, <2>2, <2>3 DEF TimerInv, BudgetsFromStart, Waiting
    <2> QED BY <2>2, <2>4 DEF TimerInv, AttemptsOnTime
<1>2. ASSUME NEW c \in Callers, NEW h \in Hashes, StartSign(c, h)
      PROVE  TimerInv'
    <2> DEFINE e == started + 1
               fresh == [hash |-> h, state |-> "pending", task |-> "first",
                         start |-> clock, since |-> clock]
    <2>1. e \in Signs
        BY <1>0, <1>2 DEF StartSign, Signs
    <2>2. /\ clock' = clock /\ sign' = [sign EXCEPT ![e] = fresh]
          /\ caller' = [caller EXCEPT ![c] = Waiting(e, clock)]
        BY <1>2 DEF StartSign
    <2>3. sign'[e] = fresh /\ \A f \in Signs \ {e} : sign'[f] = sign[f]
        BY <1>0, <2>1, <2>2
    <2>4. AttemptsOnTime'
        BY <1>0, <2>2, <2>3 DEF TimerInv, AttemptsOnTime
    <2>5. ASSUME NEW d \in Callers, caller'[d].pc = "waiting"
          PROVE  caller'[d].deadline >= sign'[caller'[d].entry].start + WaitTimeout
        <3>1. CASE d = c
            <4>1. caller'[d] = Waiting(e, clock)
                BY <1>0, <2>2, <3>1
            <4> QED BY <1>0, <2>3, <4>1, DeadlineCovers DEF Waiting
        <3>2. CASE d # c
            <4>1. caller'[d] = caller[d]
                BY <1>0, <2>2, <3>2
            <4>2. caller[d].entry \in Signs \ {e}
                BY <1>0, <2>5, <4>1, WaitsFor DEF Signs
            <4> QED BY <2>3, <2>5, <4>1, <4>2 DEF TimerInv, BudgetsFromStart
        <3> QED BY <3>1, <3>2
    <2>6. BudgetsFromStart'
        BY <2>5 DEF BudgetsFromStart
    <2> QED BY <2>4, <2>6 DEF TimerInv
<1>3. ASSUME NEW e \in Signs, TaskStep(e)
      PROVE  TimerInv'
    <2>1. UNCHANGED <<clock, caller>> /\ \A f \in Signs \ {e} : sign'[f] = sign[f]
        BY <1>0, <1>3 DEF TaskStep, AttemptSucceeds, FirstFails, SecondFails, BroadcastFailure,
                          TaskDies
    <2>2. /\ sign'[e].start = sign[e].start
          /\ sign'[e].task \in {"second", "failing", "gone"}
          /\ sign'[e].task = "second" => sign[e].task = "first" /\ sign'[e].since = clock
          /\ sign'[e].task = "failing" => sign[e].task = "second"
        BY <1>0, <1>3 DEF TaskStep, AttemptSucceeds, FirstFails, SecondFails, BroadcastFailure,
                          TaskDies, SignRecord
    <2>3. AttemptsOnTime'
        BY <1>0, <2>1, <2>2 DEF TimerInv, AttemptsOnTime
    <2>4. BudgetsFromStart'
        <3>1. \A f \in Signs : sign'[f].start = sign[f].start
            BY <2>1, <2>2
        <3> QED BY <2>1, <3>1, WaitsFor DEF TimerInv, BudgetsFromStart
    <2> QED BY <2>3, <2>4 DEF TimerInv
<1>4. ASSUME NEW c \in Callers, WaiterStep(c) \/ Abandon(c)
      PROVE  TimerInv'
    <2>1. UNCHANGED <<clock, sign>> /\ caller' = [caller EXCEPT ![c] = NoCall]
        BY <1>4 DEF WaiterStep, Settle, SeeDeath, TimeOut, Abandon, Leave
    <2>2. \A d \in Callers : caller'[d].pc = "waiting" => caller'[d] = caller[d]
        BY <1>0, <2>1 DEF NoCall
    <2>3. BudgetsFromStart'
        BY <2>1, <2>2 DEF TimerInv, BudgetsFromStart
    <2> QED BY <2>1, <2>3 DEF TimerInv, AttemptsOnTime
<1>5. CASE Tick
    <2>1. /\ clock' = clock + 1 /\ UNCHANGED <<sign, caller>>
          /\ \A e \in Signs :
                /\ sign[e].task \in Attempts => clock < sign[e].since + SignTimeout
                /\ sign[e].task # "failing"
        BY <1>0, <1>5 DEF Tick, BudgetOfTwo
    <2>2. AttemptsOnTime'
        BY <1>0, <2>1 DEF TimerInv, AttemptsOnTime, Attempts
    <2> QED BY <2>1, <2>2 DEF TimerInv, BudgetsFromStart
<1>6. CASE UNCHANGED vars
    BY <1>6 DEF vars, TimerInv, AttemptsOnTime, BudgetsFromStart
<1> QED BY <1>1, <1>2, <1>3, <1>4, <1>5, <1>6 DEF Next

LEMMA BudgetFollows ==
    ASSUME BudgetOfTwo, SignInv, TimerInv
    PROVE  BudgetCoversRetry
<1> SUFFICES ASSUME NEW c \in Callers, caller[c].pc = "waiting", InFlight(caller[c].entry)
             PROVE  clock < caller[c].deadline
    BY DEF BudgetCoversRetry
<1> DEFINE e == caller[c].entry
<1>1. e \in Signs /\ sign[e] \in SignRecord /\ clock \in Nat /\ caller[c].deadline \in Nat
    BY WaitsFor DEF SignInv, TypeOK
<1>2. sign[e].task \in {"first", "second", "failing"}
    BY <1>1, WaitsFor DEF InFlight, SenderAlive, SignRecord, Attempts
<1>3. sign[e].start \in Nat /\ sign[e].since \in Nat
    BY <1>1 DEF SignRecord
<1>4. clock <= sign[e].start + 2 * SignTimeout
    BY <1>1, <1>2, <1>3, SignAssumption DEF TimerInv, AttemptsOnTime
<1>5. caller[c].deadline >= sign[e].start + WaitTimeout
    BY DEF TimerInv, BudgetsFromStart
<1> QED BY <1>1, <1>3, <1>4, <1>5, SignAssumption DEF BudgetOfTwo

\* With WAIT_TIMEOUT above two SIGN_TIMEOUTs and timers on time, no caller, a late
\* joiner included, gives up on a sign that still has its retry to come.
THEOREM BudgetCovers ==
    ASSUME BudgetOfTwo
    PROVE  Spec => []BudgetCoversRetry
<1>1. Init => TimerInv
    BY DEF Init, TimerInv, AttemptsOnTime, BudgetsFromStart, Unborn, NoCall
<1>2. SignInv /\ TimerInv /\ [Next]_vars => TimerInv'
    BY TimerNext
<1>3. SignInv /\ TimerInv => BudgetCoversRetry
    BY BudgetFollows
<1> QED BY <1>1, <1>2, <1>3, SignAlways, PTL DEF Spec

-----------------------------------------------------------------------------
(* The cap.                                                                 *)

MapFinite == IsFiniteSet(DOMAIN map)

LEMMA MapFiniteNext ==
    ASSUME SignInv, MapFinite, [Next]_vars
    PROVE  MapFinite'
<1>1. ASSUME NEW c \in Callers, NEW h \in Hashes, StartSign(c, h) PROVE MapFinite'
    <2>1. DOMAIN map' = Kept(h) \cup {h}
        BY <1>1 DEF StartSign
    <2>2. IsFiniteSet(Kept(h))
        BY KeptLemma, FS_Subset DEF MapFinite
    <2> QED BY <2>1, <2>2, FS_AddElement DEF MapFinite
<1>2. ASSUME NEW e \in Signs, map' = Without(e) PROVE MapFinite'
    BY <1>2, WithoutLemma, FS_Subset DEF MapFinite, SignInv
<1>3. ASSUME DOMAIN map' = DOMAIN map PROVE MapFinite'
    BY <1>3 DEF MapFinite
<1>4. ASSUME NEW c \in Callers, NEW h \in Hashes, Join(c, h) PROVE MapFinite'
    BY <1>3, <1>4 DEF Join
<1>5. ASSUME NEW e \in Signs, TaskStep(e) PROVE MapFinite'
    BY <1>2, <1>3, <1>5 DEF TaskStep, AttemptSucceeds, FirstFails, SecondFails, BroadcastFailure,
                            TaskDies
<1>6. ASSUME NEW c \in Callers, WaiterStep(c) \/ Abandon(c) PROVE MapFinite'
    <2>1. SeeDeath(c) => caller[c].entry \in Signs
        BY WaitsFor DEF SeeDeath
    <2> QED BY <1>2, <1>3, <1>6, <2>1 DEF WaiterStep, Settle, SeeDeath, TimeOut, Abandon
<1>7. CASE Tick \/ UNCHANGED vars
    BY <1>3, <1>7 DEF Tick, vars
<1> QED BY <1>1, <1>4, <1>5, <1>6, <1>7 DEF Next

\* Only an insert starts a sign, and beyond the cap it keeps only signs in flight.
LEMMA CapNext ==
    ASSUME SignInv, MapFinite, [Next]_vars,
           started' # started, Cardinality(DOMAIN map') > MaxEntries,
           NEW x \in DOMAIN map'
    PROVE  sign'[map'[x].entry].task \in Attempts \cup {"failing"}
<1>1. PICK c \in Callers, h \in Hashes : StartSign(c, h)
    BY DEF Next, Join, TaskStep, AttemptSucceeds, FirstFails, SecondFails, BroadcastFailure,
           TaskDies, WaiterStep, Settle, SeeDeath, TimeOut, Abandon, Tick, vars
<1> DEFINE e == started + 1
           fresh == [hash |-> h, state |-> "pending", task |-> "first",
                     start |-> clock, since |-> clock]
           others == DOMAIN map \ {h}
           alive == {y \in others : IsLive(map[y])}
           flying == {y \in alive : InFlight(map[y].entry)}
<1>2. /\ e \in Signs /\ started \in Nat /\ sign \in [Signs -> SignRecord]
      /\ sign' = [sign EXCEPT ![e] = fresh]
      /\ DOMAIN map' = Kept(h) \cup {h}
      /\ map'[h].entry = e
      /\ \A y \in Kept(h) : y # h => map'[y] = map[y]
    BY <1>1, SignAssumption DEF StartSign, SignInv, TypeOK, Signs
<1>3. CASE x = h
    BY <1>2, <1>3 DEF Attempts
<1>4. CASE x # h
    <2>1. x \in Kept(h) /\ x \in DOMAIN map /\ map'[x] = map[x]
        BY <1>2, <1>4, KeptLemma
    <2>2. map[x].entry \in Signs /\ map[x].entry <= started
        BY <2>1 DEF SignInv, TypeOK, Slots
    <2>3. sign'[map[x].entry] = sign[map[x].entry]
        BY <1>2, <2>2 DEF Signs
    <2>4. Kept(h) = flying
        <3>1. IsFiniteSet(others) /\ IsFiniteSet(alive)
            BY FS_Subset DEF MapFinite
        <3>2. /\ Cardinality(others \cup {h}) = Cardinality(others) + 1
              /\ Cardinality(alive \cup {h}) = Cardinality(alive) + 1
            BY <3>1, FS_AddElement
        <3>3. Cardinality(others) \in Nat /\ Cardinality(alive) \in Nat
            BY <3>1, FS_CardinalityType
        <3>4. CASE Kept(h) = others /\ Cardinality(others) < MaxEntries
            <4>1. Cardinality(DOMAIN map') <= MaxEntries
                BY <1>2, <3>2, <3>3, <3>4, SignAssumption
            <4> QED BY <1>2, <3>2, <3>3, <3>4, <4>1, SignAssumption
        <3>5. CASE Kept(h) = alive /\ Cardinality(alive) < MaxEntries
            <4>1. Cardinality(DOMAIN map') <= MaxEntries
                BY <1>2, <3>2, <3>3, <3>5, SignAssumption
            <4> QED BY <1>2, <3>2, <3>3, <3>5, <4>1, SignAssumption
        <3> QED BY <3>4, <3>5 DEF Kept
    <2>5. InFlight(map[x].entry)
        BY <2>1, <2>4
    <2>6. sign[map[x].entry].task \notin {"unborn", "gone"}
        <3>1. ~(map[x].entry > started)
            BY <1>2, <2>2 DEF Signs
        <3> QED BY <2>2, <2>5, <3>1 DEF InFlight, SenderAlive, SignInv, NotYetBorn
    <2> QED BY <1>2, <2>1, <2>2, <2>3, <2>6 DEF SignRecord
<1> QED BY <1>3, <1>4

\* An insert that leaves more than SIGNATURE_CACHE_MAX_ENTRIES entries leaves only
\* signs in flight, whatever the cap and the sweep interval.
THEOREM CapHolds == Spec => OverCapOnlyInFlight
<1>1. Init => MapFinite
    BY FS_EmptySet DEF Init, MapFinite
<1>2. SignInv /\ MapFinite /\ [Next]_vars => MapFinite'
    BY MapFiniteNext
<1>3. SignInv /\ MapFinite /\ [Next]_vars
        => [started' # started /\ Cardinality(DOMAIN map') > MaxEntries
              => \A h \in DOMAIN map' :
                    sign'[map'[h].entry].task \in Attempts \cup {"failing"}]_vars
    BY CapNext
<1> QED BY <1>1, <1>2, <1>3, SignAlways, PTL DEF Spec, OverCapOnlyInFlight

-----------------------------------------------------------------------------
(* The service the handlers rely on.                                        *)

Flights == [h \in Hashes |-> Cardinality(FlightsOf(h))]

AskedBy(c) == IF caller[c].pc = "waiting" THEN {sign[caller[c].entry].hash} ELSE {}
Asked == [c \in Callers |-> AskedBy(c)]

LEMMA ServiceNext == SignInv /\ [Next]_vars => [Service!Next]_(Service!serviceVars)
<1> SUFFICES ASSUME SignInv, [Next]_vars PROVE [Service!Next]_(Service!serviceVars)
    OBVIOUS
<1>0. /\ sign \in [Signs -> SignRecord] /\ caller \in [Callers -> CallRecord]
      /\ started \in 0 .. MaxSigns
    BY DEF SignInv, TypeOK
\* Steps that start and end no sign, and those that begin and end no call.
<1>1. ASSUME \A e \in Signs : /\ sign'[e].hash = sign[e].hash
                              /\ sign'[e].task \in Attempts <=> sign[e].task \in Attempts
      PROVE  Flights' = Flights
    <2>1. \A h \in Hashes : FlightsOf(h)' = FlightsOf(h)
        BY <1>1 DEF FlightsOf
    <2> QED BY <2>1 DEF Flights
<1>2. ASSUME caller' = caller, \A e \in Signs : sign'[e].hash = sign[e].hash
      PROVE  Asked' = Asked
    <2>1. \A c \in Callers : AskedBy(c)' = AskedBy(c)
        BY <1>2, WaitsFor DEF AskedBy
    <2> QED BY <2>1 DEF Asked
<1>3. ASSUME NEW c \in Callers, NEW h \in Hashes, Join(c, h)
      PROVE  Service!Join(c, h)
    <2> DEFINE e == map[h].entry
    <2>1. /\ h \in DOMAIN map /\ UNCHANGED sign /\ caller[c].pc = "idle"
          /\ caller' = [caller EXCEPT ![c] = Waiting(e, sign[e].start)]
        BY <1>3 DEF Join, Hit
    <2>2. sign[e].hash = h
        BY <2>1 DEF SignInv, RegisteredByHash
    <2>3. caller'[c].pc = "waiting" /\ caller'[c].entry = e
        BY <1>0, <2>1 DEF Waiting
    <2>4. \A d \in Callers \ {c} : caller'[d] = caller[d]
        BY <1>0, <2>1
    <2>5. AskedBy(c) = {} /\ AskedBy(c)' = {h} /\ \A d \in Callers \ {c} : AskedBy(d)' = AskedBy(d)
        BY <2>1, <2>2, <2>3, <2>4 DEF AskedBy
    <2>6. Asked[c] = {} /\ Asked' = [Asked EXCEPT ![c] = {h}]
        BY <2>5 DEF Asked
    <2>7. Flights' = Flights
        BY <1>1, <2>1
    <2> QED BY <2>6, <2>7 DEF Service!Join, Asked, AskedBy, Flights
<1>4. ASSUME NEW c \in Callers, NEW h \in Hashes, StartSign(c, h)
      PROVE  Service!Begin(c, h)
    <2> DEFINE e == started + 1
               fresh == [hash |-> h, state |-> "pending", task |-> "first",
                         start |-> clock, since |-> clock]
    <2>1. e \in Signs
        BY <1>0, <1>4, SignAssumption DEF StartSign, Signs
    <2>2. /\ sign' = [sign EXCEPT ![e] = fresh] /\ caller[c].pc = "idle"
          /\ caller' = [caller EXCEPT ![c] = Waiting(e, clock)]
        BY <1>4 DEF StartSign
    <2>3. sign'[e] = fresh /\ \A f \in Signs \ {e} : sign'[f] = sign[f]
        BY <1>0, <2>1, <2>2
    <2>4. sign[e].task = "unborn"
        BY <1>0, <2>1 DEF SignInv, NotYetBorn
    \* A miss: no attempt for h is running.
    <2>5. \A f \in Signs : sign[f].task \in Attempts => sign[f].hash # h
        <3> SUFFICES ASSUME NEW f \in Signs, sign[f].task \in Attempts, sign[f].hash = h
                     PROVE  FALSE
            OBVIOUS
        <3>1. h \in DOMAIN map /\ map[h].entry = f
            BY DEF SignInv, AttemptsRegistered
        <3>2. InFlight(f)
            BY DEF InFlight, SenderAlive, Attempts, SignInv, SilentUntilDone
        <3> QED BY <1>4, <3>1, <3>2 DEF StartSign, Hit, IsLive
    <2>6. FlightsOf(h) = {} /\ FlightsOf(h)' = {e}
        BY <2>1, <2>3, <2>5 DEF FlightsOf, Attempts
    <2>7. \A x \in Hashes \ {h} : FlightsOf(x)' = FlightsOf(x)
        BY <2>3, <2>4 DEF FlightsOf, Attempts
    <2>8. Cardinality(FlightsOf(h)) = 0 /\ Cardinality(FlightsOf(h)') = 1
        BY <2>6, FS_EmptySet, FS_Singleton
    <2>9. Flights[h] = 0 /\ Flights' = [Flights EXCEPT ![h] = 1]
        BY <2>7, <2>8 DEF Flights
    <2>10. caller'[c].pc = "waiting" /\ caller'[c].entry = e
        BY <1>0, <2>2 DEF Waiting
    <2>11. \A d \in Callers \ {c} : caller'[d] = caller[d]
        BY <1>0, <2>2
    <2>12. \A d \in Callers : caller[d].pc = "waiting" => caller[d].entry \in Signs \ {e}
        BY <1>0, WaitsFor DEF Signs
    <2>13. AskedBy(c) = {} /\ AskedBy(c)' = {h} /\ \A d \in Callers \ {c} : AskedBy(d)' = AskedBy(d)
        <3>1. AskedBy(c) = {}
            BY <2>2 DEF AskedBy
        <3>2. sign'[e].hash = h
            BY <2>3
        <3>3. AskedBy(c)' = {h}
            BY <2>10, <3>2 DEF AskedBy
        <3>4. ASSUME NEW d \in Callers \ {c} PROVE AskedBy(d)' = AskedBy(d)
            <4>1. caller'[d] = caller[d]
                BY <2>11
            <4>2. caller[d].pc = "waiting" => sign'[caller[d].entry] = sign[caller[d].entry]
                BY <2>3, <2>12
            <4> QED BY <4>1, <4>2 DEF AskedBy
        <3> QED BY <3>1, <3>3, <3>4
    <2>14. Asked[c] = {} /\ Asked' = [Asked EXCEPT ![c] = {h}]
        BY <2>13 DEF Asked
    <2> QED BY <2>9, <2>14 DEF Service!Begin, Asked, AskedBy, Flights
<1>5. ASSUME NEW e \in Signs, FirstFails(e) \/ BroadcastFailure(e)
      PROVE  UNCHANGED <<Flights, Asked>>
    <2>1. /\ caller' = caller /\ \A f \in Signs : sign'[f].hash = sign[f].hash
          /\ \A f \in Signs : sign'[f].task \in Attempts <=> sign[f].task \in Attempts
        BY <1>0, <1>5 DEF FirstFails, BroadcastFailure, Attempts, SignRecord
    <2> QED BY <1>1, <1>2, <2>1
<1>6. ASSUME NEW e \in Signs, AttemptSucceeds(e) \/ SecondFails(e) \/ TaskDies(e)
      PROVE  \E h \in Hashes : Service!EndSign(h)
    <2> DEFINE h == sign[e].hash
    <2>1. /\ caller' = caller /\ \A f \in Signs : sign'[f].hash = sign[f].hash
          /\ \A f \in Signs \ {e} : sign'[f] = sign[f]
          /\ sign[e].task \in Attempts /\ sign'[e].task \notin Attempts
          /\ h \in Hashes
        BY <1>0, <1>6 DEF AttemptSucceeds, SecondFails, TaskDies, Attempts, SignRecord
    <2>2. \A f \in Signs : sign[f].task \in Attempts /\ sign[f].hash = h => f = e
        BY <2>1, SignInvImplies DEF SingleFlight
    <2>3. FlightsOf(h) = {e} /\ FlightsOf(h)' = {}
        BY <2>1, <2>2 DEF FlightsOf
    <2>4. \A x \in Hashes \ {h} : FlightsOf(x)' = FlightsOf(x)
        BY <2>1 DEF FlightsOf
    <2>5. Cardinality(FlightsOf(h)) = 1 /\ Cardinality(FlightsOf(h)') = 0
        BY <2>3, FS_EmptySet, FS_Singleton
    <2>6. Flights[h] = 1 /\ Flights' = [Flights EXCEPT ![h] = 0]
        BY <2>1, <2>4, <2>5 DEF Flights
    <2>7. Asked' = Asked
        BY <1>2, <2>1
    <2> QED BY <2>1, <2>6, <2>7 DEF Service!EndSign, Asked, AskedBy, Flights
<1>7. ASSUME NEW c \in Callers, WaiterStep(c) \/ Abandon(c)
      PROVE  Service!Answer(c)
    <2>1. /\ caller[c].pc = "waiting" /\ UNCHANGED sign
          /\ caller' = [caller EXCEPT ![c] = NoCall]
        BY <1>7 DEF WaiterStep, Settle, SeeDeath, TimeOut, Abandon, Leave
    <2>2. caller'[c] = NoCall /\ \A d \in Callers \ {c} : caller'[d] = caller[d]
        BY <1>0, <2>1
    <2>3. AskedBy(c) # {} /\ AskedBy(c)' = {} /\ \A d \in Callers \ {c} : AskedBy(d)' = AskedBy(d)
        BY <2>1, <2>2 DEF AskedBy, NoCall
    <2>4. Asked[c] # {} /\ Asked' = [Asked EXCEPT ![c] = {}]
        BY <2>3 DEF Asked
    <2>5. Flights' = Flights
        BY <1>1, <2>1
    <2> QED BY <2>4, <2>5 DEF Service!Answer, Asked, AskedBy, Flights
<1>8. CASE Tick \/ UNCHANGED vars
    <2>1. UNCHANGED <<sign, caller>>
        BY <1>8 DEF Tick, vars
    <2>2. UNCHANGED <<Flights, Asked>>
        BY <1>1, <1>2, <2>1
    <2> QED BY <2>2 DEF Service!serviceVars, Flights, Asked, AskedBy
<1>9. ASSUME NEW e \in Signs, TaskStep(e) PROVE [Service!Next]_(Service!serviceVars)
    <2>1. CASE FirstFails(e) \/ BroadcastFailure(e)
        BY <1>5, <2>1 DEF Service!serviceVars, Flights, Asked, AskedBy
    <2>2. CASE AttemptSucceeds(e) \/ SecondFails(e) \/ TaskDies(e)
        <3>1. \E h \in Hashes : Service!EndSign(h)
            BY <1>6, <2>2
        <3> QED BY <3>1 DEF Service!Next
    <2> QED BY <1>9, <2>1, <2>2 DEF TaskStep
<1>10. ASSUME NEW c \in Callers, NEW h \in Hashes, Join(c, h) \/ StartSign(c, h)
       PROVE  [Service!Next]_(Service!serviceVars)
    <2>1. Service!Join(c, h) \/ Service!Begin(c, h)
        BY <1>3, <1>4, <1>10
    <2> QED BY <2>1 DEF Service!Next
<1>11. ASSUME NEW c \in Callers, WaiterStep(c) \/ Abandon(c)
       PROVE  [Service!Next]_(Service!serviceVars)
    <2>1. Service!Answer(c)
        BY <1>7, <1>11
    <2> QED BY <2>1 DEF Service!Next
<1> QED BY <1>8, <1>9, <1>10, <1>11 DEF Next

\* The safety part of SigningService: the cache, its tasks and its timers begin a
\* sign only for a call and only when none is under way for the context, and
\* answer a call once.  That every call is answered is ImplementsService.
THEOREM ServiceSafety == Spec => Service!Init /\ [][Service!Next]_(Service!serviceVars)
<1>1. Init => Service!Init
    <2> SUFFICES ASSUME Init PROVE Service!Init
        OBVIOUS
    <2>1. \A h \in Hashes : FlightsOf(h) = {}
        BY DEF Init, FlightsOf, Unborn, Attempts
    <2>2. \A h \in Hashes : Cardinality(FlightsOf(h)) = 0
        BY <2>1, FS_EmptySet
    <2>3. \A c \in Callers : caller[c].pc # "waiting"
        BY DEF Init, NoCall
    <2> QED BY <2>2, <2>3 DEF Service!Init
<1>2. SignInv /\ [Next]_vars => [Service!Next]_(Service!serviceVars)
    BY ServiceNext
<1> QED BY <1>1, <1>2, SignAlways, PTL DEF Spec
=============================================================================
