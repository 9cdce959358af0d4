---------------------------- MODULE SignatureCache ----------------------------
(***************************************************************************)
(* The content-addressed signature cache and the detached sign tasks of    *)
(* sign.rs.  A request looks its hash up; on a miss it starts a task that  *)
(* owns the sender of a watch channel and asks the KMS at most twice.      *)
(* Every request for the hash, the starter included, waits on the channel  *)
(* for a budget counted from the start of the sign.                        *)
(*                                                                         *)
(* A CacheEntry and the task that fills it are one member of Signs.  The   *)
(* value of its channel is `state`; the sender is alive while `task` is    *)
(* not "gone".  The clock counts coarse units of time.                     *)
(***************************************************************************)
EXTENDS Integers, FiniteSets, Functions

CONSTANTS Hashes,        \* hashes of contexts to be signed
          Callers,       \* concurrent calls of sign_context
          MaxSigns,      \* bound: signs started in a behaviour
          MaxClock,      \* bound: the last instant
          SignTimeout,   \* SIGN_TIMEOUT, one attempt
          WaitTimeout,   \* WAIT_TIMEOUT, a caller's budget
          IdleTtl,       \* SIGNATURE_CACHE_IDLE_TTL
          MaxEntries,    \* SIGNATURE_CACHE_MAX_ENTRIES
          SweepEvery,    \* SWEEP_EVERY_INSERTS
          Lag            \* how late the runtime may fire an attempt's timer

ASSUME SignAssumption ==
    /\ Hashes # {}
    /\ MaxSigns \in Nat /\ MaxClock \in Nat
    /\ SignTimeout \in Nat \ {0} /\ WaitTimeout \in Nat \ {0}
    /\ IdleTtl \in Nat /\ MaxEntries \in Nat /\ SweepEvery \in Nat /\ Lag \in Nat

VARIABLES clock,
          sign,          \* the signs ever started
          started,       \* how many
          map,           \* CacheMap::entries: hash to [entry, lastUsed]
          inserts,       \* CacheMap::inserts_since_sweep
          caller         \* the calls: [pc, entry, deadline]

vars == <<clock, sign, started, map, inserts, caller>>

Signs == 1 .. MaxSigns
Unborn == [hash |-> CHOOSE h \in Hashes : TRUE, state |-> "pending",
           task |-> "unborn", start |-> 0, since |-> 0]
NoCall == [pc |-> "idle", entry |-> 0, deadline |-> 0]

Init == /\ clock = 0
        /\ sign = [e \in Signs |-> Unborn]
        /\ started = 0
        /\ map = [h \in {} |-> 0]
        /\ inserts = 0
        /\ caller = [c \in Callers |-> NoCall]

-----------------------------------------------------------------------------
Attempts == {"first", "second"}
SenderAlive(e) == sign[e].task # "gone"

\* CacheEntry::is_in_flight
InFlight(e) == sign[e].state = "pending" /\ SenderAlive(e)

\* SignatureCache::is_live
IsLive(s) == InFlight(s.entry) \/ clock - s.lastUsed < IdleTtl

Hit(h) == h \in DOMAIN map /\ IsLive(map[h])

\* Mutant: past the cap the finished entries stay.
KeptAlive(h) == {x \in DOMAIN map \ {h} : IsLive(map[x])}

\* The hashes that stay in the map when a fresh entry for h is inserted.
Kept(h) ==
    LET others  == DOMAIN map \ {h}
        alive   == {x \in others : IsLive(map[x])}
        flying  == {x \in alive : InFlight(map[x].entry)}
    IN  IF inserts + 1 < SweepEvery /\ Cardinality(others) < MaxEntries
        THEN others
        ELSE IF Cardinality(alive) < MaxEntries THEN alive ELSE flying

SweepDue(h) == \/ inserts + 1 >= SweepEvery
               \/ Cardinality(DOMAIN map \ {h}) >= MaxEntries

\* Mutant: a budget of one attempt.
DeadlineOfOneAttempt(start) ==
    IF start + SignTimeout > clock THEN start + SignTimeout ELSE clock

\* Mutant: the budget left over, neither saturated nor added to the clock.
BudgetLeft(start) == start + WaitTimeout - clock

\* WAIT_TIMEOUT less what the sign has already spent, from now.
Deadline(start) ==
    IF start + WaitTimeout > clock THEN start + WaitTimeout ELSE clock

Waiting(e, start) == [pc |-> "waiting", entry |-> e, deadline |-> Deadline(start)]

\* Mutant: whatever is registered for the hash is dropped.
WithoutHashOf(e) == Restrict(map, DOMAIN map \ {sign[e].hash})

\* evict: drop the entry only if it is the one registered for its hash.
Without(e) ==
    Restrict(map, {h \in DOMAIN map : ~(h = sign[e].hash /\ map[h].entry = e)})

-----------------------------------------------------------------------------
Join(c, h) ==
    /\ caller[c].pc = "idle"
    /\ Hit(h)
    /\ map' = [map EXCEPT ![h].lastUsed = clock]
    /\ caller' = [caller EXCEPT ![c] =
                    Waiting(map[h].entry, sign[map[h].entry].start)]
    /\ UNCHANGED <<clock, sign, started, inserts>>

StartSign(c, h) ==
    /\ caller[c].pc = "idle"
    /\ ~Hit(h)
    /\ started < MaxSigns
    /\ LET e == started + 1
       IN  /\ started' = e
           /\ sign' = [sign EXCEPT ![e] =
                         [hash |-> h, state |-> "pending", task |-> "first",
                          start |-> clock, since |-> clock]]
           /\ map' = [x \in Kept(h) \cup {h} |->
                        IF x = h THEN [entry |-> e, lastUsed |-> clock]
                                 ELSE map[x]]
           /\ caller' = [caller EXCEPT ![c] = Waiting(e, clock)]
    /\ inserts' = IF SweepDue(h) THEN 0 ELSE inserts + 1
    /\ UNCHANGED clock

-----------------------------------------------------------------------------
\* The KMS answers with a signature; the task sends it and ends.
AttemptSucceeds(e) ==
    /\ sign[e].task \in Attempts
    /\ sign' = [sign EXCEPT ![e].state = "done", ![e].task = "gone",
                                ![e].since = 0]
    /\ UNCHANGED <<clock, started, map, inserts, caller>>

\* An error, or no answer within SIGN_TIMEOUT: retried once.
FirstFails(e) ==
    /\ sign[e].task = "first"
    /\ sign' = [sign EXCEPT ![e].task = "second", ![e].since = clock]
    /\ UNCHANGED <<clock, started, map, inserts, caller>>

\* Mutant: the entry stays in the map.
SecondFailsKept(e) ==
    /\ sign[e].task = "second"
    /\ sign' = [sign EXCEPT ![e].task = "failing", ![e].since = 0]
    /\ UNCHANGED <<clock, started, map, inserts, caller>>

\* The retry fails too: the entry leaves the map before anybody is told.
SecondFails(e) ==
    /\ sign[e].task = "second"
    /\ sign' = [sign EXCEPT ![e].task = "failing", ![e].since = 0]
    /\ map' = Without(e)
    /\ UNCHANGED <<clock, started, inserts, caller>>

BroadcastFailure(e) ==
    /\ sign[e].task = "failing"
    /\ sign' = [sign EXCEPT ![e].state = "failed", ![e].task = "gone"]
    /\ UNCHANGED <<clock, started, map, inserts, caller>>

\* The task panics or is dropped by a shutdown: the sender goes, no value.
TaskDies(e) ==
    /\ sign[e].task \in Attempts
    /\ sign' = [sign EXCEPT ![e].task = "gone", ![e].since = 0]
    /\ UNCHANGED <<clock, started, map, inserts, caller>>

-----------------------------------------------------------------------------
Leave(c) == caller' = [caller EXCEPT ![c] = NoCall]

\* Done returns the signature, Failed the message.
Settle(c) ==
    /\ caller[c].pc = "waiting"
    /\ sign[caller[c].entry].state # "pending"
    /\ Leave(c)
    /\ UNCHANGED <<clock, sign, started, map, inserts>>

\* Mutant: the entry is dropped and the wait goes on.
SeeDeathAndWait(c) ==
    /\ caller[c].pc = "waiting"
    /\ sign[caller[c].entry].state = "pending"
    /\ ~SenderAlive(caller[c].entry)
    /\ map' = Without(caller[c].entry)
    /\ UNCHANGED <<clock, sign, started, inserts, caller>>

\* The sender is gone without a result.
SeeDeath(c) ==
    /\ caller[c].pc = "waiting"
    /\ sign[caller[c].entry].state = "pending"
    /\ ~SenderAlive(caller[c].entry)
    /\ map' = Without(caller[c].entry)
    /\ Leave(c)
    /\ UNCHANGED <<clock, sign, started, inserts>>

\* The channel is polled before the timer, so a settled one wins.
TimeOut(c) ==
    /\ caller[c].pc = "waiting"
    /\ InFlight(caller[c].entry)
    /\ clock >= caller[c].deadline
    /\ Leave(c)
    /\ UNCHANGED <<clock, sign, started, map, inserts>>

\* The client goes away; the sign goes on.
Abandon(c) ==
    /\ caller[c].pc = "waiting"
    /\ Leave(c)
    /\ UNCHANGED <<clock, sign, started, map, inserts>>

\* Time stops for a timer that is due: an attempt ends within SignTimeout (and
\* Lag), a synchronous step at once, a wait at its deadline.
Tick ==
    /\ clock < MaxClock
    /\ \A e \in Signs :
          /\ sign[e].task \in Attempts => clock < sign[e].since + SignTimeout + Lag
          /\ sign[e].task # "failing"
    /\ \A c \in Callers : caller[c].pc = "waiting" => clock < caller[c].deadline
    /\ clock' = clock + 1
    /\ UNCHANGED <<sign, started, map, inserts, caller>>

TaskStep(e) == \/ AttemptSucceeds(e) \/ FirstFails(e) \/ SecondFails(e)
               \/ BroadcastFailure(e) \/ TaskDies(e)
WaiterStep(c) == Settle(c) \/ SeeDeath(c) \/ TimeOut(c)

Next == \/ \E c \in Callers, h \in Hashes : Join(c, h) \/ StartSign(c, h)
        \/ \E e \in Signs : TaskStep(e)
        \/ \E c \in Callers : WaiterStep(c) \/ Abandon(c)
        \/ Tick

Spec == Init /\ [][Next]_vars

\* The runtime polls a task whose timer has fired or whose channel settled.
FairSpec == /\ Spec
            /\ \A e \in Signs : WF_vars(TaskStep(e))
            /\ \A c \in Callers : WF_vars(WaiterStep(c))

-----------------------------------------------------------------------------
SignRecord == [hash : Hashes, state : {"pending", "done", "failed"},
               task : Attempts \cup {"unborn", "failing", "gone"},
               start : Nat, since : Nat]
CallRecord == [pc : {"idle", "waiting"}, entry : 0 .. MaxSigns, deadline : Nat]

Slots == [entry : Signs, lastUsed : Nat]

\* Types; entry 0 is nobody's.
TypeOK ==
    /\ clock \in Nat
    /\ started \in 0 .. MaxSigns
    /\ sign \in [Signs -> SignRecord]
    /\ DOMAIN map \subseteq Hashes
    /\ map \in [DOMAIN map -> Slots]
    /\ \A h \in DOMAIN map : map[h].entry <= started
    /\ inserts \in Nat
    /\ caller \in [Callers -> CallRecord]
    /\ \A c \in Callers : caller[c].pc = "waiting" => caller[c].entry \in 1 .. started

\* A sign in flight is the registered entry of its hash, whatever sweeps,
\* timeouts, disconnects and failures of older entries do; so no context is
\* being signed twice at once.
SingleFlight ==
    /\ \A e \in Signs : sign[e].task \in Attempts =>
          sign[e].hash \in DOMAIN map /\ map[sign[e].hash].entry = e
    /\ \A e, f \in Signs :
          /\ sign[e].task \in Attempts /\ sign[f].task \in Attempts
          /\ sign[e].hash = sign[f].hash
          => e = f

\* "Evict BEFORE broadcasting a failure so a waiter that retries on error
\* finds a fresh slot, never the dead one."
FailureNeverCached ==
    \A h \in DOMAIN map : sign[map[h].entry].state # "failed"

\* An insert leaves more than MaxEntries in the map only if each of them is a
\* sign in flight: past the cap every finished entry is dropped.
OverCapOnlyInFlight ==
    [][started' # started /\ Cardinality(DOMAIN map') > MaxEntries
         => \A h \in DOMAIN map' : sign'[map'[h].entry].task \in Attempts \cup {"failing"}]_vars

\* Timers on time, no caller's budget runs out before the sign it waits for
\* has had both its attempts.
BudgetCoversRetry ==
    \A c \in Callers :
       caller[c].pc = "waiting" /\ InFlight(caller[c].entry)
          => clock < caller[c].deadline

FlightsOf(h) == {e \in Signs : sign[e].task \in Attempts /\ sign[e].hash = h}

Service == INSTANCE SigningService
    WITH flights <- [h \in Hashes |-> Cardinality(FlightsOf(h))],
         asked   <- [c \in Callers |-> IF caller[c].pc = "waiting"
                                       THEN {sign[caller[c].entry].hash} ELSE {}]

\* The cache, its sign tasks and their timers implement the service that the
\* request handlers rely on: one sign per context at a time, whatever is
\* swept, retried, abandoned or dead, and an end to every call.
ImplementsService == Service!Spec
=============================================================================
