--------------------------- MODULE QuoteTimeProofs ---------------------------
(***************************************************************************)
(* The time arithmetic of a quote for all integers.  The lemmas are about  *)
(* the operators; the theorems put them in terms of a quote and a clock.   *)
(***************************************************************************)
EXTENDS MCQuoteTime, TLAPS

\* A quote whose times are integers.
IsTimed(r) == /\ r.src \in Int /\ r.expiry \in Int /\ r.deadline \in Int
              /\ r.session.start \in Int /\ r.session.end \in Int

\* Whole seconds bracket the milliseconds they come from.
LEMMA SecondsLemma ==
    ASSUME NEW ms \in Int
    PROVE  /\ Seconds(ms) \in Int
           /\ Seconds(ms) * MsPerSecond <= ms
           /\ ms < (Seconds(ms) + 1) * MsPerSecond
BY DEF Seconds, MsPerSecond

LEMMA TruncLemma ==
    ASSUME NEW ms \in Int
    PROVE  /\ TruncSeconds(ms) \in Int
           /\ ms >= 0 => TruncSeconds(ms) = Seconds(ms)
           /\ ms < 0 => TruncSeconds(ms) <= 0
BY DEF TruncSeconds, Seconds, MsPerSecond

LEMMA SecondsMonotone ==
    ASSUME NEW a \in Int, NEW b \in Int, a <= b
    PROVE  Seconds(a) <= Seconds(b)
BY SecondsLemma DEF MsPerSecond

LEMMA EffectiveLemma ==
    ASSUME NEW r, IsTimed(r)
    PROVE  /\ EffectiveExpiry(r) \in Int
           /\ EffectiveExpiry(r) <= r.expiry
           /\ EffectiveExpiry(r) <= r.deadline
BY DEF EffectiveExpiry, IsTimed

\* The build's gate and the consumer's assert are the same condition.
LEMMA GateLemma ==
    ASSUME NEW r, IsTimed(r), NEW t \in Int, t >= 0, ExpiryAccepted(r)
    PROVE  Executable(r, t) <=> Seconds(t) < SignedExpiry(r)
<1> DEFINE e == EffectiveExpiry(r)
<1>1. e \in Int /\ HasDeadline(r)
    BY EffectiveLemma DEF ExpiryAccepted
<1>2. Executable(r, t) <=> e > t /\ Seconds(e) > Seconds(t)
    BY <1>1 DEF Executable, QuoteIsLive
<1> HIDE DEF e
<1>3. CASE e >= 0
    <2>1. SignedExpiry(r) = Seconds(e)
        BY <1>1, <1>3, TruncLemma DEF SignedExpiry, e
    <2>2. Seconds(e) > Seconds(t) => e > t
        BY <1>1, SecondsMonotone, SecondsLemma
    <2> QED BY <1>2, <2>1, <2>2, SecondsLemma, <1>1
<1>4. CASE e < 0
    <2>1. SignedExpiry(r) <= 0 /\ SignedExpiry(r) \in Int
        BY <1>1, <1>4, TruncLemma DEF SignedExpiry, e
    <2>2. Seconds(t) >= 0 /\ Seconds(t) \in Int
        BY SecondsLemma DEF MsPerSecond
    <2> QED BY <1>1, <1>2, <1>4, <2>1, <2>2
<1> QED BY <1>1, <1>3, <1>4

\* The signed second does not pass the horizon or the deadline.
LEMMA BoundLemma ==
    ASSUME NEW r, IsTimed(r), EffectiveExpiry(r) >= 0
    PROVE  /\ SignedExpiry(r) * MsPerSecond <= r.expiry
           /\ SignedExpiry(r) * MsPerSecond <= r.deadline
<1>1. SignedExpiry(r) = Seconds(EffectiveExpiry(r))
    BY EffectiveLemma, TruncLemma DEF SignedExpiry
<1>2. SignedExpiry(r) * MsPerSecond <= EffectiveExpiry(r) /\ SignedExpiry(r) \in Int
    BY <1>1, EffectiveLemma, SecondsLemma
<1> QED BY <1>2, EffectiveLemma DEF IsTimed, MsPerSecond

\* The floors of publish_time and of the session bounds keep their order.
LEMMA SessionLemma ==
    ASSUME NEW r, IsTimed(r), SessionVerdict(r) = "ok"
    PROVE  /\ SignedSession(r).start <= PublishTime(r)
           /\ PublishTime(r) <= SignedSession(r).end
<1>1. /\ SessionHolds(r) /\ Seconds(r.session.start) >= 0
    BY DEF SessionVerdict, FitsU64
<1>2. r.session.start <= r.src /\ r.src <= r.session.end
    BY <1>1 DEF SessionHolds, IsTimed
<1>3. r.src >= 0
    <2>1. r.session.start \in Int /\ r.src \in Int
        BY DEF IsTimed
    <2>2. /\ Seconds(r.session.start) \in Int
          /\ Seconds(r.session.start) * MsPerSecond <= r.session.start
        BY <2>1, SecondsLemma
    <2> QED BY <1>1, <1>2, <2>1, <2>2 DEF MsPerSecond
<1>4. PublishTime(r) = Seconds(r.src)
    BY <1>3, TruncLemma DEF PublishTime, IsTimed
<1> QED BY <1>2, <1>4, SecondsMonotone DEF SignedSession, IsTimed

-----------------------------------------------------------------------------
TimedInv == IsTimed(q) /\ at \in Int

LEMMA TimedAlways == Spec => []TimedInv
<1>1. Init => TimedInv
    <2> SUFFICES ASSUME Init PROVE TimedInv
        OBVIOUS
    <2>1. at \in Int
        BY GridAssumption DEF Init
    <2>2. ASSUME q \in Times PROVE IsTimed(q)
        <3>1. PICK e \in Grid, d \in Grid :
                 q = [src |-> 0, expiry |-> e, deadline |-> d,
                      session |-> [tag |-> "none", start |-> 0, end |-> 0]]
            BY <2>2 DEF Times
        <3>2. /\ q.src = 0 /\ q.expiry = e /\ q.deadline = d
              /\ q.session.start = 0 /\ q.session.end = 0
            BY <3>1
        <3> QED BY <3>2, GridAssumption DEF IsTimed
    <2>3. ASSUME q \in Readings PROVE IsTimed(q)
        <3>1. PICK s \in Grid, t \in Tags, b \in Grid, c \in Grid :
                 q = [src |-> s, expiry |-> 0, deadline |-> 0,
                      session |-> [tag |-> t, start |-> b, end |-> c]]
            BY <2>3 DEF Readings
        <3> QED BY <3>1, GridAssumption DEF IsTimed
    <2>4. IsTimed(q)
        BY <2>2, <2>3 DEF Init
    <2> QED BY <2>1, <2>4 DEF TimedInv
<1>2. TimedInv /\ [Advance]_vars => TimedInv'
    BY GridAssumption DEF TimedInv, IsTimed, Advance, vars
<1> QED BY <1>1, <1>2, PTL DEF Spec

\* A quote passes validate_quote_expiry exactly while the on-chain comparison
\* with its signed second would pass, for every horizon, deadline and clock.
THEOREM GateIsTheAssert == Spec => []GateMatchesAssert
<1>1. TimedInv => GateMatchesAssert
    BY GateLemma DEF TimedInv, GateMatchesAssert
<1> QED BY <1>1, TimedAlways, PTL

\* Signing in seconds never extends a quote, for every horizon and deadline.
THEOREM SecondsNeverExtend == Spec => []SignedBoundWithinHorizon
<1>1. TimedInv => SignedBoundWithinHorizon
    BY BoundLemma DEF TimedInv, SignedBoundWithinHorizon
<1> QED BY <1>1, TimedAlways, PTL

\* The signed session contains the signed publish_time, for every session.
THEOREM SessionContainsPublish == Spec => []PublishInSession
<1>1. TimedInv => PublishInSession
    BY SessionLemma DEF TimedInv, PublishInSession
<1> QED BY <1>1, TimedAlways, PTL
=============================================================================
