----------------------------- MODULE MCQuoteTime -----------------------------
(***************************************************************************)
(* One quote and the clock it is checked against.  The grid has values on  *)
(* both sides of each second boundary, the epoch included.                 *)
(***************************************************************************)
EXTENDS QuoteTime

CONSTANTS Grid,      \* instants of the quote's fields and of the clock
          Tags       \* session tags

ASSUME GridAssumption == Grid \subseteq Int

VARIABLES q,         \* the quote
          at         \* when it is checked

vars == <<q, at>>

\* Quotes that vary in their horizon, and quotes that vary in their session.
Times == {[src |-> 0, expiry |-> e, deadline |-> d,
           session |-> [tag |-> "none", start |-> 0, end |-> 0]] :
             e \in Grid, d \in Grid}
Readings == {[src |-> s, expiry |-> 0, deadline |-> 0,
              session |-> [tag |-> t, start |-> b, end |-> c]] :
             s \in Grid, t \in Tags, b \in Grid, c \in Grid}

Init == /\ q \in Times \cup Readings
        /\ at \in {t \in Grid : \A u \in Grid : t <= u}

Advance == /\ \E t \in Grid : t > at /\ at' = t
           /\ UNCHANGED q

Spec == Init /\ [][Advance]_vars

\* Around the epoch and three second boundaries.
Instants == {-1001, -1000, -999, -1, 0, 1, 999, 1000, 1001, 1999, 2000, 2500}

-----------------------------------------------------------------------------
\* The gate of the build and the consumer's assert agree: validate_quote_expiry
\* passes exactly when a block stamped with the current second is strictly
\* before the signed expiry (oracle.rs: "the expiry second itself EXCLUSIVE").
GateMatchesAssert ==
    at >= 0 /\ ExpiryAccepted(q) =>
       (Executable(q, at) <=> Seconds(at) < SignedExpiry(q))

\* The signed second never lies past the horizon or the execution deadline
\* that pricing stamped in milliseconds.
SignedBoundWithinHorizon ==
    ExpiryAccepted(q) /\ EffectiveExpiry(q) >= 0 =>
       /\ SignedExpiry(q) * MsPerSecond <= q.expiry
       /\ SignedExpiry(q) * MsPerSecond <= q.deadline

\* A signed session contains the signed publish_time, floors included.
PublishInSession ==
    SessionVerdict(q) = "ok" =>
       /\ SignedSession(q).start <= PublishTime(q)
       /\ PublishTime(q) <= SignedSession(q).end
=============================================================================
