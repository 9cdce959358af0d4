------------------------------ MODULE QuoteTime ------------------------------
(***************************************************************************)
(* The time arithmetic of a pricing quote: how long it may be signed       *)
(* (lib.rs: effective_expiry_unix_ms, expiry_from_quote, quote_is_live,    *)
(* validate_quote_expiry), the publish time it is signed under, and the    *)
(* market session it must lie in (session.rs: SignedSession::from_quote).  *)
(*                                                                         *)
(* A quote is a record whose time fields are Unix milliseconds.  The       *)
(* optional execution deadline is an integer, 0 standing for None: the     *)
(* code filters on `deadline > 0` and so refuses both alike.  A quote      *)
(* without a session has the tag "none".                                   *)
(***************************************************************************)
EXTENDS Integers

MsPerSecond == 1000

\* i64::div_euclid(1000): rounds towards minus infinity.
Seconds(ms) == ms \div MsPerSecond

\* i64 `/ 1000`: rounds towards zero.
TruncSeconds(ms) == IF ms >= 0 THEN ms \div MsPerSecond
                               ELSE -((-ms) \div MsPerSecond)

\* u64::try_from succeeds on the truncated seconds.
FitsU64(secs) == secs >= 0

-----------------------------------------------------------------------------
PublishTime(q) == TruncSeconds(q.src)

HasDeadline(q) == q.deadline > 0

\* Mutant: the model's horizon alone, the execution deadline forgotten.
HorizonOnly(q) == q.expiry

EffectiveExpiry(q) == IF q.expiry <= q.deadline THEN q.expiry ELSE q.deadline

SignedExpiry(q) == TruncSeconds(EffectiveExpiry(q))

\* expiry_from_quote returns Ok.
ExpiryAccepted(q) == HasDeadline(q) /\ FitsU64(SignedExpiry(q))

\* Mutant: milliseconds compared, the signed seconds not.
LiveByMillis(expiry, at, signsExpiry) == expiry > at

QuoteIsLive(expiry, at, signsExpiry) ==
    /\ expiry > at
    /\ signsExpiry => Seconds(expiry) > Seconds(at)

\* validate_quote_expiry returns Ok, for the schemas that sign an expiry.
Executable(q, at) == /\ HasDeadline(q)
                     /\ QuoteIsLive(EffectiveExpiry(q), at, TRUE)

-----------------------------------------------------------------------------
\* Mutant: a source time past the end of the session passes.
SessionStarted(q) == q.session.start <= q.src

SessionHolds(q) ==
    /\ q.session.start <= q.src
    /\ IF q.session.tag = "closed" THEN q.src <= q.session.end
                                   ELSE q.src < q.session.end

SessionVerdict(q) ==
    CASE q.session.tag = "none" -> "missing_session"
      [] q.session.tag # "none"
         /\ SessionHolds(q)
         /\ FitsU64(Seconds(q.session.start))
         /\ FitsU64(Seconds(q.session.end)) -> "ok"
      [] OTHER -> "invalid_session"

SignedSession(q) == [tag   |-> q.session.tag,
                     start |-> Seconds(q.session.start),
                     end   |-> Seconds(q.session.end)]
=============================================================================
