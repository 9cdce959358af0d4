---------------------------- MODULE SignedContext ----------------------------
(***************************************************************************)
(* What one response states under a signature: the context slots of the    *)
(* v5, v6 and v7 schemas (oracle.rs: build_context_v5/v6/v7), the rate     *)
(* picked for the direction of the order (lib.rs: pick_rate_bytes,         *)
(* pick_underlying_rate_bytes), and when two contexts are the same         *)
(* statement up to their timestamps (reuse.rs: same_statement).            *)
(*                                                                         *)
(* A Rain Float rate is a fraction [num, den]; zero has num = 0.           *)
(***************************************************************************)
EXTENDS QuoteTime

\* Named for the order: its input token, then its output token.
QuoteToBase == "quote_to_base"
BaseToQuote == "base_to_quote"

LegacySchemas == {"v1", "v4"}
ExpirySchemas == {"v5", "v6", "v7"}
Schemas == LegacySchemas \cup ExpirySchemas

SignsUnderlying(schema) == schema = "v7"

-----------------------------------------------------------------------------
IsZero(x) == x.num = 0

\* Float::inv
Reciprocal(x) == [num |-> x.den, den |-> x.num]

\* The rate the model honours for an input of the order's input token.
DirectionalRate(schema, q, dir) ==
    IF SignsUnderlying(schema) THEN q.underlying[dir] ELSE q.rate[dir]

\* Float::inv fails on zero; the underlying rate is tested for the zero
\* sentinel before.  Both refusals are the same internal error.
RateUsable(schema, q, dir) == ~IsZero(DirectionalRate(schema, q, dir))

\* Slot 1, in units of input per output.
PriceOf(schema, q, dir) == Reciprocal(DirectionalRate(schema, q, dir))

\* -1 stands for a uint256 that Float::from_fixed_decimal cannot pack exactly.
NavPacks(schema, q) == schema = "v6" => q.nav >= 0

-----------------------------------------------------------------------------
\* Slot 9: v6 signs the vault's NAV ratio, v7 the chain, v5 has no such slot.
Slot9(schema, q, chain) ==
    CASE schema = "v5" -> <<>>
      [] schema = "v6" -> <<q.nav>>
      [] schema = "v7" -> <<chain>>

Context(schema, q, dir, input, output, chain) ==
    [version |-> schema,
     price   |-> PriceOf(schema, q, dir),
     publish |-> PublishTime(q),
     session |-> SignedSession(q),
     input   |-> input,
     output  |-> output,
     expiry  |-> SignedExpiry(q),
     slot9   |-> Slot9(schema, q, chain)]

TimestampSlots == {"publish", "expiry"}

\* Mutant: the price left out with the timestamps.
SameUpToPrice(a, b) ==
    /\ DOMAIN a = DOMAIN b
    /\ \A f \in DOMAIN a \ (TimestampSlots \cup {"price"}) : a[f] = b[f]

SameStatement(a, b) ==
    /\ DOMAIN a = DOMAIN b
    /\ \A f \in DOMAIN a \ TimestampSlots : a[f] = b[f]
=============================================================================
