--------------------------- MODULE MCOracleServer ---------------------------
(***************************************************************************)
(* Small instances of OracleServer.  Times are milliseconds; the clock     *)
(* moves by half a second, so that instants inside a second occur.         *)
(***************************************************************************)
EXTENDS OracleServer, TLC

\* Rates with a spread: the product of the two directions is below one.
Rates(n, d) == QuoteToBase :> [num |-> n, den |-> d]
               @@ BaseToQuote :> [num |-> d - 1, den |-> n]
ZeroRates == QuoteToBase :> [num |-> 0, den |-> 1]
             @@ BaseToQuote :> [num |-> 0, den |-> 1]

Session(tag, from, to) == [tag |-> tag, start |-> from, end |-> to]
OpenAllDay == Session("rth", 1000, 90000)

Frame(symbol, chain, base, rates, ttl) ==
    [symbol |-> symbol, chain |-> chain, base |-> base, settle |-> "usd",
     rate |-> rates, underlying |-> rates, nav |-> 1, age |-> 500,
     ttl |-> ttl, grace |-> ttl + 700, session |-> OpenAllDay]

Item(i, o)  == [input |-> i, output |-> o]
Buy(base)   == Item(base, "usd")
Sell(base)  == Item("usd", base)

Body(schema, form, allow, items) ==
    [schema |-> schema, form |-> form, allowFailure |-> allow, items |-> items]
Single(schema, item)   == Body(schema, "single", FALSE, <<item>>)
Strict(schema, items)   == Body(schema, "batch", FALSE, items)
Envelope(schema, items) == Body(schema, "batch", TRUE, items)

Row(s, a) == s :> a
File(rows) == [parses |-> TRUE, settle |-> "usd", rows |-> rows]
AtOld == File(Row("AAPL", "a1"))
AtNew == File(Row("AAPL", "a2"))

HandlerSymmetry == Permutations(Handlers)
NoFiles == {}

-----------------------------------------------------------------------------
\* server_batch: batches of both directions of one symbol, while the price
\* and the horizon move, frames repeat a price under a new publish time, a
\* quote runs out in its signed second, and the symbol is halted.
Wide == Frame("AAPL", 1, "a1", Rates(1, 2), 3500)
Moved == Frame("AAPL", 1, "a1", Rates(1, 4), 1500)
BatchFrames == {Wide, Moved}
BatchBodies == {Strict("v5", <<Sell("a1"), Buy("a1")>>),
                Envelope("v5", <<Sell("a1"), Buy("a1")>>)}

\* server_race: two handlers hold an order for one address of a symbol that is
\* halted, moved to another address and back, while the producer prices either
\* address.
RaceFrames == {Wide, [Wide EXCEPT !.base = "a2"]}
RaceBodies == {Single("v7", Sell("a1"))}
RaceFiles == {AtNew, AtOld}

\* server_margin: a batch whose first slot is reused and whose second signs.
MarginFrames == {Wide}
MarginBodies == {Single("v5", Sell("a1")),
                 Strict("v5", <<Sell("a1"), Buy("a1")>>)}

\* server_ends: every way a request can end, with one slot in flight at a time.
EndsFrames == {Wide,
               [Wide EXCEPT !.grace = 0],
               [Wide EXCEPT !.session = Session("none", 0, 0)],
               [Wide EXCEPT !.session = Session("closed", 1000, 4000)],
               [Wide EXCEPT !.underlying = ZeroRates, !.nav = -1],
               [Wide EXCEPT !.settle = "eur"]}
EndsBodies == {Body("v5", "malformed", TRUE, <<>>),
               Strict("v5", <<>>),
               Envelope("v6", <<Sell("a1"), Item("a1", "a1")>>),
               Strict("v7", <<Sell("a1"), Item("usd", "a3")>>),
               Strict("v7", <<Sell("a1"), Buy("a1")>>),
               Single("v1", Sell("a1")),
               Envelope("v4", <<Sell("a1"), Sell("a3")>>)}
=============================================================================
