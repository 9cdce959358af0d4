----------------------------- MODULE MCTelemetry -----------------------------
(***************************************************************************)
(* A small registry: two symbols that are added, removed, moved to another *)
(* address, refused and restored by the uploads of an operator, and        *)
(* watched through /status.                                                *)
(***************************************************************************)
EXTENDS Telemetry, TLC

Rates == [quote_to_base |-> [num |-> 1, den |-> 2],
          base_to_quote |-> [num |-> 1, den |-> 1]]

Frame(symbol, chain, base) ==
    [symbol |-> symbol, chain |-> chain, base |-> base, settle |-> "usd",
     rate |-> Rates, underlying |-> Rates, nav |-> 1, age |-> 500,
     ttl |-> 2500, grace |-> 2500,
     session |-> [tag |-> "rth", start |-> 1000, end |-> 90000]]

RegistryFrames == {Frame("AAPL", 1, "a1"), Frame("AAPL", 2, "a1"),
                   Frame("MSFT", 1, "m1")}

File(rows) == [parses |-> TRUE, settle |-> "usd", rows |-> rows]
OnlyApple == File("AAPL" :> "a1")
Moved     == File("AAPL" :> "a2")
Both      == File("AAPL" :> "a1" @@ "MSFT" :> "m1")

RegistryFiles ==
    {OnlyApple, Moved, Both,
     File("AAPL" :> "a1" @@ "MSFT" :> "a1"),     \* a duplicate address
     File("AAPL" :> "usd"),                      \* the quote token as a row
     File("AAPL" :> "zero"),                     \* a placeholder
     File([s \in {} |-> "a1"]),                  \* an empty universe
     [OnlyApple EXCEPT !.parses = FALSE],
     [Moved EXCEPT !.settle = "eur"]}
=============================================================================
