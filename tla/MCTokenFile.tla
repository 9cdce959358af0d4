----------------------------- MODULE MCTokenFile -----------------------------
(***************************************************************************)
(* Two equities on the chain served, a second chain in the file, and the   *)
(* ways a configuration can name its tokens and its quote token.           *)
(***************************************************************************)
EXTENDS TokenFile, TLC

Text(bytes, form) == [bytes |-> bytes, form |-> form]
NoText == Text("usd", "missing")

Slot(bytes) == [pricing |-> "enabled", venues |-> "raindex", address |-> Text(bytes, "lower")]

TwoChains ==
    [schema |-> 1,
     chains |-> ("base" :> [id |-> 1, quote |-> Text("usd", "mixed"),
                            slots |-> ("COIN" :> Slot("a") @@ "MSTR" :> Slot("b"))]
              @@ "side" :> [id |-> 2, quote |-> Text("usd", "lower"),
                            slots |-> ("COIN" :> Slot("b") @@ "MSTR" :> Slot("a"))])]

Served == [registry |-> "ok", inline |-> {}, chain |-> 1, quote |-> NoText, pricing |-> TRUE]
Rows1 == {<<Wrapped("COIN"), Text("a", "lower")>>}

AllConfigs ==
    {Served,
     [Served EXCEPT !.quote = Text("usd", "lower")],
     [Served EXCEPT !.quote = Text("usd", "bare")],      \* another text
     [Served EXCEPT !.inline = Rows1],                   \* two sources
     [Served EXCEPT !.registry = "none", !.inline = Rows1],
     [Served EXCEPT !.registry = "none"],
     [Served EXCEPT !.registry = "bad"],
     [Served EXCEPT !.pricing = FALSE],
     [Served EXCEPT !.chain = 3]}
=============================================================================
