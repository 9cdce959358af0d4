------------------------------ MODULE MCStartup ------------------------------
(***************************************************************************)
(* A process that boots from a good or a bad token file, under every       *)
(* combination of signer sources, and is restarted when it ends.           *)
(***************************************************************************)
EXTENDS Startup, TLC

NoFrames == {}
File(rows) == [parses |-> TRUE, settle |-> "usd", rows |-> rows]
OnlyApple == File("AAPL" :> "a1")
Both      == File("AAPL" :> "a1" @@ "MSFT" :> "m1")

\* Another set, the same rows again, and one that is refused.
StartupFiles == {OnlyApple, Both, File("AAPL" :> "a1" @@ "MSFT" :> "a1")}

AllSetups == [registry : BOOLEAN, kms : BOOLEAN, key : BOOLEAN]
=============================================================================
