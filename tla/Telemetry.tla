------------------------------ MODULE Telemetry ------------------------------
(***************************************************************************)
(* What operators see of the running token set: the registry gauges that   *)
(* the reload loop sets (reload.rs: record_applied, apply) and the /status *)
(* handler (lib.rs: status), which reports one token set against the cache *)
(* and sets the coverage gauges as a side effect.                          *)
(*                                                                         *)
(* The handler takes the running set, waits for the cache, and then writes *)
(* the gauges from the set it took; the reload loop runs in between.       *)
(***************************************************************************)
EXTENDS Reloader, FiniteSets

CONSTANT Chain        \* config.chain_id

VARIABLES gauges,     \* [generation, invalid, configured, missing]
          status      \* the /status request under way: [step, symbols,
                      \* generation, missing]

opsVars == <<gauges, status>>

\* boot has checked the file it started from.
ASSUME BootAssumption == Valid(BootFile)
vars == <<registryVars, opsVars>>

NoStatus == [step |-> "none", symbols |-> {}, generation |-> 0, missing |-> {}]

\* LiveClient::missing
Missing(symbols) == {s \in symbols : <<Chain, s>> \notin DOMAIN quotes}

\* main: record_applied for the set of boot, then the loop's first line.
Init == /\ RegistryInit
        /\ gauges = [generation |-> 1, invalid |-> FALSE,
                     configured |-> Cardinality(DOMAIN BootFile.rows), missing |-> 0]
        /\ status = NoStatus

-----------------------------------------------------------------------------
(* The reload loop, with what each decision records.                       *)

\* Mutant: the generation is recorded only with new rows.
RecordSameRowsNot == gauges

\* The invalid gauge is set last, whatever the decision was.
RecordSameRows == [gauges EXCEPT !.generation = tokens'.generation,
                                 !.invalid = rejected' # 0]

RecordReject == [gauges EXCEPT !.invalid = rejected' # 0]

RecordApplied == [gauges EXCEPT !.generation = tokens'.generation,
                                !.configured = Cardinality(DOMAIN tokens'.addr),
                                !.invalid = rejected' # 0]

ReloadStep ==
    /\ \/ (Poll \/ ReplaceTokens \/ SendAssets) /\ UNCHANGED gauges
       \/ RejectCopy /\ gauges' = RecordReject
       \/ KeepRows /\ gauges' = RecordSameRows
       \/ ForgetRetired /\ gauges' = RecordApplied
    /\ UNCHANGED <<now, status>>

-----------------------------------------------------------------------------
(* GET /status.                                                            *)

StatusTakes ==
    /\ status.step = "none"
    /\ status' = [step |-> "waiting", symbols |-> DOMAIN tokens.addr,
                  generation |-> tokens.generation, missing |-> {}]
    /\ UNCHANGED <<registryVars, gauges>>

\* Mutant: what is reported as configured is what is cached.
CoverageOfCache(missing) ==
    [gauges EXCEPT !.configured = Cardinality(status.symbols) - Cardinality(missing),
                   !.missing = Cardinality(missing)]

Coverage(missing) ==
    [gauges EXCEPT !.configured = Cardinality(status.symbols),
                   !.missing = Cardinality(missing)]

\* The read lock is granted; both gauges follow without an await.
StatusReads ==
    /\ status.step = "waiting"
    /\ LET missing == Missing(status.symbols)
       IN  /\ status' = [status EXCEPT !.step = "reported", !.missing = missing]
           /\ gauges' = Coverage(missing)
    /\ UNCHANGED registryVars

\* After the freshness gauge.
StatusReplies ==
    /\ status.step = "reported"
    /\ status' = NoStatus
    /\ UNCHANGED <<registryVars, gauges>>

StatusStep == StatusTakes \/ StatusReads \/ StatusReplies

-----------------------------------------------------------------------------
FeedStep ==
    /\ \/ \E f \in Frames : ApplyPrice(f)
       \/ \E k \in Keys : ApplyHalt(k)
       \/ \E s \in Symbols : ApplyStaleSource(s)
    /\ UNCHANGED <<now, assets, reloadVars, opsVars>>

OperatorStep == /\ \E file \in Files : Upload(file)
                /\ UNCHANGED <<now, opsVars>>

Next == ReloadStep \/ StatusStep \/ FeedStep \/ OperatorStep

\* The ticker keeps firing and a read of the bucket succeeds in the end; /status
\* "is already on the obs scrape path" and is asked again and again.
Spec == /\ Init
        /\ [][Next]_vars
        /\ WF_vars(ReloadStep) /\ WF_vars(StatusStep)

-----------------------------------------------------------------------------
\* "Bucket object generation of the token file this instance runs" and "1 while
\* the latest token file in the bucket fails validation; this instance keeps the
\* previous token set": between decisions both gauges are those of the running
\* set and of the copy last read, whatever was refused and restored before.
RegistryGaugesHonest ==
    swap.step = "idle" =>
       /\ gauges.generation = tokens.generation
       /\ gauges.invalid = (rejected # 0)

\* "Number of symbols in the running token set": not at every moment, since a
\* /status that waited for the cache over a reload sets the gauge back to the
\* set it took, but for good once uploads are over.
ConfiguredGaugeSettles ==
    <>[](gauges.configured = Cardinality(DOMAIN tokens.addr))
=============================================================================
