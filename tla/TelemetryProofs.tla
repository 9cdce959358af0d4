--------------------------- MODULE TelemetryProofs ---------------------------
(***************************************************************************)
(* What operators are shown of the running token set, for any symbols,     *)
(* frames and token files and any number of uploads.                       *)
(*                                                                         *)
(* The gauges are written at the end of a decision.  While a new set is    *)
(* being swapped in both may be behind; nothing writes them meanwhile but  *)
(* /status, which leaves these two alone.                                  *)
(***************************************************************************)
EXTENDS Telemetry, RegistryProofs

GaugesShape == DOMAIN gauges = {"generation", "invalid", "configured", "missing"}

OpsInv == CacheInv /\ RegistryInv /\ GaugesShape /\ RegistryGaugesHonest

\* The loop has a copy to decide on only between two swaps.
LEMMA GaugesNext ==
    ASSUME OpsInv, ReloadStep
    PROVE  GaugesShape' /\ RegistryGaugesHonest'
<1>1. copy.generation # 0 => swap.step = "idle"
  BY DEF OpsInv, RegistryInv, GenerationsGrow
<1>2. DOMAIN tokens = {"addr", "generation"} /\ DOMAIN swap = {"step", "forget"}
  BY DEF OpsInv, RegistryInv, RegistryShape
<1>3. CASE (Poll \/ ReplaceTokens \/ SendAssets) /\ UNCHANGED gauges
  BY <1>2, <1>3 DEF Poll, ReplaceTokens, SendAssets, OpsInv, GaugesShape, RegistryGaugesHonest
<1>4. CASE RejectCopy /\ gauges' = RecordReject
  BY <1>1, <1>4 DEF RejectCopy, RecordReject, OpsInv, GaugesShape, RegistryGaugesHonest
<1>5. CASE KeepRows /\ gauges' = RecordSameRows
  BY <1>1, <1>5 DEF KeepRows, RecordSameRows, OpsInv, GaugesShape, RegistryGaugesHonest
<1>6. CASE ForgetRetired /\ gauges' = RecordApplied
  BY <1>6 DEF ForgetRetired, RecordApplied, OpsInv, GaugesShape, RegistryGaugesHonest
<1> QED BY <1>3, <1>4, <1>5, <1>6 DEF ReloadStep

LEMMA OpsInit == Init => OpsInv
<1> SUFFICES ASSUME Init PROVE OpsInv
  OBVIOUS
<1>1. CacheInv /\ RegistryInv
  BY CacheInitInv, RegistryInitInv, BootAssumption DEF Init, RegistryInit
<1>2. GaugesShape /\ RegistryGaugesHonest
  BY DEF Init, RegistryInit, ReloadInit, GaugesShape, RegistryGaugesHonest
<1> QED BY <1>1, <1>2 DEF OpsInv

LEMMA OpsNext == OpsInv /\ [Next]_vars => OpsInv'
<1> SUFFICES ASSUME OpsInv, [Next]_vars PROVE OpsInv'
  OBVIOUS
<1> USE DEF OpsInv
<1>1. CASE ReloadStep
  <2>1. CacheInv'
    BY <1>1, QuietKeeps, ForgetKeeps
       DEF ReloadStep, Poll, ReplaceTokens, SendAssets, RejectCopy, KeepRows, ForgetRetired
  <2>2. RegistryInv'
    BY <1>1, ReloadsKeepRegistry DEF ReloadStep, ReloaderStep
  <2> QED BY <1>1, <2>1, <2>2, GaugesNext
<1>2. CASE StatusStep
  <2>1. UNCHANGED registryVars
    BY <1>2 DEF StatusStep, StatusTakes, StatusReads, StatusReplies
  <2>2. CacheInv' /\ RegistryInv'
    BY <2>1, QuietKeeps, QuietKeepsRegistry DEF registryVars
  <2>3. /\ DOMAIN gauges' = DOMAIN gauges
        /\ gauges'.generation = gauges.generation /\ gauges'.invalid = gauges.invalid
    BY <1>2 DEF StatusStep, StatusTakes, StatusReads, StatusReplies, Coverage, GaugesShape
  <2> QED BY <2>1, <2>2, <2>3 DEF registryVars, reloadVars, GaugesShape, RegistryGaugesHonest
<1>3. CASE FeedStep
  <2>1. CacheInv' /\ RegistryInv'
    BY <1>3, FramesKeep, FramesKeepRegistry DEF FeedStep
  <2> QED BY <1>3, <2>1 DEF FeedStep, opsVars, reloadVars, GaugesShape, RegistryGaugesHonest
<1>4. CASE OperatorStep
  <2>1. CacheInv'
    BY <1>4, QuietKeeps DEF OperatorStep, Upload
  <2>2. RegistryInv'
    BY <1>4, UploadKeepsRegistry DEF OperatorStep
  <2> QED BY <1>4, <2>1, <2>2 DEF OperatorStep, Upload, opsVars, GaugesShape, RegistryGaugesHonest
<1>5. CASE UNCHANGED vars
  <2>1. CacheInv' /\ RegistryInv'
    BY <1>5, QuietKeeps, QuietKeepsRegistry DEF vars, registryVars
  <2> QED BY <1>5, <2>1 DEF vars, registryVars, reloadVars, opsVars, GaugesShape,
                            RegistryGaugesHonest
<1> QED BY <1>1, <1>2, <1>3, <1>4, <1>5 DEF Next

LEMMA OpsAlways == Spec => []OpsInv
BY OpsInit, OpsNext, PTL DEF Spec

\* Between decisions the generation and invalid gauges are those of the running
\* set and of the copy last read, whatever was refused and restored before and
\* whenever /status wrote the others.
THEOREM GaugesHonest == Spec => []RegistryGaugesHonest
<1>1. OpsInv => RegistryGaugesHonest
  BY DEF OpsInv
<1> QED BY <1>1, OpsAlways, PTL

\* Under these steps too, no quote of a retired symbol is cached between reloads
\* and the running set is neither empty nor ambiguous.
THEOREM RegistrySound == Spec => [](RetiredSymbolsStayOut /\ RunningSetUnambiguous)
<1>1. OpsInv => RetiredSymbolsStayOut /\ RunningSetUnambiguous
  BY RegistryInvImplies DEF OpsInv
<1> QED BY <1>1, OpsAlways, PTL
=============================================================================
