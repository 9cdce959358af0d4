------------------------------- MODULE Startup -------------------------------
(***************************************************************************)
(* The life of a process (main.rs: main; token_file.rs: boot) around the   *)
(* reload loop: read the configuration, read and check the latest token    *)
(* file, find the signer, follow the bucket, listen; exit, crash, and be   *)
(* started again with nothing kept.                                        *)
(*                                                                         *)
(* Prices are left out: the cache starts empty and stays so here.          *)
(***************************************************************************)
EXTENDS Reloader, Bucket

CONSTANTS Attempts,      \* Retry::BOOT.attempts
          FirstBackoff,  \* Retry::BOOT.first_backoff
          Refresh,       \* registry.refresh_secs
          Setups         \* configurations: [registry, kms, key]

ASSUME StartupAssumption ==
    /\ Attempts \in Nat \ {0} /\ FirstBackoff \in Nat /\ Refresh \in Nat
    /\ Setups \subseteq [registry : BOOLEAN, kms : BOOLEAN, key : BOOLEAN]

VARIABLES setup,     \* the configuration and the environment of the process
          pc,        \* where main is
          attempt,   \* boot's attempt
          backoff,   \* boot's next wait
          elapsed,   \* history: time boot has taken
          oldest,    \* history: the latest copy when this process started
          served     \* history: the latest generation any process has served

mainVars == <<setup, pc, attempt, backoff, elapsed, oldest, served>>
vars == <<registryVars, bucketVars, mainVars>>

NoSet == [addr |-> [s \in {} |-> QuoteToken], generation |-> 0]

Process ==
    /\ tokens = NoSet /\ assets = {} /\ rejected = 0 /\ copy = NoCopy /\ swap = Idle
    /\ pc = "config" /\ attempt = 1 /\ backoff = FirstBackoff /\ elapsed = 0

Init == /\ CacheInit
        /\ Process /\ BucketInit /\ faults = 0
        /\ bucket = [file |-> BootFile, generation |-> 1]
        /\ setup \in Setups
        /\ oldest = 1 /\ served = 0

\* The later of two generations.
Later(g, h) == IF g >= h THEN g ELSE h

Exit == pc' = "exited" /\ UNCHANGED <<setup, attempt, backoff, elapsed, oldest, served>>
Goto(l) == pc' = l /\ UNCHANGED <<setup, attempt, backoff, elapsed, oldest, served>>
RegistryIdle == UNCHANGED registryVars

-----------------------------------------------------------------------------
\* parse_table, serve_source: tokens come from the bucket or not at all.
ReadConfig ==
    /\ pc = "config"
    /\ IF setup.registry THEN Goto("booting") ELSE Exit
    /\ RegistryIdle /\ UNCHANGED bucketVars

BootRead ==
    /\ pc = "booting"
    /\ StartRead
    /\ RegistryIdle /\ UNCHANGED mainVars

BootCall(d) ==
    /\ pc = "booting"
    /\ CallStep(d)
    /\ elapsed' = elapsed + d
    /\ IF call' = "done" THEN copy' = bucket ELSE UNCHANGED copy
    /\ UNCHANGED <<setup, pc, attempt, backoff, oldest, served, now, cacheVars,
                   assets, tokens, bucket, rejected, swap>>

\* Mutant: one read too many.
MayRetryAgain == attempt <= Attempts

MayRetry == attempt < Attempts

\* A failed read is tried again after a wait that doubles.
BootRetries ==
    /\ pc = "booting" /\ call = "failed"
    /\ call' = "idle"
    /\ IF MayRetry
       THEN /\ attempt' = attempt + 1
            /\ backoff' = 2 * backoff
            /\ elapsed' = elapsed + backoff
            /\ Idles(backoff)
            /\ UNCHANGED <<setup, pc, oldest, served>>
       ELSE Exit /\ UNCHANGED token
    /\ RegistryIdle /\ UNCHANGED faults

\* Mutant: a copy that fails validation is replaced by the one of the image.
TakeCopyOrBundled ==
    /\ pc = "booting" /\ call = "done"
    /\ call' = "idle"
    /\ tokens' = IF Valid(copy.file)
                 THEN [addr |-> copy.file.rows, generation |-> copy.generation]
                 ELSE [addr |-> BootFile.rows, generation |-> 1]
    /\ copy' = NoCopy
    /\ Goto("signer")
    /\ UNCHANGED <<now, cacheVars, assets, bucket, rejected, swap, token, faults>>

\* A copy that fails validation is not retried, and nothing falls back.
TakeCopy ==
    /\ pc = "booting" /\ call = "done"
    /\ call' = "idle"
    /\ IF Valid(copy.file)
       THEN /\ tokens' = [addr |-> copy.file.rows, generation |-> copy.generation]
            /\ Goto("signer")
       ELSE Exit /\ UNCHANGED tokens
    /\ copy' = NoCopy
    /\ UNCHANGED <<now, cacheVars, assets, bucket, rejected, swap, token, faults>>

\* Exactly one signer source; both or neither is refused.  The pricing task is
\* given the list and the reload loop is spawned.
ChooseSigner ==
    /\ pc = "signer"
    /\ IF setup.kms # setup.key
       THEN /\ pc' = "bind"
            /\ assets' = DOMAIN tokens.addr
            /\ elapsed' = 0
            /\ UNCHANGED <<setup, attempt, backoff, oldest, served>>
       ELSE Exit /\ UNCHANGED assets
    /\ UNCHANGED <<now, cacheVars, reloadVars, bucketVars>>

\* Signer::from_gcp_kms fails fast when the key cannot be reached.
SignerFails ==
    /\ pc = "signer" /\ setup.kms /\ ~setup.key
    /\ Fault
    /\ Exit
    /\ RegistryIdle /\ UNCHANGED <<token, call>>

\* The port is bound, with the set that is running by then, or cannot be.
Listen ==
    /\ pc = "bind"
    /\ \/ /\ pc' = "listening"
          /\ served' = Later(served, tokens.generation)
          /\ UNCHANGED <<setup, attempt, backoff, elapsed, oldest, faults>>
       \/ Fault /\ Exit
    /\ RegistryIdle /\ UNCHANGED <<token, call>>

MainStep == \/ ReadConfig \/ BootRead \/ BootRetries \/ TakeCopy
            \/ \E d \in Durations : BootCall(d)
            \/ ChooseSigner \/ SignerFails \/ Listen

-----------------------------------------------------------------------------
(* The reload loop over the same client, which does not wait for the port. *)

Loop == /\ pc \in {"bind", "listening"}
        /\ UNCHANGED <<setup, pc, attempt, backoff, elapsed, oldest, now>>

TickerFires ==
    /\ Loop
    /\ swap.step = "idle" /\ copy.generation = 0
    /\ call = "idle"
    /\ \E d \in {0, Refresh} :
          LET t == Aged(token, d)
          IN  /\ token' = t
              /\ call' = IF Fixed \/ t.left > 0 THEN "request" ELSE "fetch"
    /\ UNCHANGED <<faults, served, cacheVars, assets, reloadVars>>

\* The answer is a copy, the generation that was excluded, or an error.
LoopCall(d) ==
    /\ Loop
    /\ CallStep(d)
    /\ IF call' = "done" /\ bucket.generation # Unless
       THEN Poll
       ELSE UNCHANGED <<cacheVars, assets, reloadVars>>
    /\ UNCHANGED served

\* Mutant: an error ends the loop.
LoopReadOnce ==
    /\ Loop
    /\ call = "done"
    /\ call' = "idle"
    /\ UNCHANGED <<token, faults, served, cacheVars, assets, reloadVars>>

\* A failed read is logged and counted, and the ticker fires again.
LoopRead ==
    /\ Loop
    /\ call \in {"done", "failed"}
    /\ call' = "idle"
    /\ UNCHANGED <<token, faults, served, cacheVars, assets, reloadVars>>

Decide ==
    /\ Loop
    /\ call = "idle"
    /\ RejectCopy \/ KeepRows \/ ReplaceTokens \/ SendAssets \/ ForgetRetired
    /\ served' = IF pc = "listening" THEN Later(served, tokens'.generation) ELSE served
    /\ UNCHANGED bucketVars

LoopStep == \/ TickerFires \/ LoopRead \/ Decide
            \/ \E d \in Durations : LoopCall(d)

-----------------------------------------------------------------------------
UploadStep == /\ \E file \in Files : Upload(file)
              /\ UNCHANGED <<now, bucketVars, mainVars>>

RevokeStep == Revoke /\ RegistryIdle /\ UNCHANGED mainVars

Crash == /\ pc # "exited"
         /\ Fault
         /\ Exit
         /\ RegistryIdle /\ UNCHANGED <<token, call>>

\* The platform starts another process; nothing was kept.
Restart ==
    /\ pc = "exited"
    /\ tokens' = NoSet /\ assets' = {} /\ rejected' = 0 /\ copy' = NoCopy /\ swap' = Idle
    /\ pc' = "config" /\ attempt' = 1 /\ backoff' = FirstBackoff /\ elapsed' = 0
    /\ token' = FirstToken /\ call' = "idle"
    /\ oldest' = bucket.generation
    /\ UNCHANGED <<setup, served, faults, now, cacheVars, bucket>>

Next == \/ MainStep \/ LoopStep
        \/ UploadStep \/ RevokeStep \/ Crash \/ Restart

Spec == Init /\ [][Next]_vars

\* A process goes on, and a process that ended is started again.
FairSpec == Spec /\ WF_vars(MainStep) /\ WF_vars(LoopStep) /\ WF_vars(Restart)

-----------------------------------------------------------------------------
\* "Nothing listens until that succeeds: an instance that cannot read the live
\* copy, or reads one that fails validation, exits instead of serving an old
\* or unchecked token set": what is served was checked, is no older than the
\* latest copy at the start of the process, and no older than anything
\* this process or one before it has served.
ServesCheckedCopy ==
    pc = "listening" =>
       /\ RunningSetUnambiguous
       /\ tokens.generation >= oldest
       /\ tokens.generation >= served

\* "Bounded, so a black-holed request fails instead of hanging boot": whatever
\* times out, boot ends within its reads, two requests each, and its waits.
BootBounded ==
    pc = "booting" =>
       elapsed <= Attempts * 2 * Timeout + FirstBackoff * (2^(Attempts - 1) - 1)

Sound(c) == c.registry /\ c.kms # c.key

\* Whatever reads failed, tokens were revoked and processes died, the latest
\* copy is served in the end if it is valid, and if not it is refused by the
\* process that listens or keeps one from listening.
SettlesAcrossRestarts ==
    \A g \in 1 .. MaxUploads + 1 :
       bucket.generation = g /\ Sound(setup)
          ~> \/ bucket.generation > g
             \/ Valid(bucket.file) /\ pc = "listening" /\ tokens.generation = g
             \/ ~Valid(bucket.file) /\ (rejected = g \/ pc = "exited")
=============================================================================
