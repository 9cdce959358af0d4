---------------------------- MODULE StartupProofs ----------------------------
(***************************************************************************)
(* The life of a process, for any token files, durations, faults and       *)
(* number of restarts: what is served was checked and is never older than  *)
(* it may be, the access token outlives its request, and boot takes a      *)
(* bounded time.                                                           *)
(*                                                                         *)
(* The three have little to do with each other, so the invariant is a       *)
(* conjunction whose parts are shown to be preserved one by one.  Each     *)
(* rests on Phases, which says what main can be doing where.               *)
(***************************************************************************)
EXTENDS Startup, RegistryProofs

Booted == {"signer", "bind", "listening"}

\* Where main is; a read is under way only in boot and in the loop.
Phases ==
    /\ setup \in Setups /\ backoff \in Nat
    /\ pc \in Booted \cup {"config", "booting", "exited"}
    /\ call \in {"idle", "fetch", "request", "failed", "done"}
    /\ pc \in {"config", "signer"} => call = "idle"

\* Uploads are numbered upwards, and everything else is a number of one of them.
Numbered ==
    /\ FilesKnown /\ DOMAIN tokens = {"addr", "generation"}
    /\ bucket.generation \in Nat \ {0}
    /\ oldest \in 0 .. bucket.generation /\ served \in 0 .. bucket.generation
    /\ tokens.generation \in 0 .. bucket.generation
    /\ copy.generation \in 0 .. bucket.generation

\* A copy is as new as it has to be when it is read, and stays so until it is
\* decided on; the set that is run was taken from such a copy.
Fresh ==
    /\ pc = "booting" /\ call = "done" => /\ copy.generation >= oldest
                                          /\ copy.generation >= served
    /\ pc \in Booted =>
          /\ RunningSetUnambiguous
          /\ tokens.generation >= oldest /\ tokens.generation >= served
          /\ copy.generation = 0 \/ copy.generation >= tokens.generation

\* A cached token that may still be used has the margin, less the age of the
\* answer it came in, left beyond that.
TokenFresh ==
    /\ token.left \in Nat /\ token.life \in Int
    /\ DOMAIN token = {"left", "life", "good"}
    /\ ~Fixed /\ token.left > 0 => token.life >= token.left + Margin - Timeout
    /\ TokenOutlivesRequest

StartInv == Phases /\ Numbered /\ Fresh /\ TokenFresh

-----------------------------------------------------------------------------
(* Kinds of steps.                                                          *)

\* A step of the client takes a read one step on.
LEMMA CallMoves ==
    ASSUME NEW d \in Durations, CallStep(d)
    PROVE  /\ call \in {"fetch", "request"}
           /\ call = "fetch" => call' \in {"request", "failed"}
           /\ call = "request" => call' \in {"done", "failed"}
BY DEF CallStep, FetchToken, RequestAnswered, RequestDenied, CallFails

\* The steps of the specification, as one list.
LEMMA Steps ==
    ASSUME [Next]_vars
    PROVE  \/ ReadConfig \/ BootRead \/ BootRetries \/ TakeCopy
           \/ \E d \in Durations : BootCall(d)
           \/ ChooseSigner \/ SignerFails \/ Listen
           \/ TickerFires \/ LoopRead \/ Decide
           \/ \E d \in Durations : LoopCall(d)
           \/ UploadStep \/ RevokeStep \/ Crash \/ Restart
           \/ UNCHANGED vars
BY DEF Next, MainStep, LoopStep

LEMMA PhasesNext == Phases /\ [Next]_vars => Phases'
<1> SUFFICES ASSUME Phases, [Next]_vars PROVE Phases'
    OBVIOUS
<1> USE DEF Phases, Booted
<1>1. CASE ReadConfig
    BY <1>1 DEF ReadConfig, Goto, Exit, bucketVars
<1>2. CASE BootRead
    BY <1>2 DEF BootRead, StartRead, mainVars
<1>3. CASE BootRetries
    BY <1>3 DEF BootRetries, Exit
<1>4. CASE TakeCopy
    BY <1>4 DEF TakeCopy, Goto, Exit
<1>5. CASE \E d \in Durations : BootCall(d)
    BY <1>5, CallMoves DEF BootCall
<1>6. CASE ChooseSigner
    BY <1>6 DEF ChooseSigner, Exit, bucketVars
<1>7. CASE SignerFails
    BY <1>7 DEF SignerFails, Exit
<1>8. CASE Listen
    BY <1>8 DEF Listen, Exit
<1>9. CASE TickerFires
    BY <1>9 DEF TickerFires, Loop
<1>10. CASE LoopRead
    BY <1>10 DEF LoopRead, Loop
<1>11. CASE Decide
    BY <1>11 DEF Decide, Loop, bucketVars
<1>12. CASE \E d \in Durations : LoopCall(d)
    BY <1>12, CallMoves DEF LoopCall, Loop
<1>13. CASE UploadStep
    BY <1>13 DEF UploadStep, bucketVars, mainVars
<1>14. CASE RevokeStep
    BY <1>14 DEF RevokeStep, Revoke, mainVars
<1>15. CASE Crash
    BY <1>15 DEF Crash, Exit
<1>16. CASE Restart
    BY <1>16, StartupAssumption DEF Restart
<1>17. CASE UNCHANGED vars
    BY <1>17 DEF vars, bucketVars, mainVars
<1> QED BY <1>1, <1>2, <1>3, <1>4, <1>5, <1>6, <1>7, <1>8, <1>9, <1>10, <1>11, <1>12,
           <1>13, <1>14, <1>15, <1>16, <1>17, Steps

-----------------------------------------------------------------------------
(* The running set.                                                         *)

LEMMA SetsNext == Phases /\ Numbered /\ Fresh /\ [Next]_vars => Numbered' /\ Fresh'
<1> SUFFICES ASSUME Phases, Numbered, Fresh, [Next]_vars PROVE Numbered' /\ Fresh'
    OBVIOUS
<1>0. /\ Phases'
      /\ bucket.generation \in Nat /\ oldest \in Nat /\ served \in Nat
      /\ tokens.generation \in Nat /\ copy.generation \in Nat
    BY PhasesNext DEF Numbered
\* What a step may leave alone.
<1>1. ASSUME UNCHANGED <<tokens, bucket, copy, oldest, served>>,
             pc' \in Booted => pc \in Booted,
             pc' = "booting" => call' # "done" \/ (pc = "booting" /\ call = "done")
      PROVE  Numbered' /\ Fresh'
    <2>1. Numbered'
        BY <1>1 DEF Numbered, FilesKnown
    <2>2. RunningSetUnambiguous => RunningSetUnambiguous'
        BY <1>1 DEF RunningSetUnambiguous
    <2> QED BY <1>1, <2>1, <2>2 DEF Fresh
<1>2. CASE ReadConfig
    BY <1>1, <1>2 DEF ReadConfig, Goto, Exit, Phases, Booted, RegistryIdle, registryVars,
                      reloadVars, bucketVars
<1>3. CASE BootRead
    BY <1>1, <1>3 DEF BootRead, StartRead, Booted, RegistryIdle, registryVars, reloadVars, mainVars
<1>4. CASE BootRetries
    BY <1>1, <1>4 DEF BootRetries, Exit, Booted, RegistryIdle, registryVars, reloadVars
<1>5. CASE TakeCopy
    <2>1. /\ pc = "booting" /\ call = "done" /\ copy' = NoCopy
          /\ UNCHANGED <<bucket, oldest, served>>
        BY <1>5 DEF TakeCopy, Goto, Exit
    <2>2. copy'.generation = 0 /\ copy'.file = BootFile
        BY <2>1 DEF NoCopy
    <2>3. CASE Valid(copy.file)
        <3>1. /\ tokens' = [addr |-> copy.file.rows, generation |-> copy.generation]
              /\ pc' = "signer"
            BY <1>5, <2>3 DEF TakeCopy, Goto
        <3>2. copy.file \in Files \cup {BootFile}
            BY DEF Numbered, FilesKnown
        <3>3. RunningSetUnambiguous'
            BY <2>3, <3>1, <3>2, ValidRows DEF RunningSetUnambiguous
        <3>4. Numbered'
            BY <2>1, <2>2, <3>1 DEF Numbered, FilesKnown
        <3> QED BY <1>0, <2>1, <2>2, <3>1, <3>3, <3>4 DEF Fresh
    <2>4. CASE ~Valid(copy.file)
        <3>1. tokens' = tokens /\ pc' = "exited"
            BY <1>5, <2>4 DEF TakeCopy, Exit
        <3>2. Numbered'
            BY <2>1, <2>2, <3>1 DEF Numbered, FilesKnown
        <3> QED BY <3>1, <3>2 DEF Fresh, Booted
    <2> QED BY <2>3, <2>4
<1>6. CASE \E d \in Durations : BootCall(d)
    <2>1. /\ pc = "booting" /\ pc' = "booting" /\ UNCHANGED <<bucket, tokens, oldest, served>>
          /\ IF call' = "done" THEN copy' = bucket ELSE copy' = copy
        BY <1>6 DEF BootCall
    <2>2. Numbered'
        BY <2>1 DEF Numbered, FilesKnown
    <2> QED BY <1>0, <2>1, <2>2 DEF Fresh, Booted, Numbered
<1>7. CASE ChooseSigner
    BY <1>1, <1>7 DEF ChooseSigner, Exit, Booted, reloadVars, bucketVars
<1>8. CASE SignerFails
    BY <1>1, <1>8 DEF SignerFails, Exit, Booted, RegistryIdle, registryVars, reloadVars
<1>9. CASE Listen
    <2>1. UNCHANGED <<tokens, bucket, copy, oldest>> /\ pc = "bind"
          /\ pc' \in {"listening", "exited"}
          /\ served' \in {served, tokens.generation}
        BY <1>9 DEF Listen, Later, Exit, RegistryIdle, registryVars, reloadVars
    <2>2. Numbered'
        BY <2>1 DEF Numbered, FilesKnown
    <2>3. RunningSetUnambiguous => RunningSetUnambiguous'
        BY <2>1 DEF RunningSetUnambiguous
    <2> QED BY <1>0, <2>1, <2>2, <2>3 DEF Fresh, Booted
<1>10. CASE TickerFires
    BY <1>1, <1>10 DEF TickerFires, Loop, Booted, reloadVars
<1>11. CASE LoopRead
    BY <1>1, <1>11 DEF LoopRead, Loop, Booted, reloadVars
<1>12. CASE Decide
    <2>1. /\ pc \in {"bind", "listening"} /\ pc' = pc /\ oldest' = oldest /\ bucket' = bucket
          /\ served' \in {served, tokens'.generation}
        BY <1>12 DEF Decide, Later, Loop, RejectCopy, KeepRows, ReplaceTokens, SendAssets, ForgetRetired
    <2>2. \/ tokens' = tokens /\ copy' \in {copy, NoCopy}
          \/ /\ tokens'.addr = tokens.addr /\ tokens'.generation = copy.generation
             /\ DOMAIN tokens' = DOMAIN tokens /\ copy' = NoCopy /\ copy.generation # 0
          \/ /\ tokens'.addr = copy.file.rows /\ tokens'.generation = copy.generation
             /\ DOMAIN tokens' = {"addr", "generation"} /\ Valid(copy.file)
             /\ copy' = NoCopy /\ copy.generation # 0
        BY <1>12 DEF Decide, RejectCopy, KeepRows, ReplaceTokens, SendAssets, ForgetRetired,
                     Numbered
    <2>3. NoCopy.generation = 0 /\ NoCopy.file = BootFile
        BY DEF NoCopy
    <2>4. RunningSetUnambiguous'
        <3>1. copy.file \in Files \cup {BootFile} /\ RunningSetUnambiguous
            BY <2>1 DEF Numbered, FilesKnown, Fresh, Booted
        <3>2. CASE tokens'.addr = tokens.addr
            BY <3>1, <3>2 DEF RunningSetUnambiguous
        <3>3. CASE tokens'.addr = copy.file.rows /\ Valid(copy.file)
            BY <3>1, <3>3, ValidRows DEF RunningSetUnambiguous
        <3> QED BY <2>2, <3>2, <3>3
    <2>5. Numbered'
        BY <2>1, <2>2, <2>3 DEF Numbered, FilesKnown
    <2> QED BY <1>0, <2>1, <2>2, <2>3, <2>4, <2>5 DEF Fresh, Booted, Numbered
<1>13. CASE \E d \in Durations : LoopCall(d)
    <2>1. /\ pc \in {"bind", "listening"} /\ pc' = pc
          /\ UNCHANGED <<tokens, bucket, oldest, served>> /\ copy' \in {copy, bucket}
        BY <1>13 DEF LoopCall, Loop, Poll, reloadVars
    <2>2. Numbered'
        BY <2>1 DEF Numbered, FilesKnown
    <2>3. RunningSetUnambiguous => RunningSetUnambiguous'
        BY <2>1 DEF RunningSetUnambiguous
    <2> QED BY <1>0, <2>1, <2>2, <2>3 DEF Fresh, Booted, Numbered
<1>14. CASE UploadStep
    <2>1. PICK file \in Files : bucket' = [file |-> file, generation |-> bucket.generation + 1]
        BY <1>14 DEF UploadStep, Upload
    <2>2. UNCHANGED <<tokens, copy, oldest, served, pc, call>>
        BY <1>14 DEF UploadStep, Upload, bucketVars, mainVars
    <2>3. Numbered'
        BY <2>1, <2>2 DEF Numbered, FilesKnown
    <2>4. RunningSetUnambiguous => RunningSetUnambiguous'
        BY <2>2 DEF RunningSetUnambiguous
    <2> QED BY <2>2, <2>3, <2>4 DEF Fresh
<1>15. CASE RevokeStep
    BY <1>1, <1>15 DEF RevokeStep, Revoke, Booted, RegistryIdle, registryVars, reloadVars, mainVars
<1>16. CASE Crash
    BY <1>1, <1>16 DEF Crash, Exit, Booted, RegistryIdle, registryVars, reloadVars
<1>17. CASE Restart
    <2>1. /\ tokens' = NoSet /\ copy' = NoCopy /\ oldest' = bucket.generation /\ pc' = "config"
          /\ UNCHANGED <<served, bucket>>
        BY <1>17 DEF Restart
    <2>2. Numbered'
        BY <2>1 DEF Numbered, FilesKnown, NoSet, NoCopy
    <2> QED BY <2>1, <2>2 DEF Fresh, Booted
<1>18. CASE UNCHANGED vars
    BY <1>1, <1>18 DEF vars, registryVars, reloadVars, bucketVars, mainVars
<1> QED BY <1>2, <1>3, <1>4, <1>5, <1>6, <1>7, <1>8, <1>9, <1>10, <1>11, <1>12, <1>13,
           <1>14, <1>15, <1>16, <1>17, <1>18, Steps

-----------------------------------------------------------------------------
(* The access token.                                                        *)

\* What TokenFresh says of a token t, but for a request under way.
Usable(t) ==
    /\ t.left \in Nat /\ t.life \in Int
    /\ DOMAIN t = {"left", "life", "good"}
    /\ ~Fixed /\ t.left > 0 => t.life >= t.left + Margin - Timeout

LEMMA UsableTokens == Usable(FirstToken) /\ Usable(NoToken)
BY DEF Usable, FirstToken, GivenToken, NoToken

LEMMA AgedUsable ==
    ASSUME NEW t, Usable(t), NEW d \in Nat
    PROVE  Usable(Aged(t, d))
<1>1. /\ Aged(t, d).left = Monus(t.left, d) /\ Aged(t, d).life = Monus(t.life, d)
      /\ DOMAIN Aged(t, d) = DOMAIN t
    BY DEF Aged, Usable
<1>2. Monus(t.left, d) \in Nat /\ Monus(t.life, d) \in Int
    BY DEF Monus, Usable
<1>3. ASSUME ~Fixed, Monus(t.left, d) > 0
      PROVE  Monus(t.life, d) >= Monus(t.left, d) + Margin - Timeout
    <2>1. t.left > d /\ Monus(t.left, d) = t.left - d
        BY <1>3 DEF Monus, Usable
    <2>2. t.life >= t.left + Margin - Timeout
        BY <1>3, <2>1 DEF Usable
    <2>3. Monus(t.life, d) = t.life - d
        BY <2>1, <2>2, BucketAssumption DEF Monus, Usable
    <2> QED BY <2>1, <2>2, <2>3, BucketAssumption DEF Usable
<1> QED BY <1>1, <1>2, <1>3 DEF Usable

\* A token that is used while it may be used outlives a request.
LEMMA UsableOutlives ==
    ASSUME NEW t, Usable(t), ~Fixed, t.left > 0
    PROVE  t.life > Timeout
BY BucketAssumption DEF Usable

\* A token that was just fetched is usable, and outlives a request.
LEMMA FetchedUsable ==
    ASSUME NEW life \in Lives, NEW d \in Durations
    PROVE  /\ Usable([left |-> UsableFor(life), life |-> life - d, good |-> TRUE])
           /\ life - d > Timeout
<1>1. life \in Nat /\ life > 2 * Timeout /\ d \in 0 .. Timeout
    BY BucketAssumption DEF Durations
<1>2. UsableFor(life) \in Nat /\ (UsableFor(life) > 0 => UsableFor(life) = life - Margin)
    BY <1>1, BucketAssumption DEF UsableFor, Monus
<1> QED BY <1>1, <1>2, BucketAssumption DEF Usable

LEMMA FreshIsUsable == TokenFresh <=> Usable(token) /\ TokenOutlivesRequest
BY DEF TokenFresh, Usable

\* The next token is usable, and either no request is under way or it is
\* longer-lived than one.
LEMMA FreshAfter ==
    ASSUME Usable(token'), call' = "request" /\ ~Fixed => token'.life > Timeout
    PROVE  TokenFresh'
BY DEF Usable, TokenFresh, TokenOutlivesRequest

LEMMA CallStepFresh ==
    ASSUME TokenFresh, NEW d \in Durations, CallStep(d)
    PROVE  TokenFresh'
<1>1. d \in Nat /\ Usable(token)
    BY FreshIsUsable, BucketAssumption DEF Durations
<1>2. ASSUME NEW life \in Lives, FetchToken(life, d) PROVE TokenFresh'
    <2>1. token' = [left |-> UsableFor(life), life |-> life - d, good |-> TRUE]
        BY <1>2 DEF FetchToken
    <2>2. token'.life = life - d
        BY <2>1
    <2> QED BY <2>1, <2>2, FetchedUsable, FreshAfter
<1>3. CASE RequestAnswered(d) \/ CallFails(d)
    BY <1>1, <1>3, AgedUsable, FreshAfter DEF RequestAnswered, CallFails
<1>4. CASE RequestDenied(d)
    BY <1>1, <1>4, UsableTokens, FreshAfter DEF RequestDenied
<1> QED BY <1>2, <1>3, <1>4 DEF CallStep

\* A read begins with a cached token that may still be used, or fetches one.
LEMMA BeginFresh ==
    ASSUME Usable(token'),
           call' = IF Fixed \/ token'.left > 0 THEN "request" ELSE "fetch"
    PROVE  TokenFresh'
<1>1. call' = "request" /\ ~Fixed => token'.left > 0
    OBVIOUS
<1>2. call' = "request" /\ ~Fixed => token'.life > Timeout
    BY <1>1, UsableOutlives
<1> QED BY <1>2, FreshAfter

LEMMA TokenNext == Phases /\ TokenFresh /\ [Next]_vars => TokenFresh'
<1> SUFFICES ASSUME Phases, TokenFresh, [Next]_vars PROVE TokenFresh'
    OBVIOUS
<1>0. Usable(token)
    BY FreshIsUsable
<1>1. ASSUME UNCHANGED <<token, call>> PROVE TokenFresh'
    BY <1>1 DEF TokenFresh, TokenOutlivesRequest
<1>2. ASSUME token' = token, call' = "idle" PROVE TokenFresh'
    BY <1>0, <1>2, FreshAfter
<1>3. CASE BootRead
    <2>1. token' = token /\ call' = IF Fixed \/ token'.left > 0 THEN "request" ELSE "fetch"
        BY <1>3 DEF BootRead, StartRead
    <2> QED BY <1>0, <2>1, BeginFresh
<1>4. CASE BootRetries
    <2>1. call' = "idle" /\ (token' = token \/ token' = Aged(token, backoff))
        BY <1>4 DEF BootRetries, Idles
    <2>2. Usable(token')
        BY <1>0, <2>1, AgedUsable DEF Phases
    <2> QED BY <2>1, <2>2, FreshAfter
<1>5. CASE TakeCopy \/ LoopRead
    BY <1>2, <1>5 DEF TakeCopy, LoopRead
<1>6. CASE \E d \in Durations : BootCall(d) \/ LoopCall(d)
    BY <1>6, CallStepFresh DEF BootCall, LoopCall
<1>7. CASE TickerFires
    <2>1. PICK d \in {0, Refresh} :
             /\ token' = Aged(token, d)
             /\ call' = IF Fixed \/ token'.left > 0 THEN "request" ELSE "fetch"
        BY <1>7 DEF TickerFires
    <2>2. Usable(token')
        BY <1>0, <2>1, AgedUsable, StartupAssumption
    <2> QED BY <2>1, <2>2, BeginFresh
<1>8. CASE ReadConfig \/ ChooseSigner \/ SignerFails \/ Listen \/ Decide \/ UploadStep \/ Crash
           \/ UNCHANGED vars
    BY <1>1, <1>8 DEF ReadConfig, ChooseSigner, SignerFails, Listen, Decide, UploadStep, Crash,
                      vars, bucketVars
<1>9. CASE RevokeStep
    <2>1. call' = call /\ token' = [token EXCEPT !.good = FALSE]
        BY <1>9 DEF RevokeStep, Revoke
    <2>2. token'.left = token.left /\ token'.life = token.life /\ DOMAIN token' = DOMAIN token
        BY <1>0, <2>1 DEF Usable
    <2> QED BY <2>1, <2>2 DEF TokenFresh, TokenOutlivesRequest
<1>10. CASE Restart
    BY <1>10, UsableTokens, FreshAfter DEF Restart
<1> QED BY <1>3, <1>4, <1>5, <1>6, <1>7, <1>8, <1>9, <1>10, Steps

-----------------------------------------------------------------------------
(* The time boot takes.                                                     *)

\* What the provers do not know of powers of two.
PowersDouble == \A n \in 0 .. Attempts : 2^n \in Nat \ {0} /\ 2^(n + 1) = 2 * 2^n

\* The requests of one read take at most this, once it is where it is.
Spent(c) == IF c \in {"failed", "done"} THEN 2 * Timeout
            ELSE IF c = "request" THEN Timeout ELSE 0

\* Boot has taken two requests for each read before this one, the waits between
\* them, which add up to the next wait less the first, and this one's requests.
\* The doublings that are left bring the next wait to the longest one.
BootTime ==
    pc \in {"config", "booting"} =>
       /\ attempt \in 1 .. Attempts /\ elapsed \in Nat
       /\ elapsed <= (attempt - 1) * (2 * Timeout) + Spent(call) + (backoff - FirstBackoff)
       /\ backoff * 2^(Attempts - attempt) = FirstBackoff * 2^(Attempts - 1)

LEMMA BootRetriesTime ==
    ASSUME PowersDouble, Phases, BootTime, BootRetries
    PROVE  BootTime'
<1> USE StartupAssumption, BucketAssumption
<1>1. /\ pc = "booting" /\ call = "failed" /\ call' = "idle"
      /\ attempt \in 1 .. Attempts /\ elapsed \in Nat /\ backoff \in Nat
      /\ elapsed <= (attempt - 1) * (2 * Timeout) + Spent(call) + (backoff - FirstBackoff)
      /\ backoff * 2^(Attempts - attempt) = FirstBackoff * 2^(Attempts - 1)
    BY DEF BootRetries, BootTime, Phases
<1>2. CASE MayRetry
    <2>1. /\ attempt < Attempts /\ attempt' = attempt + 1 /\ backoff' = 2 * backoff
          /\ elapsed' = elapsed + backoff
        BY <1>2 DEF BootRetries, MayRetry
    <2> DEFINE n == Attempts - (attempt + 1)
    <2>2. n \in 0 .. Attempts /\ n + 1 = Attempts - attempt
        BY <1>1, <2>1
    <2>3. 2^n \in Nat /\ 2^(n + 1) = 2 * 2^n
        BY <2>2 DEF PowersDouble
    <2>4. backoff * 2^(n + 1) = FirstBackoff * 2^(Attempts - 1)
        BY <1>1, <2>2
    <2> HIDE DEF n
    <2>5. backoff' * 2^n = FirstBackoff * 2^(Attempts - 1)
        <3> DEFINE p == 2^n
                   q == FirstBackoff * 2^(Attempts - 1)
        <3>1. p \in Nat /\ backoff * (2 * p) = q
            BY <2>3, <2>4
        <3> HIDE DEF p, q
        <3>2. (2 * backoff) * p = backoff * (2 * p)
            BY <1>1, <3>1
        <3>3. (2 * backoff) * p = q
            BY <3>1, <3>2
        <3> QED BY <2>1, <3>3 DEF p, q
    <2>6. elapsed' <= (attempt' - 1) * (2 * Timeout) + 0 + (backoff' - FirstBackoff)
        <3>1. Spent(call) = 2 * Timeout
            BY <1>1 DEF Spent
        <3>2. (attempt' - 1) * (2 * Timeout) = (attempt - 1) * (2 * Timeout) + 2 * Timeout
            BY <1>1, <2>1
        <3> DEFINE m == (attempt - 1) * (2 * Timeout)
        <3>3. m \in Int
            BY <1>1
        <3>4. elapsed <= m + 2 * Timeout + (backoff - FirstBackoff)
            BY <1>1, <3>1
        <3> HIDE DEF m
        <3>5. elapsed + backoff <= (m + 2 * Timeout) + 0 + (2 * backoff - FirstBackoff)
            BY <1>1, <3>3, <3>4
        <3> QED BY <2>1, <3>2, <3>5 DEF m
    <2>7. Spent(call') = 0
        BY <1>1 DEF Spent
    <2>8. n = Attempts - attempt'
        BY <2>1 DEF n
    <2>9. attempt' \in 1 .. Attempts /\ elapsed' \in Nat /\ backoff' \in Nat
        BY <1>1, <2>1
    <2>10. elapsed' <= (attempt' - 1) * (2 * Timeout) + Spent(call') + (backoff' - FirstBackoff)
        BY <2>6, <2>7
    <2>11. backoff' * 2^(Attempts - attempt') = FirstBackoff * 2^(Attempts - 1)
        BY <2>5, <2>8
    <2> HIDE DEF Spent
    <2> QED BY <2>9, <2>10, <2>11 DEF BootTime, Spent
<1>3. CASE ~MayRetry
    BY <1>3 DEF BootRetries, Exit, BootTime
<1> QED BY <1>2, <1>3

LEMMA BootTimeNext ==
    ASSUME PowersDouble, Phases, BootTime, [Next]_vars
    PROVE  BootTime'
<1> USE StartupAssumption, BucketAssumption
\* The read moves on within its two requests.
<1>1. ASSUME pc \in {"config", "booting"}, pc' \in {"config", "booting"},
             UNCHANGED <<attempt, backoff>>, NEW d \in Nat, elapsed' = elapsed + d,
             Spent(call) + d <= Spent(call')
      PROVE  BootTime'
    <2> DEFINE m == (attempt - 1) * (2 * Timeout)
    <2>1. /\ attempt \in 1 .. Attempts /\ elapsed \in Nat /\ backoff \in Nat
          /\ elapsed <= m + Spent(call) + (backoff - FirstBackoff)
          /\ backoff * 2^(Attempts - attempt) = FirstBackoff * 2^(Attempts - 1)
        BY <1>1 DEF BootTime, Phases
    <2>2. m \in Int /\ Spent(call) \in Int /\ Spent(call') \in Int
        BY <2>1 DEF Spent
    <2> HIDE DEF m
    <2>3. elapsed' \in Nat /\ elapsed' <= m + Spent(call') + (backoff - FirstBackoff)
        BY <1>1, <2>1, <2>2
    <2> QED BY <1>1, <2>1, <2>3 DEF BootTime, m, Spent
<1>2. ASSUME pc' \notin {"config", "booting"} PROVE BootTime'
    BY <1>2 DEF BootTime
<1>3. ASSUME UNCHANGED <<pc, call, attempt, backoff, elapsed>> PROVE BootTime'
    BY <1>3 DEF BootTime, Spent
<1>4. CASE ReadConfig
    <2>1. CASE setup.registry
        <3>1. /\ pc = "config" /\ pc' = "booting" /\ UNCHANGED <<attempt, backoff, elapsed, call>>
            BY <1>4, <2>1 DEF ReadConfig, Goto, bucketVars
        <3>2. elapsed' = elapsed + 0 /\ Spent(call) + 0 <= Spent(call')
            BY <3>1 DEF BootTime, Spent
        <3> QED BY <1>1, <3>1, <3>2
    <2>2. CASE ~setup.registry
        BY <1>2, <1>4, <2>2 DEF ReadConfig, Exit
    <2> QED BY <2>1, <2>2
<1>5. CASE BootRead
    <2>1. /\ pc = "booting" /\ pc' = "booting" /\ UNCHANGED <<attempt, backoff, elapsed>>
          /\ call = "idle" /\ call' \in {"request", "fetch"}
        BY <1>5 DEF BootRead, StartRead, mainVars
    <2>2. elapsed' = elapsed + 0 /\ Spent(call) + 0 <= Spent(call')
        BY <2>1 DEF BootTime, Spent
    <2> QED BY <1>1, <2>1, <2>2
<1>6. CASE \E d \in Durations : BootCall(d)
    <2>1. PICK d \in Durations : BootCall(d)
        BY <1>6
    <2>2. /\ pc = "booting" /\ pc' = "booting" /\ UNCHANGED <<attempt, backoff>>
          /\ elapsed' = elapsed + d /\ CallStep(d)
        BY <2>1 DEF BootCall
    <2>3. d \in Nat /\ d <= Timeout
        BY DEF Durations
    <2>4. Spent(call) + d <= Spent(call')
        BY <2>2, <2>3, CallMoves DEF Spent
    <2> QED BY <1>1, <2>2, <2>3, <2>4
<1>7. CASE TakeCopy \/ ChooseSigner \/ SignerFails \/ Listen \/ Crash
    BY <1>2, <1>7 DEF TakeCopy, ChooseSigner, SignerFails, Listen, Crash, Goto, Exit
<1>8. CASE TickerFires \/ LoopRead \/ Decide \/ \E d \in Durations : LoopCall(d)
    BY <1>2, <1>8 DEF TickerFires, LoopRead, Decide, LoopCall, Loop
<1>9. CASE UploadStep \/ RevokeStep \/ UNCHANGED vars
    BY <1>3, <1>9 DEF UploadStep, RevokeStep, Revoke, vars, bucketVars, mainVars
<1>10. CASE Restart
    <2>1. /\ pc' = "config" /\ attempt' = 1 /\ backoff' = FirstBackoff /\ elapsed' = 0
          /\ call' = "idle"
        BY <1>10 DEF Restart
    <2> QED BY <2>1 DEF BootTime, Spent
<1> QED BY <1>4, <1>5, <1>6, <1>7, <1>8, <1>9, <1>10, BootRetriesTime, Steps

LEMMA BootTimeBounds ==
    ASSUME PowersDouble, Phases, BootTime
    PROVE  BootBounded
<1> SUFFICES ASSUME pc = "booting"
             PROVE  elapsed <= Attempts * 2 * Timeout + FirstBackoff * (2^(Attempts - 1) - 1)
    BY DEF BootBounded
<1> USE StartupAssumption, BucketAssumption
<1> DEFINE m == (attempt - 1) * (2 * Timeout)
           p == 2^(Attempts - attempt)
           q == 2^(Attempts - 1)
<1>1. /\ attempt \in 1 .. Attempts /\ elapsed \in Nat /\ backoff \in Nat
      /\ elapsed <= m + Spent(call) + (backoff - FirstBackoff)
      /\ backoff * p = FirstBackoff * q
    BY DEF BootTime, Phases
<1>2. Attempts - attempt \in 0 .. Attempts /\ Attempts - 1 \in 0 .. Attempts
    BY <1>1
<1>3. p \in Nat \ {0} /\ q \in Nat \ {0}
    BY <1>2 DEF PowersDouble
<1>4. Spent(call) <= 2 * Timeout /\ Spent(call) \in Int
    BY DEF Spent
<1>5. m + 2 * Timeout <= Attempts * 2 * Timeout /\ m \in Int
    <2>1. m + 2 * Timeout = attempt * (2 * Timeout) /\ m \in Int
        BY <1>1
    <2>2. attempt * (2 * Timeout) <= Attempts * (2 * Timeout)
        BY <1>1
    <2>3. Attempts * (2 * Timeout) = Attempts * 2 * Timeout
        OBVIOUS
    <2> QED BY <1>1, <2>1, <2>2, <2>3
<1> HIDE DEF m, p, q
<1>6. backoff <= backoff * p
    BY <1>1, <1>3
<1>7. FirstBackoff * (q - 1) = FirstBackoff * q - FirstBackoff
    BY <1>3
<1> DEFINE w == FirstBackoff * q
           u == Attempts * 2 * Timeout
<1>8. w \in Int /\ u \in Int
    BY <1>3
<1>9. backoff <= w /\ m + 2 * Timeout <= u
    BY <1>1, <1>5, <1>6
<1> HIDE DEF w, u
<1>10. elapsed <= u + (w - FirstBackoff)
    BY <1>1, <1>4, <1>5, <1>8, <1>9
<1> QED BY <1>7, <1>10 DEF q, w, u

-----------------------------------------------------------------------------
LEMMA StartInit == Init => StartInv /\ BootTime
<1> SUFFICES ASSUME Init PROVE StartInv /\ BootTime
    OBVIOUS
<1> USE StartupAssumption DEF Init, Process
<1>1. Phases
    BY DEF Phases, Booted, BucketInit
<1>2. Numbered
    BY DEF Numbered, FilesKnown, NoSet, NoCopy
<1>3. Fresh
    BY DEF Fresh, Booted
<1>4. TokenFresh
    <2>1. token = FirstToken /\ call = "idle"
        BY DEF BucketInit
    <2> QED BY <2>1, UsableTokens, FreshIsUsable DEF TokenOutlivesRequest
<1>5. BootTime
    <2>1. attempt = 1 /\ elapsed = 0 /\ backoff = FirstBackoff /\ call = "idle"
        BY DEF BucketInit
    <2> QED BY <2>1, BucketAssumption DEF BootTime, Spent
<1> QED BY <1>1, <1>2, <1>3, <1>4, <1>5 DEF StartInv

LEMMA StartAlways == Spec => []StartInv
<1>1. Init => StartInv
    BY StartInit
<1>2. StartInv /\ [Next]_vars => StartInv'
    BY PhasesNext, SetsNext, TokenNext DEF StartInv
<1> QED BY <1>1, <1>2, PTL DEF Spec

\* Whatever is uploaded, however often the process crashes and is restarted, one
\* that listens serves a validated set that is no older than the latest copy at
\* its start, nor than the latest that it or any process before it has served.
THEOREM CheckedCopyServed == Spec => []ServesCheckedCopy
<1>1. StartInv => ServesCheckedCopy
    BY DEF StartInv, Fresh, Booted, ServesCheckedCopy
<1> QED BY <1>1, StartAlways, PTL

\* An access token that is sent outlives its request, for any lifetimes of tokens
\* and any margin above two request timeouts.
THEOREM TokenOutlives == Spec => []TokenOutlivesRequest
<1>1. StartInv => TokenOutlivesRequest
    BY DEF StartInv, TokenFresh
<1> QED BY <1>1, StartAlways, PTL

\* Boot ends within its attempts, two request timeouts each, and the doubling
\* waits between them, for any number of attempts and any first wait.
THEOREM BootIsBounded ==
    ASSUME PowersDouble
    PROVE  Spec => []BootBounded
<1>1. Init => BootTime
    BY StartInit
<1>2. StartInv /\ BootTime /\ [Next]_vars => BootTime'
    BY BootTimeNext DEF StartInv
<1>3. StartInv /\ BootTime => BootBounded
    BY BootTimeBounds DEF StartInv
<1> QED BY <1>1, <1>2, <1>3, StartAlways, PTL DEF Spec
=============================================================================
