----------------------------- MODULE OracleServer -----------------------------
(***************************************************************************)
(* The request handlers of lib.rs (post_signed_context_v1 and              *)
(* post_signed_context_pair_bound for v4 to v7) over the quote cache, the  *)
(* running token set and the reuse cache.  Handlers, the websocket task    *)
(* and the reload loop run concurrently.                                   *)
(*                                                                         *)
(* A handler goes through                                                  *)
(*    receive -> snapshot -> build -> recheck -> final -> revalidate       *)
(* and a slot of its batch, while building, through                        *)
(*    queued -> admitted -> [reusing | unsigned -> signing -> signed]      *)
(*           -> built -> served,                                           *)
(* failing on the way with the error code of the check that refused it.    *)
(* Signing is abstract here: it takes some time and ends or fails.         *)
(***************************************************************************)
EXTENDS Reloader, ReuseCache, Sequences, FiniteSets

CONSTANTS ChainId,        \* the chain this deployment serves
          Handlers,       \* concurrent request handlers
          Bodies,         \* request bodies clients may post
          MaxConcurrent   \* MAX_CONCURRENT_SLOT_BUILDS

VARIABLES pc,      \* where each handler is
          body,    \* the request it serves
          slot,    \* its slots, one per request item
          snap,    \* the quotes snapshotted for the build
          recheck, \* the quotes snapshotted after the build
          final    \* what the final pass checks against: [set, at]

handlerVars == <<pc, body, slot, snap, recheck, final>>
vars == <<now, cacheVars, assets, reloadVars, reuse, handlerVars>>

ASSUME ServerAssumption ==
    /\ ChainId \in Chains
    /\ MaxConcurrent \in Nat \ {0}
    /\ MinRemaining \in Nat
    /\ QuoteToken \notin Addresses
    /\ Valid(BootFile)
    /\ \A b \in Bodies : DOMAIN b.items \subseteq Nat \ {0}

NoBody == [schema |-> "v5", form |-> "malformed", allowFailure |-> FALSE,
           items |-> <<>>]
NoQuotes == [s \in {} |-> 0]
NoFinal == [set |-> [addr |-> NoQuotes, generation |-> 0], at |-> 0]
NoPair == [symbol |-> "", token |-> QuoteToken, direction |-> ""]
NoResponse == [context |-> <<>>, base |-> QuoteToken, gen |-> 0, epoch |-> 0]

IsEnvelope(b) == b.allowFailure /\ b.form = "batch"

-----------------------------------------------------------------------------
(* Resolution (registry.rs: TokenRegistry::resolve).  An IO index outside   *)
(* the order is a bad request like an unknown token; an item then names a   *)
(* token that no registry knows.                                            *)

SymbolAt(addr, t) == {s \in DOMAIN addr : addr[s] = t}

Resolves(addr, item) ==
    \/ item.input = QuoteToken /\ SymbolAt(addr, item.output) # {}
    \/ item.output = QuoteToken /\ SymbolAt(addr, item.input) # {}

Pair(addr, item) ==
    LET dir == IF item.input = QuoteToken THEN QuoteToBase ELSE BaseToQuote
        tok == IF item.input = QuoteToken THEN item.output ELSE item.input
    IN  [symbol |-> CHOOSE s \in SymbolAt(addr, tok) : TRUE,
         token |-> tok, direction |-> dir]

Slot(item) ==
    [phase |-> "queued", err |-> "", input |-> item.input,
     output |-> item.output, pair |-> NoPair, resp |-> NoResponse,
     validity |-> 0]

Failed(s, code) == [s EXCEPT !.phase = "failed", !.err = code]

ResolveItem(addr, schema, item) ==
    IF ~Resolves(addr, item)
    THEN Failed(Slot(item), "bad_request")
    ELSE IF schema \in LegacySchemas
         THEN Failed(Slot(item), "legacy_schema")
         ELSE [Slot(item) EXCEPT !.pair = Pair(addr, item)]

\* Mutant: an item that does not resolve loses its place in the batch.
ResolveKnown(addr, b) ==
    LET known == SelectSeq(b.items, LAMBDA item : Resolves(addr, item))
    IN  [i \in DOMAIN known |-> ResolveItem(addr, b.schema, known[i])]

ResolveAll(addr, b) ==
    [i \in DOMAIN b.items |-> ResolveItem(addr, b.schema, b.items[i])]

\* A body that does not decode, or a strict batch with a failed item, is an
\* error; an empty batch and a legacy envelope reply without a snapshot.
Route(b, slots) ==
    IF \/ b.form = "malformed"
       \/ ~IsEnvelope(b) /\ \E i \in DOMAIN slots : slots[i].phase = "failed"
    THEN "error"
    ELSE IF slots = <<>> \/ b.schema \in LegacySchemas THEN "reply"
                                                       ELSE "snapshot"

Receive(r, b) ==
    /\ pc[r] = "idle"
    /\ LET slots == ResolveAll(tokens.addr, b)
       IN  /\ slot' = [slot EXCEPT ![r] = slots]
           /\ pc' = [pc EXCEPT ![r] = Route(b, slots)]
    /\ body' = [body EXCEPT ![r] = b]
    /\ UNCHANGED <<snap, recheck, final>>

-----------------------------------------------------------------------------
PairedSymbols(r, phases) ==
    {slot[r][i].pair.symbol : i \in {j \in DOMAIN slot[r] :
                                       slot[r][j].phase \in phases}}

\* LiveClient::snapshot_many, under one read lock.
SnapshotMany(S) ==
    [s \in {x \in S : <<ChainId, x>> \in DOMAIN quotes} |-> quotes[<<ChainId, s>>]]

Snapshot(r) ==
    /\ pc[r] = "snapshot"
    /\ snap' = [snap EXCEPT ![r] = SnapshotMany(PairedSymbols(r, {"queued"}))]
    /\ pc' = [pc EXCEPT ![r] = "build"]
    /\ UNCHANGED <<body, slot, recheck, final>>

-----------------------------------------------------------------------------
(* Building one slot: build_response_from_quote_pair_bound.                *)

InFlight == {"admitted", "reusing", "unsigned", "signing", "signed"}

\* Phases a slot leaves without awaiting: the handler's task is inside it.
Running == InFlight \ {"signing"}

\* The slots of one request are futures of one task.
TaskAt(r, i) == /\ pc[r] = "build"
                /\ \A j \in DOMAIN slot[r] \ {i} : slot[r][j].phase \notin Running

Entry(r, i)  == snap[r][slot[r][i].pair.symbol]
QuoteAt(r, i) == Entry(r, i).quote
IsLive(e) == e.gen \in live

ContextAt(r, i) ==
    LET s == slot[r][i]
    IN  Context(body[r].schema, QuoteAt(r, i), s.pair.direction,
                s.input, s.output, ChainId)

ReuseKey(r, i) ==
    LET s == slot[r][i]
    IN  [schema |-> body[r].schema, symbol |-> s.pair.symbol,
         direction |-> s.pair.direction, input |-> s.input,
         output |-> s.output]

\* Mutant: the quote's base address is not compared with the order's token.
PricedInQuoteToken(q, pair) == q.settle = QuoteToken

\* validate_quote_address
PricedFor(q, pair) == q.base = pair.token /\ q.settle = QuoteToken

Advance(r, i, s) ==
    /\ slot' = [slot EXCEPT ![r][i] = s]
    /\ UNCHANGED <<pc, body, snap, recheck, final>>

\* Mutant: in an envelope the error is dropped and the slot left as it was.
FailUnrecorded(r, i, code) ==
    /\ pc' = IF IsEnvelope(body[r]) THEN pc ELSE [pc EXCEPT ![r] = "error"]
    /\ UNCHANGED <<body, slot, snap, recheck, final>>

\* A failed slot fails alone in an envelope and the whole request otherwise.
Fail(r, i, code) ==
    /\ slot' = [slot EXCEPT ![r][i] = Failed(slot[r][i], code)]
    /\ pc' = IF IsEnvelope(body[r]) THEN pc ELSE [pc EXCEPT ![r] = "error"]
    /\ UNCHANGED <<body, snap, recheck, final>>

\* Mutant: the window used in strict mode too.
MayStartInWindow(r, i) ==
    /\ \A j \in 1 .. i - 1 : slot[r][j].phase # "queued"
    /\ Cardinality({j \in DOMAIN slot[r] : slot[r][j].phase \in InFlight})
         < MaxConcurrent

\* build_slots: sequential in strict mode; in an envelope a window that is
\* filled in request order and frees a place when any slot ends.
MayStart(r, i) ==
    IF IsEnvelope(body[r])
    THEN /\ \A j \in 1 .. i - 1 : slot[r][j].phase # "queued"
         /\ Cardinality({j \in DOMAIN slot[r] : slot[r][j].phase \in InFlight})
              < MaxConcurrent
    ELSE \A j \in 1 .. i - 1 : slot[r][j].phase = "built"

AdmissionVerdict(r, i) ==
    LET pair == slot[r][i].pair
        q == QuoteAt(r, i)
        schema == body[r].schema
    IN  IF pair.symbol \notin DOMAIN snap[r] THEN "no_live_quote"
        ELSE IF ~IsLive(Entry(r, i)) THEN "no_live_quote"
        ELSE IF ~PricedFor(q, pair) THEN "no_live_quote"
        ELSE IF ~Executable(q, now) THEN "expired_quote"
        ELSE IF ~FitsU64(PublishTime(q)) THEN "internal_error"
        ELSE IF SessionVerdict(q) # "ok" THEN SessionVerdict(q)
        ELSE IF ~RateUsable(schema, q, pair.direction) THEN "internal_error"
        ELSE IF ~(ExpiryAccepted(q) /\ NavPacks(schema, q)) THEN "internal_error"
        ELSE "ok"

Admit(r, i) ==
    /\ TaskAt(r, i)
    /\ slot[r][i].phase = "queued"
    /\ MayStart(r, i)
    /\ IF AdmissionVerdict(r, i) = "ok"
       THEN Advance(r, i, [slot[r][i] EXCEPT !.phase = "admitted"])
       ELSE Fail(r, i, AdmissionVerdict(r, i))
    /\ UNCHANGED reuse

LookupReuse(r, i) ==
    /\ TaskAt(r, i)
    /\ slot[r][i].phase = "admitted"
    /\ IF ~IsLive(Entry(r, i))
       THEN Fail(r, i, "no_live_quote")
       ELSE IF Reusable(ReuseKey(r, i), ContextAt(r, i), Entry(r, i).gen,
                        Seconds(now))
            THEN LET stored == reuse[ReuseKey(r, i)]
                 IN  Advance(r, i, [slot[r][i] EXCEPT
                                      !.phase = "reusing",
                                      !.resp = stored.resp,
                                      !.validity = stored.expiry * MsPerSecond])
            ELSE Advance(r, i, [slot[r][i] EXCEPT !.phase = "unsigned"])
    /\ UNCHANGED reuse

ReturnReused(r, i) ==
    /\ TaskAt(r, i)
    /\ slot[r][i].phase = "reusing"
    /\ IF ~IsLive(Entry(r, i))
       THEN Fail(r, i, "no_live_quote")
       ELSE IF ~QuoteIsLive(slot[r][i].validity, now, TRUE)
            THEN Fail(r, i, "expired_quote")
            ELSE Advance(r, i, [slot[r][i] EXCEPT !.phase = "built"])
    /\ UNCHANGED reuse

StartSign(r, i) ==
    /\ TaskAt(r, i)
    /\ slot[r][i].phase = "unsigned"
    /\ IF ~IsLive(Entry(r, i))
       THEN Fail(r, i, "no_live_quote")
       ELSE IF ~Executable(QuoteAt(r, i), now)
            THEN Fail(r, i, "expired_quote")
            ELSE Advance(r, i, [slot[r][i] EXCEPT !.phase = "signing"])
    /\ UNCHANGED reuse

\* The signer answers, and the post-sign checks run on the same poll.
FinishSign(r, i, ok) ==
    /\ TaskAt(r, i)
    /\ slot[r][i].phase = "signing"
    /\ IF ~ok THEN Fail(r, i, "internal_error")
       ELSE IF ~IsLive(Entry(r, i)) THEN Fail(r, i, "no_live_quote")
       ELSE IF ~Executable(QuoteAt(r, i), now) THEN Fail(r, i, "expired_quote")
       ELSE Advance(r, i,
              [slot[r][i] EXCEPT
                 !.phase = "signed",
                 !.resp = [context |-> ContextAt(r, i), base |-> QuoteAt(r, i).base,
                           gen |-> Entry(r, i).gen, epoch |-> Entry(r, i).epoch],
                 !.validity = EffectiveExpiry(QuoteAt(r, i))])
    /\ UNCHANGED reuse

Store(r, i) ==
    /\ TaskAt(r, i)
    /\ slot[r][i].phase = "signed"
    /\ StoreReuse(ReuseKey(r, i), slot[r][i].resp.context.expiry,
                  slot[r][i].resp, Entry(r, i).gen)
    /\ Advance(r, i, [slot[r][i] EXCEPT !.phase = "built"])

-----------------------------------------------------------------------------
BuildEnded(r) == \A i \in DOMAIN slot[r] : slot[r][i].phase \in {"built", "failed"}

\* The second snapshot, after the last slot of the build has ended.
Recheck(r) ==
    /\ pc[r] = "build"
    /\ BuildEnded(r)
    /\ recheck' = [recheck EXCEPT ![r] = SnapshotMany(PairedSymbols(r, {"built"}))]
    /\ pc' = [pc EXCEPT ![r] = "final"]
    /\ UNCHANGED <<body, slot, snap, final>>

\* The running token set and one common timestamp for the whole batch.
TakeFinal(r) ==
    /\ pc[r] = "final"
    /\ final' = [final EXCEPT ![r] = [set |-> tokens, at |-> now]]
    /\ pc' = [pc EXCEPT ![r] = "revalidate"]
    /\ UNCHANGED <<body, slot, snap, recheck>>

\* Mutant: the symbol is looked for, whatever token it stands for now.
SymbolStillListed(set, pair) == pair.symbol \in DOMAIN set.addr

StillMapped(set, pair) == pair.symbol \in SymbolAt(set.addr, pair.token)

\* Mutant: the bound of the current quote is not compared.
WithinAnyBound(validity, q) == TRUE

WithinBound(validity, q) == validity <= EffectiveExpiry(q)

\* Mutant: only the quote of the second snapshot is asked for its liveness.
VerdictOfCurrentQuote(r, i) ==
    LET s == slot[r][i]
        q == recheck[r][s.pair.symbol]
        at == final[r].at
    IN  IF /\ StillMapped(final[r].set, s.pair)
           /\ QuoteIsLive(s.validity, at, TRUE)
           /\ s.pair.symbol \in DOMAIN recheck[r]
           /\ IsLive(q)
           /\ PricedFor(q.quote, s.pair)
           /\ Executable(q.quote, at)
           /\ WithinBound(s.validity, q.quote)
        THEN "ok" ELSE "no_live_quote"

FinalVerdict(r, i) ==
    LET s == slot[r][i]
        pair == s.pair
        q == recheck[r][pair.symbol]
        at == final[r].at
    IN  IF ~StillMapped(final[r].set, pair) THEN "no_live_quote"
        ELSE IF ~IsLive(Entry(r, i)) THEN "no_live_quote"
        ELSE IF ~QuoteIsLive(s.validity, at, TRUE) THEN "expired_quote"
        ELSE IF pair.symbol \notin DOMAIN recheck[r] THEN "no_live_quote"
        ELSE IF ~IsLive(q) THEN "no_live_quote"
        ELSE IF ~PricedFor(q.quote, pair) THEN "no_live_quote"
        ELSE IF ~Executable(q.quote, at) THEN "expired_quote"
        ELSE IF ~WithinBound(s.validity, q.quote) THEN "expired_quote"
        ELSE "ok"

\* revalidate_batch judges the slots in request order.
Revalidate(r, i) ==
    /\ pc[r] = "revalidate"
    /\ slot[r][i].phase = "built"
    /\ \A j \in 1 .. i - 1 : slot[r][j].phase # "built"
    /\ IF FinalVerdict(r, i) = "ok"
       THEN Advance(r, i, [slot[r][i] EXCEPT !.phase = "served"])
       ELSE Fail(r, i, FinalVerdict(r, i))

\* finish: every slot judged, the reply is on its way.
Finish(r) ==
    /\ pc[r] = "revalidate"
    /\ \A i \in DOMAIN slot[r] : slot[r][i].phase # "built"
    /\ pc' = [pc EXCEPT ![r] = "reply"]
    /\ UNCHANGED <<body, slot, snap, recheck, final>>

Reset(r) ==
    /\ pc' = [pc EXCEPT ![r] = "idle"]
    /\ body' = [body EXCEPT ![r] = NoBody]
    /\ slot' = [slot EXCEPT ![r] = <<>>]
    /\ snap' = [snap EXCEPT ![r] = NoQuotes]
    /\ recheck' = [recheck EXCEPT ![r] = NoQuotes]
    /\ final' = [final EXCEPT ![r] = NoFinal]

Respond(r) == /\ pc[r] \in {"reply", "error"}
              /\ Reset(r)

\* The client goes away: the handler's future is dropped at an await, which
\* is a snapshot's read lock or the wait for a signature.
Disconnect(r) ==
    /\ \/ pc[r] = "snapshot"
       \/ /\ pc[r] = "build"
          /\ \A i \in DOMAIN slot[r] : slot[r][i].phase \notin Running
          /\ BuildEnded(r) \/ \E i \in DOMAIN slot[r] : slot[r][i].phase = "signing"
    /\ Reset(r)

-----------------------------------------------------------------------------
BuildStep(r) ==
    \E i \in DOMAIN slot[r] :
       \/ Admit(r, i) \/ LookupReuse(r, i) \/ ReturnReused(r, i)
       \/ StartSign(r, i) \/ Store(r, i)
       \/ \E ok \in BOOLEAN : FinishSign(r, i, ok)

PassStep(r) ==
    /\ \/ Snapshot(r) \/ Recheck(r) \/ TakeFinal(r) \/ Finish(r) \/ Respond(r)
       \/ \E i \in DOMAIN slot[r] : Revalidate(r, i)
    /\ UNCHANGED reuse

\* What the handler does by itself once it has a request.
HandlerStep(r) == /\ BuildStep(r) \/ PassStep(r)
                  /\ UNCHANGED <<now, cacheVars, assets, reloadVars>>

ClientStep(r) == /\ Disconnect(r) \/ \E b \in Bodies : Receive(r, b)
                 /\ UNCHANGED <<now, cacheVars, assets, reloadVars, reuse>>

\* The websocket task, fed by the producer.
FrameStep == /\ \/ \E f \in Frames : ApplyPrice(f)
                \/ \E k \in Keys : ApplyHalt(k)
                \/ \E s \in Symbols : ApplyStaleSource(s)
             /\ UNCHANGED <<now, assets, reloadVars, reuse, handlerVars>>

RegistryStep == /\ ReloaderStep \/ \E file \in Files : Upload(file)
                /\ UNCHANGED <<now, reuse, handlerVars>>

ClockStep == /\ Tick
             /\ UNCHANGED <<cacheVars, assets, reloadVars, reuse, handlerVars>>

Init == /\ CacheInit
        /\ ReloadInit
        /\ ReuseInit
        /\ pc = [r \in Handlers |-> "idle"]
        /\ body = [r \in Handlers |-> NoBody]
        /\ slot = [r \in Handlers |-> <<>>]
        /\ snap = [r \in Handlers |-> NoQuotes]
        /\ recheck = [r \in Handlers |-> NoQuotes]
        /\ final = [r \in Handlers |-> NoFinal]

Next == \/ \E r \in Handlers : HandlerStep(r) \/ ClientStep(r)
        \/ FrameStep
        \/ RegistryStep
        \/ ClockStep

Spec == Init /\ [][Next]_vars

\* A handler that has work is polled, and the signer always answers: a wait
\* is cut off after WAIT_TIMEOUT (see SignatureCache).
FairSpec == Spec /\ \A r \in Handlers : WF_vars(HandlerStep(r))

-----------------------------------------------------------------------------
Phases == {"queued", "built", "served", "failed"} \cup InFlight
Codes == {"", "bad_request", "legacy_schema", "no_live_quote", "expired_quote",
          "internal_error", "missing_session", "invalid_session"}
Answered == {"reusing", "signed", "built", "served"}

\* Types of every variable, and of a slot in the phases that use a field.
TypeOK ==
    /\ CacheTypeOK
    /\ ReloadTypeOK
    /\ \A key \in DOMAIN reuse :
          /\ key.symbol \in Symbols
          /\ reuse[key].gen \in Nat
          /\ reuse[key].resp.gen \in Nat
    /\ pc \in [Handlers -> {"idle", "snapshot", "build", "final", "revalidate",
                            "reply", "error"}]
    /\ body \in [Handlers -> Bodies \cup {NoBody}]
    /\ \A r \in Handlers :
          /\ DOMAIN slot[r] = DOMAIN body[r].items
          /\ \A i \in DOMAIN slot[r] :
                /\ slot[r][i].phase \in Phases
                /\ slot[r][i].err \in Codes
                /\ slot[r][i].phase # "failed" => slot[r][i].pair.symbol \in Symbols
          /\ \A s \in DOMAIN snap[r] : s \in Symbols /\ snap[r][s] \in Entries
          /\ \A s \in DOMAIN recheck[r] : s \in Symbols /\ recheck[r][s] \in Entries

\* A generation that is still live is the cached one and has never been
\* disowned, whoever holds it: a request's snapshots, a stored signature or a
\* response being built.  (insert_quote, evict and while_live together.)
LiveHoldersCurrent ==
    /\ \A k \in DOMAIN quotes : quotes[k].gen \in live /\ Current(k, quotes[k])
    /\ \A r \in Handlers :
          /\ \A s \in DOMAIN snap[r] : Current(<<ChainId, s>>, snap[r][s])
          /\ \A s \in DOMAIN recheck[r] : Current(<<ChainId, s>>, recheck[r][s])
    /\ \A key \in DOMAIN reuse :
          /\ reuse[key].gen = reuse[key].resp.gen
          /\ Current(<<ChainId, key.symbol>>, reuse[key].resp)
    /\ \A r \in Handlers : \A i \in DOMAIN slot[r] :
          slot[r][i].phase \in Answered =>
             /\ slot[r][i].pair.symbol \in DOMAIN snap[r]
             /\ slot[r][i].resp.gen = Entry(r, i).gen
             /\ Current(<<ChainId, slot[r][i].pair.symbol>>, slot[r][i].resp)

Accepts(r, i) == /\ slot[r][i].phase = "built"
                 /\ i \in DOMAIN slot'[r]
                 /\ slot'[r][i].phase = "served"

\* The final pass never accepts a response, fresh or reused, whose frame the
\* producer has disowned (halt, stale source) or the reloader has dropped
\* since it arrived, even if the same price is back in the cache.
NoDisownedPrice ==
    [][\A r \in Handlers : \A i \in DOMAIN slot[r] :
          Accepts(r, i) => slot[r][i].resp.epoch
                             = evictions[<<ChainId, slot[r][i].pair.symbol>>]]_vars

\* A response carries the tokens of its own request item, and its price was
\* published for the base token of that item (validate_quote_address on the
\* build path, the tokens in the reuse key on the reuse path).
PriceBoundToToken ==
    \A r \in Handlers : \A i \in DOMAIN slot[r] :
       slot[r][i].phase \in Answered =>
          /\ slot[r][i].resp.base = slot[r][i].pair.token
          /\ slot[r][i].resp.context.input = slot[r][i].input
          /\ slot[r][i].resp.context.output = slot[r][i].output

\* A token that left the running set before the final pass is not served,
\* although its request resolved it and a late frame still prices it.
RetiredTokenRefused ==
    \A r \in Handlers : \A i \in DOMAIN slot[r] :
       slot[r][i].phase = "served" /\ final[r].set.generation = tokens.generation
          => slot[r][i].pair.symbol \in SymbolAt(tokens.addr, slot[r][i].pair.token)

\* What is served is still executable at the common timestamp of the batch by
\* its SIGNED seconds, and the signed bound does not exceed the one pricing
\* held after the last signature of the batch.
SignedExpiryHonest ==
    \A r \in Handlers : \A i \in DOMAIN slot[r] :
       slot[r][i].phase = "served" =>
          LET signed == slot[r][i].resp.context.expiry
          IN  /\ Seconds(final[r].at) < signed
              /\ signed * MsPerSecond
                   <= EffectiveExpiry(recheck[r][slot[r][i].pair.symbol].quote)

Reused(r, i) == slot[r][i].resp.context.publish # PublishTime(QuoteAt(r, i))

\* A reused publish_time trails the live frame by at most the signed horizon
\* of the reused quote minus the margin.
ReuseLagBounded ==
    \A r \in Handlers : \A i \in DOMAIN slot[r] :
       slot[r][i].phase \in Answered /\ Reused(r, i) =>
          LET ctx == slot[r][i].resp.context
          IN  PublishTime(QuoteAt(r, i)) - ctx.publish
                 <= (ctx.expiry - ctx.publish) - MinRemaining

\* The two directions of one symbol in one reply never cross: the maker's
\* sell price stays at or above its buy price, whatever frames and reused
\* signatures the slots were built from.
ReplyNeverCrossed ==
    \A r \in Handlers : \A i, j \in DOMAIN slot[r] :
       /\ slot[r][i].phase = "served" /\ slot[r][j].phase = "served"
       /\ slot[r][i].pair.symbol = slot[r][j].pair.symbol
       /\ slot[r][i].pair.direction # slot[r][j].pair.direction
       => LET a == slot[r][i].resp.context.price
              b == slot[r][j].resp.context.price
          IN  a.num * b.num >= a.den * b.den

\* A strict batch is answered as a whole, and nothing behind its first error
\* is signed.
StrictAllOrNothing ==
    \A r \in Handlers :
       ~IsEnvelope(body[r]) =>
          /\ pc[r] = "reply" =>
                \A i \in DOMAIN slot[r] : slot[r][i].phase = "served"
          /\ \A i, j \in DOMAIN slot[r] :
                i < j /\ slot[r][i].phase = "failed"
                   => slot[r][j].phase \notin InFlight

\* A reused signature still has the configured margin when it is served.
ReuseMarginAtReply ==
    \A r \in Handlers : \A i \in DOMAIN slot[r] :
       slot[r][i].phase = "served" /\ Reused(r, i) =>
          slot[r][i].resp.context.expiry >= Seconds(final[r].at) + MinRemaining

\* Every request is answered or its client is gone.
RequestsEnd == \A r \in Handlers : pc[r] # "idle" ~> pc[r] = "idle"
=============================================================================
