------------------------------ MODULE QuoteCache ------------------------------
(***************************************************************************)
(* The live quote cache of pricing_client.rs: the latest quote per chain   *)
(* and symbol, filled by the frames of the pricing websocket and emptied   *)
(* by halts, stale-source errors and the reloader's forget.                *)
(*                                                                         *)
(* Every entry carries a QuoteGeneration, an Arc whose identity is shared  *)
(* by the frames of one uninterrupted run and whose `live` flag is cleared *)
(* for good by an eviction.  A generation is a natural number handed out   *)
(* by nextGen; `live` is the set of those whose flag is still set.         *)
(*                                                                         *)
(* `evictions` and the `epoch` of an entry are history variables.  They    *)
(* count how often the producer (or the reloader) has disowned a key, and  *)
(* how often it had when the entry's frame arrived.                        *)
(***************************************************************************)
EXTENDS Integers, Functions

CONSTANTS Chains,      \* chain ids seen on the wire
          Symbols,     \* pricing symbols
          Frames,      \* the price frames the producer may send
          MaxGens,     \* bound: generations handed out in a behaviour
          StartTime,   \* the instant the server boots, Unix milliseconds
          TickMs,      \* grain of the clock, in milliseconds
          MaxTicks     \* bound: ticks in a behaviour

VARIABLES now,         \* the wall clock, Unix milliseconds
          quotes,      \* the cache: a partial function on Keys
          live,        \* generations not revoked
          nextGen,     \* the next fresh generation
          evictions,   \* history: evictions of each key
          assets       \* the watch channel: symbols subscribed to

cacheVars == <<quotes, live, nextGen, evictions>>

Keys == Chains \X Symbols
KeyOf(f) == <<f.chain, f.symbol>>

\* Frames name keys of the cache, and their times are 64-bit integers.
ASSUME FrameAssumption ==
    \A f \in Frames : /\ KeyOf(f) \in Keys
                      /\ f.age \in Int /\ f.ttl \in Int /\ f.grace \in Int

\* The clock is past 1970 and moves forward.
ASSUME ClockAssumption ==
    /\ StartTime \in Nat /\ TickMs \in Nat \ {0}
    /\ MaxTicks \in Nat /\ MaxGens \in Nat

\* A frame's times are offsets from its arrival; grace = 0 is no deadline.
Quote(f, t) ==
    [base       |-> f.base,
     settle     |-> f.settle,
     rate       |-> f.rate,
     underlying |-> f.underlying,
     nav        |-> f.nav,
     src        |-> t - f.age,
     expiry     |-> t + f.ttl,
     deadline   |-> IF f.grace = 0 THEN 0 ELSE t + f.grace,
     session    |-> f.session]

CachedSymbols == {k[2] : k \in DOMAIN quotes}

-----------------------------------------------------------------------------
CacheInit ==
    /\ now = StartTime
    /\ quotes = [k \in {} |-> 0]
    /\ live = {}
    /\ nextGen = 0
    /\ evictions = [k \in Keys |-> 0]

Generation(k) == IF k \in DOMAIN quotes THEN quotes[k].gen ELSE nextGen

InsertQuote(k, q) ==
    LET g == Generation(k)
        entry == [quote |-> q, gen |-> g, epoch |-> evictions[k]]
    IN  /\ quotes' = [x \in DOMAIN quotes \cup {k} |->
                        IF x = k THEN entry ELSE quotes[x]]
        /\ IF k \in DOMAIN quotes
           THEN UNCHANGED <<live, nextGen>>
           ELSE /\ nextGen < MaxGens
                /\ live' = live \cup {g}
                /\ nextGen' = nextGen + 1
        /\ UNCHANGED evictions

\* Mutant: the entry goes, its generation is not revoked.
EvictUnrevoked(K) ==
    LET gone == K \cap DOMAIN quotes
    IN  /\ quotes' = Restrict(quotes, DOMAIN quotes \ gone)
        /\ evictions' = [k \in Keys |-> IF k \in gone THEN evictions[k] + 1
                                                      ELSE evictions[k]]
        /\ UNCHANGED <<live, nextGen>>

\* Removal from the map and revocation happen under one write lock.
Evict(K) ==
    LET gone == K \cap DOMAIN quotes
    IN  /\ quotes' = Restrict(quotes, DOMAIN quotes \ gone)
        /\ live' = live \ {quotes[k].gen : k \in gone}
        /\ evictions' = [k \in Keys |-> IF k \in gone THEN evictions[k] + 1
                                                      ELSE evictions[k]]
        /\ UNCHANGED nextGen

-----------------------------------------------------------------------------
\* Mutant: a price is cached whether or not its symbol is subscribed to.
ApplyAnyPrice(f) == InsertQuote(KeyOf(f), Quote(f, now))

\* apply_server_frame.  A price for a symbol no longer subscribed, a resume,
\* another error code and a ping leave the cache alone.
ApplyPrice(f) == /\ f.symbol \in assets
                 /\ InsertQuote(KeyOf(f), Quote(f, now))

ApplyHalt(k) == /\ k \in DOMAIN quotes
                /\ Evict({k})

\* A stale-source error names no chain.
ApplyStaleSource(s) == /\ s \in CachedSymbols
                       /\ Evict(Chains \X {s})

\* LiveClient::forget
ForgetQuotes(S) == Evict(Chains \X S)

Tick == /\ now < StartTime + MaxTicks * TickMs
        /\ now' = now + TickMs

-----------------------------------------------------------------------------
(***************************************************************************)
(* An entry somebody holds for key k: the cache itself, the snapshot of a  *)
(* request, or the producer of a stored signature.  While its generation   *)
(* is live it is the cached one, and nobody has disowned the key since the *)
(* entry's frame arrived.                                                  *)
(***************************************************************************)
Current(k, e) ==
    /\ e.gen \in 0 .. nextGen - 1
    /\ e.gen \in live => /\ k \in DOMAIN quotes
                         /\ quotes[k].gen = e.gen
                         /\ e.epoch = evictions[k]

Instants == {StartTime + n * TickMs : n \in 0 .. MaxTicks}
Quotes == {Quote(f, t) : f \in Frames, t \in Instants}
Entries == [quote : Quotes, gen : Nat, epoch : Nat]

CacheTypeOK ==
    /\ now \in Instants
    /\ DOMAIN quotes \subseteq Keys
    /\ \A k \in DOMAIN quotes : quotes[k] \in Entries
    /\ live \subseteq 0 .. nextGen - 1
    /\ nextGen \in 0 .. MaxGens
    /\ evictions \in [Keys -> Nat]
=============================================================================
