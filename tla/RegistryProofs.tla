--------------------------- MODULE RegistryProofs ---------------------------
(***************************************************************************)
(* What the operations of the quote cache and of the reload loop preserve, *)
(* for any frames, chains, symbols and token files.  Everything that holds *)
(* an entry of the cache (a snapshot, a stored signature, a response being *)
(* built) relies on InsertCurrent and EvictCurrent; everything that        *)
(* resolves tokens relies on RegistryInv.                                  *)
(***************************************************************************)
EXTENDS Reloader, TLAPS

\* The cached generations are live, current and never shared by two keys.
\* The last conjunct is what lets an eviction revoke one key and not another.
CacheInv ==
    /\ nextGen \in Nat
    /\ DOMAIN evictions = Keys
    /\ DOMAIN quotes \subseteq Keys
    /\ \A k \in DOMAIN quotes : quotes[k].gen \in live /\ Current(k, quotes[k])
    /\ \A j, k \in DOMAIN quotes : quotes[j].gen = quotes[k].gen => j = k

\* Current, of an entry that was held before the step, after it.
CurrentAfter(x, e) ==
    /\ e.gen \in 0 .. nextGen' - 1
    /\ e.gen \in live' => /\ x \in DOMAIN quotes'
                          /\ quotes'[x].gen = e.gen
                          /\ e.epoch = evictions'[x]

\* Whoever held a current entry still does.
HoldersKept == \A x, e : Current(x, e) => CurrentAfter(x, e)

-----------------------------------------------------------------------------
LEMMA CacheInitInv == CacheInit => CacheInv
BY DEF CacheInit, CacheInv

\* A new frame gives every cached key but its own the entry it had.
LEMMA InsertQuotes ==
    ASSUME NEW k \in Keys, NEW q, InsertQuote(k, q)
    PROVE  /\ DOMAIN quotes' = DOMAIN quotes \cup {k}
           /\ \A x \in DOMAIN quotes \ {k} : quotes'[x] = quotes[x]
           /\ quotes'[k].gen = Generation(k)
           /\ quotes'[k].epoch = evictions[k]
           /\ evictions' = evictions
BY DEF InsertQuote

\* insert_quote: whoever held a current entry still does.
LEMMA InsertCurrent ==
    ASSUME CacheInv, NEW k \in Keys, NEW q, InsertQuote(k, q),
           NEW x, NEW e, Current(x, e)
    PROVE  CurrentAfter(x, e)
<1>1. CASE k \in DOMAIN quotes
    <2>1. UNCHANGED <<live, nextGen>>
        BY <1>1 DEF InsertQuote
    <2> QED BY <1>1, <2>1, InsertQuotes DEF Current, CurrentAfter, Generation
<1>2. CASE k \notin DOMAIN quotes
    <2>1. live' = live \cup {nextGen} /\ nextGen' = nextGen + 1
        BY <1>2 DEF InsertQuote, Generation
    <2>2. nextGen \in Nat /\ e.gen \in 0 .. nextGen - 1 /\ e.gen # nextGen
        BY DEF Current, CacheInv
    <2>3. e.gen \in live' => /\ x \in DOMAIN quotes /\ quotes[x].gen = e.gen
                             /\ e.epoch = evictions[x]
        BY <2>1, <2>2 DEF Current
    <2>4. e.gen \in live' => /\ x \in DOMAIN quotes' /\ quotes'[x].gen = e.gen
                             /\ e.epoch = evictions'[x]
        BY <1>2, <2>3, InsertQuotes
    <2>5. e.gen \in 0 .. nextGen' - 1
        BY <2>1, <2>2
    <2> QED BY <2>4, <2>5 DEF CurrentAfter
<1> QED BY <1>1, <1>2

LEMMA InsertInv ==
    ASSUME CacheInv, NEW k \in Keys, NEW q, InsertQuote(k, q)
    PROVE  CacheInv'
<1>1. \A x \in DOMAIN quotes : quotes[x].gen \in 0 .. nextGen - 1
    BY DEF CacheInv, Current
<1>2. /\ DOMAIN quotes' = DOMAIN quotes \cup {k}
      /\ \A x \in DOMAIN quotes \ {k} : quotes'[x] = quotes[x]
      /\ quotes'[k].gen = Generation(k)
      /\ quotes'[k].epoch = evictions[k]
      /\ evictions' = evictions
    BY InsertQuotes
<1>3. CASE k \in DOMAIN quotes
    <2>1. UNCHANGED <<live, nextGen>> /\ Generation(k) = quotes[k].gen
        BY <1>3 DEF InsertQuote, Generation
    <2> QED BY <1>1, <1>2, <1>3, <2>1 DEF CacheInv, Current
<1>4. CASE k \notin DOMAIN quotes
    <2>1. /\ live' = live \cup {nextGen} /\ nextGen' = nextGen + 1
          /\ Generation(k) = nextGen
        BY <1>4 DEF InsertQuote, Generation
    <2>2. /\ nextGen \in Nat /\ nextGen' \in Nat
          /\ \A x \in DOMAIN quotes : quotes[x].gen # nextGen
        BY <1>1, <2>1 DEF CacheInv
    <2>3. \A x \in DOMAIN quotes' : quotes'[x].gen \in 0 .. nextGen' - 1
        BY <1>1, <1>2, <2>1, <2>2
    <2>4. \A x \in DOMAIN quotes' : quotes'[x].gen \in live'
                                   /\ quotes'[x].epoch = evictions'[x]
        BY <1>2, <2>1 DEF CacheInv, Current
    <2>5. \A x, y \in DOMAIN quotes' : quotes'[x].gen = quotes'[y].gen => x = y
        BY <1>2, <2>1, <2>2 DEF CacheInv
    <2> QED BY <1>2, <2>2, <2>3, <2>4, <2>5 DEF CacheInv, Current
<1> QED BY <1>3, <1>4

-----------------------------------------------------------------------------
LEMMA EvictQuotes ==
    ASSUME NEW K, Evict(K)
    PROVE  /\ DOMAIN quotes' = DOMAIN quotes \ K
           /\ \A x \in DOMAIN quotes' : quotes'[x] = quotes[x]
           /\ live' \subseteq live
           /\ \A x \in K \cap DOMAIN quotes : quotes[x].gen \notin live'
           /\ \A g \in live \ live' : \E x \in K \cap DOMAIN quotes : g = quotes[x].gen
           /\ nextGen' = nextGen
           /\ DOMAIN evictions' = Keys
           /\ \A x \in Keys \ (K \cap DOMAIN quotes) : evictions'[x] = evictions[x]
BY DEF Evict, Restrict

\* evict: an entry of an evicted key loses its licence with the key, and every
\* other holder keeps its own.
LEMMA EvictCurrent ==
    ASSUME CacheInv, NEW K, Evict(K), NEW x, NEW e, Current(x, e)
    PROVE  CurrentAfter(x, e)
<1> SUFFICES ASSUME e.gen \in live'
             PROVE  /\ x \in DOMAIN quotes'
                    /\ quotes'[x].gen = e.gen
                    /\ e.epoch = evictions'[x]
    BY EvictQuotes DEF Current, CurrentAfter
<1>1. x \in DOMAIN quotes /\ quotes[x].gen = e.gen /\ e.epoch = evictions[x]
    BY EvictQuotes DEF Current
<1>2. x \notin K
    BY <1>1, EvictQuotes
<1> QED BY <1>1, <1>2, EvictQuotes DEF CacheInv

LEMMA EvictInv ==
    ASSUME CacheInv, NEW K, Evict(K)
    PROVE  CacheInv'
<1>1. /\ DOMAIN quotes' = DOMAIN quotes \ K
      /\ \A x \in DOMAIN quotes' : quotes'[x] = quotes[x]
      /\ live' \subseteq live
      /\ \A x \in K \cap DOMAIN quotes : quotes[x].gen \notin live'
      /\ \A g \in live \ live' : \E x \in K \cap DOMAIN quotes : g = quotes[x].gen
      /\ nextGen' = nextGen
      /\ DOMAIN evictions' = Keys
      /\ \A x \in Keys \ (K \cap DOMAIN quotes) : evictions'[x] = evictions[x]
    BY EvictQuotes
<1>2. ASSUME NEW x \in DOMAIN quotes' PROVE quotes'[x].gen \in live'
    <2>1. quotes[x].gen \in live
        BY <1>1 DEF CacheInv
    <2>2. \A y \in K \cap DOMAIN quotes : quotes[x].gen # quotes[y].gen
        BY <1>1 DEF CacheInv
    <2> QED BY <1>1, <2>1, <2>2
<1>3. ASSUME NEW x \in DOMAIN quotes'
      PROVE  /\ quotes'[x].gen \in 0 .. nextGen' - 1
             /\ quotes'[x].epoch = evictions'[x]
    BY <1>1 DEF CacheInv, Current
<1> QED BY <1>1, <1>2, <1>3 DEF CacheInv, Current

-----------------------------------------------------------------------------
\* The websocket task: prices, halts and stale sources.
LEMMA FramesKeep ==
    ASSUME CacheInv,
           \/ \E f \in Frames : ApplyPrice(f)
           \/ \E k \in Keys : ApplyHalt(k)
           \/ \E s \in Symbols : ApplyStaleSource(s)
    PROVE  CacheInv' /\ HoldersKept
<1>1. ASSUME NEW f \in Frames, ApplyPrice(f) PROVE CacheInv' /\ HoldersKept
    <2>1. KeyOf(f) \in Keys /\ InsertQuote(KeyOf(f), Quote(f, now))
        BY <1>1, FrameAssumption DEF ApplyPrice
    <2> QED BY <2>1, InsertInv, InsertCurrent DEF HoldersKept
<1>2. ASSUME NEW k \in Keys, ApplyHalt(k) PROVE CacheInv' /\ HoldersKept
    <2>1. Evict({k})
        BY <1>2 DEF ApplyHalt
    <2> QED BY <2>1, EvictInv, EvictCurrent DEF HoldersKept
<1>3. ASSUME NEW s \in Symbols, ApplyStaleSource(s) PROVE CacheInv' /\ HoldersKept
    <2>1. Evict(Chains \X {s})
        BY <1>3 DEF ApplyStaleSource
    <2> QED BY <2>1, EvictInv, EvictCurrent DEF HoldersKept
<1> QED BY <1>1, <1>2, <1>3

\* The reloader's forget.
LEMMA ForgetKeeps ==
    ASSUME CacheInv, NEW S, ForgetQuotes(S)
    PROVE  CacheInv' /\ HoldersKept
<1>1. Evict(Chains \X S)
    BY DEF ForgetQuotes
<1> QED BY <1>1, EvictInv, EvictCurrent DEF HoldersKept

\* Everybody else leaves the cache alone.
LEMMA QuietKeeps ==
    ASSUME CacheInv, UNCHANGED cacheVars
    PROVE  CacheInv' /\ HoldersKept
BY DEF cacheVars, CacheInv, Current, CurrentAfter, HoldersKept

-----------------------------------------------------------------------------
(* The reload loop.                                                         *)

\* Generations only grow: the running one is older than a refused one while no
\* reload is under way, and older than a copy that is still to be decided on.
\* This is what makes Decision::Unchanged impossible.
GenerationsGrow ==
    /\ tokens.generation \in 1 .. bucket.generation
    /\ bucket.generation \in 1 .. MaxUploads + 1
    /\ rejected \in 0 .. bucket.generation
    /\ copy.generation \in 0 .. bucket.generation
    /\ swap.step = "idle" /\ rejected # 0 => tokens.generation < rejected
    /\ copy.generation # 0 => swap.step = "idle" /\ tokens.generation < copy.generation

\* The copies on their way are files that were uploaded.
FilesKnown == {bucket.file, copy.file} \subseteq Files \cup {BootFile}

\* The running rows passed Config::validate.
RowsChecked ==
    /\ RunningSetUnambiguous
    /\ DOMAIN tokens.addr \subseteq Symbols
    /\ \A s \in DOMAIN tokens.addr : tokens.addr[s] \in Addresses

\* What apply has still to do for the subscription and the cache.
ReloadProgress ==
    /\ swap.step \in {"idle", "replaced", "subscribed"}
    /\ swap.forget \subseteq Symbols /\ assets \subseteq Symbols
    /\ swap.step # "replaced" => assets = DOMAIN tokens.addr
    /\ swap.step = "idle" => CachedSymbols \subseteq DOMAIN tokens.addr
    /\ swap.step = "replaced" => /\ CachedSymbols \subseteq assets
                                /\ assets \ DOMAIN tokens.addr \subseteq swap.forget
    /\ swap.step = "subscribed" =>
          CachedSymbols \subseteq DOMAIN tokens.addr \cup swap.forget

RegistryShape == /\ DOMAIN tokens = {"addr", "generation"}
                 /\ DOMAIN swap = {"step", "forget"}

RegistryInv == /\ RegistryShape /\ GenerationsGrow /\ FilesKnown
               /\ RowsChecked /\ ReloadProgress

-----------------------------------------------------------------------------
\* What candidate accepts is a set that can be run.
LEMMA ValidRows ==
    ASSUME NEW file \in Files \cup {BootFile}, Valid(file)
    PROVE  /\ DOMAIN file.rows # {}
           /\ DOMAIN file.rows \subseteq Symbols
           /\ \A s \in DOMAIN file.rows : /\ file.rows[s] \in Addresses
                                          /\ file.rows[s] # QuoteToken
                                          /\ file.rows[s] \notin Placeholders
           /\ \A s, t \in DOMAIN file.rows : s # t => file.rows[s] # file.rows[t]
BY FileAssumption DEF Valid, Projects, RowsAccepted

LEMMA RegistryInitInv == ReloadInit /\ CacheInit /\ Valid(BootFile) => RegistryInv
<1> SUFFICES ASSUME ReloadInit, CacheInit, Valid(BootFile) PROVE RegistryInv
    OBVIOUS
<1>1. RegistryShape /\ FilesKnown
    BY DEF ReloadInit, Idle, NoCopy, RegistryShape, FilesKnown
<1>2. GenerationsGrow
    BY FileAssumption DEF ReloadInit, Idle, NoCopy, GenerationsGrow
<1>3. RowsChecked
    BY ValidRows DEF ReloadInit, RowsChecked, RunningSetUnambiguous
<1>4. ReloadProgress
    BY ValidRows DEF ReloadInit, CacheInit, Idle, ReloadProgress, CachedSymbols
<1> QED BY <1>1, <1>2, <1>3, <1>4 DEF RegistryInv

\* A step of the cache that adds only subscribed symbols.
LEMMA CacheMoves ==
    ASSUME RegistryInv, UNCHANGED <<assets, reloadVars>>,
           CachedSymbols' \subseteq CachedSymbols \cup assets
    PROVE  RegistryInv'
<1>1. RegistryShape' /\ GenerationsGrow' /\ FilesKnown' /\ RowsChecked'
    BY DEF RegistryInv, RegistryShape, GenerationsGrow, FilesKnown, RowsChecked,
           RunningSetUnambiguous, reloadVars
<1>2. ReloadProgress'
    BY DEF RegistryInv, ReloadProgress, reloadVars
<1> QED BY <1>1, <1>2 DEF RegistryInv

LEMMA FramesKeepRegistry ==
    ASSUME RegistryInv, UNCHANGED <<assets, reloadVars>>,
           \/ \E f \in Frames : ApplyPrice(f)
           \/ \E k \in Keys : ApplyHalt(k)
           \/ \E s \in Symbols : ApplyStaleSource(s)
    PROVE  RegistryInv'
<1>1. ASSUME NEW f \in Frames, ApplyPrice(f)
      PROVE  CachedSymbols' \subseteq CachedSymbols \cup assets
    <2>1. f.symbol \in assets /\ KeyOf(f)[2] = f.symbol
        BY <1>1 DEF ApplyPrice, KeyOf
    <2>2. DOMAIN quotes' = DOMAIN quotes \cup {KeyOf(f)}
        BY <1>1 DEF ApplyPrice, InsertQuote
    <2> QED BY <2>1, <2>2 DEF CachedSymbols
<1>2. ASSUME NEW K, Evict(K) PROVE CachedSymbols' \subseteq CachedSymbols \cup assets
    BY <1>2, EvictQuotes DEF CachedSymbols
<1> QED BY <1>1, <1>2, CacheMoves DEF ApplyHalt, ApplyStaleSource

LEMMA QuietKeepsRegistry ==
    ASSUME RegistryInv, UNCHANGED <<cacheVars, assets, reloadVars>>
    PROVE  RegistryInv'
BY CacheMoves DEF cacheVars, CachedSymbols

LEMMA UploadKeepsRegistry ==
    ASSUME RegistryInv, NEW file \in Files, Upload(file)
    PROVE  RegistryInv'
<1>1. RegistryShape' /\ FilesKnown' /\ RowsChecked'
    BY DEF Upload, RegistryInv, RegistryShape, FilesKnown, RowsChecked,
           RunningSetUnambiguous
<1>2. GenerationsGrow'
    BY FileAssumption DEF Upload, RegistryInv, GenerationsGrow
<1>3. ReloadProgress'
    BY DEF Upload, RegistryInv, ReloadProgress, cacheVars, CachedSymbols
<1> QED BY <1>1, <1>2, <1>3 DEF RegistryInv

LEMMA PollKeepsRegistry ==
    ASSUME RegistryInv, Poll
    PROVE  RegistryInv'
<1>1. RegistryShape' /\ FilesKnown' /\ RowsChecked'
    BY DEF Poll, RegistryInv, RegistryShape, FilesKnown, RowsChecked,
           RunningSetUnambiguous
<1>2. GenerationsGrow'
    BY FileAssumption DEF Poll, Unless, RegistryInv, GenerationsGrow
<1>3. ReloadProgress'
    BY DEF Poll, RegistryInv, ReloadProgress, cacheVars, CachedSymbols
<1> QED BY <1>1, <1>2, <1>3 DEF RegistryInv

LEMMA RejectKeepsRegistry ==
    ASSUME RegistryInv, RejectCopy
    PROVE  RegistryInv'
<1>1. RegistryShape' /\ FilesKnown' /\ RowsChecked'
    BY DEF RejectCopy, NoCopy, RegistryInv, RegistryShape, FilesKnown, RowsChecked,
           RunningSetUnambiguous
<1>2. GenerationsGrow'
    BY FileAssumption DEF RejectCopy, NoCopy, RegistryInv, GenerationsGrow
<1>3. ReloadProgress'
    BY DEF RejectCopy, RegistryInv, ReloadProgress, cacheVars, CachedSymbols
<1> QED BY <1>1, <1>2, <1>3 DEF RegistryInv

LEMMA KeepRowsKeepsRegistry ==
    ASSUME RegistryInv, KeepRows
    PROVE  RegistryInv'
<1>1. tokens'.addr = tokens.addr /\ tokens'.generation = copy.generation
      /\ DOMAIN tokens' = DOMAIN tokens
    BY DEF KeepRows, RegistryInv, RegistryShape
<1>2. RegistryShape' /\ FilesKnown' /\ RowsChecked'
    BY <1>1 DEF KeepRows, NoCopy, RegistryInv, RegistryShape, FilesKnown, RowsChecked,
                RunningSetUnambiguous
<1>3. GenerationsGrow'
    BY <1>1, FileAssumption DEF KeepRows, NoCopy, RegistryInv, GenerationsGrow
<1>4. ReloadProgress'
    BY <1>1 DEF KeepRows, RegistryInv, ReloadProgress, cacheVars, CachedSymbols
<1> QED BY <1>2, <1>3, <1>4 DEF RegistryInv

\* The old rows that are no longer mapped are exactly what is to be forgotten.
LEMMA ReplaceKeepsRegistry ==
    ASSUME RegistryInv, ReplaceTokens
    PROVE  RegistryInv'
<1>1. /\ tokens'.addr = copy.file.rows /\ tokens'.generation = copy.generation
      /\ DOMAIN tokens' = {"addr", "generation"}
      /\ DOMAIN swap' = {"step", "forget"} /\ swap'.step = "replaced"
      /\ swap'.forget = Removed(tokens.addr, copy.file.rows)
                          \cup Readdressed(tokens.addr, copy.file.rows)
    BY DEF ReplaceTokens
<1>2. copy.file \in Files \cup {BootFile} /\ Valid(copy.file)
      /\ copy.generation # 0 /\ swap.step = "idle"
    BY DEF ReplaceTokens, RegistryInv, FilesKnown, GenerationsGrow
<1>3. RegistryShape' /\ FilesKnown'
    BY <1>1 DEF ReplaceTokens, NoCopy, RegistryInv, RegistryShape, FilesKnown
<1>4. RowsChecked'
    BY <1>1, <1>2, ValidRows DEF RowsChecked, RunningSetUnambiguous
<1>5. GenerationsGrow'
    BY <1>1, <1>2, FileAssumption
       DEF ReplaceTokens, NoCopy, RegistryInv, GenerationsGrow
<1>6. ReloadProgress'
    BY <1>1, <1>2, ValidRows
       DEF ReplaceTokens, RegistryInv, ReloadProgress, RowsChecked, Removed,
           Readdressed, cacheVars, CachedSymbols
<1> QED BY <1>3, <1>4, <1>5, <1>6 DEF RegistryInv

LEMMA SendKeepsRegistry ==
    ASSUME RegistryInv, SendAssets
    PROVE  RegistryInv'
<1>1. swap'.forget = swap.forget /\ swap'.step = "subscribed"
      /\ DOMAIN swap' = DOMAIN swap
    BY DEF SendAssets, RegistryInv, RegistryShape
<1>2. RegistryShape' /\ FilesKnown' /\ RowsChecked'
    BY <1>1 DEF SendAssets, RegistryInv, RegistryShape, FilesKnown, RowsChecked,
                RunningSetUnambiguous
<1>3. GenerationsGrow'
    BY <1>1, FileAssumption DEF SendAssets, RegistryInv, GenerationsGrow
<1>4. ReloadProgress'
    BY <1>1 DEF SendAssets, RegistryInv, ReloadProgress, RowsChecked, cacheVars,
                CachedSymbols
<1> QED BY <1>2, <1>3, <1>4 DEF RegistryInv

\* forget leaves no quote of a symbol that is not in the running set.
LEMMA ForgetKeepsRegistry ==
    ASSUME RegistryInv, CacheInv, ForgetRetired
    PROVE  RegistryInv'
<1>1. DOMAIN swap' = {"step", "forget"} /\ swap'.step = "idle" /\ swap'.forget = {}
    BY DEF ForgetRetired, Idle
<1>2. RegistryShape' /\ FilesKnown' /\ RowsChecked'
    BY <1>1 DEF ForgetRetired, RegistryInv, RegistryShape, FilesKnown, RowsChecked,
                RunningSetUnambiguous
<1>3. GenerationsGrow'
    BY <1>1, FileAssumption DEF ForgetRetired, RegistryInv, GenerationsGrow
<1>4. DOMAIN quotes' = DOMAIN quotes \ (Chains \X swap.forget)
    BY EvictQuotes DEF ForgetRetired, ForgetQuotes
<1>5. CachedSymbols' \subseteq CachedSymbols \ swap.forget
    BY <1>4 DEF CachedSymbols, CacheInv, Keys
<1>6. ReloadProgress'
    BY <1>1, <1>5 DEF ForgetRetired, RegistryInv, ReloadProgress
<1> QED BY <1>2, <1>3, <1>6 DEF RegistryInv

LEMMA ReloadsKeepRegistry ==
    ASSUME RegistryInv, CacheInv, ReloaderStep
    PROVE  RegistryInv'
BY PollKeepsRegistry, RejectKeepsRegistry, KeepRowsKeepsRegistry,
   ReplaceKeepsRegistry, SendKeepsRegistry, ForgetKeepsRegistry DEF ReloaderStep

LEMMA RegistryInvImplies ==
    RegistryInv => RetiredSymbolsStayOut /\ RunningSetUnambiguous /\ ReloadTypeOK
BY FileAssumption DEF RegistryInv, GenerationsGrow, RowsChecked, ReloadProgress,
       RetiredSymbolsStayOut, ReloadTypeOK
=============================================================================
