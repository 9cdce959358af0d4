------------------------------- MODULE Reloader -------------------------------
(***************************************************************************)
(* The running token set (tokens.rs) and the loop that follows the token   *)
(* file in the bucket (reload.rs, token_file.rs: candidate, change).       *)
(*                                                                         *)
(* One poll reads the latest copy unless it is the generation already      *)
(* refused or already run, decides on it, and applies the decision.  An    *)
(* applied set is swapped in by three separate steps: the handle that      *)
(* requests resolve against, the subscribed list, the cached quotes.       *)
(* Request handlers and the websocket task run between them.               *)
(***************************************************************************)
EXTENDS QuoteCache

CONSTANTS Addresses,     \* token addresses a row may carry
          Placeholders,  \* addresses Config::validate refuses as placeholders
          QuoteToken,    \* this chain's settlement token
          Files,         \* token files that may be uploaded
          BootFile,      \* the file the server booted from
          MaxUploads     \* bound: uploads after boot

VARIABLES tokens,        \* Tokens: [addr, generation], addr maps symbols
          bucket,        \* the latest object: [file, generation]
          rejected,      \* Reloader::rejected, 0 for None
          copy,          \* the copy read and not yet decided on
          swap           \* progress of Reloader::apply: [step, forget]

reloadVars == <<tokens, bucket, rejected, copy, swap>>

\* Rows name known symbols, and their addresses may be ones that are refused.
ASSUME FileAssumption ==
    /\ MaxUploads \in Nat
    /\ \A file \in Files \cup {BootFile} :
          /\ DOMAIN file.rows \subseteq Symbols
          /\ \A s \in DOMAIN file.rows :
                file.rows[s] \in Addresses \cup Placeholders \cup {QuoteToken}

-----------------------------------------------------------------------------
\* A token file is [parses, settle, rows], where rows maps each symbol priced
\* for raindex on this chain to its address.  project and merge succeed.
Projects(file) ==
    /\ file.parses
    /\ file.settle = QuoteToken
    /\ DOMAIN file.rows # {}

\* Mutant: two symbols may share an address.
RowsNamed(rows) ==
    \A s \in DOMAIN rows : rows[s] \notin Placeholders \cup {QuoteToken}

\* Config::validate
RowsAccepted(rows) ==
    /\ \A s \in DOMAIN rows : rows[s] \notin Placeholders \cup {QuoteToken}
    /\ \A s, t \in DOMAIN rows : rows[s] = rows[t] => s = t

\* token_file::candidate succeeds.
Valid(file) == Projects(file) /\ RowsAccepted(file.rows)

Removed(old, new)     == DOMAIN old \ DOMAIN new
Readdressed(old, new) == {s \in DOMAIN old \cap DOMAIN new : old[s] # new[s]}

Idle == [step |-> "idle", forget |-> {}]
NoCopy == [file |-> BootFile, generation |-> 0]

ReloadInit ==
    /\ bucket = [file |-> BootFile, generation |-> 1]
    /\ tokens = [addr |-> BootFile.rows, generation |-> 1]
    /\ assets = DOMAIN BootFile.rows
    /\ rejected = 0
    /\ copy = NoCopy
    /\ swap = Idle

-----------------------------------------------------------------------------
\* A new upload always gets a new generation.
Upload(file) ==
    /\ bucket.generation <= MaxUploads
    /\ bucket' = [file |-> file, generation |-> bucket.generation + 1]
    /\ UNCHANGED <<tokens, assets, rejected, copy, swap, cacheVars>>

Unless == IF rejected # 0 THEN rejected ELSE tokens.generation

\* A successful read that is not Read::Unchanged.  A fetch error and an
\* unchanged read go back to the ticker and change nothing.
Poll ==
    /\ swap.step = "idle"
    /\ copy.generation = 0
    /\ bucket.generation # Unless
    /\ copy' = bucket
    /\ UNCHANGED <<tokens, assets, bucket, rejected, swap, cacheVars>>

\* Decision::Reject.  (Decision::Unchanged never arises: the read excludes
\* the running generation, and generations only grow.)
RejectCopy ==
    /\ copy.generation # 0
    /\ ~Valid(copy.file)
    /\ rejected' = copy.generation
    /\ copy' = NoCopy
    /\ UNCHANGED <<tokens, assets, bucket, swap, cacheVars>>

\* Mutant: a good copy with the running rows leaves an older refusal standing.
KeepRowsStillRejected ==
    /\ copy.generation # 0
    /\ Valid(copy.file)
    /\ copy.file.rows = tokens.addr
    /\ tokens' = [tokens EXCEPT !.generation = copy.generation]
    /\ copy' = NoCopy
    /\ UNCHANGED <<assets, bucket, rejected, swap, cacheVars>>

\* Decision::SameRows
KeepRows ==
    /\ copy.generation # 0
    /\ Valid(copy.file)
    /\ copy.file.rows = tokens.addr
    /\ tokens' = [tokens EXCEPT !.generation = copy.generation]
    /\ rejected' = 0
    /\ copy' = NoCopy
    /\ UNCHANGED <<assets, bucket, swap, cacheVars>>

\* Decision::Apply, first step: new requests resolve against the new set.
ReplaceTokens ==
    /\ copy.generation # 0
    /\ Valid(copy.file)
    /\ copy.file.rows # tokens.addr
    /\ tokens' = [addr |-> copy.file.rows, generation |-> copy.generation]
    /\ swap' = [step   |-> "replaced",
                forget |-> Removed(tokens.addr, copy.file.rows)
                             \cup Readdressed(tokens.addr, copy.file.rows)]
    /\ copy' = NoCopy
    /\ UNCHANGED <<assets, bucket, rejected, cacheVars>>

\* Second step: the subscription follows.
SendAssets ==
    /\ swap.step = "replaced"
    /\ assets' = DOMAIN tokens.addr
    /\ swap' = [swap EXCEPT !.step = "subscribed"]
    /\ UNCHANGED <<tokens, bucket, rejected, copy, cacheVars>>

\* Third step: the cached quotes of removed and readdressed symbols go.
ForgetRetired ==
    /\ swap.step = "subscribed"
    /\ ForgetQuotes(swap.forget)
    /\ rejected' = 0
    /\ swap' = Idle
    /\ UNCHANGED <<tokens, assets, bucket, copy>>

ReloaderStep == \/ Poll \/ RejectCopy \/ KeepRows
                \/ ReplaceTokens \/ SendAssets \/ ForgetRetired

-----------------------------------------------------------------------------
registryVars == <<now, cacheVars, assets, reloadVars>>

RegistryInit == CacheInit /\ ReloadInit

-----------------------------------------------------------------------------
ReloadTypeOK ==
    /\ assets \subseteq Symbols
    /\ DOMAIN tokens.addr \subseteq Symbols
    /\ \A s \in DOMAIN tokens.addr : tokens.addr[s] \in Addresses
    /\ tokens.generation \in 1 .. MaxUploads + 1
    /\ bucket.generation \in 1 .. MaxUploads + 1
    /\ rejected \in 0 .. MaxUploads + 1
    /\ copy.generation \in 0 .. MaxUploads + 1
    /\ swap.step \in {"idle", "replaced", "subscribed"}
    /\ swap.forget \subseteq Symbols

\* Between reloads the cache holds only symbols of the running set: a frame
\* that passed the subscription check before the list changed is in the cache
\* when forget runs, and none passes it later.
RetiredSymbolsStayOut ==
    swap.step = "idle" => CachedSymbols \subseteq DOMAIN tokens.addr

\* Whatever is uploaded, the set that requests resolve against is never empty
\* and never ambiguous: an address has one symbol, and the settlement token and
\* the placeholders have none.
RunningSetUnambiguous ==
    /\ DOMAIN tokens.addr # {}
    /\ \A s \in DOMAIN tokens.addr :
          tokens.addr[s] # QuoteToken /\ tokens.addr[s] \notin Placeholders
    /\ \A s, t \in DOMAIN tokens.addr : s # t => tokens.addr[s] # tokens.addr[t]

\* The latest copy is run if it is valid and reported as refused if not, and
\* a refused copy never hides a later good one.
LatestCopySettles ==
    \A g \in 1 .. MaxUploads + 1 :
       bucket.generation = g
          ~> \/ bucket.generation > g
             \/ Valid(bucket.file) /\ tokens.generation = g /\ rejected = 0
             \/ ~Valid(bucket.file) /\ rejected = g
=============================================================================
