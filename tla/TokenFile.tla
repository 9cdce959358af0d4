------------------------------ MODULE TokenFile ------------------------------
(***************************************************************************)
(* The token file as it is written (token_file.rs: project, merge,         *)
(* candidate, change; config.rs; reload.rs: decide): chains and their      *)
(* slots, edited by an operator one field at a time, and what boot and     *)
(* each check of the reload loop make of it.  An address is a text here:   *)
(* rows are compared as lower-cased texts, requests are resolved by bytes. *)
(*                                                                         *)
(* A check is one step: Reloader has the steps inside it.                  *)
(***************************************************************************)
EXTENDS Naturals, FiniteSets

CONSTANTS Equities,      \* the symbols that have a slot
          Names,         \* names of chains in the file
          ChainIds,      \* chain ids
          Bytes,         \* addresses, as bytes
          Placeholders,  \* the bottom 2^16 of them
          UsdcBase,      \* the quote token of a config that names none
          FirstFile,     \* the file the process may boot from
          Configs,       \* configurations a process may be started with
          MaxEdits       \* bound: edits of the file

ASSUME TokenFileAssumption ==
    /\ Placeholders \subseteq Bytes
    /\ UsdcBase \in Bytes \ Placeholders
    /\ IsFiniteSet(Names)
    /\ MaxEdits \in Nat

VARIABLES config,      \* static_config: the config table as parsed from disk
          file,        \* the latest copy in the bucket
          generation,  \* its generation
          pc,          \* "boot", "up", "refused"
          set,         \* TokenSet: [registry, projection, generation]
          rejected,    \* the generation last refused, 0 for none
          cached,      \* cached quotes: [symbol, since]: since, a history, is the
                       \* address the symbol had when the frame came
          accepted     \* history: the file last accepted

vars == <<config, file, generation, pc, set, rejected, cached, accepted>>

-----------------------------------------------------------------------------
(* Texts.                                                                  *)

\* An address with or without capitals, without 0x, one that is not an
\* address, or no such key.
Forms == {"lower", "mixed", "bare", "junk", "missing"}
Texts == [bytes : Bytes, form : Forms \ {"junk", "missing"}]
           \cup [bytes : {UsdcBase}, form : {"junk", "missing"}]

Present(text) == text.form # "missing"
Parses(text) == text.form \in {"lower", "mixed", "bare"}

\* Mutant: texts are compared as they are written.
AsWritten(text) == text

ToLowercase(text) ==
    [text EXCEPT !.form = IF @ = "mixed" THEN "lower" ELSE @]

-----------------------------------------------------------------------------
(* Files.  "other" is any other shape: a value that is neither word, no    *)
(* value, no table.                                                        *)

Slots == [pricing : {"enabled", "disabled", "other"},
          venues  : {"raindex", "elsewhere", "missing"},
          address : Texts]
ChainTables == [id : ChainIds, quote : Texts, slots : [Equities -> Slots]]
TokenFiles == [schema : {1, 2}, chains : [Names -> ChainTables]]

ASSUME FirstFileAssumption == FirstFile \in TokenFiles

-----------------------------------------------------------------------------
(* The projection.                                                         *)

Wrapped(s) == <<"wt", s>>

Priced(slot) == slot.pricing = "enabled" /\ slot.venues = "raindex"

\* One such slot refuses the file.
Broken(slot) ==
    \/ slot.pricing = "other"
    \/ slot.pricing = "enabled" /\ slot.venues = "missing"
    \/ Priced(slot) /\ ~Present(slot.address)

Matched(f, id) == {n \in Names : f.chains[n].id = id}

Projects(f, id) ==
    /\ f.schema = 1
    /\ Cardinality(Matched(f, id)) = 1
    /\ \A n \in Matched(f, id) :
          /\ Present(f.chains[n].quote)
          /\ \A s \in Equities : ~Broken(f.chains[n].slots[s])
          /\ \E s \in Equities : Priced(f.chains[n].slots[s])

Project(f, id) ==
    LET chain == f.chains[CHOOSE n \in Matched(f, id) : TRUE]
        served == {s \in Equities : Priced(chain.slots[s])}
    IN  [quote  |-> chain.quote,
         tokens |-> {<<Wrapped(s), chain.slots[s].address>> : s \in served}]

-----------------------------------------------------------------------------
(* Two projections.                                                        *)

Rows(p) == {<<row[1], ToLowercase(row[2])>> : row \in p.tokens}

\* Mutant: the symbols alone are compared.
SameSymbols(p, q) == {row[1] : row \in Rows(p)} = {row[1] : row \in Rows(q)}

SameAs(p, q) == Rows(p) = Rows(q) /\ ToLowercase(p.quote) = ToLowercase(q.quote)

SymbolsOf(rows) == {row[1] : row \in rows}
RemovedRows(p, q) == SymbolsOf(Rows(p)) \ SymbolsOf(Rows(q))

\* Mutant: a row that moved is one that is gone and added again.
NeverReaddressed(p, q) == {}

ReaddressedRows(p, q) ==
    {s \in SymbolsOf(Rows(p)) \cap SymbolsOf(Rows(q)) :
        \E a, b \in Texts : <<s, a>> \in Rows(p) /\ <<s, b>> \in Rows(q) /\ a # b}

-----------------------------------------------------------------------------
(* The configuration.                                                      *)

\* [registry |-> "none", "ok" or "bad", inline |-> rows of its own, chain,
\*  quote, pricing |-> whether ws_url and consumer are set]
Declared(c) == IF Present(c.quote) THEN c.quote ELSE [bytes |-> UsdcBase, form |-> "mixed"]

\* Config::validate_inner
Validates(c, tokens) ==
    LET quote == Declared(c)
    IN  /\ Parses(quote) /\ quote.bytes \notin Placeholders
        /\ \A row \in tokens : /\ Parses(row[2])
                               /\ row[2].bytes \notin Placeholders
                               /\ row[2].bytes # quote.bytes
        /\ \A r, t \in tokens : r[2].bytes = t[2].bytes => r = t
        /\ c.pricing

\* Mutant: rows of the config are replaced.
MergeReplaces(c, p) == ToLowercase(Declared(c)) = ToLowercase(p.quote)

MergeAccepts(c, p) ==
    /\ c.inline = {}
    /\ ToLowercase(Declared(c)) = ToLowercase(p.quote)

\* token_file::candidate succeeds.
Candidate(c, f) ==
    /\ Projects(f, c.chain)
    /\ LET p == Project(f, c.chain)
       IN  MergeAccepts(c, p) /\ Validates(c, p.tokens)

\* TokenRegistry::from_config: by bytes.
Registry(p) == {<<row[2].bytes, row[1]>> : row \in p.tokens}

TokenSet(f, g) ==
    LET p == Project(f, config.chain)
    IN  [registry |-> Registry(p), projection |-> p, generation |-> g]

\* serve_source, then boot's check.
Boots(c, f) == c.registry = "ok" /\ Candidate(c, f)

\* `validate PATH`, with or without --registry-file FILE.  A config without
\* [registry] is checked by its own rows and the file is not read.
Validate(c, f, given) ==
    \/ c.registry = "none" /\ c.inline # {} /\ Validates(c, c.inline)
    \/ c.registry = "ok" /\ given /\ Candidate(c, f)
    \/ c.registry = "ok" /\ ~given /\ c.inline = {} /\ Validates(c, {})

-----------------------------------------------------------------------------
NoTokens == [registry |-> {}, projection |-> [quote |-> [bytes |-> UsdcBase, form |-> "mixed"],
                                              tokens |-> {}], generation |-> 0]

Init == /\ config \in Configs
        /\ file = FirstFile /\ generation = 1
        /\ pc = "boot" /\ set = NoTokens /\ rejected = 0
        /\ cached = {} /\ accepted = FirstFile

Boot ==
    /\ pc = "boot"
    /\ IF Boots(config, file)
       THEN pc' = "up" /\ set' = TokenSet(file, generation) /\ accepted' = file
       ELSE pc' = "refused" /\ UNCHANGED <<set, accepted>>
    /\ UNCHANGED <<config, file, generation, rejected, cached>>

\* A frame of a listed symbol is cached in place of the symbol's last one.
\* The address it names may be any: only the handler looks at it (OracleServer),
\* so what is kept of a quote is the address its symbol had at the time.
Price ==
    /\ pc = "up"
    /\ \E row \in set.registry :
          cached' = {q \in cached : q.symbol # row[2]}
                      \cup {[symbol |-> row[2], since |-> row[1]]}
    /\ UNCHANGED <<config, file, generation, pc, set, rejected, accepted>>

Unread == generation # (IF rejected # 0 THEN rejected ELSE set.generation)

Refuse ==
    /\ pc = "up" /\ Unread
    /\ ~Candidate(config, file)
    /\ rejected' = generation
    /\ UNCHANGED <<config, file, generation, pc, set, cached, accepted>>

SameRows ==
    /\ pc = "up" /\ Unread
    /\ Candidate(config, file)
    /\ SameAs(Project(file, config.chain), set.projection)
    /\ set' = [set EXCEPT !.generation = generation]
    /\ rejected' = 0 /\ accepted' = file
    /\ UNCHANGED <<config, file, generation, pc, cached>>

Apply ==
    /\ pc = "up" /\ Unread
    /\ Candidate(config, file)
    /\ LET fresh == Project(file, config.chain)
           forget == RemovedRows(set.projection, fresh)
                       \cup ReaddressedRows(set.projection, fresh)
       IN  /\ ~SameAs(fresh, set.projection)
           /\ set' = TokenSet(file, generation)
           /\ cached' = {q \in cached : q.symbol \notin forget}
    /\ rejected' = 0 /\ accepted' = file
    /\ UNCHANGED <<config, file, generation, pc>>

\* One field of the file is edited and the file uploaded.
Uploaded(f) ==
    /\ generation <= MaxEdits
    /\ f # file
    /\ file' = f
    /\ generation' = generation + 1
    /\ UNCHANGED <<config, pc, set, rejected, cached, accepted>>

EditSlot(n, s) ==
    LET slot == file.chains[n].slots[s]
        Becomes(next) == Uploaded([file EXCEPT !.chains[n].slots[s] = next])
    IN  \/ \E v \in {"enabled", "disabled", "other"} : Becomes([slot EXCEPT !.pricing = v])
        \/ \E v \in {"raindex", "elsewhere", "missing"} : Becomes([slot EXCEPT !.venues = v])
        \/ \E text \in Texts : Becomes([slot EXCEPT !.address = text])

EditChain(n) ==
    \/ \E id \in ChainIds : Uploaded([file EXCEPT !.chains[n].id = id])
    \/ \E text \in Texts : Uploaded([file EXCEPT !.chains[n].quote = text])

EditSchema == \E v \in {1, 2} : Uploaded([file EXCEPT !.schema = v])

Next == \/ Boot \/ Price \/ Refuse \/ SameRows \/ Apply
        \/ \E n \in Names, s \in Equities : EditSlot(n, s)
        \/ \E n \in Names : EditChain(n)
        \/ EditSchema

Spec == Init /\ [][Next]_vars

-----------------------------------------------------------------------------
\* "The oracle takes from it the rows of the chain it serves: every slot with
\* pricing enabled whose venues list raindex": by bytes, the running registry
\* is exactly those slots of the file last accepted, also when that file was
\* taken to hold the same rows and the running set was kept.
ServesAcceptedSlots ==
    pc = "up" =>
       \E n \in Names :
          /\ \A m \in Names : accepted.chains[m].id = config.chain <=> m = n
          /\ set.registry = {<<accepted.chains[n].slots[s].address.bytes, Wrapped(s)>> :
                                s \in {t \in Equities : Priced(accepted.chains[n].slots[t])}}

\* "Their cached quotes are for the old token": every cached quote is of a
\* symbol that is served and came while the symbol was where it is now, whatever
\* reloads moved or dropped it before.  (A late frame that came after such a
\* reload may still name the old address: the handler refuses that one, see
\* PriceBoundToToken in OracleServer.)
NoQuoteFromBeforeMove == \A q \in cached : <<q.since, q.symbol>> \in set.registry

\* "Same rows and quote token, ignoring address case": a reload that moves no
\* token drops no quote, unless it adds or drops a 0x.
UnmovedKeepQuotes ==
    [][ (/\ set'.registry = set.registry
         /\ \A row \in set.projection.tokens \cup set'.projection.tokens :
               row[2].form # "bare")
        => cached \subseteq cached' ]_set

\* "A config that reads its tokens from the bucket is checked in full only with
\* a copy of the token file; without one, everything else is checked": what
\* runs would have passed `validate` both ways.
RunsWhatValidates ==
    pc = "up" => Validate(config, accepted, TRUE) /\ Validate(config, accepted, FALSE)
=============================================================================
