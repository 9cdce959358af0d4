--------------------------- MODULE TokenFileProofs ---------------------------
(***************************************************************************)
(* What a process makes of its token file, for any equities, chains,       *)
(* addresses and configurations and any number of edits.                   *)
(*                                                                         *)
(* A file taken to hold the same rows is accepted and the set in use kept, *)
(* so the set is not the projection of the file last accepted: RunInv says *)
(* they have the same rows but for the capitals of an address.             *)
(***************************************************************************)
EXTENDS TokenFile, FiniteSetTheorems, TLAPS

\* Rows as a projection has them.
RowSets == SUBSET ({Wrapped(s) : s \in Equities} \X Texts)

\* No symbol has two addresses.
Functional(tokens) == \A r, t \in tokens : r[1] = t[1] => r = t

\* The served slots of one chain of the file, as rows and as the registry.
RowsOf(f, n) ==
    {<<Wrapped(s), f.chains[n].slots[s].address>> :
        s \in {t \in Equities : Priced(f.chains[n].slots[t])}}
EntriesOf(f, n) ==
    {<<f.chains[n].slots[s].address.bytes, Wrapped(s)>> :
        s \in {t \in Equities : Priced(f.chains[n].slots[t])}}

\* The running set s, under configuration c, and the file last accepted f.
Serves(c, s, f) ==
    /\ c.registry = "ok" /\ Candidate(c, f)
    /\ s.projection.tokens \in RowSets
    /\ Functional(s.projection.tokens)
    /\ Validates(c, s.projection.tokens)
    /\ s.registry = Registry(s.projection)
    /\ Rows(Project(f, c.chain)) = Rows(s.projection)

RunInv ==
    /\ file \in TokenFiles /\ accepted \in TokenFiles
    /\ DOMAIN set = {"registry", "projection", "generation"}
    /\ pc # "up" => cached = {}
    /\ pc = "up" => Serves(config, set, accepted)
    /\ NoQuoteFromBeforeMove

-----------------------------------------------------------------------------
(* Texts and rows.                                                         *)

LEMMA LowerText ==
    ASSUME NEW t \in Texts
    PROVE  /\ ToLowercase(t) \in Texts
           /\ ToLowercase(t).bytes = t.bytes
           /\ t.form \in {"lower", "mixed"} => ToLowercase(t).form = "lower"
BY DEF Texts, Forms, ToLowercase

LEMMA TextEquality ==
    ASSUME NEW a \in Texts, NEW b \in Texts, a.bytes = b.bytes, a.form = b.form
    PROVE  a = b
BY DEF Texts

LEMMA RowParts ==
    ASSUME NEW tokens \in RowSets, NEW row \in tokens
    PROVE  /\ row = <<row[1], row[2]>> /\ row[2] \in Texts
           /\ \E s \in Equities : row[1] = Wrapped(s)
BY DEF RowSets

\* A registry can be read off lower-cased rows.
LEMMA RegistryOfRows ==
    ASSUME NEW p, p.tokens \in RowSets
    PROVE  Registry(p) = {<<row[2].bytes, row[1]>> : row \in Rows(p)}
<1>1. \A row \in p.tokens : ToLowercase(row[2]).bytes = row[2].bytes
  BY RowParts, LowerText
<1>2. ASSUME NEW r \in p.tokens
      PROVE  \E row \in Rows(p) : <<r[2].bytes, r[1]>> = <<row[2].bytes, row[1]>>
  <2>1. <<r[1], ToLowercase(r[2])>> \in Rows(p)
    BY DEF Rows
  <2> QED BY <1>1, <2>1
<1>3. ASSUME NEW row \in Rows(p)
      PROVE  \E r \in p.tokens : <<row[2].bytes, row[1]>> = <<r[2].bytes, r[1]>>
  <2>1. PICK r \in p.tokens : row = <<r[1], ToLowercase(r[2])>>
    BY DEF Rows
  <2> QED BY <1>1, <2>1
<1> QED BY <1>2, <1>3 DEF Registry

LEMMA SameRegistry ==
    ASSUME NEW p, NEW q, p.tokens \in RowSets, q.tokens \in RowSets, Rows(p) = Rows(q)
    PROVE  Registry(p) = Registry(q)
BY RegistryOfRows

-----------------------------------------------------------------------------
(* What a file that projects projects to.                                  *)

\* One chain of the file has the id that is served.
LEMMA OneChain ==
    ASSUME NEW f, NEW id, Projects(f, id)
    PROVE  \E n \in Names : Matched(f, id) = {n}
<1>1. IsFiniteSet(Matched(f, id))
  <2>1. Matched(f, id) \subseteq Names
    BY DEF Matched
  <2> QED BY <2>1, TokenFileAssumption, FS_Subset
<1>2. \E n : Matched(f, id) = {n}
  BY <1>1, FS_Singleton DEF Projects
<1> QED BY <1>2 DEF Matched

LEMMA ProjectsTo ==
    ASSUME NEW f, NEW id, NEW n \in Names, Matched(f, id) = {n}
    PROVE  /\ Project(f, id).tokens = RowsOf(f, n)
           /\ Project(f, id).quote = f.chains[n].quote
<1>1. (CHOOSE m \in Matched(f, id) : TRUE) = n
  BY Zenon
<1> QED BY <1>1 DEF Project, RowsOf

LEMMA RowsTyped ==
    ASSUME NEW f \in TokenFiles, NEW n \in Names
    PROVE  /\ RowsOf(f, n) \in RowSets
           /\ Functional(RowsOf(f, n))
           /\ \A p : p.tokens = RowsOf(f, n) => Registry(p) = EntriesOf(f, n)
<1>1. \A s \in Equities : f.chains[n].slots[s].address \in Texts
  BY DEF TokenFiles, ChainTables, Slots
<1>2. RowsOf(f, n) \in RowSets
  BY <1>1 DEF RowsOf, RowSets
<1>3. Functional(RowsOf(f, n))
  BY DEF Functional, RowsOf, Wrapped
<1>4. \A p : p.tokens = RowsOf(f, n) => Registry(p) = EntriesOf(f, n)
  <2> SUFFICES ASSUME NEW p, p.tokens = RowsOf(f, n)
               PROVE  Registry(p) = EntriesOf(f, n)
    OBVIOUS
  <2>1. ASSUME NEW r \in p.tokens
        PROVE  <<r[2].bytes, r[1]>> \in EntriesOf(f, n)
    BY DEF RowsOf, EntriesOf
  <2>2. ASSUME NEW e \in EntriesOf(f, n)
        PROVE  \E r \in p.tokens : e = <<r[2].bytes, r[1]>>
    <3>1. PICK s \in {t \in Equities : Priced(f.chains[n].slots[t])} :
              e = <<f.chains[n].slots[s].address.bytes, Wrapped(s)>>
      BY DEF EntriesOf
    <3>2. <<Wrapped(s), f.chains[n].slots[s].address>> \in p.tokens
      BY DEF RowsOf
    <3> QED BY <3>1, <3>2
  <2> QED BY <2>1, <2>2 DEF Registry
<1> QED BY <1>2, <1>3, <1>4

\* A file that is accepted can be served as it is.
LEMMA CandidateServes ==
    ASSUME NEW c, NEW f \in TokenFiles, NEW s, c.registry = "ok", Candidate(c, f),
           s.projection = Project(f, c.chain), s.registry = Registry(s.projection)
    PROVE  Serves(c, s, f)
<1>1. PICK n \in Names : Matched(f, c.chain) = {n}
  BY OneChain DEF Candidate
<1>2. s.projection.tokens = RowsOf(f, n)
  BY <1>1, ProjectsTo
<1>3. s.projection.tokens \in RowSets /\ Functional(s.projection.tokens)
  BY <1>2, RowsTyped
<1>4. Validates(c, s.projection.tokens)
  BY DEF Candidate
<1> QED BY <1>3, <1>4 DEF Serves

-----------------------------------------------------------------------------
(* Edits.                                                                  *)

LEMMA SlotEdited ==
    ASSUME NEW f \in TokenFiles, NEW n \in Names, NEW s \in Equities, NEW new \in Slots
    PROVE  [f EXCEPT !.chains[n].slots[s] = new] \in TokenFiles
<1>1. f.chains[n] \in ChainTables
  BY DEF TokenFiles
<1>2. [f.chains[n] EXCEPT !.slots[s] = new] \in ChainTables
  BY <1>1 DEF ChainTables
<1>3. [f EXCEPT !.chains[n].slots[s] = new]
        = [f EXCEPT !.chains[n] = [f.chains[n] EXCEPT !.slots[s] = new]]
  BY DEF TokenFiles, ChainTables
<1> DEFINE t == [f.chains[n] EXCEPT !.slots[s] = new]
<1>4. t \in ChainTables
  BY <1>2
<1>5. [f EXCEPT !.chains[n].slots[s] = new] = [f EXCEPT !.chains[n] = t]
  BY <1>3
<1> HIDE DEF t
<1>6. [f EXCEPT !.chains[n] = t] \in TokenFiles
  BY <1>4 DEF TokenFiles
<1> QED BY <1>5, <1>6

LEMMA ChainEdited ==
    ASSUME NEW f \in TokenFiles, NEW n \in Names
    PROVE  /\ \A id \in ChainIds : [f EXCEPT !.chains[n].id = id] \in TokenFiles
           /\ \A text \in Texts : [f EXCEPT !.chains[n].quote = text] \in TokenFiles
           /\ \A v \in {1, 2} : [f EXCEPT !.schema = v] \in TokenFiles
BY DEF TokenFiles, ChainTables

\* An upload changes the file, its generation, and nothing else.
Edited == /\ file' \in TokenFiles
          /\ UNCHANGED <<config, pc, set, rejected, cached, accepted>>

LEMMA Edits ==
    ASSUME file \in TokenFiles
    PROVE  /\ \A n \in Names, s \in Equities : EditSlot(n, s) => Edited
           /\ \A n \in Names : EditChain(n) => Edited
           /\ EditSchema => Edited
<1>1. ASSUME NEW n \in Names, NEW s \in Equities, EditSlot(n, s)
      PROVE  Edited
  <2> DEFINE slot == file.chains[n].slots[s]
  <2>1. slot \in Slots
    BY DEF TokenFiles, ChainTables
  <2>2. /\ \A v \in {"enabled", "disabled", "other"} : [slot EXCEPT !.pricing = v] \in Slots
        /\ \A v \in {"raindex", "elsewhere", "missing"} : [slot EXCEPT !.venues = v] \in Slots
        /\ \A text \in Texts : [slot EXCEPT !.address = text] \in Slots
    <3> HIDE DEF slot
    <3> QED BY <2>1 DEF Slots
  <2>3. PICK new \in Slots : Uploaded([file EXCEPT !.chains[n].slots[s] = new])
    BY <1>1, <2>2 DEF EditSlot
  <2> QED BY <2>3, SlotEdited DEF Uploaded, Edited
<1>2. ASSUME NEW n \in Names, EditChain(n)
      PROVE  Edited
  <2>1. \/ \E id \in ChainIds : Uploaded([file EXCEPT !.chains[n].id = id])
        \/ \E text \in Texts : Uploaded([file EXCEPT !.chains[n].quote = text])
    BY <1>2 DEF EditChain
  <2>2. \E f \in TokenFiles : Uploaded(f)
    <3>1. /\ \A id \in ChainIds : [file EXCEPT !.chains[n].id = id] \in TokenFiles
          /\ \A text \in Texts : [file EXCEPT !.chains[n].quote = text] \in TokenFiles
      BY ChainEdited
    <3>2. CASE \E id \in ChainIds : Uploaded([file EXCEPT !.chains[n].id = id])
      <4>1. PICK id \in ChainIds : Uploaded([file EXCEPT !.chains[n].id = id])
        BY <3>2
      <4>2. [file EXCEPT !.chains[n].id = id] \in TokenFiles
        BY <3>1
      <4> QED BY <4>1, <4>2
    <3>3. CASE \E text \in Texts : Uploaded([file EXCEPT !.chains[n].quote = text])
      <4>1. PICK text \in Texts : Uploaded([file EXCEPT !.chains[n].quote = text])
        BY <3>3
      <4>2. [file EXCEPT !.chains[n].quote = text] \in TokenFiles
        BY <3>1
      <4> QED BY <4>1, <4>2
    <3> QED BY <2>1, <3>2, <3>3
  <2> QED BY <2>2 DEF Uploaded, Edited
<1>3. ASSUME EditSchema
      PROVE  Edited
  <2>1. \A v \in {1, 2} : [file EXCEPT !.schema = v] \in TokenFiles
    BY DEF TokenFiles
  <2> QED BY <1>3, <2>1 DEF EditSchema, Uploaded, Edited
<1> QED BY <1>1, <1>2, <1>3

-----------------------------------------------------------------------------
(* The invariant.                                                          *)

LEMMA RunInit == Init => RunInv
BY FirstFileAssumption DEF Init, NoTokens, RunInv, NoQuoteFromBeforeMove

\* A new set keeps the cached quotes of the rows that are in it unmoved.
LEMMA KeptQuotes ==
    ASSUME NEW p, NEW q, p.tokens \in RowSets, q.tokens \in RowSets,
           NEW row \in Registry(p),
           row[2] \notin RemovedRows(p, q) \cup ReaddressedRows(p, q)
    PROVE  row \in Registry(q)
<1>1. PICK r \in p.tokens : row = <<r[2].bytes, r[1]>>
  BY DEF Registry
<1>2. r[2] \in Texts /\ <<r[1], ToLowercase(r[2])>> \in Rows(p)
  BY RowParts DEF Rows
<1>3. r[1] \in SymbolsOf(Rows(p))
  BY <1>2 DEF SymbolsOf
<1>4. r[1] \in SymbolsOf(Rows(q))
  BY <1>1, <1>3 DEF RemovedRows
<1>5. PICK t \in q.tokens : r[1] = t[1]
  BY <1>4 DEF SymbolsOf, Rows
<1>6. t[2] \in Texts /\ <<r[1], ToLowercase(t[2])>> \in Rows(q)
  BY <1>5, RowParts DEF Rows
<1>7. ToLowercase(r[2]) = ToLowercase(t[2])
  BY <1>1, <1>2, <1>3, <1>4, <1>6, LowerText DEF ReaddressedRows
<1>8. r[2].bytes = t[2].bytes
  BY <1>2, <1>6, <1>7, LowerText
<1> QED BY <1>1, <1>5, <1>8 DEF Registry

LEMMA BootNext ==
    ASSUME RunInv, Boot
    PROVE  RunInv'
<1>1. CASE Boots(config, file)
  <2>1. /\ pc' = "up" /\ set' = TokenSet(file, generation) /\ accepted' = file
        /\ config' = config /\ file' = file /\ cached' = cached /\ cached = {}
    BY <1>1 DEF Boot, RunInv
  <2>2. /\ DOMAIN set' = {"registry", "projection", "generation"}
        /\ set'.projection = Project(file, config.chain)
        /\ set'.registry = Registry(set'.projection)
    BY <2>1 DEF TokenSet
  <2>3. Serves(config, set', file)
    BY <1>1, <2>2, CandidateServes DEF Boots, RunInv
  <2> QED BY <2>1, <2>2, <2>3 DEF RunInv, Serves, NoQuoteFromBeforeMove
<1>2. CASE ~Boots(config, file)
  BY <1>2 DEF Boot, RunInv, NoQuoteFromBeforeMove
<1> QED BY <1>1, <1>2

LEMMA SameRowsNext ==
    ASSUME RunInv, SameRows
    PROVE  RunInv'
<1>1. /\ pc = "up" /\ pc' = "up" /\ config' = config /\ file' = file
      /\ accepted' = file /\ cached' = cached
      /\ Candidate(config, file)
      /\ Rows(Project(file, config.chain)) = Rows(set.projection)
  BY DEF SameRows, SameAs
<1>2. /\ DOMAIN set' = {"registry", "projection", "generation"}
      /\ set'.registry = set.registry /\ set'.projection = set.projection
  BY DEF SameRows, RunInv
<1>3. Serves(config, set', file)
  BY <1>1, <1>2 DEF RunInv, Serves
<1> QED BY <1>1, <1>2, <1>3 DEF RunInv, Serves, NoQuoteFromBeforeMove

\* What a reload that brings other rows does.
LEMMA Applied ==
    ASSUME RunInv, Apply
    PROVE  /\ pc = "up" /\ pc' = "up" /\ config' = config /\ file' = file /\ accepted' = file
           /\ DOMAIN set' = {"registry", "projection", "generation"}
           /\ Serves(config, set, accepted) /\ Serves(config, set', file)
           /\ cached' = {q \in cached : q.symbol \notin RemovedRows(set.projection, set'.projection)
                                          \cup ReaddressedRows(set.projection, set'.projection)}
<1>1. /\ DOMAIN set' = {"registry", "projection", "generation"}
      /\ set'.projection = Project(file, config.chain)
      /\ set'.registry = Registry(set'.projection)
  BY DEF Apply, TokenSet
<1>2. Serves(config, set, accepted) /\ config.registry = "ok"
  BY DEF Apply, RunInv, Serves
<1>3. Serves(config, set', file)
  BY <1>1, <1>2, CandidateServes DEF Apply, RunInv
<1> QED BY <1>1, <1>2, <1>3 DEF Apply

LEMMA ApplyNext ==
    ASSUME RunInv, Apply
    PROVE  RunInv'
<1>1. NoQuoteFromBeforeMove'
  <2>1. /\ set.registry = Registry(set.projection) /\ set.projection.tokens \in RowSets
        /\ set'.registry = Registry(set'.projection) /\ set'.projection.tokens \in RowSets
    BY Applied DEF Serves
  <2> SUFFICES ASSUME NEW q \in cached'
               PROVE  <<q.since, q.symbol>> \in set'.registry
    BY DEF NoQuoteFromBeforeMove
  <2>2. /\ <<q.since, q.symbol>> \in Registry(set.projection)
        /\ q.symbol \notin RemovedRows(set.projection, set'.projection)
                             \cup ReaddressedRows(set.projection, set'.projection)
    BY <2>1, Applied DEF RunInv, NoQuoteFromBeforeMove
  <2> QED BY <2>1, <2>2, KeptQuotes
<1> QED BY <1>1, Applied DEF RunInv, Serves

LEMMA RunNext == RunInv /\ [Next]_vars => RunInv'
<1> SUFFICES ASSUME RunInv, [Next]_vars PROVE RunInv'
  OBVIOUS
<1>1. CASE Price
  <2>1. /\ pc = "up" /\ set.registry = Registry(set.projection)
        /\ UNCHANGED <<config, file, generation, pc, set, rejected, accepted>>
    BY <1>1 DEF Price, RunInv, Serves
  <2>2. PICK row \in set.registry :
           cached' = {q \in cached : q.symbol # row[2]}
                       \cup {[symbol |-> row[2], since |-> row[1]]}
    BY <1>1 DEF Price
  <2>3. row = <<row[1], row[2]>>
    BY <2>1 DEF Registry
  <2>4. ASSUME NEW q \in cached'
        PROVE  <<q.since, q.symbol>> \in set.registry
    <3>1. CASE q \in cached
      BY <3>1 DEF RunInv, NoQuoteFromBeforeMove
    <3>2. CASE q = [symbol |-> row[2], since |-> row[1]]
      <4>1. q.since = row[1] /\ q.symbol = row[2]
        BY <3>2
      <4> QED BY <2>3, <4>1
    <3> QED BY <2>2, <3>1, <3>2
  <2>5. NoQuoteFromBeforeMove'
    BY <2>1, <2>4 DEF NoQuoteFromBeforeMove
  <2>6. (pc # "up" => cached = {})' /\ (pc = "up" => Serves(config, set, accepted))'
    BY <2>1 DEF RunInv, Serves
  <2> QED BY <2>1, <2>5, <2>6 DEF RunInv
<1>2. CASE Refuse
  BY <1>2 DEF Refuse, RunInv, Serves, NoQuoteFromBeforeMove
<1>3. CASE Edited
  BY <1>3 DEF Edited, RunInv, Serves, NoQuoteFromBeforeMove
<1>4. CASE UNCHANGED vars
  BY <1>4 DEF vars, RunInv, Serves, NoQuoteFromBeforeMove
<1>5. Boot \/ Price \/ Refuse \/ SameRows \/ Apply \/ Edited \/ UNCHANGED vars
  BY Edits DEF Next, RunInv
<1> QED BY <1>1, <1>2, <1>3, <1>4, <1>5, BootNext, SameRowsNext, ApplyNext

LEMMA RunAlways == Spec => []RunInv
BY RunInit, RunNext, PTL DEF Spec

-----------------------------------------------------------------------------
(* The theorems.                                                           *)

\* By bytes, the running registry is exactly the served slots of the one chain
\* with the configured id, in the file last accepted.
THEOREM SlotsServed == Spec => []ServesAcceptedSlots
<1>1. RunInv => ServesAcceptedSlots
  <2> SUFFICES ASSUME RunInv, pc = "up" PROVE ServesAcceptedSlots
    BY DEF ServesAcceptedSlots
  <2>1. Serves(config, set, accepted) /\ accepted \in TokenFiles
    BY DEF RunInv
  <2>2. PICK n \in Names : Matched(accepted, config.chain) = {n}
    BY <2>1, OneChain DEF Serves, Candidate
  <2>3. Project(accepted, config.chain).tokens = RowsOf(accepted, n)
    BY <2>2, ProjectsTo
  <2>4. Registry(Project(accepted, config.chain)) = EntriesOf(accepted, n)
    BY <2>1, <2>3, RowsTyped
  <2>5. Registry(Project(accepted, config.chain)) = Registry(set.projection)
    BY <2>1, <2>3, RowsTyped, SameRegistry DEF Serves
  <2>6. set.registry = EntriesOf(accepted, n)
    BY <2>1, <2>4, <2>5 DEF Serves
  <2>7. \A m \in Names : accepted.chains[m].id = config.chain <=> m = n
    BY <2>2 DEF Matched
  <2> QED BY <2>6, <2>7 DEF ServesAcceptedSlots, EntriesOf
<1> QED BY <1>1, RunAlways, PTL

\* A cached quote came while its symbol had the address it has in the running
\* set, for any files and edits: none outlives the reload that moved its symbol.
THEOREM OldQuotesGone == Spec => []NoQuoteFromBeforeMove
<1>1. RunInv => NoQuoteFromBeforeMove
  BY DEF RunInv
<1> QED BY <1>1, RunAlways, PTL

\* What runs would have passed `validate`, with the token file and without.
THEOREM RunsValidated == Spec => []RunsWhatValidates
<1>1. RunInv => RunsWhatValidates
  <2> SUFFICES ASSUME RunInv, pc = "up"
               PROVE  /\ Validate(config, accepted, TRUE)
                      /\ Validate(config, accepted, FALSE)
    BY DEF RunsWhatValidates
  <2>1. config.registry = "ok" /\ Candidate(config, accepted)
    BY DEF RunInv, Serves
  <2>2. config.inline = {} /\ Validates(config, {})
    BY <2>1 DEF Candidate, MergeAccepts, Validates
  <2> QED BY <2>1, <2>2 DEF Validate
<1> QED BY <1>1, RunAlways, PTL

\* Neither set has a text without 0x and the addresses are the same bytes:
\* no symbol is removed or readdressed.
LEMMA NoneForgotten ==
    ASSUME NEW c, NEW p, NEW q, p.tokens \in RowSets, q.tokens \in RowSets,
           Functional(q.tokens), Validates(c, p.tokens), Validates(c, q.tokens),
           Registry(p) = Registry(q),
           \A row \in p.tokens \cup q.tokens : row[2].form # "bare"
    PROVE  RemovedRows(p, q) = {} /\ ReaddressedRows(p, q) = {}
<1>1. \A r \in p.tokens : \E t \in q.tokens : r[1] = t[1] /\ r[2].bytes = t[2].bytes
  <2> SUFFICES ASSUME NEW r \in p.tokens
               PROVE  \E t \in q.tokens : r[1] = t[1] /\ r[2].bytes = t[2].bytes
    OBVIOUS
  <2>1. <<r[2].bytes, r[1]>> \in Registry(p)
    BY DEF Registry
  <2>2. PICK t \in q.tokens : <<r[2].bytes, r[1]>> = <<t[2].bytes, t[1]>>
    BY <2>1 DEF Registry
  <2> QED BY <2>2
<1>2. \A r \in p.tokens \cup q.tokens :
         r[2] \in Texts /\ ToLowercase(r[2]).form = "lower"
                        /\ ToLowercase(r[2]).bytes = r[2].bytes
                        /\ ToLowercase(r[2]) \in Texts
  BY RowParts, LowerText DEF Validates, Parses
<1>3. RemovedRows(p, q) = {}
  <2> SUFFICES ASSUME NEW s \in SymbolsOf(Rows(p))
               PROVE  s \in SymbolsOf(Rows(q))
    BY DEF RemovedRows
  <2>1. PICK r \in p.tokens : s = r[1]
    BY DEF SymbolsOf, Rows
  <2>2. PICK t \in q.tokens : s = t[1]
    BY <1>1, <2>1
  <2>3. <<t[1], ToLowercase(t[2])>> \in Rows(q)
    BY DEF Rows
  <2> QED BY <2>2, <2>3 DEF SymbolsOf
<1>4. ASSUME NEW s, NEW a, NEW b, <<s, a>> \in Rows(p), <<s, b>> \in Rows(q)
      PROVE  a = b
  <2>1. PICK r \in p.tokens : s = r[1] /\ a = ToLowercase(r[2])
    BY <1>4 DEF Rows
  <2>2. PICK t \in q.tokens : s = t[1] /\ b = ToLowercase(t[2])
    BY <1>4 DEF Rows
  <2>3. r[2].bytes = t[2].bytes
    BY <1>1, <2>1, <2>2 DEF Functional
  <2> QED BY <1>2, <2>1, <2>2, <2>3, TextEquality
<1> QED BY <1>3, <1>4 DEF ReaddressedRows

\* A reload that moves no token drops no quote, unless it adds or drops a 0x.
THEOREM UnmovedKept == Spec => UnmovedKeepQuotes
<1> DEFINE Kept == (/\ set'.registry = set.registry
                    /\ \A row \in set.projection.tokens \cup set'.projection.tokens :
                          row[2].form # "bare")
                   => cached \subseteq cached'
<1>1. ASSUME RunInv, [Next]_vars
      PROVE  [Kept]_set
  <2>1. CASE Apply
    <3> SUFFICES ASSUME set'.registry = set.registry,
                        \A row \in set.projection.tokens \cup set'.projection.tokens :
                           row[2].form # "bare"
                 PROVE  cached \subseteq cached'
      OBVIOUS
    <3>1. /\ Serves(config, set, accepted) /\ Serves(config, set', file)
      BY <1>1, <2>1, Applied
    <3>2. /\ RemovedRows(set.projection, set'.projection) = {}
          /\ ReaddressedRows(set.projection, set'.projection) = {}
      BY <3>1, NoneForgotten DEF Serves
    <3> QED BY <1>1, <2>1, <3>2, Applied
  <2>2. CASE Boot \/ SameRows
    BY <2>2 DEF Boot, SameRows
  <2>3. CASE Price \/ Refuse \/ Edited \/ UNCHANGED vars
    BY <2>3 DEF Price, Refuse, Edited, vars
  <2> QED BY <1>1, <2>1, <2>2, <2>3, Edits DEF Next, RunInv
<1>2. RunInv /\ [Next]_vars => [Kept]_set
  BY <1>1
<1> QED BY <1>2, RunAlways, PTL DEF Spec, UnmovedKeepQuotes
=============================================================================
