-------------------------- MODULE OracleServerProofs --------------------------
(***************************************************************************)
(* The request handlers, for any number of handlers, batches, chains,      *)
(* symbols, frames and token files.                                        *)
(*                                                                         *)
(* First part: a price that was disowned is never accepted.  An entry of   *)
(* the quote cache that somebody holds is either of a revoked generation   *)
(* or undisturbed since its frame (Current, kept by every operation of the *)
(* cache: RegistryProofs).  A slot that has an answer holds the generation *)
(* of the quote it was built from, whether it was signed or reused, and    *)
(* the final pass asks that generation.                                    *)
(***************************************************************************)
EXTENDS OracleServer, RegistryProofs

SlotFields == {"phase", "err", "input", "output", "pair", "resp", "validity"}

\* The handlers' variables are functions, their slots records.
Shape ==
    /\ DOMAIN pc = Handlers /\ DOMAIN slot = Handlers
    /\ DOMAIN snap = Handlers /\ DOMAIN recheck = Handlers
    /\ \A r \in Handlers : \A i \in DOMAIN slot[r] : DOMAIN slot[r][i] = SlotFields

Dormant == {"queued", "failed"}

\* Nothing is built before the snapshot the build reads.
NothingBuilt ==
    \A r \in Handlers : pc[r] = "snapshot" =>
       \A i \in DOMAIN slot[r] : slot[r][i].phase \in Dormant

\* A slot past admission has its quote in the snapshot.
QuoteInSnapshot ==
    \A r \in Handlers : \A i \in DOMAIN slot[r] :
       slot[r][i].phase \notin Dormant => slot[r][i].pair.symbol \in DOMAIN snap[r]

SnapshotsCurrent ==
    \A r \in Handlers :
       /\ \A s \in DOMAIN snap[r] : Current(<<ChainId, s>>, snap[r][s])
       /\ \A s \in DOMAIN recheck[r] : Current(<<ChainId, s>>, recheck[r][s])

StoredCurrent ==
    \A key \in DOMAIN reuse :
       /\ reuse[key].gen = reuse[key].resp.gen
       /\ Current(<<ChainId, key.symbol>>, reuse[key].resp)

\* What a slot with an answer holds.
AnswerCurrent(r, i, resp) ==
    /\ resp.gen = Entry(r, i).gen
    /\ Current(<<ChainId, slot[r][i].pair.symbol>>, resp)

AnswersCurrent ==
    \A r \in Handlers : \A i \in DOMAIN slot[r] :
       slot[r][i].phase \in Answered => AnswerCurrent(r, i, slot[r][i].resp)

ServerInv == /\ CacheInv
             /\ Shape /\ NothingBuilt /\ QuoteInSnapshot
             /\ SnapshotsCurrent /\ StoredCurrent /\ AnswersCurrent

-----------------------------------------------------------------------------
LEMMA ServerInitInv == Init => ServerInv
<1> SUFFICES ASSUME Init PROVE ServerInv
    OBVIOUS
<1>1. CacheInv
    BY CacheInitInv DEF Init
<1>2. Shape /\ NothingBuilt /\ QuoteInSnapshot /\ AnswersCurrent
    BY DEF Init, Shape, NothingBuilt, QuoteInSnapshot, AnswersCurrent
<1>3. SnapshotsCurrent
    BY DEF Init, NoQuotes, SnapshotsCurrent
<1>4. StoredCurrent
    BY DEF Init, ReuseInit, StoredCurrent
<1> QED BY <1>1, <1>2, <1>3, <1>4 DEF ServerInv

-----------------------------------------------------------------------------
(* Steps of the others: the cache moves under the holders.                  *)

LEMMA OthersStep ==
    ASSUME ServerInv, CacheInv', HoldersKept, UNCHANGED <<reuse, handlerVars>>
    PROVE  ServerInv'
<1>1. Shape' /\ NothingBuilt' /\ QuoteInSnapshot'
    BY DEF ServerInv, handlerVars, Shape, NothingBuilt, QuoteInSnapshot
<1>2. SnapshotsCurrent'
    <2>1. \A r \in Handlers :
             /\ \A s \in DOMAIN snap[r] : CurrentAfter(<<ChainId, s>>, snap[r][s])
             /\ \A s \in DOMAIN recheck[r] : CurrentAfter(<<ChainId, s>>, recheck[r][s])
        BY DEF ServerInv, SnapshotsCurrent, HoldersKept
    <2> QED BY <2>1 DEF handlerVars, SnapshotsCurrent, CurrentAfter, Current
<1>3. StoredCurrent'
    <2>1. \A key \in DOMAIN reuse : /\ reuse[key].gen = reuse[key].resp.gen
                                    /\ CurrentAfter(<<ChainId, key.symbol>>, reuse[key].resp)
        BY DEF ServerInv, StoredCurrent, HoldersKept
    <2> QED BY <2>1 DEF StoredCurrent, CurrentAfter, Current
<1>4. AnswersCurrent'
    <2>1. \A r \in Handlers : \A i \in DOMAIN slot[r] :
             slot[r][i].phase \in Answered =>
                /\ slot[r][i].resp.gen = Entry(r, i).gen
                /\ CurrentAfter(<<ChainId, slot[r][i].pair.symbol>>, slot[r][i].resp)
        BY DEF ServerInv, AnswersCurrent, AnswerCurrent, HoldersKept
    <2> QED BY <2>1 DEF handlerVars, AnswersCurrent, AnswerCurrent, CurrentAfter,
                        Current, Entry
<1> QED BY <1>1, <1>2, <1>3, <1>4 DEF ServerInv

-----------------------------------------------------------------------------
(* Steps of a handler: the cache stands still.                              *)

LEMMA StoredKept ==
    ASSUME ServerInv, UNCHANGED <<cacheVars, reuse>>
    PROVE  StoredCurrent'
BY DEF ServerInv, cacheVars, StoredCurrent, Current

\* A slot moves to s.  All that its builder has to show is that an answer in s
\* comes from the snapshot's generation.
LEMMA SlotStep ==
    ASSUME ServerInv, UNCHANGED cacheVars, StoredCurrent',
           NEW r \in Handlers, NEW i \in DOMAIN slot[r], NEW s,
           slot' = [slot EXCEPT ![r][i] = s],
           UNCHANGED <<snap, recheck>>,
           pc' = pc \/ pc' = [pc EXCEPT ![r] = "error"],
           pc[r] # "snapshot",
           DOMAIN s = SlotFields,
           s.pair = slot[r][i].pair,
           s.phase \notin Dormant => s.pair.symbol \in DOMAIN snap[r],
           s.phase \in Answered => AnswerCurrent(r, i, s.resp)
    PROVE  ServerInv'
<1>1. /\ DOMAIN slot' = Handlers
      /\ \A q \in Handlers : DOMAIN slot'[q] = DOMAIN slot[q]
      /\ \A q \in Handlers : \A j \in DOMAIN slot[q] :
            slot'[q][j] = IF q = r /\ j = i THEN s ELSE slot[q][j]
    BY DEF ServerInv, Shape
<1>2. CacheInv'
    BY QuietKeeps DEF ServerInv
<1>3. Shape'
    BY <1>1 DEF ServerInv, Shape
<1>4. NothingBuilt'
    BY <1>1 DEF ServerInv, Shape, NothingBuilt
<1>5. QuoteInSnapshot'
    BY <1>1 DEF ServerInv, QuoteInSnapshot
<1>6. SnapshotsCurrent'
    BY DEF ServerInv, SnapshotsCurrent, cacheVars, Current
<1>7. AnswersCurrent'
    <2> SUFFICES ASSUME NEW q \in Handlers, NEW j \in DOMAIN slot[q],
                        slot'[q][j].phase \in Answered
                 PROVE  AnswerCurrent(q, j, slot[q][j].resp)'
        BY <1>1 DEF AnswersCurrent
    <2>1. slot'[q][j].pair = slot[q][j].pair
        BY <1>1
    <2>2. AnswerCurrent(q, j, slot'[q][j].resp)
        BY <1>1 DEF ServerInv, AnswersCurrent
    <2> QED BY <2>1, <2>2 DEF AnswerCurrent, Current, cacheVars, Entry
<1> QED BY <1>2, <1>3, <1>4, <1>5, <1>6, <1>7 DEF ServerInv

\* A slot fails, alone or with its request.
LEMMA FailStep ==
    ASSUME ServerInv, UNCHANGED <<cacheVars, reuse>>,
           NEW r \in Handlers, NEW i \in DOMAIN slot[r], NEW code,
           Fail(r, i, code), pc[r] # "snapshot"
    PROVE  ServerInv'
<1> DEFINE s == Failed(slot[r][i], code)
<1>1. DOMAIN s = SlotFields /\ s.pair = slot[r][i].pair /\ s.phase = "failed"
    BY DEF Failed, ServerInv, Shape, SlotFields
<1>2. s.phase \in Dormant /\ s.phase \notin Answered
    BY <1>1 DEF Dormant, Answered
<1>3. StoredCurrent'
    BY StoredKept
<1> HIDE DEF s
<1>4. slot' = [slot EXCEPT ![r][i] = s] /\ UNCHANGED <<snap, recheck>>
      /\ (pc' = pc \/ pc' = [pc EXCEPT ![r] = "error"])
    BY DEF Fail, s
<1> QED BY <1>1, <1>2, <1>3, <1>4, SlotStep

\* A slot moves to phase p and keeps the answer it has, if any.
LEMMA PhaseStep ==
    ASSUME ServerInv, UNCHANGED cacheVars, StoredCurrent',
           NEW r \in Handlers, NEW i \in DOMAIN slot[r], NEW p,
           Advance(r, i, [slot[r][i] EXCEPT !.phase = p]),
           pc[r] # "snapshot",
           slot[r][i].pair.symbol \in DOMAIN snap[r],
           p \in Answered => slot[r][i].phase \in Answered
    PROVE  ServerInv'
<1> DEFINE s == [slot[r][i] EXCEPT !.phase = p]
<1>1. DOMAIN s = SlotFields /\ s.pair = slot[r][i].pair /\ s.phase = p
      /\ s.resp = slot[r][i].resp
    BY DEF ServerInv, Shape, SlotFields
<1>2. s.phase \in Answered => AnswerCurrent(r, i, s.resp)
    BY <1>1 DEF ServerInv, AnswersCurrent
<1> HIDE DEF s
<1>3. slot' = [slot EXCEPT ![r][i] = s] /\ UNCHANGED <<snap, recheck, pc>>
    BY DEF Advance, s
<1> QED BY <1>1, <1>2, <1>3, SlotStep

-----------------------------------------------------------------------------
(* Building a slot.                                                         *)

LEMMA AdmitStep ==
    ASSUME ServerInv, UNCHANGED cacheVars,
           NEW r \in Handlers, NEW i \in DOMAIN slot[r], Admit(r, i)
    PROVE  ServerInv'
<1>1. pc[r] # "snapshot" /\ UNCHANGED reuse
    BY DEF Admit, TaskAt
<1>2. StoredCurrent'
    BY <1>1, StoredKept
<1>3. CASE AdmissionVerdict(r, i) = "ok"
    <2>1. slot[r][i].pair.symbol \in DOMAIN snap[r]
        BY <1>3 DEF AdmissionVerdict
    <2>2. Advance(r, i, [slot[r][i] EXCEPT !.phase = "admitted"])
        BY <1>3 DEF Admit
    <2> QED BY <1>1, <1>2, <2>1, <2>2, PhaseStep DEF Answered
<1>4. CASE AdmissionVerdict(r, i) # "ok"
    <2>1. Fail(r, i, AdmissionVerdict(r, i))
        BY <1>4 DEF Admit
    <2> QED BY <1>1, <2>1, FailStep
<1> QED BY <1>3, <1>4

\* A reused answer belongs to the generation of the slot's own quote, because
\* the lookup compares the two.
LEMMA LookupStep ==
    ASSUME ServerInv, UNCHANGED cacheVars,
           NEW r \in Handlers, NEW i \in DOMAIN slot[r], LookupReuse(r, i)
    PROVE  ServerInv'
<1>1. pc[r] # "snapshot" /\ UNCHANGED reuse /\ slot[r][i].phase = "admitted"
    BY DEF LookupReuse, TaskAt
<1>2. StoredCurrent'
    BY <1>1, StoredKept
<1>3. slot[r][i].pair.symbol \in DOMAIN snap[r]
    BY <1>1 DEF ServerInv, QuoteInSnapshot, Dormant
<1> DEFINE key == ReuseKey(r, i)
           hit == Reusable(key, ContextAt(r, i), Entry(r, i).gen, Seconds(now))
<1>4. CASE ~IsLive(Entry(r, i))
    <2>1. Fail(r, i, "no_live_quote")
        BY <1>4 DEF LookupReuse
    <2> QED BY <1>1, <2>1, FailStep
<1>5. CASE IsLive(Entry(r, i)) /\ ~hit
    <2>1. Advance(r, i, [slot[r][i] EXCEPT !.phase = "unsigned"])
        BY <1>5 DEF LookupReuse
    <2> QED BY <1>1, <1>2, <1>3, <2>1, PhaseStep DEF Answered
<1>6. CASE IsLive(Entry(r, i)) /\ hit
    <2> DEFINE stored == reuse[key]
               s == [slot[r][i] EXCEPT !.phase = "reusing",
                                       !.resp = stored.resp,
                                       !.validity = stored.expiry * MsPerSecond]
    <2>1. Advance(r, i, s)
        BY <1>6 DEF LookupReuse
    <2>2. DOMAIN s = SlotFields /\ s.pair = slot[r][i].pair /\ s.phase = "reusing"
          /\ s.resp = stored.resp
        BY DEF ServerInv, Shape, SlotFields
    <2>3. key \in DOMAIN reuse /\ stored.gen = Entry(r, i).gen
        BY <1>6 DEF Reusable
    <2>4. key.symbol = slot[r][i].pair.symbol
        BY DEF ReuseKey
    <2>5. AnswerCurrent(r, i, stored.resp)
        BY <2>3, <2>4 DEF ServerInv, StoredCurrent, AnswerCurrent
    <2> HIDE DEF s, stored
    <2>6. slot' = [slot EXCEPT ![r][i] = s] /\ UNCHANGED <<snap, recheck, pc>>
        BY <2>1 DEF Advance
    <2> QED BY <1>1, <1>2, <1>3, <2>2, <2>5, <2>6, SlotStep
<1> QED BY <1>4, <1>5, <1>6

LEMMA ReturnReusedStep ==
    ASSUME ServerInv, UNCHANGED cacheVars,
           NEW r \in Handlers, NEW i \in DOMAIN slot[r], ReturnReused(r, i)
    PROVE  ServerInv'
<1>1. pc[r] # "snapshot" /\ UNCHANGED reuse /\ slot[r][i].phase = "reusing"
    BY DEF ReturnReused, TaskAt
<1>2. StoredCurrent'
    BY <1>1, StoredKept
<1>3. slot[r][i].pair.symbol \in DOMAIN snap[r]
    BY <1>1 DEF ServerInv, QuoteInSnapshot, Dormant
<1>4. \/ Fail(r, i, "no_live_quote") \/ Fail(r, i, "expired_quote")
      \/ Advance(r, i, [slot[r][i] EXCEPT !.phase = "built"])
    BY DEF ReturnReused
<1> QED BY <1>1, <1>2, <1>3, <1>4, FailStep, PhaseStep DEF Answered

LEMMA StartSignStep ==
    ASSUME ServerInv, UNCHANGED cacheVars,
           NEW r \in Handlers, NEW i \in DOMAIN slot[r], StartSign(r, i)
    PROVE  ServerInv'
<1>1. pc[r] # "snapshot" /\ UNCHANGED reuse /\ slot[r][i].phase = "unsigned"
    BY DEF StartSign, TaskAt
<1>2. StoredCurrent'
    BY <1>1, StoredKept
<1>3. slot[r][i].pair.symbol \in DOMAIN snap[r]
    BY <1>1 DEF ServerInv, QuoteInSnapshot, Dormant
<1>4. \/ Fail(r, i, "no_live_quote") \/ Fail(r, i, "expired_quote")
      \/ Advance(r, i, [slot[r][i] EXCEPT !.phase = "signing"])
    BY DEF StartSign
<1> QED BY <1>1, <1>2, <1>3, <1>4, FailStep, PhaseStep DEF Answered

LEMMA FinishSignStep ==
    ASSUME ServerInv, UNCHANGED cacheVars, NEW r \in Handlers,
           NEW i \in DOMAIN slot[r], NEW ok \in BOOLEAN, FinishSign(r, i, ok)
    PROVE  ServerInv'
<1>1. pc[r] # "snapshot" /\ UNCHANGED reuse /\ slot[r][i].phase = "signing"
    BY DEF FinishSign, TaskAt
<1>2. StoredCurrent'
    BY <1>1, StoredKept
<1>3. slot[r][i].pair.symbol \in DOMAIN snap[r]
    BY <1>1 DEF ServerInv, QuoteInSnapshot, Dormant
<1> DEFINE resp == [context |-> ContextAt(r, i), base |-> QuoteAt(r, i).base,
                    gen |-> Entry(r, i).gen, epoch |-> Entry(r, i).epoch]
           s == [slot[r][i] EXCEPT !.phase = "signed", !.resp = resp,
                                   !.validity = EffectiveExpiry(QuoteAt(r, i))]
<1>4. \/ \E code \in Codes : Fail(r, i, code)
      \/ Advance(r, i, s)
    BY DEF FinishSign, Codes
<1>5. CASE \E code \in Codes : Fail(r, i, code)
    BY <1>1, <1>5, FailStep
<1>6. CASE Advance(r, i, s)
    <2>1. DOMAIN s = SlotFields /\ s.pair = slot[r][i].pair /\ s.phase = "signed"
          /\ s.resp = resp
        BY DEF ServerInv, Shape, SlotFields
    <2>2. resp.gen = Entry(r, i).gen /\ resp.epoch = Entry(r, i).epoch
        OBVIOUS
    <2> HIDE DEF resp, s
    <2>3. AnswerCurrent(r, i, resp)
        BY <1>3, <2>2 DEF ServerInv, SnapshotsCurrent, AnswerCurrent, Current, Entry
    <2>4. slot' = [slot EXCEPT ![r][i] = s] /\ UNCHANGED <<snap, recheck, pc>>
        BY <1>6 DEF Advance
    <2> QED BY <1>1, <1>2, <1>3, <2>1, <2>3, <2>4, SlotStep
<1> QED BY <1>4, <1>5, <1>6

\* What is stored for later frames is the answer of the slot.
LEMMA StoreStep ==
    ASSUME ServerInv, UNCHANGED cacheVars,
           NEW r \in Handlers, NEW i \in DOMAIN slot[r], Store(r, i)
    PROVE  ServerInv'
<1>1. pc[r] # "snapshot" /\ slot[r][i].phase = "signed"
    BY DEF Store, TaskAt
<1>2. slot[r][i].pair.symbol \in DOMAIN snap[r]
    BY <1>1 DEF ServerInv, QuoteInSnapshot, Dormant
<1> DEFINE key == ReuseKey(r, i)
           resp == slot[r][i].resp
           new == [expiry |-> resp.context.expiry, resp |-> resp, gen |-> Entry(r, i).gen]
<1>3. AnswerCurrent(r, i, resp)
    BY <1>1 DEF ServerInv, AnswersCurrent, Answered
<1>4. key.symbol = slot[r][i].pair.symbol
    BY DEF ReuseKey
<1>5. \/ reuse' = reuse
      \/ reuse' = [x \in DOMAIN reuse \cup {key} |-> IF x = key THEN new ELSE reuse[x]]
    BY DEF Store, StoreReuse
<1>6. new.resp = resp /\ new.gen = resp.gen
    BY <1>3 DEF AnswerCurrent
<1> HIDE DEF new, resp, key
<1>7. StoredCurrent'
    <2>1. CASE reuse' = reuse
        BY <2>1, StoredKept
    <2>2. CASE reuse' = [x \in DOMAIN reuse \cup {key} |-> IF x = key THEN new ELSE reuse[x]]
        <3>1. DOMAIN reuse' = DOMAIN reuse \cup {key} /\ reuse'[key] = new
              /\ \A x \in DOMAIN reuse \ {key} : reuse'[x] = reuse[x]
            BY <2>2
        <3>2. Current(<<ChainId, key.symbol>>, new.resp)
            BY <1>3, <1>4, <1>6 DEF AnswerCurrent
        <3> QED BY <1>6, <3>1, <3>2 DEF ServerInv, StoredCurrent, Current, cacheVars
    <2> QED BY <1>5, <2>1, <2>2
<1>8. Advance(r, i, [slot[r][i] EXCEPT !.phase = "built"])
    BY DEF Store
<1> QED BY <1>1, <1>2, <1>7, <1>8, PhaseStep DEF Answered

-----------------------------------------------------------------------------
(* The passes over a whole request.                                         *)

\* A snapshot holds what the cache holds.
LEMMA SnapshotManyCurrent ==
    ASSUME CacheInv, NEW S
    PROVE  \A s \in DOMAIN SnapshotMany(S) : Current(<<ChainId, s>>, SnapshotMany(S)[s])
BY DEF CacheInv, SnapshotMany

LEMMA SnapshotStep ==
    ASSUME ServerInv, UNCHANGED <<cacheVars, reuse>>,
           NEW r \in Handlers, Snapshot(r) \/ Recheck(r)
    PROVE  ServerInv'
<1>1. StoredCurrent' /\ CacheInv'
    BY StoredKept, QuietKeeps DEF ServerInv
<1>2. slot' = slot
    BY DEF Snapshot, Recheck
<1>3. CASE Snapshot(r)
    <2> DEFINE new == SnapshotMany(PairedSymbols(r, {"queued"}))
    <2>1. \A s \in DOMAIN new : Current(<<ChainId, s>>, new[s])
        BY SnapshotManyCurrent DEF ServerInv
    <2>2. \A i \in DOMAIN slot[r] : slot[r][i].phase \in Dormant
        BY <1>3 DEF Snapshot, ServerInv, NothingBuilt
    <2> HIDE DEF new
    <2>3. snap' = [snap EXCEPT ![r] = new] /\ pc' = [pc EXCEPT ![r] = "build"]
          /\ recheck' = recheck
        BY <1>3 DEF Snapshot, new
    <2>4. Shape' /\ NothingBuilt'
        BY <1>2, <2>3 DEF ServerInv, Shape, NothingBuilt
    <2>5. QuoteInSnapshot'
        BY <1>2, <2>2, <2>3 DEF ServerInv, Shape, QuoteInSnapshot
    <2>6. SnapshotsCurrent'
        BY <2>1, <2>3 DEF ServerInv, Shape, SnapshotsCurrent, Current, cacheVars
    <2>7. Dormant \cap Answered = {}
        BY DEF Dormant, Answered
    <2>8. AnswersCurrent'
        BY <1>2, <2>2, <2>3, <2>7 DEF ServerInv, Shape, AnswersCurrent, AnswerCurrent,
                                     Current, cacheVars, Entry
    <2> QED BY <1>1, <2>4, <2>5, <2>6, <2>8 DEF ServerInv
<1>4. CASE Recheck(r)
    <2> DEFINE new == SnapshotMany(PairedSymbols(r, {"built"}))
    <2>1. \A s \in DOMAIN new : Current(<<ChainId, s>>, new[s])
        BY SnapshotManyCurrent DEF ServerInv
    <2> HIDE DEF new
    <2>2. recheck' = [recheck EXCEPT ![r] = new] /\ pc' = [pc EXCEPT ![r] = "final"]
          /\ snap' = snap
        BY <1>4 DEF Recheck, new
    <2>3. Shape' /\ NothingBuilt' /\ QuoteInSnapshot'
        BY <1>2, <2>2 DEF ServerInv, Shape, NothingBuilt, QuoteInSnapshot
    <2>4. SnapshotsCurrent'
        BY <2>1, <2>2 DEF ServerInv, Shape, SnapshotsCurrent, Current, cacheVars
    <2>5. AnswersCurrent'
        BY <1>2, <2>2 DEF ServerInv, AnswersCurrent, AnswerCurrent, Current, cacheVars,
                          Entry
    <2> QED BY <1>1, <2>3, <2>4, <2>5 DEF ServerInv
<1> QED BY <1>3, <1>4

\* A step that only moves the handler on.
LEMMA MoveStep ==
    ASSUME ServerInv, UNCHANGED <<cacheVars, reuse, slot, snap, recheck>>,
           NEW r \in Handlers, NEW p, p # "snapshot", pc' = [pc EXCEPT ![r] = p]
    PROVE  ServerInv'
<1>1. StoredCurrent' /\ CacheInv'
    BY StoredKept, QuietKeeps DEF ServerInv
<1>2. Shape' /\ NothingBuilt' /\ QuoteInSnapshot'
    BY DEF ServerInv, Shape, NothingBuilt, QuoteInSnapshot
<1>3. SnapshotsCurrent' /\ AnswersCurrent'
    BY DEF ServerInv, SnapshotsCurrent, AnswersCurrent, AnswerCurrent, Current,
           cacheVars, Entry
<1> QED BY <1>1, <1>2, <1>3 DEF ServerInv

LEMMA RevalidateStep ==
    ASSUME ServerInv, UNCHANGED <<cacheVars, reuse>>,
           NEW r \in Handlers, NEW i \in DOMAIN slot[r], Revalidate(r, i)
    PROVE  ServerInv'
<1>1. pc[r] # "snapshot" /\ slot[r][i].phase = "built"
    BY DEF Revalidate
<1>2. StoredCurrent'
    BY StoredKept
<1>3. slot[r][i].pair.symbol \in DOMAIN snap[r]
    BY <1>1 DEF ServerInv, QuoteInSnapshot, Dormant
<1>4. \/ Fail(r, i, FinalVerdict(r, i))
      \/ Advance(r, i, [slot[r][i] EXCEPT !.phase = "served"])
    BY DEF Revalidate
<1> QED BY <1>1, <1>2, <1>3, <1>4, FailStep, PhaseStep DEF Answered

\* A handler starts over with slots that are not built, or with none.
LEMMA RestartStep ==
    ASSUME ServerInv, UNCHANGED <<cacheVars, reuse>>, NEW r \in Handlers,
           NEW new, slot' = [slot EXCEPT ![r] = new],
           \A i \in DOMAIN new : DOMAIN new[i] = SlotFields /\ new[i].phase \in Dormant,
           NEW p, pc' = [pc EXCEPT ![r] = p],
           snap' = snap \/ snap' = [snap EXCEPT ![r] = NoQuotes],
           recheck' = recheck \/ recheck' = [recheck EXCEPT ![r] = NoQuotes]
    PROVE  ServerInv'
<1>1. StoredCurrent' /\ CacheInv'
    BY StoredKept, QuietKeeps DEF ServerInv
<1>2. /\ DOMAIN slot' = Handlers /\ slot'[r] = new
      /\ \A q \in Handlers \ {r} : slot'[q] = slot[q] /\ pc'[q] = pc[q]
                                   /\ snap'[q] = snap[q] /\ recheck'[q] = recheck[q]
      /\ DOMAIN snap' = Handlers /\ DOMAIN recheck' = Handlers /\ DOMAIN pc' = Handlers
    BY DEF ServerInv, Shape
<1>3. /\ snap'[r] = snap[r] \/ DOMAIN snap'[r] = {}
      /\ recheck'[r] = recheck[r] \/ DOMAIN recheck'[r] = {}
    BY DEF ServerInv, Shape, NoQuotes
<1>4. Shape' /\ NothingBuilt' /\ QuoteInSnapshot'
    BY <1>2 DEF ServerInv, Shape, NothingBuilt, QuoteInSnapshot
<1>5. SnapshotsCurrent'
    BY <1>2, <1>3 DEF ServerInv, SnapshotsCurrent, Current, cacheVars
<1>6. Dormant \cap Answered = {}
    BY DEF Dormant, Answered
<1>7. AnswersCurrent'
    BY <1>2, <1>6 DEF ServerInv, AnswersCurrent, AnswerCurrent, Current, cacheVars, Entry
<1> QED BY <1>1, <1>4, <1>5, <1>7 DEF ServerInv

LEMMA ReceiveStep ==
    ASSUME ServerInv, UNCHANGED <<cacheVars, reuse>>,
           NEW r \in Handlers, NEW b \in Bodies, Receive(r, b)
    PROVE  ServerInv'
<1> DEFINE new == ResolveAll(tokens.addr, b)
<1>1. \A i \in DOMAIN new : DOMAIN new[i] = SlotFields /\ new[i].phase \in Dormant
    BY DEF ResolveAll, ResolveItem, Failed, Slot, SlotFields, Dormant
<1> HIDE DEF new
<1>2. slot' = [slot EXCEPT ![r] = new] /\ pc' = [pc EXCEPT ![r] = Route(b, new)]
      /\ UNCHANGED <<snap, recheck>>
    BY DEF Receive, new
<1> QED BY <1>1, <1>2, RestartStep

LEMMA ResetStep ==
    ASSUME ServerInv, UNCHANGED <<cacheVars, reuse>>, NEW r \in Handlers, Reset(r)
    PROVE  ServerInv'
<1> DEFINE new == <<>>
<1>1. \A i \in DOMAIN new : DOMAIN new[i] = SlotFields /\ new[i].phase \in Dormant
    OBVIOUS
<1> HIDE DEF new
<1>2. slot' = [slot EXCEPT ![r] = new] /\ pc' = [pc EXCEPT ![r] = "idle"]
      /\ snap' = [snap EXCEPT ![r] = NoQuotes]
      /\ recheck' = [recheck EXCEPT ![r] = NoQuotes]
    BY DEF Reset, new
<1> QED BY <1>1, <1>2, RestartStep

-----------------------------------------------------------------------------
LEMMA ServerNextInv == ServerInv /\ [Next]_vars => ServerInv'
<1> SUFFICES ASSUME ServerInv, [Next]_vars PROVE ServerInv'
    OBVIOUS
<1>1. ASSUME NEW r \in Handlers, HandlerStep(r) PROVE ServerInv'
    <2>1. UNCHANGED cacheVars
        BY <1>1 DEF HandlerStep
    <2>2. CASE BuildStep(r)
        BY <2>1, <2>2, AdmitStep, LookupStep, ReturnReusedStep, StartSignStep,
           FinishSignStep, StoreStep DEF BuildStep
    <2>3. CASE PassStep(r)
        <3>1. CASE Snapshot(r) \/ Recheck(r)
            BY <2>1, <2>3, <3>1, SnapshotStep DEF PassStep
        <3>2. CASE TakeFinal(r)
            BY <2>1, <2>3, <3>2, MoveStep DEF PassStep, TakeFinal
        <3>3. CASE Finish(r)
            BY <2>1, <2>3, <3>3, MoveStep DEF PassStep, Finish
        <3>4. CASE Respond(r)
            BY <2>1, <2>3, <3>4, ResetStep DEF PassStep, Respond
        <3>5. CASE \E i \in DOMAIN slot[r] : Revalidate(r, i)
            BY <2>1, <2>3, <3>5, RevalidateStep DEF PassStep
        <3> QED BY <2>3, <3>1, <3>2, <3>3, <3>4, <3>5 DEF PassStep
    <2> QED BY <1>1, <2>2, <2>3 DEF HandlerStep
<1>2. ASSUME NEW r \in Handlers, ClientStep(r) PROVE ServerInv'
    BY <1>2, ReceiveStep, ResetStep DEF ClientStep, Disconnect
<1>3. ASSUME FrameStep PROVE ServerInv'
    <2>1. CacheInv' /\ HoldersKept
        BY <1>3, FramesKeep DEF FrameStep, ServerInv
    <2> QED BY <1>3, <2>1, OthersStep DEF FrameStep
<1>4. ASSUME RegistryStep PROVE ServerInv'
    <2>1. UNCHANGED cacheVars \/ ForgetQuotes(swap.forget)
        BY <1>4 DEF RegistryStep, ReloaderStep, Poll, RejectCopy, KeepRows,
                    ReplaceTokens, SendAssets, ForgetRetired, Upload
    <2>2. CacheInv' /\ HoldersKept
        BY <2>1, ForgetKeeps, QuietKeeps DEF ServerInv
    <2> QED BY <1>4, <2>2, OthersStep DEF RegistryStep
<1>5. ASSUME ClockStep PROVE ServerInv'
    <2>1. CacheInv' /\ HoldersKept
        BY <1>5, QuietKeeps DEF ClockStep, ServerInv
    <2> QED BY <1>5, <2>1, OthersStep DEF ClockStep
<1>6. CASE UNCHANGED vars
    <2>1. CacheInv' /\ HoldersKept
        BY <1>6, QuietKeeps DEF vars, ServerInv
    <2> QED BY <1>6, <2>1, OthersStep DEF vars
<1> QED BY <1>1, <1>2, <1>3, <1>4, <1>5, <1>6 DEF Next

LEMMA ServerInvImplies == ServerInv => LiveHoldersCurrent
BY DEF ServerInv, CacheInv, QuoteInSnapshot, SnapshotsCurrent, StoredCurrent,
       AnswersCurrent, AnswerCurrent, LiveHoldersCurrent, Answered, Dormant

-----------------------------------------------------------------------------
(* The final pass.                                                          *)

\* Building never touches a slot that is built.
LEMMA BuildLeavesBuilt ==
    ASSUME ServerInv, NEW q \in Handlers, BuildStep(q),
           NEW r \in Handlers, NEW i \in DOMAIN slot[r], slot[r][i].phase = "built"
    PROVE  slot'[r][i] = slot[r][i]
<1>1. PICK j \in DOMAIN slot[q] :
         \/ Admit(q, j) \/ LookupReuse(q, j) \/ ReturnReused(q, j)
         \/ StartSign(q, j) \/ Store(q, j)
         \/ \E ok \in BOOLEAN : FinishSign(q, j, ok)
    BY DEF BuildStep
<1>2. slot[q][j].phase # "built"
    BY <1>1 DEF Admit, LookupReuse, ReturnReused, StartSign, Store, FinishSign
<1>3. \E s : slot' = [slot EXCEPT ![q][j] = s]
    BY <1>1 DEF Admit, LookupReuse, ReturnReused, StartSign, Store, FinishSign,
                Advance, Fail
<1> QED BY <1>2, <1>3 DEF ServerInv, Shape

\* Only the final pass serves a slot, and only while the generation of the
\* quote it was built from is live.
LEMMA ServedAlive ==
    ASSUME ServerInv, [Next]_vars,
           NEW r \in Handlers, NEW i \in DOMAIN slot[r], Accepts(r, i)
    PROVE  IsLive(Entry(r, i))
<1>1. slot'[r] # slot[r]
    BY DEF Accepts
<1>2. slot' # slot
    BY <1>1
<1>3. PICK q \in Handlers : HandlerStep(q) \/ ClientStep(q)
    BY <1>2 DEF Next, vars, handlerVars, FrameStep, RegistryStep, ClockStep
<1>4. ~BuildStep(q)
    BY BuildLeavesBuilt DEF Accepts
<1>5. ~Reset(q)
    BY <1>1 DEF Reset, Accepts, ServerInv, Shape
<1>6. ASSUME NEW b \in Bodies, Receive(q, b) PROVE FALSE
    <2> DEFINE new == ResolveAll(tokens.addr, b)
    <2>1. \A j \in DOMAIN new : new[j].phase # "served"
        BY DEF ResolveAll, ResolveItem, Failed, Slot
    <2> HIDE DEF new
    <2>2. slot' = [slot EXCEPT ![q] = new]
        BY <1>6 DEF Receive, new
    <2> QED BY <1>1, <2>1, <2>2 DEF Accepts, ServerInv, Shape
<1>7. PassStep(q)
    BY <1>3, <1>4, <1>5, <1>6 DEF HandlerStep, ClientStep, Disconnect
<1>8. PICK j \in DOMAIN slot[q] : Revalidate(q, j)
    BY <1>2, <1>5, <1>7 DEF PassStep, Snapshot, Recheck, TakeFinal, Finish, Respond
<1>9. q = r /\ j = i
    <2>1. \E s : slot' = [slot EXCEPT ![q][j] = s]
        BY <1>8 DEF Revalidate, Advance, Fail
    <2> QED BY <2>1 DEF Accepts, ServerInv, Shape
<1>10. FinalVerdict(r, i) = "ok"
    <2> SUFFICES ASSUME FinalVerdict(r, i) # "ok" PROVE FALSE
        OBVIOUS
    <2> DEFINE s == Failed(slot[r][i], FinalVerdict(r, i))
    <2>1. s.phase = "failed"
        BY DEF Failed, ServerInv, Shape, SlotFields
    <2> HIDE DEF s
    <2>2. slot' = [slot EXCEPT ![r][i] = s]
        BY <1>8, <1>9 DEF Revalidate, Fail, s
    <2> QED BY <2>1, <2>2 DEF Accepts, ServerInv, Shape
<1> QED BY <1>10 DEF FinalVerdict

LEMMA ServedNotDisowned ==
    ASSUME ServerInv, [Next]_vars,
           NEW r \in Handlers, NEW i \in DOMAIN slot[r], Accepts(r, i)
    PROVE  slot[r][i].resp.epoch = evictions[<<ChainId, slot[r][i].pair.symbol>>]
<1>1. IsLive(Entry(r, i))
    BY ServedAlive
<1>2. AnswerCurrent(r, i, slot[r][i].resp)
    BY DEF Accepts, Answered, ServerInv, AnswersCurrent
<1> QED BY <1>1, <1>2 DEF AnswerCurrent, Current, IsLive

-----------------------------------------------------------------------------
\* Whoever holds an entry of a live generation (the cache, a snapshot, a stored
\* signature, a response) holds the cached, never disowned one.
THEOREM HoldersCurrent == Spec => []LiveHoldersCurrent
<1>1. Spec => []ServerInv
    BY ServerInitInv, ServerNextInv, PTL DEF Spec
<1> QED BY <1>1, ServerInvImplies, PTL

\* The final pass accepts no response whose frame was halted, declared stale or
\* forgotten since it arrived, however the websocket task, the reload loop and
\* the other handlers interleave with the request.
THEOREM DisownedNeverServed == Spec => NoDisownedPrice
<1>1. Spec => []ServerInv
    BY ServerInitInv, ServerNextInv, PTL DEF Spec
<1>2. ServerInv /\ [Next]_vars =>
         [\A r \in Handlers : \A i \in DOMAIN slot[r] :
            Accepts(r, i) => slot[r][i].resp.epoch
                               = evictions[<<ChainId, slot[r][i].pair.symbol>>]]_vars
    BY ServedNotDisowned
<1> QED BY <1>1, <1>2, PTL DEF Spec, NoDisownedPrice

-----------------------------------------------------------------------------
(* The reload loop among the handlers and the websocket task.               *)

LEMMA RegistryNextInv == ServerInv /\ RegistryInv /\ [Next]_vars => RegistryInv'
<1> SUFFICES ASSUME ServerInv, RegistryInv, [Next]_vars PROVE RegistryInv'
    OBVIOUS
<1>1. CacheInv
    BY DEF ServerInv
<1>2. ASSUME NEW r \in Handlers, HandlerStep(r) \/ ClientStep(r) PROVE RegistryInv'
    BY <1>2, QuietKeepsRegistry DEF HandlerStep, ClientStep
<1>3. ASSUME FrameStep PROVE RegistryInv'
    BY <1>3, FramesKeepRegistry DEF FrameStep
<1>4. ASSUME RegistryStep PROVE RegistryInv'
    BY <1>1, <1>4, ReloadsKeepRegistry, UploadKeepsRegistry DEF RegistryStep
<1>5. ASSUME ClockStep PROVE RegistryInv'
    BY <1>5, QuietKeepsRegistry DEF ClockStep
<1>6. CASE UNCHANGED vars
    BY <1>6, QuietKeepsRegistry DEF vars
<1> QED BY <1>2, <1>3, <1>4, <1>5, <1>6 DEF Next

LEMMA RegistryAlways == Spec => [](ServerInv /\ RegistryInv)
<1>1. Init => ServerInv /\ RegistryInv
    BY ServerInitInv, RegistryInitInv, ServerAssumption DEF Init
<1>2. ServerInv /\ RegistryInv /\ [Next]_vars => (ServerInv /\ RegistryInv)'
    BY ServerNextInv, RegistryNextInv
<1> QED BY <1>1, <1>2, PTL DEF Spec

\* Between reloads no quote of a symbol outside the running set is cached, for
\* any uploads and however frames race the three steps of apply.
THEOREM RetiredStayOut == Spec => []RetiredSymbolsStayOut
BY RegistryAlways, RegistryInvImplies, PTL

\* Whatever is uploaded, requests resolve against a set that is not empty and
\* maps no address twice.
THEOREM RunningSetSound == Spec => []RunningSetUnambiguous
BY RegistryAlways, RegistryInvImplies, PTL

-----------------------------------------------------------------------------
(***************************************************************************)
(* Second part: what a reply says.  The token it is bound to, the expiry   *)
(* it signs, the two sides of one symbol, and that a strict batch is       *)
(* answered as a whole.                                                    *)
(*                                                                         *)
(* The invariant is stated request by request, over the VALUES a handler   *)
(* holds (its place p, its body b, its slots sl, its two snapshots sn and  *)
(* re, and what the final pass took, fi).  A step of one handler then      *)
(* leaves the requests of the others literally alone.                      *)
(***************************************************************************)

\* The producer does not stamp a frame with a time that is still to come.
SourceNotAhead == \A f \in Frames : f.age >= 0

\* A frame's two rates do not cross: selling a token and buying it back costs.
NotCrossed(rates) ==
    /\ rates[QuoteToBase].num \in Nat /\ rates[QuoteToBase].den \in Nat
    /\ rates[BaseToQuote].num \in Nat /\ rates[BaseToQuote].den \in Nat
    /\ rates[QuoteToBase].num * rates[BaseToQuote].num
         <= rates[QuoteToBase].den * rates[BaseToQuote].den
FramesHaveSpread ==
    \A f \in Frames : NotCrossed(f.rate) /\ NotCrossed(f.underlying)

-----------------------------------------------------------------------------
(* What a slot holds.                                                       *)

TokenOf(x) == IF x.input = QuoteToken THEN x.output ELSE x.input
DirectionOf(x) == IF x.input = QuoteToken THEN QuoteToBase ELSE BaseToQuote

\* A reused answer is older than the frame q it is given for by less than what
\* is left of it, beyond the margin.
LagOK(q, ctx) ==
    ctx.publish # PublishTime(q) => PublishTime(q) + MinRemaining <= ctx.expiry

\* The answer of slot s of a request of this schema, built from the quote q.
AnswerOK(schema, q, s) ==
    /\ s.resp.base = s.pair.token
    /\ s.resp.context.input = s.input /\ s.resp.context.output = s.output
    /\ s.resp.context.price = PriceOf(schema, q, s.pair.direction)
    /\ s.resp.context.expiry \in Int /\ s.resp.context.publish \in Int
    /\ s.validity \in Int
    /\ Seconds(s.validity) = s.resp.context.expiry
    /\ s.resp.context.expiry * MsPerSecond <= s.validity
    /\ SourceNotAhead => LagOK(q, s.resp.context)

SlotOK(b, sn, s) ==
    /\ DOMAIN s = SlotFields
    /\ s.phase \in Phases /\ s.err \in Codes
    /\ s.phase # "failed" => /\ s.pair.symbol \in Symbols
                             /\ s.pair.token = TokenOf(s)
                             /\ s.pair.direction = DirectionOf(s)
    /\ s.phase \notin Dormant => /\ s.pair.symbol \in DOMAIN sn
                                 /\ sn[s.pair.symbol].quote.base = s.pair.token
                                 /\ EffectiveExpiry(sn[s.pair.symbol].quote) >= 0
    /\ s.phase \in Answered => AnswerOK(b.schema, sn[s.pair.symbol].quote, s)

\* The final pass served slot s against the second snapshot re and against fi.
ServedOK(s, re, fi) ==
    /\ StillMapped(fi.set, s.pair)
    /\ QuoteIsLive(s.validity, fi.at, TRUE)
    /\ WithinBound(s.validity, re[s.pair.symbol].quote)
    /\ s.pair.symbol \in DOMAIN re

\* The phases slots may be in at each place of a handler.
PhasesAt ==
    [idle     |-> Phases,
     snapshot |-> Dormant,
     build    |-> Phases \ {"served"},
     final    |-> {"built", "failed"},
     revalidate |-> {"built", "served", "failed"},
     reply    |-> {"served", "failed"},
     error    |-> Phases]

Places == {"idle", "snapshot", "build", "final", "revalidate", "reply", "error"}

\* Strict requests: an error ends the request, and slots are built in turn.
StrictOK(p, sl) ==
    /\ p # "error" => \A i \in DOMAIN sl : sl[i].phase # "failed"
    /\ \A i, j \in DOMAIN sl :
          i < j /\ sl[j].phase \in InFlight => sl[i].phase = "built"

RequestOK(p, b, sl, sn, re, fi) ==
    /\ p \in Places
    /\ b \in Bodies \cup {NoBody}
    /\ DOMAIN sl = DOMAIN b.items
    /\ \A i \in DOMAIN sl : /\ SlotOK(b, sn, sl[i])
                            /\ sl[i].phase \in PhasesAt[p]
                            /\ sl[i].phase = "served" => ServedOK(sl[i], re, fi)
    /\ ~IsEnvelope(b) => StrictOK(p, sl)

RequestAt(r) == RequestOK(pc[r], body[r], slot[r], snap[r], recheck[r], final[r])

Requests == /\ pc \in [Handlers -> Places]
            /\ body \in [Handlers -> Bodies \cup {NoBody}]
            /\ DOMAIN final = Handlers
            /\ \A r \in Handlers : RequestAt(r)

-----------------------------------------------------------------------------
(* What is shared.                                                          *)

\* Quotes are frames that have arrived.
Arrived(e, t) == e \in Entries /\ (SourceNotAhead => e.quote.src <= t)

CacheTimes ==
    /\ now \in Instants
    /\ nextGen \in 0 .. MaxGens /\ live \subseteq 0 .. nextGen - 1
    /\ evictions \in [Keys -> Nat]
    /\ \A k \in DOMAIN quotes : Arrived(quotes[k], now)

Held(sn, t) == \A s \in DOMAIN sn : s \in Symbols /\ Arrived(sn[s], t)

HeldQuotes == \A r \in Handlers : Held(snap[r], now) /\ Held(recheck[r], now)

StoredOK(key, v) ==
    /\ key.symbol \in Symbols
    /\ v.gen \in Nat /\ v.resp.gen \in Nat
    /\ v.resp.base = TokenOf(key)
    /\ v.expiry \in Int /\ v.expiry = v.resp.context.expiry
    /\ v.resp.context.publish \in Int

Stored == \A key \in DOMAIN reuse : StoredOK(key, reuse[key])

\* A set taken by a final pass was the running one, and a generation has one
\* set of rows.
SetKnown(fi) == /\ fi.at \in Int
                /\ fi.set.generation \in 0 .. tokens.generation
                /\ fi.set.generation = tokens.generation => fi.set.addr = tokens.addr

SetsKnown == \A r \in Handlers : SetKnown(final[r])

BatchInv == /\ ServerInv /\ RegistryInv
            /\ CacheTimes /\ HeldQuotes /\ Stored /\ SetsKnown /\ Requests

-----------------------------------------------------------------------------
(* Times.                                                                   *)

LEMMA WholeSeconds ==
    ASSUME NEW ms \in Int
    PROVE  /\ Seconds(ms) \in Int
           /\ Seconds(ms) * MsPerSecond <= ms
           /\ ms < (Seconds(ms) + 1) * MsPerSecond
           /\ Seconds(ms * MsPerSecond) = ms
           /\ TruncSeconds(ms) \in Int
           /\ ms >= 0 => TruncSeconds(ms) = Seconds(ms)
           /\ TruncSeconds(ms) <= Seconds(ms) \/ ms < 0
BY DEF Seconds, TruncSeconds, MsPerSecond

LEMMA SecondsOrder ==
    ASSUME NEW a \in Int, NEW b \in Int, a <= b
    PROVE  Seconds(a) <= Seconds(b)
BY DEF Seconds, MsPerSecond

\* The clock's grid has no gap a tick could fall into.
LEMMA TickStays == ASSUME now \in Instants, Tick PROVE now' \in Instants /\ now < now'
<1>1. PICK n \in 0 .. MaxTicks : now = StartTime + n * TickMs
    BY DEF Instants
<1>2. n \in Int /\ TickMs \in Int /\ StartTime \in Int /\ MaxTicks \in Int /\ TickMs > 0
    BY <1>1, ClockAssumption
<1>3. n * TickMs \in Int /\ MaxTicks * TickMs \in Int
    BY <1>2
<1>4. n * TickMs < MaxTicks * TickMs
    BY <1>1, <1>2, <1>3 DEF Tick
<1>5. n < MaxTicks
    <2>1. CASE n = MaxTicks
        BY <1>4, <1>2, <2>1
    <2> QED BY <1>1, <1>2, <2>1
<1>6. now' = StartTime + (n + 1) * TickMs
    BY <1>1, <1>2 DEF Tick
<1>7. n + 1 \in 0 .. MaxTicks
    BY <1>1, <1>2, <1>5
<1> QED BY <1>1, <1>2, <1>3, <1>6, <1>7 DEF Instants, Tick

LEMMA InstantsNat == ASSUME NEW t \in Instants PROVE t \in Nat
<1>1. PICK n \in 0 .. MaxTicks : t = StartTime + n * TickMs
    BY DEF Instants
<1>2. n \in Nat /\ TickMs \in Nat
    BY <1>1, ClockAssumption
<1> QED BY <1>1, <1>2, ClockAssumption

LEMMA EntryTimes ==
    ASSUME NEW e \in Entries
    PROVE  /\ e.quote.src \in Int /\ e.quote.expiry \in Int /\ e.quote.deadline \in Int
           /\ EffectiveExpiry(e.quote) \in Int
           /\ PublishTime(e.quote) \in Int /\ SignedExpiry(e.quote) \in Int
           /\ e.gen \in Nat /\ e.epoch \in Nat
<1>1. e.quote \in Quotes /\ e.gen \in Nat /\ e.epoch \in Nat
    BY DEF Entries
<1>2. PICK f \in Frames, t \in Instants : e.quote = Quote(f, t)
    BY <1>1 DEF Quotes
<1>3. t \in Int /\ f.age \in Int /\ f.ttl \in Int /\ f.grace \in Int
    BY <1>2, InstantsNat, FrameAssumption
<1>4. e.quote.src \in Int /\ e.quote.expiry \in Int /\ e.quote.deadline \in Int
    BY <1>2, <1>3 DEF Quote
<1>5. EffectiveExpiry(e.quote) \in Int
    BY <1>4 DEF EffectiveExpiry
<1> QED BY <1>1, <1>4, <1>5, WholeSeconds DEF PublishTime, SignedExpiry

\* The two rates of a quote are those of one frame.
LEMMA EntryRates ==
    ASSUME NEW e \in Entries, FramesHaveSpread
    PROVE  NotCrossed(e.quote.rate) /\ NotCrossed(e.quote.underlying)
<1>1. PICK f \in Frames, t \in Instants : e.quote = Quote(f, t)
    BY DEF Entries, Quotes
<1> QED BY <1>1 DEF Quote, FramesHaveSpread

-----------------------------------------------------------------------------
(* What the invariant says of a reply.                                      *)

LEMMA BatchTypes == BatchInv => TypeOK
<1> SUFFICES ASSUME BatchInv PROVE TypeOK
    OBVIOUS
<1>1. CacheTypeOK /\ ReloadTypeOK
    BY RegistryInvImplies
       DEF BatchInv, CacheTimes, ServerInv, CacheInv, CacheTypeOK, Arrived
<1>2. \A key \in DOMAIN reuse : /\ key.symbol \in Symbols
                                /\ reuse[key].gen \in Nat /\ reuse[key].resp.gen \in Nat
    BY DEF BatchInv, Stored, StoredOK
<1>3. /\ pc \in [Handlers -> Places]
      /\ body \in [Handlers -> Bodies \cup {NoBody}]
    BY DEF BatchInv, Requests
<1>4. \A r \in Handlers : Held(snap[r], now) /\ Held(recheck[r], now)
    BY DEF BatchInv, HeldQuotes
<1>5. \A r \in Handlers :
         /\ DOMAIN slot[r] = DOMAIN body[r].items
         /\ \A i \in DOMAIN slot[r] : SlotOK(body[r], snap[r], slot[r][i])
    BY DEF BatchInv, Requests, RequestAt, RequestOK
<1> QED BY <1>1, <1>2, <1>3, <1>4, <1>5 DEF TypeOK, Places, SlotOK, Held, Arrived

\* A slot with an answer, opened.
LEMMA AnsweredSlot ==
    ASSUME BatchInv, NEW r \in Handlers, NEW i \in DOMAIN slot[r],
           slot[r][i].phase \in Answered
    PROVE  /\ AnswerOK(body[r].schema, QuoteAt(r, i), slot[r][i])
           /\ slot[r][i].pair.direction = DirectionOf(slot[r][i])
           /\ Entry(r, i) \in Entries
<1>1. slot[r][i].phase \notin Dormant /\ slot[r][i].phase # "failed"
    BY DEF Answered, Dormant
<1>2. SlotOK(body[r], snap[r], slot[r][i])
    BY DEF BatchInv, Requests, RequestAt, RequestOK
<1>3. slot[r][i].pair.symbol \in DOMAIN snap[r]
    BY <1>1, <1>2 DEF SlotOK
<1>4. Entry(r, i) \in Entries
    BY <1>3 DEF BatchInv, HeldQuotes, Held, Arrived, Entry
<1> QED BY <1>1, <1>2, <1>4 DEF SlotOK, QuoteAt, Entry

LEMMA ServedSlot ==
    ASSUME BatchInv, NEW r \in Handlers, NEW i \in DOMAIN slot[r],
           slot[r][i].phase = "served"
    PROVE  /\ ServedOK(slot[r][i], recheck[r], final[r])
           /\ recheck[r][slot[r][i].pair.symbol] \in Entries
<1>1. ServedOK(slot[r][i], recheck[r], final[r])
    BY DEF BatchInv, Requests, RequestAt, RequestOK
<1> QED BY <1>1 DEF ServedOK, BatchInv, HeldQuotes, Held, Arrived

LEMMA BatchTokens == BatchInv => PriceBoundToToken
<1> SUFFICES ASSUME BatchInv, NEW r \in Handlers, NEW i \in DOMAIN slot[r],
                    slot[r][i].phase \in Answered
             PROVE  /\ slot[r][i].resp.base = slot[r][i].pair.token
                    /\ slot[r][i].resp.context.input = slot[r][i].input
                    /\ slot[r][i].resp.context.output = slot[r][i].output
    BY DEF PriceBoundToToken
<1> QED BY AnsweredSlot DEF AnswerOK

LEMMA BatchRetired == BatchInv => RetiredTokenRefused
<1> SUFFICES ASSUME BatchInv, NEW r \in Handlers, NEW i \in DOMAIN slot[r],
                    slot[r][i].phase = "served",
                    final[r].set.generation = tokens.generation
             PROVE  slot[r][i].pair.symbol \in SymbolAt(tokens.addr, slot[r][i].pair.token)
    BY DEF RetiredTokenRefused
<1>1. StillMapped(final[r].set, slot[r][i].pair)
    BY ServedSlot DEF ServedOK
<1>2. final[r].set.addr = tokens.addr
    BY DEF BatchInv, SetsKnown, SetKnown
<1> QED BY <1>1, <1>2 DEF StillMapped

LEMMA BatchExpiry == BatchInv => SignedExpiryHonest
<1> SUFFICES ASSUME BatchInv, NEW r \in Handlers, NEW i \in DOMAIN slot[r],
                    slot[r][i].phase = "served"
             PROVE  LET signed == slot[r][i].resp.context.expiry
                    IN  /\ Seconds(final[r].at) < signed
                        /\ signed * MsPerSecond
                             <= EffectiveExpiry(recheck[r][slot[r][i].pair.symbol].quote)
    BY DEF SignedExpiryHonest
<1> DEFINE signed == slot[r][i].resp.context.expiry
           validity == slot[r][i].validity
           bound == EffectiveExpiry(recheck[r][slot[r][i].pair.symbol].quote)
<1>1. /\ signed \in Int /\ validity \in Int
      /\ Seconds(validity) = signed /\ signed * MsPerSecond <= validity
    BY AnsweredSlot DEF AnswerOK, Answered
<1>2. Seconds(validity) > Seconds(final[r].at) /\ validity <= bound
    BY ServedSlot DEF ServedOK, QuoteIsLive, WithinBound
<1>3. bound \in Int
    BY ServedSlot, EntryTimes
<1>4. Seconds(final[r].at) \in Int
    BY WholeSeconds DEF BatchInv, SetsKnown, SetKnown
<1> HIDE DEF signed, validity, bound
<1>5. Seconds(final[r].at) < signed
    BY <1>1, <1>2, <1>4
<1>6. signed * MsPerSecond <= bound
    BY <1>1, <1>2, <1>3 DEF MsPerSecond
<1> QED BY <1>5, <1>6 DEF signed, bound

LEMMA BatchLag == SourceNotAhead /\ BatchInv => ReuseLagBounded
<1> SUFFICES ASSUME SourceNotAhead, BatchInv,
                    NEW r \in Handlers, NEW i \in DOMAIN slot[r],
                    slot[r][i].phase \in Answered, Reused(r, i)
             PROVE  LET ctx == slot[r][i].resp.context
                    IN  PublishTime(QuoteAt(r, i)) - ctx.publish
                          <= (ctx.expiry - ctx.publish) - MinRemaining
    BY DEF ReuseLagBounded
<1> DEFINE ctx == slot[r][i].resp.context
<1>1. /\ ctx.expiry \in Int /\ ctx.publish \in Int
      /\ LagOK(QuoteAt(r, i), ctx)
    BY AnsweredSlot DEF AnswerOK
<1>2. PublishTime(QuoteAt(r, i)) \in Int
    BY AnsweredSlot, EntryTimes DEF QuoteAt
<1>3. PublishTime(QuoteAt(r, i)) + MinRemaining <= ctx.expiry
    BY <1>1 DEF Reused, LagOK
<1> HIDE DEF ctx
<1>4. PublishTime(QuoteAt(r, i)) - ctx.publish <= (ctx.expiry - ctx.publish) - MinRemaining
    BY <1>1, <1>2, <1>3, ServerAssumption
<1> QED BY <1>4 DEF ctx

\* Both slots were built from the one entry the snapshot has for the symbol.
LEMMA BatchSpread == FramesHaveSpread /\ BatchInv => ReplyNeverCrossed
<1> SUFFICES ASSUME FramesHaveSpread, BatchInv, NEW r \in Handlers,
                    NEW i \in DOMAIN slot[r], NEW j \in DOMAIN slot[r],
                    slot[r][i].phase = "served", slot[r][j].phase = "served",
                    slot[r][i].pair.symbol = slot[r][j].pair.symbol,
                    slot[r][i].pair.direction # slot[r][j].pair.direction
             PROVE  LET a == slot[r][i].resp.context.price
                        b == slot[r][j].resp.context.price
                    IN  a.num * b.num >= a.den * b.den
    BY DEF ReplyNeverCrossed
<1> DEFINE di == slot[r][i].pair.direction
           dj == slot[r][j].pair.direction
           q == QuoteAt(r, i)
           schema == body[r].schema
           rates == IF SignsUnderlying(schema) THEN q.underlying ELSE q.rate
<1>1. q = QuoteAt(r, j)
    BY DEF QuoteAt, Entry
<1>2. /\ slot[r][i].resp.context.price = PriceOf(schema, q, di)
      /\ slot[r][j].resp.context.price = PriceOf(schema, q, dj)
    BY <1>1, AnsweredSlot DEF AnswerOK, Answered
<1>3. /\ slot[r][i].resp.context.price = [num |-> rates[di].den, den |-> rates[di].num]
      /\ slot[r][j].resp.context.price = [num |-> rates[dj].den, den |-> rates[dj].num]
    BY <1>2 DEF PriceOf, Reciprocal, DirectionalRate
<1>4. \/ di = QuoteToBase /\ dj = BaseToQuote
      \/ di = BaseToQuote /\ dj = QuoteToBase
    BY AnsweredSlot DEF Answered, DirectionOf
<1>5. NotCrossed(rates)
    BY AnsweredSlot, EntryRates DEF Answered, QuoteAt
<1> HIDE DEF di, dj, q, schema, rates
<1>6. rates[di].den * rates[dj].den >= rates[di].num * rates[dj].num
    BY <1>4, <1>5 DEF NotCrossed
<1> QED BY <1>3, <1>6

LEMMA BatchStrict == BatchInv => StrictAllOrNothing
<1> SUFFICES ASSUME BatchInv, NEW r \in Handlers, ~IsEnvelope(body[r])
             PROVE  /\ pc[r] = "reply" =>
                          \A i \in DOMAIN slot[r] : slot[r][i].phase = "served"
                    /\ \A i, j \in DOMAIN slot[r] :
                          i < j /\ slot[r][i].phase = "failed"
                             => slot[r][j].phase \notin InFlight
    BY DEF StrictAllOrNothing
<1>1. /\ StrictOK(pc[r], slot[r])
      /\ \A i \in DOMAIN slot[r] : slot[r][i].phase \in PhasesAt[pc[r]]
    BY DEF BatchInv, Requests, RequestAt, RequestOK
<1>2. PhasesAt["reply"] = {"served", "failed"}
    BY DEF PhasesAt
<1> QED BY <1>1, <1>2 DEF StrictOK

-----------------------------------------------------------------------------
(* One request: what moves of its slots keep it well formed.                *)

\* A slot goes on to phase p with the answer it has, if any.
LEMMA PhaseMove ==
    ASSUME NEW b, NEW sn, NEW s, SlotOK(b, sn, s), s.phase \notin Dormant,
           NEW p \in Phases \ Dormant, p \in Answered => s.phase \in Answered
    PROVE  LET t == [s EXCEPT !.phase = p] IN SlotOK(b, sn, t) /\ t.phase = p
<1> DEFINE t == [s EXCEPT !.phase = p]
<1>1. /\ DOMAIN t = SlotFields /\ t.phase = p
      /\ t.err = s.err /\ t.pair = s.pair /\ t.resp = s.resp /\ t.validity = s.validity
      /\ t.input = s.input /\ t.output = s.output
    BY DEF SlotOK, SlotFields
<1>2. s.phase # "failed"
    BY DEF Dormant
<1> HIDE DEF t
<1>3. SlotOK(b, sn, t)
    BY <1>1, <1>2 DEF SlotOK, AnswerOK, TokenOf, DirectionOf
<1> QED BY <1>1, <1>3 DEF t

LEMMA FailedSlot ==
    ASSUME NEW b, NEW sn, NEW s, SlotOK(b, sn, s), NEW code \in Codes
    PROVE  SlotOK(b, sn, Failed(s, code)) /\ Failed(s, code).phase = "failed"
<1> DEFINE t == Failed(s, code)
<1>1. DOMAIN t = SlotFields /\ t.phase = "failed" /\ t.err = code
    BY DEF SlotOK, SlotFields, Failed
<1>2. "failed" \in Dormant /\ "failed" \notin Answered /\ "failed" \in Phases
    BY DEF Dormant, Answered, Phases
<1> HIDE DEF t
<1>3. SlotOK(b, sn, t)
    BY <1>1, <1>2 DEF SlotOK
<1> QED BY <1>1, <1>3 DEF t

\* A slot of a build goes on: in a strict request the ones before it are built,
\* and none behind it has started.
LEMMA BuildMove ==
    ASSUME NEW b, NEW sl, NEW sn, NEW re, NEW fi,
           RequestOK("build", b, sl, sn, re, fi),
           NEW i \in DOMAIN sl, sl[i].phase # "built",
           NEW s, SlotOK(b, sn, s), s.phase \in InFlight \cup {"built"},
           ~IsEnvelope(b) /\ s.phase \in InFlight =>
              \A j \in DOMAIN sl : j < i => sl[j].phase = "built"
    PROVE  RequestOK("build", b, [sl EXCEPT ![i] = s], sn, re, fi)
<1> DEFINE new == [sl EXCEPT ![i] = s]
<1>1. DOMAIN new = DOMAIN sl
    OBVIOUS
<1>2. \A j \in DOMAIN sl : new[j] = IF j = i THEN s ELSE sl[j]
    OBVIOUS
<1> HIDE DEF new
<1>3. s.phase \in PhasesAt["build"] /\ s.phase # "served" /\ s.phase # "failed"
    BY DEF PhasesAt, Phases, InFlight
<1>4. \A j \in DOMAIN new : /\ SlotOK(b, sn, new[j]) /\ new[j].phase \in PhasesAt["build"]
                            /\ new[j].phase = "served" => ServedOK(new[j], re, fi)
    BY <1>1, <1>2, <1>3 DEF RequestOK
<1>5. ASSUME ~IsEnvelope(b) PROVE StrictOK("build", new)
    <2>1. StrictOK("build", sl)
        BY <1>5 DEF RequestOK
    <2>2. \A j \in DOMAIN new : new[j].phase # "failed"
        BY <1>1, <1>2, <1>3, <2>1 DEF StrictOK
    <2>3. ASSUME NEW j \in DOMAIN new, NEW k \in DOMAIN new, j < k, new[k].phase \in InFlight
          PROVE  new[j].phase = "built"
        <3>1. CASE k = i
            BY <1>1, <1>2, <1>5, <2>1, <2>3, <3>1 DEF StrictOK, RequestOK
        <3>2. CASE k # i
            BY <1>1, <1>2, <2>1, <2>3, <3>2 DEF StrictOK
        <3> QED BY <3>1, <3>2
    <2> QED BY <2>2, <2>3 DEF StrictOK
<1>6. RequestOK("build", b, new, sn, re, fi)
    BY <1>1, <1>4, <1>5 DEF RequestOK
<1> QED BY <1>6 DEF new

\* A slot fails: alone in an envelope, with the request otherwise.
LEMMA FailMove ==
    ASSUME NEW p \in {"build", "revalidate"}, NEW b, NEW sl, NEW sn, NEW re, NEW fi,
           RequestOK(p, b, sl, sn, re, fi),
           NEW i \in DOMAIN sl, p = "build" => sl[i].phase # "built",
           NEW code \in Codes
    PROVE  RequestOK(IF IsEnvelope(b) THEN p ELSE "error", b,
                     [sl EXCEPT ![i] = Failed(sl[i], code)], sn, re, fi)
<1> DEFINE s == Failed(sl[i], code)
           new == [sl EXCEPT ![i] = s]
           end == IF IsEnvelope(b) THEN p ELSE "error"
<1>1. DOMAIN new = DOMAIN sl
    OBVIOUS
<1>2. \A j \in DOMAIN sl : new[j] = IF j = i THEN s ELSE sl[j]
    OBVIOUS
<1>3. SlotOK(b, sn, s) /\ s.phase = "failed"
    BY FailedSlot DEF RequestOK
<1> HIDE DEF new, s
<1>4. \A j \in DOMAIN sl : sl[j].phase \in PhasesAt[end]
    BY DEF RequestOK, PhasesAt, SlotOK
<1>5. "failed" \in PhasesAt[end]
    BY DEF PhasesAt, Phases
<1>6. \A j \in DOMAIN new : /\ SlotOK(b, sn, new[j]) /\ new[j].phase \in PhasesAt[end]
                            /\ new[j].phase = "served" => ServedOK(new[j], re, fi)
    BY <1>1, <1>2, <1>3, <1>4, <1>5 DEF RequestOK
<1>7. ASSUME ~IsEnvelope(b) PROVE StrictOK(end, new)
    <2>1. StrictOK(p, sl) /\ end = "error"
        BY <1>7 DEF RequestOK
    <2>2. "failed" \notin InFlight
        BY DEF InFlight
    <2>3. ASSUME NEW j \in DOMAIN new, NEW k \in DOMAIN new, j < k, new[k].phase \in InFlight
          PROVE  new[j].phase = "built"
        <3>1. k # i /\ sl[k].phase \in InFlight
            BY <1>1, <1>2, <1>3, <2>2, <2>3
        <3>2. p = "build"
            BY <1>1, <3>1 DEF RequestOK, PhasesAt, InFlight
        <3>3. sl[j].phase = "built"
            BY <1>1, <2>1, <2>3, <3>1 DEF StrictOK
        <3> QED BY <1>1, <1>2, <3>2, <3>3
    <2> QED BY <2>1, <2>3 DEF StrictOK
<1>8. end \in Places
    BY DEF Places
<1>9. RequestOK(end, b, new, sn, re, fi)
    BY <1>1, <1>6, <1>7, <1>8 DEF RequestOK
<1> QED BY <1>9 DEF new, s

\* The final pass serves a slot.
LEMMA ServeMove ==
    ASSUME NEW b, NEW sl, NEW sn, NEW re, NEW fi,
           RequestOK("revalidate", b, sl, sn, re, fi),
           NEW i \in DOMAIN sl, sl[i].phase = "built",
           ServedOK(sl[i], re, fi)
    PROVE  RequestOK("revalidate", b, [sl EXCEPT ![i] = [sl[i] EXCEPT !.phase = "served"]],
                     sn, re, fi)
<1> DEFINE s == [sl[i] EXCEPT !.phase = "served"]
           new == [sl EXCEPT ![i] = s]
<1>1. DOMAIN new = DOMAIN sl
    OBVIOUS
<1>2. \A j \in DOMAIN sl : new[j] = IF j = i THEN s ELSE sl[j]
    OBVIOUS
<1>3. SlotOK(b, sn, sl[i]) /\ DOMAIN sl[i] = SlotFields
    BY DEF RequestOK, SlotOK
<1>4. SlotOK(b, sn, s) /\ s.phase = "served"
    BY <1>3, PhaseMove DEF Phases, Dormant, Answered
<1>5. s.pair = sl[i].pair /\ s.validity = sl[i].validity
    BY <1>3 DEF SlotFields
<1> HIDE DEF new, s
<1>6. ServedOK(s, re, fi)
    BY <1>5 DEF ServedOK
<1>7. "served" \in PhasesAt["revalidate"]
    BY DEF PhasesAt
<1>8. \A j \in DOMAIN new : /\ SlotOK(b, sn, new[j])
                            /\ new[j].phase \in PhasesAt["revalidate"]
                            /\ new[j].phase = "served" => ServedOK(new[j], re, fi)
    BY <1>1, <1>2, <1>4, <1>6, <1>7 DEF RequestOK
<1>9. ASSUME ~IsEnvelope(b) PROVE StrictOK("revalidate", new)
    <2>1. StrictOK("revalidate", sl)
        BY <1>9 DEF RequestOK
    <2>2. \A j \in DOMAIN new : new[j].phase # "failed"
        BY <1>1, <1>2, <1>4, <2>1 DEF StrictOK
    <2>3. \A j \in DOMAIN new : new[j].phase \notin InFlight
        BY <1>8 DEF PhasesAt, InFlight
    <2> QED BY <2>2, <2>3 DEF StrictOK
<1>10. RequestOK("revalidate", b, new, sn, re, fi)
    BY <1>1, <1>8, <1>9 DEF RequestOK
<1> QED BY <1>10 DEF new, s

\* The request goes on to its next place, with new snapshots or a new final set.
LEMMA PlaceMove ==
    ASSUME NEW p, NEW b, NEW sl, NEW sn, NEW re, NEW fi, RequestOK(p, b, sl, sn, re, fi),
           NEW q \in Places, NEW sm, NEW rf, NEW fj,
           p # "error", q # "error",
           sm = sn \/ \A i \in DOMAIN sl : sl[i].phase \in Dormant,
           <<re, fi>> = <<rf, fj>> \/ \A i \in DOMAIN sl : sl[i].phase # "served",
           \A i \in DOMAIN sl : sl[i].phase \in PhasesAt[q]
    PROVE  RequestOK(q, b, sl, sm, rf, fj)
<1>1. \A i \in DOMAIN sl : SlotOK(b, sm, sl[i])
    <2>1. ASSUME \A i \in DOMAIN sl : sl[i].phase \in Dormant
          PROVE  \A i \in DOMAIN sl : SlotOK(b, sm, sl[i])
        <3>1. Dormant \cap Answered = {}
            BY DEF Dormant, Answered
        <3> QED BY <2>1, <3>1 DEF RequestOK, SlotOK
    <2> QED BY <2>1 DEF RequestOK
<1>2. \A i \in DOMAIN sl : sl[i].phase = "served" => ServedOK(sl[i], rf, fj)
    BY DEF RequestOK
<1>3. ~IsEnvelope(b) => StrictOK(q, sl)
    BY DEF RequestOK, StrictOK
<1> QED BY <1>1, <1>2, <1>3 DEF RequestOK

-----------------------------------------------------------------------------
(* Handler r of a server moves, and the others stand.                       *)

\* What a step of handler r never touches.
OthersStand(r) ==
    \A q \in Handlers \ {r} :
       /\ pc'[q] = pc[q] /\ body'[q] = body[q] /\ slot'[q] = slot[q]
       /\ snap'[q] = snap[q] /\ recheck'[q] = recheck[q] /\ final'[q] = final[q]

LEMMA HandlerMoves ==
    ASSUME BatchInv, NEW r \in Handlers, OthersStand(r),
           DOMAIN pc' = Handlers, pc' = [q \in Handlers |-> pc'[q]],
           body' = [q \in Handlers |-> body'[q]],
           DOMAIN final' = Handlers,
           RequestOK(pc'[r], body'[r], slot'[r], snap'[r], recheck'[r], final'[r])
    PROVE  Requests'
<1>1. \A q \in Handlers : RequestAt(q)'
    BY DEF OthersStand, BatchInv, Requests, RequestAt
<1>2. \A q \in Handlers : pc'[q] \in Places /\ body'[q] \in Bodies \cup {NoBody}
    BY <1>1 DEF RequestAt, RequestOK
<1> QED BY <1>1, <1>2 DEF Requests

\* What a handler's step leaves alone of what is shared.
LEMMA SharedStands ==
    ASSUME BatchInv, UNCHANGED <<now, cacheVars, reloadVars>>
    PROVE  CacheTimes' /\ (final' = final => SetsKnown')
           /\ (<<snap, recheck>>' = <<snap, recheck>> => HeldQuotes')
           /\ (reuse' = reuse => Stored')
<1>1. CacheTimes'
    BY DEF BatchInv, CacheTimes, cacheVars
<1>2. final' = final => SetsKnown'
    BY DEF BatchInv, SetsKnown, SetKnown, reloadVars
<1>3. <<snap, recheck>>' = <<snap, recheck>> => HeldQuotes'
    BY DEF BatchInv, HeldQuotes
<1>4. reuse' = reuse => Stored'
    BY DEF BatchInv, Stored
<1> QED BY <1>1, <1>2, <1>3, <1>4

\* The parts of BatchInv that are about replies; the rest is proved elsewhere.
Replies == CacheTimes /\ HeldQuotes /\ Stored /\ SetsKnown /\ Requests

LEMMA SlotMoves ==
    ASSUME BatchInv, UNCHANGED <<now, cacheVars, reloadVars>>, Stored',
           NEW r \in Handlers, NEW new,
           slot' = [slot EXCEPT ![r] = new],
           UNCHANGED <<body, snap, recheck, final>>,
           NEW p, pc' = [pc EXCEPT ![r] = p],
           RequestOK(p, body[r], new, snap[r], recheck[r], final[r])
    PROVE  Replies'
<1>1. CacheTimes' /\ SetsKnown' /\ HeldQuotes'
    BY SharedStands
<1>2. /\ DOMAIN pc = Handlers /\ DOMAIN slot = Handlers /\ DOMAIN final = Handlers
      /\ body \in [Handlers -> Bodies \cup {NoBody}]
    BY DEF BatchInv, Requests, ServerInv, Shape
<1>3. OthersStand(r) /\ pc'[r] = p /\ slot'[r] = new
    BY <1>2 DEF OthersStand
<1>4. Requests'
    BY <1>2, <1>3, HandlerMoves
<1> QED BY <1>1, <1>4 DEF Replies

LEMMA AdvanceMoves ==
    ASSUME BatchInv, UNCHANGED <<now, cacheVars, reloadVars>>, Stored',
           NEW r \in Handlers, NEW i \in DOMAIN slot[r], NEW s, Advance(r, i, s),
           pc[r] = "build", slot[r][i].phase # "built",
           SlotOK(body[r], snap[r], s), s.phase \in InFlight \cup {"built"},
           slot[r][i].phase \in InFlight \/ MayStart(r, i)
    PROVE  Replies'
<1>1. RequestOK("build", body[r], slot[r], snap[r], recheck[r], final[r])
    BY DEF BatchInv, Requests, RequestAt
<1>2. ASSUME ~IsEnvelope(body[r]), NEW j \in DOMAIN slot[r], j < i
      PROVE  slot[r][j].phase = "built"
    <2>1. CASE slot[r][i].phase \in InFlight
        BY <1>1, <1>2, <2>1 DEF RequestOK, StrictOK
    <2>2. CASE MayStart(r, i)
        <3>1. i \in Nat \ {0} /\ j \in Nat \ {0}
            BY <1>1, ServerAssumption DEF RequestOK, NoBody
        <3>2. j \in 1 .. i - 1
            BY <1>2, <3>1
        <3> QED BY <1>2, <2>2, <3>2 DEF MayStart
    <2> QED BY <2>1, <2>2
<1> DEFINE new == [slot[r] EXCEPT ![i] = s]
<1>3. RequestOK("build", body[r], new, snap[r], recheck[r], final[r])
    BY <1>1, <1>2, BuildMove
<1>4. slot' = [slot EXCEPT ![r] = new] /\ UNCHANGED <<body, snap, recheck, final>>
      /\ pc' = [pc EXCEPT ![r] = "build"]
    BY DEF Advance, BatchInv, ServerInv, Shape, Requests
<1> HIDE DEF new
<1> QED BY <1>3, <1>4, SlotMoves

LEMMA FailMoves ==
    ASSUME BatchInv, UNCHANGED <<now, cacheVars, reloadVars, reuse>>,
           NEW r \in Handlers, NEW i \in DOMAIN slot[r], NEW code \in Codes,
           Fail(r, i, code),
           \/ pc[r] = "build" /\ slot[r][i].phase # "built"
           \/ pc[r] = "revalidate"
    PROVE  Replies'
<1>1. RequestOK(pc[r], body[r], slot[r], snap[r], recheck[r], final[r])
    BY DEF BatchInv, Requests, RequestAt
<1> DEFINE new == [slot[r] EXCEPT ![i] = Failed(slot[r][i], code)]
           end == IF IsEnvelope(body[r]) THEN pc[r] ELSE "error"
<1>2. RequestOK(end, body[r], new, snap[r], recheck[r], final[r])
    BY <1>1, FailMove
<1>3. slot' = [slot EXCEPT ![r] = new] /\ UNCHANGED <<body, snap, recheck, final>>
    BY DEF Fail, BatchInv, ServerInv, Shape
<1>4. pc' = [pc EXCEPT ![r] = end]
    BY DEF Fail, BatchInv, Requests
<1>5. Stored'
    BY SharedStands
<1> HIDE DEF new, end
<1> QED BY <1>2, <1>3, <1>4, <1>5, SlotMoves

-----------------------------------------------------------------------------
(* Building a slot.                                                         *)

\* The slot and the quote of a slot past admission.
LEMMA AdmittedSlot ==
    ASSUME BatchInv, NEW r \in Handlers, NEW i \in DOMAIN slot[r],
           slot[r][i].phase \notin Dormant
    PROVE  /\ SlotOK(body[r], snap[r], slot[r][i])
           /\ slot[r][i].pair.symbol \in DOMAIN snap[r]
           /\ Arrived(Entry(r, i), now)
           /\ QuoteAt(r, i).base = slot[r][i].pair.token
           /\ EffectiveExpiry(QuoteAt(r, i)) >= 0
<1>1. SlotOK(body[r], snap[r], slot[r][i])
    BY DEF BatchInv, Requests, RequestAt, RequestOK
<1>2. slot[r][i].pair.symbol \in DOMAIN snap[r]
    BY <1>1 DEF SlotOK
<1>3. Arrived(Entry(r, i), now)
    BY <1>2 DEF BatchInv, HeldQuotes, Held, Entry
<1> QED BY <1>1, <1>2, <1>3 DEF SlotOK, Entry, QuoteAt

\* A slot that is being built goes on with the answer it has, if any.
LEMMA PhaseMoves ==
    ASSUME BatchInv, UNCHANGED <<now, cacheVars, reloadVars>>, Stored',
           NEW r \in Handlers, NEW i \in DOMAIN slot[r], NEW p,
           Advance(r, i, [slot[r][i] EXCEPT !.phase = p]),
           pc[r] = "build", slot[r][i].phase \in InFlight,
           p \in InFlight \cup {"built"}, p \in Answered => slot[r][i].phase \in Answered
    PROVE  Replies'
<1>1. slot[r][i].phase \notin Dormant /\ slot[r][i].phase # "built"
      /\ p \in Phases \ Dormant
    BY DEF InFlight, Dormant, Phases
<1> DEFINE s == [slot[r][i] EXCEPT !.phase = p]
<1>2. SlotOK(body[r], snap[r], s) /\ s.phase = p
    BY <1>1, AdmittedSlot, PhaseMove
<1> HIDE DEF s
<1>3. Advance(r, i, s)
    BY DEF s
<1> QED BY <1>1, <1>2, <1>3, AdvanceMoves

LEMMA AdmissionCodes ==
    ASSUME NEW r, NEW i, AdmissionVerdict(r, i) # "ok"
    PROVE  AdmissionVerdict(r, i) \in Codes
<1>1. SessionVerdict(QuoteAt(r, i)) \in {"ok", "missing_session", "invalid_session"}
    BY DEF SessionVerdict
<1> QED BY <1>1 DEF AdmissionVerdict, Codes

LEMMA AdmitMoves ==
    ASSUME BatchInv, UNCHANGED <<now, cacheVars, reloadVars>>,
           NEW r \in Handlers, NEW i \in DOMAIN slot[r], Admit(r, i)
    PROVE  Replies'
<1>1. pc[r] = "build" /\ slot[r][i].phase = "queued" /\ UNCHANGED reuse /\ MayStart(r, i)
    BY DEF Admit, TaskAt
<1>2. Stored'
    BY <1>1, SharedStands
<1>3. CASE AdmissionVerdict(r, i) = "ok"
    <2>1. /\ slot[r][i].pair.symbol \in DOMAIN snap[r]
          /\ PricedFor(QuoteAt(r, i), slot[r][i].pair)
          /\ Executable(QuoteAt(r, i), now)
        BY <1>3 DEF AdmissionVerdict
    <2>2. Entry(r, i) \in Entries /\ now \in Nat
        BY <2>1, InstantsNat DEF BatchInv, HeldQuotes, Held, Arrived, Entry, CacheTimes
    <2>3. EffectiveExpiry(QuoteAt(r, i)) \in Int
        BY <2>2, EntryTimes DEF QuoteAt
    <2>4. EffectiveExpiry(QuoteAt(r, i)) >= 0
        BY <2>1, <2>2, <2>3 DEF Executable, QuoteIsLive
    <2> DEFINE s == [slot[r][i] EXCEPT !.phase = "admitted"]
    <2>5. SlotOK(body[r], snap[r], slot[r][i])
        BY DEF BatchInv, Requests, RequestAt, RequestOK
    <2>6. /\ DOMAIN s = SlotFields /\ s.phase = "admitted"
          /\ s.err = slot[r][i].err /\ s.pair = slot[r][i].pair
          /\ s.input = slot[r][i].input /\ s.output = slot[r][i].output
        BY <2>5 DEF SlotOK, SlotFields
    <2>7. "admitted" \in Phases /\ "admitted" \notin Answered /\ "admitted" \in InFlight
        BY DEF Phases, Answered, InFlight
    <2> HIDE DEF s
    <2>8. SlotOK(body[r], snap[r], s)
        BY <1>1, <2>1, <2>4, <2>5, <2>6, <2>7
           DEF SlotOK, TokenOf, DirectionOf, PricedFor, QuoteAt, Entry
    <2>9. Advance(r, i, s)
        BY <1>3 DEF Admit, s
    <2> QED BY <1>1, <1>2, <2>6, <2>7, <2>8, <2>9, AdvanceMoves
<1>4. CASE AdmissionVerdict(r, i) # "ok"
    <2>1. Fail(r, i, AdmissionVerdict(r, i))
        BY <1>4 DEF Admit
    <2> QED BY <1>1, <1>4, <2>1, AdmissionCodes, FailMoves
<1> QED BY <1>3, <1>4

\* A stored answer that the lookup returns states what the frame q states.
LEMMA ReusedAnswer ==
    ASSUME NEW key, NEW v, StoredOK(key, v), NEW schema, NEW e, NEW t \in Nat,
           Arrived(e, t),
           NEW ctx, ctx = Context(schema, e.quote, DirectionOf(key), key.input, key.output,
                                  ChainId),
           SameStatement(v.resp.context, ctx), v.expiry <= ctx.expiry,
           v.expiry >= Seconds(t) + MinRemaining,
           NEW s, s.resp = v.resp, s.validity = v.expiry * MsPerSecond,
           s.input = key.input, s.output = key.output,
           s.pair.token = TokenOf(s), s.pair.direction = DirectionOf(s)
    PROVE  AnswerOK(schema, e.quote, s)
<1> DEFINE old == v.resp.context
           price == PriceOf(schema, e.quote, DirectionOf(key))
<1>1. /\ DOMAIN ctx = {"version", "price", "publish", "session", "input", "output",
                       "expiry", "slot9"}
      /\ ctx.price = price /\ ctx.input = key.input /\ ctx.output = key.output
    BY DEF Context
<1>2. old.price = price /\ old.input = key.input /\ old.output = key.output
    BY <1>1 DEF SameStatement, TimestampSlots
<1>3. /\ v.expiry \in Int /\ v.expiry = old.expiry /\ old.publish \in Int
      /\ v.resp.base = TokenOf(key)
    BY DEF StoredOK
<1> HIDE DEF old, price
<1>4. TokenOf(s) = TokenOf(key) /\ DirectionOf(s) = DirectionOf(key)
    BY DEF TokenOf, DirectionOf
<1>5. /\ s.validity \in Int /\ Seconds(s.validity) = v.expiry
      /\ v.expiry * MsPerSecond <= s.validity
    <2>1. Seconds(v.expiry * MsPerSecond) = v.expiry
        BY <1>3, WholeSeconds
    <2>2. s.validity \in Int /\ v.expiry * MsPerSecond <= s.validity
        BY <1>3 DEF MsPerSecond
    <2> QED BY <2>1, <2>2
<1>6. ASSUME SourceNotAhead PROVE PublishTime(e.quote) + MinRemaining <= v.expiry
    <2>1. e.quote.src \in Int /\ e.quote.src <= t
        BY <1>6, EntryTimes DEF Arrived
    <2>2. PublishTime(e.quote) <= Seconds(t)
        BY <2>1 DEF PublishTime, TruncSeconds, Seconds, MsPerSecond
    <2>3. PublishTime(e.quote) \in Int /\ Seconds(t) \in Int
        BY <2>1, WholeSeconds DEF PublishTime
    <2> QED BY <1>3, <2>2, <2>3, ServerAssumption
<1> QED BY <1>2, <1>3, <1>4, <1>5, <1>6 DEF AnswerOK, LagOK, old, price

LEMMA LookupMoves ==
    ASSUME BatchInv, UNCHANGED <<now, cacheVars, reloadVars>>,
           NEW r \in Handlers, NEW i \in DOMAIN slot[r], LookupReuse(r, i)
    PROVE  Replies'
<1>1. pc[r] = "build" /\ slot[r][i].phase = "admitted" /\ UNCHANGED reuse
    BY DEF LookupReuse, TaskAt
<1>2. Stored'
    BY <1>1, SharedStands
<1>3. slot[r][i].phase \notin Dormant /\ slot[r][i].phase \in InFlight
    BY <1>1 DEF Dormant, InFlight
<1> DEFINE key == ReuseKey(r, i)
           hit == Reusable(key, ContextAt(r, i), Entry(r, i).gen, Seconds(now))
<1>4. CASE ~IsLive(Entry(r, i))
    <2>1. Fail(r, i, "no_live_quote")
        BY <1>4 DEF LookupReuse
    <2> QED BY <1>1, <2>1, FailMoves DEF Codes
<1>5. CASE IsLive(Entry(r, i)) /\ ~hit
    <2>1. Advance(r, i, [slot[r][i] EXCEPT !.phase = "unsigned"])
        BY <1>5 DEF LookupReuse
    <2> QED BY <1>1, <1>2, <1>3, <2>1, PhaseMoves DEF InFlight, Answered
<1>6. CASE IsLive(Entry(r, i)) /\ hit
    <2> DEFINE v == reuse[key]
               s == [slot[r][i] EXCEPT !.phase = "reusing", !.resp = v.resp,
                                       !.validity = v.expiry * MsPerSecond]
    <2>1. Advance(r, i, s)
        BY <1>6 DEF LookupReuse
    <2>2. SlotOK(body[r], snap[r], slot[r][i])
        BY <1>3, AdmittedSlot
    <2>3. /\ DOMAIN s = SlotFields /\ s.phase = "reusing" /\ s.resp = v.resp
          /\ s.validity = v.expiry * MsPerSecond /\ s.pair = slot[r][i].pair
          /\ s.input = slot[r][i].input /\ s.output = slot[r][i].output
          /\ s.err = slot[r][i].err
        BY <2>2 DEF SlotOK, SlotFields
    <2>4. /\ key \in DOMAIN reuse /\ SameStatement(v.resp.context, ContextAt(r, i))
          /\ v.expiry <= ContextAt(r, i).expiry
          /\ v.expiry >= Seconds(now) + MinRemaining
        BY <1>6 DEF Reusable
    <2>5. key.input = slot[r][i].input /\ key.output = slot[r][i].output
        BY DEF ReuseKey
    <2>6. StoredOK(key, v)
        BY <2>4 DEF BatchInv, Stored
    <2>7. /\ s.pair.token = TokenOf(s) /\ s.pair.direction = DirectionOf(s)
          /\ DirectionOf(s) = DirectionOf(key)
          /\ s.pair.symbol \in Symbols
        BY <1>3, <2>2, <2>3, <2>5 DEF SlotOK, TokenOf, DirectionOf, Dormant
    <2>8. ContextAt(r, i) = Context(body[r].schema, Entry(r, i).quote, DirectionOf(key),
                                    key.input, key.output, ChainId)
        BY <2>3, <2>5, <2>7 DEF ContextAt, QuoteAt
    <2>9. Arrived(Entry(r, i), now) /\ now \in Nat
        BY <1>3, AdmittedSlot, InstantsNat DEF BatchInv, CacheTimes
    <2> HIDE DEF s, v, key
    <2>10. AnswerOK(body[r].schema, Entry(r, i).quote, s)
        BY <2>3, <2>4, <2>5, <2>6, <2>7, <2>8, <2>9, ReusedAnswer
    <2>11. "reusing" \in Phases /\ "reusing" \in InFlight
        BY DEF Phases, InFlight
    <2>12. SlotOK(body[r], snap[r], s)
        BY <1>3, <2>2, <2>3, <2>7, <2>10, <2>11, AdmittedSlot DEF SlotOK, Entry, QuoteAt
    <2> QED BY <1>1, <1>2, <1>3, <2>1, <2>3, <2>11, <2>12, AdvanceMoves
<1> QED BY <1>4, <1>5, <1>6

LEMMA ReturnMoves ==
    ASSUME BatchInv, UNCHANGED <<now, cacheVars, reloadVars>>,
           NEW r \in Handlers, NEW i \in DOMAIN slot[r],
           ReturnReused(r, i) \/ StartSign(r, i)
    PROVE  Replies'
<1>1. pc[r] = "build" /\ slot[r][i].phase \in {"reusing", "unsigned"} /\ UNCHANGED reuse
    BY DEF ReturnReused, StartSign, TaskAt
<1>2. Stored'
    BY <1>1, SharedStands
<1>3. slot[r][i].phase \in InFlight /\ slot[r][i].phase # "built"
    BY <1>1 DEF InFlight
<1>4. CASE \E code \in Codes : Fail(r, i, code)
    BY <1>1, <1>3, <1>4, FailMoves
<1>5. CASE ReturnReused(r, i) /\ Advance(r, i, [slot[r][i] EXCEPT !.phase = "built"])
    BY <1>1, <1>2, <1>3, <1>5, PhaseMoves DEF ReturnReused, Answered
<1>6. CASE Advance(r, i, [slot[r][i] EXCEPT !.phase = "signing"])
    BY <1>1, <1>2, <1>3, <1>6, PhaseMoves DEF InFlight, Answered
<1>7. "no_live_quote" \in Codes /\ "expired_quote" \in Codes
    BY DEF Codes
<1> QED BY <1>4, <1>5, <1>6, <1>7 DEF ReturnReused, StartSign

\* A fresh answer states its own frame, and its seconds are within its bound.
LEMMA FreshAnswer ==
    ASSUME NEW schema, NEW e \in Entries, EffectiveExpiry(e.quote) >= 0,
           NEW s, s.resp.base = e.quote.base, s.validity = EffectiveExpiry(e.quote),
           s.resp.context = Context(schema, e.quote, s.pair.direction, s.input, s.output,
                                    ChainId),
           e.quote.base = s.pair.token
    PROVE  AnswerOK(schema, e.quote, s)
<1>1. s.validity \in Int /\ PublishTime(e.quote) \in Int
    BY EntryTimes
<1>2. SignedExpiry(e.quote) = Seconds(s.validity) /\ SignedExpiry(e.quote) \in Int
      /\ SignedExpiry(e.quote) * MsPerSecond <= s.validity
    BY <1>1, WholeSeconds DEF SignedExpiry
<1>3. /\ s.resp.context.price = PriceOf(schema, e.quote, s.pair.direction)
      /\ s.resp.context.input = s.input /\ s.resp.context.output = s.output
      /\ s.resp.context.expiry = SignedExpiry(e.quote)
      /\ s.resp.context.publish = PublishTime(e.quote)
    BY DEF Context
<1> QED BY <1>1, <1>2, <1>3 DEF AnswerOK, LagOK

LEMMA FinishMoves ==
    ASSUME BatchInv, UNCHANGED <<now, cacheVars, reloadVars>>,
           NEW r \in Handlers, NEW i \in DOMAIN slot[r], NEW ok \in BOOLEAN,
           FinishSign(r, i, ok)
    PROVE  Replies'
<1>1. pc[r] = "build" /\ slot[r][i].phase = "signing" /\ UNCHANGED reuse
    BY DEF FinishSign, TaskAt
<1>2. Stored'
    BY <1>1, SharedStands
<1>3. slot[r][i].phase \notin Dormant /\ slot[r][i].phase \in InFlight
    BY <1>1 DEF Dormant, InFlight
<1> DEFINE resp == [context |-> ContextAt(r, i), base |-> QuoteAt(r, i).base,
                    gen |-> Entry(r, i).gen, epoch |-> Entry(r, i).epoch]
           s == [slot[r][i] EXCEPT !.phase = "signed", !.resp = resp,
                                   !.validity = EffectiveExpiry(QuoteAt(r, i))]
<1>4. \/ \E code \in Codes : Fail(r, i, code)
      \/ Advance(r, i, s)
    BY DEF FinishSign, Codes
<1>5. CASE \E code \in Codes : Fail(r, i, code)
    BY <1>1, <1>5, FailMoves
<1>6. CASE Advance(r, i, s)
    <2>1. SlotOK(body[r], snap[r], slot[r][i]) /\ Arrived(Entry(r, i), now)
          /\ QuoteAt(r, i).base = slot[r][i].pair.token
          /\ EffectiveExpiry(QuoteAt(r, i)) >= 0
        BY <1>3, AdmittedSlot
    <2>2. /\ DOMAIN s = SlotFields /\ s.phase = "signed" /\ s.resp = resp
          /\ s.validity = EffectiveExpiry(QuoteAt(r, i)) /\ s.pair = slot[r][i].pair
          /\ s.input = slot[r][i].input /\ s.output = slot[r][i].output
          /\ s.err = slot[r][i].err
        BY <2>1 DEF SlotOK, SlotFields
    <2>3. s.resp.base = QuoteAt(r, i).base
          /\ s.resp.context = Context(body[r].schema, QuoteAt(r, i), s.pair.direction,
                                      s.input, s.output, ChainId)
        BY <2>2 DEF ContextAt
    <2> HIDE DEF s, resp
    <2>4. AnswerOK(body[r].schema, Entry(r, i).quote, s)
        BY <2>1, <2>2, <2>3, FreshAnswer DEF Arrived, QuoteAt
    <2>5. "signed" \in Phases /\ "signed" \in InFlight
        BY DEF Phases, InFlight
    <2>6. SlotOK(body[r], snap[r], s)
        BY <1>3, <2>1, <2>2, <2>4, <2>5, AdmittedSlot
           DEF SlotOK, Entry, QuoteAt, TokenOf, DirectionOf, Dormant
    <2> QED BY <1>1, <1>2, <1>3, <1>6, <2>2, <2>5, <2>6, AdvanceMoves
<1> QED BY <1>4, <1>5, <1>6

\* What is stored is bound to the tokens of its key.
LEMMA StoreMoves ==
    ASSUME BatchInv, UNCHANGED <<now, cacheVars, reloadVars>>,
           NEW r \in Handlers, NEW i \in DOMAIN slot[r], Store(r, i)
    PROVE  Replies'
<1>1. pc[r] = "build" /\ slot[r][i].phase = "signed"
    BY DEF Store, TaskAt
<1>2. slot[r][i].phase \in InFlight /\ slot[r][i].phase \in Answered
      /\ slot[r][i].phase \notin Dormant
    BY <1>1 DEF InFlight, Answered, Dormant
<1> DEFINE key == ReuseKey(r, i)
           resp == slot[r][i].resp
           new == [expiry |-> resp.context.expiry, resp |-> resp, gen |-> Entry(r, i).gen]
<1>3. /\ key.symbol = slot[r][i].pair.symbol
      /\ key.input = slot[r][i].input /\ key.output = slot[r][i].output
    BY DEF ReuseKey
<1>4. \/ reuse' = reuse
      \/ reuse' = [x \in DOMAIN reuse \cup {key} |-> IF x = key THEN new ELSE reuse[x]]
    BY DEF Store, StoreReuse
<1>5. new.resp = resp /\ new.gen = Entry(r, i).gen /\ new.expiry = resp.context.expiry
    OBVIOUS
<1> HIDE DEF new, key
<1>6. StoredOK(key, new)
    <2>1. SlotOK(body[r], snap[r], slot[r][i]) /\ Entry(r, i) \in Entries
        BY <1>2, AdmittedSlot DEF Arrived
    <2>2. slot[r][i].pair.symbol \in Symbols /\ slot[r][i].pair.token = TokenOf(slot[r][i])
        BY <1>1, <2>1 DEF SlotOK
    <2>3. AnswerOK(body[r].schema, QuoteAt(r, i), slot[r][i])
        BY <1>2, AnsweredSlot
    <2>4. resp.gen = Entry(r, i).gen /\ Entry(r, i).gen \in Nat
        BY <1>2, <2>1, EntryTimes DEF BatchInv, ServerInv, AnswersCurrent, AnswerCurrent
    <2>5. TokenOf(key) = TokenOf(slot[r][i])
        BY <1>3 DEF TokenOf
    <2> QED BY <1>3, <1>5, <2>2, <2>3, <2>4, <2>5 DEF StoredOK, AnswerOK
<1>7. Stored'
    BY <1>4, <1>6 DEF Stored, BatchInv
<1>8. Advance(r, i, [slot[r][i] EXCEPT !.phase = "built"])
    BY DEF Store
<1> QED BY <1>1, <1>2, <1>7, <1>8, PhaseMoves

-----------------------------------------------------------------------------
(* The passes over a whole request.                                         *)

LEMMA SnapshotHeld ==
    ASSUME BatchInv, NEW S
    PROVE  Held(SnapshotMany(S), now)
<1>1. ASSUME NEW s \in DOMAIN SnapshotMany(S)
      PROVE  <<ChainId, s>> \in DOMAIN quotes /\ SnapshotMany(S)[s] = quotes[<<ChainId, s>>]
    BY DEF SnapshotMany
<1>2. ASSUME NEW s, <<ChainId, s>> \in DOMAIN quotes PROVE s \in Symbols
    BY <1>2 DEF BatchInv, ServerInv, CacheInv, Keys
<1> QED BY <1>1, <1>2 DEF Held, BatchInv, CacheTimes

\* A handler goes to place p with the slots it has.
LEMMA PlaceMoves ==
    ASSUME BatchInv, UNCHANGED <<now, cacheVars, reloadVars, reuse, body, slot>>,
           NEW r \in Handlers, NEW p \in Places, pc' = [pc EXCEPT ![r] = p],
           OthersStand(r), DOMAIN final' = Handlers,
           Held(snap'[r], now), Held(recheck'[r], now), SetKnown(final'[r]),
           RequestOK(p, body[r], slot[r], snap'[r], recheck'[r], final'[r])
    PROVE  Replies'
<1>1. CacheTimes' /\ Stored'
    BY SharedStands
<1>2. DOMAIN pc = Handlers /\ body \in [Handlers -> Bodies \cup {NoBody}]
    BY DEF BatchInv, Requests
<1>3. Requests'
    BY <1>2, HandlerMoves
<1>4. HeldQuotes'
    BY DEF OthersStand, BatchInv, HeldQuotes
<1>5. SetsKnown'
    BY DEF OthersStand, BatchInv, SetsKnown, SetKnown, reloadVars
<1> QED BY <1>1, <1>3, <1>4, <1>5 DEF Replies

LEMMA PassMoves ==
    ASSUME BatchInv, UNCHANGED <<now, cacheVars, reloadVars, reuse>>, NEW r \in Handlers,
           Snapshot(r) \/ Recheck(r) \/ TakeFinal(r) \/ Finish(r)
    PROVE  Replies'
<1>1. /\ RequestOK(pc[r], body[r], slot[r], snap[r], recheck[r], final[r])
      /\ Held(snap[r], now) /\ Held(recheck[r], now) /\ SetKnown(final[r])
      /\ DOMAIN snap = Handlers /\ DOMAIN recheck = Handlers /\ DOMAIN final = Handlers
      /\ DOMAIN pc = Handlers
      /\ \A i \in DOMAIN slot[r] : slot[r][i].phase \in PhasesAt[pc[r]]
    BY DEF BatchInv, Requests, RequestAt, RequestOK, HeldQuotes, SetsKnown, ServerInv, Shape
<1>2. CASE Snapshot(r)
    <2> DEFINE sn == SnapshotMany(PairedSymbols(r, {"queued"}))
    <2>1. Held(sn, now)
        BY SnapshotHeld
    <2> HIDE DEF sn
    <2>2. /\ pc[r] = "snapshot" /\ pc' = [pc EXCEPT ![r] = "build"]
          /\ snap' = [snap EXCEPT ![r] = sn] /\ UNCHANGED <<body, slot, recheck, final>>
        BY <1>2 DEF Snapshot, sn
    <2>3. \A i \in DOMAIN slot[r] : /\ slot[r][i].phase \in Dormant
                                    /\ slot[r][i].phase \in PhasesAt["build"]
        BY <1>1, <2>2 DEF PhasesAt, Dormant, Phases
    <2>4. RequestOK("build", body[r], slot[r], sn, recheck[r], final[r])
        BY <1>1, <2>2, <2>3, PlaceMove DEF Places
    <2>5. OthersStand(r) /\ DOMAIN final' = Handlers
          /\ snap'[r] = sn /\ recheck'[r] = recheck[r] /\ final'[r] = final[r]
        BY <1>1, <2>2 DEF OthersStand
    <2> QED BY <1>1, <2>1, <2>2, <2>4, <2>5, PlaceMoves DEF Places
<1>3. CASE Recheck(r)
    <2> DEFINE re == SnapshotMany(PairedSymbols(r, {"built"}))
    <2>1. Held(re, now)
        BY SnapshotHeld
    <2> HIDE DEF re
    <2>2. /\ pc[r] = "build" /\ pc' = [pc EXCEPT ![r] = "final"] /\ BuildEnded(r)
          /\ recheck' = [recheck EXCEPT ![r] = re] /\ UNCHANGED <<body, slot, snap, final>>
        BY <1>3 DEF Recheck, re
    <2>3. \A i \in DOMAIN slot[r] : slot[r][i].phase \in PhasesAt["final"]
                                    /\ slot[r][i].phase # "served"
        BY <2>2 DEF BuildEnded, PhasesAt
    <2>4. RequestOK("final", body[r], slot[r], snap[r], re, final[r])
        BY <1>1, <2>2, <2>3, PlaceMove DEF Places
    <2>5. OthersStand(r) /\ DOMAIN final' = Handlers
          /\ snap'[r] = snap[r] /\ recheck'[r] = re /\ final'[r] = final[r]
        BY <1>1, <2>2 DEF OthersStand
    <2> QED BY <1>1, <2>1, <2>2, <2>4, <2>5, PlaceMoves DEF Places
<1>4. CASE TakeFinal(r)
    <2> DEFINE fi == [set |-> tokens, at |-> now]
    <2>1. SetKnown(fi)
        BY InstantsNat DEF SetKnown, BatchInv, CacheTimes, RegistryInv, GenerationsGrow
    <2> HIDE DEF fi
    <2>2. /\ pc[r] = "final" /\ pc' = [pc EXCEPT ![r] = "revalidate"]
          /\ final' = [final EXCEPT ![r] = fi] /\ UNCHANGED <<body, slot, snap, recheck>>
        BY <1>4 DEF TakeFinal, fi
    <2>3. \A i \in DOMAIN slot[r] : slot[r][i].phase \in PhasesAt["revalidate"]
                                    /\ slot[r][i].phase # "served"
        BY <1>1, <2>2 DEF PhasesAt
    <2>4. RequestOK("revalidate", body[r], slot[r], snap[r], recheck[r], fi)
        BY <1>1, <2>2, <2>3, PlaceMove DEF Places
    <2>5. OthersStand(r) /\ DOMAIN final' = Handlers
          /\ snap'[r] = snap[r] /\ recheck'[r] = recheck[r] /\ final'[r] = fi
        BY <1>1, <2>2 DEF OthersStand
    <2> QED BY <1>1, <2>1, <2>2, <2>4, <2>5, PlaceMoves DEF Places
<1>5. CASE Finish(r)
    <2>1. /\ pc[r] = "revalidate" /\ pc' = [pc EXCEPT ![r] = "reply"]
          /\ UNCHANGED <<body, slot, snap, recheck, final>>
          /\ \A i \in DOMAIN slot[r] : slot[r][i].phase # "built"
        BY <1>5 DEF Finish
    <2>2. \A i \in DOMAIN slot[r] : slot[r][i].phase \in PhasesAt["reply"]
        BY <1>1, <2>1 DEF PhasesAt
    <2>3. RequestOK("reply", body[r], slot[r], snap[r], recheck[r], final[r])
        BY <1>1, <2>1, <2>2, PlaceMove DEF Places
    <2>4. OthersStand(r) /\ DOMAIN final' = Handlers
          /\ snap'[r] = snap[r] /\ recheck'[r] = recheck[r] /\ final'[r] = final[r]
        BY <1>1, <2>1 DEF OthersStand
    <2> QED BY <1>1, <2>1, <2>3, <2>4, PlaceMoves DEF Places
<1> QED BY <1>2, <1>3, <1>4, <1>5

\* The final pass judges a slot by the second snapshot, the running set and the
\* timestamp it took.
LEMMA RevalidateMoves ==
    ASSUME BatchInv, UNCHANGED <<now, cacheVars, reloadVars, reuse>>,
           NEW r \in Handlers, NEW i \in DOMAIN slot[r], Revalidate(r, i)
    PROVE  Replies'
<1>1. pc[r] = "revalidate" /\ slot[r][i].phase = "built"
    BY DEF Revalidate
<1>2. RequestOK("revalidate", body[r], slot[r], snap[r], recheck[r], final[r])
    BY <1>1 DEF BatchInv, Requests, RequestAt
<1>3. CASE FinalVerdict(r, i) = "ok"
    <2>1. ServedOK(slot[r][i], recheck[r], final[r])
        BY <1>3 DEF FinalVerdict, ServedOK
    <2> DEFINE new == [slot[r] EXCEPT ![i] = [slot[r][i] EXCEPT !.phase = "served"]]
    <2>2. RequestOK("revalidate", body[r], new, snap[r], recheck[r], final[r])
        BY <1>1, <1>2, <2>1, ServeMove
    <2>3. /\ slot' = [slot EXCEPT ![r] = new] /\ UNCHANGED <<body, snap, recheck, final>>
          /\ pc' = [pc EXCEPT ![r] = "revalidate"]
        BY <1>1, <1>3 DEF Revalidate, Advance, BatchInv, ServerInv, Shape, Requests
    <2>4. Stored'
        BY SharedStands
    <2> HIDE DEF new
    <2> QED BY <2>2, <2>3, <2>4, SlotMoves
<1>4. CASE FinalVerdict(r, i) # "ok"
    <2>1. FinalVerdict(r, i) \in Codes
        BY <1>4 DEF FinalVerdict, Codes
    <2>2. Fail(r, i, FinalVerdict(r, i))
        BY <1>4 DEF Revalidate
    <2> QED BY <1>1, <2>1, <2>2, FailMoves
<1> QED BY <1>3, <1>4

-----------------------------------------------------------------------------
(* A request comes in, and a handler starts over.                           *)

\* A token that resolves has a symbol, and the pair names the other token.
LEMMA ResolvedPair ==
    ASSUME RegistryInv, NEW item, Resolves(tokens.addr, item)
    PROVE  /\ Pair(tokens.addr, item).symbol \in Symbols
           /\ Pair(tokens.addr, item).token = TokenOf(item)
           /\ Pair(tokens.addr, item).direction = DirectionOf(item)
<1> DEFINE tok == TokenOf(item)
<1>1. \A s \in DOMAIN tokens.addr : tokens.addr[s] # QuoteToken /\ s \in Symbols
    BY DEF RegistryInv, RowsChecked, RunningSetUnambiguous
<1>2. SymbolAt(tokens.addr, tok) # {}
    <2>1. SymbolAt(tokens.addr, QuoteToken) = {}
        BY <1>1 DEF SymbolAt
    <2> QED BY <2>1 DEF Resolves, TokenOf
<1>3. (CHOOSE s \in SymbolAt(tokens.addr, tok) : TRUE) \in SymbolAt(tokens.addr, tok)
    BY <1>2
<1>4. Pair(tokens.addr, item) = [symbol |-> CHOOSE s \in SymbolAt(tokens.addr, tok) : TRUE,
                                 token |-> tok, direction |-> DirectionOf(item)]
    BY DEF Pair, TokenOf, DirectionOf
<1> HIDE DEF tok
<1> QED BY <1>1, <1>3, <1>4 DEF SymbolAt, tok

LEMMA ResolvedSlot ==
    ASSUME RegistryInv, NEW b, NEW item, NEW sn
    PROVE  LET s == ResolveItem(tokens.addr, b.schema, item)
           IN  /\ SlotOK(b, sn, s) /\ s.phase \in Dormant
               /\ b.schema \in LegacySchemas => s.phase = "failed"
<1> DEFINE s == ResolveItem(tokens.addr, b.schema, item)
<1>1. "queued" \in Dormant /\ "failed" \in Dormant /\ Dormant \cap Answered = {}
      /\ Dormant \subseteq Phases
    BY DEF Dormant, Answered, Phases
<1>2. CASE ~Resolves(tokens.addr, item) \/ b.schema \in LegacySchemas
    <2>1. DOMAIN s = SlotFields /\ s.phase = "failed" /\ s.err \in Codes
        BY <1>2 DEF ResolveItem, Failed, Slot, SlotFields, Codes
    <2> HIDE DEF s
    <2>2. SlotOK(b, sn, s)
        BY <1>1, <2>1 DEF SlotOK
    <2> QED BY <1>1, <2>1, <2>2 DEF s
<1>3. CASE Resolves(tokens.addr, item) /\ b.schema \notin LegacySchemas
    <2>1. /\ DOMAIN s = SlotFields /\ s.phase = "queued" /\ s.err \in Codes
          /\ s.pair = Pair(tokens.addr, item)
          /\ s.input = item.input /\ s.output = item.output
        BY <1>3 DEF ResolveItem, Slot, SlotFields, Codes
    <2> HIDE DEF s
    <2>2. SlotOK(b, sn, s)
        BY <1>1, <1>3, <2>1, ResolvedPair DEF SlotOK, TokenOf, DirectionOf
    <2> QED BY <1>1, <1>3, <2>1, <2>2 DEF s
<1> QED BY <1>2, <1>3

LEMMA RoutedRequest ==
    ASSUME RegistryInv, NEW b \in Bodies, NEW sn, NEW re, NEW fi
    PROVE  LET new == ResolveAll(tokens.addr, b)
           IN  RequestOK(Route(b, new), b, new, sn, re, fi)
<1> DEFINE new == ResolveAll(tokens.addr, b)
           p == Route(b, new)
<1>1. DOMAIN new = DOMAIN b.items
    BY DEF ResolveAll
<1>2. \A i \in DOMAIN new : /\ SlotOK(b, sn, new[i]) /\ new[i].phase \in Dormant
                            /\ b.schema \in LegacySchemas => new[i].phase = "failed"
    <2>1. \A i \in DOMAIN new : new[i] = ResolveItem(tokens.addr, b.schema, b.items[i])
        BY DEF ResolveAll
    <2> QED BY <2>1, ResolvedSlot
<1> HIDE DEF new
<1>3. p \in {"error", "reply", "snapshot"} /\ p \in Places
    BY DEF Route, Places
<1>4. p # "error" /\ ~IsEnvelope(b) => \A i \in DOMAIN new : new[i].phase # "failed"
    BY DEF Route
<1>5. p = "reply" => DOMAIN new = {} \/ b.schema \in LegacySchemas
    BY DEF Route
<1>6. \A i \in DOMAIN new : new[i].phase \in PhasesAt[p]
    BY <1>2, <1>3, <1>5 DEF PhasesAt, Dormant, Phases
<1>7. \A i \in DOMAIN new : new[i].phase \notin InFlight /\ new[i].phase # "served"
    BY <1>2 DEF Dormant, InFlight
<1>8. ~IsEnvelope(b) => StrictOK(p, new)
    BY <1>4, <1>7 DEF StrictOK
<1> HIDE DEF p
<1>9. RequestOK(p, b, new, sn, re, fi)
    BY <1>1, <1>2, <1>3, <1>6, <1>7, <1>8 DEF RequestOK
<1> QED BY <1>9 DEF new, p

LEMMA ReceiveMoves ==
    ASSUME BatchInv, UNCHANGED <<now, cacheVars, reloadVars, reuse>>,
           NEW r \in Handlers, NEW b \in Bodies, Receive(r, b)
    PROVE  Replies'
<1> DEFINE new == ResolveAll(tokens.addr, b)
           p == Route(b, new)
<1>1. RequestOK(p, b, new, snap[r], recheck[r], final[r])
    BY RoutedRequest DEF BatchInv
<1>2. /\ slot' = [slot EXCEPT ![r] = new] /\ pc' = [pc EXCEPT ![r] = p]
      /\ body' = [body EXCEPT ![r] = b] /\ UNCHANGED <<snap, recheck, final>>
    BY DEF Receive
<1> HIDE DEF new, p
<1>3. CacheTimes' /\ SetsKnown' /\ HeldQuotes' /\ Stored'
    BY <1>2, SharedStands
<1>4. /\ DOMAIN pc = Handlers /\ DOMAIN slot = Handlers /\ DOMAIN final = Handlers
      /\ body \in [Handlers -> Bodies \cup {NoBody}]
    BY DEF BatchInv, Requests, ServerInv, Shape
<1>5. OthersStand(r) /\ pc'[r] = p /\ slot'[r] = new /\ body'[r] = b
    BY <1>2, <1>4 DEF OthersStand
<1>6. Requests'
    BY <1>1, <1>2, <1>4, <1>5, HandlerMoves
<1> QED BY <1>3, <1>6 DEF Replies

\* What a handler without a request holds.
LEMMA IdleRequest == RequestOK("idle", NoBody, <<>>, NoQuotes, NoQuotes, NoFinal)
BY DEF RequestOK, NoBody, Places, StrictOK, IsEnvelope

LEMMA NothingHeld == RegistryInv => Held(NoQuotes, now) /\ SetKnown(NoFinal)
BY DEF Held, NoQuotes, SetKnown, NoFinal, RegistryInv, GenerationsGrow

LEMMA ResetMoves ==
    ASSUME BatchInv, UNCHANGED <<now, cacheVars, reloadVars, reuse>>,
           NEW r \in Handlers, Reset(r)
    PROVE  Replies'
<1>1. CacheTimes' /\ Stored'
    BY SharedStands
<1>2. /\ DOMAIN pc = Handlers /\ DOMAIN slot = Handlers /\ DOMAIN final = Handlers
      /\ DOMAIN snap = Handlers /\ DOMAIN recheck = Handlers
      /\ body \in [Handlers -> Bodies \cup {NoBody}]
    BY DEF BatchInv, Requests, ServerInv, Shape
<1>3. /\ OthersStand(r) /\ pc'[r] = "idle" /\ slot'[r] = <<>> /\ body'[r] = NoBody
      /\ snap'[r] = NoQuotes /\ recheck'[r] = NoQuotes /\ final'[r] = NoFinal
    BY <1>2 DEF OthersStand, Reset
<1>4. Requests'
    BY <1>2, <1>3, HandlerMoves, IdleRequest DEF Reset
<1>5. HeldQuotes'
    BY <1>3, NothingHeld DEF OthersStand, BatchInv, HeldQuotes
<1>6. SetsKnown'
    BY <1>3, NothingHeld DEF OthersStand, BatchInv, SetsKnown, SetKnown, reloadVars
<1> QED BY <1>1, <1>4, <1>5, <1>6 DEF Replies

-----------------------------------------------------------------------------
(* Steps of the others.                                                     *)

\* The requests do not see them.
LEMMA RequestsStand ==
    ASSUME BatchInv, UNCHANGED <<reuse, handlerVars>>
    PROVE  Requests' /\ Stored'
BY DEF BatchInv, Requests, RequestAt, Stored, handlerVars

\* Time goes on for what was cached, or what was held.
LEMMA ArrivedLater ==
    ASSUME NEW e, NEW t \in Int, NEW u \in Int, t <= u, Arrived(e, t)
    PROVE  Arrived(e, u)
BY EntryTimes DEF Arrived

LEMMA ClockMoves ==
    ASSUME BatchInv, ClockStep
    PROVE  Replies'
<1>1. now' \in Instants /\ now < now' /\ now \in Int /\ now' \in Int
    BY TickStays, InstantsNat DEF ClockStep, BatchInv, CacheTimes
<1>2. now <= now'
    BY <1>1
<1>3. CacheTimes'
    BY <1>1, <1>2, ArrivedLater DEF BatchInv, CacheTimes, ClockStep, cacheVars
<1>4. HeldQuotes'
    <2>1. \A r \in Handlers : Held(snap[r], now') /\ Held(recheck[r], now')
        BY <1>1, <1>2, ArrivedLater DEF BatchInv, HeldQuotes, Held
    <2> QED BY <2>1 DEF HeldQuotes, ClockStep, handlerVars
<1>5. SetsKnown'
    BY DEF BatchInv, SetsKnown, SetKnown, ClockStep, reloadVars, handlerVars
<1> QED BY <1>3, <1>4, <1>5, RequestsStand DEF Replies, ClockStep

\* A frame arrives with a source time that is past.
LEMMA FrameArrives ==
    ASSUME BatchInv, NEW f \in Frames, NEW g \in Nat, NEW n \in Nat
    PROVE  Arrived([quote |-> Quote(f, now), gen |-> g, epoch |-> n], now)
<1> DEFINE e == [quote |-> Quote(f, now), gen |-> g, epoch |-> n]
<1>1. now \in Instants /\ now \in Int
    BY InstantsNat DEF BatchInv, CacheTimes
<1>2. e \in Entries
    BY <1>1 DEF Entries, Quotes
<1>3. e.quote.src = now - f.age
    BY DEF Quote
<1> HIDE DEF e
<1>4. SourceNotAhead => e.quote.src <= now
    BY <1>1, <1>3, FrameAssumption DEF SourceNotAhead
<1> QED BY <1>2, <1>4 DEF Arrived, e

LEMMA InsertTimes ==
    ASSUME BatchInv, UNCHANGED now, NEW f \in Frames, InsertQuote(KeyOf(f), Quote(f, now))
    PROVE  CacheTimes'
<1> DEFINE k == KeyOf(f)
           e == [quote |-> Quote(f, now), gen |-> Generation(k), epoch |-> evictions[k]]
<1>1. k \in Keys
    BY FrameAssumption
<1>2. /\ nextGen \in 0 .. MaxGens /\ nextGen \in Nat /\ MaxGens \in Nat
      /\ live \subseteq 0 .. nextGen - 1
      /\ evictions \in [Keys -> Nat]
      /\ \A x \in DOMAIN quotes : Arrived(quotes[x], now)
    BY ClockAssumption DEF BatchInv, CacheTimes
<1>3. Generation(k) \in Nat
    <2>1. ASSUME k \in DOMAIN quotes PROVE quotes[k].gen \in Nat
        BY <1>2, <2>1, EntryTimes DEF Arrived
    <2> QED BY <1>2, <2>1 DEF Generation
<1>4. Arrived(e, now)
    BY <1>1, <1>2, <1>3, FrameArrives
<1>5. /\ quotes' = [x \in DOMAIN quotes \cup {k} |-> IF x = k THEN e ELSE quotes[x]]
      /\ evictions' = evictions
    BY DEF InsertQuote
<1> HIDE DEF e
<1>6. \A x \in DOMAIN quotes' : Arrived(quotes'[x], now')
    BY <1>2, <1>4, <1>5
<1>7. nextGen' \in 0 .. MaxGens /\ live' \subseteq 0 .. nextGen' - 1
    <2>1. CASE k \in DOMAIN quotes
        BY <1>2, <2>1 DEF InsertQuote
    <2>2. CASE k \notin DOMAIN quotes
        <3>1. nextGen < MaxGens /\ live' = live \cup {nextGen} /\ nextGen' = nextGen + 1
            BY <2>2 DEF InsertQuote, Generation
        <3> QED BY <1>2, <3>1
    <2> QED BY <2>1, <2>2
<1> QED BY <1>2, <1>5, <1>6, <1>7 DEF CacheTimes, BatchInv

LEMMA EvictTimes ==
    ASSUME BatchInv, UNCHANGED now, NEW K, Evict(K)
    PROVE  CacheTimes'
<1>1. /\ nextGen' = nextGen /\ live' \subseteq live
      /\ \A x \in DOMAIN quotes' : x \in DOMAIN quotes /\ quotes'[x] = quotes[x]
    BY EvictQuotes
<1>2. evictions \in [Keys -> Nat]
    BY DEF BatchInv, CacheTimes
<1>3. evictions' \in [Keys -> Nat]
    BY <1>2 DEF Evict
<1> QED BY <1>1, <1>3 DEF BatchInv, CacheTimes

LEMMA FrameMoves ==
    ASSUME BatchInv, FrameStep
    PROVE  Replies'
<1>1. UNCHANGED now
    BY DEF FrameStep
<1>2. CacheTimes'
    BY <1>1, InsertTimes, EvictTimes DEF FrameStep, ApplyPrice, ApplyHalt, ApplyStaleSource
<1>3. HeldQuotes' /\ SetsKnown'
    BY DEF BatchInv, HeldQuotes, SetsKnown, SetKnown, FrameStep, handlerVars, reloadVars
<1> QED BY <1>2, <1>3, RequestsStand DEF Replies, FrameStep

\* A new running set has a new generation, so that no final pass holds another
\* set under it.
LEMMA RegistryMoves ==
    ASSUME BatchInv, RegistryStep
    PROVE  Replies'
<1>1. UNCHANGED <<now, reuse, handlerVars>>
    BY DEF RegistryStep
<1>2. UNCHANGED cacheVars \/ Evict(Chains \X swap.forget)
    BY DEF RegistryStep, ReloaderStep, Poll, RejectCopy, KeepRows, ReplaceTokens,
           SendAssets, ForgetRetired, ForgetQuotes, Upload
<1>3. CacheTimes'
    <2>1. CASE UNCHANGED cacheVars
        BY <1>1, <2>1 DEF BatchInv, CacheTimes, cacheVars
    <2> QED BY <1>1, <1>2, <2>1, EvictTimes
<1>4. \/ tokens' = tokens
      \/ /\ tokens.generation < tokens'.generation
         /\ tokens.generation \in Int /\ tokens'.generation \in Int
    <2>1. CASE KeepRows \/ ReplaceTokens
        BY <2>1 DEF KeepRows, ReplaceTokens, BatchInv, RegistryInv, RegistryShape,
                    GenerationsGrow
    <2>2. CASE ~(KeepRows \/ ReplaceTokens)
        BY <2>2 DEF RegistryStep, ReloaderStep, Poll, RejectCopy, SendAssets,
                    ForgetRetired, Upload
    <2> QED BY <2>1, <2>2
<1>5. \A r \in Handlers : SetKnown(final[r])
    BY DEF BatchInv, SetsKnown
<1>6. SetsKnown'
    BY <1>1, <1>4, <1>5 DEF SetsKnown, SetKnown, handlerVars
<1>7. HeldQuotes'
    BY <1>1 DEF BatchInv, HeldQuotes, handlerVars
<1> QED BY <1>1, <1>3, <1>6, <1>7, RequestsStand DEF Replies

-----------------------------------------------------------------------------
LEMMA BatchInitInv == Init => BatchInv
<1> SUFFICES ASSUME Init PROVE BatchInv
    OBVIOUS
<1>1. ServerInv /\ RegistryInv
    BY ServerInitInv, RegistryInitInv, ServerAssumption DEF Init
<1>2. CacheTimes
    <2>1. StartTime \in Instants
        BY ClockAssumption DEF Instants
    <2> QED BY <2>1, ClockAssumption DEF Init, CacheInit, CacheTimes
<1>3. HeldQuotes /\ SetsKnown
    BY <1>1, NothingHeld DEF Init, HeldQuotes, SetsKnown
<1>4. Stored
    BY DEF Init, ReuseInit, Stored
<1>5. Requests
    BY IdleRequest DEF Init, Requests, RequestAt, Places
<1> QED BY <1>1, <1>2, <1>3, <1>4, <1>5 DEF BatchInv

LEMMA BatchNextInv == BatchInv /\ [Next]_vars => BatchInv'
<1> SUFFICES ASSUME BatchInv, [Next]_vars PROVE BatchInv'
    OBVIOUS
<1>1. ServerInv' /\ RegistryInv'
    BY ServerNextInv, RegistryNextInv DEF BatchInv
<1>2. ASSUME NEW r \in Handlers, HandlerStep(r) PROVE Replies'
    <2>1. UNCHANGED <<now, cacheVars, reloadVars>>
        BY <1>2 DEF HandlerStep
    <2>2. CASE BuildStep(r)
        BY <2>1, <2>2, AdmitMoves, LookupMoves, ReturnMoves, FinishMoves, StoreMoves
           DEF BuildStep
    <2>3. CASE PassStep(r)
        BY <2>1, <2>3, PassMoves, ResetMoves, RevalidateMoves DEF PassStep, Respond
    <2> QED BY <1>2, <2>2, <2>3 DEF HandlerStep
<1>3. ASSUME NEW r \in Handlers, ClientStep(r) PROVE Replies'
    BY <1>3, ReceiveMoves, ResetMoves DEF ClientStep, Disconnect
<1>4. ASSUME UNCHANGED vars PROVE Replies'
    BY <1>4, RequestsStand, SharedStands DEF Replies, vars, handlerVars
<1>5. Replies'
    BY <1>2, <1>3, <1>4, FrameMoves, RegistryMoves, ClockMoves DEF Next
<1> QED BY <1>1, <1>5 DEF Replies, BatchInv

LEMMA BatchAlways == Spec => []BatchInv
BY BatchInitInv, BatchNextInv, PTL DEF Spec

-----------------------------------------------------------------------------
\* Every variable of the server keeps its type.
THEOREM ServerTypes == Spec => []TypeOK
BY BatchAlways, BatchTypes, PTL

\* A response, fresh or reused, is bound to the tokens of its own item and
\* priced for its base token.
THEOREM PricesBound == Spec => []PriceBoundToToken
BY BatchAlways, BatchTokens, PTL

\* What is served is executable by its signed seconds at the batch's timestamp
\* and never outlives the bound pricing held after the last signature.
THEOREM ExpiryHonest == Spec => []SignedExpiryHonest
BY BatchAlways, BatchExpiry, PTL

\* A token that had left the running set when the final pass took it is not
\* served.
THEOREM RetiredRefused == Spec => []RetiredTokenRefused
BY BatchAlways, BatchRetired, PTL

\* A strict batch is answered as a whole, whatever its length, and nothing
\* behind its first error is signed.
THEOREM StrictWhole == Spec => []StrictAllOrNothing
BY BatchAlways, BatchStrict, PTL

\* The two sides of a symbol in one reply never cross, if those of no frame do.
THEOREM NeverCrossed == ASSUME FramesHaveSpread PROVE Spec => []ReplyNeverCrossed
<1>1. BatchInv => ReplyNeverCrossed
    BY BatchSpread
<1> QED BY <1>1, BatchAlways, PTL

\* A reused publish_time trails the live frame by at most the signed horizon
\* minus the margin, if the producer stamps no frame ahead of the clock.
THEOREM LagBounded == ASSUME SourceNotAhead PROVE Spec => []ReuseLagBounded
<1>1. BatchInv => ReuseLagBounded
    BY BatchLag
<1> QED BY <1>1, BatchAlways, PTL
=============================================================================
