------------------------------ MODULE ReuseCache ------------------------------
(***************************************************************************)
(* The cross-frame signature reuse of reuse.rs: the last signed response   *)
(* per schema, symbol, direction and token pair, offered again while it    *)
(* states what the current frame states, does not outlive it, belongs to   *)
(* the same live generation and is still good for a margin.                *)
(***************************************************************************)
EXTENDS QuoteCache, SignedContext

CONSTANT MinRemaining    \* signing.reuse_min_remaining_secs; 0 disables reuse

VARIABLE reuse           \* ReuseCache::entries, a partial function

ReuseInit == reuse = [k \in {} |-> 0]

Enabled == MinRemaining > 0

\* Mutant: no margin asked of the stored signature.
ReusableToTheEnd(key, ctx, gen, nowSecs) ==
    /\ Enabled
    /\ key \in DOMAIN reuse
    /\ reuse[key].gen = gen
    /\ reuse[key].gen \in live
    /\ SameStatement(reuse[key].resp.context, ctx)
    /\ reuse[key].expiry <= ctx.expiry

\* ReuseCache::lookup returns Some for a frame whose context is ctx.
Reusable(key, ctx, gen, nowSecs) ==
    /\ Enabled
    /\ key \in DOMAIN reuse
    /\ LET stored == reuse[key]
       IN  /\ stored.gen = gen
           /\ stored.gen \in live
           /\ SameStatement(stored.resp.context, ctx)
           /\ stored.expiry <= ctx.expiry
           /\ stored.expiry >= nowSecs + MinRemaining

\* The insert runs under the generation's store gate, so it is atomic with
\* the check that the generation is live.
StoreReuse(key, expiry, resp, gen) ==
    reuse' = IF Enabled /\ gen \in live
             THEN [x \in DOMAIN reuse \cup {key} |->
                     IF x = key THEN [expiry |-> expiry, resp |-> resp, gen |-> gen]
                                ELSE reuse[x]]
             ELSE reuse
=============================================================================
