------------------------------- MODULE PriceFeed -------------------------------
(***************************************************************************)
(* What LiveClient promises the rest of the server about its cache,        *)
(* whatever happens to the connections behind it: a price gets in only for *)
(* a listed symbol and only if it is newer than every price of that symbol *)
(* that was in before, also when that one has been evicted since.          *)
(*                                                                         *)
(* A price is the number of its frame in the producer's order; 0 is none.  *)
(***************************************************************************)
EXTENDS Naturals

CONSTANT Symbols

VARIABLES assets,   \* the symbols the server wants priced
          cached,   \* the price in the cache, per symbol
          newest    \* the latest price that ever was

feedVars == <<assets, cached, newest>>

Init == /\ assets \in SUBSET Symbols
        /\ cached = [s \in Symbols |-> 0]
        /\ newest = [s \in Symbols |-> 0]

SetAssets == /\ assets' \in SUBSET Symbols
             /\ UNCHANGED <<cached, newest>>

Insert(s) == /\ s \in assets
             /\ cached'[s] > newest[s]
             /\ cached' = [cached EXCEPT ![s] = cached'[s]]
             /\ newest' = [newest EXCEPT ![s] = cached'[s]]
             /\ UNCHANGED assets

Evict(s) == /\ cached' = [cached EXCEPT ![s] = 0]
            /\ UNCHANGED <<assets, newest>>

Next == SetAssets \/ \E s \in Symbols : Insert(s) \/ Evict(s)

Spec == Init /\ [][Next]_feedVars
=============================================================================
