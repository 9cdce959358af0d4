-------------------------------- MODULE Bucket --------------------------------
(***************************************************************************)
(* The client of the bucket (token_file.rs: Bucket): one read is an access *)
(* token, cached or fetched from the metadata server, and one request.     *)
(*                                                                         *)
(* Time is relative: `left` counts down to the instant until which a       *)
(* cached token is used, `life` to the one at which it really expires.     *)
(***************************************************************************)
EXTENDS Integers

CONSTANTS Fixed,       \* GCS_ACCESS_TOKEN is set: the token is given
          Lives,       \* expires_in of the tokens the metadata server issues
          Margin,      \* a cached token is dropped this long before its end
          Timeout,     \* http_client: the longest a request may take
          MaxFaults    \* bound: failed requests, revocations and crashes

ASSUME BucketAssumption ==
    /\ Fixed \in BOOLEAN
    /\ Timeout \in Nat /\ Margin \in Nat /\ MaxFaults \in Nat
    /\ Margin > 2 * Timeout
    /\ Lives \subseteq Nat /\ \A life \in Lives : life > 2 * Timeout

VARIABLES token,       \* the cached access token
          call,        \* the read under way: idle, fetch, request, failed, done
          faults       \* faults so far

bucketVars == <<token, call, faults>>

Monus(a, b) == IF a > b THEN a - b ELSE 0
Durations == 0 .. Timeout

NoToken == [left |-> 0, life |-> 0, good |-> FALSE]
GivenToken == [left |-> 0, life |-> 0, good |-> TRUE]

FirstToken == IF Fixed THEN GivenToken ELSE NoToken

BucketInit == token = FirstToken /\ call = "idle"

Aged(t, d) == [t EXCEPT !.left = Monus(@, d), !.life = Monus(@, d)]

Fault == faults < MaxFaults /\ faults' = faults + 1

\* access_token, up to the request it may need.
StartRead ==
    /\ call = "idle"
    /\ call' = IF Fixed \/ token.left > 0 THEN "request" ELSE "fetch"
    /\ UNCHANGED <<token, faults>>

\* Mutant: used to the very end of its life.
UsableToTheEnd(life) == life

\* expires_in.saturating_sub(60)
UsableFor(life) == Monus(life, Margin)

\* The metadata server's answer is d old when its deadline is computed.
FetchToken(life, d) ==
    /\ call = "fetch"
    /\ token' = [left |-> UsableFor(life), life |-> life - d, good |-> TRUE]
    /\ call' = "request"
    /\ UNCHANGED faults

Accepted == token.good /\ (Fixed \/ token.life > 0)

\* A copy, or 304 for the generation that is not wanted again.
RequestAnswered(d) ==
    /\ call = "request"
    /\ Accepted
    /\ token' = Aged(token, d)
    /\ call' = "done"
    /\ UNCHANGED faults

\* 401: forget_access_token
RequestDenied(d) ==
    /\ call = "request"
    /\ ~Accepted
    /\ token' = IF Fixed THEN token ELSE NoToken
    /\ call' = "failed"
    /\ UNCHANGED faults

\* A timeout, another status, no generation, a body over the limit.
CallFails(d) ==
    /\ call \in {"fetch", "request"}
    /\ Fault
    /\ token' = Aged(token, d)
    /\ call' = "failed"

\* Between two reads.
Idles(d) == token' = Aged(token, d)

CallStep(d) == \/ \E life \in Lives : FetchToken(life, d)
               \/ RequestAnswered(d) \/ RequestDenied(d) \/ CallFails(d)

Revoke == /\ token.good
          /\ Fault
          /\ token' = [token EXCEPT !.good = FALSE]
          /\ UNCHANGED call

\* "Cached until a minute before it expires": a token that is sent outlives
\* the request, however old the metadata server's answer was.
TokenOutlivesRequest == call = "request" /\ ~Fixed => token.life > Timeout
=============================================================================
