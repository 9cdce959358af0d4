---------------------------- MODULE SigningService ----------------------------
(***************************************************************************)
(* What Signer::sign_context promises the request handlers, and what the   *)
(* handlers of OracleServer rely on: every call comes to an end, and the   *)
(* key is never asked for one context twice at the same time.  A sign is   *)
(* begun only for a call that needs it; it may go on without one.          *)
(***************************************************************************)
EXTENDS Naturals

CONSTANTS Hashes, Callers

VARIABLES flights,   \* signs under way, per context
          asked      \* the context each caller waits for: {} or a singleton

serviceVars == <<flights, asked>>

Init == /\ flights = [h \in Hashes |-> 0]
        /\ asked = [c \in Callers |-> {}]

\* A call that joins a sign, or finds its result.
Join(c, h) == /\ asked[c] = {}
              /\ asked' = [asked EXCEPT ![c] = {h}]
              /\ UNCHANGED flights

\* A call that begins a sign.
Begin(c, h) == /\ asked[c] = {}
               /\ flights[h] = 0
               /\ asked' = [asked EXCEPT ![c] = {h}]
               /\ flights' = [flights EXCEPT ![h] = 1]

EndSign(h) == /\ flights[h] = 1
              /\ flights' = [flights EXCEPT ![h] = 0]
              /\ UNCHANGED asked

Answer(c) == /\ asked[c] # {}
             /\ asked' = [asked EXCEPT ![c] = {}]
             /\ UNCHANGED flights

Next == \/ \E c \in Callers, h \in Hashes : Join(c, h) \/ Begin(c, h)
        \/ \E h \in Hashes : EndSign(h)
        \/ \E c \in Callers : Answer(c)

Spec == /\ Init
        /\ [][Next]_serviceVars
        /\ \A c \in Callers : WF_serviceVars(Answer(c))
=============================================================================
