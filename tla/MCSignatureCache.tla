-------------------------- MODULE MCSignatureCache --------------------------
(***************************************************************************)
(* Small instances of SignatureCache: two callers and two contexts, enough *)
(* for a waiter, a late joiner, a retry and a sweep.                       *)
(***************************************************************************)
EXTENDS SignatureCache, TLC

CallerSymmetry == Permutations(Callers)
=============================================================================
