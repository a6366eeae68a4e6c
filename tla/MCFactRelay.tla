---------------------------- MODULE MCFactRelay ----------------------------
(***************************************************************************)
(* Two authorizations with nullifiers of their own, one of them expiring;  *)
(* each may be presented to either consumer and under either proof type,   *)
(* again and again, in calls of the gate nested two deep.                  *)
(***************************************************************************)
EXTENDS FactRelay

CONSTANTS i1, i2, n1, n2

MCNullifier == [i \in Inputs |-> IF i = i1 THEN n1 ELSE n2]
MCExpiry == [i \in Inputs |-> IF i = i2 THEN 1 ELSE 0]
=============================================================================
