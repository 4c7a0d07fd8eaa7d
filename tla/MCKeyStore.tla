----------------------------- MODULE MCKeyStore -----------------------------
(***************************************************************************)
(* Terminals and the policy service on a file with one user of before the  *)
(* hashing of keys, and room for a second; an administrator with a token,  *)
(* and one who signs in.                                                   *)
(***************************************************************************)
EXTENDS PolicyService

CONSTANTS alice, bob, c1, c2, m, bot, eve, h1, h2

Legacy == [models |-> {m}, quota |-> 0, hashed |-> FALSE]

MCFiles == {[u \in Users |-> IF u = alice THEN Legacy ELSE Absent]}
=============================================================================
