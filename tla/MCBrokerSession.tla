-------------------------- MODULE MCBrokerSession --------------------------
(***************************************************************************)
(* Days of three ticks that end at their second one, three logins and two  *)
(* requests at a time: two callbacks race each other, a logout or a status *)
(* call, before and after 06:00.                                           *)
(***************************************************************************)
EXTENDS BrokerSession, TLC

CONSTANTS q1, q2

RequestSymmetry == Permutations(Requests)
=============================================================================
