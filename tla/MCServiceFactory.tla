-------------------------- MODULE MCServiceFactory --------------------------
(* Two configurations alike: in each, two test identities share a user-name *)
(* and a third entry is missing.                                            *)
EXTENDS ServiceFactory, TLC

MCUserOf == [c \in Configs |-> [reader |-> "u1", alias |-> "u1", ghost |-> Nobody]]

Alike == Permutations(Configs)
=============================================================================
