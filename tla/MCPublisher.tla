---------------------------- MODULE MCPublisher ----------------------------
(***************************************************************************)
(* Small instances of Publisher.                                           *)
(***************************************************************************)
EXTENDS Publisher, TLC

CONSTANTS o1, o2, t1, t2, d1

MCTwoOperations == {o1, o2}
MCTwoCallers == {t1, t2}
MCOneDeployer == {d1}
MCNoDeployer == {}

MCSymmetry == Permutations(MCTwoCallers)

=============================================================================
