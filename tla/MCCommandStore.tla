--------------------------- MODULE MCCommandStore ---------------------------
(* Two commands of one identity, executed by workers of one owner name.    *)
EXTENDS CommandStore, TLC

CONSTANTS c1, c2, w1, w2, o1, o2

MCCommands == {c1, c2}
MCWorkers == {w1, w2}
MCOwners == {"local-worker"}
MCOwnerOf == [w \in MCWorkers |-> "local-worker"]
MCIdentities == {"identity"}
MCIdentityOf == [c \in MCCommands |-> "identity"]
MCCheckpointStages == {"I2"}
MCOutputs == {o1, o2}

Symmetry ==
    Permutations(MCCommands) \union Permutations(MCWorkers) \union Permutations(MCOutputs)
=============================================================================
