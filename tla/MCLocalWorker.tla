--------------------------- MODULE MCLocalWorker ----------------------------
(* A small instance of LocalWorker: one command of the interactive lane.    *)
(* A tick is the 60 s of a lease and of a delivery.                         *)
EXTENDS LocalWorker, TLC
CONSTANTS c1, c2, w1, w2, o1, o2

OneCommand == {c1}
TwoWorkers == {w1, w2}
MCOwners == {"local-worker"}
TwoOwnerOf == [w \in TwoWorkers |-> "local-worker"]
MCIdentities == {"identity"}
OneIdentityOf == [c \in OneCommand |-> "identity"]
TwoOutputs == {o1, o2}
TwoLanes == {"interactive", "events"}
TwoPriority == <<"interactive", "events">>
InteractiveLaneOf == [c \in OneCommand |-> "interactive"]
MCGroups == {"repo:a", "repo:b"}
OneGroupOf == [c \in OneCommand |-> "repo:a"]
OneStage == <<"I1">>
MCCheckpointStages == {"I1"}
=============================================================================
