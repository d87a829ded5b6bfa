---------------------------- MODULE MCLaneBroker ----------------------------
(* Small instances of LaneBroker.                                          *)
EXTENDS LaneBroker, TLC
CONSTANTS m1, m2, m3, r1, r2

MCReceivers == {r1, r2}
MCOwners == {"local-worker"}
MCOwnerOf == [r \in MCReceivers |-> "local-worker"]
MCLanes == {"events"}
MCGroups == {"repo:a", "repo:b"}
MCKeys == {"head"}

(* Two heads of one pull request in different groups, and a push in the    *)
(* group of the first.                                                     *)
MCMessages == {m1, m2, m3}
MCLaneOf == [m \in MCMessages |-> "events"]
MCGroupOf == [m \in MCMessages |-> IF m = m2 THEN "repo:b" ELSE "repo:a"]
MCKeyOf == [m \in MCMessages |-> IF m = m3 THEN NoKey ELSE "head"]
MCRedrives == [m \in MCMessages |-> IF m = m1 THEN 1 ELSE 0]

(* One push. *)
OneMessage == {m1}
OneLaneOf == [m \in OneMessage |-> "events"]
OneGroupOf == [m \in OneMessage |-> "repo:a"]
ReceiverSymmetry == Permutations(MCReceivers)
=============================================================================
