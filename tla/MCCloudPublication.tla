------------------------- MODULE MCCloudPublication -------------------------
(* Two workflows of one base, each with its proposal; one reviewer approves,  *)
(* the other corrects or rejects the second proposal.                         *)
EXTENDS CloudPublication, TLC

MCAdds == [x \in Proposals |-> IF x = "p" THEN {"a", "b"} ELSE {"c"}]
MCRemoves == [x \in Proposals |-> IF x = "p" THEN {} ELSE {"a"}]
MCDigestOf == [x \in Proposals \cup Events |-> IF x \in {"p", "ep"} THEN "dp" ELSE "dq"]
MCSystemOf == [d \in Digests |-> "s"]
MCOrderOf == [e \in Events |-> IF e = "ep" THEN 1 ELSE 2]
MCRequests == [r \in Reviewers |->
                 IF r = "r1" THEN Proposals \X {"APPROVE"}
                 ELSE {<<"q", "CORRECT">>, <<"q", "REJECT">>}]
=============================================================================
