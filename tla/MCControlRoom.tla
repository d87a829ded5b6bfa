---------------------------- MODULE MCControlRoom ----------------------------
(* The gates of one pull request: the third event has the head of the first,  *)
(* and the first is not covered.  Those two run together and the second by    *)
(* itself, since gates meet only in what they read and in the check of their  *)
(* head.  Three nightly runs; two graph versions, of which one agrees with    *)
(* the sample; a checkout with two revisions; and a cell with three           *)
(* revisions: the second only removes a file in the scope of the analyser and *)
(* changes one that is not, the third changes the other file in the scope.    *)
(* Questions are about graphs of three edges between four nodes; two local    *)
(* evaluations share a head; and an edge has two static assertions, one of    *)
(* the model and the observations of two sessions, one of them incomplete.    *)
EXTENDS ControlRoom, TLC

MCRows == [v \in GraphVersions |-> IF v = "v1" THEN {"r1", "r2"} ELSE {"r1", "r3"}]
MCSequence == [g \in Gates |-> CASE g = "g1" -> 1 [] g = "g2" -> 2 [] g = "g3" -> 3]
MCHead == [g \in Gates |-> IF g = "g2" THEN "h2" ELSE "h1"]
MCImpact ==
  [g \in Gates |-> [v \in GraphVersions |->
     IF v = "v1" THEN {}
     ELSE CASE g = "g1" -> {"WARN"} [] g = "g2" -> {"TRUNCATED"} [] g = "g3" -> {"WARN", "BLOCK"}]]
MCCovered == [g \in Gates |-> g # "g1"]
MCArchived == [n \in Nights |-> n # "n3"]
MCAudited == [n \in Nights |-> n # "n3"]
MCStale == [n \in Nights |-> IF n = "n2" THEN {1, 2} ELSE {1}]

MCTree == ("c1" :> ("a" :> 1 @@ "b" :> 1)) @@ ("c2" :> ("a" :> 2 @@ "b" :> 1))
MCIndexes == {MCTree["c1"], MCTree["c2"], "a" :> 1 @@ "b" :> 2, "a" :> 1}

MCArchive ==
  ("s1" :> ("x" :> 1 @@ "y" :> 1 @@ "z" :> 1)) @@ ("s2" :> ("x" :> 1 @@ "z" :> 2))
    @@ ("s3" :> ("x" :> 2 @@ "y" :> 1 @@ "z" :> 2))

MCParts ==
  {{"g1", "g3"}, {"g2"}, {"n1"}, {"n2"}, {"n3"}} \cup {{o} : o \in Others}

MCEdges(sources, targets) == [from : sources, to : targets]
MCGraphs ==
  MCEdges({{1}, {1, 2}}, {2, 3}) \X MCEdges({{2}, {3}}, {1, 3, 4}) \X MCEdges({{1}, {3}, {4}}, Urns)

MCCheckOfHead == [e \in Evaluations |-> IF e = "e3" THEN "h2" ELSE "h1"]
MCChange(v1, v2, llmOnly) == [found |-> ("v1" :> v1 @@ "v2" :> v2), llmOnly |-> llmOnly]
MCChangesOf ==
  [e \in Evaluations |->
     IF e = "e1" THEN <<MCChange({}, {"BLOCK"}, FALSE), MCChange({}, {"WARN"}, FALSE)>>
     ELSE <<MCChange({"TRUNCATED"}, {}, FALSE), MCChange({"BLOCK"}, {}, TRUE)>>]

MCAssertion(mechanism, exact, text, scope, complete) ==
  [mechanism |-> mechanism, exact |-> exact, text |-> text, scope |-> scope, complete |-> complete]
MCEvidence ==
  <<MCAssertion("SCA", FALSE, "sum(a)", "NONE", TRUE), MCAssertion("RUNTIME", FALSE, "NONE", "ELEMENT", TRUE),
    MCAssertion("LLM", FALSE, "total", "NONE", TRUE), MCAssertion("SCA", TRUE, "SUM(a)", "NONE", TRUE),
    MCAssertion("RUNTIME", FALSE, "NONE", "DATASET", FALSE), MCAssertion("SCA", TRUE, "Sum(a)", "NONE", TRUE)>>
MCNormal == "sum(a)" :> "sum(a)" @@ "SUM(a)" :> "sum(a)" @@ "Sum(a)" :> "sum(a)" @@ "total" :> "total"
=============================================================================
