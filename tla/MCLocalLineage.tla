---------------------------- MODULE MCLocalLineage ----------------------------
(* Two commands about one repository: any two of a Baseline, an Incremental with  *)
(* an observation and a nightly event, of one artifact or of two, and inputs that *)
(* end early.                                                                     *)
EXTENDS LocalLineage, TLC

Input(kind, a, found) ==
  [kind |-> kind, artifact |-> a, found |-> found, observed |-> {},
   known |-> TRUE, inScope |-> TRUE, analysed |-> TRUE, covered |-> TRUE]
Push == Input("INCREMENTAL", "a1", {"e1"})
Watched == [Push EXCEPT !.observed = {"e1"}]
Estate == Input("BASELINE", "a2", {"e1", "e2"})
EstateAgain == Input("BASELINE", "a1", {"e1"})
Nightly == Input("OTHER", "a2", {"e1"})

Unknown == [Nightly EXCEPT !.known = FALSE]
\* What reviewers put in place of the edges: runtime evidence alone, or no evidence for
\* one edge and some for another.
RuntimeOnly == "e1" :> {<<"SESSION", "a1">>}
Others == ("e1" :> {}) @@ ("e2" :> {<<"SCA", "a2">>})

Observations == {<<"a1", "e1">>, <<"a1", "e2">>}

Case(i, j) ==
  [command |-> ("c1" :> i) @@ ("c2" :> j), sessions |-> {}, reviewers |-> {"r1"},
   corrections |-> {}, crashes |-> 0, reconciliations |-> 0]
Corrected(case) == [case EXCEPT !.corrections = {RuntimeOnly, Others}]
Stopping(case) == [case EXCEPT !.crashes = 1]
Contested(case) == [case EXCEPT !.reviewers = Reviewers]

MCSideBySide ==
  {Corrected(Case(Push, Estate)), Contested(Case(Push, EstateAgain)), Stopping(Case(Push, EstateAgain)),
   Contested(Case(Unknown, Estate)), Case(Watched, Nightly)}
MCObserved ==
  {[Case(Push, Unknown) EXCEPT !.sessions = Observations, !.reconciliations = 1],
   [Stopping(Case(Push, Unknown)) EXCEPT !.sessions = Observations, !.reconciliations = 1, !.reviewers = {}]}
MCEndings ==
  {Stopping(case) : case \in
     {Case([Push EXCEPT !.inScope = FALSE], [Estate EXCEPT !.known = FALSE]),
      Case([Push EXCEPT !.analysed = FALSE], [Estate EXCEPT !.covered = FALSE]),
      Case([Push EXCEPT !.known = FALSE], [Estate EXCEPT !.found = {}]),
      Case([Push EXCEPT !.found = {}], Nightly)}}
MCInputs == MCSideBySide \cup MCObserved \cup MCEndings
=============================================================================
