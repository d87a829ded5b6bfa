--------------------------- MODULE MCCloudWorkflow ---------------------------
(* An incremental workflow: the stage that pins its base, the analysis and   *)
(* the proposal, with the intake message before and the approval record      *)
(* beside it; all invocations of a container share one log stream.  Two      *)
(* pushes of one repository: sources that lose, gain and change files, that  *)
(* do not parse or hold an unsupported file; intents without a determinant,  *)
(* with conflicting evidence or with runtime manifests.                      *)
EXTENDS CloudWorkflow, TLC
MCRows == {"intake", "I1", "I5", "I9", "approval"}
MCBefore == [r \in MCRows |->
               CASE r = "I5" -> {"I1"} [] r = "I9" -> {"I5"} [] OTHER -> {}]
MCOrdinal == [r \in MCRows |->
                CASE r = "intake" -> 0 [] r = "I1" -> 1 [] r = "I5" -> 5
                  [] r = "I9" -> 9 [] OTHER -> 10]
MCOwnerOf == [a \in Attempts |-> "stream"]
MCTries == [r \in MCRows |-> IF r = "intake" THEN 1 ELSE 2]

MCDependents == [f \in Files |-> IF f = "a.py" THEN {"b.py"} ELSE {}]

Decisive == {[level |-> 1, class |-> "DATA", excludes |-> FALSE],
             [level |-> 7, class |-> "DOCS", excludes |-> TRUE]}
Conflicting == Decisive \cup {[level |-> 1, class |-> "DOCS", excludes |-> TRUE]}
Heuristic == {[level |-> 7, class |-> "DOCS", excludes |-> TRUE]}

Intent(source) == [source |-> source, evidence |-> Decisive, pins |-> Pins, manifests |-> {}]
Both == ("a.py" :> {"x"}) @@ ("b.py" :> {"y"}) @@ ("c.md" :> {})
Changed == ("a.py" :> {"z"}) @@ ("c.md" :> {})
Mixed == ("a.py" :> {"x"}) @@ ("b.py" :> {"y"}) @@ ("d.sql" :> {"z"})
Broken == ("a.py" :> Unparsable) @@ ("b.py" :> {"y"})
Prose == ("c.md" :> {})

MCIntents ==
  {Intent(Both), Intent(Changed), Intent(Mixed), Intent(Broken), Intent(Prose),
   [Intent(Both) EXCEPT !.pins = {}, !.evidence = Heuristic, !.manifests = {"COMPLETE"}],
   [Intent(Both) EXCEPT !.evidence = Conflicting, !.manifests = {"COMPLETE", "INCOMPLETE"}]}
=============================================================================
