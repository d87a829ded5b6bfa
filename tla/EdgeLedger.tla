----------------------------- MODULE EdgeLedger ------------------------------
(***************************************************************************)
(* The versions of one edge (services/consolidation.py) and the decision   *)
(* each of them derives from its provenance (application/consolidation.py, *)
(* domain/confidence.py).  Assertions are merged in any order, repeatedly. *)
(***************************************************************************)
EXTENDS Naturals, Sequences, FiniteSets, SequencesExt

CONSTANTS
  Evidence,   \* provenance ids (numbers, in their order) -> assertion
  Normal      \* text of a transform -> what it normalises to

NoText == "NONE"

ASSUME EvidenceAssumption ==
  /\ DOMAIN Evidence \subseteq Nat
  /\ \A a \in DOMAIN Evidence :
       /\ Evidence[a].mechanism \in {"SCA", "LLM", "RUNTIME"} /\ Evidence[a].scope \in {"NONE", "DATASET", "ELEMENT"}
       /\ Evidence[a].exact \in BOOLEAN /\ Evidence[a].complete \in BOOLEAN
       /\ Evidence[a].text \in DOMAIN Normal \cup {NoText}

VARIABLE edgeVersions   \* the ledger of the edge, the newest version last

EdgeInit == edgeVersions = <<>>

Merged == IF edgeVersions = <<>> THEN <<>> ELSE Last(edgeVersions).provenance

\* Runtime evidence counts as a mechanism when its session is complete and it saw elements.
Mechanisms(p) ==
  {Evidence[a].mechanism : a \in {b \in Range(p) :
     Evidence[b].mechanism = "RUNTIME" => Evidence[b].complete /\ Evidence[b].scope = "ELEMENT"}}

Band(m) ==
  CASE m = {"LLM"} -> "LOWEST"
    [] m # {"LLM"} /\ Cardinality(m) = 1 -> "SINGLE"
    [] m = {"SCA", "RUNTIME"} -> "HIGH"
    [] Cardinality(m) = 3 -> "HIGHEST"
    [] OTHER -> "MEDIUM"

Corroboration(p) ==
  LET scopes == {Evidence[a].scope : a \in {b \in Range(p) : Evidence[b].mechanism = "RUNTIME" /\ Evidence[b].complete}}
  IN IF "ELEMENT" \in scopes THEN "ELEMENT" ELSE IF "DATASET" \in scopes THEN "DATASET" ELSE "NONE"

Transforming(a) == Evidence[a].mechanism \in {"SCA", "LLM"} /\ Evidence[a].text # NoText
ExactStatic(a) == Evidence[a].mechanism = "SCA" /\ Evidence[a].exact /\ Evidence[a].text # NoText
Disagree(p) == Cardinality({Normal[Evidence[a].text] : a \in {b \in Range(p) : Transforming(b)}}) > 1
\* Whose text is shown: the first exact one of an analysis, or else the first of all.
Candidates(p) ==
  LET exact == {i \in DOMAIN p : ExactStatic(p[i])}
  IN IF exact # {} THEN exact ELSE {i \in DOMAIN p : Transforming(p[i])}
Selected(p) == p[CHOOSE i \in Candidates(p) : \A j \in Candidates(p) : i <= j]

Derivation(p) ==
  [provenance |-> p, band |-> Band(Mechanisms(p)), corroboration |-> Corroboration(p),
   status |-> IF Disagree(p) THEN "CONFLICTING" ELSE "PROPOSED",
   transform |-> IF Disagree(p) \/ Candidates(p) = {} THEN NoText ELSE Evidence[Selected(p)].text,
   auto |-> ~Disagree(p) /\ \E i \in DOMAIN p : ExactStatic(p[i])]

InArrival(p, a) == Append(p, a)  \* mistake: the order of arrival
\* What was merged before is sorted; the new id goes behind the smaller ones.
InOrderOfIds(p, a) ==
  InsertAt(p, 1 + (CHOOSE n \in 0 .. Len(p) : \A i \in DOMAIN p : p[i] < a <=> i <= n), a)

\* Evidence that counts for nothing cannot stand alone: the derivation raises.
MergeAssertion(a) ==
  LET p == InOrderOfIds(Merged, a)
  IN /\ a \notin Range(Merged) /\ Mechanisms(p) # {}
     /\ edgeVersions' = Append(edgeVersions, Derivation(p))

EdgeNext == \E a \in DOMAIN Evidence : MergeAssertion(a)

(***************************************************************************)
(* Properties.                                                             *)
(***************************************************************************)

\* What is decided about an edge depends on its evidence, not on the order it came in.
OrderIsForgotten ==
  edgeVersions # <<>> =>
    LET known == Range(Merged)
        exact == {a \in known : ExactStatic(a)}
        texts == IF exact # {} THEN exact ELSE {a \in known : Transforming(a)}
        first == CHOOSE a \in texts : \A b \in texts : a <= b
    IN Last(edgeVersions).transform =
         IF texts = {} \/ Last(edgeVersions).status = "CONFLICTING" THEN NoText ELSE Evidence[first].text

Rank == [LOWEST |-> 0, SINGLE |-> 1, MEDIUM |-> 2, HIGH |-> 3, HIGHEST |-> 4]

\* More evidence never lowers the confidence in an edge, nor lifts a conflict.
ConfidenceGrows ==
  [][edgeVersions # <<>> =>
       /\ Rank[Last(edgeVersions').band] >= Rank[Last(edgeVersions).band]
       /\ Last(edgeVersions).corroboration = "ELEMENT" => Last(edgeVersions').corroboration = "ELEMENT"
       /\ Last(edgeVersions).status = "CONFLICTING" => Last(edgeVersions').status = "CONFLICTING"]_edgeVersions
=============================================================================
