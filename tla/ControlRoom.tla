----------------------------- MODULE ControlRoom -----------------------------
(***************************************************************************)
(* What a user of the Control Room asks for and is shown: the checks and   *)
(* reports of the runs that pin the active graph (PinnedRuns), the check   *)
(* of the local product (LocalGate), the collections of a local checkout   *)
(* (RepositorySource) and of the cell (CollectionRunner), answers about a  *)
(* graph (Traversal) and the confidence in an edge (EdgeLedger).  They     *)
(* have no state in common but what the environment does, so that a        *)
(* behaviour follows some of them.                                         *)
(***************************************************************************)
EXTENDS PinnedRuns, LocalGate, RepositorySource, CollectionRunner, Traversal, EdgeLedger

\* The parts besides the pinned runs.
CONSTANTS Source, Cell, Query, LocalCheck, Confidence

Others == {Source, Cell, Query, LocalCheck, Confidence}

CONSTANT Parts   \* what a behaviour follows: some pinned runs, or one of the others

ASSUME PartsAssumption ==
  /\ Others \cap Runs = {} /\ Cardinality(Others) = 5
  /\ Parts \subseteq (SUBSET Runs) \cup {{o} : o \in Others}

VARIABLE part

controlVars == <<part, pinnedVars, gateVars, sourceVars, runnerVars, queryVars, edgeVersions>>

Init ==
  /\ part \in Parts
  /\ PinnedInit /\ LocalGateInit /\ SourceInit /\ RunnerInit /\ QueryInit /\ EdgeInit
  /\ part # {Source} => checkout.head = CHOOSE r \in Revisions : TRUE
  /\ ~(part \subseteq Runs) => pointer.version = None

Next ==
  /\ part' = part
  /\ \/ /\ part \subseteq Runs /\ PinnedNext(part)
        /\ UNCHANGED <<gateVars, sourceVars, runnerVars, queryVars, edgeVersions>>
     \/ /\ part = {LocalCheck} /\ LocalGateNext
        /\ UNCHANGED <<pinnedVars, sourceVars, runnerVars, queryVars, edgeVersions>>
     \/ /\ part = {Source} /\ SourceNext
        /\ UNCHANGED <<pinnedVars, gateVars, runnerVars, queryVars, edgeVersions>>
     \/ /\ part = {Cell} /\ RunnerNext
        /\ UNCHANGED <<pinnedVars, gateVars, sourceVars, queryVars, edgeVersions>>
     \/ /\ part = {Query} /\ QueryNext
        /\ UNCHANGED <<pinnedVars, gateVars, sourceVars, runnerVars, edgeVersions>>
     \/ /\ part = {Confidence} /\ EdgeNext
        /\ UNCHANGED <<pinnedVars, gateVars, sourceVars, runnerVars, queryVars>>

Spec == Init /\ [][Next]_controlVars
-----------------------------------------------------------------------------
(* What the room as a whole promises, from the properties of its parts.    *)

\* A PASS, of the gate of the cloud or of the local product, was true at a moment of
\* its evaluation: its head, its graph and its environment were what it names.
PassesWereTrue == PassWasTrue /\ LocalPassWasTrue

\* An answer of the local graph about impact that does not say it was cut short is whole;
\* the projection gives the same when it says nothing, but is silent where the depth cuts
\* and the local graph is not.
AnswersAreWhole == ImpactIsWhole /\ BackendsAgree

\* Nothing shown turns back: a check that was replaced does not return when a stage is
\* run again, and more evidence never lowers the confidence in an edge.
NothingTurnsBack == NoCheckReturns /\ ConfidenceGrows
=============================================================================
