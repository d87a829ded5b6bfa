---------------------------- MODULE CloudWorkflow ----------------------------
(***************************************************************************)
(* A workflow of the AWS deployment: how its stages are invoked, leased    *)
(* and recorded (StageLedger) and what they compute from a source and hand *)
(* on (StagePipeline).  The ledger keeps any document of a stage as a      *)
(* value, and the stages read the documents that it recorded, so the two   *)
(* have no state in common and a behaviour follows one of them.            *)
(***************************************************************************)
EXTENDS StageLedger, FiniteSets, Sequences

CONSTANTS Files, Python, Skippable, Edges, Revisions, Dependents, Pins, Intents,
          Wrapped, MaxTries, Unparsable

VARIABLES part, content, document, worker, active, rows, stops

Stages == INSTANCE StagePipeline WITH
  pointer <- active, faults <- stops

ASSUME StagesAssumption == Stages!SourceParameters

stageVars == <<content, document, worker, active, rows, stops>>
workflowVars == <<part, vars, stageVars>>

\* The versions are alike, so one of them is active in the beginning.
WorkflowInit ==
  /\ part \in {"LEDGER", "STAGES"} /\ Init /\ Stages!Init
  /\ pointer = CHOOSE v \in Versions : TRUE

WorkflowNext ==
  /\ part' = part
  /\ \/ part = "LEDGER" /\ Next /\ UNCHANGED stageVars
     \/ part = "STAGES" /\ Stages!Next /\ UNCHANGED vars

\* The fairness of the ledger, in the behaviours that follow it.
WorkflowFairness ==
  /\ \A a \in Attempts : WF_vars(part = "LEDGER" /\ Step(a))
  /\ \A r \in Rows : SF_vars(part = "LEDGER" /\ \E a \in Attempts : Invoke(r, a))

WorkflowSpec == WorkflowInit /\ [][WorkflowNext]_workflowVars /\ WorkflowFairness
-----------------------------------------------------------------------------
(* The properties of the stages.                                           *)

\* Coverage is complete only when every path of the scope that the pinned source
\* has is one that yields no lineage or was analysed, with all its edges found.
CompleteMeansAnalysed == Stages!CompleteMeansAnalysed

\* A Baseline proposes the edges of the whole pinned source, an Incremental those
\* of the files that changed, whatever was pushed or published meanwhile.
ProposedIsThePinnedSource == Stages!ProposedIsThePinnedSource

\* No published change is lost: the active graph has the edges of each workflow
\* that was published, though they ran side by side.
PublishedIsKept == Stages!PublishedIsKept

\* No change of the source is lost on its way to the served graph.
NoChangeIsLost == ProposedIsThePinnedSource /\ PublishedIsKept
=============================================================================
