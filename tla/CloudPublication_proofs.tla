------------------------ MODULE CloudPublication_proofs ------------------------
(***************************************************************************)
(* Theorems about proposals, publications and deployments of the AWS       *)
(* deployment, for any proposals, versions, reviewers, events, edges, and  *)
(* any number of attempts and faults.                                      *)
(***************************************************************************)
EXTENDS CloudPublication, FiniteSetTheorems, TLAPS

-----------------------------------------------------------------------------
(* The inductive invariant.                                                *)

ProposalRow ==
  [state : {"NONE", "PINNED", "FAILED", "IN_REVIEW", "APPROVED", "REJECTED", "SUPERSEDED"},
   lock : Int, base : GraphVersions, fence : Nat, adds : SUBSET Edges]
PackageRow == [version : Versions, rows : SUBSET Edges, fence : Nat]
PublisherRow ==
  [pc : {"ready", "copy", "delete", "merge", "verify", "activate", "record", "recorded", "dead"},
   fence : Nat, expected : SUBSET Edges, tries : Nat]
Results == {"NONE", "PROMOTED", "FAILED_NO_CHANGE", "LINEAGE_OUT_OF_SYNC"}
StateRow ==
  [event : Events \cup {NoEvent}, status : Results \cup {"AUTHORITATIVE", "RECORDED"}, result : Results]
DeployerRow ==
  [pc : {"D2", "D3", "D4", "D5", "promote", "D6", "complete", "stale", "done", "dead"},
   package : PackageRow \cup {NoPackage}, prior : GraphVersions, fence : Nat, tries : Nat]

Typed ==
  /\ proposal \in [Versions -> ProposalRow]
  /\ rows \in [GraphVersions -> SUBSET Edges]
  /\ pointer.version \in GraphVersions /\ pointer.fence \in Nat
  /\ announced \subseteq [package : PackageRow, fence : Nat, by : Proposals \cup Events]
  /\ publisher \in [Versions -> PublisherRow]
  /\ registry \in [Digests -> PackageRow \cup {NoPackage}]
  /\ state \in [Systems -> StateRow]
  /\ deployer \in [Events -> DeployerRow]

\* The versions of a proposal begin one after another, and all but the last are superseded.
OneAfterAnother ==
  \A p \in Proposals, v \in 1..MaxVersion, w \in 1..MaxVersion :
    v < w /\ proposal[<<p, w>>].state # "NONE" => proposal[<<p, v>>].state = "SUPERSEDED"

\* A request that was read is about a version that there is.
ReviewRow ==
  [pc : {"idle", "put", "commit"}, of : GraphVersions, edges : SUBSET Edges, lock : Int,
   action : {"NONE", "APPROVE", "REJECT", "CORRECT"}]
RequestIsRead(request) ==
  request.pc # "idle" => /\ request.of \in Versions
                         /\ request.action = "CORRECT" => request.of[2] < MaxVersion
RequestsAreRead ==
  /\ review \in [Reviewers -> ReviewRow]
  /\ \A r \in Reviewers : RequestIsRead(review[r])

\* The pointer is at the last announced package, or nothing was announced.
PointerIsAnnounced ==
  /\ pointer.fence = 0 => pointer.version = None /\ announced = {}
  /\ pointer.fence > 0 => pointer.version = pointer.package.version
                          /\ [package |-> pointer.package, fence |-> pointer.fence, by |-> pointer.by] \in announced
  /\ \A a \in announced : a.fence =< pointer.fence

\* A base is a graph that was active.
Active(version) == version = None \/ \E a \in announced : a.package.version = version
BasesWereActive == \A k \in Versions : Active(proposal[k].base)

\* A package was activated once, by the approved version that it is about: whoever
\* activates it later is a deployment.
PackagesAreRegistered ==
  \A a \in announced :
    LET k == a.package.version IN
    /\ proposal[k].state = "APPROVED"
    /\ registry[DigestOf[k[1]]] = a.package
    /\ a.package.fence =< pointer.fence
    /\ a.by \in Proposals => a.by = k[1] /\ a.fence = a.package.fence
RegisteredIsAnnounced ==
  \A d \in Digests : registry[d] # NoPackage => \E a \in announced : a.package = registry[d]

\* A publication that runs is that of an approved version, has read a pointer of its
\* time, and knows the rows that it has to have.
Running(k) == publisher[k].pc \in {"copy", "delete", "merge", "verify", "activate"}
PublisherRuns(k) ==
  Running(k) =>
    /\ proposal[k].state = "APPROVED" /\ publisher[k].fence =< pointer.fence
    /\ \A a \in announced : a.package.version = k => a.package.fence =< publisher[k].fence
    /\ ChangeOfBase(k, publisher[k].expected)
    /\ publisher[k].pc = "activate" => rows[k] = publisher[k].expected

\* What was announced is a change of its base, and stays in its namespace until that is
\* written again.
AnnouncedIsStaged ==
  \A a \in announced :
    LET k == a.package.version IN
    /\ ChangeOfBase(k, a.package.rows)
    /\ k \notin restaged => rows[k] = a.package.rows

\* A deployment event promotes a registered package, and says so after it has.
EventRuns(e, row) ==
  /\ row.pc \in {"D5", "promote", "D6", "complete"} => \E a \in announced : a.package = row.package
  /\ row.pc \in {"D6", "complete"} => \E a \in announced : a.by = e
DeployerRuns(e) == EventRuns(e, deployer[e])

\* The namespace of no graph stays empty.
NoneIsEmpty == rows[None] = {}

IInv ==
  /\ Typed /\ NoneIsEmpty /\ OneAfterAnother /\ RequestsAreRead
  /\ PointerIsAnnounced /\ BasesWereActive /\ PackagesAreRegistered /\ RegisteredIsAnnounced
  /\ (\A k \in Versions : PublisherRuns(k)) /\ AnnouncedIsStaged
  /\ \A e \in Events : DeployerRuns(e)

-----------------------------------------------------------------------------
LEMMA VersionPairs ==
  /\ \A k \in Versions : k[1] \in Proposals /\ k[2] \in 1..MaxVersion /\ k = <<k[1], k[2]>>
  /\ \A p \in Proposals, v \in 1..MaxVersion : <<p, v>> \in Versions /\ <<p, v>>[1] = p /\ <<p, v>>[2] = v
  /\ None \notin Versions
BY DEF Versions, None

LEMMA DigestsAndSystems ==
  /\ \A p \in Proposals \cup Events : DigestOf[p] \in Digests
  /\ \A e \in Events : System(e) \in Systems
BY DEF Digests, Systems, System

LEMMA InitInvariant == Init => IInv
<1> SUFFICES ASSUME Init
             PROVE  IInv
  OBVIOUS
<1> USE DEF Init
<1>1. Unborn \in ProposalRow /\ Waiting \in PublisherRow /\ NoState \in StateRow /\ Delivered \in DeployerRow
  BY DEF Unborn, ProposalRow, GraphVersions, Waiting, PublisherRow, NoState, StateRow, Results, Delivered, DeployerRow
<1>2. Typed
  BY <1>1 DEF Typed, GraphVersions
<1>9. NoneIsEmpty
  BY DEF NoneIsEmpty, GraphVersions
<1>3. \A k \in Versions : proposal[k].state = "NONE" /\ proposal[k].base = None /\ publisher[k].pc = "ready"
  BY DEF Unborn, Waiting
<1>4. OneAfterAnother
  BY <1>3, VersionPairs DEF OneAfterAnother
<1>5. RequestsAreRead
  BY DEF RequestsAreRead, RequestIsRead, ReviewRow, NoReview, GraphVersions
<1>6. PointerIsAnnounced /\ PackagesAreRegistered /\ RegisteredIsAnnounced /\ AnnouncedIsStaged
  BY DEF PointerIsAnnounced, PackagesAreRegistered, RegisteredIsAnnounced, AnnouncedIsStaged
<1>7. BasesWereActive /\ \A k \in Versions : PublisherRuns(k)
  BY <1>3 DEF BasesWereActive, Active, PublisherRuns, Running
<1>8. \A e \in Events : DeployerRuns(e)
  BY DEF DeployerRuns, EventRuns, Delivered
<1> QED
  BY <1>2, <1>4, <1>5, <1>6, <1>7, <1>8, <1>9 DEF IInv

\* What is a change of its base stays one while the version and its base stay, more is
\* announced and more namespaces are written again.
LEMMA ChangeStays ==
  ASSUME NEW k, NEW staged, proposal'[k] = proposal[k], announced \subseteq announced', restaged \subseteq restaged',
         ChangeOfBase(k, staged)
  PROVE  ChangeOfBase(k, staged)'
<1>1. proposal'[k].base = proposal[k].base /\ proposal'[k].adds = proposal[k].adds
  OBVIOUS
<1>2. \A version : RowsOf(version) \subseteq RowsOf(version)'
  BY DEF RowsOf
<1>3. CASE proposal[k].base \in restaged
  BY <1>1, <1>3 DEF ChangeOfBase
<1>4. CASE \E prior \in RowsOf(proposal[k].base) : staged = (prior \ Removes[k[1]]) \cup proposal[k].adds
  <2>1. PICK prior \in RowsOf(proposal[k].base) : staged = (prior \ Removes[k[1]]) \cup proposal[k].adds
    BY <1>4
  <2>2. prior \in RowsOf(proposal[k].base)'
    BY <1>1, <1>2 DEF RowsOf
  <2> QED
    BY <1>1, <2>1, <2>2 DEF ChangeOfBase
<1> QED
  BY <1>3, <1>4 DEF ChangeOfBase

\* Only the requests of reviewers change, or where the deployments are.
LEMMA RestStays ==
  ASSUME IInv, UNCHANGED <<proposal, rows, pointer, registry, announced, restaged, publisher>>
  PROVE  /\ OneAfterAnother' /\ PointerIsAnnounced' /\ BasesWereActive' /\ PackagesAreRegistered'
         /\ RegisteredIsAnnounced' /\ (\A k \in Versions : PublisherRuns(k)') /\ AnnouncedIsStaged'
         /\ NoneIsEmpty' /\ (Typed' <=> state' \in [Systems -> StateRow] /\ deployer' \in [Events -> DeployerRow])
<1> USE DEF IInv
<1>1. \A k, staged : ChangeOfBase(k, staged) <=> ChangeOfBase(k, staged)'
  BY DEF ChangeOfBase, RowsOf
<1>2. NoneIsEmpty' /\ OneAfterAnother' /\ PointerIsAnnounced' /\ BasesWereActive'
  BY DEF NoneIsEmpty, OneAfterAnother, PointerIsAnnounced, BasesWereActive, Active
<1>3. PackagesAreRegistered' /\ RegisteredIsAnnounced'
  BY DEF PackagesAreRegistered, RegisteredIsAnnounced
<1>4. AnnouncedIsStaged'
  BY <1>1 DEF AnnouncedIsStaged
<1>5. \A k \in Versions : PublisherRuns(k)'
  BY <1>1 DEF PublisherRuns, Running
<1>6. Typed' <=> state' \in [Systems -> StateRow] /\ deployer' \in [Events -> DeployerRow]
  BY DEF Typed
<1> QED
  BY <1>2, <1>3, <1>4, <1>5, <1>6

-----------------------------------------------------------------------------
(* Workflows propose, reviewers decide.                                    *)

\* Rows of proposals change, but not that of an approved version.
LEMMA ProposalMoves ==
  ASSUME IInv, UNCHANGED <<graphVars, publisher, state, deployer>>,
         proposal' \in [Versions -> ProposalRow], OneAfterAnother', RequestsAreRead',
         \A k \in Versions : Active(proposal'[k].base),
         \A k \in Versions : proposal[k].state = "APPROVED" => proposal'[k] = proposal[k]
  PROVE  IInv'
<1> USE DEF IInv, graphVars
<1>1. \A k \in Versions : \A staged : proposal[k].state = "APPROVED" /\ ChangeOfBase(k, staged) => ChangeOfBase(k, staged)'
  BY ChangeStays
<1>2. Typed' /\ NoneIsEmpty' /\ PointerIsAnnounced' /\ RegisteredIsAnnounced'
  BY DEF Typed, NoneIsEmpty, PointerIsAnnounced, RegisteredIsAnnounced
<1>3. BasesWereActive'
  BY DEF BasesWereActive, Active
<1>4. \A a \in announced : a.package.version \in Versions /\ proposal[a.package.version].state = "APPROVED"
  BY DEF Typed, PackageRow, PackagesAreRegistered
<1>5. PackagesAreRegistered'
  BY <1>4 DEF PackagesAreRegistered
<1>6. AnnouncedIsStaged'
  BY <1>1, <1>4 DEF AnnouncedIsStaged
<1>7. ASSUME NEW k \in Versions
      PROVE  PublisherRuns(k)'
  BY <1>1 DEF PublisherRuns, Running
<1>8. \A e \in Events : DeployerRuns(e)'
  BY DEF DeployerRuns, EventRuns
<1> QED
  BY <1>2, <1>3, <1>5, <1>6, <1>7, <1>8

LEMMA PointerWasActive == ASSUME IInv PROVE Active(pointer.version) /\ pointer.version \in GraphVersions
BY DEF IInv, Typed, PointerIsAnnounced, Active

LEMMA PinKeeps == ASSUME IInv, NEW p \in Proposals, PinBase(p) PROVE IInv'
<1> DEFINE k == <<p, 1>>
<1>1. k \in Versions /\ k[1] = p /\ k[2] = 1
  BY ProposalAssumption, VersionPairs
<1>2. PICK row : row = [proposal[k] EXCEPT !.state = "PINNED", !.base = pointer.version, !.fence = pointer.fence]
  OBVIOUS
<1>3. proposal \in [Versions -> ProposalRow] /\ proposal[k] \in ProposalRow /\ pointer.fence \in Nat
  BY <1>1 DEF IInv, Typed
<1>4. row \in ProposalRow /\ row.base = pointer.version /\ row.state = "PINNED"
  BY <1>2, <1>3, PointerWasActive DEF ProposalRow
<1>5. proposal[k].state = "NONE" /\ proposal' = [proposal EXCEPT ![k] = row]
  BY <1>2 DEF PinBase
<1> HIDE DEF k
<1>6. proposal' \in [Versions -> ProposalRow]
  BY <1>3, <1>4, <1>5
<1>7. OneAfterAnother'
  <2> SUFFICES ASSUME NEW q \in Proposals, NEW v \in 1..MaxVersion, NEW w \in 1..MaxVersion, v < w,
                      proposal'[<<q, w>>].state # "NONE"
               PROVE  proposal'[<<q, v>>].state = "SUPERSEDED"
    BY DEF OneAfterAnother
  <2>1. <<q, w>> # k
    BY <1>1
  <2>2. proposal[<<q, v>>].state = "SUPERSEDED"
    BY <2>1, <1>3, <1>5, VersionPairs DEF IInv, OneAfterAnother
  <2> QED
    BY <2>2, <1>3, <1>5, VersionPairs
<1>8. RequestsAreRead' /\ UNCHANGED <<graphVars, publisher, state, deployer>>
  BY DEF PinBase, RequestsAreRead, RequestIsRead, IInv
<1>9. \A j \in Versions : Active(proposal'[j].base)
  BY <1>3, <1>4, <1>5, PointerWasActive DEF IInv, BasesWereActive
<1>10. \A j \in Versions : proposal[j].state = "APPROVED" => proposal'[j] = proposal[j]
  BY <1>3, <1>5
<1> QED
  BY <1>6, <1>7, <1>8, <1>9, <1>10, ProposalMoves

\* What workflows and reviewers make of a row is a row about the same base.
LEMMA RowOpens ==
  ASSUME NEW old \in ProposalRow, NEW edges \in SUBSET Edges
  PROVE  /\ Opened(old, edges) \in ProposalRow
         /\ Opened(old, edges).base = old.base /\ Opened(old, edges).state = "IN_REVIEW"
<1>1. PICK begun : begun = [old EXCEPT !.state = "IN_REVIEW"]
  OBVIOUS
<1>2. begun \in ProposalRow /\ begun.base = old.base /\ begun.state = "IN_REVIEW"
  BY <1>1 DEF ProposalRow
<1>3. PICK locked : locked = [begun EXCEPT !.lock = 1]
  OBVIOUS
<1>4. locked \in ProposalRow /\ locked.base = old.base /\ locked.state = "IN_REVIEW"
  BY <1>2, <1>3 DEF ProposalRow
<1>5. Opened(old, edges) = [locked EXCEPT !.adds = edges]
  BY <1>1, <1>3 DEF Opened
<1> QED
  BY <1>4, <1>5 DEF ProposalRow

LEMMA RowIsDecided ==
  ASSUME NEW old \in ProposalRow, NEW as \in {"APPROVED", "REJECTED", "SUPERSEDED"}
  PROVE  /\ Decided(old, as) \in ProposalRow
         /\ Decided(old, as).base = old.base /\ Decided(old, as).state = as
<1>1. PICK half : half = [old EXCEPT !.state = as]
  OBVIOUS
<1>2. half \in ProposalRow
  BY <1>1 DEF ProposalRow
<1>3. half.base = old.base /\ half.state = as
  BY <1>1 DEF ProposalRow
<1>4. PICK lock \in Int : lock = old.lock + 1
  BY DEF ProposalRow
<1>5. Decided(old, as) = [half EXCEPT !.lock = lock]
  BY <1>1, <1>4 DEF Decided
<1> QED
  BY <1>2, <1>3, <1>5 DEF ProposalRow

LEMMA CreateKeeps == ASSUME IInv, NEW p \in Proposals, CreateProposal(p) PROVE IInv'
<1> DEFINE k == <<p, 1>>
<1>1. k \in Versions /\ k[1] = p /\ k[2] = 1
  BY ProposalAssumption, VersionPairs
<1>2. proposal \in [Versions -> ProposalRow] /\ proposal[k] \in ProposalRow /\ Adds[p] \in SUBSET Edges
  BY <1>1, ProposalAssumption DEF IInv, Typed
<1>3. PICK row \in ProposalRow : row.base = proposal[k].base /\ proposal' = [proposal EXCEPT ![k] = row]
  <2>1. CASE pointer.version = proposal[k].base /\ pointer.fence = proposal[k].fence
    <3>1. proposal' = [proposal EXCEPT ![k] = Opened(proposal[k], Adds[p])]
      BY <2>1 DEF CreateProposal
    <3> QED
      BY <1>2, <3>1, RowOpens
  <2>2. CASE ~(pointer.version = proposal[k].base /\ pointer.fence = proposal[k].fence)
    <3>1. [proposal[k] EXCEPT !.state = "FAILED"] \in ProposalRow /\ [proposal[k] EXCEPT !.state = "FAILED"].base = proposal[k].base
      BY <1>2 DEF ProposalRow
    <3>2. proposal' = [proposal EXCEPT ![k] = [proposal[k] EXCEPT !.state = "FAILED"]]
      BY <2>2 DEF CreateProposal
    <3> QED
      BY <3>1, <3>2
  <2> QED
    BY <2>1, <2>2
<1>4. proposal[k].state = "PINNED"
  BY DEF CreateProposal
<1> HIDE DEF k
<1>6. proposal' \in [Versions -> ProposalRow]
  BY <1>2, <1>3
<1>7. OneAfterAnother'
  <2> SUFFICES ASSUME NEW q \in Proposals, NEW v \in 1..MaxVersion, NEW w \in 1..MaxVersion, v < w,
                      proposal'[<<q, w>>].state # "NONE"
               PROVE  proposal'[<<q, v>>].state = "SUPERSEDED"
    BY DEF OneAfterAnother
  <2>1. <<q, w>> # k
    BY <1>1
  <2>2. proposal[<<q, v>>].state = "SUPERSEDED"
    BY <2>1, <1>2, <1>3, VersionPairs DEF IInv, OneAfterAnother
  <2> QED
    BY <2>2, <1>2, <1>3, <1>4, VersionPairs
<1>8. RequestsAreRead' /\ UNCHANGED <<graphVars, publisher, state, deployer>>
  BY DEF CreateProposal, RequestsAreRead, RequestIsRead, IInv
<1>9. \A j \in Versions : Active(proposal'[j].base)
  BY <1>1, <1>2, <1>3 DEF IInv, BasesWereActive
<1>10. \A j \in Versions : proposal[j].state = "APPROVED" => proposal'[j] = proposal[j]
  BY <1>2, <1>3, <1>4
<1> QED
  BY <1>6, <1>7, <1>8, <1>9, <1>10, ProposalMoves

\* One reviewer's request changes.
LEMMA RequestMoves ==
  ASSUME IInv, NEW r \in Reviewers, NEW request \in ReviewRow, RequestIsRead(request),
         review' = [review EXCEPT ![r] = request]
  PROVE  RequestsAreRead'
<1>1. review \in [Reviewers -> ReviewRow] /\ review' \in [Reviewers -> ReviewRow]
  BY DEF IInv, RequestsAreRead
<1>2. \A q \in Reviewers : RequestIsRead(review'[q])
  BY <1>1 DEF IInv, RequestsAreRead
<1> QED
  BY <1>1, <1>2 DEF RequestsAreRead, RequestIsRead

LEMMA NoRequest == NoReview \in ReviewRow /\ RequestIsRead(NoReview)
BY DEF NoReview, ReviewRow, RequestIsRead, GraphVersions

\* The row of an open version is decided, or replaced by the version after it.
LEMMA CommitKeeps == ASSUME IInv, NEW r \in Reviewers, CommitDecision(r) PROVE IInv'
<1>1. PICK v : v = review[r]
  OBVIOUS
<1>2. PICK k : k = v.of
  OBVIOUS
<1>3. k \in Versions /\ v.edges \subseteq Edges /\ (v.action = "CORRECT" => k[2] < MaxVersion)
  BY <1>1, <1>2 DEF CommitDecision, IInv, RequestsAreRead, RequestIsRead, ReviewRow
<1>4. proposal \in [Versions -> ProposalRow] /\ proposal[k] \in ProposalRow /\ proposal[k].lock + 1 \in Int
  BY <1>3 DEF IInv, Typed, ProposalRow
<1>5. UNCHANGED <<graphVars, publisher, state, deployer>>
  BY DEF CommitDecision
<1>6. RequestsAreRead'
  <2>1. review' = [review EXCEPT ![r] = NoReview]
    BY DEF CommitDecision
  <2> QED
    BY <2>1, RequestMoves, NoRequest
<1>7. ASSUME NEW row \in ProposalRow, row.state # "NONE", row.base = proposal[k].base,
             proposal[k].state = "IN_REVIEW", proposal' = [proposal EXCEPT ![k] = row]
      PROVE  IInv'
  <2>1. proposal' \in [Versions -> ProposalRow]
    BY <1>4, <1>7
  <2>2. OneAfterAnother'
    <3> SUFFICES ASSUME NEW q \in Proposals, NEW a \in 1..MaxVersion, NEW b \in 1..MaxVersion, a < b,
                        proposal'[<<q, b>>].state # "NONE"
                 PROVE  proposal'[<<q, a>>].state = "SUPERSEDED"
      BY DEF OneAfterAnother
    <3>1. proposal[<<q, b>>].state # "NONE"
      BY <1>4, <1>7, VersionPairs
    <3>2. proposal[<<q, a>>].state = "SUPERSEDED"
      BY <3>1 DEF IInv, OneAfterAnother
    <3> QED
      BY <3>2, <1>4, <1>7, VersionPairs
  <2>3. \A j \in Versions : Active(proposal'[j].base)
    BY <1>3, <1>4, <1>7 DEF IInv, BasesWereActive
  <2>4. \A j \in Versions : proposal[j].state = "APPROVED" => proposal'[j] = proposal[j]
    BY <1>4, <1>7
  <2> QED
    BY <1>5, <1>6, <2>1, <2>2, <2>3, <2>4, ProposalMoves
<1>8. ASSUME v.action = "CORRECT", proposal[k].state = "IN_REVIEW", proposal' = Corrected(v)
      PROVE  IInv'
  <2> DEFINE next == <<k[1], k[2] + 1>>
  <2>1. next \in Versions /\ next # k /\ k \in Versions /\ k = <<k[1], k[2]>> /\ k[1] \in Proposals
        /\ k[2] \in 1..MaxVersion /\ k[2] + 1 \in 1..MaxVersion
    BY <1>3, <1>8, VersionPairs, ProposalAssumption
  <2>2. PICK old : old = Decided(proposal[k], "SUPERSEDED")
    OBVIOUS
  <2>3. PICK new : new = Opened(proposal[k], v.edges)
    OBVIOUS
  <2>4. proposal' = [proposal EXCEPT ![k] = old, ![next] = new]
    BY <1>2, <1>8, <2>2, <2>3 DEF Corrected
  <2>5. old \in ProposalRow /\ old.state = "SUPERSEDED" /\ old.base = proposal[k].base
        /\ new \in ProposalRow /\ new.state = "IN_REVIEW" /\ new.base = proposal[k].base
    BY <1>3, <1>4, <2>2, <2>3, RowIsDecided, RowOpens
  <2>6. \A b \in 1..MaxVersion : k[2] < b => proposal[<<k[1], b>>].state = "NONE"
    BY <1>8, <2>1 DEF IInv, OneAfterAnother
  <2>7. proposal[next].state = "NONE"
    BY <2>1, <2>6
  <2> HIDE DEF next
  <2>8. proposal' \in [Versions -> ProposalRow] /\ proposal'[k] = old /\ proposal'[next] = new
        /\ \A j \in Versions : j # k /\ j # next => proposal'[j] = proposal[j]
    BY <1>4, <2>1, <2>4, <2>5
  <2>9. OneAfterAnother'
    <3> SUFFICES ASSUME NEW q \in Proposals, NEW a \in 1..MaxVersion, NEW b \in 1..MaxVersion, a < b,
                        proposal'[<<q, b>>].state # "NONE"
                 PROVE  proposal'[<<q, a>>].state = "SUPERSEDED"
      BY DEF OneAfterAnother
    <3>1. CASE <<q, b>> = next
      <4>1. q = k[1] /\ b = k[2] + 1 /\ a =< k[2]
        BY <3>1, <2>1 DEF next
      <4>2. CASE a = k[2]
        BY <4>1, <4>2, <2>1, <2>5, <2>8
      <4>3. CASE a < k[2]
        <5>1. proposal[<<q, a>>].state = "SUPERSEDED"
          BY <4>1, <4>3, <1>8, <2>1 DEF IInv, OneAfterAnother
        <5> QED
          BY <5>1, <1>8, <2>7, <2>8, VersionPairs
      <4> QED
        BY <4>1, <4>2, <4>3, <2>1
    <3>2. CASE <<q, b>> # next
      <4>1. proposal[<<q, b>>].state # "NONE"
        BY <3>2, <1>8, <2>8, VersionPairs
      <4>2. proposal[<<q, a>>].state = "SUPERSEDED"
        BY <4>1 DEF IInv, OneAfterAnother
      <4> QED
        BY <4>2, <1>8, <2>7, <2>8, VersionPairs
    <3> QED
      BY <3>1, <3>2
  <2>10. \A j \in Versions : Active(proposal'[j].base)
    BY <1>3, <2>5, <2>8 DEF IInv, BasesWereActive
  <2>11. \A j \in Versions : proposal[j].state = "APPROVED" => proposal'[j] = proposal[j]
    BY <1>8, <2>7, <2>8
  <2> QED
    BY <1>5, <1>6, <2>8, <2>9, <2>10, <2>11, ProposalMoves
<1>9. CASE ~StillOpen(k, v.lock)
  <2>1. proposal' = proposal
    BY <1>1, <1>2, <1>9 DEF CommitDecision
  <2>2. OneAfterAnother' /\ \A j \in Versions : Active(proposal'[j].base)
    BY <2>1 DEF IInv, OneAfterAnother, BasesWereActive
  <2> QED
    BY <2>1, <2>2, <1>4, <1>5, <1>6, ProposalMoves
<1>10. CASE StillOpen(k, v.lock) /\ v.action = "CORRECT"
  BY <1>1, <1>2, <1>8, <1>10 DEF CommitDecision, StillOpen
<1>11. CASE StillOpen(k, v.lock) /\ v.action # "CORRECT"
  <2>1. PICK decided \in {"APPROVED", "REJECTED"} : decided = IF v.action = "APPROVE" THEN "APPROVED" ELSE "REJECTED"
    OBVIOUS
  <2>2. PICK row : row = Decided(proposal[k], decided)
    OBVIOUS
  <2>3. row \in ProposalRow /\ row.state = decided /\ row.base = proposal[k].base
    BY <1>4, <2>2, RowIsDecided
  <2>4. proposal' = [proposal EXCEPT ![k] = row]
    BY <1>1, <1>2, <1>11, <2>1, <2>2 DEF CommitDecision
  <2> QED
    BY <1>7, <1>11, <2>3, <2>4 DEF StillOpen
<1> QED
  BY <1>9, <1>10, <1>11

\* Only the requests of reviewers change.
LEMMA RequestsMove ==
  ASSUME IInv, RequestsAreRead',
         UNCHANGED <<proposal, rows, pointer, registry, announced, restaged, publisher, state, deployer>>
  PROVE  IInv'
<1>1. Typed'
  BY RestStays DEF IInv, Typed
<1>2. \A e \in Events : DeployerRuns(e)'
  BY DEF IInv, DeployerRuns, EventRuns
<1> QED
  BY <1>1, <1>2, RestStays DEF IInv

LEMMA ReadKeeps ==
  ASSUME IInv, NEW r \in Reviewers, NEW k \in Versions, NEW edges \in SUBSET Edges,
         NEW action \in {"APPROVE", "REJECT", "CORRECT"}, ReadProposal(r, k, action, edges)
  PROVE  IInv'
<1>1. PICK request : request = [pc |-> "put", of |-> k, action |-> action, lock |-> proposal[k].lock, edges |-> edges]
  OBVIOUS
<1>2. review' = [review EXCEPT ![r] = request] /\ (action = "CORRECT" => k[2] < MaxVersion)
  BY <1>1 DEF ReadProposal
<1>3. request \in ReviewRow /\ request.of = k /\ request.action = action
  BY <1>1 DEF ReviewRow, GraphVersions, IInv, Typed, ProposalRow
<1>4. RequestsAreRead'
  BY <1>2, <1>3, RequestMoves DEF RequestIsRead
<1> QED
  BY <1>4, RequestsMove DEF ReadProposal, graphVars

LEMMA ReviewKeeps ==
  ASSUME IInv, NEW r \in Reviewers, PutEvidence(r) \/ ReviewFails(r)
  PROVE  IInv'
<1>1. review \in [Reviewers -> ReviewRow] /\ review[r].pc # "idle" /\ RequestIsRead(review[r])
  BY DEF PutEvidence, ReviewFails, IInv, RequestsAreRead
<1>2. PICK request \in ReviewRow : request = [review[r] EXCEPT !.pc = "commit"]
  BY <1>1 DEF ReviewRow
<1>3. RequestIsRead(request)
  BY <1>1, <1>2 DEF RequestIsRead, ReviewRow
<1>4. review' = [review EXCEPT ![r] = NoReview] \/ review' = [review EXCEPT ![r] = request]
  BY <1>2 DEF PutEvidence, ReviewFails
<1>5. RequestsAreRead'
  BY <1>3, <1>4, RequestMoves, NoRequest
<1> QED
  BY <1>5, RequestsMove DEF PutEvidence, ReviewFails, graphVars

-----------------------------------------------------------------------------
(* The publications.                                                       *)

\* A publication moves on, or begins again: its own row changes, and the rows of its own
\* namespace; the pointer and what was announced stay.
LEMMA PublisherMoves ==
  ASSUME IInv, NEW k \in Versions, NEW row \in PublisherRow, NEW staged \in SUBSET Edges,
         UNCHANGED <<reviewVars, pointer, registry, announced, state, deployer>>,
         publisher' = [publisher EXCEPT ![k] = row], rows' = [rows EXCEPT ![k] = staged],
         restaged \subseteq restaged', PublisherRuns(k)',
         WasActive(k) /\ staged # rows[k] => k \in restaged'
  PROVE  IInv'
<1> USE DEF reviewVars
<1>1. /\ publisher \in [Versions -> PublisherRow] /\ publisher'[k] = row
      /\ \A j \in Versions : j # k => publisher'[j] = publisher[j]
  BY DEF IInv, Typed
<1>2. rows \in [GraphVersions -> SUBSET Edges] /\ k \in GraphVersions /\ rows'[k] = staged
      /\ \A j \in Versions : j # k => rows'[j] = rows[j]
  BY DEF IInv, Typed, GraphVersions
<1>6. \A j \in Versions : \A rs : ChangeOfBase(j, rs) => ChangeOfBase(j, rs)'
  BY ChangeStays
<1>7. \A a \in announced : a.package.version \in Versions
  BY DEF IInv, Typed, PackageRow
<1>8. Typed'
  <2>1. publisher' \in [Versions -> PublisherRow] /\ rows' \in [GraphVersions -> SUBSET Edges]
    BY <1>1, <1>2
  <2> QED
    BY <2>1 DEF IInv, Typed
<1>14. NoneIsEmpty'
  BY VersionPairs DEF IInv, Typed, NoneIsEmpty, GraphVersions
<1>9. OneAfterAnother' /\ RequestsAreRead' /\ PointerIsAnnounced' /\ BasesWereActive'
  BY DEF IInv, OneAfterAnother, RequestsAreRead, PointerIsAnnounced, BasesWereActive, Active
<1>10. PackagesAreRegistered' /\ RegisteredIsAnnounced'
  BY DEF IInv, PackagesAreRegistered, RegisteredIsAnnounced
<1>11. AnnouncedIsStaged'
  <2> SUFFICES ASSUME NEW a \in announced
               PROVE  /\ ChangeOfBase(a.package.version, a.package.rows)'
                      /\ a.package.version \notin restaged' => rows'[a.package.version] = a.package.rows
    BY DEF AnnouncedIsStaged
  <2>1. ChangeOfBase(a.package.version, a.package.rows)'
    BY <1>6, <1>7 DEF IInv, AnnouncedIsStaged
  <2>2. CASE a.package.version = k
    BY <2>1, <2>2, <1>2 DEF IInv, AnnouncedIsStaged, WasActive
  <2>3. CASE a.package.version # k
    BY <2>1, <2>3, <1>2, <1>7 DEF IInv, AnnouncedIsStaged
  <2> QED
    BY <2>2, <2>3
<1>12. \A j \in Versions : PublisherRuns(j)'
  <2> SUFFICES ASSUME NEW j \in Versions, j # k
               PROVE  PublisherRuns(j)'
    OBVIOUS
  <2>1. PublisherRuns(j) /\ publisher'[j] = publisher[j] /\ rows'[j] = rows[j]
    BY <1>1, <1>2 DEF IInv
  <2> QED
    BY <2>1, <1>6 DEF PublisherRuns, Running
<1>13. \A e \in Events : DeployerRuns(e)'
  BY DEF IInv, DeployerRuns, EventRuns
<1> QED
  BY <1>8, <1>9, <1>10, <1>11, <1>12, <1>13, <1>14 DEF IInv

LEMMA PublisherHas ==
  ASSUME IInv, NEW k \in Versions
  PROVE  /\ publisher \in [Versions -> PublisherRow] /\ publisher[k] \in PublisherRow
         /\ publisher[k].tries \in Nat /\ publisher[k].fence \in Nat /\ publisher[k].expected \in SUBSET Edges
         /\ rows \in [GraphVersions -> SUBSET Edges] /\ k \in GraphVersions /\ rows[k] \in SUBSET Edges
         /\ proposal[k].base \in GraphVersions /\ rows[proposal[k].base] \in SUBSET Edges
         /\ proposal[k].adds \in SUBSET Edges /\ pointer.fence \in Nat
         /\ rows = [rows EXCEPT ![k] = rows[k]]
<1>1. publisher \in [Versions -> PublisherRow] /\ rows \in [GraphVersions -> SUBSET Edges] /\ proposal[k] \in ProposalRow
      /\ pointer.fence \in Nat /\ k \in GraphVersions
  BY DEF IInv, Typed, GraphVersions
<1> QED
  BY <1>1 DEF PublisherRow, ProposalRow

LEMMA RowPc ==
  ASSUME NEW old \in PublisherRow,
         NEW pc \in {"copy", "delete", "merge", "verify", "activate", "record", "recorded"},
         NEW row, row = [old EXCEPT !.pc = pc]
  PROVE  /\ row \in PublisherRow /\ row.pc = pc
         /\ row.fence = old.fence /\ row.expected = old.expected /\ row.tries = old.tries
BY DEF PublisherRow

\* A publication begins again.
LEMMA AgainRow ==
  ASSUME IInv, NEW k \in Versions, Again(k)
  PROVE  \E row \in PublisherRow : publisher' = [publisher EXCEPT ![k] = row] /\ row.pc \in {"ready", "dead"}
<1>1. PICK tries \in Nat : tries = 0 + publisher[k].tries + 1
  BY PublisherHas
<1>2. PICK pc \in {"ready", "dead"} : pc = IF publisher[k].tries + 1 < MaxTries THEN "ready" ELSE "dead"
  OBVIOUS
<1>3. PICK row : row = [Waiting EXCEPT !.tries = tries, !.pc = pc]
  OBVIOUS
<1>4. row = [pc |-> pc, fence |-> 0, expected |-> {}, tries |-> tries]
  BY <1>3 DEF Waiting
<1>5. publisher' = [publisher EXCEPT ![k] = [Waiting EXCEPT !.tries = tries, !.pc = pc]]
  BY <1>1, <1>2 DEF Again, Waiting
<1>6. row \in PublisherRow
  BY <1>4 DEF PublisherRow
<1> QED
  BY <1>3, <1>4, <1>5, <1>6

LEMMA AgainKeeps ==
  ASSUME IInv, NEW k \in Versions, Again(k), UNCHANGED <<reviewVars, graphVars, state, deployer>>
  PROVE  IInv'
<1>1. PICK row \in PublisherRow : publisher' = [publisher EXCEPT ![k] = row] /\ row.pc \in {"ready", "dead"}
  BY AgainRow
<1>2. PublisherRuns(k)'
  BY <1>1, PublisherHas DEF PublisherRuns, Running
<1>3. rows' = [rows EXCEPT ![k] = rows[k]] /\ rows[k] \in SUBSET Edges
  BY PublisherHas DEF graphVars
<1>4. UNCHANGED <<reviewVars, pointer, registry, announced, restaged, state, deployer>>
  BY DEF graphVars
<1> QED
  BY <1>1, <1>2, <1>3, <1>4, PublisherMoves

\* The rows of an active graph are what was announced, unless its namespace was
\* written again.
LEMMA BaseIsRead ==
  ASSUME IInv, NEW k \in Versions
  PROVE  ChangeOfBase(k, (rows[proposal[k].base] \ Removes[k[1]]) \cup proposal[k].adds)
<1> DEFINE base == proposal[k].base
<1>1. CASE base = None
  <2>1. rows[base] = {} /\ {} \in RowsOf(base)
    BY <1>1 DEF IInv, NoneIsEmpty, RowsOf
  <2> QED
    BY <2>1 DEF ChangeOfBase
<1>2. CASE base # None
  <2>1. PICK a \in announced : a.package.version = base
    BY <1>2 DEF IInv, BasesWereActive, Active
  <2>3. CASE base \in restaged
    BY <2>3 DEF ChangeOfBase
  <2>4. CASE base \notin restaged
    <3>1. rows[base] = a.package.rows /\ a.package.rows \in RowsOf(base)
      BY <2>1, <2>4 DEF IInv, AnnouncedIsStaged, RowsOf
    <3> QED
      BY <3>1 DEF ChangeOfBase
  <2> QED
    BY <2>3, <2>4
<1> QED
  BY <1>1, <1>2

\* A publication that runs goes on: the rows of its namespace are of its own making.
LEMMA RunningGoesOn ==
  ASSUME IInv, NEW k \in Versions, NEW pc \in {"delete", "merge", "verify", "activate"},
         NEW staged \in SUBSET Edges, Running(k),
         publisher' = [publisher EXCEPT ![k].pc = pc], rows' = [rows EXCEPT ![k] = staged],
         pc = "activate" => staged = publisher[k].expected,
         restaged \subseteq restaged', WasActive(k) /\ staged # rows[k] => k \in restaged',
         UNCHANGED <<reviewVars, pointer, registry, announced, state, deployer>>
  PROVE  IInv'
<1>1. PICK row : row = [publisher[k] EXCEPT !.pc = pc]
  OBVIOUS
<1>2. row \in PublisherRow /\ row.pc = pc /\ row.fence = publisher[k].fence
      /\ row.expected = publisher[k].expected
  BY <1>1, RowPc, PublisherHas
<1>3. publisher' = [publisher EXCEPT ![k] = row]
  BY <1>1
<1>4. publisher'[k] = row /\ rows'[k] = staged
  BY <1>3, PublisherHas
<1>5. PublisherRuns(k)
  BY DEF IInv
<1>6. ChangeOfBase(k, row.expected)'
  <2>1. ChangeOfBase(k, row.expected)
    BY <1>2, <1>5 DEF PublisherRuns
  <2> QED
    BY <2>1, ChangeStays DEF reviewVars
<1>7. PublisherRuns(k)'
  BY <1>2, <1>4, <1>5, <1>6 DEF PublisherRuns, reviewVars
<1> QED
  BY <1>2, <1>3, <1>7, PublisherMoves

LEMMA StagingKeeps ==
  ASSUME IInv, NEW k \in Versions, CopyNamespace(k) \/ DeleteEdges(k) \/ MergeEdges(k)
  PROVE  IInv'
<1>1. PICK staged \in SUBSET Edges, pc \in {"delete", "merge", "verify"} :
        /\ Running(k) /\ publisher' = [publisher EXCEPT ![k].pc = pc] /\ rows' = [rows EXCEPT ![k] = staged]
        /\ restaged \subseteq restaged' /\ (WasActive(k) /\ staged # rows[k] => k \in restaged')
  <2>1. /\ rows[k] \cup rows[proposal[k].base] \in SUBSET Edges
        /\ rows[k] \ Removes[k[1]] \in SUBSET Edges
        /\ rows[k] \cup proposal[k].adds \in SUBSET Edges
    BY PublisherHas
  <2>2. CASE CopyNamespace(k)
    BY <2>1, <2>2 DEF CopyNamespace, Stage, Running
  <2>3. CASE DeleteEdges(k)
    BY <2>1, <2>3 DEF DeleteEdges, Stage, Running
  <2>4. CASE MergeEdges(k)
    BY <2>1, <2>4 DEF MergeEdges, Stage, Running
  <2> QED
    BY <2>2, <2>3, <2>4
<1>2. UNCHANGED <<reviewVars, pointer, registry, announced, state, deployer>>
  BY DEF CopyNamespace, DeleteEdges, MergeEdges, Stage
<1> QED
  BY <1>1, <1>2, RunningGoesOn

LEMMA VerifyKeeps == ASSUME IInv, NEW k \in Versions, VerifyRows(k) PROVE IInv'
<1>1. CASE Verified(k)
  <2>1. publisher' = [publisher EXCEPT ![k].pc = "activate"] /\ rows[k] = publisher[k].expected
    BY <1>1 DEF VerifyRows, Verified
  <2>2. rows' = [rows EXCEPT ![k] = rows[k]] /\ rows[k] \in SUBSET Edges /\ Running(k)
    BY PublisherHas DEF VerifyRows, graphVars, Running
  <2>3. UNCHANGED <<reviewVars, pointer, registry, announced, restaged, state, deployer>>
    BY DEF VerifyRows, graphVars
  <2> QED
    BY <2>1, <2>2, <2>3, RunningGoesOn
<1>2. CASE ~Verified(k)
  BY <1>2, AgainKeeps DEF VerifyRows
<1> QED
  BY <1>1, <1>2

\* The pointer is at the version: the publication is recorded.
LEMMA ReceiptKeeps ==
  ASSUME IInv, NEW k \in Versions, publisher[k].pc \in {"ready", "record"},
         publisher' = [publisher EXCEPT ![k].pc = "recorded"],
         UNCHANGED <<reviewVars, graphVars, state, deployer>>
  PROVE  IInv'
<1>1. PICK row : row = [publisher[k] EXCEPT !.pc = "recorded"]
  OBVIOUS
<1>2. row \in PublisherRow /\ row.pc = "recorded"
  BY <1>1, RowPc, PublisherHas
<1>3. publisher' = [publisher EXCEPT ![k] = row] /\ publisher'[k] = row
  BY <1>1, PublisherHas
<1>4. PublisherRuns(k)'
  BY <1>2, <1>3 DEF PublisherRuns, Running
<1>5. rows' = [rows EXCEPT ![k] = rows[k]] /\ rows[k] \in SUBSET Edges
  BY PublisherHas DEF graphVars
<1>6. UNCHANGED <<reviewVars, pointer, registry, announced, restaged, state, deployer>>
  BY DEF graphVars
<1> QED
  BY <1>2, <1>3, <1>4, <1>5, <1>6, PublisherMoves

LEMMA ReadPointerKeeps == ASSUME IInv, NEW k \in Versions, ReadPointer(k) PROVE IInv'
<1>1. publisher[k].pc = "ready" /\ proposal[k].state = "APPROVED"
      /\ UNCHANGED <<reviewVars, graphVars, state, deployer>>
  BY DEF ReadPointer
<1>2. CASE Again(k)
  BY <1>1, <1>2, AgainKeeps
<1>3. CASE publisher' = [publisher EXCEPT ![k].pc = "recorded"]
  BY <1>1, <1>3, ReceiptKeeps
<1>4. CASE ~Again(k) /\ publisher' # [publisher EXCEPT ![k].pc = "recorded"]
  <2>1. PICK expected \in SUBSET Edges : expected = (rows[proposal[k].base] \ Removes[k[1]]) \cup proposal[k].adds
    BY PublisherHas
  <2>2. PICK row : row = [publisher[k] EXCEPT !.pc = "copy", !.fence = pointer.fence, !.expected = expected]
    OBVIOUS
  <2>3. publisher' = [publisher EXCEPT ![k] = row]
    BY <1>4, <2>1, <2>2 DEF ReadPointer
  <2>4. row = [pc |-> "copy", fence |-> pointer.fence, expected |-> expected, tries |-> publisher[k].tries]
    <3>1. PICK old \in PublisherRow : old = publisher[k]
      BY PublisherHas
    <3>2. row = [old EXCEPT !.pc = "copy", !.fence = pointer.fence, !.expected = expected]
      BY <2>2, <3>1
    <3>3. row = [pc |-> "copy", fence |-> pointer.fence, expected |-> expected, tries |-> old.tries]
      BY <3>2 DEF PublisherRow
    <3> QED
      BY <3>1, <3>3
  <2>5. row \in PublisherRow /\ publisher'[k] = row
    <3>1. PICK fence \in Nat, tries \in Nat : fence = pointer.fence /\ tries = publisher[k].tries
      BY PublisherHas
    <3>2. row = [pc |-> "copy", fence |-> fence, expected |-> expected, tries |-> tries]
      BY <2>4, <3>1
    <3>3. row \in PublisherRow
      BY <3>2 DEF PublisherRow
    <3> QED
      BY <2>3, <3>1, <3>2, <3>3, PublisherHas
  <2>6. ChangeOfBase(k, expected)'
    BY <1>1, <2>1, BaseIsRead, ChangeStays DEF reviewVars, graphVars
  <2>7. \A a \in announced : a.package.fence =< pointer.fence
    BY DEF IInv, PackagesAreRegistered
  <2>8. PublisherRuns(k)'
    BY <1>1, <2>4, <2>5, <2>6, <2>7, PublisherHas DEF PublisherRuns, reviewVars, graphVars
  <2>10. rows' = [rows EXCEPT ![k] = rows[k]] /\ rows[k] \in SUBSET Edges
    BY <1>1, PublisherHas DEF graphVars
  <2>9. UNCHANGED <<reviewVars, pointer, registry, announced, restaged, state, deployer>>
    BY <1>1 DEF graphVars
  <2> QED
    BY <2>3, <2>5, <2>8, <2>9, <2>10, PublisherMoves
<1> QED
  BY <1>2, <1>3, <1>4

-----------------------------------------------------------------------------
(* The deployment events.                                                  *)

LEMMA DeployerHas ==
  ASSUME IInv, NEW e \in Events
  PROVE  /\ deployer \in [Events -> DeployerRow] /\ deployer[e] \in DeployerRow /\ deployer[e].tries \in Nat
         /\ EventRuns(e, deployer[e]) /\ state \in [Systems -> StateRow] /\ state[System(e)] \in StateRow
         /\ System(e) \in Systems
BY DigestsAndSystems DEF IInv, Typed, DeployerRow, DeployerRuns

\* Only where the deployments are changes.
LEMMA DeployerMoves ==
  ASSUME IInv, NEW e \in Events, NEW row \in DeployerRow, EventRuns(e, row),
         deployer' = [deployer EXCEPT ![e] = row], state' \in [Systems -> StateRow],
         UNCHANGED <<reviewVars, graphVars, publisher>>
  PROVE  IInv'
<1>1. deployer' \in [Events -> DeployerRow]
  BY DeployerHas
<1>2. UNCHANGED <<proposal, rows, pointer, registry, announced, restaged, publisher>>
  BY DEF reviewVars, graphVars
<1>3. RequestsAreRead'
  BY DEF IInv, RequestsAreRead, RequestIsRead, reviewVars
<1>4. ASSUME NEW d \in Events
      PROVE  DeployerRuns(d)'
  <2>1. EventRuns(d, deployer'[d])
    BY DeployerHas
  <2> QED
    BY <1>2, <2>1 DEF DeployerRuns, EventRuns
<1> QED
  BY <1>1, <1>2, <1>3, <1>4, RestStays DEF IInv

LEMMA EventPc ==
  ASSUME NEW old \in DeployerRow, NEW pc \in {"D3", "D4", "D6", "complete", "stale", "done"}, NEW row,
         row = [old EXCEPT !.pc = pc]
  PROVE  row \in DeployerRow /\ row.pc = pc /\ row.package = old.package
BY DEF DeployerRow

\* A stage that is called again stands where it was, or at the read before it.
LEMMA AgainEvent ==
  ASSUME IInv, NEW e \in Events, DeployAgain(e)
  PROVE  \E row \in DeployerRow : EventRuns(e, row) /\ deployer' = [deployer EXCEPT ![e] = row]
<1>1. PICK old \in DeployerRow : old = deployer[e] /\ EventRuns(e, old) /\ old.tries \in Nat
  BY DeployerHas
<1>2. PICK tries \in Nat : tries = old.tries + 1
  BY <1>1
<1>3. PICK pc : pc = IF tries = MaxTries THEN "dead"
                     ELSE IF old.pc = "promote" THEN "D5"
                     ELSE IF old.pc = "complete" THEN "D6" ELSE old.pc
  OBVIOUS
<1>4. PICK half : half = [old EXCEPT !.tries = tries]
  OBVIOUS
<1>5. half \in DeployerRow /\ half.pc = old.pc /\ half.package = old.package
  BY <1>4 DEF DeployerRow
<1>6. PICK row : row = [half EXCEPT !.pc = pc]
  OBVIOUS
<1>7. row \in DeployerRow /\ row.pc = pc /\ row.package = old.package
  BY <1>3, <1>5, <1>6 DEF DeployerRow
<1>8. deployer' = [deployer EXCEPT ![e] = row]
  <2>1. deployer' = [[deployer EXCEPT ![e].tries = tries] EXCEPT ![e].pc = pc]
    BY <1>1, <1>2, <1>3, DeployerHas DEF DeployAgain, DeployerRow
  <2> QED
    BY <1>1, <1>4, <1>6, <2>1, DeployerHas
<1>9. EventRuns(e, row)
  BY <1>1, <1>3, <1>7 DEF EventRuns
<1> QED
  BY <1>7, <1>8, <1>9

LEMMA RecordedEvent ==
  ASSUME IInv, NEW e \in Events, NEW next \in DeployerRow, EventRuns(e, next), Recorded(e, next)
  PROVE  \E row \in DeployerRow : EventRuns(e, row) /\ deployer' = [deployer EXCEPT ![e] = row]
BY AgainEvent DEF Recorded

LEMMA CompleteIsState ==
  ASSUME IInv, NEW e \in Events, NEW result \in Results, Complete(e, result)
  PROVE  state' \in [Systems -> StateRow]
<1>1. [event |-> e, status |-> result, result |-> result] \in StateRow
  BY DEF StateRow
<1> QED
  BY <1>1, DeployerHas DEF Complete

LEMMA EstablishKeeps == ASSUME IInv, NEW e \in Events, EstablishOrder(e) PROVE IInv'
<1>1. PICK row : row = [state[System(e)] EXCEPT !.event = e, !.status = "AUTHORITATIVE"]
  OBVIOUS
<1>2. row \in StateRow
  <2>1. PICK old \in StateRow : old = state[System(e)]
    BY DeployerHas
  <2>2. row = [event |-> e, status |-> "AUTHORITATIVE", result |-> old.result]
    BY <1>1, <2>1 DEF StateRow
  <2> QED
    BY <2>1, <2>2 DEF StateRow
<1>3. state' \in [Systems -> StateRow]
  <2>1. state' = state \/ state' = [state EXCEPT ![System(e)] = row]
    BY <1>1, DeployerHas DEF EstablishOrder
  <2> QED
    BY <1>2, <2>1, DeployerHas
<1>4. PICK pc \in {"D3", "stale"} : Recorded(e, [deployer[e] EXCEPT !.pc = pc])
  BY DEF EstablishOrder
<1>5. PICK next : next = [deployer[e] EXCEPT !.pc = pc]
  OBVIOUS
<1>6. next \in DeployerRow /\ EventRuns(e, next)
  BY <1>5, EventPc, DeployerHas DEF EventRuns
<1> QED
  BY <1>3, <1>4, <1>5, <1>6, RecordedEvent, DeployerMoves DEF EstablishOrder

LEMMA DigestKeeps == ASSUME IInv, NEW e \in Events, RecordDigest(e) PROVE IInv'
<1>1. state' \in [Systems -> StateRow]
  <2>1. CASE Complete(e, "FAILED_NO_CHANGE")
    BY <2>1, CompleteIsState DEF Results
  <2>2. CASE ~Complete(e, "FAILED_NO_CHANGE")
    <3>1. state' = state \/ state' = [state EXCEPT ![System(e)].status = "RECORDED"]
      BY <2>2 DEF RecordDigest
    <3> QED
      BY <3>1, DeployerHas DEF StateRow
  <2> QED
    BY <2>1, <2>2
<1>2. CASE DeployAgain(e)
  BY <1>1, <1>2, AgainEvent, DeployerMoves DEF RecordDigest
<1>3. CASE ~DeployAgain(e)
  <2>1. PICK pc \in {"D4", "done"} : Recorded(e, [deployer[e] EXCEPT !.pc = pc])
    BY <1>3 DEF RecordDigest
  <2>2. PICK next : next = [deployer[e] EXCEPT !.pc = pc]
    OBVIOUS
  <2>3. next \in DeployerRow /\ EventRuns(e, next)
    BY <2>2, EventPc, DeployerHas DEF EventRuns
  <2> QED
    BY <1>1, <2>1, <2>2, <2>3, RecordedEvent, DeployerMoves DEF RecordDigest
<1> QED
  BY <1>2, <1>3

LEMMA ResolveKeeps == ASSUME IInv, NEW e \in Events, ResolvePackage(e) PROVE IInv'
<1> DEFINE package == registry[DigestOf[e]]
<1>1. CASE Complete(e, "LINEAGE_OUT_OF_SYNC") /\ Recorded(e, [deployer[e] EXCEPT !.pc = "done"])
  <2>1. state' \in [Systems -> StateRow]
    BY <1>1, CompleteIsState DEF Results
  <2>2. PICK next : next = [deployer[e] EXCEPT !.pc = "done"]
    OBVIOUS
  <2>3. next \in DeployerRow /\ EventRuns(e, next)
    BY <2>2, EventPc, DeployerHas DEF EventRuns
  <2> QED
    BY <1>1, <2>1, <2>2, <2>3, RecordedEvent, DeployerMoves DEF ResolvePackage
<1>2. CASE state' = state /\ DeployAgain(e)
  BY <1>2, AgainEvent, DeployerMoves, DeployerHas DEF ResolvePackage
<1>3. CASE /\ state' = state /\ package # NoPackage
           /\ Recorded(e, [deployer[e] EXCEPT !.pc = "D5", !.package = package])
  <2>1. PICK found \in PackageRow : found = package
    BY <1>3, DigestsAndSystems DEF IInv, Typed
  <2>2. PICK a \in announced : a.package = found
    BY <1>3, <2>1, DigestsAndSystems DEF IInv, RegisteredIsAnnounced
  <2>3. PICK half : half = [deployer[e] EXCEPT !.pc = "D5"]
    OBVIOUS
  <2>4. half \in DeployerRow /\ half.pc = "D5"
    BY <2>3, DeployerHas DEF DeployerRow
  <2>5. PICK next : next = [half EXCEPT !.package = found]
    OBVIOUS
  <2>6. next \in DeployerRow /\ next.pc = "D5" /\ next.package = found
    BY <2>4, <2>5 DEF DeployerRow
  <2>7. EventRuns(e, next)
    BY <2>2, <2>6 DEF EventRuns
  <2>8. Recorded(e, next)
    BY <1>3, <2>1, <2>3, <2>5
  <2> QED
    BY <1>3, <2>6, <2>7, <2>8, RecordedEvent, DeployerMoves, DeployerHas DEF ResolvePackage
<1> QED
  BY <1>1, <1>2, <1>3 DEF ResolvePackage

LEMMA BeforePromoteKeeps == ASSUME IInv, NEW e \in Events, ReadBeforePromote(e) PROVE IInv'
<1>1. PICK old \in DeployerRow : old = deployer[e] /\ EventRuns(e, old) /\ old.pc = "D5"
  BY DeployerHas DEF ReadBeforePromote
<1>2. CASE pointer.version = old.package.version /\ pointer.by = e /\ Recorded(e, [old EXCEPT !.pc = "D6"])
  <2>1. pointer.fence > 0
    BY <1>1, <1>2, VersionPairs DEF EventRuns, IInv, Typed, PackageRow, PointerIsAnnounced
  <2>2. \E a \in announced : a.by = e
    BY <1>2, <2>1 DEF IInv, PointerIsAnnounced
  <2>3. PICK next : next = [old EXCEPT !.pc = "D6"]
    OBVIOUS
  <2>4. next \in DeployerRow /\ EventRuns(e, next)
    BY <1>1, <2>2, <2>3, EventPc DEF EventRuns
  <2> QED
    BY <1>2, <2>3, <2>4, RecordedEvent, DeployerMoves, DeployerHas DEF ReadBeforePromote
<1>3. CASE deployer' = [deployer EXCEPT ![e] =
              [@ EXCEPT !.pc = "promote", !.prior = pointer.version, !.fence = pointer.fence]]
  <2>1. PICK half : half = [old EXCEPT !.pc = "promote"]
    OBVIOUS
  <2>2. half \in DeployerRow /\ half.pc = "promote" /\ half.package = old.package
    BY <2>1 DEF DeployerRow
  <2>3. PICK more : more = [half EXCEPT !.prior = pointer.version]
    OBVIOUS
  <2>4. more \in DeployerRow /\ more.pc = "promote" /\ more.package = old.package
    BY <2>2, <2>3, PointerWasActive DEF DeployerRow
  <2>5. PICK row : row = [more EXCEPT !.fence = pointer.fence]
    OBVIOUS
  <2>6. row \in DeployerRow /\ row.pc = "promote" /\ row.package = old.package
    BY <2>4, <2>5 DEF DeployerRow, IInv, Typed
  <2>7. deployer' = [deployer EXCEPT ![e] = row]
    BY <1>1, <1>3, <2>1, <2>3, <2>5
  <2>8. EventRuns(e, row)
    BY <1>1, <2>6 DEF EventRuns
  <2> QED
    BY <2>6, <2>7, <2>8, DeployerMoves, DeployerHas DEF ReadBeforePromote
<1> QED
  BY <1>1, <1>2, <1>3 DEF ReadBeforePromote

LEMMA ReadBackKeeps == ASSUME IInv, NEW e \in Events, ReadBack(e) PROVE IInv'
<1>1. CASE DeployAgain(e)
  BY <1>1, AgainEvent, DeployerMoves, DeployerHas DEF ReadBack
<1>2. CASE ~DeployAgain(e)
  <2>1. PICK row : row = [deployer[e] EXCEPT !.pc = "complete"]
    OBVIOUS
  <2>2. row \in DeployerRow /\ EventRuns(e, row)
    BY <2>1, EventPc, DeployerHas DEF EventRuns, ReadBack
  <2>3. deployer' = [deployer EXCEPT ![e] = row]
    BY <1>2, <2>1 DEF ReadBack
  <2> QED
    BY <2>2, <2>3, DeployerMoves, DeployerHas DEF ReadBack
<1> QED
  BY <1>1, <1>2

LEMMA CompleteKeeps == ASSUME IInv, NEW e \in Events, CompletePromotion(e) PROVE IInv'
<1>1. CASE DeployAgain(e) /\ state' = state
  BY <1>1, AgainEvent, DeployerMoves, DeployerHas DEF CompletePromotion
<1>2. CASE Complete(e, "PROMOTED") /\ Recorded(e, [deployer[e] EXCEPT !.pc = "done"])
  <2>1. state' \in [Systems -> StateRow]
    BY <1>2, CompleteIsState DEF Results
  <2>2. PICK next : next = [deployer[e] EXCEPT !.pc = "done"]
    OBVIOUS
  <2>3. next \in DeployerRow /\ EventRuns(e, next)
    BY <2>2, EventPc, DeployerHas DEF EventRuns
  <2> QED
    BY <1>2, <2>1, <2>2, <2>3, RecordedEvent, DeployerMoves DEF CompletePromotion
<1> QED
  BY <1>1, <1>2 DEF CompletePromotion

-----------------------------------------------------------------------------
(* The pointer moves.                                                      *)

\* What a move of the pointer does for whoever made it: the parts that say nothing of
\* the package.
LEMMA PointerMoves ==
  ASSUME IInv, NEW package \in PackageRow, NEW fence \in Nat, NEW by \in Proposals \cup Events,
         MovePointer(package, fence, by), fence = pointer.fence + 1, UNCHANGED <<reviewVars, rows, restaged>>
  PROVE  /\ NoneIsEmpty' /\ OneAfterAnother' /\ RequestsAreRead' /\ PointerIsAnnounced' /\ BasesWereActive'
         /\ pointer'.version \in GraphVersions /\ pointer'.fence \in Nat
         /\ announced' \subseteq [package : PackageRow, fence : Nat, by : Proposals \cup Events]
         /\ announced' = announced \cup {[package |-> package, fence |-> fence, by |-> by]}
         /\ \A k \in Versions : \A staged : ChangeOfBase(k, staged) => ChangeOfBase(k, staged)'
<1> DEFINE new == [package |-> package, fence |-> fence, by |-> by]
<1>1. /\ pointer' = [version |-> package.version, rows |-> package.rows, fence |-> fence,
                     package |-> package, by |-> by]
      /\ announced' = announced \cup {new}
  BY DEF MovePointer
<1>2. package.version \in Versions /\ package.version \in GraphVersions /\ pointer.fence \in Nat
      /\ announced \subseteq [package : PackageRow, fence : Nat, by : Proposals \cup Events]
  BY DEF PackageRow, GraphVersions, IInv, Typed
<1>3. pointer'.version = package.version /\ pointer'.fence = fence /\ pointer'.package = package /\ pointer'.by = by
  BY <1>1
<1>4. announced' \subseteq [package : PackageRow, fence : Nat, by : Proposals \cup Events]
  BY <1>1, <1>2
<1>5. PointerIsAnnounced'
  <2>1. fence > 0 /\ ~(fence = 0)
    BY <1>2
  <2>2. \A a \in announced : a.fence \in Nat /\ a.fence =< pointer.fence
    BY <1>2 DEF IInv, PointerIsAnnounced
  <2>3. \A a \in announced' : a.fence =< fence
    BY <1>1, <1>2, <2>2
  <2>4. new \in announced' /\ new = [package |-> pointer'.package, fence |-> pointer'.fence, by |-> pointer'.by]
    BY <1>1, <1>3
  <2> QED
    BY <1>3, <2>1, <2>3, <2>4 DEF PointerIsAnnounced
<1>6. NoneIsEmpty' /\ OneAfterAnother' /\ RequestsAreRead' /\ BasesWereActive'
  BY <1>1 DEF IInv, reviewVars, NoneIsEmpty, OneAfterAnother, RequestsAreRead, RequestIsRead, BasesWereActive, Active
<1>7. ASSUME NEW k \in Versions, NEW staged, ChangeOfBase(k, staged)
      PROVE  ChangeOfBase(k, staged)'
  BY <1>1, <1>7, ChangeStays DEF reviewVars
<1> QED
  BY <1>1, <1>2, <1>3, <1>4, <1>5, <1>6, <1>7

LEMMA PromoteKeeps == ASSUME IInv, NEW e \in Events, PromotePackage(e) PROVE IInv'
<1>1. PICK d \in DeployerRow : d = deployer[e] /\ EventRuns(e, d) /\ d.pc = "promote"
  BY DeployerHas DEF PromotePackage
<1>2. PICK package : package = d.package
  OBVIOUS
<1>3. PICK seen \in announced : seen.package = package
  BY <1>1, <1>2 DEF EventRuns
<1>4. package \in PackageRow /\ d.fence + 1 \in Nat /\ d.fence \in Nat /\ announced \subseteq [package : PackageRow, fence : Nat, by : Proposals \cup Events]
  BY <1>1, <1>3 DEF IInv, Typed, DeployerRow
<1>5. CASE DeployAgain(e) /\ UNCHANGED <<pointer, announced, faults>>
  BY <1>5, AgainEvent, DeployerMoves, DeployerHas DEF PromotePackage, graphVars
<1>6. CASE /\ PointerUnmoved(d.prior, d.fence) /\ MovePointer(package, d.fence + 1, e)
           /\ Recorded(e, [d EXCEPT !.pc = "D6"])
  <2>1. UNCHANGED <<reviewVars, rows, restaged, registry, publisher, state>>
    BY DEF PromotePackage
  <2>2. d.fence + 1 = pointer.fence + 1
    BY <1>6 DEF PointerUnmoved
  <2>3. /\ NoneIsEmpty' /\ OneAfterAnother' /\ RequestsAreRead' /\ PointerIsAnnounced' /\ BasesWereActive'
        /\ pointer'.version \in GraphVersions /\ pointer'.fence \in Nat
        /\ announced' \subseteq [package : PackageRow, fence : Nat, by : Proposals \cup Events]
        /\ announced' = announced \cup {[package |-> package, fence |-> d.fence + 1, by |-> e]}
        /\ \A k \in Versions : \A staged : ChangeOfBase(k, staged) => ChangeOfBase(k, staged)'
    BY <1>4, <1>6, <2>1, <2>2, PointerMoves
  <2>4. PICK new \in announced' : new = [package |-> package, fence |-> d.fence + 1, by |-> e]
    BY <2>3
  <2>5. new.package = package /\ new.by = e /\ e \notin Proposals /\ announced' = announced \cup {new}
    BY <2>3, <2>4, EventAssumption
  <2>6. pointer'.fence = d.fence + 1 /\ pointer.fence = d.fence
    BY <1>6 DEF MovePointer, PointerUnmoved
  <2>7. \A a \in announced' : \E b \in announced : a.package = b.package
    BY <1>3, <2>5
  <2>8. \A a \in announced : a.package \in PackageRow /\ a.package.version \in Versions /\ a.package.fence \in Nat
    BY <1>4 DEF PackageRow
  <2>9. PackagesAreRegistered'
    <3> SUFFICES ASSUME NEW a \in announced'
                 PROVE  /\ proposal[a.package.version].state = "APPROVED"
                        /\ registry[DigestOf[a.package.version[1]]] = a.package
                        /\ a.package.fence =< pointer'.fence
                        /\ a.by \in Proposals => a.by = a.package.version[1] /\ a.fence = a.package.fence
      BY <2>1 DEF PackagesAreRegistered, reviewVars
    <3>1. PICK b \in announced : a.package = b.package
      BY <2>7
    <3>2. b.package.fence =< pointer'.fence
      <4>1. b.package.fence =< d.fence
        BY <2>6 DEF IInv, PackagesAreRegistered
      <4> QED
        BY <1>4, <2>6, <2>8, <4>1
    <3>3. a.by \in Proposals => a \in announced
      BY <2>5
    <3> QED
      BY <3>1, <3>2, <3>3 DEF IInv, PackagesAreRegistered
  <2>10. RegisteredIsAnnounced'
    BY <2>1, <2>5 DEF IInv, RegisteredIsAnnounced
  <2>11. ASSUME NEW k \in Versions
         PROVE  PublisherRuns(k)'
    <3>1. publisher[k].fence =< pointer.fence => publisher[k].fence =< pointer'.fence
      BY <1>4, <2>6, PublisherHas
    <3>2. PublisherRuns(k) /\ (\A staged : ChangeOfBase(k, staged) => ChangeOfBase(k, staged)')
      BY <2>3 DEF IInv
    <3> QED
      BY <2>1, <2>7, <3>1, <3>2 DEF PublisherRuns, Running, reviewVars
  <2>12. AnnouncedIsStaged'
    <3> SUFFICES ASSUME NEW a \in announced'
                 PROVE  /\ ChangeOfBase(a.package.version, a.package.rows)'
                        /\ a.package.version \notin restaged => rows[a.package.version] = a.package.rows
      BY <2>1 DEF AnnouncedIsStaged
    <3>1. PICK b \in announced : a.package = b.package
      BY <2>7
    <3> QED
      BY <2>3, <2>8, <3>1 DEF IInv, AnnouncedIsStaged
  <2>13. PICK row \in DeployerRow : EventRuns(e, row)' /\ deployer' = [deployer EXCEPT ![e] = row]
    <3>1. CASE DeployAgain(e)
      <4>1. PICK row \in DeployerRow : EventRuns(e, row) /\ deployer' = [deployer EXCEPT ![e] = row]
        BY <3>1, AgainEvent
      <4> QED
        BY <2>5, <4>1 DEF EventRuns
    <3>2. CASE deployer' = [deployer EXCEPT ![e] = [d EXCEPT !.pc = "D6"]]
      <4>1. PICK row : row = [d EXCEPT !.pc = "D6"]
        OBVIOUS
      <4>2. row \in DeployerRow /\ row.package = package
        BY <1>2, <4>1, EventPc
      <4>3. EventRuns(e, row)'
        BY <2>5, <4>2 DEF EventRuns
      <4> QED
        BY <3>2, <4>1, <4>2, <4>3
    <3> QED
      BY <1>6, <3>1, <3>2 DEF Recorded
  <2>14. deployer' \in [Events -> DeployerRow] /\ \A f \in Events : DeployerRuns(f)'
    <3>1. deployer \in [Events -> DeployerRow] /\ \A f \in Events : EventRuns(f, deployer[f])
      BY DeployerHas
    <3>2. deployer' \in [Events -> DeployerRow] /\ deployer'[e] = row /\ \A f \in Events : f # e => deployer'[f] = deployer[f]
      BY <2>13, <3>1
    <3>3. ASSUME NEW f \in Events, f # e
          PROVE  DeployerRuns(f)'
      <4>1. deployer'[f] = deployer[f] /\ EventRuns(f, deployer[f])
        BY <3>1, <3>2, <3>3
      <4> QED
        BY <2>5, <4>1 DEF DeployerRuns, EventRuns
    <3>4. DeployerRuns(e)'
      BY <2>13, <3>2 DEF DeployerRuns, EventRuns
    <3> QED
      BY <3>2, <3>3, <3>4
  <2>15. Typed'
    BY <2>1, <2>3, <2>14 DEF IInv, Typed, reviewVars
  <2> QED
    BY <2>3, <2>9, <2>10, <2>11, <2>12, <2>14, <2>15 DEF IInv
<1> QED
  BY <1>1, <1>2, <1>5, <1>6 DEF PromotePackage

\* The package of an activation is new: no announced package is of its artifact.
LEMMA ActivatedIsNew ==
  ASSUME IInv, NEW k \in Versions, publisher[k].pc = "activate", NEW package \in PackageRow,
         package = Package(k, publisher[k].expected, publisher[k].fence + 1),
         PackageFits(DigestOf[k[1]], package)
  PROVE  \A a \in announced : DigestOf[a.package.version[1]] # DigestOf[k[1]]
<1> SUFFICES ASSUME NEW a \in announced, DigestOf[a.package.version[1]] = DigestOf[k[1]]
             PROVE  FALSE
  OBVIOUS
<1>1. a.package \in PackageRow /\ registry[DigestOf[k[1]]] = a.package
  BY DEF IInv, Typed, PackagesAreRegistered
<1>2. a.package # NoPackage
  BY <1>1, EventAssumption DEF PackageRow, Versions
<1>3. a.package = package
  BY <1>1, <1>2 DEF PackageFits
<1>4. a.package.version = k /\ a.package.fence = publisher[k].fence + 1
  BY <1>3 DEF Package
<1>5. a.package.fence =< publisher[k].fence
  BY <1>4 DEF IInv, PublisherRuns, Running
<1> QED
  BY <1>4, <1>5, PublisherHas

LEMMA ActivateKeeps == ASSUME IInv, NEW k \in Versions, ActivatePointer(k) PROVE IInv'
<1>1. PICK fence \in Nat : fence = publisher[k].fence + 1
  BY PublisherHas
<1>2. PICK package : package = Package(k, publisher[k].expected, fence)
  OBVIOUS
<1>3. package \in PackageRow /\ package.version = k /\ package.fence = fence /\ package.rows = publisher[k].expected
  BY <1>2, PublisherHas DEF Package, PackageRow
<1>4. PICK digest \in Digests : digest = DigestOf[k[1]]
  BY DigestsAndSystems, VersionPairs
<1>5. publisher[k].pc = "activate" /\ UNCHANGED <<reviewVars, rows, restaged, state, deployer>>
  BY DEF ActivatePointer
<1>6. /\ proposal[k].state = "APPROVED" /\ publisher[k].fence =< pointer.fence
      /\ ChangeOfBase(k, publisher[k].expected) /\ rows[k] = publisher[k].expected
  BY <1>5 DEF IInv, PublisherRuns, Running
<1>7. CASE Again(k) /\ UNCHANGED <<pointer, announced, registry>>
  BY <1>5, <1>7, AgainKeeps DEF graphVars
<1>8. CASE /\ pointer.fence = 0 \/ PointerUnmoved(proposal[k].base, publisher[k].fence)
           /\ PackageFits(digest, package)
           /\ MovePointer(package, fence, k[1])
           /\ registry' = [registry EXCEPT ![digest] = package]
           /\ publisher' = [publisher EXCEPT ![k].pc = "record"]
  <2>1. PICK row : row = [publisher[k] EXCEPT !.pc = "record"]
    OBVIOUS
  <2>2. row \in PublisherRow /\ row.pc = "record"
    BY <2>1, RowPc, PublisherHas
  <2>3. publisher' \in [Versions -> PublisherRow] /\ publisher'[k] = row
        /\ \A j \in Versions : j # k => publisher'[j] = publisher[j]
    BY <1>8, <2>1, <2>2, PublisherHas
  <2>4. fence = pointer.fence + 1
    BY <1>1, <1>6, <1>8, PublisherHas DEF PointerUnmoved
  <2>5. k[1] \in Proposals
    BY VersionPairs
  <2>6. /\ NoneIsEmpty' /\ OneAfterAnother' /\ RequestsAreRead' /\ PointerIsAnnounced' /\ BasesWereActive'
        /\ pointer'.version \in GraphVersions /\ pointer'.fence \in Nat
        /\ announced' \subseteq [package : PackageRow, fence : Nat, by : Proposals \cup Events]
        /\ announced' = announced \cup {[package |-> package, fence |-> fence, by |-> k[1]]}
        /\ \A j \in Versions : \A staged : ChangeOfBase(j, staged) => ChangeOfBase(j, staged)'
    BY <1>3, <1>5, <1>8, <2>4, <2>5, PointerMoves
  <2>7. PICK new \in announced' : new = [package |-> package, fence |-> fence, by |-> k[1]]
    BY <2>6
  <2>8. new.package = package /\ new.by = k[1] /\ new.fence = fence /\ announced' = announced \cup {new}
    BY <2>6, <2>7
  <2>9. pointer'.fence = fence
    BY <1>8 DEF MovePointer
  <2>10. \A a \in announced : DigestOf[a.package.version[1]] # digest /\ a.package.version # k
    BY <1>1, <1>2, <1>3, <1>4, <1>5, <1>8, ActivatedIsNew
  <2>11. \A a \in announced : /\ a.package.version \in Versions /\ DigestOf[a.package.version[1]] \in Digests
                               /\ a.package.fence \in Nat
    BY DigestsAndSystems, VersionPairs DEF IInv, Typed, PackageRow
  <2>12. registry' \in [Digests -> PackageRow \cup {NoPackage}] /\ registry'[digest] = package
         /\ \A d \in Digests : d # digest => registry'[d] = registry[d]
    BY <1>3, <1>8 DEF IInv, Typed
  <2>13. PackagesAreRegistered'
    <3> SUFFICES ASSUME NEW a \in announced'
                 PROVE  /\ proposal[a.package.version].state = "APPROVED"
                        /\ registry'[DigestOf[a.package.version[1]]] = a.package
                        /\ a.package.fence =< pointer'.fence
                        /\ a.by \in Proposals => a.by = a.package.version[1] /\ a.fence = a.package.fence
      BY <1>5 DEF PackagesAreRegistered, reviewVars
    <3>1. CASE a = new
      BY <1>3, <1>4, <1>6, <2>8, <2>9, <2>12, <3>1
    <3>2. CASE a \in announced
      <4>1. a.package.fence =< pointer.fence
        BY <3>2 DEF IInv, PackagesAreRegistered
      <4>2. a.package.fence =< pointer'.fence
        BY <2>4, <2>9, <2>11, <3>2, <4>1, PublisherHas
      <4> QED
        BY <2>10, <2>11, <2>12, <3>2, <4>2 DEF IInv, PackagesAreRegistered
    <3> QED
      BY <2>8, <3>1, <3>2
  <2>14. RegisteredIsAnnounced'
    BY <2>8, <2>12 DEF IInv, RegisteredIsAnnounced
  <2>15. ASSUME NEW j \in Versions
         PROVE  PublisherRuns(j)'
    <3>1. CASE j = k
      BY <2>2, <2>3, <3>1 DEF PublisherRuns, Running
    <3>2. CASE j # k
      <4>1. publisher[j].fence =< pointer.fence => publisher[j].fence =< pointer'.fence
        BY <2>4, <2>9, PublisherHas
      <4>2. PublisherRuns(j) /\ (\A staged : ChangeOfBase(j, staged) => ChangeOfBase(j, staged)')
        BY <2>6 DEF IInv
      <4>3. \A a \in announced' : a.package.version = j => a \in announced
        BY <1>3, <2>8, <3>2
      <4> QED
        BY <1>5, <2>3, <3>2, <4>1, <4>2, <4>3 DEF PublisherRuns, Running, reviewVars
    <3> QED
      BY <3>1, <3>2
  <2>16. AnnouncedIsStaged'
    <3> SUFFICES ASSUME NEW a \in announced'
                 PROVE  /\ ChangeOfBase(a.package.version, a.package.rows)'
                        /\ a.package.version \notin restaged => rows[a.package.version] = a.package.rows
      BY <1>5 DEF AnnouncedIsStaged
    <3>1. CASE a = new
      BY <1>3, <1>6, <2>2, <2>3, <2>6, <2>8, <3>1
    <3>2. CASE a \in announced
      BY <2>3, <2>6, <2>10, <2>11, <3>2 DEF IInv, AnnouncedIsStaged
    <3> QED
      BY <2>8, <3>1, <3>2
  <2>17. \A e \in Events : DeployerRuns(e)'
    BY <1>5, <2>8 DEF IInv, DeployerRuns, EventRuns
  <2>18. Typed'
    BY <1>5, <2>3, <2>6, <2>12 DEF IInv, Typed, reviewVars
  <2> QED
    BY <2>6, <2>13, <2>14, <2>15, <2>16, <2>17, <2>18 DEF IInv
<1> QED
  BY <1>1, <1>2, <1>4, <1>7, <1>8 DEF ActivatePointer

-----------------------------------------------------------------------------
LEMMA NextInvariant == IInv /\ [Next]_vars => IInv'
<1> SUFFICES ASSUME IInv, [Next]_vars
             PROVE  IInv'
  OBVIOUS
<1>1. CASE UNCHANGED vars
  <2>1. UNCHANGED <<proposal, rows, pointer, registry, announced, restaged, publisher, state, deployer, review>>
    BY <1>1 DEF vars, reviewVars, graphVars
  <2> QED
    BY <2>1, RequestsMove DEF IInv, RequestsAreRead, RequestIsRead
<1>2. ASSUME NEW p \in Proposals, PinBase(p) \/ CreateProposal(p)
      PROVE  IInv'
  BY <1>2, PinKeeps, CreateKeeps
<1>3. ASSUME NEW r \in Reviewers, NEW k \in Versions, NEW action \in {"APPROVE", "REJECT"},
             ReadProposal(r, k, action, {})
      PROVE  IInv'
  BY <1>3, ReadKeeps
<1>4. ASSUME NEW r \in Reviewers, NEW k \in Versions, NEW edges \in Corrections,
             ReadProposal(r, k, "CORRECT", edges)
      PROVE  IInv'
  BY <1>4, ReadKeeps, ProposalAssumption
<1>5. ASSUME NEW r \in Reviewers, Decide(r) \/ ReviewFails(r)
      PROVE  IInv'
  BY <1>5, ReviewKeeps, CommitKeeps DEF Decide
<1>6. ASSUME NEW k \in Versions, Publish(k)
      PROVE  IInv'
  <2>1. CASE RecordReceipt(k)
    BY <2>1, ReceiptKeeps DEF RecordReceipt
  <2> QED
    BY <1>6, <2>1, ReadPointerKeeps, StagingKeeps, VerifyKeeps, ActivateKeeps DEF Publish
<1>7. ASSUME NEW k \in Versions, PublisherStops(k)
      PROVE  IInv'
  BY <1>7, AgainKeeps DEF PublisherStops
<1>8. ASSUME NEW e \in Events, Deploy(e)
      PROVE  IInv'
  BY <1>8, EstablishKeeps, DigestKeeps, ResolveKeeps, BeforePromoteKeeps, PromoteKeeps, ReadBackKeeps,
     CompleteKeeps DEF Deploy
<1> QED
  BY <1>1, <1>2, <1>3, <1>4, <1>5, <1>6, <1>7, <1>8 DEF Next

THEOREM Invariant == Spec => []IInv
BY InitInvariant, NextInvariant, PTL DEF Spec

\* What the publisher makes active is the approved change of the graph that the proposal
\* was made for, unless the namespace of that graph was written after it had become
\* active (stage_handlers.py:1598-1643, 1685-1725).
THEOREM Published == Spec => []PublishedIsTheApprovedChange
<1>1. IInv => PublishedIsTheApprovedChange
  BY DEF IInv, PublishedIsTheApprovedChange, PackagesAreRegistered, AnnouncedIsStaged
<1> QED
  BY <1>1, Invariant, PTL

\* Of the versions of a proposal at most one is open or decided: corrections supersede,
\* and a decision is committed on the version it was read from (query_projection.py:1391-1420).
THEOREM OneDecided == Spec => []OneVersionDecided
<1>1. ASSUME IInv, NEW p \in Proposals
      PROVE  Cardinality({v \in 1 .. MaxVersion : proposal[<<p, v>>].state
                                                    \in {"IN_REVIEW", "APPROVED", "REJECTED"}}) <= 1
  <2> DEFINE Decideds == {v \in 1 .. MaxVersion : proposal[<<p, v>>].state \in {"IN_REVIEW", "APPROVED", "REJECTED"}}
  <2>1. ASSUME NEW v \in Decideds, NEW w \in Decideds, v < w
        PROVE  FALSE
    BY <1>1, <2>1 DEF IInv, OneAfterAnother
  <2>2. \A v \in Decideds, w \in Decideds : v = w
    BY <2>1, ProposalAssumption
  <2>3. Decideds = {} \/ \E v : Decideds = {v}
    BY <2>2
  <2> HIDE DEF Decideds
  <2>4. CASE Decideds = {}
    <3>1. Cardinality(Decideds) = 0
      BY <2>4, FS_EmptySet
    <3> QED
      BY <3>1 DEF Decideds
  <2>5. CASE \E v : Decideds = {v}
    <3>1. Cardinality(Decideds) = 1
      BY <2>5, FS_Singleton
    <3> QED
      BY <3>1 DEF Decideds
  <2> QED
    BY <2>3, <2>4, <2>5
<1>2. IInv => OneVersionDecided
  BY <1>1 DEF OneVersionDecided
<1> QED
  BY <1>2, Invariant, PTL

\* A proposal moves the pointer once, whatever is called again (publisher record and
\* PACKAGE item, dynamodb_control.py).
THEOREM Once == Spec => []PublishedOnce
<1>1. ASSUME IInv, NEW a \in announced, NEW b \in announced, a.by \in Proposals, a.by = b.by
      PROVE  a = b
  <2>1. a \in [package : PackageRow, fence : Nat, by : Proposals \cup Events]
        /\ b \in [package : PackageRow, fence : Nat, by : Proposals \cup Events]
    BY <1>1 DEF IInv, Typed
  <2>2. a.package = b.package /\ a.fence = b.fence
    BY <1>1 DEF IInv, PackagesAreRegistered
  <2> QED
    BY <1>1, <2>1, <2>2
<1>2. IInv => PublishedOnce
  BY <1>1 DEF PublishedOnce
<1> QED
  BY <1>2, Invariant, PTL

-----------------------------------------------------------------------------
LEMMA ActivationIsFenced ==
  ASSUME IInv, NEW k \in Versions, ActivatePointer(k), pointer' # pointer
  PROVE  /\ pointer'.fence = pointer.fence + 1
         /\ pointer.version = proposal[pointer'.version].base
         /\ pointer'.by \notin Events
<1>1. publisher[k].pc = "activate" /\ publisher[k].fence =< pointer.fence
  BY DEF ActivatePointer, IInv, PublisherRuns, Running
<1>2. PICK package : package = Package(k, publisher[k].expected, publisher[k].fence + 1)
  OBVIOUS
<1>3. /\ pointer.fence = 0 \/ PointerUnmoved(proposal[k].base, publisher[k].fence)
      /\ MovePointer(package, publisher[k].fence + 1, k[1])
  BY <1>2 DEF ActivatePointer
<1>4. pointer'.version = k /\ pointer'.fence = publisher[k].fence + 1 /\ pointer'.by = k[1]
  BY <1>2, <1>3 DEF MovePointer, Package
<1>5. publisher[k].fence = pointer.fence
  BY <1>1, <1>3, PublisherHas DEF PointerUnmoved
<1>6. pointer.version = proposal[k].base
  BY <1>3 DEF PointerUnmoved, IInv, PointerIsAnnounced, BasesWereActive, Active
<1> QED
  BY <1>4, <1>5, <1>6, VersionPairs, EventAssumption

LEMMA PromotionIsFenced ==
  ASSUME NEW e \in Events, PromotePackage(e), pointer' # pointer
  PROVE  /\ pointer'.fence = pointer.fence + 1
         /\ pointer'.by = e /\ state[System(e)].event = e
BY DEF PromotePackage, MovePointer, PointerUnmoved, StillNewest

LEMMA MoveIsFenced ==
  ASSUME IInv, Next, pointer' # pointer
  PROVE  /\ pointer'.fence = pointer.fence + 1
         /\ pointer'.by \in Proposals => pointer.version = proposal[pointer'.version].base
         /\ pointer'.by \in Events => state[System(pointer'.by)].event = pointer'.by
<1>1. (\E k \in Versions : ActivatePointer(k)) \/ \E e \in Events : PromotePackage(e)
  BY DEF Next, PinBase, CreateProposal, ReadProposal, Decide, PutEvidence, CommitDecision, ReviewFails,
     Publish, ReadPointer, CopyNamespace, DeleteEdges, MergeEdges, Stage, VerifyRows, RecordReceipt,
     PublisherStops, Deploy, EstablishOrder, RecordDigest, ResolvePackage, ReadBeforePromote, ReadBack,
     CompletePromotion, graphVars
<1> QED
  BY <1>1, ActivationIsFenced, PromotionIsFenced, EventAssumption

\* A system's state stays with the newest event, and says that it promoted after it did.
Speaks(s) ==
  state[s].event # NoEvent =>
    /\ state'[s].event # NoEvent
    /\ OrderOf[state[s].event] <= OrderOf[state'[s].event]
    /\ state'[s].result = "PROMOTED" /\ state[s].result # "PROMOTED" =>
         \E a \in announced : a.by = state'[s].event

LEMMA StateStays == ASSUME IInv, NEW s \in Systems, state'[s] = state[s] PROVE Speaks(s)
<1>1. state[s].event # NoEvent => OrderOf[state[s].event] \in Nat
  BY EventAssumption DEF IInv, Typed, StateRow
<1> QED
  BY <1>1 DEF Speaks

LEMMA CompleteSpeaks ==
  ASSUME IInv, NEW e \in Events, NEW result, Complete(e, result), state[System(e)].event = e,
         result = "PROMOTED" => \E a \in announced : a.by = e
  PROVE  \A s \in Systems : Speaks(s)
<1>1. OrderOf[e] \in Nat /\ e # NoEvent
  BY EventAssumption
<1>2. state' = [state EXCEPT ![System(e)] = [event |-> e, status |-> result, result |-> result]]
  BY DEF Complete
<1>3. Speaks(System(e))
  <2>1. state'[System(e)].event = e /\ state'[System(e)].result = result
    BY <1>2, DeployerHas
  <2> QED
    BY <1>1, <2>1 DEF Speaks
<1>4. \A s \in Systems : s # System(e) => state'[s] = state[s]
  BY <1>2, DeployerHas
<1> QED
  BY <1>3, <1>4, StateStays

LEMMA StageSpeaks ==
  ASSUME IInv, NEW e \in Events, Deploy(e)
  PROVE  \A s \in Systems : Speaks(s)
<1>1. CASE EstablishOrder(e)
  <2>1. CASE state' = state
    BY <2>1, StateStays
  <2>2. CASE state' = [state EXCEPT ![System(e)].event = e, ![System(e)].status = "AUTHORITATIVE"] /\ Newest(e)
    <3>1. PICK old \in StateRow : old = state[System(e)]
      BY DeployerHas
    <3>2. state'[System(e)].event = e /\ state'[System(e)].result = old.result
      BY <2>2, <3>1, DeployerHas DEF StateRow
    <3>3. OrderOf[e] \in Nat /\ e # NoEvent /\ (old.event # NoEvent => OrderOf[old.event] \in Nat)
      BY EventAssumption DEF StateRow
    <3>4. old.event # NoEvent => OrderOf[old.event] <= OrderOf[e]
      BY <2>2, <3>1, <3>3 DEF Newest
    <3>5. Speaks(System(e))
      BY <3>1, <3>2, <3>3, <3>4 DEF Speaks
    <3>6. \A s \in Systems : s # System(e) => state'[s] = state[s]
      BY <2>2, DeployerHas
    <3> QED
      BY <3>5, <3>6, StateStays
  <2> QED
    BY <1>1, <2>1, <2>2 DEF EstablishOrder
<1>2. CASE RecordDigest(e)
  <2>1. CASE state' = state
    BY <2>1, StateStays
  <2>2. CASE Complete(e, "FAILED_NO_CHANGE") /\ state[System(e)].event = e
    BY <2>2, CompleteSpeaks
  <2>3. CASE state' = [state EXCEPT ![System(e)].status = "RECORDED"]
    <3>1. PICK old \in StateRow : old = state[System(e)]
      BY DeployerHas
    <3>2. state'[System(e)].event = old.event /\ state'[System(e)].result = old.result
      BY <2>3, <3>1, DeployerHas DEF StateRow
    <3>3. old.event # NoEvent => OrderOf[old.event] \in Nat
      BY EventAssumption DEF StateRow
    <3>4. Speaks(System(e))
      BY <3>1, <3>2, <3>3 DEF Speaks
    <3>5. \A s \in Systems : s # System(e) => state'[s] = state[s]
      BY <2>3, DeployerHas
    <3> QED
      BY <3>4, <3>5, StateStays
  <2> QED
    BY <1>2, <2>1, <2>2, <2>3 DEF RecordDigest
<1>3. CASE ResolvePackage(e)
  <2>1. CASE state' = state
    BY <2>1, StateStays
  <2>2. CASE Complete(e, "LINEAGE_OUT_OF_SYNC") /\ state[System(e)].event = e
    BY <2>2, CompleteSpeaks
  <2> QED
    BY <1>3, <2>1, <2>2 DEF ResolvePackage
<1>4. CASE CompletePromotion(e)
  <2>1. CASE state' = state
    BY <2>1, StateStays
  <2>2. CASE Complete(e, "PROMOTED") /\ state[System(e)].event = e
    <3>1. \E a \in announced : a.by = e
      BY <1>4, DeployerHas DEF EventRuns, CompletePromotion
    <3> QED
      BY <2>2, <3>1, CompleteSpeaks
  <2> QED
    BY <1>4, <2>1, <2>2 DEF CompletePromotion
<1>5. CASE ReadBeforePromote(e) \/ PromotePackage(e) \/ ReadBack(e)
  BY <1>5, StateStays DEF ReadBeforePromote, PromotePackage, ReadBack
<1> QED
  BY <1>1, <1>2, <1>3, <1>4, <1>5 DEF Deploy

LEMMA StepSpeaks == ASSUME IInv, [Next]_vars PROVE \A s \in Systems : Speaks(s)
<1>1. CASE \E e \in Events : Deploy(e)
  BY <1>1, StageSpeaks
<1>2. CASE ~(\E e \in Events : Deploy(e))
  <2>1. state' = state
    BY <1>2 DEF Next, vars, PinBase, CreateProposal, ReadProposal, Decide, PutEvidence, CommitDecision,
       ReviewFails, Publish, ReadPointer, CopyNamespace, DeleteEdges, MergeEdges, Stage, VerifyRows,
       ActivatePointer, RecordReceipt, PublisherStops
  <2> QED
    BY <2>1, StateStays
<1> QED
  BY <1>1, <1>2

\* The pointer moves one fence at a time: a publication moves it from the base of its
\* proposal, a deployment while its event is the newest of its system; and the state of
\* a system is that of its newest event (dynamodb_control.py:968-989, 1120-1151).
THEOREM Fenced == Spec => MovesAreFenced
<1>1. IInv /\ [Next]_vars =>
        [pointer' # pointer =>
           /\ pointer'.fence = pointer.fence + 1
           /\ pointer'.by \in Proposals => pointer.version = proposal[pointer'.version].base
           /\ pointer'.by \in Events => state[System(pointer'.by)].event = pointer'.by]_vars
  BY MoveIsFenced
<1>2. IInv /\ [Next]_vars =>
        [\A s \in Systems : state[s].event # NoEvent =>
           /\ state'[s].event # NoEvent
           /\ OrderOf[state[s].event] <= OrderOf[state'[s].event]
           /\ state'[s].result = "PROMOTED" /\ state[s].result # "PROMOTED" =>
                \E a \in announced : a.by = state'[s].event]_vars
  BY StepSpeaks DEF Speaks
<1>3. Spec => PointerIsFenced
  BY <1>1, Invariant, PTL DEF Spec, PointerIsFenced
<1>4. Spec => NewestEventSpeaks
  BY <1>2, Invariant, PTL DEF Spec, NewestEventSpeaks
<1> QED
  BY <1>3, <1>4 DEF MovesAreFenced
=============================================================================
