------------------------- MODULE RuntimePlane_proofs -------------------------
(***************************************************************************)
(* Theorems about the runtime plane, for any profiles, artifacts, leases,  *)
(* switches and renewals, any sessions and requests, any sizes of the      *)
(* producer's queue and batches, and any checkouts and runs of their code. *)
(***************************************************************************)
EXTENDS RuntimePlane, FiniteSetTheorems, FunctionTheorems, SequenceTheorems, WellFoundedInduction, TLAPS

-----------------------------------------------------------------------------
(* Leases and policy.                                                      *)

ProfileRow == [state : {"NONE", "DISABLED", "ENABLED"}, epoch : Nat]
LeaseRow ==
  [state : {"NONE", "ACTIVE", "DISABLED", "REVOKED", "EXPIRED"},
   profile : Profiles \cup {NoLease.profile}, artifact : Artifacts \cup {NoLease.artifact},
   datasets : SUBSET Datasets, epoch : Nat, token : Nat]

PolicyTyped ==
  /\ profile \in [Profiles -> ProfileRow]
  /\ attested \in [Profiles -> [Artifacts -> {"NONE", "APPROVED", "REVOKED"}]]
  /\ lease \in [Leases -> LeaseRow]
  /\ \A r \in Requests : renewal[r] # NoRenewal => renewal[r].lease \in Leases /\ renewal[r].token \in Nat

\* What an active lease can rely on, whether it is listed or not: it was issued for a
\* registered profile in an epoch that was reached, and whatever would forbid it by now
\* has ended it.
Allowed(l) ==
  LET p == lease[l].profile
      a == lease[l].artifact
  IN  /\ p \in Profiles /\ a \in Artifacts
      /\ profile[p].state # "NONE" /\ lease[l].epoch =< profile[p].epoch
      /\ attested[p][a] = "APPROVED"
      /\ CollectionEnabled(p, lease[l].datasets)
ActiveAreAllowed == \A l \in Leases : lease[l].state = "ACTIVE" => Allowed(l)

PolicyInv == PolicyTyped /\ ActiveAreAllowed

\* Ending leases changes nothing but the state of active ones.
LEMMA EndedRows ==
  ASSUME PolicyTyped, NEW leases, NEW state \in {"DISABLED", "REVOKED", "EXPIRED"},
         lease' = [l \in Leases |-> IF l \in leases /\ lease[l].state = "ACTIVE"
                                    THEN [lease[l] EXCEPT !.state = state] ELSE lease[l]]
  PROVE  /\ lease' \in [Leases -> LeaseRow]
         /\ \A l \in Leases : lease'[l].state = "ACTIVE" => lease'[l] = lease[l] /\ l \notin leases
         /\ \A l \in Leases : lease'[l].state = "NONE" <=> lease[l].state = "NONE"
<1>1. ASSUME NEW l \in Leases
      PROVE  /\ lease[l] \in LeaseRow
             /\ [lease[l] EXCEPT !.state = state] \in LeaseRow
             /\ [lease[l] EXCEPT !.state = state].state = state
  <2>1. PICK old \in LeaseRow : old = lease[l]
    BY DEF PolicyTyped
  <2>2. [old EXCEPT !.state = state] \in LeaseRow /\ [old EXCEPT !.state = state].state = state
    BY DEF LeaseRow
  <2> QED
    BY <2>1, <2>2
<1>2. \A l \in Leases : lease'[l] = IF l \in leases /\ lease[l].state = "ACTIVE"
                                    THEN [lease[l] EXCEPT !.state = state] ELSE lease[l]
  OBVIOUS
<1> QED
  BY <1>1, <1>2

\* Where leases only end, and neither the attestations of the active ones nor the
\* switches change, what is active is allowed.
LEMMA OnlyEnded ==
  ASSUME PolicyInv, attested' = attested, killed' = killed,
         profile' \in [Profiles -> ProfileRow],
         \A p \in Profiles : profile[p].state # "NONE" =>
           profile'[p].state # "NONE" /\ profile[p].epoch =< profile'[p].epoch,
         \A l \in Leases : lease'[l].state = "ACTIVE" => lease'[l] = lease[l]
  PROVE  ActiveAreAllowed'
<1> SUFFICES ASSUME NEW l \in Leases, lease'[l].state = "ACTIVE"
             PROVE  Allowed(l)'
  BY DEF ActiveAreAllowed
<1>1. lease'[l] = lease[l] /\ Allowed(l)
  BY DEF PolicyInv, ActiveAreAllowed
<1>2. lease[l].epoch \in Nat
  BY DEF PolicyInv, PolicyTyped, LeaseRow
<1>3. \A p \in Profiles : profile[p].epoch \in Nat /\ profile'[p].epoch \in Nat
  BY DEF PolicyInv, PolicyTyped, ProfileRow
<1> QED
  BY <1>1, <1>2, <1>3 DEF Allowed, CollectionEnabled

LEMMA PolicyInitInvariant == PolicyInit => PolicyInv
<1> SUFFICES ASSUME PolicyInit
             PROVE  PolicyInv
  OBVIOUS
<1>1. NoLease \in LeaseRow
  BY DEF NoLease, LeaseRow
<1>2. PolicyTyped
  BY <1>1 DEF PolicyInit, PolicyTyped, ProfileRow
<1>3. ActiveAreAllowed
  BY DEF PolicyInit, ActiveAreAllowed, NoLease
<1> QED
  BY <1>2, <1>3 DEF PolicyInv

\* The profiles: their epochs only grow, and disabling one ends its leases.
LEMMA ProfilesKeep ==
  ASSUME PolicyInv, NEW p \in Profiles, RegisterProfile(p) \/ EnableProfile(p) \/ DisableProfile(p)
  PROVE  PolicyInv'
<1> USE DEF PolicyInv
<1>1. /\ attested' = attested /\ killed' = killed /\ renewal' = renewal
      /\ \A q \in Profiles : profile[q] \in ProfileRow
  BY DEF RegisterProfile, EnableProfile, DisableProfile, PolicyTyped
<1>2. /\ profile' \in [Profiles -> ProfileRow]
      /\ \A q \in Profiles : profile[q].state # "NONE" =>
           profile'[q].state # "NONE" /\ profile[q].epoch =< profile'[q].epoch
  <2>1. CASE RegisterProfile(p)
    BY <1>1, <2>1 DEF RegisterProfile, SetProfile, PolicyTyped, ProfileRow
  <2>2. CASE EnableProfile(p)
    BY <1>1, <2>2 DEF EnableProfile, SetProfile, PolicyTyped, ProfileRow
  <2>3. CASE DisableProfile(p)
    BY <1>1, <2>3 DEF DisableProfile, SetProfile, PolicyTyped, ProfileRow
  <2> QED
    BY <2>1, <2>2, <2>3
<1>3. /\ lease' \in [Leases -> LeaseRow]
      /\ \A l \in Leases : lease'[l].state = "ACTIVE" => lease'[l] = lease[l]
  <2>1. CASE lease' = lease
    BY <2>1 DEF PolicyTyped
  <2>2. CASE DisableProfile(p)
    BY <2>2, EndedRows DEF DisableProfile, EndLeases
  <2> QED
    BY <2>1, <2>2 DEF RegisterProfile, EnableProfile
<1> QED
  BY <1>1, <1>2, <1>3, OnlyEnded DEF PolicyTyped

\* An attestation is revoked together with the leases that rest on it.
LEMMA AttestationsKeep ==
  ASSUME PolicyInv, NEW p \in Profiles, NEW a \in Artifacts,
         AttestArtifact(p, a) \/ ReactivateArtifact(p, a) \/ RevokeArtifact(p, a)
  PROVE  PolicyInv'
<1> USE DEF PolicyInv
<1>1. /\ profile' = profile /\ killed' = killed /\ renewal' = renewal
      /\ \A q \in Profiles : attested[q] \in [Artifacts -> {"NONE", "APPROVED", "REVOKED"}]
  BY DEF AttestArtifact, ReactivateArtifact, RevokeArtifact, PolicyTyped
<1>2. PICK state \in {"APPROVED", "REVOKED"} :
        /\ attested' = [attested EXCEPT ![p][a] = state]
        /\ state = "REVOKED" => RevokeArtifact(p, a)
  BY DEF AttestArtifact, ReactivateArtifact, RevokeArtifact, Attest
<1>3. /\ attested' \in [Profiles -> [Artifacts -> {"NONE", "APPROVED", "REVOKED"}]]
      /\ attested'[p][a] = state
      /\ \A q \in Profiles, b \in Artifacts : q # p \/ b # a => attested'[q][b] = attested[q][b]
  BY <1>1, <1>2 DEF PolicyTyped
<1>4. /\ lease' \in [Leases -> LeaseRow]
      /\ \A l \in Leases : lease'[l].state = "ACTIVE" =>
           /\ lease'[l] = lease[l]
           /\ state = "REVOKED" => l \notin LeasesOf(p, a)
  <2>1. CASE RevokeArtifact(p, a)
    BY <2>1, EndedRows DEF RevokeArtifact, EndLeases
  <2>2. CASE ~RevokeArtifact(p, a)
    BY <1>2, <2>2 DEF AttestArtifact, ReactivateArtifact, PolicyTyped
  <2> QED
    BY <2>1, <2>2
<1>5. ActiveAreAllowed'
  <2> SUFFICES ASSUME NEW l \in Leases, lease'[l].state = "ACTIVE"
               PROVE  Allowed(l)'
    BY DEF ActiveAreAllowed
  <2>1. lease'[l] = lease[l] /\ Allowed(l)
    BY <1>4 DEF ActiveAreAllowed
  <2>2. attested'[lease[l].profile][lease[l].artifact] = "APPROVED"
    <3>1. CASE l \in LeasesOf(p, a)
      BY <1>3, <1>4, <3>1 DEF LeasesOf
    <3>2. CASE l \notin LeasesOf(p, a)
      BY <1>3, <2>1, <3>2 DEF LeasesOf, Allowed
    <3> QED
      BY <3>1, <3>2
  <2> QED
    BY <1>1, <2>1, <2>2 DEF Allowed, CollectionEnabled
<1> QED
  BY <1>1, <1>3, <1>4, <1>5 DEF PolicyTyped

\* A lease is issued where nothing forbids it.
LEMMA IssueKeeps ==
  ASSUME PolicyInv, NEW p \in Profiles, NEW a \in Artifacts, NEW l \in Leases,
         NEW datasets \in SUBSET Datasets, IssueLease(l, p, a, datasets)
  PROVE  PolicyInv'
<1> USE DEF PolicyInv
<1> DEFINE row == [state |-> "ACTIVE", profile |-> p, artifact |-> a, datasets |-> datasets,
                   epoch |-> profile[p].epoch, token |-> 1]
<1>1. /\ lease' = [lease EXCEPT ![l] = row]
      /\ profile' = profile /\ attested' = attested /\ killed' = killed /\ renewal' = renewal
      /\ profile[p].state = "ENABLED" /\ attested[p][a] = "APPROVED" /\ CollectionEnabled(p, datasets)
  BY DEF IssueLease
<1>2. profile[p].epoch \in Nat
  BY DEF PolicyTyped, ProfileRow
<1>3. row \in LeaseRow
  BY <1>2 DEF LeaseRow
<1>4. lease' \in [Leases -> LeaseRow] /\ lease'[l] = row /\ \A m \in Leases : m # l => lease'[m] = lease[m]
  BY <1>1, <1>3 DEF PolicyTyped
<1>5. ActiveAreAllowed'
  <2> SUFFICES ASSUME NEW m \in Leases, lease'[m].state = "ACTIVE"
               PROVE  Allowed(m)'
    BY DEF ActiveAreAllowed
  <2>1. CASE m = l
    BY <1>1, <1>2, <1>4, <2>1 DEF Allowed, CollectionEnabled
  <2>2. CASE m # l
    BY <1>1, <1>4, <2>2 DEF ActiveAreAllowed, Allowed, CollectionEnabled
  <2> QED
    BY <2>1, <2>2
<1> QED
  BY <1>1, <1>4, <1>5 DEF PolicyTyped

LEMMA RenewedRow ==
  ASSUME NEW old \in LeaseRow, NEW token \in Nat
  PROVE  LET row == [old EXCEPT !.state = "ACTIVE", !.token = token] IN
         /\ row \in LeaseRow /\ row.profile = old.profile /\ row.artifact = old.artifact
         /\ row.datasets = old.datasets /\ row.epoch = old.epoch
BY DEF LeaseRow

\* A renewal gives an active lease another token; otherwise time only ends leases.
LEMMA RenewKeeps ==
  ASSUME PolicyInv, NEW r \in Requests, RenewLease(r)
  PROVE  PolicyInv'
<1> USE DEF PolicyInv
<1> DEFINE l == renewal[r].lease
<1>1. /\ l \in Leases /\ renewal[r].token \in Nat
      /\ renewal' = [renewal EXCEPT ![r] = NoRenewal]
      /\ profile' = profile /\ attested' = attested /\ killed' = killed
  BY DEF RenewLease, PolicyTyped
<1>2. CASE Renewable(r)
  <2>1. lease[l].state = "ACTIVE" /\ lease[l] \in LeaseRow
    BY <1>1, <1>2 DEF Renewable, PolicyTyped
  <2>2. lease' = [lease EXCEPT ![l] = [lease[l] EXCEPT !.state = "ACTIVE", !.token = renewal[r].token + 1]]
    BY <1>2, <2>1 DEF RenewLease, PolicyTyped
  <2> DEFINE row == [lease[l] EXCEPT !.state = "ACTIVE", !.token = renewal[r].token + 1]
  <2>3. /\ row \in LeaseRow /\ row.profile = lease[l].profile /\ row.artifact = lease[l].artifact
        /\ row.datasets = lease[l].datasets /\ row.epoch = lease[l].epoch
    <3>1. renewal[r].token + 1 \in Nat
      BY <1>1
    <3> QED
      BY <2>1, <3>1, RenewedRow
  <2>4. /\ lease' \in [Leases -> LeaseRow] /\ lease'[l] = row
        /\ \A m \in Leases : m # l => lease'[m] = lease[m]
    BY <1>1, <2>2, <2>3 DEF PolicyTyped
  <2>5. ActiveAreAllowed'
    <3> SUFFICES ASSUME NEW m \in Leases, lease'[m].state = "ACTIVE"
                 PROVE  Allowed(m)'
      BY DEF ActiveAreAllowed
    <3>1. Allowed(m)
      BY <2>1, <2>4 DEF ActiveAreAllowed
    <3>2. /\ lease'[m].profile = lease[m].profile /\ lease'[m].artifact = lease[m].artifact
          /\ lease'[m].datasets = lease[m].datasets /\ lease'[m].epoch = lease[m].epoch
      BY <2>3, <2>4
    <3> QED
      BY <1>1, <3>1, <3>2 DEF Allowed, CollectionEnabled
  <2> QED
    BY <1>1, <2>4, <2>5 DEF PolicyTyped
<1>3. CASE ~Renewable(r)
  <2>1. /\ lease' \in [Leases -> LeaseRow]
        /\ \A m \in Leases : lease'[m].state = "ACTIVE" => lease'[m] = lease[m]
    <3>1. CASE lease' = lease
      BY <3>1 DEF PolicyTyped
    <3>2. CASE lease' # lease
      BY <1>3, <3>2, EndedRows DEF RenewLease, EndLeases
    <3> QED
      BY <3>1, <3>2
  <2>2. profile \in [Profiles -> ProfileRow] /\ \A p \in Profiles : profile[p].epoch \in Nat
    BY DEF PolicyTyped, ProfileRow
  <2>3. ActiveAreAllowed'
    BY <1>1, <2>1, <2>2, OnlyEnded
  <2> QED
    BY <1>1, <2>1, <2>3 DEF PolicyTyped
<1> QED
  BY <1>2, <1>3

LEMMA TimeKeeps ==
  ASSUME PolicyInv,
         \/ \E l \in Leases : LeaseDue(l)
         \/ \E l \in Leases, r \in Requests : ValidateLease(r, l)
         \/ ListActiveLeases
  PROVE  PolicyInv'
<1> USE DEF PolicyInv
<1>1. profile' = profile /\ attested' = attested /\ killed' = killed
  BY DEF LeaseDue, ValidateLease, ListActiveLeases
<1>2. /\ lease' \in [Leases -> LeaseRow]
      /\ \A m \in Leases : lease'[m].state = "ACTIVE" => lease'[m] = lease[m]
  <2>1. CASE lease' = lease
    BY <2>1 DEF PolicyTyped
  <2>2. CASE lease' # lease
    <3>1. CASE ListActiveLeases
      BY <3>1, EndedRows DEF ListActiveLeases, EndLeases
    <3>2. ASSUME NEW l \in Leases, NEW r \in Requests, ValidateLease(r, l)
          PROVE  lease' = [m \in Leases |-> IF m \in {l} /\ lease[m].state = "ACTIVE"
                                            THEN [lease[m] EXCEPT !.state = "EXPIRED"] ELSE lease[m]]
      BY <2>2, <3>2 DEF ValidateLease, EndLeases
    <3>3. CASE \E l \in Leases, r \in Requests : ValidateLease(r, l)
      <4>1. PICK l \in Leases : \E r \in Requests : ValidateLease(r, l)
        BY <3>3
      <4>2. lease' = [m \in Leases |-> IF m \in {l} /\ lease[m].state = "ACTIVE"
                                       THEN [lease[m] EXCEPT !.state = "EXPIRED"] ELSE lease[m]]
        BY <3>2, <4>1
      <4> QED
        BY <4>2, EndedRows
    <3> QED
      BY <2>2, <3>1, <3>3 DEF LeaseDue
  <2> QED
    BY <2>1, <2>2
<1>3. \A r \in Requests : renewal'[r] # NoRenewal => renewal'[r].lease \in Leases /\ renewal'[r].token \in Nat
  <2>1. CASE renewal' = renewal
    BY <2>1 DEF PolicyTyped
  <2>2. ASSUME NEW l \in Leases, NEW q \in Requests, ValidateLease(q, l)
        PROVE  \A r \in Requests : renewal'[r] # NoRenewal => renewal'[r].lease \in Leases /\ renewal'[r].token \in Nat
    <3>1. CASE l \in due
      BY <2>1, <2>2, <3>1 DEF ValidateLease
    <3>2. CASE l \notin due
      <4>1. renewal' = [renewal EXCEPT ![q] = [lease |-> l, token |-> lease[l].token]]
        BY <2>2, <3>2 DEF ValidateLease
      <4>2. lease[l].token \in Nat
        BY DEF PolicyTyped, LeaseRow
      <4>3. \A r \in Requests : renewal'[r] \in {[lease |-> l, token |-> lease[l].token], renewal[r]}
        BY <4>1
      <4> QED
        BY <4>2, <4>3 DEF PolicyTyped
    <3> QED
      BY <3>1, <3>2
  <2> QED
    BY <2>1, <2>2 DEF LeaseDue, ListActiveLeases
<1>4. profile \in [Profiles -> ProfileRow] /\ \A p \in Profiles : profile[p].epoch \in Nat
  BY DEF PolicyTyped, ProfileRow
<1>5. ActiveAreAllowed'
  BY <1>1, <1>2, <1>4, OnlyEnded
<1> QED
  BY <1>1, <1>2, <1>3, <1>5 DEF PolicyTyped

LEMMA MovedProfile ==
  ASSUME NEW old \in ProfileRow
  PROVE  LET row == [old EXCEPT !.epoch = @ + 1]
         IN  row.state = old.state /\ old.epoch =< row.epoch /\ old.epoch =< old.epoch
BY DEF ProfileRow

\* A switch that is turned on ends every lease it forbids.
LEMMA SwitchesKeep ==
  ASSUME PolicyInv, NEW x \in Switches \cup Datasets, ActivateKillSwitch(x) \/ LiftKillSwitch(x)
  PROVE  PolicyInv'
<1> USE DEF PolicyInv
<1>1. attested' = attested /\ renewal' = renewal
  BY DEF ActivateKillSwitch, LiftKillSwitch
<1>2. CASE LiftKillSwitch(x)
  <2>1. profile' = profile /\ lease' = lease /\ killed' \subseteq killed
    BY <1>2 DEF LiftKillSwitch
  <2> QED
    BY <1>1, <2>1 DEF PolicyTyped, ActiveAreAllowed, Allowed, CollectionEnabled
<1>3. CASE ActivateKillSwitch(x)
  <2>1. /\ lease' \in [Leases -> LeaseRow]
        /\ \A l \in Leases : lease'[l].state = "ACTIVE" => lease'[l] = lease[l] /\ l \notin Killed(x)
    BY <1>3, EndedRows DEF ActivateKillSwitch, EndLeases
  <2>2. \A p \in Profiles : profile[p] \in ProfileRow /\ [profile[p] EXCEPT !.epoch = @ + 1] \in ProfileRow
    BY DEF PolicyTyped, ProfileRow
  <2>3. \A p \in Profiles : profile'[p] = IF p \in Covered(x) THEN [profile[p] EXCEPT !.epoch = @ + 1] ELSE profile[p]
    BY <1>3 DEF ActivateKillSwitch
  <2>4. /\ profile' \in [Profiles -> ProfileRow]
        /\ \A p \in Profiles : profile'[p].state = profile[p].state /\ profile[p].epoch =< profile'[p].epoch
    <3>1. profile' \in [Profiles -> ProfileRow]
      BY <1>3, <2>2 DEF ActivateKillSwitch
    <3>2. ASSUME NEW p \in Profiles
          PROVE  profile'[p].state = profile[p].state /\ profile[p].epoch =< profile'[p].epoch
      BY <2>2, <2>3, MovedProfile
    <3> QED
      BY <3>1, <3>2
  <2>5. killed' = killed \cup {x}
    BY <1>3 DEF ActivateKillSwitch
  <2>6. ActiveAreAllowed'
    <3> SUFFICES ASSUME NEW l \in Leases, lease'[l].state = "ACTIVE"
                 PROVE  Allowed(l)'
      BY DEF ActiveAreAllowed
    <3>1. lease'[l] = lease[l] /\ Allowed(l) /\ l \notin Killed(x)
      BY <2>1 DEF ActiveAreAllowed
    <3> DEFINE p == lease[l].profile
    <3>2. p \in Profiles /\ lease[l].epoch \in Nat /\ lease[l].datasets \subseteq Datasets
      BY <3>1 DEF Allowed, PolicyTyped, LeaseRow
    <3>3. CollectionEnabled(p, lease[l].datasets)'
      <4>1. CASE x \in Switches
        BY <2>5, <3>1, <3>2, <4>1, PolicyAssumption DEF Allowed, CollectionEnabled, Killed
      <4>2. CASE x \notin Switches
        BY <2>5, <3>1, <3>2, <4>2 DEF Allowed, CollectionEnabled, Killed
      <4> QED
        BY <4>1, <4>2
    <3>4. /\ profile'[p].state # "NONE" /\ lease[l].epoch =< profile'[p].epoch
      <4>1. profile[p].epoch \in Nat /\ profile'[p].epoch \in Nat
        BY <2>2, <2>4, <3>2 DEF ProfileRow
      <4> QED
        BY <2>4, <3>1, <3>2, <4>1 DEF Allowed
    <3> QED
      BY <1>1, <3>1, <3>3, <3>4 DEF Allowed
  <2> QED
    BY <1>1, <2>1, <2>4, <2>6 DEF PolicyTyped
<1> QED
  BY <1>2, <1>3

LEMMA PolicyRestKeeps == PolicyInv /\ UNCHANGED policyVars => PolicyInv'
BY DEF PolicyInv, policyVars, PolicyTyped, ActiveAreAllowed, Allowed, CollectionEnabled

LEMMA PolicyStepKeeps == PolicyInv /\ PolicyNext => PolicyInv'
BY ProfilesKeep, AttestationsKeep, IssueKeeps, RenewKeeps, TimeKeeps, SwitchesKeep DEF PolicyNext

LEMMA PolicyInvariant == Spec => []PolicyInv
<1>1. Init => PolicyInv
  BY PolicyInitInvariant DEF Init
<1>2. PolicyInv /\ [Next]_planeVars => PolicyInv'
  BY PolicyRestKeeps, PolicyStepKeeps DEF Next, planeVars
<1> QED
  BY <1>1, <1>2, PTL DEF Spec

\* A lease that is listed or could be renewed is one that could be issued now.
THEOREM LeasesAreAllowed == Spec => []LiveLeasesAreAllowed
<1>1. PolicyInv => LiveLeasesAreAllowed
  BY DEF PolicyInv, ActiveAreAllowed, Allowed, LiveLeasesAreAllowed, ActiveLeases
<1> QED
  BY <1>1, PolicyInvariant, PTL

\* An epoch that was passed is not reached again: a profile that a step leaves enabled
\* was not changed or is in a later epoch.
LEMMA EpochsMove ==
  ASSUME PolicyInv, [PolicyNext]_policyVars, NEW p \in Profiles
  PROVE  \/ profile'[p] = profile[p]
         \/ profile'[p].state = "DISABLED"
         \/ profile'[p].epoch > profile[p].epoch
<1>1. profile[p].epoch \in Nat /\ profile \in [Profiles -> ProfileRow]
  BY DEF PolicyInv, PolicyTyped, ProfileRow
<1>2. ASSUME NEW q \in Profiles, RegisterProfile(q) \/ EnableProfile(q) \/ DisableProfile(q)
      PROVE  \/ profile'[p] = profile[p]
             \/ profile'[p].state = "DISABLED"
             \/ profile'[p].epoch > profile[p].epoch
  BY <1>1, <1>2 DEF RegisterProfile, EnableProfile, DisableProfile, SetProfile
<1>3. ASSUME NEW x \in Switches \cup Datasets, ActivateKillSwitch(x)
      PROVE  profile'[p] = profile[p] \/ profile'[p].epoch > profile[p].epoch
  <2>1. profile[p] \in ProfileRow
    BY <1>1
  <2>2. profile'[p] = IF p \in Covered(x) THEN [profile[p] EXCEPT !.epoch = @ + 1] ELSE profile[p]
    BY <1>3 DEF ActivateKillSwitch
  <2>3. [profile[p] EXCEPT !.epoch = @ + 1].epoch > profile[p].epoch
    BY <1>1, <2>1 DEF ProfileRow
  <2> QED
    BY <2>2, <2>3
<1>4. CASE profile' = profile
  BY <1>4
<1>5. CASE PolicyNext
  BY <1>2, <1>3, <1>4, <1>5
  DEF PolicyNext, AttestArtifact, ReactivateArtifact, RevokeArtifact, IssueLease, LeaseDue,
      ValidateLease, RenewLease, ListActiveLeases, LiftKillSwitch
<1> QED
  BY <1>4, <1>5 DEF policyVars

\* A lease that is active after a step was active before it, for the same profile and
\* epoch, or has just been issued; and one that is past its expiry stays so.
LEMMA LeasesMove ==
  ASSUME PolicyInv, [PolicyNext]_policyVars, NEW l \in Leases,
         lease'[l].state = "ACTIVE", lease[l].state # "NONE"
  PROVE  /\ lease[l].state = "ACTIVE"
         /\ lease'[l].profile = lease[l].profile /\ lease'[l].epoch = lease[l].epoch
         /\ l \in due => l \in due'
<1> USE DEF PolicyInv
<1> DEFINE Same == lease[l].state = "ACTIVE" /\ lease'[l].profile = lease[l].profile /\ lease'[l].epoch = lease[l].epoch
<1>1. ASSUME NEW leases, NEW state \in {"DISABLED", "REVOKED", "EXPIRED"}, EndLeases(leases, state)
      PROVE  Same
  <2>1. lease'[l] = lease[l]
    BY <1>1, EndedRows DEF EndLeases
  <2> QED
    BY <2>1
<1>2. ASSUME lease' = lease
      PROVE  Same
  BY <1>2
<1>3. ASSUME NEW p \in Profiles, RegisterProfile(p) \/ EnableProfile(p) \/ DisableProfile(p)
      PROVE  Same /\ due' = due
  BY <1>1, <1>2, <1>3 DEF RegisterProfile, EnableProfile, DisableProfile
<1>4. ASSUME NEW p \in Profiles, NEW a \in Artifacts,
             AttestArtifact(p, a) \/ ReactivateArtifact(p, a) \/ RevokeArtifact(p, a)
      PROVE  Same /\ due' = due
  BY <1>1, <1>2, <1>4 DEF AttestArtifact, ReactivateArtifact, RevokeArtifact
<1>5. ASSUME NEW m \in Leases, NEW p \in Profiles, NEW a \in Artifacts, NEW datasets, IssueLease(m, p, a, datasets)
      PROVE  Same /\ due' = due
  <2>1. m # l /\ lease'[l] = lease[l]
    BY <1>5 DEF IssueLease, PolicyTyped
  <2> QED
    BY <1>5, <2>1 DEF IssueLease
<1>6. ASSUME NEW m \in Leases, LeaseDue(m)
      PROVE  Same /\ due \subseteq due'
  BY <1>2, <1>6 DEF LeaseDue
<1>7. ASSUME NEW m \in Leases, NEW r \in Requests, ValidateLease(r, m)
      PROVE  Same /\ due' = due
  BY <1>1, <1>2, <1>7 DEF ValidateLease
<1>8. ASSUME NEW r \in Requests, RenewLease(r)
      PROVE  Same /\ (l \in due => l \in due')
  <2> DEFINE m == renewal[r].lease
  <2>1. CASE ~Renewable(r)
    BY <1>1, <1>2, <1>8, <2>1 DEF RenewLease
  <2>2. CASE Renewable(r)
    <3>1. /\ m \in Leases /\ renewal[r].token + 1 \in Nat /\ lease[m] \in LeaseRow
          /\ lease[m].state = "ACTIVE" /\ m \notin due /\ due' = due \ {m}
      BY <1>8, <2>2 DEF RenewLease, Renewable, PolicyTyped
    <3>2. lease' = [lease EXCEPT ![m] = [lease[m] EXCEPT !.state = "ACTIVE", !.token = renewal[r].token + 1]]
      BY <1>8, <2>2, <3>1 DEF RenewLease, PolicyTyped
    <3>3. CASE l = m
      <4>1. lease'[l] = [lease[m] EXCEPT !.state = "ACTIVE", !.token = renewal[r].token + 1]
        BY <3>1, <3>2, <3>3 DEF PolicyTyped
      <4>2. lease'[l].profile = lease[m].profile /\ lease'[l].epoch = lease[m].epoch
        <5>1. PICK old \in LeaseRow, token \in Nat : old = lease[m] /\ token = renewal[r].token + 1
          BY <3>1
        <5>2. lease'[l] = [old EXCEPT !.state = "ACTIVE", !.token = token]
          BY <4>1, <5>1
        <5>3. lease'[l].profile = old.profile /\ lease'[l].epoch = old.epoch
          BY <5>2 DEF LeaseRow
        <5> QED
          BY <5>1, <5>3
      <4> QED
        BY <3>1, <3>3, <4>2
    <3>4. CASE l # m
      <4>1. lease'[l] = lease[l]
        BY <3>2, <3>4 DEF PolicyTyped
      <4> QED
        BY <3>1, <3>4, <4>1
    <3> QED
      BY <3>3, <3>4
  <2> QED
    BY <2>1, <2>2
<1>9. ASSUME ListActiveLeases
      PROVE  Same /\ due' = due
  BY <1>1, <1>9 DEF ListActiveLeases
<1>10. ASSUME NEW x \in Switches \cup Datasets, ActivateKillSwitch(x) \/ LiftKillSwitch(x)
       PROVE  Same /\ due' = due
  BY <1>1, <1>2, <1>10 DEF ActivateKillSwitch, LiftKillSwitch
<1>11. CASE UNCHANGED policyVars
  BY <1>2, <1>11 DEF policyVars
<1> HIDE DEF Same
<1>12. CASE PolicyNext
  <2>1. Same /\ (l \in due => l \in due')
    BY <1>3, <1>4, <1>5, <1>6, <1>7, <1>8, <1>9, <1>10, <1>12 DEF PolicyNext
  <2> QED
    BY <2>1 DEF Same
<1> QED
  BY <1>11, <1>12

\* A lease that was ended once is not active again.
THEOREM EndedLeasesNeverReturn == Spec => EndedLeasesStay
<1> DEFINE Stay == \A l \in Leases : l \notin ActiveLeases /\ lease[l].state # "NONE" => l \notin ActiveLeases'
<1>1. PolicyInv /\ [PolicyNext]_policyVars => Stay
  <2> SUFFICES ASSUME PolicyInv, [PolicyNext]_policyVars, NEW l \in Leases,
                      lease[l].state # "NONE", l \in ActiveLeases'
               PROVE  l \in ActiveLeases
    OBVIOUS
  <2> DEFINE p == lease[l].profile
  <2>1. lease'[l].state = "ACTIVE" /\ InEpoch(l)' /\ l \notin due'
    BY DEF ActiveLeases
  <2>2. /\ lease[l].state = "ACTIVE" /\ l \notin due
        /\ lease'[l].profile = lease[l].profile /\ lease'[l].epoch = lease[l].epoch
    BY <2>1, LeasesMove
  <2>3. p \in Profiles /\ lease[l].epoch \in Nat /\ profile[p].epoch \in Nat /\ lease[l].epoch =< profile[p].epoch
    BY <2>2 DEF PolicyInv, PolicyTyped, ActiveAreAllowed, Allowed, LeaseRow, ProfileRow
  <2>4. profile'[p] = [state |-> "ENABLED", epoch |-> lease[l].epoch]
    BY <2>1, <2>2 DEF InEpoch
  <2>5. profile'[p] = profile[p]
    BY <2>3, <2>4, EpochsMove
  <2> QED
    BY <2>2, <2>4, <2>5 DEF ActiveLeases, InEpoch
<1>2. [Next]_planeVars => [PolicyNext]_policyVars
  BY DEF Next, planeVars, policyVars
<1>3. PolicyInv /\ [Next]_planeVars => [Stay]_policyVars
  BY <1>1, <1>2
<1>4. Spec => [][Stay]_policyVars
  BY <1>3, PolicyInvariant, PTL DEF Spec
<1> QED
  BY <1>4 DEF EndedLeasesStay

-----------------------------------------------------------------------------
(* Sessions.                                                               *)

SessionRow ==
  [state : {"NONE", "GRANT", "READY", "OBSERVING", "DRAIN", "CLOSED"},
   outcome : {"NONE", "COMPLETE", "INCOMPLETE", "EXPIRED", "REVOKED"},
   accepted : Nat, rejected : Nat, observations : SUBSET Observations, expected : SUBSET Observations]

SessionTyped ==
  /\ session \in [Sessions -> SessionRow]
  /\ stored \in [Sessions -> SUBSET Observations]
  /\ known \in [Sessions -> SUBSET Observations]
  /\ DOMAIN call = Calls

\* The rows of the sessions: the outcome is that of a closed one, the count that of its
\* observations, and a complete one has what its agent expected; a session that was
\* opened again may be open with its old outcome.
RowInv(s) ==
  /\ session[s].state = "CLOSED" => session[s].outcome # "NONE"
  /\ session[s].outcome # "NONE" /\ s \notin reopened => session[s].state = "CLOSED"
  /\ session[s].state = "NONE" => stored[s] = {}
  /\ IsFiniteSet(stored[s]) /\ session[s].accepted = Cardinality(stored[s])
  /\ known[s] \subseteq stored[s]
  /\ session[s].outcome = "COMPLETE" =>
       /\ session[s].expected \subseteq session[s].observations
       /\ s \notin reopened => session[s].observations = session[s].expected

\* The requests: an answer is about what is stored; and from the row that close has read
\* to its write nothing more is stored, unless the session is opened again.
Frozen(k) ==
  LET s == SessionOf(k) IN
  /\ call[k].expected \subseteq stored[s]
  /\ s \notin reopened => /\ session[s].state \in {"DRAIN", "CLOSED"}
                          /\ call[k].row.accepted = Cardinality(stored[s])
CallInv(k) ==
  call[k].op # "NONE" =>
    /\ SessionOf(k) \in Sessions
    /\ call[k].payload \subseteq Observations /\ IsFiniteSet(call[k].payload)
    /\ call[k].at = "ANSWER" => call[k].payload \subseteq stored[SessionOf(k)]
    /\ call[k].op = "close" => Frozen(k)

SessionInv ==
  /\ SessionTyped
  /\ \A s \in Sessions : RowInv(s)
  /\ \A k \in Calls : CallInv(k)

LEMMA SessionInitInvariant == SessionInit => SessionInv
<1> SUFFICES ASSUME SessionInit
             PROVE  SessionInv
  OBVIOUS
<1>1. NoSession \in SessionRow /\ NoSession.outcome = "NONE" /\ NoSession.state = "NONE" /\ NoSession.accepted = 0
  BY DEF NoSession, SessionRow
<1>2. SessionTyped
  BY <1>1 DEF SessionInit, SessionTyped
<1>3. ASSUME NEW s \in Sessions
      PROVE  RowInv(s)
  BY <1>1, FS_EmptySet DEF SessionInit, RowInv
<1>4. \A k \in Calls : call[k].op = "NONE"
  BY DEF SessionInit, NoCall
<1> QED
  BY <1>2, <1>3, <1>4 DEF SessionInv, CallInv

\* A request that has not begun or is over asks for nothing, whatever happens to the
\* others while the rows they rely on stay.
LEMMA SameRows ==
  ASSUME SessionInv, session' = session, stored' = stored, known' = known, reopened' = reopened, DOMAIN call' = Calls,
         \A k \in Calls : call'[k].op # "NONE" => call'[k].op = call[k].op /\ SessionOf(k)' = SessionOf(k)
                            /\ call'[k].row = call[k].row /\ call'[k].payload = call[k].payload
                            /\ call'[k].expected = call[k].expected
                            /\ (call'[k].at = "ANSWER" => call[k].at = "ANSWER")
  PROVE  SessionInv'
<1>1. ASSUME NEW s \in Sessions
      PROVE  RowInv(s)'
  BY DEF SessionInv, RowInv
<1>2. ASSUME NEW k \in Calls, call'[k].op # "NONE"
      PROVE  CallInv(k)'
  <2>1. CallInv(k) /\ call[k].op # "NONE"
    BY <1>2 DEF SessionInv
  <2>2. Frozen(k) => Frozen(k)'
    BY <1>2 DEF Frozen
  <2> QED
    BY <1>2, <2>1, <2>2 DEF CallInv
<1> QED
  BY <1>1, <1>2 DEF SessionInv, SessionTyped, CallInv

\* A request that a step leaves as it was, or ends.
Goes(k) ==
  call'[k].op # "NONE" =>
    /\ call'[k].op = call[k].op /\ SessionOf(k)' = SessionOf(k) /\ call'[k].row = call[k].row
    /\ call'[k].payload = call[k].payload /\ call'[k].expected = call[k].expected

\* One session moves: what its requests rely on has to stay.
LEMMA RowMoves ==
  ASSUME SessionInv, NEW s \in Sessions, NEW row \in SessionRow,
         session' = [session EXCEPT ![s] = row],
         stored' \in [Sessions -> SUBSET Observations], known' \in [Sessions -> SUBSET Observations],
         \A t \in Sessions : t # s => stored'[t] = stored[t] /\ known'[t] = known[t],
         stored[s] \subseteq stored'[s], RowInv(s)', reopened \subseteq reopened',
         DOMAIN call' = Calls, \A k \in Calls : Goes(k),
         \A k \in Calls : call'[k].op # "NONE" /\ call'[k].at = "ANSWER" =>
           call[k].at = "ANSWER" \/ call'[k].payload \subseteq stored'[SessionOf(k)],
         \A k \in Calls : call'[k].op = "close" /\ SessionOf(k) = s /\ s \notin reopened' =>
           row.state \in {"DRAIN", "CLOSED"} /\ stored'[s] = stored[s]
  PROVE  SessionInv'
<1>1. session' \in [Sessions -> SessionRow] /\ session'[s] = row /\ \A t \in Sessions : t # s => session'[t] = session[t]
  BY DEF SessionInv, SessionTyped
<1>2. ASSUME NEW t \in Sessions
      PROVE  RowInv(t)'
  BY <1>1 DEF SessionInv, RowInv
<1>3. ASSUME NEW k \in Calls, call'[k].op # "NONE"
      PROVE  CallInv(k)'
  <2>1. CallInv(k) /\ call[k].op # "NONE" /\ Goes(k)
    BY <1>3 DEF SessionInv, Goes
  <2>2. SessionOf(k) \in Sessions /\ SessionOf(k)' = SessionOf(k)
    BY <1>3, <2>1 DEF CallInv, Goes
  <2>3. stored[SessionOf(k)] \subseteq stored'[SessionOf(k)]
    BY <2>2
  <2>4. call'[k].at = "ANSWER" => call'[k].payload \subseteq stored'[SessionOf(k)]
    BY <1>3, <2>1, <2>2, <2>3 DEF CallInv, Goes
  <2>5. ASSUME call'[k].op = "close"
        PROVE  Frozen(k)'
    <3>1. Frozen(k) /\ call[k].expected \subseteq stored'[SessionOf(k)]
      BY <1>3, <2>1, <2>3, <2>5 DEF CallInv, Goes, Frozen
    <3>2. SessionOf(k) \notin reopened' =>
            /\ session'[SessionOf(k)].state \in {"DRAIN", "CLOSED"}
            /\ stored'[SessionOf(k)] = stored[SessionOf(k)]
            /\ call[k].row.accepted = Cardinality(stored[SessionOf(k)])
      BY <1>1, <2>2, <2>5, <3>1 DEF Frozen
    <3> QED
      BY <1>3, <2>1, <2>2, <3>1, <3>2 DEF Frozen, Goes
  <2> QED
    BY <1>3, <2>1, <2>2, <2>4, <2>5 DEF CallInv, Goes
<1> QED
  BY <1>1, <1>2, <1>3 DEF SessionInv, SessionTyped, CallInv

\* A session is granted, or its time is over.
LEMMA GrantsKeep ==
  ASSUME SessionInv, NEW s \in Sessions, GrantSession(s) \/ SessionDue(s)
  PROVE  SessionInv'
<1>1. CASE SessionDue(s)
  <2>1. session' = session /\ stored' = stored /\ known' = known /\ call' = call /\ DOMAIN call = Calls
    BY <1>1 DEF SessionDue, SessionInv, SessionTyped
  <2> QED
    BY <1>1, <2>1, SameRows DEF SessionOf, SessionDue
<1>2. CASE GrantSession(s)
  <2> DEFINE row == [NoSession EXCEPT !.state = "GRANT"]
  <2>1. row \in SessionRow /\ row.state = "GRANT" /\ row.outcome = "NONE" /\ row.accepted = 0
    BY DEF NoSession, SessionRow
  <2>2. session' = [session EXCEPT ![s] = row] /\ stored' = stored /\ known' = known /\ call' = call
    BY <1>2 DEF GrantSession, SetSession
  <2>3. stored[s] = {} /\ known[s] = {} /\ session[s].state = "NONE"
    BY <1>2 DEF GrantSession, SessionInv, RowInv
  <2>4. session'[s] = row
    BY <2>2 DEF SessionInv, SessionTyped
  <2> HIDE DEF row
  <2>5. RowInv(s)'
    BY <2>1, <2>2, <2>3, <2>4, FS_EmptySet DEF RowInv
  <2>6. \A k \in Calls : call[k].op = "close" /\ s \notin reopened => SessionOf(k) # s
    BY <2>3 DEF SessionInv, CallInv, Frozen
  <2>7. /\ stored \in [Sessions -> SUBSET Observations] /\ known \in [Sessions -> SUBSET Observations]
        /\ DOMAIN call' = Calls /\ \A k \in Calls : Goes(k)
    BY <2>2 DEF SessionInv, SessionTyped, Goes, SessionOf
  <2>8. reopened' = reopened /\ \A t \in Sessions : t # s => stored'[t] = stored[t] /\ known'[t] = known[t]
    BY <1>2, <2>2 DEF GrantSession
  <2> QED
    BY <2>1, <2>2, <2>5, <2>6, <2>7, <2>8, RowMoves
<1> QED
  BY <1>1, <1>2

\* A request begins.
LEMMA Begins ==
  ASSUME SessionInv, NEW s \in Sessions, NEW k \in Calls, NEW c,
         session' = session, stored' = stored, known' = known, reopened' = reopened,
         call' = [call EXCEPT ![k] = c], c.session = s, c.at # "ANSWER",
         c.payload \subseteq Observations, IsFiniteSet(c.payload),
         c.op = "close" => /\ session[s].state = "DRAIN" /\ c.row.accepted = session[s].accepted
                           /\ c.expected = known[s]
  PROVE  SessionInv'
<1>1. /\ DOMAIN call' = Calls /\ call'[k] = c /\ SessionOf(k)' = s
      /\ \A j \in Calls : j # k => call'[j] = call[j] /\ SessionOf(j)' = SessionOf(j)
  BY DEF SessionInv, SessionTyped, SessionOf
<1>2. ASSUME NEW t \in Sessions
      PROVE  RowInv(t)'
  BY DEF SessionInv, RowInv
<1>3. ASSUME NEW j \in Calls, j # k
      PROVE  CallInv(j)'
  <2>1. CallInv(j)
    BY DEF SessionInv
  <2>2. Frozen(j) => Frozen(j)'
    BY <1>1, <1>3 DEF Frozen
  <2> QED
    BY <1>1, <1>3, <2>1, <2>2 DEF CallInv
<1>4. CallInv(k)'
  <2>1. c.op = "close" => Frozen(k)'
    BY <1>1 DEF Frozen, SessionInv, RowInv
  <2> QED
    BY <1>1, <2>1 DEF CallInv
<1> QED
  BY <1>1, <1>2, <1>3, <1>4 DEF SessionInv, SessionTyped

\* A session is closed, or was closed before.
LEMMA PersistKeeps ==
  ASSUME SessionInv, NEW s \in Sessions, NEW outcome \in {"COMPLETE", "INCOMPLETE", "EXPIRED", "REVOKED"},
         NEW expected \in SUBSET Observations,
         outcome = "COMPLETE" => expected \subseteq stored[s] /\ (s \notin reopened => expected = stored[s]),
         Persist(s, outcome, expected),
         stored' = stored, known' = known, reopened' = reopened, DOMAIN call' = Calls, \A k \in Calls : Goes(k),
         \A k \in Calls : call'[k].op # "NONE" => call'[k].at = call[k].at
  PROVE  SessionInv'
<1>1. session \in [Sessions -> SessionRow] /\ session[s] \in SessionRow /\ stored[s] \in SUBSET Observations
  BY DEF SessionInv, SessionTyped
<1> DEFINE new == [session[s] EXCEPT !.state = "CLOSED", !.outcome = outcome,
                                     !.observations = stored[s], !.expected = expected]
           row == IF Closed(s) THEN session[s] ELSE new
<1>2. new \in SessionRow /\ new.state = "CLOSED" /\ new.outcome = outcome
      /\ new.accepted = session[s].accepted /\ new.observations = stored[s] /\ new.expected = expected
  BY <1>1 DEF SessionRow
<1>3. session' = [session EXCEPT ![s] = row]
  BY DEF Persist, SetSession
<1>4. row \in SessionRow /\ row.state = "CLOSED" /\ session'[s] = row
  BY <1>1, <1>2, <1>3 DEF Closed
<1>5. RowInv(s)'
  BY <1>2, <1>4 DEF SessionInv, RowInv, Closed
<1>6. /\ stored' \in [Sessions -> SUBSET Observations] /\ known' \in [Sessions -> SUBSET Observations]
      /\ \A t \in Sessions : t # s => stored'[t] = stored[t] /\ known'[t] = known[t]
      /\ stored[s] \subseteq stored'[s] /\ stored'[s] = stored[s]
  BY DEF SessionInv, SessionTyped
<1> HIDE DEF row, new
<1> QED
  BY <1>3, <1>4, <1>5, <1>6, RowMoves

\* A request begins, or comes too late and closes its session.
LEMMA RequestsKeep ==
  ASSUME SessionInv, NEW s \in Sessions, NEW k \in Calls,
         \/ \E op \in Lifecycle \cup {"close"} : ActiveSession(k, s, op, {})
         \/ \E payload \in Payloads : ActiveSession(k, s, "observe", payload)
         \/ Revoke(k, s)
  PROVE  SessionInv'
<1>1. ASSUME NEW op \in Lifecycle \cup {"close", "observe"}, NEW payload,
             payload \subseteq Observations, IsFiniteSet(payload), ActiveSession(k, s, op, payload)
      PROVE  SessionInv'
  <2>1. stored' = stored /\ known' = known /\ reopened' = reopened /\ DOMAIN call = Calls
    BY <1>1 DEF ActiveSession, SessionInv, SessionTyped
  <2>2. CASE Persist(s, "EXPIRED", {}) /\ call' = call
    BY <2>1, <2>2, PersistKeeps DEF Goes, SessionOf
  <2>3. CASE session' = session /\ call' = call
    BY <2>1, <2>3, SameRows DEF SessionOf
  <2>4. CASE /\ session' = session /\ session[s].state \in AllowedStates(op)
             /\ call' = [call EXCEPT ![k] = [op |-> op, at |-> "READ", session |-> s, row |-> session[s],
                                             payload |-> payload, expected |-> known[s]]]
    <3> DEFINE c == [op |-> op, at |-> "READ", session |-> s, row |-> session[s],
                     payload |-> payload, expected |-> known[s]]
    <3>1. /\ c.op = op /\ c.session = s /\ c.at = "READ" /\ c.payload = payload
          /\ c.row = session[s] /\ c.expected = known[s]
      OBVIOUS
    <3>2. op = "close" => session[s].state = "DRAIN"
      BY <2>4 DEF AllowedStates
    <3>3. call' = [call EXCEPT ![k] = c] /\ session' = session
      BY <2>4
    <3> HIDE DEF c
    <3>4. /\ c.session = s /\ c.at # "ANSWER" /\ c.payload \subseteq Observations /\ IsFiniteSet(c.payload)
          /\ c.op = "close" => /\ session[s].state = "DRAIN" /\ c.row.accepted = session[s].accepted
                               /\ c.expected = known[s]
      BY <1>1, <3>1, <3>2
    <3> QED
      BY <2>1, <3>3, <3>4, Begins
  <2> QED
    BY <1>1, <2>2, <2>3, <2>4 DEF ActiveSession
<1>2. ASSUME Revoke(k, s)
      PROVE  SessionInv'
  <2> DEFINE c == [NoCall EXCEPT !.op = "revoke", !.at = "READ", !.session = s]
  <2>1. c.op = "revoke" /\ c.session = s /\ c.at = "READ" /\ c.payload = {}
    BY DEF NoCall
  <2>2. /\ session' = session /\ stored' = stored /\ known' = known /\ reopened' = reopened
        /\ call' = [call EXCEPT ![k] = c]
    BY <1>2 DEF Revoke
  <2> HIDE DEF c
  <2> QED
    BY <2>1, <2>2, FS_EmptySet, Begins
<1> QED
  BY <1>1, <1>2, FS_EmptySet, SessionAssumption

\* A request returns, or its handler goes on without touching a row.
LEMMA Moves ==
  ASSUME SessionInv, NEW k \in Calls, call[k].op # "NONE", NEW next, Return(k) \/ GoOn(k, next)
  PROVE  /\ DOMAIN call' = Calls /\ \A j \in Calls : Goes(j)
         /\ \A j \in Calls : j # k => call'[j] = call[j]
         /\ Return(k) => call'[k].op = "NONE"
         /\ GoOn(k, next) => (call'[k].at = call[k].at \/ call'[k].at = next)
<1>1. DOMAIN call = Calls
  BY DEF SessionInv, SessionTyped
<1>2. \A j \in Calls : j # k => call'[j] = call[j] /\ SessionOf(j)' = SessionOf(j)
  BY <1>1 DEF Return, GoOn, SessionOf
<1>3. Return(k) => call'[k] = NoCall
  BY <1>1 DEF Return
<1>4. GoOn(k, next) => call'[k] = [call[k] EXCEPT !.at = next]
  BY <1>1 DEF GoOn
<1>5. /\ [call[k] EXCEPT !.at = next].op = call[k].op /\ [call[k] EXCEPT !.at = next].session = call[k].session
      /\ [call[k] EXCEPT !.at = next].row = call[k].row /\ [call[k] EXCEPT !.at = next].payload = call[k].payload
      /\ [call[k] EXCEPT !.at = next].expected = call[k].expected
      /\ ([call[k] EXCEPT !.at = next].at = call[k].at \/ [call[k] EXCEPT !.at = next].at = next)
  OBVIOUS
<1>6. NoCall.op = "NONE"
  BY DEF NoCall
<1>7. Goes(k)
  BY <1>3, <1>4, <1>5, <1>6 DEF Goes, SessionOf
<1>8. DOMAIN call' = Calls
  BY <1>1 DEF Return, GoOn
<1>9. \A j \in Calls : j # k => Goes(j)
  BY <1>2 DEF Goes
<1>10. GoOn(k, next) => (call'[k].at = call[k].at \/ call'[k].at = next)
  BY <1>4, <1>5
<1> QED
  BY <1>2, <1>3, <1>6, <1>7, <1>8, <1>9, <1>10

\* mark_ready and begin_drain write to a row that is not the one they have read: what
\* was frozen by then is opened again.
LEMMA LifecycleKeeps ==
  ASSUME SessionInv, NEW k \in Calls, WriteReady(k) \/ WriteDrain(k)
  PROVE  SessionInv'
<1>1. call[k].op # "NONE" /\ Return(k) /\ stored' = stored /\ known' = known
  BY DEF WriteReady, WriteDrain, At
<1>2. PICK s \in Sessions : s = SessionOf(k) /\ session[s] \in SessionRow /\ RowInv(s)
  BY <1>1 DEF SessionInv, CallInv, SessionTyped
<1>3. /\ DOMAIN call' = Calls /\ call'[k].op = "NONE" /\ \A j \in Calls : Goes(j)
      /\ \A j \in Calls : j # k => call'[j] = call[j]
  BY <1>1, Moves
<1>4. CASE session' = session /\ reopened' = reopened
  BY <1>1, <1>3, <1>4, SameRows DEF Goes
<1>5. ASSUME NEW state, NEW later, SetState(k, state, later),
             \/ state = "READY" /\ later = {"DRAIN", "CLOSED"}
             \/ state = "DRAIN" /\ later = {"CLOSED"}
      PROVE  SessionInv'
  <2> DEFINE row == [session[s] EXCEPT !.state = state]
  <2>1. /\ row \in SessionRow /\ row.state = state /\ row.outcome = session[s].outcome
        /\ row.accepted = session[s].accepted /\ row.observations = session[s].observations
        /\ row.expected = session[s].expected
    BY <1>2, <1>5 DEF SessionRow
  <2>2. session' = [session EXCEPT ![s] = row] /\ session'[s] = row
    BY <1>2, <1>5 DEF SetState, SetSession, SessionInv, SessionTyped
  <2> HIDE DEF row
  <2>3. reopened \subseteq reopened' /\ (s \notin reopened' => s \notin reopened /\ session[s].state \notin later)
    BY <1>2, <1>5 DEF SetState
  <2>4. RowInv(s)'
    <3>1. s \notin reopened' => session[s].outcome = "NONE"
      BY <1>2, <1>5, <2>3 DEF RowInv
    <3>2. row.state # "CLOSED" /\ row.state # "NONE"
      BY <1>5, <2>1
    <3> QED
      BY <1>1, <1>2, <2>1, <2>2, <2>3, <3>1, <3>2 DEF RowInv
  <2>5. \A j \in Calls : call'[j].op # "NONE" => j # k /\ call'[j] = call[j]
    BY <1>3
  <2>6. ASSUME NEW j \in Calls, call'[j].op = "close", SessionOf(j) = s, s \notin reopened'
        PROVE  row.state \in {"DRAIN", "CLOSED"}
    <3>1. session[s].state \in {"DRAIN", "CLOSED"}
      BY <2>3, <2>5, <2>6 DEF SessionInv, CallInv, Frozen
    <3> QED
      BY <1>5, <2>1, <2>3, <2>6, <3>1
  <2>7. stored \in [Sessions -> SUBSET Observations] /\ known \in [Sessions -> SUBSET Observations]
    BY DEF SessionInv, SessionTyped
  <2> QED
    BY <1>1, <1>3, <2>1, <2>2, <2>3, <2>4, <2>5, <2>6, <2>7, RowMoves
<1>6. CASE WriteReady(k)
  BY <1>4, <1>5, <1>6 DEF WriteReady
<1>7. CASE WriteDrain(k)
  BY <1>4, <1>5, <1>7 DEF WriteDrain
<1> QED
  BY <1>6, <1>7

\* close and revoke end the session; close has counted what is stored.
LEMMA EndingsKeep ==
  ASSUME SessionInv, NEW k \in Calls, WriteClose(k) \/ WriteRevoke(k)
  PROVE  SessionInv'
<1>1. /\ call[k].op \in {"close", "revoke"} /\ Return(k) /\ stored' = stored /\ known' = known /\ reopened' = reopened
  BY DEF WriteClose, WriteRevoke, At
<1>2. PICK s \in Sessions : s = SessionOf(k) /\ RowInv(s) /\ CallInv(k) /\ stored[s] \subseteq Observations
  BY <1>1 DEF SessionInv, CallInv, SessionTyped
<1>3. /\ DOMAIN call' = Calls /\ call'[k].op = "NONE" /\ \A j \in Calls : Goes(j)
      /\ \A j \in Calls : j # k => call'[j] = call[j]
  BY <1>1, Moves
<1>5. CASE WriteRevoke(k)
  <2>1. Persist(s, "REVOKED", {})
    BY <1>2, <1>5 DEF WriteRevoke
  <2> QED
    BY <1>1, <1>2, <1>3, <2>1, PersistKeeps
<1>6. CASE WriteClose(k)
  <2>1. Frozen(k)
    BY <1>2, <1>6 DEF WriteClose, At, CallInv
  <2>2. call[k].expected \subseteq stored[s]
    BY <1>2, <2>1 DEF Frozen
  <2>3. Complete(k) /\ s \notin reopened => call[k].expected = stored[s]
    <3>1. IsFiniteSet(stored[s]) /\ (Complete(k) /\ s \notin reopened => Cardinality(call[k].expected) = Cardinality(stored[s]))
      BY <1>2, <2>1 DEF Complete, Frozen, RowInv
    <3> QED
      BY <2>2, <3>1, FS_Subset
  <2>4. PICK drained \in BOOLEAN :
          Persist(s, IF Complete(k) /\ drained THEN "COMPLETE" ELSE "INCOMPLETE", call[k].expected)
    BY <1>2, <1>6 DEF WriteClose
  <2> DEFINE outcome == IF Complete(k) /\ drained THEN "COMPLETE" ELSE "INCOMPLETE"
  <2>5. /\ outcome \in {"COMPLETE", "INCOMPLETE", "EXPIRED", "REVOKED"}
        /\ outcome = "COMPLETE" => /\ call[k].expected \subseteq stored[s]
                                   /\ s \notin reopened => call[k].expected = stored[s]
    BY <2>2, <2>3
  <2>6. Persist(s, outcome, call[k].expected) /\ call[k].expected \in SUBSET Observations
    BY <1>2, <2>2, <2>4
  <2> HIDE DEF outcome
  <2> QED
    BY <1>1, <1>2, <1>3, <2>5, <2>6, PersistKeeps
<1> QED
  BY <1>5, <1>6

\* observe: what is stored is counted, and what was refused too.
LEMMA ObserveKeeps ==
  ASSUME SessionInv, NEW k \in Calls,
         Parse(k) \/ Escape(k) \/ StoreObservations(k) \/ Reject(k) \/ Answer(k)
  PROVE  SessionInv'
<1>1. call[k].op = "observe" /\ reopened' = reopened
  BY DEF Parse, Escape, StoreObservations, Reject, Answer, At
<1>2. PICK s \in Sessions :
        /\ s = SessionOf(k) /\ session[s] \in SessionRow /\ RowInv(s) /\ CallInv(k)
        /\ call[k].payload \subseteq Observations /\ IsFiniteSet(call[k].payload)
  BY <1>1 DEF SessionInv, CallInv, SessionTyped
<1>3. /\ stored \in [Sessions -> SUBSET Observations] /\ known \in [Sessions -> SUBSET Observations]
      /\ session \in [Sessions -> SessionRow]
  BY DEF SessionInv, SessionTyped
<1>4. ASSUME NEW next, Return(k) \/ GoOn(k, next)
      PROVE  /\ DOMAIN call' = Calls /\ \A j \in Calls : Goes(j)
             /\ \A j \in Calls : j # k => call'[j] = call[j]
             /\ Return(k) => call'[k].op = "NONE"
             /\ GoOn(k, next) => (call'[k].at = call[k].at \/ call'[k].at = next)
  BY <1>1, <1>4, Moves
<1>5. CASE Parse(k)
  <2>1. PICK next \in {"STORE", "REJECT"} : GoOn(k, next)
    BY <1>5 DEF Parse
  <2>2. session' = session /\ stored' = stored /\ known' = known
    BY <1>5 DEF Parse
  <2> QED
    BY <1>1, <1>4, <2>1, <2>2, SameRows DEF Goes
<1>10. CASE Escape(k)
  <2>1. session' = session /\ stored' = stored /\ known' = known /\ Return(k)
    BY <1>10 DEF Escape
  <2> QED
    BY <1>1, <1>4, <2>1, SameRows DEF Goes
<1>6. CASE Reject(k)
  <2> DEFINE row == [session[s] EXCEPT !.rejected = @ + 1]
  <2>1. /\ row \in SessionRow /\ row.state = session[s].state /\ row.outcome = session[s].outcome
        /\ row.accepted = session[s].accepted /\ row.observations = session[s].observations
        /\ row.expected = session[s].expected
    BY <1>2 DEF SessionRow
  <2>2. session' = [session EXCEPT ![s] = row] /\ session'[s] = row /\ stored' = stored /\ known' = known /\ Return(k)
    BY <1>2, <1>3, <1>6 DEF Reject, SetSession
  <2> HIDE DEF row
  <2>3. RowInv(s)'
    BY <1>1, <1>2, <2>1, <2>2 DEF RowInv
  <2>4. \A j \in Calls : call'[j].op # "NONE" => j # k /\ call'[j] = call[j]
    BY <1>4, <2>2
  <2>5. \A j \in Calls : call'[j].op = "close" /\ SessionOf(j) = s /\ s \notin reopened =>
          row.state \in {"DRAIN", "CLOSED"}
    BY <2>1, <2>4 DEF SessionInv, CallInv, Frozen
  <2> QED
    BY <1>1, <1>2, <1>3, <1>4, <2>1, <2>2, <2>3, <2>4, <2>5, RowMoves
<1>7. CASE StoreObservations(k) /\ ~(InOrder(k) /\ Accepting(k))
  <2>1. session' = session /\ stored' = stored /\ known' = known /\ GoOn(k, "REJECT")
    BY <1>7 DEF StoreObservations
  <2> QED
    BY <1>1, <1>4, <2>1, SameRows DEF Goes
<1>8. CASE StoreObservations(k) /\ InOrder(k) /\ Accepting(k)
  <2> DEFINE new == Pending(k)
             row == [session[s] EXCEPT !.state = IF new # {} THEN "OBSERVING" ELSE @,
                                       !.accepted = @ + Cardinality(new)]
  <2>1. /\ session' = [session EXCEPT ![s] = row] /\ stored' = [stored EXCEPT ![s] = @ \cup new]
        /\ known' = known /\ GoOn(k, "ANSWER") /\ (new # {} => session[s].state \in {"READY", "OBSERVING"})
    BY <1>2, <1>8 DEF StoreObservations, SetSession, Accepting
  <2>2. new \subseteq call[k].payload /\ new \cap stored[s] = {} /\ call[k].payload \subseteq stored[s] \cup new
    BY <1>2 DEF Pending
  <2>3. IsFiniteSet(new) /\ Cardinality(new) \in Nat
    BY <1>2, <2>2, FS_Subset, FS_CardinalityType
  <2>4. new = {} => Cardinality(new) = 0
    BY FS_EmptySet
  <2>5. IsFiniteSet(stored[s] \cup new) /\ Cardinality(stored[s] \cup new) = Cardinality(stored[s]) + Cardinality(new)
    <3>1. IsFiniteSet(stored[s]) /\ Cardinality(stored[s] \cap new) = 0
      BY <1>2, <2>2, FS_EmptySet DEF RowInv
    <3>2. Cardinality(stored[s]) \in Nat
      BY <3>1, FS_CardinalityType
    <3>3. /\ IsFiniteSet(stored[s] \cup new)
          /\ Cardinality(stored[s] \cup new) = Cardinality(stored[s]) + Cardinality(new) - Cardinality(stored[s] \cap new)
      BY <2>3, <3>1, FS_Union
    <3> QED
      BY <2>3, <3>1, <3>2, <3>3
  <2> HIDE DEF new
  <2>6. /\ row \in SessionRow /\ row.outcome = session[s].outcome
        /\ row.state = (IF new # {} THEN "OBSERVING" ELSE session[s].state)
        /\ row.accepted = session[s].accepted + Cardinality(new) /\ row.observations = session[s].observations
        /\ row.expected = session[s].expected
    <3>1. session[s].accepted + Cardinality(new) \in Nat
      BY <1>2, <2>3 DEF SessionRow
    <3> QED
      BY <1>2, <3>1 DEF SessionRow
  <2> HIDE DEF row
  <2>7. session'[s] = row /\ stored'[s] = stored[s] \cup new /\ \A t \in Sessions : t # s => stored'[t] = stored[t]
    BY <1>3, <2>1
  <2>8. RowInv(s)'
    BY <1>1, <1>2, <2>1, <2>5, <2>6, <2>7 DEF RowInv
  <2>9. /\ DOMAIN call' = Calls /\ (\A j \in Calls : Goes(j)) /\ \A j \in Calls : j # k => call'[j] = call[j]
    BY <1>4, <2>1
  <2>10. call'[k].op # "NONE" => call'[k].payload \subseteq stored'[SessionOf(k)]
    BY <1>2, <2>2, <2>7, <2>9 DEF Goes
  <2>11. \A j \in Calls : call'[j].op = "close" /\ SessionOf(j) = s /\ s \notin reopened =>
           row.state \in {"DRAIN", "CLOSED"} /\ stored'[s] = stored[s]
    <3> SUFFICES ASSUME NEW j \in Calls, call'[j].op = "close", SessionOf(j) = s, s \notin reopened
                 PROVE  row.state \in {"DRAIN", "CLOSED"} /\ stored'[s] = stored[s]
      OBVIOUS
    <3>1. call[j].op = "close"
      BY <2>9 DEF Goes
    <3>2. session[s].state \in {"DRAIN", "CLOSED"}
      BY <3>1 DEF SessionInv, CallInv, Frozen
    <3> QED
      BY <2>1, <2>6, <2>7, <3>2
  <2>12. stored' \in [Sessions -> SUBSET Observations]
    BY <1>2, <1>3, <2>1, <2>2
  <2>13. \A j \in Calls : call'[j].op # "NONE" /\ call'[j].at = "ANSWER" =>
           call[j].at = "ANSWER" \/ call'[j].payload \subseteq stored'[SessionOf(j)]
    BY <2>9, <2>10
  <2> QED
    BY <1>1, <1>3, <2>1, <2>6, <2>7, <2>8, <2>9, <2>11, <2>12, <2>13, RowMoves
<1>9. CASE Answer(k)
  <2>1. /\ session' = session /\ stored' = stored /\ Return(k) /\ call[k].payload \subseteq stored[s]
        /\ known' = known \/ known' = [known EXCEPT ![s] = @ \cup call[k].payload]
    BY <1>1, <1>2, <1>9 DEF Answer, At, CallInv
  <2>2. /\ known' \in [Sessions -> SUBSET Observations] /\ \A t \in Sessions : t # s => known'[t] = known[t]
        /\ known'[s] \subseteq known[s] \cup call[k].payload
    BY <1>2, <1>3, <2>1
  <2>3. RowInv(s)'
    BY <1>1, <1>2, <2>1, <2>2 DEF RowInv
  <2>4. session' = [session EXCEPT ![s] = session[s]]
    BY <1>3, <2>1
  <2>5. \A j \in Calls : call'[j].op # "NONE" => j # k /\ call'[j] = call[j]
    BY <1>4, <2>1
  <2>6. \A j \in Calls : call'[j].op = "close" /\ SessionOf(j) = s /\ s \notin reopened =>
          session[s].state \in {"DRAIN", "CLOSED"}
    BY <2>5 DEF SessionInv, CallInv, Frozen
  <2> QED
    BY <1>1, <1>2, <1>3, <1>4, <2>1, <2>2, <2>3, <2>4, <2>5, <2>6, RowMoves, ZenonT(30)
<1> QED
  BY <1>5, <1>6, <1>7, <1>8, <1>9, <1>10

LEMMA SessionStepKeeps == SessionInv /\ SessionNext => SessionInv'
BY GrantsKeep, RequestsKeep, LifecycleKeeps, ObserveKeeps, EndingsKeep DEF SessionNext

LEMMA SessionRestKeeps == SessionInv /\ UNCHANGED sessionVars => SessionInv'
BY DEF sessionVars, SessionInv, SessionTyped, RowInv, CallInv, Frozen, SessionOf

LEMMA SessionInvariant == Spec => []SessionInv
<1>1. Init => SessionInv
  BY SessionInitInvariant DEF Init
<1>2. SessionInv /\ [Next]_planeVars => SessionInv'
  BY SessionRestKeeps, SessionStepKeeps DEF Next, planeVars
<1> QED
  BY <1>1, <1>2, PTL DEF Spec

\* A closed session is left alone by every step that does not open it again.
LEMMA ClosedStay ==
  ASSUME SessionInv, [SessionNext]_sessionVars, NEW s \in Sessions, session[s].outcome # "NONE", s \notin reopened'
  PROVE  stored'[s] = stored[s] /\ session'[s].outcome = session[s].outcome
<1> DEFINE Same == stored'[s] = stored[s] /\ session'[s].outcome = session[s].outcome
<1>1. /\ session[s].state = "CLOSED" /\ Closed(s)
      /\ session \in [Sessions -> SessionRow] /\ stored \in [Sessions -> SUBSET Observations]
  <2>1. s \notin reopened
    BY DEF SessionNext, GrantSession, SessionDue, ActiveSession, Revoke, WriteReady, WriteDrain, SetState,
           Parse, Escape, StoreObservations, Reject, Answer, WriteClose, WriteRevoke, sessionVars
  <2> QED
    BY <2>1 DEF SessionInv, RowInv, Closed, SessionTyped
<1>2. CASE session' = session /\ stored' = stored
  BY <1>2
<1>3. ASSUME NEW t, NEW outcome, NEW expected, Persist(t, outcome, expected), stored' = stored
      PROVE  Same
  <2>1. CASE t = s
    BY <1>1, <1>3, <2>1 DEF Persist, SetSession
  <2>2. CASE t # s
    BY <1>1, <1>3, <2>2 DEF Persist, SetSession
  <2> QED
    BY <2>1, <2>2
<1>4. ASSUME NEW t \in Sessions, GrantSession(t) \/ SessionDue(t)
      PROVE  Same
  BY <1>1, <1>2, <1>4 DEF GrantSession, SessionDue, SetSession
<1>5. ASSUME NEW k \in Calls, NEW t \in Sessions, NEW op, NEW payload, ActiveSession(k, t, op, payload)
      PROVE  Same
  BY <1>2, <1>3, <1>5 DEF ActiveSession
<1>6. ASSUME NEW k \in Calls, NEW t \in Sessions, Revoke(k, t)
      PROVE  Same
  BY <1>2, <1>6 DEF Revoke
<1>7. ASSUME NEW k \in Calls, WriteReady(k) \/ WriteDrain(k)
      PROVE  Same
  BY <1>1, <1>7 DEF WriteReady, WriteDrain, SetState, SetSession, SessionRow
<1>8. ASSUME NEW k \in Calls, StoreObservations(k), InOrder(k) /\ Accepting(k)
      PROVE  Same
  <2> DEFINE t == SessionOf(k)
  <2>1. CASE t # s
    BY <1>1, <1>8, <2>1 DEF StoreObservations, SetSession
  <2>2. CASE t = s
    <3>1. Pending(k) = {}
      BY <1>1, <1>8, <2>2 DEF Accepting
    <3>2. stored' = [stored EXCEPT ![t] = @ \cup Pending(k)]
      BY <1>8 DEF StoreObservations
    <3>3. stored'[s] = stored[s]
      BY <1>1, <2>2, <3>1, <3>2
    <3>4. session' = [session EXCEPT ![t] = [session[t] EXCEPT
               !.state = IF Pending(k) # {} THEN "OBSERVING" ELSE @,
               !.accepted = @ + Cardinality(Pending(k))]]
      BY <1>8 DEF StoreObservations, SetSession
    <3>5. session'[s].outcome = session[s].outcome
      BY <1>1, <2>2, <3>4 DEF SessionRow
    <3> QED
      BY <3>3, <3>5
  <2> QED
    BY <2>1, <2>2
<1>9. ASSUME NEW k \in Calls, Reject(k)
      PROVE  Same
  BY <1>1, <1>9 DEF Reject, SetSession, SessionRow
<1>10. ASSUME NEW k \in Calls,
              \/ Parse(k) \/ Escape(k) \/ Answer(k)
              \/ StoreObservations(k) /\ ~(InOrder(k) /\ Accepting(k))
       PROVE  Same
  BY <1>2, <1>10 DEF Parse, Escape, Answer, StoreObservations
<1>11. ASSUME NEW k \in Calls, WriteClose(k) \/ WriteRevoke(k)
       PROVE  Same
  BY <1>3, <1>11 DEF WriteClose, WriteRevoke
<1>12. CASE UNCHANGED sessionVars
  BY <1>2, <1>12 DEF sessionVars
<1> HIDE DEF Same
<1>13. ASSUME SessionNext
       PROVE  Same
  BY <1>4, <1>5, <1>6, <1>7, <1>8, <1>9, <1>10, <1>11, <1>13 DEF SessionNext
<1> QED
  BY <1>12, <1>13 DEF Same

\* What has ended stays ended, a session or a lease: a session that no late request opens
\* again takes nothing more and keeps its outcome, and no lease is active again.
THEOREM EndedForGood == Spec => EndedStaysEnded
<1> DEFINE Same == \A s \in Sessions : session[s].outcome # "NONE" /\ s \notin reopened' =>
                     stored'[s] = stored[s] /\ session'[s].outcome = session[s].outcome
<1>1. SessionInv /\ [Next]_planeVars => [Same]_sessionVars
  <2>1. [Next]_planeVars => [SessionNext]_sessionVars
    BY DEF Next, planeVars, sessionVars
  <2> QED
    BY <2>1, ClosedStay
<1>2. Spec => []SessionInv
  BY SessionInvariant
<1>3. Spec => [][Same]_sessionVars
  BY <1>1, <1>2, PTL DEF Spec
<1>4. Spec => EndedAcceptsNothing
  BY <1>3 DEF EndedAcceptsNothing
<1> QED
  BY <1>4, EndedLeasesNeverReturn DEF EndedStaysEnded

-----------------------------------------------------------------------------
(* The producer.                                                           *)

\* The ranks of the members of a finite set of numbers are 1 to their number, so that
\* Nth enumerates the set.
LEMMA RanksEnumerate ==
  ASSUME NEW set \in SUBSET Nat, IsFiniteSet(set)
  PROVE  /\ \A n \in 1..Cardinality(set) : Nth(set, n) \in set
         /\ \A i \in set : Rank(set, i) \in 1..Cardinality(set) /\ Nth(set, Rank(set, i)) = i
<1> DEFINE Below(i) == {j \in set : j =< i}
<1>1. ASSUME NEW i \in set
      PROVE  IsFiniteSet(Below(i)) /\ Below(i) \subseteq set /\ Cardinality(Below(i)) \in 1..Cardinality(set)
  <2>1. IsFiniteSet(Below(i)) /\ Cardinality(Below(i)) =< Cardinality(set)
    BY FS_Subset
  <2>2. Cardinality(Below(i)) \in Nat /\ Cardinality(set) \in Nat
    BY <2>1, FS_CardinalityType
  <2>3. i \in Below(i)
    OBVIOUS
  <2>4. Cardinality(Below(i)) # 0
    BY <2>1, <2>3, FS_EmptySet
  <2> QED
    BY <2>1, <2>2, <2>4
<1>2. ASSUME NEW i \in set, NEW j \in set, i < j
      PROVE  Cardinality(Below(i)) # Cardinality(Below(j))
  <2>1. Below(i) \subseteq Below(j) /\ j \in Below(j) /\ j \notin Below(i)
    <3>1. set \subseteq Nat
      OBVIOUS
    <3>2. i \in Nat /\ j \in Nat /\ i < j
      BY <1>2, <3>1
    <3>3. ASSUME NEW m \in set, m =< i
          PROVE  m =< j
      BY <3>1, <3>2, <3>3
    <3>4. j =< j /\ ~(j =< i)
      BY <3>2
    <3> QED
      BY <3>3, <3>4
  <2> QED
    BY <1>1, <2>1, FS_Subset
<1>3. \A i \in set : Rank(set, i) = Cardinality(Below(i))
  BY DEF Rank
<1> HIDE DEF Below
<1>4. \A i \in set, j \in set : Rank(set, i) = Rank(set, j) => i = j
  <2> SUFFICES ASSUME NEW i \in set, NEW j \in set, i # j
               PROVE  Rank(set, i) # Rank(set, j)
    OBVIOUS
  <2>1. i < j \/ j < i
    OBVIOUS
  <2> QED
    BY <1>2, <1>3, <2>1
<1> DEFINE R == [i \in set |-> Rank(set, i)]
           N == 1..Cardinality(set)
<1>5. R \in [set -> N] /\ \A i \in set : R[i] = Rank(set, i)
  BY <1>1, <1>3
<1>6. R \in Injection(set, N)
  BY <1>4, <1>5, Fun_IsInj
<1>7. Range(R) = N
  <2>1. Range(R) \subseteq N
    BY <1>5 DEF Range
  <2>2. R \in Bijection(set, Range(R))
    BY <1>6, Fun_InjMeansBijImage
  <2>3. ExistsBijection(set, Range(R))
    BY <2>2 DEF ExistsBijection
  <2>4. Cardinality(Range(R)) = Cardinality(set)
    BY <2>3, FS_Bijection
  <2>5. Cardinality(set) \in Nat
    BY FS_CardinalityType
  <2>6. IsFiniteSet(N) /\ Cardinality(N) = Cardinality(set)
    BY <2>5, FS_Interval
  <2> QED
    BY <2>1, <2>4, <2>6, FS_Subset
<1>8. \A n \in N : \E i \in set : Rank(set, i) = n
  BY <1>5, <1>7 DEF Range
<1> HIDE DEF N, R
<1>9. \A n \in N : Nth(set, n) \in set /\ Rank(set, Nth(set, n)) = n
  BY <1>8 DEF Nth
<1>10. \A i \in set : Rank(set, i) \in N
  BY <1>1, <1>3 DEF N
<1> QED
  BY <1>4, <1>9, <1>10 DEF N

Record == [payload : Nat, retries : Nat]
Counts == [Counters -> Nat]
Losses == Counters \ {"accepted", "drained"}

ProducerTyped ==
  /\ buffer \in Seq(Record) /\ batch \in Seq(Record)
  /\ count \in Counts /\ deferred \in Counts
  /\ thread \in [Threads -> Nat] /\ handed \in Nat

\* The flusher sends what is at the head of the queue.
BatchIsPrefix == Len(batch) =< Len(buffer) /\ \A i \in 1..Len(batch) : batch[i] = buffer[i]

\* A payload whose enqueue has returned has arrived, or waits in the queue, or some loss
\* is counted, unless a restart forgot it.
Queued(p) == \E i \in 1..Len(buffer) : buffer[i].payload = p
Lossy == \E c \in Losses : count[c] + deferred[c] > 0
Accounted == \A p \in returned \ forgotten : p \in received \/ Queued(p) \/ Lossy
Balanced == Balances(Plus(count, deferred), Len(buffer))
Flow == ProducerTyped /\ BatchIsPrefix /\ Balanced /\ Accounted /\ CompleteMeansDelivered

\* So it is for the payloads of the snapshot, whose buffer is lost for who starts from it.
SavedAccounted ==
  \A p \in saved.payloads \ forgotten :
    p \in received \/ saved.buffered > 0 \/ \E c \in Losses : saved.count[c] > 0
SavedFlow ==
  /\ saved.count \in Counts /\ saved.buffered \in Nat
  /\ Balances(saved.count, saved.buffered) /\ SavedAccounted

ProducerInv == Flow /\ SavedFlow

LEMMA CountTypes ==
  /\ Zero \in Counts /\ \A c \in Counters : Zero[c] = 0
  /\ \A some : Once(some) \in Counts /\ \A c \in Counters : Once(some)[c] = IF c \in some THEN 1 ELSE 0
  /\ \A a \in Counts, b \in Counts : Plus(a, b) \in Counts /\ \A c \in Counters : Plus(a, b)[c] = a[c] + b[c]
  /\ \A c \in Counters, n \in Nat : Times(c, n) \in Counts /\ \A d \in Counters : Times(c, n)[d] = IF d = c THEN n ELSE 0
<1>1. Zero \in Counts /\ \A c \in Counters : Zero[c] = 0
  BY DEF Zero, Counts
<1>2. ASSUME NEW a \in Counts, NEW b \in Counts
      PROVE  Plus(a, b) \in Counts /\ \A c \in Counters : Plus(a, b)[c] = a[c] + b[c]
  <2>1. \A c \in Counters : a[c] \in Nat /\ b[c] \in Nat /\ a[c] + b[c] \in Nat
    BY DEF Counts
  <2> QED
    BY <2>1 DEF Plus, Counts
<1>3. ASSUME NEW some
      PROVE  Once(some) \in Counts /\ \A c \in Counters : Once(some)[c] = IF c \in some THEN 1 ELSE 0
  BY DEF Once, Counts
<1>4. ASSUME NEW c \in Counters, NEW n \in Nat
      PROVE  Times(c, n) \in Counts /\ \A d \in Counters : Times(c, n)[d] = IF d = c THEN n ELSE 0
  BY DEF Times, Zero, Counts
<1> QED
  BY <1>1, <1>2, <1>3, <1>4

\* Counted at once or later, a count is in the sum of both.
LEMMA Counting ==
  ASSUME ProducerTyped, NEW more \in Counts,
         \/ Count(more) \/ \E some : more = Once(some) /\ Defer(some)
         \/ more = Zero /\ UNCHANGED <<count, deferred>>
  PROVE  /\ count' \in Counts /\ deferred' \in Counts
         /\ \A c \in Counters : count'[c] + deferred'[c] = count[c] + deferred[c] + more[c]
<1>1. count \in Counts /\ deferred \in Counts
  BY DEF ProducerTyped
<1>2. \A c \in Counters : count[c] \in Nat /\ deferred[c] \in Nat /\ more[c] \in Nat
  BY <1>1 DEF Counts
<1>3. CASE Count(more)
  <2>1. Plus(count, deferred) \in Counts /\ \A c \in Counters : Plus(count, deferred)[c] = count[c] + deferred[c]
    BY <1>1, CountTypes
  <2>2. /\ count' \in Counts /\ \A c \in Counters : count'[c] = count[c] + deferred[c] + more[c]
        /\ deferred' = Zero
    BY <1>3, <2>1, CountTypes DEF Count
  <2>3. deferred' \in Counts /\ \A c \in Counters : deferred'[c] = 0
    BY <2>2, CountTypes
  <2> QED
    BY <1>2, <2>2, <2>3
<1>4. CASE \E some : more = Once(some) /\ Defer(some)
  <2>1. count' = count /\ deferred' = Plus(deferred, more)
    BY <1>4 DEF Defer
  <2>2. deferred' \in Counts /\ \A c \in Counters : deferred'[c] = deferred[c] + more[c]
    BY <1>1, <2>1, CountTypes
  <2> QED
    BY <1>1, <1>2, <2>1, <2>2
<1>5. CASE more = Zero /\ UNCHANGED <<count, deferred>>
  BY <1>1, <1>2, <1>5, CountTypes
<1> QED
  BY <1>3, <1>4, <1>5

LEMMA Balance ==
  ASSUME NEW a \in Nat, NEW b \in Nat, NEW c \in Nat, NEW n \in Nat,
         NEW a1 \in Nat, NEW b1 \in Nat, NEW c1 \in Nat, NEW m \in Nat,
         a = b + c + n, a1 + n = b1 + c1 + m
  PROVE  a + a1 = (b + b1) + (c + c1) + m
OBVIOUS

LEMMA CountsAgree ==
  ASSUME NEW old \in Counts, NEW new \in Counts, NEW more \in Counts, NEW n \in Nat, NEW m \in Nat,
         \A c \in Counters : new[c] = old[c] + more[c],
         old.accepted = old.drained + old.dropped + n,
         more["accepted"] + n = more["drained"] + more["dropped"] + m
  PROVE  new.accepted = new.drained + new.dropped + m
<1>1. {"accepted", "drained", "dropped"} \subseteq Counters
  BY DEF Counters
<1>2. /\ new.accepted = old.accepted + more.accepted
      /\ new.drained = old.drained + more.drained
      /\ new.dropped = old.dropped + more.dropped
      /\ old.accepted \in Nat /\ old.drained \in Nat /\ old.dropped \in Nat
      /\ more.accepted \in Nat /\ more.drained \in Nat /\ more.dropped \in Nat
  BY <1>1 DEF Counts
<1> DEFINE a == old.accepted  b == old.drained  c == old.dropped
           a1 == more.accepted  b1 == more.drained  c1 == more.dropped
<1>3. a \in Nat /\ b \in Nat /\ c \in Nat /\ a1 \in Nat /\ b1 \in Nat /\ c1 \in Nat
  BY <1>2
<1>4. a = b + c + n /\ a1 + n = b1 + c1 + m
  OBVIOUS
<1>5. a + a1 = (b + b1) + (c + c1) + m
  <2> HIDE DEF a, b, c, a1, b1, c1
  <2> QED
    BY <1>3, <1>4, Balance
<1> QED
  BY <1>2, <1>5

\* One step of the producer: the records that enter the queue and those that leave it
\* are counted, and a payload that is neither received nor queued by then was lost.
LEMMA ProducerMoves ==
  ASSUME Flow, NEW more \in Counts,
         \/ Count(more) \/ \E some : more = Once(some) /\ Defer(some)
         \/ more = Zero /\ UNCHANGED <<count, deferred>>,
         buffer' \in Seq(Record), batch' \in Seq(Record), BatchIsPrefix',
         thread' \in [Threads -> Nat], handed' \in Nat, received \subseteq received', forgotten' = forgotten,
         more["accepted"] + Len(buffer) = more["drained"] + more["dropped"] + Len(buffer'),
         \A p \in returned' \ forgotten : \/ p \in received' \/ Queued(p)' \/ \E c \in Losses : more[c] > 0
                                          \/ p \in returned /\ ~Queued(p),
         closed' = closed \/ (closed'.outcome = "COMPLETE" => closed'.payloads \subseteq received' \cup forgotten)
  PROVE  Flow'
<1>1. /\ count' \in Counts /\ deferred' \in Counts
      /\ \A c \in Counters : count'[c] + deferred'[c] = count[c] + deferred[c] + more[c]
  BY Counting DEF Flow
<1>2. \A c \in Counters : /\ count[c] \in Nat /\ deferred[c] \in Nat /\ more[c] \in Nat
                          /\ count'[c] \in Nat /\ deferred'[c] \in Nat
  BY <1>1 DEF Flow, ProducerTyped, Counts
<1>3. Balanced'
  <2> DEFINE old == Plus(count, deferred)
             new == Plus(count', deferred')
  <2>1. old \in Counts /\ new \in Counts /\ \A c \in Counters : new[c] = old[c] + more[c]
    <3>1. old \in Counts /\ \A c \in Counters : old[c] = count[c] + deferred[c]
      BY CountTypes DEF Flow, ProducerTyped
    <3>2. new \in Counts /\ \A c \in Counters : new[c] = count'[c] + deferred'[c]
      BY <1>1, CountTypes
    <3> HIDE DEF old, new
    <3> QED
      BY <1>1, <3>1, <3>2
  <2>2. Len(buffer) \in Nat /\ Len(buffer') \in Nat
    BY DEF Flow, ProducerTyped
  <2>3. old.accepted = old.drained + old.dropped + Len(buffer)
    BY DEF Flow, Balanced, Balances
  <2> HIDE DEF old, new
  <2>4. new.accepted = new.drained + new.dropped + Len(buffer')
    BY <2>1, <2>2, <2>3, CountsAgree
  <2> QED
    BY <2>4 DEF Balanced, Balances, new
<1>l. ASSUME NEW c \in Losses, count[c] + deferred[c] > 0 \/ more[c] > 0
      PROVE  count'[c] + deferred'[c] > 0
  <2>1. PICK d \in Counters : d = c
    BY DEF Losses
  <2>2. count'[d] + deferred'[d] = count[d] + deferred[d] + more[d]
    BY <1>1
  <2>3. count[d] \in Nat /\ deferred[d] \in Nat /\ more[d] \in Nat
    BY <1>2
  <2> QED
    BY <1>l, <2>1, <2>2, <2>3
<1>4. Lossy => Lossy'
  BY <1>l DEF Lossy
<1>5. (\E c \in Losses : more[c] > 0) => Lossy'
  BY <1>l DEF Lossy
<1>6. Accounted'
  BY <1>4, <1>5 DEF Flow, Accounted
<1>7. CompleteMeansDelivered'
  BY DEF Flow, CompleteMeansDelivered
<1> QED
  BY <1>1, <1>3, <1>6, <1>7 DEF Flow, ProducerTyped

\* A step that takes no snapshot leaves the last one as true as it was.
LEMMA SavedStays ==
  ASSUME SavedFlow, saved' = saved, received \subseteq received', forgotten \subseteq forgotten'
  PROVE  SavedFlow'
<1>1. SavedAccounted'
  BY DEF SavedFlow, SavedAccounted
<1> QED
  BY <1>1 DEF SavedFlow

LEMMA ProducerInitInvariant == ProducerInit => ProducerInv
<1> SUFFICES ASSUME ProducerInit
             PROVE  ProducerInv
  OBVIOUS
<1>1. buffer = << >> /\ batch = << >> /\ Len(buffer) = 0 /\ count = Zero /\ deferred = Zero
  BY DEF ProducerInit
<1>2. ProducerTyped /\ BatchIsPrefix
  BY <1>1, CountTypes DEF ProducerInit, ProducerTyped, BatchIsPrefix
<1>3. Balanced
  BY <1>1, CountTypes DEF Balanced, Balances, Counters
<1>4. Accounted /\ CompleteMeansDelivered
  BY DEF ProducerInit, Accounted, CompleteMeansDelivered, NotClosed
<1>5. SavedFlow
  BY CountTypes DEF ProducerInit, NoSnapshot, SavedFlow, SavedAccounted, Balances, Counters
<1> QED
  BY <1>2, <1>3, <1>4, <1>5 DEF ProducerInv, Flow

\* What the threads of the application do.
LEMMA ThreadsKeep ==
  ASSUME Flow, NEW t \in Threads, Enqueue(t) \/ AppendRecord(t) \/ QueueBusy(t)
  PROVE  Flow'
<1>1. /\ buffer \in Seq(Record) /\ batch \in Seq(Record) /\ Len(buffer) \in Nat /\ Len(batch) \in Nat
      /\ thread \in [Threads -> Nat] /\ thread[t] \in Nat /\ handed \in Nat
      /\ BatchIsPrefix
  BY DEF Flow, ProducerTyped
<1>2. CASE Enqueue(t)
  <2>1. /\ handed' = handed + 1 /\ handed' \in Nat /\ buffer' = buffer /\ batch' = batch
        /\ received' = received /\ closed' = closed /\ forgotten' = forgotten
    BY <1>1, <1>2 DEF Enqueue
  <2>2. BatchIsPrefix'
    BY <1>1, <2>1 DEF BatchIsPrefix
  <2>3. CASE thread' = [thread EXCEPT ![t] = handed'] /\ UNCHANGED <<count, deferred, returned>>
    <3>1. /\ thread' \in [Threads -> Nat] /\ returned' = returned
          /\ count' = count /\ deferred' = deferred
      BY <1>1, <2>1, <2>3
    <3>2. /\ Zero \in Counts /\ Zero["accepted"] = 0 /\ Zero["drained"] = 0 /\ Zero["dropped"] = 0
      BY CountTypes DEF Counters
    <3>3. Zero["accepted"] + Len(buffer) = Zero["drained"] + Zero["dropped"] + Len(buffer')
      BY <1>1, <2>1, <3>2
    <3>4. \A q : Queued(q) => Queued(q)'
      BY <2>1 DEF Queued
    <3> QED
      BY <1>1, <2>1, <2>2, <3>1, <3>2, <3>3, <3>4, ProducerMoves
  <2>4. ASSUME NEW c \in {"rejected", "lease_noops"}, Defer({c}), thread' = thread
        PROVE  Flow'
    <3>1. /\ Once({c}) \in Counts /\ Once({c})[c] = 1 /\ c \in Losses
          /\ Once({c})["accepted"] = 0 /\ Once({c})["drained"] = 0 /\ Once({c})["dropped"] = 0
      BY CountTypes DEF Counters, Losses
    <3>2. \E d \in Losses : Once({c})[d] > 0
      BY <3>1
    <3>3. Once({c})["accepted"] + Len(buffer) = Once({c})["drained"] + Once({c})["dropped"] + Len(buffer')
      BY <1>1, <2>1, <3>1
    <3> QED
      BY <1>1, <2>1, <2>2, <2>4, <3>1, <3>2, <3>3, ProducerMoves
  <2> QED
    BY <1>2, <2>3, <2>4 DEF Enqueue
<1>3. CASE AppendRecord(t) \/ QueueBusy(t)
  <2>1. PICK p \in Nat :
        /\ p = thread[t] /\ thread' \in [Threads -> Nat] /\ handed' = handed /\ batch' = batch /\ received' = received
        /\ forgotten' = forgotten /\ closed' = closed /\ returned' = returned \cup {p}
    BY <1>1, <1>3 DEF AppendRecord, QueueBusy, EnqueueReturns
  <2> DEFINE item == [payload |-> p, retries |-> 0]
  <2>2. CASE buffer' = Append(buffer, item) /\ Count(Once({"accepted"}))
    <3> DEFINE more == Once({"accepted"})
    <3>1. more \in Counts /\ more["accepted"] = 1 /\ more["drained"] = 0 /\ more["dropped"] = 0
      BY CountTypes DEF Counters
    <3>2. item \in Record /\ item.payload = p
      BY <1>1 DEF Record
    <3>3. /\ buffer' \in Seq(Record) /\ Len(buffer') = Len(buffer) + 1 /\ buffer'[Len(buffer')] = item
          /\ \A i \in 1..Len(buffer) : buffer'[i] = buffer[i]
      BY <1>1, <2>2, <3>2, AppendProperties
    <3>4. BatchIsPrefix'
      BY <1>1, <2>1, <3>3 DEF BatchIsPrefix
    <3>5. \A q : Queued(q) => Queued(q)'
      BY <1>1, <3>3 DEF Queued
    <3>6. Queued(p)'
      BY <1>1, <3>2, <3>3 DEF Queued
    <3>7. more["accepted"] + Len(buffer) = more["drained"] + more["dropped"] + Len(buffer')
      BY <1>1, <3>1, <3>3
    <3> HIDE DEF more, item
    <3>8. \A q \in returned' : q \in received' \/ Queued(q)' \/ (q \in returned /\ ~Queued(q))
      BY <2>1, <3>5, <3>6
    <3> QED
      BY <1>1, <2>1, <2>2, <3>1, <3>3, <3>4, <3>7, <3>8, ProducerMoves DEF more
  <2>3. CASE /\ buffer' = buffer
             /\ Count(Once({"accepted", "dropped"})) \/ Defer({"accepted", "dropped"})
    <3> DEFINE more == Once({"accepted", "dropped"})
    <3>1. /\ more \in Counts /\ more["accepted"] = 1 /\ more["drained"] = 0 /\ more["dropped"] = 1
          /\ "dropped" \in Losses
      BY CountTypes DEF Counters, Losses
    <3>2. BatchIsPrefix'
      BY <1>1, <2>1, <2>3 DEF BatchIsPrefix
    <3>3. more["accepted"] + Len(buffer) = more["drained"] + more["dropped"] + Len(buffer')
      BY <1>1, <2>3, <3>1
    <3>4. \E c \in Losses : more[c] > 0
      BY <3>1
    <3>5. Count(more) \/ \E some : more = Once(some) /\ Defer(some)
      BY <2>3
    <3> HIDE DEF more
    <3> QED
      BY <1>1, <2>1, <2>3, <3>1, <3>2, <3>3, <3>4, <3>5, ProducerMoves
  <2> QED
    BY <1>3, <2>1, <2>2, <2>3 DEF AppendRecord, QueueBusy
<1> QED
  BY <1>2, <1>3

\* The flusher takes a prefix of the queue, or drops the queue under a lease that is over.
LEMMA FlushKeeps ==
  ASSUME Flow, Flush
  PROVE  Flow'
<1>1. /\ buffer \in Seq(Record) /\ Len(buffer) \in Nat /\ BatchSize \in Nat \ {0}
      /\ thread' \in [Threads -> Nat] /\ handed' \in Nat /\ received' = received
      /\ returned' = returned /\ closed' = closed /\ forgotten' = forgotten /\ batch = << >> /\ buffer # << >>
  BY ProducerAssumption DEF Flow, ProducerTyped, Flush
<1>2. CASE batch' = Prefix(BatchSize) /\ UNCHANGED <<buffer, count, deferred>>
  <2> DEFINE n == IF Len(buffer) < BatchSize THEN Len(buffer) ELSE BatchSize
  <2>1. n \in 0..Len(buffer)
    BY <1>1
  <2>2. /\ SubSeq(buffer, 1, n) \in Seq(Record) /\ Len(SubSeq(buffer, 1, n)) = n
        /\ \A i \in 1..n : SubSeq(buffer, 1, n)[i] = buffer[i]
    BY <1>1, <2>1, SubSeqProperties
  <2>3. batch' = SubSeq(buffer, 1, n) /\ buffer' = buffer
    BY <1>2 DEF Prefix
  <2> HIDE DEF n
  <2>4. batch' \in Seq(Record) /\ BatchIsPrefix'
    BY <2>1, <2>2, <2>3 DEF BatchIsPrefix
  <2>5. Zero["accepted"] + Len(buffer) = Zero["drained"] + Zero["dropped"] + Len(buffer')
    BY <1>1, <2>3, CountTypes DEF Counters
  <2>6. \A p : Queued(p) => Queued(p)'
    BY <2>3 DEF Queued
  <2> QED
    BY <1>1, <1>2, <2>3, <2>4, <2>5, <2>6, CountTypes, ProducerMoves
<1>3. CASE /\ buffer' = << >> /\ batch' = batch
           /\ Count(Plus(Times("dropped", Len(buffer)), Once({"lease_noops"})))
  <2> DEFINE more == Plus(Times("dropped", Len(buffer)), Once({"lease_noops"}))
  <2>1. /\ {"accepted", "drained", "dropped", "lease_noops"} \subseteq Counters /\ "lease_noops" \in Losses
        /\ Times("dropped", Len(buffer)) \in Counts /\ Once({"lease_noops"}) \in Counts
    BY <1>1, CountTypes DEF Counters, Losses
  <2>2. more \in Counts /\ \A c \in Counters : more[c] = Times("dropped", Len(buffer))[c] + Once({"lease_noops"})[c]
    BY <2>1, CountTypes
  <2>3. \A c \in Counters : /\ Times("dropped", Len(buffer))[c] = IF c = "dropped" THEN Len(buffer) ELSE 0
                            /\ Once({"lease_noops"})[c] = IF c = "lease_noops" THEN 1 ELSE 0
    BY <1>1, <2>1, CountTypes
  <2>4. more["accepted"] = 0 /\ more["drained"] = 0 /\ more["dropped"] = Len(buffer) /\ more["lease_noops"] = 1
    BY <1>1, <2>1, <2>2, <2>3
  <2>5. Count(more)
    BY <1>3
  <2> HIDE DEF more
  <2>6. /\ buffer' \in Seq(Record) /\ batch' \in Seq(Record) /\ Len(buffer') = 0 /\ Len(batch') = 0
    BY <1>1, <1>3, EmptySeq
  <2>7. BatchIsPrefix'
    BY <2>6 DEF BatchIsPrefix
  <2>8. more["accepted"] + Len(buffer) = more["drained"] + more["dropped"] + Len(buffer')
    BY <1>1, <2>4, <2>6
  <2>9. \E c \in Losses : more[c] > 0
    BY <2>1, <2>4
  <2> QED
    BY <1>1, <2>2, <2>5, <2>6, <2>7, <2>8, <2>9, ProducerMoves
<1> QED
  BY <1>2, <1>3 DEF Flush

\* The lease that is cached changes.
LEMMA LeaseKeeps ==
  ASSUME Flow, \E state : UpdateLease(state)
  PROVE  Flow'
<1>1. UNCHANGED <<buffer, count, deferred, thread, batch, handed, returned, received, closed, forgotten>>
  BY DEF UpdateLease
<1> QED
  BY <1>1 DEF Flow, ProducerTyped, BatchIsPrefix, Balanced, Accounted, Queued, Lossy, CompleteMeansDelivered

\* The next process starts from the snapshot, with what was buffered then counted as lost;
\* what came after the snapshot is forgotten.
LEMMA RestartKeeps ==
  ASSUME ProducerInv, Restart
  PROVE  Flow'
<1> DEFINE n == saved.buffered
           more == [Zero EXCEPT !["dropped"] = n, !["lost_on_restart"] = n]
<1>1. saved.count \in Counts /\ n \in Nat
  BY DEF ProducerInv, SavedFlow
<1>2. /\ more \in Counts /\ more["accepted"] = 0 /\ more["drained"] = 0 /\ more["dropped"] = n
      /\ "dropped" \in Losses /\ {"accepted", "drained", "dropped"} \subseteq Counters
  BY <1>1 DEF Zero, Counters, Counts, Losses
<1>3. /\ count' = Plus(saved.count, more) /\ deferred' = Zero /\ buffer' = << >> /\ batch' = << >>
      /\ received \subseteq received' /\ handed' = handed /\ returned' = returned /\ closed' = closed
      /\ thread' \in [Threads -> Nat] /\ forgotten' = forgotten \cup (returned \ saved.payloads)
  BY DEF Restart, LostOnRestart
<1> HIDE DEF more
<1>4. /\ count' \in Counts /\ deferred' \in Counts /\ Plus(count', deferred') \in Counts
      /\ \A c \in Counters : /\ count'[c] = saved.count[c] + more[c] /\ deferred'[c] = 0
                             /\ Plus(count', deferred')[c] = saved.count[c] + more[c]
  <2>1. count' \in Counts /\ \A c \in Counters : count'[c] = saved.count[c] + more[c]
    BY <1>1, <1>2, <1>3, CountTypes
  <2>2. deferred' \in Counts /\ \A c \in Counters : deferred'[c] = 0
    BY <1>3, CountTypes
  <2>3. /\ Plus(count', deferred') \in Counts
        /\ \A c \in Counters : Plus(count', deferred')[c] = count'[c] + deferred'[c]
    BY <2>1, <2>2, CountTypes
  <2>4. \A c \in Counters : count'[c] \in Nat
    BY <2>1 DEF Counts
  <2> QED
    BY <2>1, <2>2, <2>3, <2>4
<1>5. buffer' \in Seq(Record) /\ batch' \in Seq(Record) /\ Len(buffer') = 0 /\ Len(batch') = 0
  BY <1>3, EmptySeq
<1>6. ProducerTyped' /\ BatchIsPrefix'
  BY <1>3, <1>4, <1>5 DEF ProducerInv, Flow, ProducerTyped, BatchIsPrefix
<1>7. Balanced'
  <2> DEFINE new == Plus(count', deferred')
  <2>1. \A c \in Counters : saved.count[c] \in Nat
    BY <1>1 DEF Counts
  <2>2. saved.count["accepted"] = saved.count["drained"] + saved.count["dropped"] + n
    BY DEF ProducerInv, SavedFlow, Balances
  <2>3. new["accepted"] = new["drained"] + new["dropped"] + 0
    BY <1>1, <1>2, <1>4, <2>1, <2>2
  <2> QED
    BY <1>5, <2>3 DEF Balanced, Balances
<1>8. Accounted'
  <2> SUFFICES ASSUME NEW p \in returned' \ forgotten'
               PROVE  p \in received' \/ Lossy'
    BY DEF Accounted
  <2>1. p \in saved.payloads \ forgotten
    BY <1>3
  <2>2. \A c \in Losses : c \in Counters /\ saved.count[c] \in Nat /\ more[c] \in Nat
    BY <1>1, <1>2 DEF Losses, Counts
  <2>3. CASE p \in received
    BY <1>3, <2>3
  <2>4. CASE n > 0
    <3>1. PICK c \in Losses : c = "dropped"
      BY <1>2
    <3>2. count'[c] = saved.count[c] + n /\ deferred'[c] = 0
      BY <1>2, <1>4, <2>2, <3>1
    <3>3. count'[c] + deferred'[c] > 0
      BY <1>1, <2>2, <2>4, <3>2
    <3> QED
      BY <3>3 DEF Lossy
  <2>5. CASE \E c \in Losses : saved.count[c] > 0
    <3>1. PICK c \in Losses : saved.count[c] > 0
      BY <2>5
    <3>2. count'[c] = saved.count[c] + more[c] /\ deferred'[c] = 0
      BY <1>4, <2>2
    <3>3. count'[c] + deferred'[c] > 0
      BY <2>2, <3>1, <3>2
    <3> QED
      BY <3>3 DEF Lossy
  <2> QED
    BY <2>1, <2>3, <2>4, <2>5 DEF ProducerInv, SavedFlow, SavedAccounted
<1>9. CompleteMeansDelivered'
  BY <1>3 DEF ProducerInv, Flow, CompleteMeansDelivered
<1> QED
  BY <1>6, <1>7, <1>8, <1>9 DEF Flow

\* A window closes; it is complete only if nothing is counted as lost and nothing waits.
\* So does a snapshot that nobody closes with.
LEMMA CloseKeeps ==
  ASSUME Flow, CloseWindow \/ TakeSnapshot
  PROVE  Flow'
<1>1. /\ buffer' = buffer /\ batch' = batch /\ thread' = thread /\ handed' = handed /\ received' = received
      /\ returned' = returned /\ forgotten' = forgotten /\ Count(Zero)
  BY DEF CloseWindow, TakeSnapshot
<1>2. /\ buffer \in Seq(Record) /\ batch \in Seq(Record) /\ Len(buffer) \in Nat
      /\ thread \in [Threads -> Nat] /\ handed \in Nat
  BY DEF Flow, ProducerTyped
<1>3. closed' = closed \/ (closed'.outcome = "COMPLETE" => closed'.payloads \subseteq received' \cup forgotten)
  <2> SUFFICES ASSUME Whole(count')
               PROVE  returned \ forgotten \subseteq received
    BY <1>1 DEF CloseWindow, TakeSnapshot, NotClosed, EndedAs
  <2>1. buffer = << >> /\ \A c \in Losses : count'[c] = 0
    BY DEF Whole, Losses
  <2>2. \A c \in Losses : /\ count[c] \in Nat /\ deferred[c] \in Nat /\ Zero[c] = 0
                          /\ count'[c] + deferred'[c] = count[c] + deferred[c] + Zero[c] /\ deferred'[c] = 0
    BY <1>1, Counting, CountTypes DEF Flow, ProducerTyped, Counts, Losses, Count
  <2>3. ~Lossy
    BY <2>1, <2>2 DEF Lossy
  <2>4. \A p : ~Queued(p)
    BY <1>2, <2>1 DEF Queued
  <2> QED
    BY <2>3, <2>4 DEF Flow, Accounted
<1>4. Zero["accepted"] + Len(buffer) = Zero["drained"] + Zero["dropped"] + Len(buffer')
  BY <1>1, <1>2, CountTypes DEF Counters
<1>5. BatchIsPrefix'
  BY <1>1 DEF Flow, BatchIsPrefix
<1>6. \A p : Queued(p) => Queued(p)'
  BY <1>1 DEF Queued
<1> QED
  BY <1>1, <1>2, <1>3, <1>4, <1>5, <1>6, CountTypes, ProducerMoves

\* A snapshot is as true as the producer is when it is taken.
LEMMA SnapshotKeeps ==
  ASSUME Flow, TakeSnapshot
  PROVE  SavedFlow'
<1>1. Flow'
  BY CloseKeeps
<1>2. /\ saved' = [count |-> count', buffered |-> Len(buffer'), payloads |-> returned']
      /\ deferred' = Zero
  BY DEF TakeSnapshot, Count
<1>3. /\ count' \in Counts /\ Len(buffer') \in Nat
      /\ \A c \in Counters : deferred'[c] = 0 /\ count'[c] \in Nat /\ Plus(count', deferred')[c] = count'[c]
  <2>1. count' \in Counts /\ deferred' \in Counts /\ Len(buffer') \in Nat
    BY <1>1 DEF Flow, ProducerTyped
  <2>2. \A c \in Counters : deferred'[c] = 0 /\ count'[c] \in Nat
    BY <1>2, <2>1, CountTypes DEF Counts
  <2> QED
    BY <2>1, <2>2, CountTypes
<1>4. Balances(saved'.count, saved'.buffered)
  BY <1>1, <1>2, <1>3 DEF Flow, Balanced, Balances, Counters
<1>5. SavedAccounted'
  <2> SUFFICES ASSUME NEW p \in returned' \ forgotten', p \notin received'
               PROVE  Len(buffer') > 0 \/ \E c \in Losses : count'[c] > 0
    BY <1>2 DEF SavedAccounted
  <2>1. Queued(p)' \/ Lossy'
    BY <1>1 DEF Flow, Accounted
  <2>2. Queued(p)' => Len(buffer') > 0
    BY <1>3 DEF Queued
  <2>3. Lossy' => \E c \in Losses : count'[c] > 0
    BY <1>3 DEF Lossy, Losses
  <2> QED
    BY <2>1, <2>2, <2>3
<1> QED
  BY <1>2, <1>3, <1>4, <1>5 DEF SavedFlow

LEMMA DisjointUnion ==
  ASSUME NEW S, NEW T, IsFiniteSet(S), IsFiniteSet(T), S \cap T = {}
  PROVE  IsFiniteSet(S \cup T) /\ Cardinality(S \cup T) = Cardinality(S) + Cardinality(T)
<1>1. Cardinality(S) \in Nat /\ Cardinality(T) \in Nat
  BY FS_CardinalityType
<1>2. Cardinality(S \cap T) = 0
  BY FS_EmptySet
<1>3. /\ IsFiniteSet(S \cup T)
      /\ Cardinality(S \cup T) = Cardinality(S) + Cardinality(T) - Cardinality(S \cap T)
  BY FS_Union
<1> QED
  BY <1>1, <1>2, <1>3

\* What the transport has answered splits a batch in three: what has arrived, what is
\* lost, and what is sent again.
LEMMA AnswerSplits ==
  ASSUME batch \in Seq(Record), MaxRetries \in Nat,
         NEW answer \in [DOMAIN batch -> {"ACKNOWLEDGED", "REJECTED", "RETRYABLE"}]
  PROVE  LET ack == Indices(answer, "ACKNOWLEDGED") IN
         /\ ack \cup Lost(answer) \cup Kept(answer) = 1..Len(batch)
         /\ IsFiniteSet(ack) /\ IsFiniteSet(Lost(answer)) /\ IsFiniteSet(Kept(answer))
         /\ Kept(answer) \subseteq Nat
         /\ Cardinality(ack) \in Nat /\ Cardinality(Lost(answer)) \in Nat /\ Cardinality(Kept(answer)) \in Nat
         /\ Len(batch) = Cardinality(ack) + Cardinality(Lost(answer)) + Cardinality(Kept(answer))
<1> DEFINE A == Indices(answer, "ACKNOWLEDGED")
           L == Lost(answer)
           K == Kept(answer)
<1>1. DOMAIN batch = 1..Len(batch) /\ Len(batch) \in Nat
  OBVIOUS
<1>2. A \cup L \cup K = 1..Len(batch)
  BY <1>1 DEF Indices, Lost, Kept
<1>3. A \cap L = {} /\ (A \cup L) \cap K = {}
  BY <1>1 DEF Indices, Lost, Kept
<1>4. IsFiniteSet(1..Len(batch)) /\ Cardinality(1..Len(batch)) = Len(batch)
  <2>1. /\ IsFiniteSet(1..Len(batch))
        /\ Cardinality(1..Len(batch)) = IF 1 > Len(batch) THEN 0 ELSE Len(batch) - 1 + 1
    BY <1>1, FS_Interval, SMTT(30)
  <2> QED
    BY <1>1, <2>1
<1>5. A \subseteq 1..Len(batch) /\ L \subseteq 1..Len(batch) /\ K \subseteq 1..Len(batch)
  BY <1>2
<1> HIDE DEF A, L, K
<1>6. IsFiniteSet(A) /\ IsFiniteSet(L) /\ IsFiniteSet(K)
  BY <1>4, <1>5, FS_Subset
<1>7. Cardinality(A) \in Nat /\ Cardinality(L) \in Nat /\ Cardinality(K) \in Nat
  BY <1>6, FS_CardinalityType
<1>8. IsFiniteSet(A \cup L) /\ Cardinality(A \cup L) = Cardinality(A) + Cardinality(L)
  BY <1>3, <1>6, <1>7, DisjointUnion
<1>9. Cardinality((A \cup L) \cup K) = Cardinality(A \cup L) + Cardinality(K)
  BY <1>3, <1>6, <1>8, DisjointUnion
<1>10. Len(batch) = Cardinality(A) + Cardinality(L) + Cardinality(K)
  BY <1>2, <1>4, <1>7, <1>8, <1>9
<1>11. K \subseteq Nat
  BY <1>1, <1>5
<1> QED
  BY <1>2, <1>6, <1>7, <1>10, <1>11 DEF A, L, K

LEMMA SentAgain ==
  ASSUME NEW record \in Record
  PROVE  LET again == [record EXCEPT !.retries = @ + 1]
         IN  again \in Record /\ again.payload = record.payload
BY DEF Record

\* What is sent again has the payloads of what was kept.
LEMMA RetainedRecords ==
  ASSUME batch \in Seq(Record), MaxRetries \in Nat,
         NEW answer \in [DOMAIN batch -> {"ACKNOWLEDGED", "REJECTED", "RETRYABLE"}]
  PROVE  /\ Retained(answer) \in Seq(Record) /\ Len(Retained(answer)) = Cardinality(Kept(answer))
         /\ \A i \in Kept(answer) : \E n \in 1..Cardinality(Kept(answer)) :
              Retained(answer)[n].payload = batch[i].payload
<1> DEFINE K == Kept(answer)
           N == Cardinality(K)
<1>1. K \subseteq Nat /\ IsFiniteSet(K) /\ N \in Nat /\ K \subseteq 1..Len(batch)
  BY AnswerSplits
<1>2. /\ \A n \in 1..N : Nth(K, n) \in K
      /\ \A i \in K : Rank(K, i) \in 1..N /\ Nth(K, Rank(K, i)) = i
  BY <1>1, RanksEnumerate
<1>3. ASSUME NEW i \in K
      PROVE  /\ [batch[i] EXCEPT !.retries = @ + 1] \in Record
             /\ [batch[i] EXCEPT !.retries = @ + 1].payload = batch[i].payload
  <2>1. batch[i] \in Record
    BY <1>1
  <2> QED
    BY <2>1, SentAgain
<1>4. Retained(answer) = [n \in 1..N |-> [batch[Nth(K, n)] EXCEPT !.retries = @ + 1]]
  BY DEF Retained
<1> HIDE DEF K, N
<1>5. Retained(answer) \in [1..N -> Record]
  BY <1>2, <1>3, <1>4
<1>6. Retained(answer) \in Seq(Record) /\ Len(Retained(answer)) = N
  BY <1>1, <1>5, IsASeq
<1>7. ASSUME NEW i \in K
      PROVE  Retained(answer)[Rank(K, i)].payload = batch[i].payload
  <2>1. Retained(answer)[Rank(K, i)] = [batch[Nth(K, Rank(K, i))] EXCEPT !.retries = @ + 1]
    BY <1>2, <1>4
  <2>2. Nth(K, Rank(K, i)) = i
    BY <1>2
  <2> QED
    BY <1>3, <2>1, <2>2
<1> QED
  BY <1>2, <1>6, <1>7 DEF K, N

\* The answer to a batch: each of its records has arrived, is counted as lost, or goes
\* back to the queue before the rest.
LEMMA DeliveryKeeps ==
  ASSUME Flow, ApplyDelivery
  PROVE  Flow'
<1>1. /\ buffer \in Seq(Record) /\ batch \in Seq(Record) /\ MaxRetries \in Nat
      /\ Len(buffer) \in Nat /\ Len(batch) \in Nat /\ Len(batch) =< Len(buffer)
      /\ \A i \in 1..Len(batch) : batch[i] = buffer[i]
      /\ thread' \in [Threads -> Nat] /\ handed' \in Nat /\ returned' = returned /\ closed' = closed
      /\ batch' = << >> /\ forgotten' = forgotten
  BY ProducerAssumption DEF Flow, ProducerTyped, BatchIsPrefix, ApplyDelivery
<1>2. PICK answer \in [DOMAIN batch -> {"ACKNOWLEDGED", "REJECTED", "RETRYABLE"}], unknown \in BOOLEAN :
        /\ \E arrived \in SUBSET Indices(answer, "RETRYABLE") :
             received' = received \cup {batch[i].payload : i \in arrived \cup Indices(answer, "ACKNOWLEDGED")}
        /\ buffer' = Retained(answer) \o Rest
        /\ Count([Zero EXCEPT !["drained"] = Cardinality(Indices(answer, "ACKNOWLEDGED")),
                              !["dropped"] = Cardinality(Lost(answer)),
                              !["internal_errors"] = IF unknown THEN 1 ELSE 0])
  BY DEF ApplyDelivery
<1> DEFINE A == Indices(answer, "ACKNOWLEDGED")
           L == Lost(answer)
           K == Kept(answer)
           more == [Zero EXCEPT !["drained"] = Cardinality(A), !["dropped"] = Cardinality(L),
                                !["internal_errors"] = IF unknown THEN 1 ELSE 0]
<1>3. /\ A \cup L \cup K = 1..Len(batch) /\ IsFiniteSet(L)
      /\ Cardinality(A) \in Nat /\ Cardinality(L) \in Nat /\ Cardinality(K) \in Nat
      /\ Len(batch) = Cardinality(A) + Cardinality(L) + Cardinality(K)
  BY <1>1, AnswerSplits
<1>4. /\ Retained(answer) \in Seq(Record) /\ Len(Retained(answer)) = Cardinality(K)
      /\ \A i \in K : \E n \in 1..Cardinality(K) : Retained(answer)[n].payload = batch[i].payload
  BY <1>1, RetainedRecords
<1>5. /\ received \subseteq received' /\ \A i \in A : batch[i].payload \in received'
      /\ buffer' = Retained(answer) \o Rest /\ Count(more)
  BY <1>2
<1>6. /\ more \in Counts /\ more["accepted"] = 0 /\ more["drained"] = Cardinality(A)
      /\ more["dropped"] = Cardinality(L) /\ "dropped" \in Losses
  BY <1>3 DEF Zero, Counters, Counts, Losses
<1>7. /\ Rest \in Seq(Record) /\ Len(Rest) = Len(buffer) - Len(batch)
      /\ \A i \in 1..Len(Rest) : Rest[i] = buffer[Len(batch) + i]
  <2>1. Len(batch) + 1 \in 1..Len(buffer) + 1 /\ Len(buffer) \in Len(batch)..Len(buffer)
    BY <1>1
  <2>2. /\ Rest \in Seq(Record)
        /\ Len(Rest) = IF Len(batch) + 1 =< Len(buffer) THEN Len(buffer) - (Len(batch) + 1) + 1 ELSE 0
        /\ \A i \in 1..Len(buffer) - (Len(batch) + 1) + 1 : Rest[i] = buffer[(Len(batch) + 1) + i - 1]
    BY <1>1, <2>1, SubSeqProperties DEF Rest
  <2>3. Len(Rest) = Len(buffer) - Len(batch) /\ Len(Rest) = Len(buffer) - (Len(batch) + 1) + 1
    BY <1>1, <2>2
  <2>4. \A i \in 1..Len(Rest) : (Len(batch) + 1) + i - 1 = Len(batch) + i
    BY <1>1, <2>3
  <2> QED
    BY <2>2, <2>3, <2>4
<1>8. \A i \in A : batch[i].payload \in received'
  BY <1>5
<1> HIDE DEF A, L, K, more
<1>9. /\ buffer' \in Seq(Record) /\ Len(buffer') = Cardinality(K) + (Len(buffer) - Len(batch))
      /\ \A n \in 1..Cardinality(K) : buffer'[n] = Retained(answer)[n]
      /\ \A n \in 1..Len(Rest) : buffer'[Cardinality(K) + n] = Rest[n]
  <2>1. /\ buffer' \in Seq(Record) /\ Len(buffer') = Cardinality(K) + Len(Rest)
        /\ \A n \in 1..Cardinality(K) + Len(Rest) :
             buffer'[n] = IF n =< Cardinality(K) THEN Retained(answer)[n] ELSE Rest[n - Cardinality(K)]
    BY <1>4, <1>5, <1>7, ConcatProperties, SMTT(30)
  <2>2. Len(Rest) \in Nat
    BY <1>7
  <2>3. ASSUME NEW n \in 1..Cardinality(K)
        PROVE  n \in 1..Cardinality(K) + Len(Rest) /\ n =< Cardinality(K)
    BY <1>3, <2>2
  <2>4. ASSUME NEW n \in 1..Len(Rest)
        PROVE  /\ Cardinality(K) + n \in 1..Cardinality(K) + Len(Rest)
               /\ ~(Cardinality(K) + n =< Cardinality(K)) /\ (Cardinality(K) + n) - Cardinality(K) = n
    BY <1>3, <2>2
  <2> QED
    BY <1>7, <2>1, <2>3, <2>4
<1>10. more["accepted"] + Len(buffer) = more["drained"] + more["dropped"] + Len(buffer')
  <2>1. 0 + Len(buffer) = Cardinality(A) + Cardinality(L) + (Cardinality(K) + (Len(buffer) - Len(batch)))
    <3> DEFINE a == Cardinality(A)  l == Cardinality(L)  k == Cardinality(K)
               b == Len(batch)  n == Len(buffer)
    <3>1. a \in Nat /\ l \in Nat /\ k \in Nat /\ b \in Nat /\ n \in Nat /\ b = a + l + k
      BY <1>1, <1>3
    <3>2. 0 + n = a + l + (k + (n - b))
      <4> HIDE DEF a, l, k, b, n
      <4> QED
        BY <3>1
    <3> QED
      BY <3>2
  <2> QED
    BY <1>6, <1>9, <2>1
<1>11. batch' \in Seq(Record) /\ BatchIsPrefix'
  <2>1. batch' \in Seq(Record) /\ Len(batch') = 0 /\ Len(buffer') \in Nat
    BY <1>1, <1>9, EmptySeq
  <2> QED
    BY <2>1 DEF BatchIsPrefix
<1>12. ASSUME NEW p, Queued(p)
       PROVE  p \in received' \/ Queued(p)' \/ \E c \in Losses : more[c] > 0
  <2>1. PICK i \in 1..Len(buffer) : buffer[i].payload = p
    BY <1>12 DEF Queued
  <2>2. CASE i > Len(batch)
    <3> DEFINE n == i - Len(batch)
               m == Cardinality(K) + n
    <3>1. n \in 1..Len(Rest) /\ Len(batch) + n = i /\ m \in 1..Len(buffer')
      <4> DEFINE k == Cardinality(K)  b == Len(batch)  l == Len(buffer)
      <4>1. k \in Nat /\ b \in Nat /\ l \in Nat /\ i \in 1..l /\ i > b
        BY <1>1, <1>3, <2>1, <2>2
      <4>2. i - b \in 1..l - b /\ b + (i - b) = i /\ k + (i - b) \in 1..k + (l - b)
        <5> HIDE DEF k, b, l
        <5> QED
          BY <4>1
      <4> QED
        BY <1>7, <1>9, <4>2
    <3>2. buffer'[m] = buffer[i]
      BY <1>7, <1>9, <3>1
    <3> HIDE DEF m
    <3> QED
      BY <2>1, <3>1, <3>2 DEF Queued
  <2>3. CASE i =< Len(batch)
    <3>1. i \in A \cup L \cup K /\ batch[i].payload = p
      <4>1. i \in 1..Len(batch)
        BY <1>1, <2>1, <2>3
      <4> QED
        BY <1>1, <1>3, <2>1, <4>1
    <3>2. CASE i \in A
      BY <1>8, <3>1, <3>2
    <3>3. CASE i \in L
      <4>1. Cardinality(L) # 0
        BY <1>3, <3>3, FS_EmptySet
      <4> QED
        BY <1>3, <1>6, <4>1
    <3>4. CASE i \in K
      <4>1. PICK n \in 1..Cardinality(K) : Retained(answer)[n].payload = p
        BY <1>4, <3>1, <3>4
      <4>2. n \in 1..Len(buffer') /\ buffer'[n].payload = p
        BY <1>1, <1>3, <1>9, <4>1, SMTT(30)
      <4> QED
        BY <4>2 DEF Queued
    <3> QED
      BY <3>1, <3>2, <3>3, <3>4
  <2> QED
    BY <1>1, <2>2, <2>3
<1> QED
  BY <1>1, <1>5, <1>6, <1>9, <1>10, <1>11, <1>12, ProducerMoves

LEMMA ProducerStepKeeps == ProducerInv /\ [ProducerNext]_producerVars => ProducerInv'
<1>1. ProducerInv /\ UNCHANGED producerVars => ProducerInv'
  BY DEF producerVars, ProducerInv, Flow, ProducerTyped, BatchIsPrefix, Balanced, Accounted, Queued, Lossy,
         CompleteMeansDelivered, SavedFlow, SavedAccounted
<1>2. ASSUME ProducerInv, ProducerNext
      PROVE  Flow'
  BY <1>2, ThreadsKeep, FlushKeeps, DeliveryKeeps, LeaseKeeps, RestartKeeps, CloseKeeps DEF ProducerNext, ProducerInv
<1>3. ASSUME ProducerInv, ProducerNext
      PROVE  SavedFlow'
  <2>1. CASE TakeSnapshot
    BY <1>3, <2>1, SnapshotKeeps DEF ProducerInv
  <2>2. CASE ~TakeSnapshot
    <3>1. saved' = saved /\ received \subseteq received' /\ forgotten \subseteq forgotten'
      BY <1>3, <2>2 DEF ProducerNext, UpdateLease, Enqueue, AppendRecord, QueueBusy, EnqueueReturns, Flush,
                        ApplyDelivery, Restart, CloseWindow
    <3> QED
      BY <1>3, <3>1, SavedStays DEF ProducerInv
  <2> QED
    BY <2>1, <2>2
<1> QED
  BY <1>1, <1>2, <1>3 DEF ProducerInv

LEMMA ProducerInvariant == Spec => []ProducerInv
<1>1. Init => ProducerInv
  BY ProducerInitInvariant DEF Init
<1>2. [Next]_planeVars => [ProducerNext]_producerVars
  BY DEF Next, planeVars, producerVars
<1>3. ProducerInv /\ [Next]_planeVars => ProducerInv'
  BY <1>2, ProducerStepKeeps
<1> QED
  BY <1>1, <1>3, PTL DEF Spec

\* What the counts know of: each payload that has returned, unless a restart forgot it;
\* the threads hold others, each its own.
Waiting == {thread[t] : t \in Threads} \ {0}
TallyInv ==
  /\ returned \subseteq 1..handed /\ Waiting \subseteq 1..handed /\ Waiting \cap returned = {}
  /\ \A t \in Threads, u \in Threads : thread[t] = thread[u] /\ thread[t] # 0 => t = u
  /\ forgotten \subseteq returned /\ saved.payloads \subseteq returned
  /\ Tallies(Plus(count, deferred), returned \ forgotten)
  /\ Tallies(saved.count, saved.payloads \ forgotten)

\* A step that counts what returns with it.
LEMMA TallyMoves ==
  ASSUME NEW old \in Counts, NEW new \in Counts, NEW more \in Counts, NEW S, NEW T,
         IsFiniteSet(S), Tallies(old, S), \A c \in Counters : new[c] = old[c] + more[c],
         \/ T = S /\ more["accepted"] = 0 /\ more["rejected"] = 0
         \/ \E p : /\ T = S \cup {p} /\ p \notin S
                  /\ more["accepted"] + more["rejected"] =< 1
                  /\ 1 =< more["accepted"] + more["rejected"] + more["lease_noops"]
  PROVE  Tallies(new, T)
<1> DEFINE m == Cardinality(S)  n == Cardinality(T)
<1>1. {"accepted", "rejected", "lease_noops"} \subseteq Counters
  BY DEF Counters
<1>2. \A c \in Counters : old[c] \in Nat /\ more[c] \in Nat /\ new[c] = old[c] + more[c]
  BY DEF Counts
<1>3. m \in Nat /\ (T = S => n = m)
  BY FS_CardinalityType
<1>4. ASSUME NEW p, T = S \cup {p}, p \notin S
      PROVE  n = m + 1
  BY <1>4, FS_AddElement
<1> HIDE DEF m, n
<1>5. old["accepted"] + old["rejected"] =< m /\ m =< old["accepted"] + old["rejected"] + old["lease_noops"]
  BY DEF Tallies, m
<1>6. new["accepted"] + new["rejected"] =< n /\ n =< new["accepted"] + new["rejected"] + new["lease_noops"]
  <2>1. CASE T = S /\ more["accepted"] = 0 /\ more["rejected"] = 0
    BY <1>1, <1>2, <1>3, <1>5, <2>1
  <2>2. CASE \E p : /\ T = S \cup {p} /\ p \notin S
                   /\ more["accepted"] + more["rejected"] =< 1
                   /\ 1 =< more["accepted"] + more["rejected"] + more["lease_noops"]
    <3>1. n = m + 1
      BY <1>4, <2>2
    <3> QED
      BY <1>1, <1>2, <1>3, <1>5, <2>2, <3>1
  <2> QED
    BY <2>1, <2>2
<1> QED
  BY <1>6 DEF Tallies, n

LEMMA TallyInitInvariant == ProducerInit => TallyInv
<1> SUFFICES ASSUME ProducerInit
             PROVE  TallyInv
  OBVIOUS
<1>1. /\ returned = {} /\ forgotten = {} /\ saved = NoSnapshot /\ count = Zero /\ deferred = Zero
      /\ \A t \in Threads : thread[t] = 0
  BY DEF ProducerInit
<1>2. Plus(Zero, Zero) \in Counts /\ \A c \in Counters : Plus(Zero, Zero)[c] = 0 /\ Zero[c] = 0
  BY CountTypes
<1>3. Tallies(Plus(Zero, Zero), {}) /\ Tallies(Zero, {})
  BY <1>2, FS_EmptySet DEF Tallies, Counters
<1>4. returned \ forgotten = {} /\ saved.payloads \ forgotten = {} /\ saved.count = Zero
  BY <1>1 DEF NoSnapshot
<1> QED
  BY <1>1, <1>3, <1>4 DEF TallyInv, Waiting, NoSnapshot

LEMMA NumbersAreFinite == \A n \in Nat : IsFiniteSet(1..n)
<1> SUFFICES ASSUME NEW n \in Nat
             PROVE  IsFiniteSet(1..n)
  OBVIOUS
<1>1. PICK a \in Int, b \in Int : a = 1 /\ b = n
  OBVIOUS
<1>2. IsFiniteSet(a..b)
  BY FS_Interval
<1> QED
  BY <1>1, <1>2

\* One step of the producer that no restart takes back.
LEMMA TotalsMove ==
  ASSUME ProducerTyped, TallyInv, NEW more \in Counts,
         \/ Count(more) \/ \E some : more = Once(some) /\ Defer(some)
         \/ more = Zero /\ UNCHANGED <<count, deferred>>,
         forgotten' = forgotten,
         \/ returned' = returned /\ more["accepted"] = 0 /\ more["rejected"] = 0
         \/ \E p : /\ returned' = returned \cup {p} /\ p \notin returned
                  /\ more["accepted"] + more["rejected"] =< 1
                  /\ 1 =< more["accepted"] + more["rejected"] + more["lease_noops"]
  PROVE  Tallies(Plus(count', deferred'), returned' \ forgotten')
<1> DEFINE old == Plus(count, deferred)
           new == Plus(count', deferred')
           S == returned \ forgotten
           T == returned' \ forgotten'
<1>1. /\ count' \in Counts /\ deferred' \in Counts
      /\ \A c \in Counters : count'[c] + deferred'[c] = count[c] + deferred[c] + more[c]
  BY Counting
<1>2. old \in Counts /\ \A c \in Counters : old[c] = count[c] + deferred[c]
  BY CountTypes DEF ProducerTyped
<1>3. new \in Counts /\ \A c \in Counters : new[c] = count'[c] + deferred'[c]
  BY <1>1, CountTypes
<1>4. IsFiniteSet(S) /\ Tallies(old, S)
  <2>1. IsFiniteSet(1..handed) /\ S \subseteq 1..handed
    BY NumbersAreFinite DEF ProducerTyped, TallyInv
  <2> QED
    BY <2>1, FS_Subset DEF TallyInv
<1>5. \/ T = S /\ more["accepted"] = 0 /\ more["rejected"] = 0
      \/ \E p : /\ T = S \cup {p} /\ p \notin S
               /\ more["accepted"] + more["rejected"] =< 1
               /\ 1 =< more["accepted"] + more["rejected"] + more["lease_noops"]
  <2>1. \A p : returned' = returned \cup {p} /\ p \notin returned => T = S \cup {p} /\ p \notin S
    BY DEF TallyInv
  <2> QED
    BY <2>1
<1> HIDE DEF old, new, S, T
<1>6. \A c \in Counters : new[c] = old[c] + more[c]
  BY <1>1, <1>2, <1>3
<1>7. Tallies(new, T)
  BY <1>2, <1>3, <1>4, <1>5, <1>6, TallyMoves
<1> QED
  BY <1>7 DEF new, T

\* Payloads are handed over and return.
LEMMA ReturnsTally ==
  ASSUME ProducerTyped, TallyInv, NEW t \in Threads, Enqueue(t) \/ AppendRecord(t) \/ QueueBusy(t)
  PROVE  TallyInv'
<1>1. /\ thread \in [Threads -> Nat] /\ handed \in Nat /\ handed + 1 \in Nat /\ handed + 1 \notin 1..handed
      /\ 1..handed \subseteq 1..handed + 1
  BY DEF ProducerTyped
<1>2. forgotten' = forgotten /\ saved' = saved
  BY DEF Enqueue, AppendRecord, QueueBusy, EnqueueReturns
<1>3. \A u \in Threads : thread[u] # 0 => thread[u] \in 1..handed /\ thread[u] \notin returned
  BY DEF TallyInv, Waiting
<1>4. CASE handed' = handed + 1 /\ thread' = [thread EXCEPT ![t] = handed + 1] /\ UNCHANGED <<count, deferred, returned>>
  <2>1. Tallies(Plus(count', deferred'), returned' \ forgotten')
    <3>1. Zero \in Counts /\ Zero["accepted"] = 0 /\ Zero["rejected"] = 0
      BY CountTypes DEF Counters
    <3> QED
      BY <1>2, <1>4, <3>1, TotalsMove
  <2>2. \A u \in Threads : thread'[u] = IF u = t THEN handed + 1 ELSE thread[u]
    BY <1>1, <1>4
  <2>3. Waiting' \subseteq 1..handed' /\ Waiting' \cap returned' = {}
    <3> SUFFICES ASSUME NEW u \in Threads, thread'[u] # 0
                 PROVE  thread'[u] \in 1..handed' /\ thread'[u] \notin returned'
      BY DEF Waiting
    <3>1. handed + 1 \in 1..handed + 1 /\ handed + 1 \notin returned
      BY <1>1 DEF TallyInv
    <3> QED
      BY <1>1, <1>3, <1>4, <2>2, <3>1
  <2>4. \A u \in Threads, v \in Threads : thread'[u] = thread'[v] /\ thread'[u] # 0 => u = v
    BY <1>1, <1>3, <2>2 DEF TallyInv
  <2>5. returned' \subseteq 1..handed'
    BY <1>1, <1>4 DEF TallyInv
  <2> QED
    BY <1>2, <1>4, <2>1, <2>3, <2>4, <2>5 DEF TallyInv
<1>5. ASSUME NEW c \in {"rejected", "lease_noops"}, Defer({c}), handed' = handed + 1, thread' = thread,
             returned' = returned \cup {handed + 1}
      PROVE  TallyInv'
  <2>1. Tallies(Plus(count', deferred'), returned' \ forgotten')
    <3>1. /\ Once({c}) \in Counts /\ Once({c})["accepted"] = 0
          /\ Once({c})["rejected"] = (IF c = "rejected" THEN 1 ELSE 0)
          /\ Once({c})["lease_noops"] = (IF c = "lease_noops" THEN 1 ELSE 0)
      BY CountTypes DEF Counters
    <3>2. handed + 1 \notin returned
      BY <1>1 DEF TallyInv
    <3>3. \E p : /\ returned' = returned \cup {p} /\ p \notin returned
               /\ Once({c})["accepted"] + Once({c})["rejected"] =< 1
               /\ 1 =< Once({c})["accepted"] + Once({c})["rejected"] + Once({c})["lease_noops"]
      BY <1>5, <3>1, <3>2
    <3> QED
      BY <1>2, <1>5, <3>1, <3>3, TotalsMove
  <2>2. Waiting' = Waiting /\ Waiting' \subseteq 1..handed' /\ Waiting' \cap returned' = {}
    BY <1>1, <1>5 DEF TallyInv, Waiting
  <2>3. returned' \subseteq 1..handed'
    BY <1>1, <1>5 DEF TallyInv
  <2> QED
    BY <1>2, <1>5, <2>1, <2>2, <2>3 DEF TallyInv
<1>6. ASSUME NEW some \in {{"accepted"}, {"accepted", "dropped"}}, Count(Once(some)) \/ Defer(some), EnqueueReturns(t)
      PROVE  TallyInv'
  <2>1. PICK p \in 1..handed : /\ p = thread[t] /\ p \notin returned /\ returned' = returned \cup {p}
                             /\ thread' = [thread EXCEPT ![t] = 0] /\ handed' = handed
    BY <1>3, <1>6 DEF EnqueueReturns
  <2>2. Tallies(Plus(count', deferred'), returned' \ forgotten')
    <3>1. /\ Once(some) \in Counts /\ Once(some)["accepted"] = 1 /\ Once(some)["rejected"] = 0
          /\ Once(some)["lease_noops"] = 0
      BY <1>6, CountTypes DEF Counters
    <3>2. /\ returned' = returned \cup {p} /\ p \notin returned
          /\ Once(some)["accepted"] + Once(some)["rejected"] =< 1
          /\ 1 =< Once(some)["accepted"] + Once(some)["rejected"] + Once(some)["lease_noops"]
      BY <2>1, <3>1
    <3> QED
      BY <1>2, <1>6, <3>1, <3>2, TotalsMove
  <2>3. \A u \in Threads : thread'[u] = IF u = t THEN 0 ELSE thread[u]
    BY <1>1, <2>1
  <2>4. Waiting' \subseteq 1..handed' /\ Waiting' \cap returned' = {}
    <3> SUFFICES ASSUME NEW u \in Threads, thread'[u] # 0
                 PROVE  thread'[u] \in 1..handed' /\ thread'[u] \notin returned'
      BY DEF Waiting
    <3>1. u # t /\ thread'[u] = thread[u] /\ thread[u] # thread[t]
      BY <2>3 DEF TallyInv
    <3> QED
      BY <1>3, <2>1, <3>1
  <2>5. \A u \in Threads, v \in Threads : thread'[u] = thread'[v] /\ thread'[u] # 0 => u = v
    BY <2>3 DEF TallyInv
  <2>6. returned' \subseteq 1..handed' /\ forgotten' \subseteq returned' /\ saved'.payloads \subseteq returned'
    BY <1>2, <2>1 DEF TallyInv
  <2> QED
    BY <1>2, <2>2, <2>4, <2>5, <2>6 DEF TallyInv
<1> QED
  BY <1>4, <1>5, <1>6 DEF Enqueue, AppendRecord, QueueBusy

\* What returns nothing and forgets nothing counts nothing that was handed over.
LEMMA QuietTally ==
  ASSUME ProducerInv, TallyInv, (\E state : UpdateLease(state)) \/ Flush \/ ApplyDelivery \/ CloseWindow \/ TakeSnapshot
  PROVE  Tallies(Plus(count', deferred'), returned' \ forgotten')
<1>1. ProducerTyped /\ Len(buffer) \in Nat /\ forgotten' = forgotten /\ returned' = returned
  BY DEF ProducerInv, Flow, ProducerTyped, UpdateLease, Flush, ApplyDelivery, CloseWindow, TakeSnapshot
<1>2. Zero \in Counts /\ Zero["accepted"] = 0 /\ Zero["rejected"] = 0
  BY CountTypes DEF Counters
<1>3. CASE Count(Zero) \/ UNCHANGED <<count, deferred>>
  BY <1>1, <1>2, <1>3, TotalsMove
<1>4. CASE Count(Plus(Times("dropped", Len(buffer)), Once({"lease_noops"})))
  <2> DEFINE more == Plus(Times("dropped", Len(buffer)), Once({"lease_noops"}))
  <2>1. /\ {"accepted", "rejected", "dropped"} \subseteq Counters
        /\ Times("dropped", Len(buffer)) \in Counts /\ Once({"lease_noops"}) \in Counts
    BY <1>1, CountTypes DEF Counters
  <2>2. more \in Counts /\ \A c \in Counters : more[c] = Times("dropped", Len(buffer))[c] + Once({"lease_noops"})[c]
    BY <2>1, CountTypes
  <2>3. \A c \in {"accepted", "rejected"} : Times("dropped", Len(buffer))[c] = 0 /\ Once({"lease_noops"})[c] = 0
    BY <1>1, <2>1, CountTypes
  <2>4. more["accepted"] = 0 /\ more["rejected"] = 0
    BY <2>1, <2>2, <2>3
  <2> HIDE DEF more
  <2>5. Count(more)
    BY <1>4 DEF more
  <2> QED
    BY <1>1, <2>2, <2>4, <2>5, TotalsMove
<1>5. CASE ApplyDelivery
  <2>1. PICK answer \in [DOMAIN batch -> {"ACKNOWLEDGED", "REJECTED", "RETRYABLE"}], unknown \in BOOLEAN :
          Count([Zero EXCEPT !["drained"] = Cardinality(Indices(answer, "ACKNOWLEDGED")),
                             !["dropped"] = Cardinality(Lost(answer)),
                             !["internal_errors"] = IF unknown THEN 1 ELSE 0])
    BY <1>5 DEF ApplyDelivery
  <2>2. Cardinality(Indices(answer, "ACKNOWLEDGED")) \in Nat /\ Cardinality(Lost(answer)) \in Nat
    BY AnswerSplits, ProducerAssumption DEF ProducerInv, Flow, ProducerTyped
  <2> DEFINE more == [Zero EXCEPT !["drained"] = Cardinality(Indices(answer, "ACKNOWLEDGED")),
                                  !["dropped"] = Cardinality(Lost(answer)),
                                  !["internal_errors"] = IF unknown THEN 1 ELSE 0]
  <2>3. more \in Counts /\ more["accepted"] = 0 /\ more["rejected"] = 0
    BY <2>2 DEF Zero, Counters, Counts
  <2>4. Count(more)
    BY <2>1
  <2> HIDE DEF more
  <2> QED
    BY <1>1, <2>3, <2>4, TotalsMove
<1> QED
  BY <1>3, <1>4, <1>5 DEF UpdateLease, Flush, CloseWindow, TakeSnapshot

\* A restart knows of what the snapshot knew of.
LEMMA RestartTally ==
  ASSUME ProducerInv, TallyInv, Restart
  PROVE  TallyInv'
<1> DEFINE n == saved.buffered
           more == [Zero EXCEPT !["dropped"] = n, !["lost_on_restart"] = n]
           S == saved.payloads \ forgotten
<1>1. saved.count \in Counts /\ n \in Nat /\ handed \in Nat
  BY DEF ProducerInv, SavedFlow, Flow, ProducerTyped
<1>2. more \in Counts /\ more["accepted"] = 0 /\ more["rejected"] = 0
  BY <1>1 DEF Zero, Counters, Counts
<1>3. /\ count' = Plus(saved.count, more) /\ deferred' = Zero /\ handed' = handed /\ returned' = returned
      /\ thread' = [t \in Threads |-> 0] /\ forgotten' = forgotten \cup (returned \ saved.payloads) /\ saved' = saved
  BY DEF Restart, LostOnRestart
<1>4. IsFiniteSet(S) /\ Tallies(saved.count, S)
  <2>1. IsFiniteSet(1..handed) /\ S \subseteq 1..handed
    BY <1>1, NumbersAreFinite DEF TallyInv
  <2> QED
    BY <2>1, FS_Subset DEF TallyInv
<1>5. returned' \ forgotten' = S /\ saved'.payloads \ forgotten' = S
  BY <1>3 DEF TallyInv
<1> HIDE DEF more, S
<1>6. /\ Plus(count', deferred') \in Counts
      /\ \A c \in Counters : Plus(count', deferred')[c] = saved.count[c] + more[c]
  <2>1. count' \in Counts /\ \A c \in Counters : count'[c] = saved.count[c] + more[c]
    BY <1>1, <1>2, <1>3, CountTypes
  <2>2. deferred' \in Counts /\ \A c \in Counters : deferred'[c] = 0
    BY <1>3, CountTypes
  <2>3. \A c \in Counters : count'[c] \in Nat
    BY <2>1 DEF Counts
  <2> QED
    BY <2>1, <2>2, <2>3, CountTypes
<1>7. Tallies(Plus(count', deferred'), S)
  BY <1>1, <1>2, <1>4, <1>6, TallyMoves
<1>8. Waiting' = {}
  BY <1>3 DEF Waiting
<1> QED
  BY <1>3, <1>4, <1>5, <1>7, <1>8 DEF TallyInv

LEMMA TallyStepKeeps == ProducerInv /\ TallyInv /\ [ProducerNext]_producerVars => TallyInv'
<1>1. TallyInv /\ UNCHANGED producerVars => TallyInv'
  BY DEF producerVars, TallyInv, Waiting
<1>2. ASSUME ProducerInv, TallyInv, (\E state : UpdateLease(state)) \/ Flush \/ ApplyDelivery \/ CloseWindow
      PROVE  TallyInv'
  <2>1. /\ thread' = thread /\ handed' = handed /\ returned' = returned /\ forgotten' = forgotten /\ saved' = saved
    BY <1>2 DEF UpdateLease, Flush, ApplyDelivery, CloseWindow
  <2>2. Tallies(Plus(count', deferred'), returned' \ forgotten')
    BY <1>2, QuietTally
  <2> QED
    BY <1>2, <2>1, <2>2 DEF TallyInv, Waiting
<1>3. ASSUME ProducerInv, TallyInv, TakeSnapshot
      PROVE  TallyInv'
  <2>1. /\ thread' = thread /\ handed' = handed /\ returned' = returned /\ forgotten' = forgotten
        /\ saved'.payloads = returned' /\ saved'.count = count' /\ deferred' = Zero
    BY <1>3 DEF TakeSnapshot, Count
  <2>2. Tallies(Plus(count', deferred'), returned' \ forgotten')
    BY <1>3, QuietTally
  <2>3. count' \in Counts
    BY <1>3, CloseKeeps DEF ProducerInv, Flow, ProducerTyped
  <2>4. \A c \in Counters : Plus(count', deferred')[c] = count'[c]
    <3>1. \A c \in Counters : count'[c] \in Nat /\ Zero[c] = 0
      BY <2>3, CountTypes DEF Counts
    <3> QED
      BY <2>1, <2>3, <3>1, CountTypes
  <2>5. Tallies(count', returned' \ forgotten')
    BY <2>2, <2>4 DEF Tallies, Counters
  <2> QED
    BY <1>3, <2>1, <2>2, <2>5 DEF TallyInv, Waiting
<1>4. ProducerInv /\ TallyInv /\ ProducerNext => TallyInv'
  BY <1>2, <1>3, ReturnsTally, RestartTally DEF ProducerNext, ProducerInv, Flow
<1> QED
  BY <1>1, <1>4

LEMMA TallyInvariant == Spec => []TallyInv
<1>1. Init => TallyInv
  BY TallyInitInvariant DEF Init
<1>2. [Next]_planeVars => [ProducerNext]_producerVars
  BY DEF Next, planeVars, producerVars
<1>3. ProducerInv /\ TallyInv /\ [Next]_planeVars => TallyInv'
  BY <1>2, TallyStepKeeps
<1> QED
  BY <1>1, <1>3, ProducerInvariant, PTL DEF Spec

\* Each accepted record is drained, dropped or in the buffer, and counted once; and the
\* counts know of every payload but those that a restart forgot.
THEOREM RecordsAreCounted == Spec => []EachRecordIsCounted
<1>1. ProducerInv /\ TallyInv => EachRecordIsCounted
  BY DEF ProducerInv, Flow, Balanced, TallyInv, EachRecordIsCounted
<1> QED
  BY <1>1, ProducerInvariant, TallyInvariant, PTL

\* What says that it is complete is whole: the windows of a producer have all that no
\* restart forgot, and a session all that its agent counted.
THEOREM CompleteMeansWhole == Spec => []WholeWhenComplete
<1>1. SessionInv => CompleteIsWhole
  BY DEF SessionInv, RowInv, CompleteIsWhole
<1>2. ProducerInv => CompleteMeansDelivered
  BY DEF ProducerInv, Flow
<1>3. Spec => []SessionInv
  BY SessionInvariant
<1> QED
  BY <1>1, <1>2, <1>3, ProducerInvariant, PTL DEF WholeWhenComplete

-----------------------------------------------------------------------------
(* Rounds: what a function over the numbers of rounds computes.            *)

LEMMA LeastNumber ==
  ASSUME NEW T \in SUBSET Nat, T # {}
  PROVE  \E v \in T : \A u \in T : v <= u
<1> DEFINE below == {0 .. v : v \in T}
           R == StrictSubsetOrdering(Nat)
<1>1. below \subseteq FiniteSubsetsOf(Nat)
  <2>1. ASSUME NEW v \in T
        PROVE  0 .. v \in FiniteSubsetsOf(Nat)
    BY FS_Interval DEF FiniteSubsetsOf
  <2> QED
    BY <2>1
<1>2. below # {}
  OBVIOUS
<1>3. PICK bottom \in below : \A y \in below : <<y, bottom>> \notin R
  <2> HIDE DEF below, R
  <2>1. IsWellFoundedOn(R, FiniteSubsetsOf(Nat))
    BY FS_StrictSubsetOrderingWellFounded DEF R
  <2> QED
    BY <1>1, <1>2, <2>1, WFMin
<1>4. PICK v \in T : bottom = 0 .. v
  OBVIOUS
<1>5. ASSUME NEW u \in T, u < v
      PROVE  FALSE
  <2>1. (0 .. u) \subseteq (0 .. v) /\ v \in 0 .. v /\ v \notin 0 .. u
    BY <1>5
  <2>2. <<0 .. u, bottom>> \in R
    BY <1>1, <1>4, <2>1 DEF StrictSubsetOrdering
  <2> QED
    BY <1>3, <2>2
<1> QED
  BY <1>5

\* A set of numbers that has 0, and the next of each number below N, has all up to N.
LEMMA UpTo ==
  ASSUME NEW N \in Nat, NEW P, 0 \in P, \A n \in 1 .. N : n - 1 \in P => n \in P
  PROVE  \A n \in 0 .. N : n \in P
<1> DEFINE T == {n \in 0 .. N : n \notin P}
<1> SUFFICES ASSUME T # {}
             PROVE  FALSE
  OBVIOUS
<1>1. PICK v \in T : \A u \in T : v <= u
  <2>1. T \in SUBSET Nat
    OBVIOUS
  <2> HIDE DEF T
  <2> QED
    BY <2>1, LeastNumber
<1>2. v \in 1 .. N /\ v - 1 \in 0 .. N
  OBVIOUS
<1>3. v - 1 \in P
  BY <1>1, <1>2
<1> QED
  BY <1>2, <1>3

\* Rounds begins with s and does F in every round.
Rounds(h, s, F, N) == h[0] = s /\ \A n \in 1 .. N : h[n] = F[h[n - 1]]

\* There is a function of the rounds.
LEMMA RoundsExist ==
  ASSUME NEW S, NEW s \in S, NEW F \in [S -> S], NEW N \in Nat
  PROVE  \E h \in [0 .. N -> S] : Rounds(h, s, F, N)
<1> DEFINE P == {n \in 0 .. N : \E h \in [0 .. n -> S] : Rounds(h, s, F, n)}
<1>1. 0 \in P
  <2> DEFINE h == [i \in 0 .. 0 |-> s]
  <2>1. h \in [0 .. 0 -> S] /\ Rounds(h, s, F, 0)
    BY DEF Rounds
  <2> QED
    BY <2>1
<1>2. ASSUME NEW n \in 1 .. N, n - 1 \in P
      PROVE  n \in P
  <2>1. PICK g \in [0 .. n - 1 -> S] : Rounds(g, s, F, n - 1)
    BY <1>2
  <2> DEFINE h == [i \in 0 .. n |-> IF i = n THEN F[g[n - 1]] ELSE g[i]]
  <2>2. h \in [0 .. n -> S]
    BY <2>1
  <2>3. \A i \in 0 .. n - 1 : h[i] = g[i]
    OBVIOUS
  <2>4. h[n] = F[g[n - 1]]
    OBVIOUS
  <2>5. Rounds(h, s, F, n)
    <3> HIDE DEF h
    <3>1. h[0] = s
      BY <2>1, <2>3 DEF Rounds
    <3>2. ASSUME NEW i \in 1 .. n
          PROVE  h[i] = F[h[i - 1]]
      <4>1. CASE i = n
        BY <2>3, <2>4, <4>1
      <4>2. CASE i # n
        <5>1. i \in 1 .. n - 1 /\ i - 1 \in 0 .. n - 1 /\ i \in 0 .. n - 1
          BY <4>2
        <5> QED
          BY <2>1, <2>3, <5>1 DEF Rounds
      <4> QED
        BY <4>1, <4>2
    <3> QED
      BY <3>1, <3>2 DEF Rounds
  <2> QED
    BY <2>2, <2>5
<1>3. \A n \in 0 .. N : n \in P
  <2> HIDE DEF P
  <2> QED
    BY <1>1, <1>2, UpTo
<1> QED
  BY <1>3

LEMMA RoundsTyped ==
  ASSUME NEW S, NEW s \in S, NEW F \in [S -> S], NEW N \in Nat, NEW h,
         h[0] = s, \A n \in 1 .. N : h[n - 1] \in S => h[n] = F[h[n - 1]]
  PROVE  Rounds(h, s, F, N) /\ \A n \in 0 .. N : h[n] \in S
<1> DEFINE P == {n \in 0 .. N : h[n] \in S}
<1>1. 0 \in P
  OBVIOUS
<1>2. \A n \in 1 .. N : n - 1 \in P => n \in P
  OBVIOUS
<1>3. \A n \in 0 .. N : n \in P
  <2> HIDE DEF P
  <2> QED
    BY <1>1, <1>2, UpTo
<1>4. \A n \in 1 .. N : n - 1 \in 0 .. N
  OBVIOUS
<1> QED
  BY <1>3, <1>4 DEF Rounds

\* Rounds that only add members of a finite set have nothing to add after as many rounds
\* as it has members.
LEMMA GrowingEnds ==
  ASSUME NEW pool, IsFiniteSet(pool), NEW F \in [SUBSET pool -> SUBSET pool],
         \A S \in SUBSET pool : S \subseteq F[S],
         NEW h, Rounds(h, h[0], F, Cardinality(pool)),
         \A n \in 0 .. Cardinality(pool) : h[n] \in SUBSET pool
  PROVE  F[h[Cardinality(pool)]] = h[Cardinality(pool)] /\ h[0] \subseteq h[Cardinality(pool)]
<1>1. PICK N \in Nat : N = Cardinality(pool)
  BY FS_CardinalityType
<1>2. \A S \in SUBSET pool : IsFiniteSet(S) /\ Cardinality(S) \in Nat
  BY FS_Subset, FS_CardinalityType
<1> DEFINE P == {n \in 0 .. N : h[0] \subseteq h[n] /\ (F[h[n]] = h[n] \/ Cardinality(h[n]) >= n)}
<1>3. 0 \in P
  BY <1>1, <1>2
<1>4. ASSUME NEW n \in 1 .. N, n - 1 \in P
      PROVE  n \in P
  <2>1. PICK A \in SUBSET pool : A = h[n - 1]
    BY <1>1
  <2>2. PICK B \in SUBSET pool : B = h[n]
    BY <1>1
  <2>3. B = F[A] /\ A \subseteq B
    BY <1>1, <2>1, <2>2 DEF Rounds
  <2>. n \in 0 .. N /\ h[0] \subseteq B
    BY <1>4, <2>1, <2>3
  <2>4. CASE F[A] = A
    <3>1. h[0] \subseteq h[n] /\ F[h[n]] = h[n]
      BY <2>2, <2>3, <2>4
    <3> QED
      BY <3>1
  <2>5. CASE F[A] # A
    <3>1. Cardinality(A) >= n - 1
      BY <1>4, <2>1, <2>5
    <3>2. Cardinality(A) < Cardinality(B)
      BY <1>2, <2>3, <2>5, FS_Subset
    <3>3. Cardinality(A) \in Nat /\ Cardinality(B) \in Nat
      BY <1>2
    <3>4. Cardinality(B) >= n
      BY <3>1, <3>2, <3>3
    <3>5. h[0] \subseteq h[n] /\ Cardinality(h[n]) >= n
      BY <2>2, <3>4
    <3> QED
      BY <3>5
  <2> QED
    BY <2>4, <2>5
<1>5. N \in P
  <2> HIDE DEF P
  <2> QED
    BY <1>3, <1>4, UpTo
<1>6. CASE F[h[N]] = h[N]
  BY <1>1, <1>5, <1>6
<1>7. CASE F[h[N]] # h[N]
  <2>1. PICK A \in SUBSET pool : A = h[N]
    BY <1>1
  <2>2. Cardinality(A) >= N /\ Cardinality(A) \in Nat
    BY <1>2, <1>5, <1>7, <2>1
  <2>3. A = pool
    <3>1. Cardinality(A) <= Cardinality(pool)
      BY FS_Subset
    <3>2. Cardinality(A) = Cardinality(pool)
      BY <1>1, <2>2, <3>1
    <3> QED
      BY <3>2, FS_Subset
  <2> QED
    BY <1>7, <2>1, <2>3
<1> QED
  BY <1>6, <1>7

\* The same of rounds that only take members away.
LEMMA ShrinkingEnds ==
  ASSUME NEW pool, IsFiniteSet(pool), NEW F \in [SUBSET pool -> SUBSET pool],
         \A S \in SUBSET pool : F[S] \subseteq S,
         NEW h, Rounds(h, h[0], F, Cardinality(pool)),
         \A n \in 0 .. Cardinality(pool) : h[n] \in SUBSET pool
  PROVE  F[h[Cardinality(pool)]] = h[Cardinality(pool)]
<1>1. PICK N \in Nat : N = Cardinality(pool)
  BY FS_CardinalityType
<1>2. PICK G \in [SUBSET pool -> SUBSET pool] : \A S \in SUBSET pool : G[S] = pool \ F[pool \ S]
  <2> DEFINE G == [S \in SUBSET pool |-> pool \ F[pool \ S]]
  <2>1. G \in [SUBSET pool -> SUBSET pool] /\ \A S \in SUBSET pool : G[S] = pool \ F[pool \ S]
    OBVIOUS
  <2> QED
    BY <2>1
<1>3. PICK k : k = [n \in 0 .. N |-> pool \ h[n]]
  OBVIOUS
<1>4. \A S \in SUBSET pool : S \subseteq G[S]
  <2>1. ASSUME NEW S \in SUBSET pool
        PROVE  S \subseteq G[S]
    <3>1. pool \ S \in SUBSET pool /\ F[pool \ S] \subseteq pool \ S /\ G[S] = pool \ F[pool \ S]
      BY <1>2
    <3> QED
      BY <3>1
  <2> QED
    BY <2>1
<1>5. \A n \in 0 .. N : k[n] = pool \ h[n] /\ k[n] \in SUBSET pool /\ pool \ k[n] = h[n]
  BY <1>1, <1>3
<1>6. Rounds(k, k[0], G, N)
  <2>1. ASSUME NEW n \in 1 .. N
        PROVE  k[n] = G[k[n - 1]]
    <3>1. n - 1 \in 0 .. N /\ n \in 0 .. N
      OBVIOUS
    <3>2. G[k[n - 1]] = pool \ F[pool \ k[n - 1]]
      BY <1>2, <1>5, <3>1
    <3>3. pool \ k[n - 1] = h[n - 1] /\ k[n] = pool \ h[n]
      BY <1>5, <3>1
    <3>4. h[n] = F[h[n - 1]]
      BY <1>1 DEF Rounds
    <3> QED
      BY <3>2, <3>3, <3>4
  <2> QED
    BY <2>1 DEF Rounds
<1>7. G[k[N]] = k[N]
  BY <1>1, <1>4, <1>5, <1>6, GrowingEnds
<1>8. N \in 0 .. N
  OBVIOUS
<1>9. G[k[N]] = pool \ F[pool \ k[N]] /\ pool \ k[N] = h[N] /\ k[N] = pool \ h[N] /\ h[N] \in SUBSET pool
  BY <1>1, <1>2, <1>5, <1>8
<1>10. F[h[N]] \subseteq h[N] /\ pool \ F[h[N]] = pool \ h[N]
  BY <1>7, <1>9
<1> QED
  BY <1>1, <1>9, <1>10

-----------------------------------------------------------------------------
(* The selection of the Java files.                                        *)

\* A selection with its references is closed: who is named by a member is a member.
LEMMA ReferencesFacts ==
  ASSUME NEW pool, IsFiniteSet(pool), NEW selected \in SUBSET pool
  PROVE  /\ WithReferences(selected, pool) \in SUBSET pool
         /\ \A g \in WithReferences(selected, pool), f \in pool :
              TypeName(f) \in Named(g) => f \in WithReferences(selected, pool)
<1> DEFINE Round(S) == S \cup {f \in pool : \E g \in S : TypeName(f) \in Named(g)}
<1>1. PICK N \in Nat : N = Cardinality(pool)
  BY FS_CardinalityType
<1>2. PICK F \in [SUBSET pool -> SUBSET pool] : \A S \in SUBSET pool : F[S] = Round(S)
  <2> DEFINE F == [S \in SUBSET pool |-> Round(S)]
  <2>1. F \in [SUBSET pool -> SUBSET pool] /\ \A S \in SUBSET pool : F[S] = Round(S)
    OBVIOUS
  <2> QED
    BY <2>1
<1> DEFINE Computes(h) == h = [n \in 0 .. N |-> IF n = 0 THEN selected ELSE Round(h[n - 1])]
           more == CHOOSE h : Computes(h)
<1> HIDE DEF Round
<1>3. PICK h \in [0 .. N -> SUBSET pool] : Rounds(h, selected, F, N)
  BY RoundsExist
<1>4. Computes(h)
  <2>1. \A n \in 1 .. N : n - 1 \in 0 .. N
    OBVIOUS
  <2>2. \A n \in 0 .. N : h[n] = IF n = 0 THEN selected ELSE Round(h[n - 1])
    BY <1>2, <1>3, <2>1 DEF Rounds
  <2> QED
    BY <2>2
<1>5. Computes(more)
  <2> HIDE DEF Computes
  <2> QED
    BY <1>4
<1>6. WithReferences(selected, pool) = more[N]
  BY <1>1 DEF WithReferences, Round
<1>7. /\ more[0] = selected
      /\ \A n \in 1 .. N : more[n] = Round(more[n - 1])
  <2> HIDE DEF more
  <2>1. 0 \in 0 .. N /\ \A n \in 1 .. N : n \in 0 .. N /\ n # 0
    OBVIOUS
  <2>2. \A n \in 0 .. N : more[n] = IF n = 0 THEN selected ELSE Round(more[n - 1])
    BY <1>5
  <2> QED
    BY <2>1, <2>2
<1> HIDE DEF more, Computes
<1>8. Rounds(more, selected, F, N) /\ \A n \in 0 .. N : more[n] \in SUBSET pool
  <2>1. PICK Sets : Sets = SUBSET pool
    OBVIOUS
  <2>2. \A n \in 1 .. N : more[n - 1] \in Sets => more[n] = F[more[n - 1]]
    BY <1>2, <1>7, <2>1
  <2>3. selected \in Sets /\ F \in [Sets -> Sets]
    BY <2>1
  <2>4. Rounds(more, selected, F, N) /\ \A n \in 0 .. N : more[n] \in Sets
    BY <1>7, <2>2, <2>3, RoundsTyped
  <2> QED
    BY <2>1, <2>4
<1>9. F[more[N]] = more[N] /\ more[N] \in SUBSET pool
  <2>1. \A S \in SUBSET pool : S \subseteq F[S]
    BY <1>2 DEF Round
  <2>2. Rounds(more, more[0], F, Cardinality(pool))
    BY <1>1, <1>7, <1>8
  <2>3. N \in 0 .. N
    OBVIOUS
  <2> QED
    BY <1>1, <1>8, <2>1, <2>2, <2>3, GrowingEnds
<1>10. Round(more[N]) = more[N]
  BY <1>2, <1>9
<1> QED
  BY <1>6, <1>9, <1>10 DEF Round

\* What is left of a selection needs nothing that is missing or was dropped.
LEMMA FeasibleFacts ==
  ASSUME NEW selected, IsFiniteSet(selected)
  PROVE  /\ Feasible(selected) \in SUBSET selected
         /\ \A f \in Feasible(selected) :
              ~Infeasible(f, Feasible(selected), selected \ Feasible(selected))
<1> DEFINE Round(S) == {f \in S : ~Infeasible(f, S, selected \ S)}
<1>1. PICK N \in Nat : N = Cardinality(selected)
  BY FS_CardinalityType
<1>2. PICK F \in [SUBSET selected -> SUBSET selected] : \A S \in SUBSET selected : F[S] = Round(S)
  <2> DEFINE F == [S \in SUBSET selected |-> Round(S)]
  <2>1. F \in [SUBSET selected -> SUBSET selected] /\ \A S \in SUBSET selected : F[S] = Round(S)
    OBVIOUS
  <2> QED
    BY <2>1
<1> DEFINE Computes(h) == h = [n \in 0 .. N |-> IF n = 0 THEN selected ELSE Round(h[n - 1])]
           left == CHOOSE h : Computes(h)
<1> HIDE DEF Round
<1>3. PICK h \in [0 .. N -> SUBSET selected] : Rounds(h, selected, F, N)
  BY RoundsExist
<1>4. Computes(h)
  <2>1. \A n \in 1 .. N : n - 1 \in 0 .. N
    OBVIOUS
  <2>2. \A n \in 0 .. N : h[n] = IF n = 0 THEN selected ELSE Round(h[n - 1])
    BY <1>2, <1>3, <2>1 DEF Rounds
  <2> QED
    BY <2>2
<1>5. Computes(left)
  <2> HIDE DEF Computes
  <2> QED
    BY <1>4
<1>6. Feasible(selected) = left[N]
  BY <1>1 DEF Feasible, Round
<1>7. /\ left[0] = selected
      /\ \A n \in 1 .. N : left[n] = Round(left[n - 1])
  <2> HIDE DEF left
  <2>1. 0 \in 0 .. N /\ \A n \in 1 .. N : n \in 0 .. N /\ n # 0
    OBVIOUS
  <2>2. \A n \in 0 .. N : left[n] = IF n = 0 THEN selected ELSE Round(left[n - 1])
    BY <1>5
  <2> QED
    BY <2>1, <2>2
<1> HIDE DEF left, Computes
<1>8. Rounds(left, selected, F, N) /\ \A n \in 0 .. N : left[n] \in SUBSET selected
  <2>1. PICK Sets : Sets = SUBSET selected
    OBVIOUS
  <2>2. \A n \in 1 .. N : left[n - 1] \in Sets => left[n] = F[left[n - 1]]
    BY <1>2, <1>7, <2>1
  <2>3. selected \in Sets /\ F \in [Sets -> Sets]
    BY <2>1
  <2>4. Rounds(left, selected, F, N) /\ \A n \in 0 .. N : left[n] \in Sets
    BY <1>7, <2>2, <2>3, RoundsTyped
  <2> QED
    BY <2>1, <2>4
<1>9. F[left[N]] = left[N] /\ left[N] \in SUBSET selected
  <2>1. \A S \in SUBSET selected : F[S] \subseteq S
    BY <1>2 DEF Round
  <2>2. Rounds(left, left[0], F, Cardinality(selected))
    BY <1>1, <1>7, <1>8
  <2>3. N \in 0 .. N
    OBVIOUS
  <2> QED
    BY <1>1, <1>8, <2>1, <2>2, <2>3, ShrinkingEnds
<1>10. Round(left[N]) = left[N]
  BY <1>2, <1>9
<1> QED
  BY <1>6, <1>9, <1>10 DEF Round

\* When names are clear, the selected files compile.
LEMMA SelectionCompiles ==
  ASSUME IsFiniteSet(checkout), NamesAreClear, kept = RelevantSources
  PROVE  Compiles
<1> DEFINE pool == OfTargets(checkout \cap Java)
           start == Repositories(pool) \cup Entities(pool) \cup Sites(pool)
           selected == WithReferences(start, pool)
           dropped == selected \ kept
<1>1. pool \in SUBSET (checkout \cap Java) /\ IsFiniteSet(pool)
  <2>1. pool \in SUBSET (checkout \cap Java)
    BY DEF OfTargets
  <2>2. pool \in SUBSET checkout
    BY <2>1
  <2> HIDE DEF pool
  <2> QED
    BY <2>1, <2>2, FS_Subset
<1>2. start \in SUBSET pool
  BY DEF Repositories, Entities, Sites
<1>3. /\ selected \in SUBSET pool
      /\ \A g \in selected, f \in pool : TypeName(f) \in Named(g) => f \in selected
  <2> HIDE DEF pool, start
  <2> QED
    BY <1>1, <1>2, ReferencesFacts
<1>4. /\ kept \in SUBSET selected
      /\ \A f \in kept : ~Infeasible(f, kept, dropped)
  <2>1. kept = Feasible(selected)
    BY DEF RelevantSources
  <2>2. IsFiniteSet(selected)
    <3> HIDE DEF pool, selected
    <3> QED
      BY <1>1, <1>3, FS_Subset
  <2> HIDE DEF selected
  <2> QED
    BY <2>1, <2>2, FeasibleFacts
<1>5. \A f \in pool : \A g \in Sources[f].beside : g \in pool
  <2>1. ASSUME NEW f \in pool, NEW g \in Sources[f].beside
        PROVE  g \in pool
    <3>1. f \in checkout \cap Java /\ g \in checkout /\ g \in Java /\ Sources[g].module = Sources[f].module
      BY <1>1, <2>1, WitnessAssumption DEF NamesAreClear
    <3> QED
      BY <2>1, <3>1 DEF OfTargets
  <2> QED
    BY <2>1
<1> HIDE DEF pool, start, selected
<1>6. ASSUME NEW f \in kept, NEW g \in Sources[f].imports \cup Sources[f].beside
      PROVE  g \in kept
  <2>1. f \in selected /\ f \in pool /\ f \in checkout /\ f \in Java
    BY <1>1, <1>3, <1>4
  <2>2. CASE g \in Sources[f].imports
    <3>1. g # Missing /\ TypeName(g) \in NamesOf(kept)
      BY <1>4, <2>2 DEF Infeasible
    <3>2. PICK h \in kept : TypeName(h) = TypeName(g)
      BY <3>1 DEF NamesOf
    <3>3. g \in Mentioned /\ h \in Mentioned
      BY <1>1, <1>3, <1>4, <2>1, <2>2, <3>1 DEF Mentioned
    <3> QED
      BY <3>2, <3>3 DEF NamesAreClear
  <2>3. CASE g \in Sources[f].beside
    <3>1. g \in pool /\ TypeName(g) \in Named(f)
      BY <1>5, <2>1, <2>3 DEF Named
    <3>2. g \in selected
      BY <1>3, <2>1, <3>1
    <3>3. Named(f) \cap NamesOf(dropped) = {}
      BY <1>4 DEF Infeasible
    <3> QED
      BY <3>1, <3>2, <3>3 DEF NamesOf
  <2> QED
    BY <1>6, <2>2, <2>3
<1> QED
  BY <1>6 DEF Compiles

-----------------------------------------------------------------------------
(* A run of a collection and its session.                                  *)

Before == {"IDLE", "BEGIN"}
InJava == {"COMPILE", "RUN"}
Unasked == Before \cup InJava \cup {"JAVA", "GRANT"}

SessionOfRun ==
  /\ granted \in [state : {"NONE", "READY", "CLOSED"}, outcome : {"NONE", "COMPLETE", "REVOKED"},
                  stored : SUBSET witnessed]
  /\ at \in Unasked => granted = NoGrant
  /\ at = "CLOSE" => granted.stored = witnessed
  /\ granted.outcome = "COMPLETE" => at = "RETURNED" /\ granted.state = "CLOSED"
  /\ VerdictHasItsSession

WitnessInv ==
  /\ at \in Unasked \cup {"OBSERVE", "CLOSE", "RETURNED"}
  /\ checkout \in Checkouts \cup {{}}
  /\ at \in Before => witnessed = {} /\ verdicts = {}
  /\ at \in Before \cup {"JAVA"} => kept = {}
  /\ at \in InJava \cup {"JAVA"} => witnessed \cap JavaClaims = {}
  /\ at = "COMPILE" => kept = RelevantSources
  /\ IsFiniteSet(kept)
  /\ EvidenceIsNotGuessed
  /\ SessionOfRun

LEMMA WitnessStarts == WitnessInit => WitnessInv
<1> SUFFICES ASSUME WitnessInit
             PROVE  WitnessInv
  OBVIOUS
<1>1. granted = NoGrant /\ witnessed = {} /\ at = "IDLE" /\ kept = {} /\ checkout = {} /\ verdicts = {}
  BY DEF WitnessInit
<1>2. SessionOfRun
  BY <1>1 DEF SessionOfRun, VerdictHasItsSession, NoGrant, Unasked, Before
<1>3. EvidenceIsNotGuessed
  BY <1>1 DEF EvidenceIsNotGuessed
<1> QED
  BY <1>1, <1>2, <1>3, FS_EmptySet DEF WitnessInv, Unasked, Before, InJava

LEMMA CheckoutIsFinite ==
  ASSUME checkout \in Checkouts \cup {{}}
  PROVE  IsFiniteSet(checkout)
BY WitnessAssumption, FS_EmptySet

\* What is relevant is a finite selection of the checkout.
LEMMA RelevantAreFinite ==
  ASSUME IsFiniteSet(checkout)
  PROVE  IsFiniteSet(RelevantSources)
<1> DEFINE pool == OfTargets(checkout \cap Java)
           start == Repositories(pool) \cup Entities(pool) \cup Sites(pool)
<1>1. pool \in SUBSET checkout /\ IsFiniteSet(pool)
  <2>1. pool \in SUBSET checkout
    BY DEF OfTargets
  <2> HIDE DEF pool
  <2> QED
    BY <2>1, FS_Subset
<1>2. start \in SUBSET pool
  BY DEF Repositories, Entities, Sites
<1>3. RelevantSources = Feasible(WithReferences(start, pool))
  BY DEF RelevantSources
<1> HIDE DEF pool, start
<1>4. PICK selected \in SUBSET pool : selected = WithReferences(start, pool)
  BY <1>1, <1>2, ReferencesFacts
<1>5. IsFiniteSet(selected)
  BY <1>1, <1>4, FS_Subset
<1>6. Feasible(selected) \in SUBSET selected
  BY <1>5, FeasibleFacts
<1> QED
  BY <1>3, <1>4, <1>5, <1>6, FS_Subset

\* The first Python file of a checkout is one.
LEMMA FirstModuleIsPython ==
  ASSUME checkout \in Checkouts \cup {{}}, PythonAsked
  PROVE  FirstModule \in File \ Java
<1> DEFINE there == {i \in DOMAIN PythonPaths : PythonPaths[i] \in checkout}
<1>1. PICK f \in checkout \ Java : f \in File
  BY WitnessAssumption DEF PythonAsked
<1>2. there # {} /\ there \in SUBSET Nat
  BY <1>1, WitnessAssumption
<1>3. PICK i \in there : \A j \in there : i <= j
  <2> HIDE DEF there
  <2> QED
    BY <1>2, LeastNumber
<1>4. \A j \in 1 .. i - 1 : j \in DOMAIN PythonPaths /\ ~(i <= j)
  BY <1>3, WitnessAssumption
<1>5. /\ i \in DOMAIN PythonPaths /\ PythonPaths[i] \in checkout
      /\ \A j \in 1 .. i - 1 : PythonPaths[j] \notin checkout
  BY <1>3, <1>4
<1>6. \E k \in DOMAIN PythonPaths : FirstModule = PythonPaths[k]
  BY <1>5 DEF FirstModule
<1> QED
  BY <1>6, WitnessAssumption

\* A recorder tells of the table of any repository that could have been given.
LEMMA RecorderIsNotGuessed ==
  ASSUME IsFiniteSet(kept), NEW x \in Reachable, NEW c, Witnesses(x, c)
  PROVE  \A r \in Denotes(kept, x[2][x[3]].field) : \E e \in EntityOf(r) : Sources[e].table = c.table
<1>1. PICK type : type = x[2][x[3]].field
  OBVIOUS
<1>2. type \in Proxied(kept, x[1])
  <2>1. x[3] \in 1 .. x[3]
    BY DEF Reachable
  <2> QED
    BY <1>1, <2>1 DEF Reachable
<1>3. PICK r : Denotes(kept, type) = {r}
  <2>1. Denotes(kept, type) \in SUBSET kept
    BY DEF Denotes, Repositories
  <2>2. IsFiniteSet(Denotes(kept, type)) /\ Cardinality(Denotes(kept, type)) = 1
    BY <1>2, <2>1, FS_Subset DEF Proxied, Resolvable
  <2> QED
    BY <2>2, FS_Singleton
<1>4. RepositoryOf(type) = r
  BY <1>3 DEF RepositoryOf
<1> QED
  BY <1>1, <1>3, <1>4 DEF Witnesses

\* A step that leaves files, claims and observations alone keeps what is said of them.
LEMMA EvidenceRests ==
  ASSUME EvidenceIsNotGuessed, UNCHANGED <<claims, kept, ran, witnessed>>
  PROVE  EvidenceIsNotGuessed'
BY DEF EvidenceIsNotGuessed, JavaClaims, Denotes, Repositories, EntityOf, Entities

\* What Python is seen to write is no edge of Java.
LEMMA PythonIsApart ==
  ASSUME checkout \in Checkouts \cup {{}}, PythonAsked, NEW reached \in SUBSET TestPlan(FirstModule)
  PROVE  Corroborated(reached) \cap JavaClaims = {}
<1>1. FirstModule \in File \ Java
  BY FirstModuleIsPython
<1>2. \A case \in reached : \A c \in case.writes : c.shape = "DERIVES"
  BY <1>1, WitnessAssumption DEF TestPlan
<1> QED
  BY <1>2 DEF Corroborated, Written, JavaClaims, Anchored

LEMMA BeginKeeps ==
  ASSUME WitnessInv, CollectRuntime \/ NothingGroundable \/ SkipPython \/ RunPython \/ PythonFails
  PROVE  WitnessInv'
<1>1. at \in Before /\ witnessed = {} /\ verdicts = {} /\ kept = {} /\ granted = NoGrant
  BY DEF WitnessInv, SessionOfRun, Before, Unasked, CollectRuntime, NothingGroundable, SkipPython, RunPython,
         PythonFails
<1>2. kept' = {} /\ granted' = NoGrant /\ checkout' \in Checkouts \cup {{}} /\ at' \in {"BEGIN", "RETURNED", "JAVA"}
  BY <1>1 DEF WitnessInv, CollectRuntime, NothingGroundable, SkipPython, RunPython, PythonFails
<1>3. witnessed' \cap JavaClaims' = {}
  <2>1. CASE RunPython
    BY <1>1, <2>1, PythonIsApart DEF WitnessInv, RunPython, JavaClaims
  <2>2. CASE CollectRuntime \/ NothingGroundable \/ SkipPython \/ PythonFails
    BY <1>1, <2>2 DEF CollectRuntime, NothingGroundable, SkipPython, PythonFails
  <2> QED
    BY <2>1, <2>2
<1>4. at' \in {"BEGIN", "RETURNED"} => witnessed' = {} /\ verdicts' = {}
  BY <1>1 DEF CollectRuntime, NothingGroundable, SkipPython, RunPython, PythonFails
<1>5. EvidenceIsNotGuessed'
  BY <1>3 DEF EvidenceIsNotGuessed
<1>6. SessionOfRun'
  BY <1>2, <1>4 DEF SessionOfRun, VerdictHasItsSession, NoGrant, Unasked, Before, InJava
<1> QED
  BY <1>2, <1>3, <1>4, <1>5, <1>6, FS_EmptySet DEF WitnessInv, Unasked, Before, InJava

\* Before the session there is none.
LEMMA UnaskedSession ==
  ASSUME granted' = NoGrant, at' \in Unasked
  PROVE  SessionOfRun'
BY DEF SessionOfRun, VerdictHasItsSession, NoGrant, Unasked, Before, InJava

LEMMA JavaKeeps ==
  ASSUME WitnessInv, SkipJava \/ NoMachine \/ SelectSources \/ JavaFails \/ CompileHarness \/ RunHarness
  PROVE  WitnessInv'
<1>1. /\ at \in InJava \cup {"JAVA"} /\ witnessed \cap JavaClaims = {} /\ granted = NoGrant
      /\ IsFiniteSet(kept) /\ checkout \in Checkouts \cup {{}}
  BY DEF WitnessInv, SessionOfRun, Unasked, InJava, SkipJava, NoMachine, SelectSources, JavaFails,
         CompileHarness, RunHarness, JavaAsked
<1>2. granted' = granted /\ checkout' = checkout /\ claims' = claims /\ at' \in {"GRANT", "COMPILE", "RUN"}
  BY DEF SkipJava, NoMachine, SelectSources, JavaFails, CompileHarness, RunHarness
<1>3. SessionOfRun'
  BY <1>1, <1>2, UnaskedSession DEF Unasked, InJava
<1>4. CASE SelectSources
  <2>1. kept' = RelevantSources' /\ at' = "COMPILE" /\ witnessed' = witnessed
    <3>1. RelevantSources' = RelevantSources
      BY <1>2 DEF RelevantSources, OfTargets, JavaClaims
    <3> QED
      BY <1>4, <3>1 DEF SelectSources
  <2>2. IsFiniteSet(kept')
    BY <1>1, <1>4, CheckoutIsFinite, RelevantAreFinite DEF SelectSources
  <2>3. witnessed' \cap JavaClaims' = {}
    BY <1>1, <1>2, <2>1 DEF JavaClaims
  <2>4. EvidenceIsNotGuessed'
    BY <2>3 DEF EvidenceIsNotGuessed
  <2> QED
    BY <1>1, <1>2, <1>3, <2>1, <2>2, <2>3, <2>4 DEF WitnessInv, Unasked, Before, InJava
<1>5. CASE SkipJava \/ NoMachine \/ JavaFails \/ CompileHarness
  <2>1. kept' = kept /\ ran' = ran /\ witnessed' = witnessed /\ at' \in {"GRANT", "RUN"}
    BY <1>5 DEF SkipJava, NoMachine, JavaFails, CompileHarness
  <2>2. EvidenceIsNotGuessed'
    BY <1>2, <2>1, EvidenceRests DEF WitnessInv
  <2>3. witnessed' \cap JavaClaims' = {}
    BY <1>1, <1>2, <2>1 DEF JavaClaims
  <2> QED
    BY <1>1, <1>2, <1>3, <2>1, <2>2, <2>3 DEF WitnessInv, Unasked, Before, InJava
<1>6. CASE RunHarness
  <2>1. PICK seen \in SUBSET Reachable : ran' = seen /\ witnessed' = witnessed \cup Matched(seen)
    BY <1>6 DEF RunHarness
  <2>2. kept' = kept /\ at' = "GRANT" /\ JavaClaims' = JavaClaims
    BY <1>6 DEF RunHarness, JavaClaims
  <2>3. /\ \A type : Denotes(kept', type) = Denotes(kept, type)
        /\ \A r : EntityOf(r)' = EntityOf(r)
    BY <2>2 DEF EntityOf
  <2>4. ASSUME NEW c \in JavaClaims', c \in witnessed'
        PROVE  \E x \in ran' :
                 \A r \in Denotes(kept', x[2][x[3]].field) : \E e \in EntityOf(r)' : Sources[e].table = c.table
    <3>1. c \in Matched(seen)
      BY <1>1, <2>1, <2>2, <2>4
    <3>2. PICK x \in seen : Witnesses(x, c)
      BY <3>1 DEF Matched
    <3>3. \A r \in Denotes(kept, x[2][x[3]].field) : \E e \in EntityOf(r) : Sources[e].table = c.table
      BY <1>1, <3>2, RecorderIsNotGuessed
    <3> QED
      BY <2>1, <2>3, <3>2, <3>3
  <2>5. EvidenceIsNotGuessed'
    BY <2>4 DEF EvidenceIsNotGuessed
  <2> QED
    BY <1>1, <1>2, <1>3, <2>2, <2>5 DEF WitnessInv, Unasked, Before, InJava
<1> QED
  BY <1>4, <1>5, <1>6

LEMMA SessionKeeps ==
  ASSUME WitnessInv,
         \/ NothingObserved \/ GrantDenied \/ GrantItself \/ ObserveNext \/ ObserveRefused
         \/ BeginDrain \/ CloseItself \/ OperatorRevokes
  PROVE  WitnessInv'
<1>1. UNCHANGED <<checkout, claims, kept, ran, witnessed>>
  BY DEF NothingObserved, GrantDenied, GrantItself, ObserveNext, ObserveRefused, BeginDrain, CloseItself,
         OperatorRevokes
<1>2. EvidenceIsNotGuessed'
  BY <1>1, EvidenceRests DEF WitnessInv
<1>3. PICK g \in [state : {"NONE", "READY", "CLOSED"}, outcome : {"NONE", "COMPLETE", "REVOKED"},
                  stored : SUBSET witnessed] : g = granted
  BY DEF WitnessInv, SessionOfRun
<1>4. at = "GRANT" => g = NoGrant
  BY <1>3 DEF WitnessInv, SessionOfRun, Unasked
<1>5. CASE NothingObserved \/ GrantDenied
  <2>1. at' = "RETURNED" /\ verdicts' = {} /\ granted' = g /\ g.outcome = "NONE"
    BY <1>3, <1>4, <1>5 DEF NothingObserved, GrantDenied, NoGrant
  <2>2. SessionOfRun'
    BY <1>1, <2>1 DEF SessionOfRun, VerdictHasItsSession, Unasked, Before, InJava
  <2> QED
    BY <1>1, <1>2, <2>1, <2>2 DEF WitnessInv, Unasked, Before, InJava
<1>6. CASE GrantItself
  <2>1. /\ at' = "OBSERVE" /\ granted'.outcome = "NONE"
        /\ granted' \in [state : {"NONE", "READY", "CLOSED"}, outcome : {"NONE", "COMPLETE", "REVOKED"},
                         stored : SUBSET witnessed]
    BY <1>6 DEF GrantItself, NoGrant
  <2>2. SessionOfRun'
    BY <1>1, <2>1 DEF SessionOfRun, VerdictHasItsSession, Unasked, Before, InJava
  <2> QED
    BY <1>1, <1>2, <2>1, <2>2 DEF WitnessInv, Unasked, Before, InJava
<1>7. CASE ObserveNext
  <2>1. at = "OBSERVE" /\ at' = "OBSERVE" /\ g.outcome # "COMPLETE"
    BY <1>3, <1>7 DEF ObserveNext, WitnessInv, SessionOfRun
  <2>2. PICK c \in witnessed : granted' = [g EXCEPT !.stored = g.stored \cup {c}]
    BY <1>3, <1>7 DEF ObserveNext
  <2>3. /\ granted' \in [state : {"NONE", "READY", "CLOSED"}, outcome : {"NONE", "COMPLETE", "REVOKED"},
                         stored : SUBSET witnessed]
        /\ granted'.outcome = g.outcome
    BY <2>2
  <2>4. SessionOfRun'
    BY <1>1, <2>1, <2>3 DEF SessionOfRun, VerdictHasItsSession, Unasked, Before, InJava
  <2> QED
    BY <1>1, <1>2, <2>1, <2>4 DEF WitnessInv, Unasked, Before, InJava
<1>8. CASE ObserveRefused
  <2>1. at' = "RETURNED" /\ verdicts' = {} /\ g.outcome # "COMPLETE"
    BY <1>3, <1>8 DEF ObserveRefused, WitnessInv, SessionOfRun
  <2>2. /\ granted' \in [state : {"NONE", "READY", "CLOSED"}, outcome : {"NONE", "COMPLETE", "REVOKED"},
                         stored : SUBSET witnessed]
        /\ granted'.outcome # "COMPLETE"
    BY <1>3, <1>8, <2>1 DEF ObserveRefused
  <2>3. SessionOfRun'
    BY <1>1, <2>1, <2>2 DEF SessionOfRun, VerdictHasItsSession, Unasked, Before, InJava
  <2> QED
    BY <1>1, <1>2, <2>1, <2>3 DEF WitnessInv, Unasked, Before, InJava
<1>9. CASE BeginDrain
  <2>1. /\ at = "OBSERVE" /\ granted' = g /\ g.stored = witnessed /\ g.outcome # "COMPLETE"
        /\ \/ at' = "RETURNED" /\ verdicts' = {}
           \/ at' = "CLOSE"
    BY <1>3, <1>9 DEF BeginDrain, WitnessInv, SessionOfRun
  <2>2. SessionOfRun'
    BY <1>1, <2>1 DEF SessionOfRun, VerdictHasItsSession, Unasked, Before, InJava
  <2> QED
    BY <1>1, <1>2, <2>1, <2>2 DEF WitnessInv, Unasked, Before, InJava
<1>10. CASE CloseItself
  <2>1. at = "CLOSE" /\ at' = "RETURNED" /\ g.stored = witnessed /\ g.outcome # "COMPLETE"
    BY <1>3, <1>10 DEF CloseItself, WitnessInv, SessionOfRun
  <2>2. /\ granted' \in [state : {"NONE", "READY", "CLOSED"}, outcome : {"NONE", "COMPLETE", "REVOKED"},
                         stored : SUBSET witnessed]
        /\ granted'.stored = witnessed
        /\ granted'.outcome = "COMPLETE" => granted'.state = "CLOSED"
        /\ granted'.outcome # "COMPLETE" => verdicts' = {}
    BY <1>3, <1>10, <2>1 DEF CloseItself, Reported
  <2>3. SessionOfRun'
    BY <1>1, <2>1, <2>2 DEF SessionOfRun, VerdictHasItsSession, Unasked, Before, InJava
  <2> QED
    BY <1>1, <1>2, <2>1, <2>3 DEF WitnessInv, Unasked, Before, InJava
<1>11. CASE OperatorRevokes
  <2>1. g.state = "READY" /\ at' = at /\ verdicts' = verdicts /\ granted' = [g EXCEPT !.state = "CLOSED", !.outcome = "REVOKED"]
    BY <1>3, <1>11 DEF OperatorRevokes
  <2>2. /\ granted' \in [state : {"NONE", "READY", "CLOSED"}, outcome : {"NONE", "COMPLETE", "REVOKED"},
                         stored : SUBSET witnessed]
        /\ granted'.stored = g.stored /\ granted'.outcome = "REVOKED"
    BY <2>1
  <2>3. g.outcome # "COMPLETE" /\ at \notin Unasked /\ ~(at = "RETURNED" /\ verdicts # {})
    BY <1>3, <2>1 DEF WitnessInv, SessionOfRun, VerdictHasItsSession, NoGrant
  <2>4. SessionOfRun'
    BY <1>1, <1>3, <2>1, <2>2, <2>3 DEF WitnessInv, SessionOfRun, VerdictHasItsSession
  <2> QED
    BY <1>1, <1>2, <2>1, <2>3, <2>4 DEF WitnessInv, Unasked, Before, InJava
<1> QED
  BY <1>5, <1>6, <1>7, <1>8, <1>9, <1>10, <1>11

LEMMA WitnessRestKeeps == WitnessInv /\ UNCHANGED witnessVars => WitnessInv'
<1> SUFFICES ASSUME WitnessInv, UNCHANGED witnessVars
             PROVE  WitnessInv'
  OBVIOUS
<1>1. UNCHANGED <<checkout, claims, at, kept, ran, witnessed, verdicts, granted>>
  BY DEF witnessVars
<1>2. EvidenceIsNotGuessed'
  BY <1>1, EvidenceRests DEF WitnessInv
<1>3. RelevantSources' = RelevantSources /\ JavaClaims' = JavaClaims
  BY <1>1 DEF RelevantSources, OfTargets, JavaClaims
<1>4. SessionOfRun'
  BY <1>1 DEF WitnessInv, SessionOfRun, VerdictHasItsSession
<1> QED
  BY <1>1, <1>2, <1>3, <1>4 DEF WitnessInv

LEMMA WitnessInvariant == Spec => []WitnessInv
<1>1. Init => WitnessInv
  BY WitnessStarts DEF Init
<1>2. WitnessInv /\ WitnessNext => WitnessInv'
  BY BeginKeeps, JavaKeeps, SessionKeeps DEF WitnessNext
<1>3. WitnessInv /\ [Next]_planeVars => WitnessInv'
  BY <1>2, WitnessRestKeeps DEF Next, planeVars
<1> QED
  BY <1>1, <1>3, PTL DEF Spec

\* Evidence of an execution is about the code that was executed: the selected files
\* compile, no edge is corroborated through a repository that two could be, and a
\* verdict names a session that ended with its observations; for any checkout, claims
\* and failures, and whatever an operator does.
THEOREM EvidenceIsEarned == Spec => []WitnessIsEarned
<1>1. WitnessInv => KeptFilesCompile
  BY CheckoutIsFinite, SelectionCompiles DEF WitnessInv, KeptFilesCompile
<1>2. WitnessInv => EvidenceIsNotGuessed /\ VerdictHasItsSession
  BY DEF WitnessInv, SessionOfRun
<1> QED
  BY <1>1, <1>2, WitnessInvariant, PTL DEF WitnessIsEarned
=============================================================================
