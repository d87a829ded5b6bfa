----------------------------- MODULE RuntimePolicy -----------------------------
(***************************************************************************)
(* Who may collect at run time (services/runtime_policy.py): profiles that *)
(* are enabled and disabled, artifacts that are attested for a profile and *)
(* revoked, leases of a profile, an artifact and some datasets, and kill   *)
(* switches that cover profiles or a dataset.  An operation is one         *)
(* transaction, but renewing a lease is two.                               *)
(***************************************************************************)
EXTENDS Integers, FiniteSets

CONSTANTS
  Profiles, Artifacts, Datasets, Leases,
  Switches,       \* kill switches but those of a dataset
  Covers,         \* Covers[x]: the profiles that a kill switch x covers
  Requests,       \* renewals that are served at the same time
  MaxEpoch, MaxRenewals  \* bounds: epochs of a profile, renewals of a lease

ASSUME PolicyAssumption ==
  /\ Covers \in [Switches -> SUBSET Profiles]
  /\ Switches \cap Datasets = {}
  /\ MaxEpoch \in Nat /\ MaxRenewals \in Nat

VARIABLES
  profile,   \* the profiles: state and policy epoch
  attested,  \* attested[p][a]: the attestation of an artifact for a profile
  lease,     \* the leases; token is the number of the token that is valid
  due,       \* the leases that are past their expiry
  killed,    \* the kill switches that are active
  renewal    \* the renewals: the lease that was validated, and the token that was given

policyVars == <<profile, attested, lease, due, killed, renewal>>

NoLease ==
  [state |-> "NONE", profile |-> CHOOSE p \in Profiles : TRUE, artifact |-> CHOOSE a \in Artifacts : TRUE,
   datasets |-> {}, epoch |-> 0, token |-> 0]
NoRenewal == [lease |-> CHOOSE l \in Leases : TRUE, token |-> 0]

PolicyInit ==
  /\ profile = [p \in Profiles |-> [state |-> "NONE", epoch |-> 0]]
  /\ attested = [p \in Profiles |-> [a \in Artifacts |-> "NONE"]]
  /\ lease = [l \in Leases |-> NoLease]
  /\ due = {}
  /\ killed = {}
  /\ renewal = [r \in Requests |-> NoRenewal]

SetProfile(p, state, epoch) == profile' = [profile EXCEPT ![p] = [state |-> state, epoch |-> epoch]]
Attest(p, a, state) == attested' = [attested EXCEPT ![p][a] = state]
\* The active leases among a set end in a state.
EndLeases(leases, state) ==
  lease' = [l \in Leases |-> IF l \in leases /\ lease[l].state = "ACTIVE"
                             THEN [lease[l] EXCEPT !.state = state] ELSE lease[l]]

RegisterProfile(p) ==
  /\ profile[p].state = "NONE"
  /\ SetProfile(p, "DISABLED", 0)
  /\ UNCHANGED <<attested, lease, due, killed, renewal>>

EnableProfile(p) ==
  /\ profile[p].state = "DISABLED" /\ profile[p].epoch < MaxEpoch
  /\ SetProfile(p, "ENABLED", profile[p].epoch + 1)
  /\ UNCHANGED <<attested, lease, due, killed, renewal>>

DisableProfile(p) ==
  /\ profile[p].state = "ENABLED" /\ profile[p].epoch < MaxEpoch
  /\ SetProfile(p, "DISABLED", profile[p].epoch + 1)
  /\ EndLeases({l \in Leases : lease[l].profile = p}, "DISABLED")
  /\ UNCHANGED <<attested, due, killed, renewal>>

\* attest_artifact, and reactivate_artifact of one that was revoked.
AttestArtifact(p, a) ==
  /\ profile[p].state # "NONE" /\ attested[p][a] = "NONE"
  /\ Attest(p, a, "APPROVED")
  /\ UNCHANGED <<profile, lease, due, killed, renewal>>

ReactivateArtifact(p, a) ==
  /\ attested[p][a] = "REVOKED"
  /\ Attest(p, a, "APPROVED")
  /\ UNCHANGED <<profile, lease, due, killed, renewal>>

LeasesOf(p, a) == {l \in Leases : lease[l].profile = p /\ lease[l].artifact = a}
RevokeArtifact(p, a) ==
  /\ attested[p][a] = "APPROVED"
  /\ Attest(p, a, "REVOKED")
  /\ EndLeases(LeasesOf(p, a), "REVOKED")
  /\ UNCHANGED <<profile, due, killed, renewal>>

\* _assert_collection_enabled: no active switch covers the profile or a dataset.
CollectionEnabled(p, datasets) ==
  /\ \A x \in killed \cap Switches : p \notin Covers[x]
  /\ killed \cap datasets = {}

IssueLease(l, p, a, datasets) ==
  /\ lease[l].state = "NONE"
  /\ profile[p].state = "ENABLED"
  /\ attested[p][a] = "APPROVED"
  /\ CollectionEnabled(p, datasets)
  /\ lease' = [lease EXCEPT ![l] =
       [state |-> "ACTIVE", profile |-> p, artifact |-> a, datasets |-> datasets,
        epoch |-> profile[p].epoch, token |-> 1]]
  /\ UNCHANGED <<profile, attested, due, killed, renewal>>

LeaseDue(l) ==
  /\ lease[l].state = "ACTIVE" /\ l \notin due
  /\ due' = due \cup {l}
  /\ UNCHANGED <<profile, attested, lease, killed, renewal>>

\* The policy fence: the profile is enabled, in the epoch of the lease.
InEpoch(l) == profile[lease[l].profile] = [state |-> "ENABLED", epoch |-> lease[l].epoch]

\* validate_lease, for its holder or for the renewal that begins with it: one that
\* comes too late expires the lease.
ValidateLease(r, l) ==
  /\ renewal[r] = NoRenewal
  /\ lease[l].state = "ACTIVE"
  /\ IF l \in due
     THEN EndLeases({l}, "EXPIRED") /\ UNCHANGED renewal
     ELSE /\ InEpoch(l) /\ CollectionEnabled(lease[l].profile, lease[l].datasets)
          /\ lease[l].token <= MaxRenewals
          /\ renewal' = [renewal EXCEPT ![r] = [lease |-> l, token |-> lease[l].token]]
          /\ UNCHANGED lease
  /\ UNCHANGED <<profile, attested, due, killed>>

\* renew_lease asks everything again in its own transaction.
Renewable(r) ==
  LET l == renewal[r].lease IN
  /\ lease[l].token = renewal[r].token
  /\ lease[l].state = "ACTIVE"
  /\ l \notin due
  /\ InEpoch(l)
  /\ CollectionEnabled(lease[l].profile, lease[l].datasets)

RenewLease(r) ==
  LET l == renewal[r].lease IN
  /\ renewal[r] # NoRenewal
  /\ renewal' = [renewal EXCEPT ![r] = NoRenewal]
  /\ IF Renewable(r)
     THEN /\ lease' = [lease EXCEPT ![l].state = "ACTIVE", ![l].token = renewal[r].token + 1]
          /\ due' = due \ {l}
     ELSE /\ IF lease[l].token = renewal[r].token /\ l \in due
             THEN EndLeases({l}, "EXPIRED") ELSE UNCHANGED lease
          /\ UNCHANGED due
  /\ UNCHANGED <<profile, attested, killed>>

\* active_leases: those that are past their expiry end, and the others are listed.
ActiveLeases == {l \in Leases : lease[l].state = "ACTIVE" /\ InEpoch(l) /\ l \notin due}
ListActiveLeases ==
  /\ \E l \in due : lease[l].state = "ACTIVE"
  /\ EndLeases(due, "EXPIRED")
  /\ UNCHANGED <<profile, attested, due, killed, renewal>>

\* set_kill_switch: one that becomes active moves the epoch of the profiles it covers and
\* disables their leases; that of a dataset disables the leases with the dataset.
\* Mistake: only the epoch of the profiles is moved.
KilledByEpoch(x) == IF x \in Switches THEN {l \in Leases : lease[l].profile \in Covers[x]} ELSE {}
Killed(x) ==
  IF x \in Switches THEN {l \in Leases : lease[l].profile \in Covers[x]}
                    ELSE {l \in Leases : x \in lease[l].datasets}
Covered(x) == IF x \in Switches THEN {p \in Covers[x] : profile[p].state # "NONE"} ELSE {}

ActivateKillSwitch(x) ==
  /\ x \notin killed
  /\ \A p \in Covered(x) : profile[p].epoch < MaxEpoch
  /\ killed' = killed \cup {x}
  /\ profile' = [p \in Profiles |->
       IF p \in Covered(x) THEN [profile[p] EXCEPT !.epoch = @ + 1] ELSE profile[p]]
  /\ EndLeases(Killed(x), "DISABLED")
  /\ UNCHANGED <<attested, due, renewal>>

LiftKillSwitch(x) ==
  /\ x \in killed
  /\ killed' = killed \ {x}
  /\ UNCHANGED <<profile, attested, lease, due, renewal>>

PolicyNext ==
  \/ \E p \in Profiles : RegisterProfile(p) \/ EnableProfile(p) \/ DisableProfile(p)
  \/ \E p \in Profiles, a \in Artifacts :
       \/ AttestArtifact(p, a) \/ ReactivateArtifact(p, a) \/ RevokeArtifact(p, a)
       \/ \E l \in Leases, datasets \in SUBSET Datasets \ {{}} : IssueLease(l, p, a, datasets)
  \/ \E l \in Leases : LeaseDue(l) \/ \E r \in Requests : ValidateLease(r, l)
  \/ \E r \in Requests : RenewLease(r)
  \/ ListActiveLeases
  \/ \E x \in Switches \cup Datasets : ActivateKillSwitch(x) \/ LiftKillSwitch(x)
-----------------------------------------------------------------------------
(* Properties.                                                             *)

\* A lease that is listed as active or could be renewed is one that could be issued
\* now: no switch is on for it and its artifact is approved, though neither the list
\* nor the renewal asks for the attestation, nor the list for the switches.
LiveLeasesAreAllowed ==
  \A l \in ActiveLeases :
    /\ attested[lease[l].profile][lease[l].artifact] = "APPROVED"
    /\ CollectionEnabled(lease[l].profile, lease[l].datasets)

\* A lease that was ended once, by an operator, a switch or time, does not come back, be
\* the switch lifted, the profile enabled or the artifact approved again.
EndedLeasesStay ==
  [][\A l \in Leases : l \notin ActiveLeases /\ lease[l].state # "NONE" => l \notin ActiveLeases']_policyVars
=============================================================================
