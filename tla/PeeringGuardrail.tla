--------------------------- MODULE PeeringGuardrail ---------------------------
(***************************************************************************)
(* The allow-list and the disallow-list of the peering check CN03          *)
(* (modules/cloud-api/vpc/cn03_shared.go and *-vpc-cn03.go): which entries *)
(* are tried, whether a dry run is permitted, and whether the outcome is   *)
(* the one the lists lead to expect.                                       *)
(*                                                                         *)
(* A network has an id and may have other spellings: a Name tag, or the    *)
(* full path of the resource.  The lists hold what the configuration says, *)
(* the dry run is made with the id.                                        *)
(***************************************************************************)

CONSTANTS
    Spellings,  \* what a configuration may call a network
    Networks,   \* the ids of networks, each a spelling of itself
    Resolved,   \* the id of each spelling, or NoNetwork
    NoNetwork   \* a spelling that names no network, or several

ASSUME GuardrailAssumption ==
    /\ Networks \subseteq Spellings
    /\ NoNetwork \notin Spellings
    /\ Resolved \in [Spellings -> Networks \cup {NoNetwork}]
    /\ \A n \in Networks : Resolved[n] = n

(* The lists of the configuration: the YAML list and the comma-separated     *)
(* one, the first occurrence of an entry counting.                           *)
ResolveVpcEntries(lists, key) == lists[key].yaml \cup lists[key].csv

AllowedEntries(lists) == ResolveVpcEntries(lists, "allow")

DisallowedEntries(lists) == ResolveVpcEntries(lists, "disallow")

(* The requester as it is spelled, looked up in the allow-list. *)
EvaluatePeerAgainstAllowList(lists, peer) ==
    [allowed |-> peer \in AllowedEntries(lists), defined |-> AllowedEntries(lists) # {}]

(* Mutant of EnrichEvidence: only a denial of a listed requester is a conflict. *)
AllowListConflictsOnly(lists, requester, permitted) ==
    LET listed == requester \in AllowedEntries(lists)
        defined == AllowedEntries(lists) # {}
    IN  [permitted |-> permitted, listed |-> listed, defined |-> defined,
         mismatch |-> defined /\ listed /\ ~permitted]

(* A dry run is in conflict with the allow-list when there is one and it     *)
(* does not say what the dry run says; the disallow-list is not looked at.   *)
EnrichEvidence(lists, requester, permitted) ==
    LET listed == requester \in AllowedEntries(lists)
        defined == AllowedEntries(lists) # {}
    IN  [permitted |-> permitted, listed |-> listed, defined |-> defined,
         mismatch |-> defined /\ permitted # listed]

(* Azure and GCP have no dry run: the lists themselves decide. *)
SimulatedGuardrail(lists, requester) ==
    requester \in AllowedEntries(lists) /\ requester \notin DisallowedEntries(lists)

-----------------------------------------------------------------------------
(* The outcomes a dry run from `requester' may have on each provider, where   *)
(* `denied' are the requesters the guardrail of the account denies.  AWS       *)
(* takes every error but DryRunOperation for a denial.                         *)

AWSDryRun(lists, denied, requester) ==
    {EnrichEvidence(lists, requester, permitted) : permitted \in {requester \notin denied, FALSE}}

AzureDryRun(lists, requester) ==
    {EnrichEvidence(lists, requester, SimulatedGuardrail(lists, requester))}

GCPDryRun(lists, requester) ==
    {EnrichEvidence(lists, requester, SimulatedGuardrail(lists, requester))}

DryRun(provider, lists, denied, requester) ==
    CASE provider = "aws"   -> AWSDryRun(lists, denied, requester)
      [] provider = "azure" -> AzureDryRun(lists, requester)
      [] provider = "gcp"   -> GCPDryRun(lists, requester)
=============================================================================
