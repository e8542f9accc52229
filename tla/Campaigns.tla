------------------------------- MODULE Campaigns -------------------------------
(* The campaigns that share one machine: the chain of breadth studies, the  *)
(* useful-quality study and the scaled bridge.  They have nothing in common *)
(* but the lease of the native resources.                                   *)
EXTENDS StudyChain, BridgeBudget, UsefulQuality

CONSTANTS
  Programmes,  \* the sets of campaigns an operator may use
  MaxTotalFaults  \* bound: the faults of all campaigns together

VARIABLE programme   \* those of this behaviour

campaignVars == <<programme, holders, chainVars, bridgeVars, qualityVars>>

CampaignsInit ==
  /\ programme \in Programmes
  /\ holders = {}
  /\ ChainInit /\ BridgeInit /\ QualityInit

FewFaults == faults' + bridgeFaults' + qualityFaults' <= MaxTotalFaults

ChainStep ==
  /\ "chain" \in programme /\ ChainNext /\ UNCHANGED <<bridgeVars, qualityVars, programme>>
  /\ FewFaults
BridgeStep ==
  /\ scaled \in programme /\ BridgeNext /\ UNCHANGED <<chainVars, qualityVars, programme>>
  /\ FewFaults
QualityStep ==
  /\ study \in programme /\ QualityNext /\ UNCHANGED <<chainVars, bridgeVars, programme>>
  /\ FewFaults

CampaignsNext == ChainStep \/ BridgeStep \/ QualityStep

CampaignsSpec == CampaignsInit /\ [][CampaignsNext]_campaignVars

-----------------------------------------------------------------------------

Computing ==
  {s \in Studies : \E w \in live : w[1] = s}
  \cup {c \in {scaled} : \E i \in DOMAIN attempts : attempts[i].worker = "running"}
  \cup {c \in {study} : \E r \in Rows : Live(r)}

Commanding ==
  {s \in Studies : phase[s] \in {"holding", "closing"}}
  \cup {c \in {scaled} : bridge # "down"}
  \cup {c \in {study} : quality # "down"}

\* The machine computes for one campaign at a time, and a controller never
\* commands while workers of another campaign, or orphans of one that was
\* killed, still compute (worker_locks.py: children inherit the same open
\* descriptions).
OneCampaignComputes ==
  /\ \A a, b \in Computing \cup Commanding : a = b
  /\ \A s \in Studies : phase[s] \in {"holding", "closing"} => live = own

=============================================================================
