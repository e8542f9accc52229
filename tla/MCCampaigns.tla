------------------------------ MODULE MCCampaigns ------------------------------
EXTENDS Campaigns

StudyJobsMC == [s \in Studies |-> IF s = main THEN {"fit", "infer", "family"} ELSE {"case"}]
NeedsMC == [s \in Studies |-> [j \in StudyJobs[s] |-> IF j = "infer" THEN {"fit"} ELSE {}]]
StudyWorkersMC == [s \in Studies |-> 2]
MaxLaunchesMC == [s \in Studies |-> IF s = main THEN 2 ELSE 1]

OneCase == <<"case">>
TargetMC == [probe |-> 1, native_gate |-> 2, panel |-> 3, extension |-> 4]
CostsMC == [stage \in DOMAIN TargetMC |-> {1}]

Together == {{"chain", "bridge"}, {"quality"}}

=============================================================================
