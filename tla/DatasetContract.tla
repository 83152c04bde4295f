---------------------------- MODULE DatasetContract ----------------------------
(***************************************************************************)
(* What the client of a dataset may rely on, whatever happens inside: a    *)
(* job that is accepted is settled once, completed or failed; a completed  *)
(* job has delivered its file; and the dataset is READY only with the file *)
(* of a completed job.  DatasetPipeline implements this specification.     *)
(***************************************************************************)
CONSTANTS
    Jobs,       \* the jobs that may be asked for
    Nothing     \* not a job: what a dataset that is not READY offers

VARIABLES
    outcome,    \* of each job, as the client sees it
    delivered,  \* jobs whose file is in storage
    published   \* the job whose file a READY dataset offers, or Nothing

contractVars == <<outcome, delivered, published>>

Outcomes == {"none", "accepted", "completed", "failed"}

ContractInit ==
    /\ outcome = [j \in Jobs |-> "none"]
    /\ delivered = {}
    /\ published = Nothing

Accept(j) ==
    /\ outcome[j] = "none"
    /\ outcome' = [outcome EXCEPT ![j] = "accepted"]
    /\ UNCHANGED <<delivered, published>>

Deliver(j) ==
    /\ outcome[j] = "accepted"
    /\ delivered' = delivered \cup {j}
    /\ UNCHANGED <<outcome, published>>

Fulfil(j) ==
    /\ outcome[j] = "accepted"
    /\ j \in delivered
    /\ outcome' = [outcome EXCEPT ![j] = "completed"]
    /\ UNCHANGED <<delivered, published>>

\* A crash may make several jobs fail together.
GiveUp(S) ==
    /\ S # {}
    /\ \A j \in S : outcome[j] = "accepted"
    /\ outcome' = [j \in Jobs |-> IF j \in S THEN "failed" ELSE outcome[j]]
    /\ UNCHANGED <<delivered, published>>

Publish(j) ==
    /\ outcome[j] = "completed"
    /\ j \in delivered
    /\ published' = j
    /\ UNCHANGED <<outcome, delivered>>

Withdraw ==
    /\ published' = Nothing
    /\ UNCHANGED <<outcome, delivered>>

ContractNext ==
    \/ \E j \in Jobs : Accept(j) \/ Deliver(j) \/ Fulfil(j) \/ Publish(j)
    \/ \E S \in SUBSET Jobs : GiveUp(S)
    \/ Withdraw

ContractSafety == ContractInit /\ [][ContractNext]_contractVars

\* Settling a job is an obligation; publishing its file is not.
ContractSpec ==
    /\ ContractSafety
    /\ \A j \in Jobs :
          WF_contractVars(Fulfil(j) \/ \E S \in SUBSET Jobs : j \in S /\ GiveUp(S))

=============================================================================
