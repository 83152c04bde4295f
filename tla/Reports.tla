------------------------------- MODULE Reports -------------------------------
(***************************************************************************)
(* What a client of AnomalyReview is shown while the review goes on: the   *)
(* dashboard's number of pending reviews and then the report on the        *)
(* dataset, or the list of its anomalies.  All of them only read.          *)
(*                                                                         *)
(* They do not ask the same question: the dashboard counts statuses, the   *)
(* report counts decisions, and the list shows both, selecting the         *)
(* anomalies first and the decisions on them with a second query.  Where   *)
(* the client is shown a number, the set that was counted is kept.         *)
(***************************************************************************)
EXTENDS AnomalyReviewInvariants

VARIABLES
    looking,  \* what the client waits for, or has on its screen
    seen      \* the anomalies that the first read has selected

viewVars   == <<looking, seen>>
reportVars == <<vars, viewVars>>

ReportInit ==
    /\ Init
    /\ looking = "nothing"
    /\ seen = {}

-----------------------------------------------------------------------------
\* PrismaStatsRepository.getStats counts by status.
PendingReviews == Pending

ShowDashboard ==
    /\ looking = "nothing"
    /\ looking' = "dashboard"
    /\ seen' = PendingReviews
    /\ UNCHANGED vars

\* Mutant of ReportedPending: counted by status, as on the dashboard.
ReportedPending_ByStatus == Pending

\* GenerateReportUseCase counts by decision: pending is what has none of the
\* three actions.
ReportedPending == Anomalies \ Decided

\* The counts are made before Gemini is asked for the narrative; if it does not
\* answer in time the client is shown none of them.
GenerateReport ==
    /\ looking = "dashboard"
    /\ looking' = "nothing"
    /\ seen' = {}
    /\ UNCHANGED vars

\* findByDatasetId selects the anomalies, and then the decisions on them.
SelectAnomalies ==
    /\ looking = "nothing"
    /\ looking' = "list"
    /\ seen' = Resolved
    /\ UNCHANGED vars

\* What GetAnomaliesUseCase makes of the two selections.
Listed(a) == [status   |-> IF a \in seen THEN "RESOLVED" ELSE "PENDING",
              decision |-> table[a].decision]

GetAnomalies ==
    /\ looking = "list"
    /\ looking' = "nothing"
    /\ seen' = {}
    /\ UNCHANGED vars

Look == ShowDashboard \/ GenerateReport \/ SelectAnomalies \/ GetAnomalies

ReportNext ==
    \/ Next /\ UNCHANGED viewVars
    \/ Look

ReportSpec == ReportInit /\ [][ReportNext]_reportVars

\* As FairSpec; nobody has to look.
FairReportSpec == ReportSpec /\ \A j \in Jobs : WF_vars(Review(j))

-----------------------------------------------------------------------------
(* Properties.                                                             *)

\* What a client is shown holds together, whatever is decided, or saved from
\* stale entities, between two reads.  At any moment at which the second
\* selection may be made, an anomaly listed as RESOLVED is listed with its
\* decision; and at any moment at which the report may be made it calls nothing
\* pending that the dashboard has not called pending before, although webhooks
\* set resolved anomalies back to PENDING.
ViewsAgree ==
    /\ looking = "list" =>
          \A a \in Anomalies : Listed(a).status = "RESOLVED" => Listed(a).decision # Nobody
    /\ looking = "dashboard" => ReportedPending \subseteq seen

=============================================================================
