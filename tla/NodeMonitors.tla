----------------------------- MODULE NodeMonitors -----------------------------
(***************************************************************************)
(* The jobs that watch the Celestia light node itself, side by side:       *)
(* NodeHealth and FraudMonitor ask the same node, which comes and goes.    *)
(* A fraud monitor that is not answered leaves no trace in the tables; it  *)
(* takes the rows of the health job to tell its silence from good news.    *)
(***************************************************************************)
EXTENDS Naturals

CONSTANTS MaxHeight, MaxCrash, Proof

ASSUME BoundsAssumption == MaxHeight \in Nat \ {0} /\ MaxCrash \in Nat

VARIABLES node, network, loc, asked, answers, behind, row, store, todo, events, crashes

Health == INSTANCE NodeHealth
Fraud == INSTANCE FraudMonitor

fraudVars == <<store, todo, events>>
healthVars == <<network, loc, asked, answers, behind, row>>
monitorVars == <<node, crashes, fraudVars, healthVars>>

MonitorsInit == Health!Init /\ Fraud!Init

NodeStep == Health!NodeStep /\ UNCHANGED fraudVars
Ask == Health!Ask /\ UNCHANGED fraudVars
InsertHealth == Health!Insert /\ UNCHANGED fraudVars
HealthDies == Health!Die /\ UNCHANGED fraudVars

NewProof == Fraud!NewProof /\ UNCHANGED healthVars
Get == Fraud!Get /\ UNCHANGED healthVars
InsertProof == Fraud!Insert /\ UNCHANGED healthVars
FraudDies == Fraud!Die /\ UNCHANGED healthVars

MonitorsNext ==
    \/ NodeStep \/ Ask \/ InsertHealth \/ HealthDies
    \/ NewProof \/ Get \/ InsertProof \/ FraudDies

\* The k-th request is answered, as those before it were.
AskAnswered(k) ==
    /\ asked = k
    /\ \A i \in 1 .. k : answers[Health!Requests[i]] # {}
    /\ Ask /\ answers'[Health!Requests[k + 1]] # {}

\* cron starts runs and runs go on.  A node that is up time and again does not fail every
\* request for ever, neither the first of a run nor the one after it.
MonitorsFairness ==
    /\ WF_monitorVars(Ask) /\ WF_monitorVars(InsertHealth) /\ WF_monitorVars(InsertProof)
    /\ SF_monitorVars(AskAnswered(0)) /\ SF_monitorVars(AskAnswered(1)) /\ SF_monitorVars(Get)

MonitorsSpec == MonitorsInit /\ [][MonitorsNext]_monitorVars /\ MonitorsFairness

-----------------------------------------------------------------------------
\* Types of the variables of both jobs, the node they share and the runs that died.
MonitorsTypeOK == Health!TypeOK /\ Fraud!TypeOK /\ crashes \in 0 .. MaxCrash

\* See NodeHealth: a reported lag is no artefact of blocks arriving between two requests.
LagNotOverstated == Health!LagNotOverstated

\* See NodeHealth: a node that stands still behind the chain is reported.
StallIsReported == Health!StallIsReported

\* See NodeHealth: a node that is gone for good is reported.
OutageShows == Health!OutageShows

\* See FraudMonitor: every stored proof reaches the table.
EveryProofRecorded == Fraud!EveryProofRecorded

===============================================================================
