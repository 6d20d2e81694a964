------------------------------ MODULE Management ------------------------------
(***************************************************************************)
(* The management process: the alert store and the analyses of the pages,  *)
(* the start of the process, and beside them the bait documents and the    *)
(* replay of their deployments, which share no state with these nor with   *)
(* each other.                                                             *)
(***************************************************************************)
EXTENDS LiveAnalysis, Startup

CONSTANTS
    MaxFile, Seedless, Untagged, Container, Request, Unborn, TornDocument, \* of BaitDelivery
    Agent, Deployment, MaxLog, MaxReplay                                   \* of DeploymentReplay

VARIABLES
    honeyfile, document, planted, inside, deployed, removed, request,      \* of BaitDelivery
    log, online, deleted, read, todo, phase, seen, sent, left, upTo        \* of DeploymentReplay

baitVars == <<honeyfile, document, planted, inside, deployed, removed, request>>
replayVars == <<log, online, deleted, read, todo, phase, seen, sent, left, upTo>>

Baits == INSTANCE BaitDelivery WITH
    bait <- honeyfile, Legacy <- Seedless, Plain <- Untagged, Place <- Container,
    Torn <- TornDocument

Replays == INSTANCE DeploymentReplay WITH
    File <- Baits!File, gone <- deleted, stage <- phase

ASSUME ManagementAssumption ==
    StartupAssumption /\ Baits!BaitAssumption /\ Replays!ReplayAssumption

-----------------------------------------------------------------------------
\* The types of all the parts.
ManagementTypes == TypeOK /\ StartupTypeOK /\ Baits!TypeOK /\ Replays!TypeOK

\* A document that was given away calls its row's token, but for a file from before
\* seeds (_ensure_local_honeyfile_is_live).
BaitsResolve == Baits!BaitsResolve

\* A removed bait is no longer there (file_deploy_remove).
RemovedIsGone == Baits!RemovedIsGone

\* A repair sends the latest deployments of those logged when it read their kind
\* (_replay_latest_file_deployments).
ReplayedLatest == Replays!ReplayedLatest
=============================================================================
