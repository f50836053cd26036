---------------------------- MODULE MCPaperCampaign ----------------------------
(***************************************************************************)
(* PaperCampaign with one caller and a few launches.                       *)
(***************************************************************************)
EXTENDS PaperCampaign

\* A caller dies anywhere but between the STARTING write and the one that follows.
OutsideLaunch == Places \ {"launch", "running", "failed"}
=============================================================================
