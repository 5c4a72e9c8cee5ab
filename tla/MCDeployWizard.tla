--------------------------- MODULE MCDeployWizard ---------------------------
(* The wizard alone, with two accounts, a tool and the legacy campaign.     *)
EXTENDS DeployWizard
=============================================================================
