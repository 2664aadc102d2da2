---------------------------- MODULE MCBuildDeploy ----------------------------
(* Small instances of BuildDeploy.  "shop" is a tenant's application, built  *)
(* from a pushed commit and from a pull request; "site" is the platform's    *)
(* own, with two pushed commits, and "docs" another one, deployed to Qatar.  *)
EXTENDS BuildDeploy

MCTenant == {"shop", "shopPR"}
MCMixed == {"shop", "shopPR", "docs"}
MCSite == {"site1", "site2"}
MCPreview == {"shopPR"}
MCAppOf == [b \in Builds |-> IF b \in MCTenant THEN "shop" ELSE IF b = "docs" THEN "docs" ELSE "site"]
MCOrgOf == [a \in {AppOf[b] : b \in Builds} |-> IF a = "shop" THEN "acme" ELSE "tinai-admin"]
MCRegionOf == [b \in Builds |-> IF b = "docs" THEN "QA" ELSE "IN"]
MCPullOf == [b \in Builds |-> IF b = "shopPR" THEN "pr7" ELSE "none"]
=============================================================================
