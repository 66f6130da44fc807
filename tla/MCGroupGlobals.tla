-------------------------- MODULE MCGroupGlobals --------------------------
(***************************************************************************)
(* Deployments of GroupGlobals for TLC.                                    *)
(***************************************************************************)
EXTENDS GroupGlobals

Deployment(moe, inner, maxGroups) ==
    [moe |-> moe, eplb |-> moe, inner |-> inner, maxGroups |-> maxGroups]

\* Two full initialisations take twelve groups for a dense model and sixteen for a mixture
\* of experts; where engines span nodes the second one gets as far as the bound lets it.
SomeDeployments ==
    {Deployment(TRUE, "none", 16), Deployment(TRUE, "own", 12), Deployment(FALSE, "shared", 13)}
===========================================================================
