--------------------------- MODULE MCReleaseAgent ---------------------------
(***************************************************************************)
(* Two files: the draft changes one and replaces the other by a new name,  *)
(* so a publication rewrites, creates and removes, and a crash can leave   *)
(* a mixture that is neither the old configuration nor the new one.        *)
(***************************************************************************)
EXTENDS ReleaseAgent, TLC

CONSTANTS site, oldInclude, newInclude, before, after, none

MCPaths == {site, oldInclude, newInclude}
MCContents == {before, after}
MCProduction == (site :> before) @@ (oldInclude :> before) @@ (newInclude :> none)
MCDraft == (site :> after) @@ (oldInclude :> none) @@ (newInclude :> after)

\* nginx accepts any configuration whose site file finds the include it names.
MCValid == {c \in [MCPaths -> MCContents \cup {none}] :
              \/ c[site] = before /\ c[oldInclude] = before
              \/ c[site] = after /\ c[newInclude] = after}
=============================================================================
