---------------------------- MODULE MCLinkPlane ----------------------------
(* The link plane alone, over the builds of MCLinkInputs.                  *)
EXTENDS LinkPlane

Given == INSTANCE MCLinkInputs
MCInputs == Given!LinkBuilds
=============================================================================
