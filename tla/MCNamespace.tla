---------------------------- MODULE MCNamespace ----------------------------
(* Instances of Namespace: all commands on one namespace, or the ones that *)
(* a question about creating and clearing needs.                           *)
EXTENDS Namespace

AllOps == Commands
CreateOps == {"create", "destroy", "disable", "enable"}
DestroyOps == {"create", "disable", "destroy"}
ClearOps == {"create", "clear"}
SectorMode == {"sector"}
RawMode == {"raw"}
=============================================================================
