---------------------------- MODULE MCNodeService ----------------------------
(***************************************************************************)
(* TLC instance of NodeService: every command, every role, offchain        *)
(* workers and GRANDPA on and off.  A browser's node is a light one.       *)
(***************************************************************************)
EXTENDS NodeService

MCConfigs ==
  {c \in [command : Commands, role : Roles, offchain : BOOLEAN, grandpa : BOOLEAN] :
     c.command = "browser" => c.role = "Light"}

=============================================================================
