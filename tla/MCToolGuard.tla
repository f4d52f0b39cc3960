---------------------------- MODULE MCToolGuard ----------------------------
(***************************************************************************)
(* Instance of ToolGuard: two properties, one of them aliased, and two     *)
(* names the schema does not know.                                         *)
(***************************************************************************)
EXTENDS ToolGuard
=============================================================================
