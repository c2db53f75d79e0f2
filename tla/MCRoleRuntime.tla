--------------------------- MODULE MCRoleRuntime ---------------------------
(* Two fixed nodes: the root and a manager below it. *)
EXTENDS RoleRuntime

MCLayout == <<"executive", "manager">>
MCWaitFor == {{"message_received"}}
MCIds == ToSet(MCLayout) \X {0} \cup {<<"manager", 1>>}
MCPressed == {{}, {<<"manager", 0>>}}
=============================================================================
