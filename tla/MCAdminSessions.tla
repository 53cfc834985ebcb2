--------------------------- MODULE MCAdminSessions ---------------------------
(***************************************************************************)
(* AdminSessions with few browsers, users, alerts and tokens, which the    *)
(* configurations give.  A browser that gives up on an acknowledgment can  *)
(* click again, so that one browser is enough for two overlapping calls.   *)
(***************************************************************************)
EXTENDS AdminSessions
=============================================================================
