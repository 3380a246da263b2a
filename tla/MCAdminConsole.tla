--------------------------- MODULE MCAdminConsole ---------------------------
(* One editor of one level, whose content is complete or not.  He opens it *)
(* twice: what he left in flight meets what he does next.                  *)
EXTENDS AdminConsole
=============================================================================
