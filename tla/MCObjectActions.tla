--------------------------- MODULE MCObjectActions ---------------------------
(* Two pods behind the target of an exec. *)
EXTENDS ObjectActions

TwoPods == <<"app-0", "app-1">>
=============================================================================
