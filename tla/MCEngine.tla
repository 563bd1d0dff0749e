------------------------------ MODULE MCEngine -------------------------------
(* A work directory with three suites, a dot directory and a file. *)
EXTENDS Engine

WorkDir == <<".git", "api", "db", "readme", "web">>
Kinds == [n \in {".git", "api", "db", "readme", "web"} |->
             CASE n = ".git" -> "hidden" [] n = "readme" -> "file" [] OTHER -> "suite"]
Counts == [n \in DOMAIN Kinds |->
             CASE n = "api" -> 2 [] n = "db" -> 1 [] n = "web" -> 1 [] OTHER -> 0]
=============================================================================
