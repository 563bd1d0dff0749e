----------------------------- MODULE MCTestImage -----------------------------
(* Two entries: the first with every mix of five kinds of case files, one  *)
(* of them a whiteout of another, or a whiteout that is itself a link, or  *)
(* comes too late; or a link to a directory; the second one of a few.      *)
EXTENDS TestImage

Case(name, ext, type) ==
    [name |-> name, ext |-> ext, type |-> type, whiteout |-> FALSE, valid |-> TRUE]
Good == Case("a", ".yaml", "regular")
Bad == [Case("b", ".yaml", "regular") EXCEPT !.valid = FALSE]
Early == Case("-e", ".yaml", "regular")
Whiteout(f) == [f EXCEPT !.whiteout = TRUE]

Kinds == {Good, Bad, Case("a", ".yml", "regular"), Case("c", ".yaml", "link"), Whiteout(Good)}

Dir(c, fs) == [kind |-> "dir", cases |-> c, files |-> fs]

Rich == {Dir("dir", fs) : fs \in SUBSET Kinds}
        \cup {Dir("dir", {Good, Whiteout(Case("a", ".yaml", "link"))}),
              Dir("dir", {Early, Whiteout(Early)}), Dir("dir", {Good, Case("d", ".yaml", "dir")}),
              Dir("link", {Good}), Dir("link", {Bad})}
Plain == {NoEntry, Dir("absent", {}), Dir("file", {}), Dir("dir", {Good}),
          [Dir("dir", {Good}) EXCEPT !.kind = "hidden"], [NoEntry EXCEPT !.kind = "file"]}

Pair(a, b) == [n \in {"api", "db"} |-> IF n = "api" THEN a ELSE b]

Directories == {Pair(a, b) : a \in Rich, b \in Plain} \cup {Pair(a, NoEntry) : a \in Plain}

OwnCases == {Dir("absent", {}), Dir("dir", {Good})}

Foreign == Pair(NoEntry, Dir("dir", {Case("a", ".yml", "regular")}))
=============================================================================
