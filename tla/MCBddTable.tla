----------------------------- MODULE MCBddTable -----------------------------
(* Small instances of BddTable. *)
EXTENDS BddTable

\* {2} and {1, 2} are one in the image, so that nodes collapse.
MCImage == [S \in SUBSET Elements |-> IF 2 \in S THEN {2} ELSE S]

Path(a, b) == (0 :> a @@ 1 :> b)

MCPaths == Path(1, 1) :> {1} @@ Path(Either, 1) :> {2}
=============================================================================
