--------------------------- MODULE MC_FilesServer ---------------------------
(* Model values for checking FilesServer with TLC.                         *)
EXTENDS FilesServer, TLC

CONSTANTS c1, c2, p1, p2, h1, h2

(* Open-file slots are interchangeable, and so are connections.           *)
SymmH == Permutations({h1, h2})

SymmHC == Permutations({h1, h2}) \cup Permutations({c1, c2})

=============================================================================
