------------------------------ MODULE MC_Routes ------------------------------
(* Requests for checking Routes with TLC: every prefix of every pattern,   *)
(* and every pattern with one more byte, as urls.                          *)
EXTENDS Routes, TLC

Patterns == {routes[r].route : r \in 1 .. NRoutes}

Prefixes == UNION {{SubSeq(p, 1, k) : k \in 0 .. Len(p)} : p \in Patterns}

MCUrls == Prefixes \cup {p \o <<"x">> : p \in Patterns}

(* The buffer continues with the rest of a pattern, then the space of the  *)
(* request line (k = Len(p) + 1: the space right after the url).           *)
MemoryTails ==
    UNION {{SubSeq(p, k, Len(p)) \o <<" ">> : k \in 1 .. Len(p) + 1} : p \in Patterns}

=============================================================================
