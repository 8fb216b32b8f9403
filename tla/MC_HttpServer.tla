--------------------------- MODULE MC_HttpServer ---------------------------
(* Model-checking instance of HttpServer: three client connections for a  *)
(* pool of two (so that the pool fills and a third is refused), a request  *)
(* buffer of two units (so that a three-unit request overflows it).        *)
EXTENDS HttpServer

CONSTANTS s1, s2, s3

MCSock == {s1, s2, s3}

(* Two connections, for the runs that check liveness. *)
MCSock2 == {s1, s2}

(* s1 and s2 use the TLS port, s3 the plaintext port when it exists.      *)
MCPort == [s \in Sock |-> IF s = s3 /\ NONSECURE THEN "srv" ELSE "sec"]

=============================================================================
