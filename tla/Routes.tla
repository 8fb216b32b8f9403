------------------------------- MODULE Routes -------------------------------
(***************************************************************************)
(* route_resolve of src/src/http_server/routes.c: a linear scan of the     *)
(* constant route table, comparing with url_match, which calls            *)
(* strncmp(route, url, MAX(route_len, url_len)).                           *)
(*                                                                         *)
(* The url is not NUL-terminated: it points into the request buffer, and   *)
(* strncmp may read the bytes after it.  A request is its method, its url  *)
(* and the bytes that follow the url in memory (`tail`).  Strings are      *)
(* tuples of one-character strings; NUL ends a C string.                   *)
(***************************************************************************)
EXTENDS Integers, Sequences

CONSTANTS
    Methods,  \* request methods, "GET" among them
    Urls,     \* urls a request may carry (tuples of characters)
    Tails     \* what the buffer holds after the url

NUL == "\\0"

(* The route table, lines 17-25: method, pattern, server class.           *)
routes == <<
    [method |-> "GET", route |-> <<>>, server |-> "REST"],
    [method |-> "GET", route |-> <<"/">>, server |-> "REST"],
    [method |-> "GET", route |-> <<"/", "i", "n", "f", "o">>, server |-> "REST"],
    [method |-> "GET", route |-> <<"/", "r", "e", "c", "o", "r", "d", "s", "/",
                                  "x", "i", "a", "o", "m", "i">>, server |-> "REST"],
    [method |-> "GET", route |-> <<"/", "r", "e", "c", "o", "r", "d", "s", "/",
                                  "x", "i", "a", "o", "m", "i", "/", "p", "r",
                                  "o", "m", "e", "t", "h", "e", "u", "s">>,
     server |-> "REST"],
    [method |-> "GET", route |-> <<"/", "m", "e", "t", "r", "i", "c", "s">>,
     server |-> "WEB"]
>>

NRoutes == Len(routes)
NotFound == 0      \* route_resolve returns NULL
Scanning == -1     \* the scan has not returned yet

ASSUME RoutesAssumption ==
    /\ "GET" \in Methods
    /\ Urls \subseteq Seq(STRING) /\ Tails \subseteq Seq(STRING)
    /\ \A t \in Tails : t # <<>>

VARIABLES
    method, url, tail,  \* the request
    i,                  \* the scan's route index (1-based)
    result,             \* the route found, NotFound, or Scanning
    ctype               \* the default content type of the route found

vars == <<method, url, tail, i, result, ctype>>

-----------------------------------------------------------------------------
(* strncmp(s1, s2, n) == 0 over the byte functions s1 and s2, from byte k *)
(* on: equal up to n bytes, stopping early at a NUL both share.            *)
RECURSIVE StrNCmpEq(_, _, _, _)
StrNCmpEq(s1, s2, k, n) ==
    IF k > n THEN TRUE
    ELSE IF s1[k] # s2[k] THEN FALSE
    ELSE IF s1[k] = NUL THEN TRUE
    ELSE StrNCmpEq(s1, s2, k + 1, n)

(* The bytes at res->route: the pattern and its terminator.               *)
RouteMem(r) == routes[r].route \o <<NUL>>

(* The bytes at req->url: the url and what follows it in the buffer.      *)
UrlMem == url \o tail

(* Faulty variant of UrlMatch: compare MIN(route_len, url_len) bytes.     *)
UrlMatchMin(r) ==
    LET n == IF Len(routes[r].route) <= Len(url) THEN Len(routes[r].route)
             ELSE Len(url)
    IN StrNCmpEq(RouteMem(r), UrlMem, 1, n)

(* url_match: compare MAX(route_len, url_len) bytes.                      *)
UrlMatch(r) ==
    LET n == IF Len(routes[r].route) >= Len(url) THEN Len(routes[r].route)
             ELSE Len(url)
    IN StrNCmpEq(RouteMem(r), UrlMem, 1, n)

(* http_get_route_default_content_type.                                   *)
DefaultContentType(r) ==
    IF routes[r].server = "REST" THEN "application/json" ELSE "text/plain"

Init ==
    /\ method \in Methods /\ url \in Urls /\ tail \in Tails
    /\ i = 1 /\ result = Scanning /\ ctype = "none"

(* One iteration of the loop of route_resolve: a route of another method   *)
(* is skipped (`continue`), a matching one returned, any other passed.     *)
SkipMethod ==
    /\ result = Scanning /\ i <= NRoutes
    /\ routes[i].method # method
    /\ i' = i + 1
    /\ UNCHANGED <<method, url, tail, result, ctype>>

Matched ==
    /\ result = Scanning /\ i <= NRoutes
    /\ routes[i].method = method /\ UrlMatch(i)
    /\ result' = i /\ ctype' = DefaultContentType(i)
    /\ UNCHANGED <<method, url, tail, i>>

Mismatched ==
    /\ result = Scanning /\ i <= NRoutes
    /\ routes[i].method = method /\ ~UrlMatch(i)
    /\ i' = i + 1
    /\ UNCHANGED <<method, url, tail, result, ctype>>

ScanEnd ==
    /\ result = Scanning /\ i > NRoutes
    /\ result' = NotFound
    /\ UNCHANGED <<method, url, tail, i, ctype>>

(* The request has been resolved; nothing more happens.                    *)
Resolved ==
    /\ result # Scanning
    /\ UNCHANGED vars

Next == SkipMethod \/ Matched \/ Mismatched \/ ScanEnd \/ Resolved

Spec == Init /\ [][Next]_vars

-----------------------------------------------------------------------------
(* The first route of the request's method whose pattern satisfies P, or  *)
(* NotFound.                                                               *)
FirstRoute(P(_)) ==
    IF \E r \in 1 .. NRoutes : routes[r].method = method /\ P(r)
    THEN CHOOSE r \in 1 .. NRoutes :
             /\ routes[r].method = method /\ P(r)
             /\ \A q \in 1 .. r - 1 : ~(routes[q].method = method /\ P(q))
    ELSE NotFound

(* What route_resolve returns (spec sections 4.5, 8 and 9): the first     *)
(* route of the request's method whose pattern is spelled by the url and   *)
(* the buffer bytes after it, with the url no longer than the pattern; a  *)
(* shorter pattern never matches, whatever those bytes are, and NULL (404) *)
(* when no route does.  When the url is followed by the request line's    *)
(* space this is the exact match: "/info" resolves, "/infoX" and POST      *)
(* "/info" do not; with other bytes after it "/i" may resolve to "/info".   *)
(* A route found carries its server class's default content type.         *)
ResolveByMemoryPrefix ==
    LET Covers(r) == LET pat == routes[r].route IN
                     /\ Len(url) <= Len(pat) /\ Len(UrlMem) >= Len(pat)
                     /\ SubSeq(UrlMem, 1, Len(pat)) = pat
    IN result # Scanning =>
         /\ result = FirstRoute(Covers)
         /\ result # NotFound => ctype = IF routes[result].server = "REST"
                                         THEN "application/json" ELSE "text/plain"

=============================================================================
