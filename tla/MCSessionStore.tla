--------------------------- MODULE MCSessionStore ---------------------------
(* SessionStore on small instances: requests and sweepers are              *)
(* interchangeable.                                                        *)
EXTENDS SessionStore, TLC

Requesters == Permutations(Op)

(* Bounds the runs of three requests, which race each other and fail while *)
(* the clock stands: once it moves, and on the cookie path, there is one   *)
(* request at a time and none has failed.  MCSettles has both race it all. *)
RaceAtOneInstant ==
    LET started == {o \in Op : pc[o] # "idle"} IN
    (now > 1 \/ \E o \in started : req[o].kind = "cookie") => Cardinality(started) <= 1

=============================================================================
