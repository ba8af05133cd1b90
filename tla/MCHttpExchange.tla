--------------------------- MODULE MCHttpExchange ---------------------------
(***************************************************************************)
(* Small instance of HttpExchange: every kind of request, with a body of   *)
(* two pieces where there is one; every response with up to two headers,   *)
(* and a body of two pieces, or none.                                      *)
(***************************************************************************)
EXTENDS HttpExchange, FiniteSets

MCRequests ==
    {r \in [kind : {"get", "post", "unsized", "put", "bad", "empty"}, pieces : {0, 2}] :
        (r.pieces = 0) = (r.kind \in {"get", "bad", "empty"})}

MCResponses ==
    {r \in [headers : {h \in SUBSET Headers : Cardinality(h) < 3}, lower : SUBSET Headers,
            listed : BOOLEAN, bodiless : {"no", "status", "head"}, image : BOOLEAN,
            interim : {0, 1}, twice : BOOLEAN, pieces : {0, 2}] :
        /\ r.lower \subseteq r.headers
        /\ (r.bodiless # "no") = (r.pieces = 0)
        /\ r.bodiless # "no" => ~r.image
        /\ r.interim = 1 => r.lower = {}
        /\ r.twice => r.headers # {} /\ r.lower = {} /\ ~r.image /\ r.interim = 0 /\ r.listed
        /\ ~r.listed => r.lower = {} /\ ~r.image /\ r.interim = 0}

=============================================================================
