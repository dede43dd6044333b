---------------------------- MODULE MCRateLimiter ----------------------------
(* RateLimiter with two checkers and the login behind one address. *)
EXTENDS RateLimiter

CONSTANTS ca, cb, x   \* two checkers and an address

MCCalls == {[route |-> "/access/verify", checker |-> ca, address |-> x],
            [route |-> "/access/verify", checker |-> cb, address |-> x],
            [route |-> "/auth/checker/login", checker |-> NULL, address |-> x]}

MCLimit == [r \in Routes |-> IF r = "/access/verify" THEN 2 ELSE 1]
=============================================================================
