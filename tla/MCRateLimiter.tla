---------------------------- MODULE MCRateLimiter ----------------------------
(* RateLimiter with two keys of one prefix, one address, and requests of every
   kind: an enrollment, a public read, a write with each key, one with a wrong
   key and one without, a probe and a preflight. *)
EXTENDS RateLimiter

CONSTANTS ip, k1, k2, bad, prefix, other

Request(path, method, token) ==
    [path |-> path, method |-> method, token |-> token, ip |-> ip]

MCRequests ==
    { Request("enroll", "POST", None), Request("agent", "GET", None),
      Request("admin", "POST", k1), Request("agent", "POST", k2),
      Request("admin", "GET", bad), Request("admin", "GET", None),
      Request("probe", "GET", None), Request("admin", "OPTIONS", None) }

MCPrefix == [t \in {k1, k2, bad} |-> IF t = bad THEN other ELSE prefix]

MCLimit == [n \in Kinds |-> CASE n = "enroll-ip" -> 1
                              [] n = "public-ip" -> 0
                              [] n = "api-key" -> 2]

=============================================================================
