-------------------------- MODULE MCProxySessions --------------------------
(* Instances of ProxySessions for TLC.                                     *)
EXTENDS ProxySessions, TLC

CONSTANTS p1, p2, b1, b2, n1, n2

Root == <<"/">>
A    == <<"/", "a">>
AB   == <<"/", "a", "/", "b">>
AX   == <<"/", "a", "x">>

\* Request paths: below both prefixes, below the root, and one that the prefix
\* /a matches although it is another segment.
Paths == {Root, AB, AX}

No == [type |-> "None", name |-> n1, absolute |-> 0, idle |-> 0, permanent |-> FALSE]
CookieFor(name, absolute, idle, permanent) ==
    [type |-> "Cookie", name |-> name, absolute |-> absolute, idle |-> idle,
     permanent |-> permanent]
Header == [No EXCEPT !.type = "Header"]

Even == (b1 :> 1) @@ (b2 :> 1)
Away == (b1 :> 0) @@ (b2 :> 1)

Route(prefix, grpc, weight, session) ==
    [host |-> "h", grpc |-> grpc, prefix |-> prefix, weight |-> weight,
     session |-> session, valid |-> TRUE]

\* Two prefixes with sessions of their own; the first has the prefix left out.
Normal == <<Route(<<>>, FALSE, Even, CookieFor(n1, 2, 0, TRUE)),
            Route(A, FALSE, Even, CookieFor(n2, 3, 1, TRUE))>>
\* In another order, with a shorter timeout, b1 drained from the HTTP routes, a
\* header, a route that is a duplicate, and a gRPC route whose cookie has a name
\* used before.
Drain == <<Route(A, FALSE, Away, CookieFor(n2, 2, 1, TRUE)),
           Route(<<>>, FALSE, Away, Header),
           Route(A, FALSE, Even, No),
           Route(<<>>, TRUE, Even, CookieFor(n1, 1, 0, FALSE))>>

\* A service URL that does not parse.
Broken == <<[Normal[1] EXCEPT !.valid = FALSE]>>

\* The pods of the tunnel are interchangeable.
Pods == Permutations({p1, p2})

Some == {Normal, Drain, Broken}
=============================================================================
