--------------------------- MODULE MCHttpSession ---------------------------
(* Instances of HttpSession for TLC.                                       *)
EXTENDS HttpSession

Req(k, ver, r, t) == [keep |-> k, v |-> ver, redirect |-> r, throws |-> t]

\* Keep-alive and closing requests, redirects under both versions (the
\* HTTP/1.1 one asks for close and is not given it), and one that throws.
AllRequests == {Req(TRUE, 11, FALSE, FALSE), Req(FALSE, 11, FALSE, FALSE),
                Req(FALSE, 11, TRUE, FALSE), Req(TRUE, 10, TRUE, FALSE),
                Req(TRUE, 11, FALSE, TRUE)}
=============================================================================
