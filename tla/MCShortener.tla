---------------------------- MODULE MCShortener ----------------------------
(* Instances of Shortener for TLC.                                         *)
EXTENDS Shortener

CONSTANTS w1, w2, t1, t2, u1, u2, u3

TwoWorkers == {w1, w2}
TwoTokens == {t1, t2}
TwoUrls == {u1, u2}
ThreeUrls == {u1, u2, u3}

\* u3 is u1, a NUL byte and more: the database keeps u1.
CutU3 == [u \in ThreeUrls |-> IF u = u3 THEN u1 ELSE u]
NoCut == [u \in TwoUrls |-> u]
=============================================================================
