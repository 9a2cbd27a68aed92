------------------------------ MODULE MCServer ------------------------------
(* Instances of Server for TLC.                                            *)
EXTENDS Server, TLC

CONSTANTS c1, c2

TwoClients == {c1, c2}

\* threads: none, one, as many as the system allows, one more, and a number
\* out of range, for which the default counts; with and without a second port.
SomeConfigs == { [threads |-> 0, port2 |-> 1], [threads |-> 1, port2 |-> 0],
                 [threads |-> 1, port2 |-> 1], [threads |-> -1, port2 |-> 8],
                 [threads |-> 2, port2 |-> 1], [threads |-> 3, port2 |-> 0],
                 [threads |-> 4, port2 |-> 0] }
=============================================================================
