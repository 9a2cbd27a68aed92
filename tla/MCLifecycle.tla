---------------------------- MODULE MCLifecycle ----------------------------
(* Instances of Lifecycle for TLC.                                         *)
EXTENDS Lifecycle, TLC

CONSTANTS p1, p2, p3

ThreePids == {p1, p2, p3}
Interchangeable == Permutations(Pids)

\* config.toml.example, and a service run in the foreground as root.
OnlyExample == {[daemon |-> TRUE, user |-> TRUE, group |-> FALSE]}
OnlyForeground == {[daemon |-> FALSE, user |-> FALSE, group |-> FALSE]}
AllConfigs == Config

\* Root only, or everybody where the program stays in the foreground.
RootStarts == [c \in Configs |-> {"root"}]
MixedStarts == [c \in Configs |-> IF c.daemon THEN {"root"} ELSE Users]
=============================================================================
