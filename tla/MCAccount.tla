----------------------------- MODULE MCAccount -----------------------------
(* Two requests and the sweeper, one unit of each resource, two rows of    *)
(* the user one after the other, two dead letters and one restart.         *)
EXTENDS Account, TLC

CONSTANTS r1, r2, sweeper

MCAllowance == [k \in Resources |-> 1]
\* Deletions race each other and the calls; trees and wizards compete for the
\* same room.
MCMixes == {{"profile", "webhook"}, {"call", "webhook"}, {"tree", "wizard"}}
=============================================================================
