------------------------------ MODULE MCDaemon ------------------------------
(* A daemon with two configurations that differ in both parts.             *)
EXTENDS Daemon

First == [rules |-> 1, fixed |-> 1]
TwoConfigs == {First, [rules |-> 2, fixed |-> 2]}
=============================================================================
