---------------------------- MODULE MCListStore ----------------------------
(* A list with three contents and a daemon that crashes twice.             *)
EXTENDS ListStore
=============================================================================
