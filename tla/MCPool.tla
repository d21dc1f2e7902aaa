------------------------------- MODULE MCPool -------------------------------
(* Two upstreams and two overlapping queries.                              *)
EXTENDS Pool
=============================================================================
