------------------------------ MODULE MCRunAll ------------------------------
(* Two probes and two invocations of the runner.                           *)
EXTENDS RunAll
MCProbes == <<"m1/header", "m2/descriptor">>
=============================================================================
