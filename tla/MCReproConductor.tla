-------------------------- MODULE MCReproConductor --------------------------
EXTENDS ReproConductor

\* erlang:monotonic_time() begins at -2^59 ns: -576460752 seconds, in minutes.
MCOrigin == -9607679
=============================================================================
