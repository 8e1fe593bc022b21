------------------------ MODULE MCEndpointLifecycle ------------------------
(* Model checking EndpointLifecycle.  No symmetry: the runs check liveness,  *)
(* and an object may stand for the lock file.                                *)
EXTENDS EndpointLifecycle
=============================================================================
