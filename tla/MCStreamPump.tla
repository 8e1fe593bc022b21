---------------------------- MODULE MCStreamPump ----------------------------
(* Model checking StreamPump. *)
EXTENDS StreamPump

(* Bound: the first writer announces a period of 1, for which the minimum   *)
(* timeout holds, the second one of 2, for which the frame's periods do.    *)
OneRatePerWriter ==
  \A f \in {frame', fresh'} \ {None} : f.rate = f.gen
=============================================================================
