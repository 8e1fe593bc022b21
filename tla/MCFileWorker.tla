---------------------------- MODULE MCFileWorker ----------------------------
(* Model checking FileWorker. *)
EXTENDS FileWorker
=============================================================================
