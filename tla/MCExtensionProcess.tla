------------------------- MODULE MCExtensionProcess -------------------------
(* ExtensionProcess for TLC: clients, frames and files left on the disk.     *)
(* Overlapping callbacks times all that clients may hold is too much for one *)
(* graph.  So a behaviour is of one of two parts, chosen at the start: the   *)
(* callbacks and threads of StreamSource by themselves, overlapping at will, *)
(* or the whole process, with callbacks of FirstCallback only.               *)
EXTENDS ExtensionProcess

CONSTANT FirstCallback

VARIABLE part

mcVars == <<all, part>>
around == <<clientVars, medium, fresh, poolVars>>

MCSigning == [k \in Clients |-> IF k = "zoom" THEN "signed" ELSE "blank"]

FrameOf(width, height) ==
  [width |-> width, height |-> height, contract |-> CanonicalContract(width, height)]

\* Of the output's size, as wide but lower, too large for a slot or for this
\* process, and one the sinks refuse.
MCFrames ==
  {FrameOf(2, 2), FrameOf(2, 1), FrameOf(3, 2)}
    \cup {[FrameOf(2, 2) EXCEPT !.contract.colorimetry = "Translucent"]}

\* This writer's, of other capacities, with fewer slots, of another version, and cut
\* at any length.
MCRegions ==
  {[NewHeader(capacity) EXCEPT !.length = length, !.active = active] :
     capacity \in {0, 1, Capacity, 35}, length \in 0 .. 128, active \in {{}, {2}, {3}}}
    \cup {[NewHeader(Capacity) EXCEPT !.slots = 2], [NewHeader(Capacity) EXCEPT !.version = "other"]}

\* Cut short by a power failure, and of another version.
MCLeftovers ==
  {[SpoolFile(FrameOf(2, 2)) EXCEPT !.bytes = SpoolHeader + 7],
   [SpoolFile(FrameOf(2, 2)) EXCEPT !.version = "other"]}

-----------------------------------------------------------------------------
MCInit == ProcessInit /\ part \in {"callbacks", "process"}

CallbacksNext ==
  part = "callbacks" /\ Next /\ UNCHANGED <<around, part>>

WholeNext ==
  /\ part = "process" /\ ProcessNext /\ UNCHANGED part
  /\ \A c \in Callbacks \ {FirstCallback} : pc'[c] = "idle"

(* The fairness of FairProcessSpec, for either part. *)
CallbackRunsOn(step) ==
  /\ part = "process" => process = "serving"
  /\ step /\ UNCHANGED <<around, part>>

ThreadRunsOn(w) ==
  /\ \/ part = "process" /\ WorkerStep(w)
     \/ part = "callbacks" /\ Run(w) /\ UNCHANGED around
  /\ UNCHANGED part

MCFairSpec ==
  /\ MCInit /\ [][CallbacksNext \/ WholeNext]_mcVars
  /\ \A c \in Callbacks :
       /\ WF_mcVars(CallbackRunsOn(StartOn(c)))
       /\ WF_mcVars(CallbackRunsOn(StopOn(c) \/ Repair(c)))
  /\ \A w \in Workers :
       /\ WF_mcVars(ThreadRunsOn(w))
       /\ \A b \in Buffers : WF_mcVars(ReleaseSample(w, b) /\ UNCHANGED part)
=============================================================================
