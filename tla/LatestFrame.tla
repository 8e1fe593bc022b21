---------------------------- MODULE LatestFrame ----------------------------
(***************************************************************************)
(* What the shared-memory transport promises, without slots: a mailbox of  *)
(* whole frames.  The producer adds a newer frame, points at it, and may   *)
(* throw away any frame nobody holds.  A consumer that starts to poll      *)
(* takes some frame that is not older than the one pointed at then, and    *)
(* keeps exactly that frame until it lets go.                              *)
(***************************************************************************)
EXTENDS Integers

CONSTANTS
  Readers,     \* consumers
  Frame,       \* frames that may be published, records [gen, seq]
  Nothing      \* no frame: older than every frame

VARIABLES
  frames,      \* the frames a consumer may still take
  current,     \* the frame pointed at
  held,        \* the frame each consumer holds, or Nothing
  since        \* what was pointed at when each consumer began its poll,
               \* or Nothing

vars == <<frames, current, held, since>>

NotOlder(f, g) == f.gen > g.gen \/ (f.gen = g.gen /\ f.seq >= g.seq)

Init ==
  /\ frames = {}
  /\ current = Nothing
  /\ held = [r \in Readers |-> Nothing]
  /\ since = [r \in Readers |-> Nothing]

Publish ==
  /\ \E f \in Frame :
       /\ \A g \in frames : NotOlder(f, g) /\ f # g
       /\ frames' = frames \cup {f}
  /\ UNCHANGED <<current, held, since>>

Point ==
  /\ \E f \in frames : NotOlder(f, current) /\ current' = f
  /\ UNCHANGED <<frames, held, since>>

Discard ==
  /\ \E gone \in SUBSET frames :
       /\ \A r \in Readers : held[r] \notin gone
       /\ frames' = frames \ gone
  /\ UNCHANGED <<current, held, since>>

Poll(r) ==
  /\ held[r] = Nothing
  /\ since' = [since EXCEPT ![r] = current]
  /\ UNCHANGED <<frames, current, held>>

Take(r) ==
  /\ held[r] = Nothing
  /\ \E f \in frames :
       NotOlder(f, since[r]) /\ held' = [held EXCEPT ![r] = f]
  /\ UNCHANGED <<frames, current, since>>

LetGo(r) ==
  /\ held' = [held EXCEPT ![r] = Nothing]
  /\ since' = [since EXCEPT ![r] = Nothing]
  /\ UNCHANGED <<frames, current>>

Next ==
  \/ Publish \/ Point \/ Discard
  \/ \E r \in Readers : Poll(r) \/ Take(r) \/ LetGo(r)

Spec == Init /\ [][Next]_vars
=============================================================================
