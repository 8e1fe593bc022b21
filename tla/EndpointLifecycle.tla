-------------------------- MODULE EndpointLifecycle --------------------------
(***************************************************************************)
(* How writers and readers find the shared-memory object of an endpoint:   *)
(* a name (POSIX object or App Group file), the objects it has linked to,  *)
(* the writer lock, and the header fields that say an object is ready and  *)
(* who owns it (mapped_backend.rs, connect and disconnect of the sink, the *)
(* liveness test and reopening of FrameTransportReader).                   *)
(*                                                                         *)
(* Every system call and every header access another process can tell      *)
(* apart is a step; header fields that are read together are stored        *)
(* together.  A process may die at any step: the kernel closes its         *)
(* descriptors, which releases its lock, and nothing else is undone.       *)
(*                                                                         *)
(* Not here: the frame slots (SlotTransport, where the reset of the slots  *)
(* is), failing system calls, an existing object of another capacity, the  *)
(* 250 and 500 ms intervals (a due check may come at any time).            *)
(*                                                                         *)
(* A definition under a comment "Mutant" is not part of the model: it is   *)
(* the definition after it with a plausible bug, which a run must detect.  *)
(***************************************************************************)
EXTENDS Integers

CONSTANTS
  Writers,     \* processes that connect a SharedFrameSink
  Readers,     \* processes that poll a FrameTransportReader
  NoProcess,
  Objects,     \* inodes
  NoObject,
  Kinds,       \* kinds of endpoint considered, of Posix and File
  MaxGen,      \* bound: generations handed out
  MaxLives     \* bound: times a writer process is started

ASSUME NoProcessAssumption == NoProcess \notin Writers
ASSUME NoObjectAssumption == NoObject \notin Objects
ASSUME KindsAssumption == Kinds \subseteq {"Posix", "File"}
ASSUME BoundsAssumption == MaxGen \in Nat /\ MaxLives \in Nat \ {0}

(* A pid with its start token names one life of a process. *)
Life == [process : Writers, nth : 1 .. MaxLives]
Nobody == [process |-> NoProcess, nth |-> 0]

(* created by O_EXCL, given its length, header initialized (MAGIC). *)
Stages == {"empty", "sized", "ready"}
Header == [stage : Stages, gen : 0 .. MaxGen, owner : Life \cup {Nobody}]
Fresh == [stage |-> "empty", gen |-> 0, owner |-> Nobody]

VARIABLES
  kind,        \* the kind of the endpoint, fixed
  name,        \* the object the endpoint's name links to
  object,      \* the length and header of every object
  lock,        \* who holds each writer lock
  lastGen,     \* new_generation_id
  step,        \* where each writer is
  mine,        \* the object each writer has open
  gen,         \* WriterIdentity.generation of each writer
  life,        \* which life each writer process is in
  rstep,       \* where each reader is
  theirs       \* the object each reader has mapped

writer == <<step, mine, gen>>
reader == <<rstep, theirs>>
vars == <<kind, name, object, lock, lastGen, writer, life, reader>>

Steps == {"offline", "open", "length", "header", "size", "initialize", "lock",
          "own", "connected", "unlock", "unlink"}

Init ==
  /\ kind \in Kinds
  /\ name = NoObject
  /\ object = [o \in Objects |-> Fresh]
  /\ lock = [l \in Objects |-> NoProcess]
  /\ lastGen = 0
  /\ step = [w \in Writers |-> "offline"]
  /\ mine = [w \in Writers |-> NoObject]
  /\ gen = [w \in Writers |-> 0]
  /\ life = [w \in Writers |-> 1]
  /\ rstep = [r \in Readers |-> "detached"]
  /\ theirs = [r \in Readers |-> NoObject]

Me(w) == [process |-> w, nth |-> life[w]]
IsAlive(owner) == owner # Nobody /\ life[owner.process] = owner.nth

(* Mutant: every object has a lock of its own. *)
LockOfObject(o) == o

(* The lock a writer of object o takes: for Posix a lock file beside the   *)
(* name, which one fixed lock stands for, for File a flock on o itself.    *)
LockOf(o) == IF kind = "Posix" THEN CHOOSE l \in Objects : TRUE ELSE o

(* The kernel frees an object nobody has open and no name links to. *)
Unused(o) ==
  /\ name # o
  /\ \A w \in Writers : mine[w] # o
  /\ \A r \in Readers : theirs[r] # o

At(w, from) == step[w] = from
Goto(w, to) == step' = [step EXCEPT ![w] = to]

(* connect returns an error and drops what it has opened. *)
Refused(w) ==
  /\ Goto(w, "offline")
  /\ mine' = [mine EXCEPT ![w] = NoObject]

-----------------------------------------------------------------------------
(* create_writer: exclusive creation first, plain opening if that fails. *)

Create(w) ==
  /\ At(w, "offline")
  /\ name = NoObject
  /\ \E o \in Objects :
       /\ Unused(o)
       /\ name' = o
       /\ object' = [object EXCEPT ![o] = Fresh]
       /\ mine' = [mine EXCEPT ![w] = o]
  /\ Goto(w, "size")
  /\ UNCHANGED <<lock, lastGen, gen, life, reader, kind>>

Exists(w) ==
  /\ At(w, "offline")
  /\ name # NoObject
  /\ Goto(w, "open")
  /\ UNCHANGED <<name, object, lock, lastGen, mine, gen, life, reader, kind>>

(* The name may be gone again: an error, not another creation. *)
OpenExisting(w) ==
  /\ At(w, "open")
  /\ mine' = [mine EXCEPT ![w] = name]
  /\ Goto(w, IF name = NoObject THEN "offline" ELSE "length")
  /\ UNCHANGED <<name, object, lock, lastGen, gen, life, reader, kind>>

CheckLength(w) ==
  /\ At(w, "length")
  /\ \/ object[mine[w]].stage = "empty" /\ Refused(w)
     \/ /\ object[mine[w]].stage # "empty"
        /\ Goto(w, "header")
        /\ UNCHANGED mine
  /\ UNCHANGED <<name, object, lock, lastGen, gen, life, reader, kind>>

(* Mutant: an object whose header is not there yet is taken as it is. *)
CheckHeaderNot(w) ==
  /\ At(w, "header")
  /\ Goto(w, "lock")
  /\ UNCHANGED <<name, object, lock, lastGen, mine, gen, life, reader, kind>>

CheckHeader(w) ==
  /\ At(w, "header")
  /\ \/ object[mine[w]].stage # "ready" /\ Refused(w)
     \/ /\ object[mine[w]].stage = "ready"
        /\ Goto(w, "lock")
        /\ UNCHANGED mine
  /\ UNCHANGED <<name, object, lock, lastGen, gen, life, reader, kind>>

SetLength(w) ==
  /\ At(w, "size")
  /\ object' = [object EXCEPT ![mine[w]].stage = "sized"]
  /\ Goto(w, "initialize")
  /\ UNCHANGED <<name, lock, lastGen, mine, gen, life, reader, kind>>

(* The whole header is written, MAGIC last.  No lock is held yet. *)
Initialize(w) ==
  /\ At(w, "initialize")
  /\ object' = [object EXCEPT ![mine[w]] = [Fresh EXCEPT !.stage = "ready"]]
  /\ Goto(w, "lock")
  /\ UNCHANGED <<name, lock, lastGen, mine, gen, life, reader, kind>>

(* claim_writer: flock(LOCK_EX | LOCK_NB), then the owner fields. *)
LockWriter(w) ==
  /\ At(w, "lock")
  /\ \/ /\ lock[LockOf(mine[w])] # NoProcess
        /\ Refused(w)
        /\ UNCHANGED lock
     \/ /\ lock[LockOf(mine[w])] = NoProcess
        /\ lock' = [lock EXCEPT ![LockOf(mine[w])] = w]
        /\ Goto(w, "own")
        /\ UNCHANGED mine
  /\ UNCHANGED <<name, object, lastGen, gen, life, reader, kind>>

StoreOwner(w) ==
  /\ At(w, "own")
  /\ lastGen < MaxGen
  /\ lastGen' = lastGen + 1
  /\ gen' = [gen EXCEPT ![w] = lastGen + 1]
  /\ object' = [object EXCEPT ![mine[w]].gen = lastGen + 1,
                              ![mine[w]].owner = Me(w)]
  /\ Goto(w, "connected")
  /\ UNCHANGED <<name, lock, mine, life, reader, kind>>

-----------------------------------------------------------------------------
(* disconnect: the mapping is dropped (owner fields, then the lock), after *)
(* that the name is unlinked, whatever it links to by then.                *)

(* Mutant: the owner fields stay as they are. *)
ClearOwnerNot(w) ==
  /\ At(w, "connected")
  /\ Goto(w, "unlock")
  /\ UNCHANGED <<name, object, lock, lastGen, mine, gen, life, reader, kind>>

ClearOwner(w) ==
  /\ At(w, "connected")
  /\ object' =
       IF object[mine[w]].gen = gen[w] /\ object[mine[w]].owner = Me(w)
         THEN [object EXCEPT ![mine[w]].gen = 0, ![mine[w]].owner = Nobody]
         ELSE object
  /\ Goto(w, "unlock")
  /\ UNCHANGED <<name, lock, lastGen, mine, gen, life, reader, kind>>

Unlock(w) ==
  /\ At(w, "unlock")
  /\ lock' = [lock EXCEPT ![LockOf(mine[w])] = NoProcess]
  /\ mine' = [mine EXCEPT ![w] = NoObject]
  /\ Goto(w, "unlink")
  /\ UNCHANGED <<name, object, lastGen, gen, life, reader, kind>>

Unlink(w) ==
  /\ At(w, "unlink")
  /\ name' = NoObject
  /\ Goto(w, "offline")
  /\ UNCHANGED <<object, lock, lastGen, mine, gen, life, reader, kind>>

Crash(w) ==
  /\ step[w] # "offline"
  /\ life[w] < MaxLives
  /\ life' = [life EXCEPT ![w] = @ + 1]
  /\ lock' = [l \in Objects |-> IF lock[l] = w THEN NoProcess ELSE lock[l]]
  /\ Refused(w)
  /\ UNCHANGED <<name, object, lastGen, gen, reader, kind>>

-----------------------------------------------------------------------------
(* The reader: poll_borrowed reopens by name, try_open_reader looks at the *)
(* header of what it opened, a dead writer's object is given up.           *)

OpenObject(r) ==
  /\ rstep[r] = "detached"
  /\ name # NoObject
  /\ theirs' = [theirs EXCEPT ![r] = name]
  /\ rstep' = [rstep EXCEPT ![r] = "header"]
  /\ UNCHANGED <<name, object, lock, lastGen, writer, life, kind>>

CheckOpened(r) ==
  /\ rstep[r] = "header"
  /\ \/ /\ object[theirs[r]].stage = "ready"
        /\ rstep' = [rstep EXCEPT ![r] = "attached"]
        /\ UNCHANGED theirs
     \/ /\ object[theirs[r]].stage # "ready"
        /\ rstep' = [rstep EXCEPT ![r] = "detached"]
        /\ theirs' = [theirs EXCEPT ![r] = NoObject]
  /\ UNCHANGED <<name, object, lock, lastGen, writer, life, kind>>

(* writer_is_alive: an owner, a generation, and that process still runs. *)
HasLiveWriter(o) == object[o].gen # 0 /\ IsAlive(object[o].owner)

GiveUp(r) ==
  /\ rstep[r] = "attached"
  /\ ~HasLiveWriter(theirs[r])
  /\ rstep' = [rstep EXCEPT ![r] = "detached"]
  /\ theirs' = [theirs EXCEPT ![r] = NoObject]
  /\ UNCHANGED <<name, object, lock, lastGen, writer, life, kind>>

-----------------------------------------------------------------------------
Connect(w) ==
  \/ Exists(w) \/ OpenExisting(w) \/ CheckLength(w) \/ CheckHeader(w)
  \/ SetLength(w) \/ Initialize(w) \/ LockWriter(w) \/ StoreOwner(w)

Leave(w) == Unlock(w) \/ Unlink(w)

Poll(r) == OpenObject(r) \/ CheckOpened(r) \/ GiveUp(r)

Next ==
  \/ \E w \in Writers : Create(w) \/ Connect(w) \/ ClearOwner(w) \/ Leave(w)
                          \/ Crash(w)
  \/ \E r \in Readers : Poll(r)

Spec == Init /\ [][Next]_vars

(* Readers poll on every tick; connecting and leaving, once begun, are     *)
(* straight-line code.  Beginning to connect, leaving and dying are free.  *)
FairSpec ==
  /\ Spec
  /\ \A r \in Readers : WF_vars(Poll(r))
  /\ \A w \in Writers : WF_vars(Connect(w) /\ step[w] # "offline")
  /\ \A w \in Writers : WF_vars(Leave(w))

-----------------------------------------------------------------------------
Holding == {"own", "connected", "unlock"}

(* The name, the headers, the locks and the positions of both sides are    *)
(* what their declarations say.                                            *)
TypeOK ==
  /\ kind \in Kinds
  /\ name \in Objects \cup {NoObject}
  /\ object \in [Objects -> Header]
  /\ lock \in [Objects -> Writers \cup {NoProcess}]
  /\ lastGen \in 0 .. MaxGen
  /\ step \in [Writers -> Steps]
  /\ mine \in [Writers -> Objects \cup {NoObject}]
  /\ gen \in [Writers -> 0 .. MaxGen]
  /\ life \in [Writers -> 1 .. MaxLives]
  /\ rstep \in [Readers -> {"detached", "header", "attached"}]
  /\ theirs \in [Readers -> Objects \cup {NoObject}]

(* A connected writer is the owner its object's header records, and no     *)
(* other writer is past the lock on that object, however creations,        *)
(* refusals, crashes and disconnects of others interleave.                 *)
OwnerIsRecorded ==
  \A w \in Writers : step[w] = "connected" =>
    /\ object[mine[w]] = [stage |-> "ready", gen |-> gen[w], owner |-> Me(w)]
    /\ \A v \in Writers \ {w} : step[v] \in Holding => mine[v] # mine[w]

(* A second writer that is refused leaves no trace: while a writer stays   *)
(* connected nobody changes the length or the header of its object (test   *)
(* incompatible_second_writer_cannot_resize_the_live_region).              *)
LiveRegionUndisturbed ==
  [][\A w \in Writers :
       step[w] = "connected" /\ step'[w] = "connected" =>
         object'[mine[w]] = object[mine[w]]]_vars

(* "Writer PID ownership prevents two publishers": at most one writer of   *)
(* the endpoint is connected.                                              *)
OnePublisher ==
  \A v, w \in Writers :
    step[v] = "connected" /\ step[w] = "connected" => v = w

(* A POSIX endpoint keeps that promise, its lock file being one for every  *)
(* object the name ever links to.                                          *)
OnePosixPublisher == kind = "Posix" => OnePublisher

(* What holds of the endpoint at every moment: its variables are typed, a  *)
(* publisher is the recorded owner of its object, and POSIX has one.       *)
EndpointInv == TypeOK /\ OwnerIsRecorded /\ OnePosixPublisher

(* A reader comes to map the object of a writer that stays connected and   *)
(* published, whatever object of a crashed, departed or refused writer it  *)
(* had mapped before, as long as it is the only publisher.                 *)
OnlyPublisher(w) ==
  /\ step[w] = "connected" /\ name = mine[w]
  /\ \A v \in Writers \ {w} : step[v] # "connected"
ReadersFindWriter ==
  \A w \in Writers : \A r \in Readers :
    <>[]OnlyPublisher(w) => <>[](theirs[r] = mine[w])

-----------------------------------------------------------------------------
(* The inductive invariant behind the ownership of an object. *)

Creating == {"size", "initialize"}

(* A writer has an object open from its creation or opening to the end of  *)
(* the mapping.                                                            *)
ObjectOpen ==
  \A w \in Writers : mine[w] # NoObject <=> step[w] \notin {"offline", "open", "unlink"}

(* Its creator is alone with an object whose header is not written: nobody *)
(* else creates it, and nobody passes the test of the header.  From that   *)
(* test on the header stays written.                                       *)
OneCreator ==
  /\ \A w \in Writers : step[w] \in Creating => object[mine[w]].stage # "ready"
  /\ \A w \in Writers :
       step[w] \in Holding \cup {"lock"} => object[mine[w]].stage = "ready"
  /\ \A v, w \in Writers :
       v # w /\ step[v] \in Creating /\ step[w] \in Creating => mine[v] # mine[w]

(* Past the lock a writer holds the one its object has. *)
LockHeld ==
  \A w \in Writers : step[w] \in Holding => lock[LockOf(mine[w])] = w

IInv == TypeOK /\ ObjectOpen /\ OneCreator /\ LockHeld /\ OwnerIsRecorded
=============================================================================
