---------------------------- MODULE SceneHistory ----------------------------
(***************************************************************************)
(* The scene being edited, its undo and redo history and the named scenes  *)
(* (src/src/app/scenes.rs, scene_commands.rs, ui.rs, ui_scene.rs).         *)
(*                                                                         *)
(* Everything happens on the UI thread, a frame at a time, but in the      *)
(* order egui gives: `logic' first polls the camera discovery, which may   *)
(* rewrite camera locators, and then serves the keyboard shortcuts; `ui'   *)
(* takes a snapshot, lets the widgets edit the scene and finishes the      *)
(* history with the state of the pointer.  A drag spans several frames,    *)
(* so a shortcut can fall in the middle of one.                            *)
(***************************************************************************)
EXTENDS Integers, Sequences, FiniteSets, Functions, SequencesExt

CONSTANTS Sources,      \* source descriptors
          Legacy,       \* the old locator of a camera that is connected
          Current,      \* the device id it is now known by
          Transforms,   \* transforms a source can be given
          NoTransform,  \* the identity
          Styles,       \* settings: records [layout, filter, policy, ...]
          Names,        \* scene names, ordered as the program sorts them
          Imports,      \* scenes found in files: records [name, content]
          Initial,      \* the scenes that the preferences may restore
          HistoryLimit, \* SCENE_HISTORY_LIMIT
          SceneLimit,   \* how many named scenes are kept
          MaxEdits,     \* bound: edits, saves and imports of a behaviour
          None

ASSUME SceneAssumption ==
  /\ {Legacy, Current} \subseteq Sources
  /\ NoTransform \in Transforms
  /\ Names \subseteq Nat
  /\ HistoryLimit \in Nat \ {0} /\ SceneLimit \in Nat \ {0} /\ MaxEdits \in Nat

VARIABLES content,  \* sources, transforms and settings of the scene
          active,   \* active_scene_name
          scenes,   \* the named scenes: a function on the names in use
          preview,  \* import_preview
          undo, redo,
          pending,  \* pending_scene_edit: the snapshot before a drag
          skip,     \* skip_history_commit
          pointer,  \* a pointer button is down in this frame
          phase,    \* where the frame is
          before,   \* the snapshot `ui' starts with
          edits     \* history variable of MaxEdits

vars == <<content, active, scenes, preview, undo, redo, pending, skip, pointer,
          phase, before, edits>>

\* What SceneSnapshot::same_scene_content compares.  Selected sources are
\* distinct and ordered; a source without an entry has the identity.
Selected == UNION {{s \in [1 .. n -> Sources] : IsInjective(s)} : n \in 0 .. Cardinality(Sources)}
Content ==
  {c \in [sources : Seq(Sources), transforms : [Sources -> Transforms], style : Styles] :
     IsInjective(c.sources)}

Snapshots == [content : Content, active : Names \cup {None}]
Snapshot == [content |-> content, active |-> active]

ASSUME ContentAssumption ==
  /\ Initial \subseteq Content /\ Imports \subseteq [name : Names, content : Content]
  /\ None \notin Snapshots

TypeOK ==
  /\ Snapshot \in Snapshots
  /\ DOMAIN scenes \subseteq Names /\ scenes \in [DOMAIN scenes -> Content]
  /\ preview \in Imports \cup {None}
  /\ undo \in Seq(Snapshots) /\ redo \in Seq(Snapshots)
  /\ pending \in Snapshots \cup {None} /\ before \in Snapshots \cup {None}
  /\ skip \in BOOLEAN /\ pointer \in BOOLEAN
  /\ phase \in {"rest", "logic", "ui", "finish"}
  /\ edits \in 0 .. MaxEdits

Init ==
  /\ content \in Initial /\ active = None
  /\ scenes = << >> /\ preview = None
  /\ undo = << >> /\ redo = << >>
  /\ pending = None /\ skip = FALSE
  /\ pointer = FALSE /\ phase = "rest" /\ before = None
  /\ edits = 0

(***************************************************************************)
(* The history.                                                            *)
(***************************************************************************)

\* push_bounded: the oldest entry makes room.
Pushed(stack, entry) ==
  Append(IF Len(stack) = HistoryLimit THEN Tail(stack) ELSE stack, entry)

\* Mutant: an edit after an undo leaves what was undone in the redo stack.
CommitKeepsRedo(baseline) ==
  /\ undo' = IF skip \/ baseline.content = content' THEN undo ELSE Pushed(undo, baseline)
  /\ skip' = FALSE
  /\ UNCHANGED <<active, redo>>

\* commit_scene_history: the edit that led from the baseline to content' and
\* active becomes an entry, unless an undo or redo asked to skip it.
Commit(baseline) ==
  /\ skip' = FALSE
  /\ IF skip \/ baseline.content = content'
     THEN UNCHANGED <<active, undo, redo>>
     ELSE /\ active' = IF baseline.active = active THEN None ELSE active
          /\ undo' = Pushed(undo, baseline)
          /\ redo' = << >>

Restored(snapshot) == content' = snapshot.content /\ active' = snapshot.active

\* Mutant: the step back is not told to the end of the frame.
UndoSceneEditUnmarked ==
  /\ undo # << >>
  /\ redo' = Pushed(redo, Snapshot) /\ undo' = Front(undo)
  /\ Restored(Last(undo))
  /\ UNCHANGED skip

UndoSceneEdit ==
  /\ undo # << >>
  /\ redo' = Pushed(redo, Snapshot) /\ undo' = Front(undo)
  /\ Restored(Last(undo))
  /\ skip' = TRUE

RedoSceneEdit ==
  /\ redo # << >>
  /\ undo' = Pushed(undo, Snapshot) /\ redo' = Front(redo)
  /\ Restored(Last(redo))
  /\ skip' = TRUE

(***************************************************************************)
(* Edits of the scene: apply_scene_command.                                *)
(***************************************************************************)

Moved(sources, from, to) ==
  [sources EXCEPT ![from] = sources[to], ![to] = sources[from]]

Selections(c) ==
  {[c EXCEPT !.sources = Append(@, s)] : s \in Sources \ Range(c.sources)}
    \cup {[c EXCEPT !.sources = RemoveAt(@, i)] : i \in DOMAIN c.sources}

Moves(c) ==
  {[c EXCEPT !.sources = Moved(@, i, i + 1)] : i \in 1 .. Len(c.sources) - 1}

\* One widget changes one field of a record.
OneField(r, s) == Cardinality({f \in DOMAIN r : r[f] # s[f]}) = 1

\* The inspector edits a field of the transform of a source of the scene, or
\* resets the transform.
Transformations(c) ==
  {[c EXCEPT !.transforms[p[1]] = p[2]] :
     p \in {p \in Range(c.sources) \X Transforms :
              \/ OneField(c.transforms[p[1]], p[2])
              \/ p[2] = NoTransform /\ c.transforms[p[1]] # NoTransform}}

Settings(c) == {[c EXCEPT !.style = s] : s \in {s \in Styles : OneField(c.style, s)}}

EditsOf(c) == Selections(c) \cup Moves(c) \cup Transformations(c) \cup Settings(c)

Counted == edits < MaxEdits /\ edits' = edits + 1

(***************************************************************************)
(* A frame: logic.                                                         *)
(***************************************************************************)

\* migrate_camera_aliases: the old locator becomes the device id, in the scene
\* and in every named one, but not in the history; a second occurrence goes.
Place(c, s) == CHOOSE i \in DOMAIN c.sources : c.sources[i] = s
Second(c) ==
  IF Place(c, Legacy) < Place(c, Current) THEN Place(c, Current) ELSE Place(c, Legacy)
Remapped(c) ==
  LET renamed == [c.sources EXCEPT ![Place(c, Legacy)] = Current]
      sources == IF Current \in Range(c.sources) THEN RemoveAt(renamed, Second(c)) ELSE renamed
      current == IF c.transforms[Current] = NoTransform THEN c.transforms[Legacy]
                                                       ELSE c.transforms[Current]
      transforms == [c.transforms EXCEPT ![Legacy] = NoTransform, ![Current] = current]
  IN  IF Legacy \notin Range(c.sources)
      THEN c
      ELSE [c EXCEPT !.sources = sources, !.transforms = transforms]

\* The frame starts: the pointer is read, and a discovery may have ended.
NewFrame(down, discovered) ==
  /\ phase = "rest" /\ phase' = "logic"
  /\ pointer' = down
  /\ content' = IF discovered THEN Remapped(content) ELSE content
  /\ scenes' = IF discovered THEN [n \in DOMAIN scenes |-> Remapped(scenes[n])] ELSE scenes
  /\ UNCHANGED <<active, preview, undo, redo, pending, skip, before>> /\ UNCHANGED edits

\* After the shortcuts `ui' takes its snapshot.
ToUi ==
  /\ phase = "logic" /\ phase' = "ui"
  /\ before' = [content |-> content', active |-> active']
  /\ UNCHANGED <<scenes, preview, pending, pointer>>

NoShortcut == UNCHANGED <<content, active, undo, redo, skip>> /\ UNCHANGED edits /\ ToUi

\* Command-Z and Command-Shift-Z.
UndoShortcut == UndoSceneEdit /\ ToUi /\ UNCHANGED edits
RedoShortcut == RedoSceneEdit /\ ToUi /\ UNCHANGED edits

\* Command and an arrow: the selected source changes place, and the edit is
\* committed at once.
MoveShortcut ==
  /\ phase = "logic"
  /\ content' \in Moves(content)
  /\ Commit(Snapshot)
  /\ ToUi /\ Counted

(***************************************************************************)
(* A frame: ui.  At most one widget changes the scene in a frame.          *)
(***************************************************************************)

InUi == phase = "ui" /\ phase' = "finish" /\ UNCHANGED <<pending, pointer, before>>

NoWidget ==
  InUi /\ UNCHANGED <<content, active, scenes, preview, undo, redo, skip>> /\ UNCHANGED edits

EditWidget ==
  /\ InUi /\ content' \in EditsOf(content)
  /\ Counted
  /\ UNCHANGED <<active, scenes, preview, undo, redo, skip>>

UndoButton == InUi /\ UndoSceneEdit /\ UNCHANGED <<scenes, preview>> /\ UNCHANGED edits
RedoButton == InUi /\ RedoSceneEdit /\ UNCHANGED <<scenes, preview>> /\ UNCHANGED edits

\* current_scene_document: only the transforms of the selected sources.
SceneDocument(c) ==
  [c EXCEPT !.transforms = [s \in Sources |-> IF s \in Range(c.sources) THEN @[s] ELSE NoTransform]]

\* The scene goes in under its name; the first of the sorted names makes room.
Stored(name, scene) ==
  LET used == DOMAIN scenes
      full == name \notin used /\ Cardinality(used) = SceneLimit
      first == CHOOSE n \in used : \A m \in used : n <= m
      kept == (IF full THEN used \ {first} ELSE used) \cup {name}
  IN  [n \in kept |-> IF n = name THEN scene ELSE scenes[n]]

SaveCurrentScene(name) ==
  /\ InUi /\ Counted
  /\ scenes' = Stored(name, SceneDocument(content))
  /\ active' = name
  /\ UNCHANGED <<content, preview, undo, redo, skip>>

ApplyScene(name) ==
  /\ InUi /\ Counted
  /\ name \in DOMAIN scenes
  /\ content' = scenes[name] /\ active' = name
  /\ UNCHANGED <<scenes, preview, undo, redo, skip>>

\* A file is read and validated, or its path edited: a file that cannot be
\* read leaves the preview of the one before.
ValidateSceneImport ==
  /\ InUi /\ Counted
  /\ preview' \in Imports \cup {None}
  /\ UNCHANGED <<content, active, scenes, undo, redo, skip>>

AcceptSceneImport ==
  /\ InUi
  /\ preview # None
  /\ scenes' = Stored(preview.name, preview.content) /\ preview' = None
  /\ UNCHANGED <<content, active, undo, redo, skip>> /\ UNCHANGED edits

(***************************************************************************)
(* The end of a frame: finish_scene_history.                               *)
(***************************************************************************)

\* history_baseline_after_pointer: the first snapshot of a drag that changed the scene.
BaselineAfterPointer == IF pending = None THEN before ELSE pending

FinishSceneHistory ==
  /\ phase = "finish" /\ phase' = "rest"
  /\ before' = None
  /\ UNCHANGED <<content, scenes, preview, pointer>> /\ UNCHANGED edits
  /\ IF pointer
     THEN /\ pending' = IF before.content # content THEN BaselineAfterPointer ELSE pending
          /\ UNCHANGED <<active, undo, redo, skip>>
     ELSE /\ Commit(BaselineAfterPointer)
          /\ pending' = None

Shortcut == NoShortcut \/ UndoShortcut \/ RedoShortcut \/ MoveShortcut

Widget ==
  \/ NoWidget \/ EditWidget \/ UndoButton \/ RedoButton
  \/ \E name \in Names : SaveCurrentScene(name) \/ ApplyScene(name)
  \/ ValidateSceneImport \/ AcceptSceneImport

Next ==
  \/ \E down, discovered \in BOOLEAN : NewFrame(down, discovered)
  \/ Shortcut
  \/ Widget
  \/ FinishSceneHistory

Spec == Init /\ [][Next]_vars

(***************************************************************************)
(* Properties.                                                             *)
(***************************************************************************)

\* Undo and redo together never hold more than the limit: since an undo moves
\* an entry from one to the other, neither push of undo_scene_edit and
\* redo_scene_edit ever throws away what the other direction needs; only a new
\* edit drops the oldest entry.
HistoryFits == Len(undo) + Len(redo) <= HistoryLimit

\* Between two frames, with no button held, no drag is open and no commit is
\* still to be skipped: the next edit is an entry of its own.
GestureClosed == phase = "rest" /\ ~pointer => pending = None /\ ~skip

\* The types, the bound of the two stacks and the end of a gesture.
SceneInv == TypeOK /\ HistoryFits /\ GestureClosed

\* The snapshot of a frame is the scene until a widget has changed it.
SnapshotOfFrame ==
  /\ before # None <=> phase \in {"ui", "finish"}
  /\ phase = "ui" => before = Snapshot

\* The inductive invariant.
SceneOrder == SceneInv /\ SnapshotOfFrame

\* The scene that the history counts as shown: while a drag or a frame edits,
\* what was there before it.
Shown ==
  CASE skip -> content
    [] ~skip /\ pending # None -> pending.content
    [] ~skip /\ pending = None /\ before # None -> before.content
    [] OTHER -> content

ContentsOf(stack) == [i \in DOMAIN stack |-> stack[i].content]
Timeline == ContentsOf(undo) \o <<Shown>> \o Reverse(ContentsOf(redo))
Position == Len(undo) + 1

SameTimeline == Timeline' = Timeline /\ Position' \in {Position - 1, Position, Position + 1}

\* A new entry follows the one shown; what was undone is gone, and the oldest
\* entry when the history is full.
Extended ==
  LET longer == SubSeq(Timeline, 1, Position) \o <<Shown'>>
  IN  /\ Timeline' = IF Position > HistoryLimit THEN Tail(longer) ELSE longer
      /\ Position' = Len(Timeline')

\* A migration rewrites the entry shown in its place.
Rewritten ==
  /\ phase = "rest"
  /\ Timeline' = [Timeline EXCEPT ![Position] = Remapped(@)] /\ Position' = Position

\* The two cases the code does not keep in line: a shortcut that changes the
\* history while a drag has already changed the scene, and an edit that shares
\* its frame or its drag with an undo or redo, whose commit it loses.
InterruptedDrag == pending # None /\ undo' # undo /\ phase # "finish"
EditWithUndo == skip /\ content' # content

\* The history is a line of scenes with a cursor (undo_scene_edit,
\* redo_scene_edit, finish_scene_history): an undo or a redo moves the cursor
\* by one and changes no scene of the line, an edit, a whole drag of several
\* frames included, cuts the line at the cursor and adds one scene to it, and
\* nothing else touches it, whatever the order of shortcuts, widgets, pointer
\* and camera discovery; except in the two cases above.
LinearHistory ==
  [][SameTimeline \/ Extended \/ Rewritten \/ InterruptedDrag \/ EditWithUndo]_vars
=============================================================================
