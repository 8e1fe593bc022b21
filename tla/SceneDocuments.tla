--------------------------- MODULE SceneDocuments ---------------------------
(***************************************************************************)
(* What the edited scene is on disk: the scene files that are exported and *)
(* imported (src/src/scene_schema.rs), the preferences that are saved and  *)
(* restored (src/src/app_preferences.rs), the migrations of both and the   *)
(* envelope that bounds what is parsed (src/src/parser_limits.rs).         *)
(*                                                                         *)
(* A document is a record with the fields its file has; a stable key is    *)
(* the descriptor itself, and the keys of old files are bare locators.  A  *)
(* result that may be an error is a set of none or one.  `@@' keeps what   *)
(* is there, as or_insert does.  The rates, the locale and the switches of *)
(* the preferences are left out: they are restored as they are.            *)
(***************************************************************************)
EXTENDS SceneHistory, TLC

CONSTANTS Described,      \* Described[s]: the kind and the locator of a source
          Junk,           \* a descriptor that SourceDescriptor::validate refuses
          DefaultSources, \* what a first launch selects
          MaxSources,     \* take(64), and max_elements of the sources of a scene
          SceneElements,  \* max_elements of a scene file
          StoredElements  \* max_elements of the preferences

ASSUME DocumentsAssumption ==
  /\ \A s, t \in Sources : Described[s] = Described[t] => s = t
  /\ Junk \notin Sources

SchemaVersion == 4
Kind(s) == Described[s].kind
Locator(s) == Described[s].locator
SourceOf(kind, locator) == CHOOSE s \in Sources : Described[s] = [kind |-> kind, locator |-> locator]

Nothing == << >>   \* no sources, no transforms, no scenes

(***************************************************************************)
(* validate_json_envelope counts what opens a bracket and what follows a   *)
(* comma.                                                                  *)
(***************************************************************************)
Listed(count, each) == 1 + count * each + (IF count = 0 THEN 0 ELSE count - 1)
DescriptorElements == 2
TransformElements == 12

DocumentElements(d) ==
  8 + Listed(Len(d.sources), DescriptorElements)
    + Listed(Cardinality(DOMAIN d.transforms), TransformElements)

PreferencesElements(p) ==
  LET all[n \in 0 .. Len(p.scenes)] ==
        IF n = 0 THEN 0 ELSE all[n - 1] + DocumentElements(p.scenes[n])
  IN  13 + Listed(Len(p.sources), DescriptorElements)
         + Listed(Cardinality(DOMAIN p.transforms), TransformElements)
         + Listed(Len(p.scenes), 0) + all[Len(p.scenes)]

(***************************************************************************)
(* A scene file.                                                           *)
(***************************************************************************)

\* The transforms that are written: those of a set of sources that have one.
Entries(c, sources) ==
  [s \in {s \in sources : c.transforms[s] # NoTransform} |-> c.transforms[s]]

\* current_scene_document, and a named scene as the preferences hold it.
DocumentOf(name, c) ==
  [version |-> SchemaVersion, name |-> name, sources |-> c.sources,
   transforms |-> Entries(c, Sources)] @@ c.style

\* apply_scene and CameraManApp::new: the scene of a document.
SceneOf(d) ==
  [sources |-> d.sources,
   transforms |-> [s \in Sources |-> IF s \in DOMAIN d.transforms THEN d.transforms[s]
                                                                  ELSE NoTransform],
   style |-> [layout |-> d.layout, filter |-> d.filter, policy |-> d.policy]]

\* SceneDocument::validate
Validated(d) ==
  {x \in {d} :
     /\ x.version = SchemaVersion
     /\ Len(x.sources) <= MaxSources /\ IsInjective(x.sources)
     /\ Range(x.sources) \subseteq Sources
     /\ DOMAIN x.transforms \subseteq Range(x.sources)}

\* remap_legacy_transform_keys: the transform of a locator becomes that of the
\* source, unless the source has one.
Rekeyed(sources, transforms) ==
  LET named == {s \in Range(sources) \cap Sources : Locator(s) \in DOMAIN transforms}
  IN  [k \in DOMAIN transforms \ {Locator(s) : s \in named} |-> transforms[k]]
        @@ [s \in named |-> transforms[Locator(s)]]

Without(d, fields) == [f \in DOMAIN d \ fields |-> d[f]]
Located(mode, locators) == [i \in DOMAIN locators |-> SourceOf(mode, locators[i])]

MigrateV1(d) == d @@ [filter |-> "Nearest"]
MigrateV2(d) == d @@ [mode |-> "Synthetic", transforms |-> Nothing, policy |-> "Placeholder"]
MigrateV3(d) ==
  LET sources == Located(d.mode, d.source_ids)
  IN  [sources |-> sources, transforms |-> Rekeyed(sources, d.transforms)]
        @@ Without(d, {"mode", "source_ids"})

\* migrate_scene_value
Migrate(d) ==
  [version |-> SchemaVersion] @@
    CASE d.version = 1 -> MigrateV3(MigrateV2(MigrateV1(d)))
      [] d.version = 2 -> MigrateV3(MigrateV2(d))
      [] d.version = 3 -> MigrateV3(d)
      [] OTHER -> d

\* SceneDocument::from_json; validate_scene_import takes the answer for preview.
FromJson(d, elements) ==
  IF elements > SceneElements \/ d.version > SchemaVersion THEN {} ELSE Validated(Migrate(d))

\* into_current: the other way to migrate, of a scene inside the preferences.
IntoCurrent(d) ==
  LET x == d @@ [sources |-> Nothing, transforms |-> Nothing, policy |-> "Placeholder",
                 mode |-> "Synthetic", source_ids |-> Nothing]
      sources == IF x.sources = Nothing THEN Located(x.mode, x.source_ids) ELSE x.sources
      current == IF x.version = SchemaVersion THEN x
                 ELSE [x EXCEPT !.version = SchemaVersion, !.sources = sources,
                                !.transforms = Rekeyed(sources, @)]
  IN  IF x.version > SchemaVersion THEN {}
      ELSE Validated(Without(current, {"mode", "source_ids"}))

(***************************************************************************)
(* The preferences.                                                        *)
(***************************************************************************)

\* filter_map: those that are kept, in order.
Kept(F(_), q) ==
  LET kept == SelectSeq(q, LAMBDA x : F(x) # {})
  IN  [i \in DOMAIN kept |-> CHOOSE y \in F(kept[i]) : TRUE]

\* Of equal keys the first stays.
FirstOf(K(_), q) ==
  LET at == SelectSeq([i \in DOMAIN q |-> i], LAMBDA i : \A j \in 1 .. i - 1 : K(q[j]) # K(q[i]))
  IN  [i \in DOMAIN at |-> q[at[i]]]

UpTo(count, q) == SubSeq(q, 1, IF Len(q) < count THEN Len(q) ELSE count)

\* sanitized_sources
SanitizedSources(sources) ==
  UpTo(MaxSources, FirstOf(LAMBDA s : s, SelectSeq(sources, LAMBDA s : s \in Sources)))

NamesOf(docs) == {docs[i].name : i \in DOMAIN docs}

\* Mutant: the name of the active scene is taken as it is.
ActiveAsItIs(p, docs) == p.active
ActiveOf(p, docs) == IF p.active \in NamesOf(docs) THEN p.active ELSE None

SanitizedPreferences(p) ==
  LET docs == UpTo(SceneLimit, FirstOf(LAMBDA d : d.name, Kept(IntoCurrent, p.scenes)))
  IN  [p EXCEPT !.sources = SanitizedSources(@), !.scenes = docs, !.active = ActiveOf(p, docs)]

Default == [version |-> SchemaVersion, sources |-> DefaultSources, transforms |-> Nothing,
            scenes |-> Nothing, active |-> None]
             @@ [layout |-> "Grid", filter |-> "Nearest", policy |-> "Placeholder"]
Legacies == [mode |-> "Synthetic", synthetic_ids |-> Nothing, real_ids |-> Nothing]

\* The transforms of sources that are not selected stay under their locators.
MigratedPreferences(p) ==
  LET sources == IF p.sources = Nothing
                 THEN Located(p.mode, IF p.mode = "Camera" THEN p.real_ids ELSE p.synthetic_ids)
                 ELSE p.sources
      current == [sources |-> sources, transforms |-> Rekeyed(sources, p.transforms),
                  scenes |-> Kept(IntoCurrent, p.scenes), version |-> SchemaVersion] @@ p
  IN  CASE p.version > SchemaVersion -> Default
        [] p.version = SchemaVersion -> Without(p, DOMAIN Legacies)
        [] OTHER -> Without(current, DOMAIN Legacies)

\* load_from_atomic_path, of a file that parses; the fields it does not have
\* are those of the defaults.
Loaded(p) ==
  SanitizedPreferences(MigratedPreferences(p @@ [sources |-> Nothing] @@ Legacies @@ Default))

\* store_atomically: a file that would not be read back as it is is not written.
Stores(p) == PreferencesElements(p) <= StoredElements /\ SanitizedPreferences(p) = p

\* CameraManApp::preferences
Preferences ==
  LET names == SetToSortSeq(DOMAIN scenes, <)
  IN  [version |-> SchemaVersion, sources |-> content.sources,
       transforms |-> Entries(content, Sources),
       scenes |-> [i \in DOMAIN names |-> DocumentOf(names[i], scenes[names[i]])],
       active |-> active] @@ content.style

(***************************************************************************)
(* Properties.                                                             *)
(***************************************************************************)

\* A scene that was exported can be imported again as it was, as long as its
\* file is inside the envelope: the export does not look at that.
ExportIsImported(c) ==
  LET d == DocumentOf(CHOOSE n \in Names : TRUE, SceneDocument(c))
      elements == DocumentElements(d)
  IN  /\ FromJson(d, elements) = IF elements > SceneElements THEN {} ELSE {d}
      /\ SceneOf(d) = SceneDocument(c)

\* Preferences that are saved restore the scene, the named scenes and which of
\* them is shown.  They are refused, and the next launch restores older ones,
\* only beyond the envelope or when the active scene has made room for another.
RestartRestores ==
  LET p == Preferences
      fits == PreferencesElements(p) <= StoredElements
  IN  /\ Stores(p) <=> fits /\ active \in DOMAIN scenes \cup {None}
      /\ Stores(p) => Loaded(p) = p /\ SceneOf(p) = content
      /\ \A i \in DOMAIN p.scenes : SceneOf(p.scenes[i]) = scenes[p.scenes[i].name]

\* Files with a duplicate, an invalid source, scenes of one name, a scene with
\* the transform of a source it does not have, a name of no scene, or from a
\* later version.
Damaged(p) ==
  {[p EXCEPT !.sources = @ \o @], [p EXCEPT !.sources = <<Junk>> \o @],
   [p EXCEPT !.scenes = @ \o @], [p EXCEPT !.version = SchemaVersion + 1]}
    \cup {[p EXCEPT !.active = n] : n \in Names}
    \cup {[p EXCEPT !.scenes[i].sources = Nothing] : i \in DOMAIN p.scenes}

\* Whatever a file holds, what is loaded from it can be saved again.
LoadedIsStored ==
  \A f \in Damaged(Preferences) :
    PreferencesElements(Loaded(f)) <= StoredElements => Stores(Loaded(f))

\* What version v could say of a scene whose sources are all of one kind: the
\* first had no filter, the first two test patterns only and no transforms.
Reduced(v, c) ==
  [sources |-> c.sources,
   transforms |-> IF v = 3 THEN c.transforms ELSE [s \in Sources |-> NoTransform],
   style |-> [layout |-> c.style.layout,
              filter |-> IF v = 1 THEN "Nearest" ELSE c.style.filter,
              policy |-> IF v = 3 THEN c.style.policy ELSE "Placeholder"]]

Modes(v, c) ==
  {m \in IF v = 3 THEN {"Synthetic", "Camera"} ELSE {"Synthetic"} :
     \A s \in Range(c.sources) : Kind(s) = m}

ByLocator(c) ==
  LET e == Entries(c, Range(c.sources))
  IN  [l \in {Locator(s) : s \in DOMAIN e} |->
         e[CHOOSE s \in DOMAIN e : Locator(s) = l]]

AsWritten(v, mode, name, c) ==
  [version |-> v, name |-> name, layout |-> c.style.layout,
   source_ids |-> [i \in DOMAIN c.sources |-> Locator(c.sources[i])]]
    @@ (IF v = 1 THEN Nothing ELSE [filter |-> c.style.filter])
    @@ (IF v < 3 THEN Nothing
        ELSE [mode |-> mode, transforms |-> ByLocator(c), policy |-> c.style.policy])

\* A scene written by an earlier version is read as that scene, from a file and
\* from the preferences, which migrate it in two different ways; and so are the
\* preferences of that version, except transforms of sources not selected.
OldFilesAreRead(c) ==
  \A v \in 1 .. 3, name \in Names : \A mode \in Modes(v, c) :
    LET old == AsWritten(v, mode, name, c)
        now == {DocumentOf(name, Reduced(v, SceneDocument(c)))}
        ids == [i \in DOMAIN c.sources |-> Locator(c.sources[i])]
        restored == Loaded([version |-> v, mode |-> mode, synthetic_ids |-> ids,
                            real_ids |-> ids, transforms |-> ByLocator(c),
                            scenes |-> <<old>>, active |-> name] @@ c.style)
    IN  /\ FromJson(old, 0) = now
        /\ v # 1 => IntoCurrent(old) = now
        /\ v # 1 => SceneOf(restored) = SceneDocument(c) /\ Range(restored.scenes) = now

\* Each scene is judged once.
Readable ==
  {c \in [sources : Selected, transforms : [Sources -> Transforms], style : Styles] :
     ExportIsImported(c) /\ OldFilesAreRead(c)}

\* What is written between two frames is read again (a save while a button is
\* held finds a scene that an edit without a drag makes, too).
DocumentsInv ==
  phase = "rest" /\ ~pointer => content \in Readable /\ RestartRestores /\ LoadedIsStored
=============================================================================
