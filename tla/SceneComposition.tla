-------------------------- MODULE SceneComposition --------------------------
(***************************************************************************)
(* The edited scene and what the compositor makes of it: every scene that  *)
(* the editor can reach, with any of its sources missing, is resolved by   *)
(* prepare_sources (src/src/app/scenes.rs) and composed into a recycled    *)
(* output frame (src/src/render.rs).                                       *)
(***************************************************************************)
EXTENDS SceneHistory, Compositor

CONSTANTS Frames,         \* Frames[s]: the geometry and contract of the frames of s
          Outputs,        \* output sizes <<width, height>>
          PreviewLimits,  \* the largest previews <<width, height>>
          AllTransforms,  \* more transforms and settings than the history is
          AllStyles       \* checked with

ASSUME CompositionAssumption == Transforms \subseteq AllTransforms /\ Styles \subseteq AllStyles

\* Outputs and previews have pixels, frames were validated when they were made, and
\* transforms are those that sanitizing leaves as they are.
ASSUME GeometryAssumption ==
  /\ IsFiniteSet(Sources)
  /\ Outputs \cup PreviewLimits \subseteq (Nat \ {0}) \X (Nat \ {0})
  /\ \A s \in Sources : IsFrame(Frames[s]) /\ Frames[s] # None
  /\ \A t \in AllTransforms : t \in Entered /\ Sanitized(t) = t
  /\ \A s \in AllStyles : s.layout \in {"Row", "Column", "Grid", "PictureInPicture"}

\* The loop over the sources, which passes over the hidden ones.
Pushes(sources, hidden) ==
  LET UpTo[n \in 0 .. Len(sources)] ==
        IF n = 0 THEN << >>
        ELSE IF sources[n] \in hidden THEN UpTo[n - 1] ELSE Append(UpTo[n - 1], sources[n])
  IN  UpTo[Len(sources)]

\* prepare_sources: the sources with a fresh frame, those whose last good frame
\* may still be shown, and the frame and transform of each cell.
PreparedSources(c, fresh, frozen) ==
  LET Frame(s) == IF s \in fresh \/ (c.style.policy = "FreezeBriefly" /\ s \in frozen)
                  THEN Frames[s] ELSE None
      hidden == {s \in Range(c.sources) : c.style.policy = "HideCell" /\ Frame(s) = None}
      kept == Pushes(c.sources, hidden)
  IN  [frames |-> [i \in DOMAIN kept |-> Frame(kept[i])],
       transforms |-> [i \in DOMAIN kept |-> c.transforms[kept[i]]]]

\* The resolutions of a scene; nothing is composed of no cell at all.
Resolutions(c) ==
  LET all == SUBSET Range(c.sources)
      frozen == IF c.style.policy = "FreezeBriefly" THEN all ELSE {{}}
  IN  {p \in {PreparedSources(c, f, g) : f \in all, g \in frozen} : p.frames # << >>}

WholeOutput(c) ==
  \A p \in Resolutions(c), size \in Outputs :
    Composed(size[1], size[2], p.frames, p.transforms, c.style, None)
      = Pixels(Rect(0, 0, size[1], size[2]))

\* The pastes of a composition: cell i has a frame.
Pasted(p) == {i \in DOMAIN p.frames : p.frames[i] # None}

NoneRefused(c) ==
  \A p \in Resolutions(c) : \A i \in Pasted(p) : Accepts(p.frames[i], p.transforms[i])

ReadsInside(c) ==
  \A p \in Resolutions(c), size \in Outputs :
    \A i \in Pasted(p) :
      LET aperture == ApplyToContract(p.transforms[i], p.frames[i].contract).aperture
          cell == Cells(size[1], size[2], Len(p.frames), c.style.layout)[i]
      IN  /\ Pixels(aperture) \subseteq Pixels(p.frames[i].contract.aperture)
          /\ ReadPixels(p.frames[i], cell, p.transforms[i], c.style.filter)
               \subseteq Pixels(aperture)

\* The scenes of these sources, in this order.
ScenesOf(sources) ==
  [sources : {sources}, transforms : [Range(sources) -> AllTransforms], style : AllStyles]

\* The orders of the sources are few: each is judged once.
Accepted == {<<q, \A c \in ScenesOf(q) : NoneRefused(c)>> : q \in Selected}
Whole == {<<q, \A c \in ScenesOf(q) : WholeOutput(c)>> : q \in Selected}
Inside == {<<q, \A c \in ScenesOf(q) : ReadsInside(c)>> : q \in Selected}

\* compose_with leaves no pixel of the recycled output as it was, although it
\* skips the background when the cells seem to cover the output and the fill of
\* a cell when the paste seems to cover the cell: whatever the sources of the
\* scene, their transforms, the layout, the filter, the sources that are missing
\* and the policy for them.
NoRecycledPixel == <<content.sources, TRUE>> \in Whole

\* A paste reads only pixels inside the clean aperture left by the crop, which
\* lies inside the one of the frame: the expect of
\* sample_premultiplied and the slice indices of the other paths hold for every
\* rotation, mirror, position, fit and filter.
ReadsStayInside == <<content.sources, TRUE>> \in Inside

\* No source of a scene can fail the composition of the others: what the inspector,
\* a file or the preferences entered is sanitized to a transform that validates, and
\* the crop leaves every frame an aperture that validates again.
NoSourceIsRefused == <<content.sources, TRUE>> \in Accepted

\* A rectangle of length x breadth shrunk to a length of `along': its breadth `across'
\* is rounded down, but not to nothing.
IsScaled(along, across, length, breadth) ==
  /\ across = 1 \/ across * length <= along * breadth
  /\ along * breadth <= (across + 1) * length

\* The preview of a composition lies inside its limits, keeps the shape of the
\* output to within a pixel (the last one is never rounded away), and each of its
\* pixels is one of the output, the first pixel the first one: no slice index of
\* fill_preview_pixels is out of range.
PreviewIsWhole ==
  \A size \in Outputs, limits \in PreviewLimits :
    LET shown == PreviewDimensions(size[1], size[2], limits)
        from == PreviewPixels(size[1], size[2], shown)
    IN  /\ shown[1] \in 1 .. limits[1] /\ shown[2] \in 1 .. limits[2]
        /\ \/ IsScaled(shown[1], shown[2], size[1], size[2])
           \/ IsScaled(shown[2], shown[1], size[2], size[1])
        /\ Range(from) \subseteq Pixels(Rect(0, 0, size[1], size[2]))
        /\ from[<<0, 0>>] = <<0, 0>>

\* What the composition of any scene that is reached, and of its preview, writes and
\* what it reads.
CompositionInv == PreviewIsWhole /\ NoRecycledPixel /\ ReadsStayInside /\ NoSourceIsRefused
=============================================================================
