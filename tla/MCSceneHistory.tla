--------------------------- MODULE MCSceneHistory ---------------------------
(* A camera with an old and a new locator and a test pattern, in scenes of  *)
(* two and three cells, for TLC.                                            *)
EXTENDS SceneComposition, SceneDocuments

CONSTANTS camOld, cam, desk

\* A mirrored fill moved to a side, a translucent one, a turned fit entered
\* with a crop of more than everything.
Filled == [Identity EXCEPT !.fit = "Fill", !.x = -1000, !.y = 500, !.mirrorH = TRUE]
Faded  == [Filled EXCEPT !.opacity = 500]
Turned == [Identity EXCEPT !.left = 400, !.right = 700, !.bottom = 300, !.rotation = 1,
                           !.mirrorV = TRUE, !.x = 1000]
MCAllTransforms == {Sanitized(t) : t \in {Identity, Filled, Turned, Faded}}
MCTransforms == {Identity, Filled}

Style(layout, filter, policy) == [layout |-> layout, filter |-> filter, policy |-> policy]
MCStyles ==
  {Style("Row", "Nearest", "Placeholder"), Style("Grid", "Nearest", "Placeholder")}
MCAllStyles == {Style("Row", "Nearest", "FreezeBriefly"), Style("Column", "Nearest", "HideCell"),
                Style("Grid", "Nearest", "Placeholder"), Style("Grid", "Bilinear", "HideCell"),
                Style("PictureInPicture", "Bilinear", "FreezeBriefly")} \cup MCStyles

Plain == [s \in Sources |-> NoTransform]
MCInitial ==
  {[sources |-> <<camOld, desk>>, transforms |-> [Plain EXCEPT ![camOld] = Filled],
    style |-> Style("Row", "Nearest", "Placeholder")]}
MCImports ==
  {[name |-> 1, content |-> [sources |-> <<desk>>, transforms |-> Plain,
                             style |-> Style("Grid", "Nearest", "Placeholder")]]}

\* A canonical frame, a cropped one of the camera held sideways with pixels that
\* are not square, and a translucent one.
MCFrames ==
  [s \in Sources |->
     CASE s = desk -> [width |-> 4, height |-> 2, contract |-> CanonicalContract(4, 2)]
       [] s = cam -> [width |-> 5, height |-> 3, contract |->
            [CanonicalContract(5, 3) EXCEPT !.aperture = Rect(1, 0, 4, 3), !.rotation = 3,
                                            !.square = <<3, 2>>,
                                            !.colorimetry = "LimitedOpaque"]]
       [] s = camOld -> [width |-> 3, height |-> 3, contract |->
            [CanonicalContract(3, 3) EXCEPT !.rotation = 2, !.colorimetry = "Translucent"]]]
MCDescribed ==
  [s \in Sources |->
     [kind |-> IF s = desk THEN "Synthetic" ELSE "Camera",
      locator |-> CASE s = desk -> "desk" [] s = cam -> "id" [] s = camOld -> "0"]]
MCDefaultSources == <<desk>>
MCOutputs == {<<7, 5>>, <<2, 1>>}
MCPreviewLimits == {<<1, 1>>, <<4, 3>>, <<2, 4>>, <<6, 2>>, <<9, 9>>}
=============================================================================
