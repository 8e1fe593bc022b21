----------------------------- MODULE Compositor -----------------------------
(***************************************************************************)
(* The geometry of the CPU compositor (src/src/layout.rs, render.rs,       *)
(* source_transform.rs, media_contract.rs): which rectangle of the output  *)
(* each source is given, which pixels of it a frame is pasted over and     *)
(* which pixels of the frame are read for it.                              *)
(*                                                                         *)
(* The output frame is usually a recycled one (render_worker.rs, 268-285), *)
(* so a pixel that nothing overwrites shows a previous composition.  The   *)
(* compositor skips its fills when it believes that what it draws next     *)
(* covers everything; the operators keep those decisions, and the colours  *)
(* only as far as they tell an overwritten pixel from a blended one.       *)
(*                                                                         *)
(* The f32 and f64 arithmetic of the code is taken at its exact value,     *)
(* with round() rounding a half up; a frame and a transform have the       *)
(* fields of the structs of the same name, a rotation counts quarter       *)
(* turns, and a colorimetry is "FullOpaque" (BT709_FULL_OPAQUE),           *)
(* "LimitedOpaque" or "Translucent".                                       *)
(***************************************************************************)
EXTENDS Integers, Sequences

PerMille == 1000   \* TRANSFORM_SCALE

AtLeast(floor, n) == IF n < floor THEN floor ELSE n
AtMost(ceiling, n) == IF n > ceiling THEN ceiling ELSE n
Clamped(low, high, n) == AtMost(high, AtLeast(low, n))
Minus(a, b) == AtLeast(0, a - b)   \* saturating_sub
Rounded(n, d) == (2 * n + d) \div (2 * d)

Rect(x, y, width, height) == [x |-> x, y |-> y, width |-> width, height |-> height]
Columns(r) == r.x .. r.x + r.width - 1
Rows(r) == r.y .. r.y + r.height - 1
Pixels(r) == Columns(r) \X Rows(r)
IsEmpty(r) == r.width = 0 \/ r.height = 0
Rectangles == [x : Nat, y : Nat, width : Nat, height : Nat]

(***************************************************************************)
(* The cells of a layout.                                                  *)
(***************************************************************************)

\* The grid line `index' of `divisions', the remainder spread over the cells.
Edge(total, divisions, index) == (index * total) \div AtLeast(1, divisions)

GridSize(count, layout) ==
  CASE layout = "Row" -> [columns |-> count, rows |-> 1]
    [] layout = "Column" -> [columns |-> 1, rows |-> count]
    [] layout = "Grid" ->
         LET columns == CHOOSE c \in 1 .. count :
                          /\ c * c >= count
                          /\ \A d \in 1 .. c - 1 : d * d < count
         IN  [columns |-> columns, rows |-> (count + columns - 1) \div columns]

\* The first source covers the output; the others are stacked from the bottom
\* right corner.
PictureInPictureCells(width, height, count) ==
  LET margin    == AtMost(height \div 4, AtMost(width \div 4, AtMost(height, width) \div 50))
      overlays  == count - 1
      room      == Minus(height, 2 * margin)
      overlay   == AtMost(Minus(width, 2 * margin), AtLeast(1, width \div 4))
      Slot(i)   == overlays - i - 1
      Top(i)    == margin + Edge(room, overlays, Slot(i))
      Bottom(i) == margin + Edge(room, overlays, Slot(i) + 1)
      High(i)   == AtMost(Minus(Bottom(i), Top(i)), AtLeast(1, height \div 4))
  IN  [n \in 1 .. count |->
         IF n = 1
         THEN Rect(0, 0, width, height)
         ELSE Rect(Minus(Minus(width, margin), overlay), Minus(Bottom(n - 2), High(n - 2)),
                   overlay, High(n - 2))]

\* The cell of each source, in order.
Cells(width, height, count, layout) ==
  IF layout = "PictureInPicture"
  THEN PictureInPictureCells(width, height, count)
  ELSE LET grid == GridSize(count, layout)
       IN  [n \in 1 .. count |->
              LET column == (n - 1) % grid.columns
                  row    == (n - 1) \div grid.columns
                  x      == Edge(width, grid.columns, column)
                  y      == Edge(height, grid.rows, row)
              IN  Rect(x, y, Edge(width, grid.columns, column + 1) - x,
                             Edge(height, grid.rows, row + 1) - y)]

TotalArea(cells) ==
  LET UpTo[n \in 0 .. Len(cells)] ==
        IF n = 0 THEN 0 ELSE UpTo[n - 1] + cells[n].width * cells[n].height
  IN  UpTo[Len(cells)]

\* Nothing of the output needs the background: one cell is all of it, or
\* their areas add up to it.
CellsCoverOutput(cells, width, height) ==
  \/ \E i \in DOMAIN cells : cells[i] = Rect(0, 0, width, height)
  \/ TotalArea(cells) = width * height

(***************************************************************************)
(* The contract of a frame, and the transform of its source applied to it. *)
(***************************************************************************)

SwapsAxes(contract) == contract.rotation \in {1, 3}

CanonicalContract(width, height) ==
  [colorimetry |-> "FullOpaque", square |-> <<1, 1>>, aperture |-> Rect(0, 0, width, height),
   rotation |-> 0, mirrorH |-> FALSE, mirrorV |-> FALSE]

IsOpaque(contract) == contract.colorimetry # "Translucent"

IsCanonical(frame) == frame.contract = CanonicalContract(frame.width, frame.height)

Identity ==
  [left |-> 0, top |-> 0, right |-> 0, bottom |-> 0, fit |-> "Fit", rotation |-> 0,
   mirrorH |-> FALSE, mirrorV |-> FALSE, opacity |-> PerMille, x |-> 0, y |-> 0]

\* What the inspector, a scene or the preferences hand over is brought into range
\* before it is kept.
Sanitized(t) ==
  LET most == PerMille - 1
      left == AtMost(most, t.left)
      top  == AtMost(most, t.top)
  IN  [t EXCEPT !.left = left, !.right = AtMost(most - left, @),
                !.top = top, !.bottom = AtMost(most - top, @),
                !.opacity = AtMost(PerMille, @),
                !.x = Clamped(-PerMille, PerMille, @), !.y = Clamped(-PerMille, PerMille, @)]

\* What a widget or a file can hold.
Entered ==
  [left : Nat, top : Nat, right : Nat, bottom : Nat, fit : {"Fit", "Fill"}, rotation : 0 .. 3,
   mirrorH : BOOLEAN, mirrorV : BOOLEAN, opacity : Nat, x : Int, y : Int]

\* SourceTransform::validate; the fields are unsigned but for the position.
TransformIsValid(t) ==
  /\ t.left + t.right < PerMille
  /\ t.top + t.bottom < PerMille
  /\ t.opacity <= PerMille
  /\ {t.x, t.y} \subseteq -PerMille .. PerMille

\* CleanAperture::validate
ApertureIsValid(aperture, width, height) ==
  /\ ~IsEmpty(aperture)
  /\ aperture.x + aperture.width <= width
  /\ aperture.y + aperture.height <= height

\* FrameContract::validate
ContractIsValid(contract, frame) ==
  /\ 0 \notin {contract.square[1], contract.square[2]}
  /\ ApertureIsValid(contract.aperture, frame.width, frame.height)

\* What Frame::new_checked_with_contract makes: no frame is empty or has a contract
\* that does not validate.
IsFrame(frame) ==
  /\ frame \in [width : Nat \ {0}, height : Nat \ {0},
                contract : [colorimetry : {"FullOpaque", "LimitedOpaque", "Translucent"},
                            square : Nat \X Nat, aperture : Rectangles, rotation : 0 .. 3,
                            mirrorH : BOOLEAN, mirrorV : BOOLEAN]]
  /\ ContractIsValid(frame.contract, frame)

\* SourceTransform::apply_to_contract: the crop takes off the aperture, the turns
\* add up and two mirrors cancel.
ApplyToContract(t, contract) ==
  LET base == contract.aperture
      left   == (base.width * t.left) \div PerMille
      top    == (base.height * t.top) \div PerMille
      right  == (base.width * t.right) \div PerMille
      bottom == (base.height * t.bottom) \div PerMille
  IN  [contract EXCEPT
         !.aperture = Rect(base.x + left, base.y + top,
                           base.width - left - right, base.height - top - bottom),
         !.rotation = (@ + t.rotation) % 4,
         !.mirrorH = (@ # t.mirrorH), !.mirrorV = (@ # t.mirrorV)]

\* Clean aperture, pixel aspect ratio and rotation.
DisplayDimensions(contract) ==
  LET wide == AtLeast(1, (contract.aperture.width * contract.square[1]
                            + contract.square[2] \div 2) \div contract.square[2])
  IN  IF SwapsAxes(contract) THEN <<contract.aperture.height, wide>>
                             ELSE <<wide, contract.aperture.height>>

(***************************************************************************)
(* Where in its cell a frame is pasted.                                    *)
(***************************************************************************)

PositionedOffset(space, position) ==
  (space * (Clamped(-PerMille, PerMille, position) + PerMille)) \div (2 * PerMille)

\* Aspect fit: the destination size in the cell, within 1 and the cell.
FitSize(wide, high, cell) ==
  LET Scaled(side, limit) ==
        IF cell.width * high <= cell.height * wide
        THEN Clamped(1, limit, Rounded(side * cell.width, wide))
        ELSE Clamped(1, limit, Rounded(side * cell.height, high))
  IN  <<Scaled(wide, cell.width), Scaled(high, cell.height)>>

\* The rectangle written and the rectangle of the displayed frame read for it.
Placement(contract, cell, t) ==
  LET shown == DisplayDimensions(contract)
      size  == FitSize(shown[1], shown[2], cell)
      wider == shown[1] * cell.height > shown[2] * cell.width
      seenW == IF wider THEN Clamped(1, shown[1], (shown[2] * cell.width) \div cell.height)
                        ELSE shown[1]
      seenH == IF wider THEN shown[2]
                        ELSE Clamped(1, shown[2], (shown[1] * cell.height) \div cell.width)
  IN  IF t.fit = "Fit"
      THEN [dest |-> Rect(cell.x + PositionedOffset(cell.width - size[1], t.x),
                          cell.y + PositionedOffset(cell.height - size[2], t.y),
                          size[1], size[2]),
            source |-> Rect(0, 0, shown[1], shown[2])]
      ELSE [dest |-> cell,
            source |-> Rect(PositionedOffset(shown[1] - seenW, t.x),
                            PositionedOffset(shown[2] - seenH, t.y), seenW, seenH)]

\* paste_aspect_fit has a path of its own for a plain frame with no transform:
\* the destination is centred in the cell.
IsPlain(frame, t) == t = Identity /\ IsCanonical(frame)

PlainPlacement(frame, cell) ==
  LET size == FitSize(frame.width, frame.height, cell)
  IN  Rect(cell.x + (cell.width - size[1]) \div 2, cell.y + (cell.height - size[2]) \div 2,
           size[1], size[2])

(***************************************************************************)
(* Which coordinates of a frame a destination coordinate needs.            *)
(***************************************************************************)

\* Mutant: the clamp below the source size is left out and the position is
\* rounded up.
NearestSourceCoordinateUp(dest, sourceSize, destSize) ==
  (dest * sourceSize + destSize - 1) \div AtLeast(1, destSize)

NearestSourceCoordinate(dest, sourceSize, destSize) ==
  AtMost(Minus(sourceSize, 1), (dest * sourceSize) \div AtLeast(1, destSize))

\* The two neighbours a bilinear sample reads.
LinearSample(dest, sourceSize, destSize) ==
  IF sourceSize <= 1
  THEN {0}
  ELSE LET low == Clamped(0, sourceSize - 1,
                          ((2 * dest + 1) * sourceSize - destSize) \div (2 * destSize))
       IN  {low, AtMost(sourceSize - 1, low + 1)}

\* SamplingCache::get, one axis: the coordinates read for each of the destination.
SamplingMap(filter, sourceSize, destSize) ==
  [d \in 0 .. destSize - 1 |->
     IF filter = "Nearest" THEN {NearestSourceCoordinate(d, sourceSize, destSize)}
                           ELSE LinearSample(d, sourceSize, destSize)]

\* shifted_linear_sample, and the same sum for the nearest coordinate: positions
\* in the displayed frame.
ShiftedMap(filter, sourceStart, sourceSize, destSize) ==
  [d \in 0 .. destSize - 1 |->
     {sourceStart + s : s \in SamplingMap(filter, sourceSize, destSize)[d]}]

MirroredCoordinate(coordinate, size, mirror) ==
  IF mirror THEN Minus(Minus(size, 1), coordinate) ELSE coordinate

\* SamplingCache::get_transformed.  Only the nearest coordinate is brought below
\* the displayed size before it is mirrored.
TransformedSamplingMap(filter, sourceStart, sourceSize, destSize, shownSize, mirror) ==
  LET Within(c) == IF filter = "Nearest" THEN AtMost(Minus(shownSize, 1), c) ELSE c
      shifted == ShiftedMap(filter, sourceStart, sourceSize, destSize)
  IN  [d \in DOMAIN shifted |->
         {MirroredCoordinate(Within(s), shownSize, mirror) : s \in shifted[d]}]

\* Undo the rotation inside the aperture: the position in the aperture of a
\* position in the rotated one.
Unrotated(contract, x, y) ==
  LET lastX == contract.aperture.width - 1
      lastY == contract.aperture.height - 1
  IN  CASE contract.rotation = 0 -> <<x, y>>
        [] contract.rotation = 1 -> <<y, Minus(lastY, x)>>
        [] contract.rotation = 2 -> <<Minus(lastX, x), Minus(lastY, y)>>
        [] contract.rotation = 3 -> <<Minus(lastX, y), x>>

\* transformed_source_offset: the pixel of the frame at a mirrored position.
TransformedSourceOffset(contract, x, y) ==
  LET p == Unrotated(contract, x, y)
  IN  <<contract.aperture.x + p[1], contract.aperture.y + p[2]>>

\* FrameContract::source_coordinate, the path of all others.
SourceCoordinate(contract, x, y) ==
  LET aperture == contract.aperture
      shown    == DisplayDimensions(contract)
      rotated  == IF SwapsAxes(contract) THEN <<aperture.height, aperture.width>>
                                         ELSE <<aperture.width, aperture.height>>
      rawX == (x * rotated[1]) \div AtLeast(1, shown[1])
      rawY == (y * rotated[2]) \div AtLeast(1, shown[2])
      p == Unrotated(contract, MirroredCoordinate(rawX, rotated[1], contract.mirrorH),
                               MirroredCoordinate(rawY, rotated[2], contract.mirrorV))
  IN  <<aperture.x + AtMost(aperture.width - 1, p[1]),
        aperture.y + AtMost(aperture.height - 1, p[2])>>

(***************************************************************************)
(* The pastes: for each pixel of the output that is written, the pixels of *)
(* the frame it is made from.                                              *)
(***************************************************************************)

\* paste_unscaled copies rows.
PasteUnscaled(dest) == [p \in Pixels(dest) |-> {<<p[1] - dest.x, p[2] - dest.y>>}]

\* paste_nearest and paste_bilinear: one pixel, or the four around the position.
PasteScaled(dest, xs, ys) ==
  [p \in Pixels(dest) |-> xs[p[1] - dest.x] \X ys[p[2] - dest.y]]

\* paste_opaque_contract, through its own sampling maps.
PasteOpaqueContract(contract, place, filter) ==
  LET dest   == place.dest
      source == place.source
      shown  == DisplayDimensions(contract)
      xs == TransformedSamplingMap(filter, source.x, source.width, dest.width, shown[1],
                                   contract.mirrorH)
      ys == TransformedSamplingMap(filter, source.y, source.height, dest.height, shown[2],
                                   contract.mirrorV)
  IN  [p \in Pixels(dest) |->
         {TransformedSourceOffset(contract, sx, sy) :
            sx \in xs[p[1] - dest.x], sy \in ys[p[2] - dest.y]}]

\* paste_contract_transformed_generic, for the other contracts.
PasteGeneric(contract, place, filter) ==
  LET dest   == place.dest
      source == place.source
      xs == ShiftedMap(filter, source.x, source.width, dest.width)
      ys == ShiftedMap(filter, source.y, source.height, dest.height)
  IN  [p \in Pixels(dest) |->
         {SourceCoordinate(contract, sx, sy) :
            sx \in xs[p[1] - dest.x], sy \in ys[p[2] - dest.y]}]

\* paste_contract_transformed
IsFast(contract) == contract.colorimetry = "FullOpaque" /\ contract.square = <<1, 1>>

PasteContractTransformed(contract, cell, t, filter) ==
  LET place == Placement(contract, cell, t)
  IN  IF IsFast(contract) THEN PasteOpaqueContract(contract, place, filter)
                          ELSE PasteGeneric(contract, place, filter)

\* The end of paste_aspect_fit: a frame of its own size is copied, others are scaled.
PastePlain(frame, cell, filter) ==
  LET dest == PlainPlacement(frame, cell)
  IN  IF dest.width = frame.width /\ dest.height = frame.height
      THEN PasteUnscaled(dest)
      ELSE PasteScaled(dest, SamplingMap(filter, frame.width, dest.width),
                             SamplingMap(filter, frame.height, dest.height))

\* paste_aspect_fit; there is nothing to draw in an empty cell.
Paste(frame, cell, t, filter) ==
  CASE IsEmpty(cell) -> << >>
    [] ~IsEmpty(cell) /\ IsPlain(frame, t) -> PastePlain(frame, cell, filter)
    [] OTHER ->
         PasteContractTransformed(ApplyToContract(t, frame.contract), cell, t, filter)

\* The share of what was there that a blend keeps, out of PerMille:
\* blend_weighted_channel on the fast path ...
WeightedBackground(opacity) == PerMille - AtMost(PerMille, opacity)

\* ... and blend_over_opaque of a premultiplied sample on the generic one, where
\* the pixels of a translucent frame may be clear.
PremultipliedBackground(contract, opacity) ==
  IF IsOpaque(contract) THEN PerMille - AtMost(PerMille, opacity) ELSE PerMille

\* The pixels of the output whose old value a paste leaves no trace of.
Overwritten(frame, cell, t, filter) ==
  LET contract == ApplyToContract(t, frame.contract)
      kept == CASE IsPlain(frame, t) -> 0
                [] ~IsPlain(frame, t) /\ IsFast(contract) -> WeightedBackground(t.opacity)
                [] OTHER -> PremultipliedBackground(contract, t.opacity)
  IN  IF kept = 0 THEN DOMAIN Paste(frame, cell, t, filter) ELSE {}

\* The pixels of the frame that its paste into the cell reads.
ReadPixels(frame, cell, t, filter) ==
  LET paste == Paste(frame, cell, t, filter) IN UNION {paste[p] : p \in DOMAIN paste}

(***************************************************************************)
(* The composition.                                                        *)
(***************************************************************************)

\* The cell is not filled before a paste that replaces every pixel of it.
FrameFullyOverwritesCell(frame, cell, t) ==
  \/ IsEmpty(cell)
  \/ /\ IsOpaque(frame.contract)
     /\ t.opacity = PerMille
     /\ Placement(ApplyToContract(t, frame.contract), cell, t).dest = cell

\* A frame or a transform that does not validate fails the whole composition.
Accepts(frame, t) ==
  /\ TransformIsValid(t)
  /\ ContractIsValid(frame.contract, frame)
  /\ ContractIsValid(ApplyToContract(t, frame.contract), frame)

\* fill_cell
FillCell(cell) == IF IsEmpty(cell) THEN {} ELSE Pixels(cell)

\* compose_with: the pixels of the output whose value does not come from the
\* recycled frame; frames[i] is a frame or NoFrame.
Composed(width, height, frames, transforms, style, NoFrame) ==
  LET cells == Cells(width, height, Len(frames), style.layout)
      Covers(i) == frames[i] # NoFrame
                     /\ FrameFullyOverwritesCell(frames[i], cells[i], transforms[i])
      Drawn(i) == IF Covers(i)
                  THEN Overwritten(frames[i], cells[i], transforms[i], style.filter)
                  ELSE FillCell(cells[i])
      Background == IF CellsCoverOutput(cells, width, height)
                    THEN {} ELSE FillCell(Rect(0, 0, width, height))
  IN  Background \cup UNION {Drawn(i) : i \in DOMAIN cells}

(***************************************************************************)
(* The preview of a composed frame (PreviewBufferPool, render_worker.rs).  *)
(***************************************************************************)

\* preview_dimensions: the frame shrunk into the limits, never enlarged.
PreviewDimensions(width, height, limits) ==
  LET w == AtLeast(1, limits[1])
      h == AtLeast(1, limits[2])
  IN  IF width <= w /\ height <= h THEN <<width, height>>
      ELSE IF w * height <= h * width THEN <<w, AtLeast(1, (height * w) \div width)>>
      ELSE <<AtLeast(1, (width * h) \div height), h>>

\* PreviewCoordinateMap: the source coordinate of each column, as of each row.
PreviewOffsets(source, destination) ==
  [i \in 0 .. destination - 1 |-> (i * source) \div destination]

\* fill_preview_pixels: the pixel of the frame each pixel of the preview shows.
PreviewPixels(width, height, size) ==
  LET x == PreviewOffsets(width, size[1])
      y == PreviewOffsets(height, size[2])
  IN  [p \in Pixels(Rect(0, 0, size[1], size[2])) |-> <<x[p[1]], y[p[2]]>>]
=============================================================================
