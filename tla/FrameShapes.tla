---------------------------- MODULE FrameShapes ----------------------------
(***************************************************************************)
(* How large a frame may be, and where its bytes lie: the checks of Frame  *)
(* and FrameView (frame.rs), of a FrameContract (media_contract.rs), of a  *)
(* slot and a mapping (shared_memory_transport/protocol.rs, validation.rs),*)
(* of the spool file (frame_transport.rs) and the copy of a view into a    *)
(* CoreVideo buffer (extension/pixel_buffer.rs).                           *)
(*                                                                         *)
(* A length is a number of bytes, and a checked operation of the code      *)
(* fails beyond WordMax, which stands for u64::MAX.  Contracts are those   *)
(* of Compositor; a wire code is the colorimetry it decodes to.            *)
(***************************************************************************)
EXTENDS Compositor

CONSTANTS
  WordMax,      \* u64::MAX, scaled to the sizes looked at
  HeaderBytes,  \* aligned_header_len
  PageBytes,    \* page_size
  SlotCount,
  SpoolHeader   \* HEADER_LEN of the spool file

ASSUME WordAssumption == WordMax \in Nat /\ HeaderBytes \in Nat /\ SpoolHeader \in Nat
ASSUME PageAssumption == PageBytes \in Nat \ {0} /\ SlotCount \in Nat \ {0}

BytesPerPixel == 4
Fits(bytes) == bytes <= WordMax

ByteLen(width, height) == width * height * BytesPerPixel

(* FrameLimits::new *)
LimitOf(bytes) == AtLeast(1, bytes)

(***************************************************************************)
(* Frames and views.                                                       *)
(***************************************************************************)

(* Frame::new_checked_with_limits *)
FrameIsValid(width, height, length, limit) ==
  /\ width # 0 /\ height # 0
  /\ Fits(ByteLen(width, height)) /\ ByteLen(width, height) <= LimitOf(limit)
  /\ length = ByteLen(width, height)

RequiredBytes(width, height, stride) == (height - 1) * stride + width * BytesPerPixel

(* FrameView::new_checked: rows may be padded, the last one need not be. *)
ViewIsValid(width, height, stride, length) ==
  /\ width # 0 /\ height # 0
  /\ stride >= width * BytesPerPixel
  /\ Fits(RequiredBytes(width, height, stride))
  /\ RequiredBytes(width, height, stride) <= length

(* The bytes of a row, of those the view was made over. *)
RowBytes(view, y) == y * view.stride .. y * view.stride + view.width * BytesPerPixel - 1

(***************************************************************************)
(* The shared region: slots of one capacity behind the header, in pages.   *)
(***************************************************************************)

(* checked_mapped_len; 0 where the arithmetic overflows. *)
MappedLen(capacity) ==
  LET raw == capacity * SlotCount + HeaderBytes + PageBytes - 1
  IN  IF Fits(raw) THEN (raw \div PageBytes) * PageBytes ELSE 0

(* checked_slot_offset *)
SlotOffset(slot, capacity) == HeaderBytes + slot * capacity

SlotBytes(slot, capacity) ==
  SlotOffset(slot, capacity) .. SlotOffset(slot, capacity) + capacity - 1

(* SharedHeader::new: active is the set of the active slot, empty for INVALID_SLOT. *)
NewHeader(capacity) ==
  [version |-> "ours", slots |-> SlotCount, active |-> {}, capacity |-> capacity,
   length |-> MappedLen(capacity)]

(* validate_shared_header_metadata, of an object whose length is part of it. *)
HeaderIsValid(header) ==
  /\ header.version = "ours" /\ header.slots = SlotCount
  /\ header.active \subseteq 0 .. SlotCount - 1
  /\ header.length = MappedLen(header.capacity) /\ header.length # 0

(* What the writer keeps of a frame in its slot. *)
SlotMetadata(frame) ==
  [width |-> frame.width, height |-> frame.height,
   colorimetry |-> frame.contract.colorimetry, length |-> ByteLen(frame.width, frame.height)]

(* SharedFrameSink::send refuses the others.  A frame is tightly packed.  *)
SharedSinkAccepts(frame, capacity) ==
  /\ IsCanonical(frame)
  /\ ByteLen(frame.width, frame.height) <= capacity

(* validate_shared_slot_metadata, of a slot under lease. *)
SlotIsValid(slot, capacity) ==
  /\ Fits(ByteLen(slot.width, slot.height))
  /\ slot.width # 0 /\ slot.height # 0 /\ slot.colorimetry = "FullOpaque"
  /\ slot.length = ByteLen(slot.width, slot.height)
  /\ slot.length <= capacity

ViewOf(width, height, colorimetry) ==
  [width |-> width, height |-> height, stride |-> width * BytesPerPixel,
   contract |-> [CanonicalContract(width, height) EXCEPT !.colorimetry = colorimetry]]

(* read_latest_borrowed: the view of the slot, as a set of none or one. *)
SharedViews(slot, capacity) ==
  {v \in {ViewOf(slot.width, slot.height, slot.colorimetry)} :
     /\ SlotIsValid(slot, capacity)
     /\ ContractIsValid(v.contract, v)
     /\ ViewIsValid(v.width, v.height, v.stride, slot.length)}

(***************************************************************************)
(* The spool file.                                                         *)
(***************************************************************************)

(* write_frame: the header, and the pixels behind it. *)
SpoolFile(frame) ==
  [version |-> "ours", width |-> frame.width, height |-> frame.height,
   colorimetry |-> frame.contract.colorimetry,
   length |-> ByteLen(frame.width, frame.height),
   bytes |-> SpoolHeader + ByteLen(frame.width, frame.height)]

SpoolAccepts(frame) == IsCanonical(frame)

(* read_latest_frame and parse_frame: none of a file that is too long, cut  *)
(* short, or of another version; an error and no frame are not told apart.  *)
SpoolViews(file, limit) ==
  {v \in {ViewOf(file.width, file.height, file.colorimetry)} :
     /\ file.bytes <= LimitOf(limit) + SpoolHeader
     /\ file.bytes >= SpoolHeader
     /\ file.colorimetry = "FullOpaque" /\ file.version = "ours"
     /\ file.bytes = SpoolHeader + file.length
     /\ ContractIsValid(v.contract, v)
     /\ FrameIsValid(v.width, v.height, file.length, limit)}

(***************************************************************************)
(* The upload of a view into an output buffer.                             *)
(***************************************************************************)

OutputPixels(width, height) == (0 .. width - 1) \X (0 .. height - 1)

(* Mutant: the rows are copied as they are whenever the width fits. *)
DrawnFromRows(view, width, height) ==
  [p \in OutputPixels(width, IF view.width = width THEN view.height ELSE height) |->
     IF view.width = width THEN p
     ELSE <<NearestSourceCoordinate(p[1], view.width, width),
            NearestSourceCoordinate(p[2], view.height, height)>>]

(* fill_from_frame_view: the pixel of the view each output pixel is a copy  *)
(* of; an empty view draws nothing.                                         *)
DrawnFrom(view, width, height) ==
  [p \in IF view.width = 0 \/ view.height = 0 THEN {} ELSE OutputPixels(width, height) |->
     IF view.width = width /\ view.height = height THEN p
     ELSE <<NearestSourceCoordinate(p[1], view.width, width),
            NearestSourceCoordinate(p[2], view.height, height)>>]

(* The bytes of a pixel, in a buffer or a view of the given stride. *)
PixelBytes(p, stride) ==
  p[2] * stride + p[1] * BytesPerPixel ..
    p[2] * stride + p[1] * BytesPerPixel + BytesPerPixel - 1

(* create_pixel_buffer shows a view as it is only if it is canonical. *)
IsShown(view) == view.contract = CanonicalContract(view.width, view.height)
=============================================================================
