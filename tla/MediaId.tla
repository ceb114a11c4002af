------------------------------ MODULE MediaId ------------------------------
(***************************************************************************)
(* Media ids (internal/bridge/media.go): the choice of a thumbnail, the    *)
(* layout of a media reference, and its signature.                         *)
(*                                                                         *)
(* A payload is a sequence of cells.  Kind, id and access hash have fixed  *)
(* widths that hold every value, so each is one cell; the two lengths are  *)
(* cut to their widths, and file reference and thumbnail type have one     *)
(* cell per byte.  base64 and the HMAC are taken to be injective.          *)
(***************************************************************************)
EXTENDS Integers, Sequences, SequencesExt

CONSTANTS REF_MOD,   \* 2^16, what the length of a file reference is cut to
          SIZE_MOD   \* 2^8, what that of a thumbnail type is cut to

ASSUME MediaIdAssumption == REF_MOD \in Nat \ {0} /\ SIZE_MOD \in Nat \ {0}

Bad == [kind |-> "bad"]
mediaKindPhoto == 1

-----------------------------------------------------------------------------
(* pickSmallestPhotoSize.  A size is [class, type, px, sizes]: a PhotoSize has one *)
(* number in sizes, a progressive one any, and stripped ones are not fetched.      *)

Downloadable(s) == s.class \in {"PhotoSize", "PhotoSizeProgressive"}

NoThumb == [px |-> -1, type |-> <<>>, bytes |-> 0, ok |-> FALSE]

\* A loop that prefers the largest.
BetterLarger(best, s) == Downloadable(s) /\ s.px > best.px

Better(best, s) == Downloadable(s) /\ (best.px < 0 \/ s.px < best.px)

\* One iteration; a progressive size without sizes leaves bytes as it is.
PickStep(best, s) ==
    IF Better(best, s)
    THEN [px |-> s.px, type |-> s.type, ok |-> TRUE,
          bytes |-> IF s.sizes = <<>> THEN best.bytes ELSE s.sizes[1]]
    ELSE best

pickSmallestPhotoSize(sizes) == FoldLeft(PickStep, NoThumb, sizes)

-----------------------------------------------------------------------------
(* Layout and signature *)

marshalMediaRef(r) ==
    <<r.kind, r.id, r.hash, Len(r.ref) % REF_MOD>> \o r.ref
    \o <<Len(r.thumb) % SIZE_MOD>> \o r.thumb

unmarshalMediaRef(b) ==
    IF Len(b) < 4 \/ Len(b) < 5 + b[4] THEN Bad
    ELSE LET at == 5 + b[4]   \* where the length of the type is
         IN  IF Len(b) < at + b[at] THEN Bad
             ELSE [kind |-> b[1], id |-> b[2], hash |-> b[3],
                   ref |-> SubSeq(b, 5, at - 1), thumb |-> SubSeq(b, at + 1, at + b[at])]

Mac(key, payload) == <<key, payload>>

encodeMediaID(key, r) ==
    LET payload == marshalMediaRef(r)
    IN  [payload |-> payload, tag |-> Mac(key, payload)]

decodeMediaID(key, m) ==
    IF m.payload = <<>> \/ m.tag # Mac(key, m.payload) THEN Bad
    ELSE unmarshalMediaRef(m.payload)

\* The reference that summarizeMedia signs for a photo.
mediaRef(photo) ==
    [kind |-> mediaKindPhoto, id |-> photo.id, hash |-> photo.hash, ref |-> photo.ref,
     thumb |-> pickSmallestPhotoSize(photo.sizes).type]

\* Its lengths fit their fields.
Fits(r) == Len(r.ref) < REF_MOD /\ Len(r.thumb) < SIZE_MOD

=============================================================================
