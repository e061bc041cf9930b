---------------------------- MODULE ImageMetadata ----------------------------
(***************************************************************************)
(* One image on its way through the node exporter: what ImageStatus and     *)
(* parseImageInfo (cri.go) take from the runtime's answer, and the series   *)
(* that emitImageMetrics (exporter.go) makes of it.                         *)
(*                                                                         *)
(* NodeExporter has the images of a scrape; here there is one.  A label     *)
(* value is the number of its bytes and the bytes at which its runes start, *)
(* and what is emitted of it is how many bytes are kept and whether the     *)
(* marker follows.                                                         *)
(***************************************************************************)
EXTENDS FiniteSetsExt, Integers

CONSTANTS
  Answers,        \* what the runtime can answer to ImageStatus, see below
  NoImage,        \* the answer without image, or with one that has no id
  NoTime,         \* no creation date
  Malformed,      \* JSON that a shape cannot be decoded from
  MaxLabelBytes,  \* maxLabelValueBytes
  MarkerBytes,    \* the bytes of the marker
  AllowLists      \* the allowlists the exporter can be started with

\* The two shapes in which the info JSON of an answer can have the metadata: each
\* is decoded on its own, into a creation date and labels that may be missing.
\* No JSON at all is an answer with nothing in either.
Nothing == [created |-> NoTime, labels |-> << >>]

IsText(value) ==
  /\ value.bytes \in Nat /\ value.starts \subseteq 0..(value.bytes - 1)
  /\ value.bytes > 0 => 0 \in value.starts

IsShape(shape) ==
  shape # Malformed => \A key \in DOMAIN shape.labels : IsText(shape.labels[key])

ASSUME MetadataAssumption ==
  /\ NoImage \in Answers
  /\ \A answer \in Answers \ {NoImage} : IsShape(answer.imageSpec) /\ IsShape(answer.top)
  /\ MaxLabelBytes \in Nat /\ MarkerBytes \in 1..MaxLabelBytes

VARIABLES
  labelAllowlist,  \* --label-allowlist, as the exporter was started
  image            \* the image, and what was emitted for it

imageVars == <<labelAllowlist, image>>

NoStatus ==
  [pc |-> "idle", answer |-> NoImage, meta |-> Nothing, created |-> {}, series |-> {}]

ImageInit == labelAllowlist \in AllowLists /\ image = NoStatus

-------------------------------------------------------------------------------
(* parseImageInfo.                                                          *)

\* A shape that cannot be decoded counts as empty.
Decoded(shape) == IF shape = Malformed THEN Nothing ELSE shape

\* The second shape is looked at only if the first has neither field.
ParseEitherShape(answer) ==
  LET ctd == Decoded(answer.imageSpec)
  IN IF ctd.created = NoTime /\ DOMAIN ctd.labels = {} THEN Decoded(answer.top) ELSE ctd

\* containerd's shape first; the other fills in what is missing, field by field.
ParseImageInfo(answer) ==
  LET ctd == Decoded(answer.imageSpec)
      top == Decoded(answer.top)
  IN [created |-> IF ctd.created # NoTime THEN ctd.created ELSE top.created,
      labels |-> IF DOMAIN ctd.labels # {} THEN ctd.labels ELSE top.labels]

-------------------------------------------------------------------------------
(* truncateLabelValue and allowed.                                          *)

\* A cut at the byte that leaves room for the marker.
TruncateAtByte(value) ==
  IF value.bytes <= MaxLabelBytes THEN [kept |-> value.bytes, marked |-> FALSE]
  ELSE [kept |-> MaxLabelBytes - MarkerBytes, marked |-> TRUE]

\* A cut that is walked back from there to the start of a rune.
TruncateLabelValue(value) ==
  IF value.bytes <= MaxLabelBytes THEN [kept |-> value.bytes, marked |-> FALSE]
  ELSE [kept |-> Max({0} \cup (value.starts \cap 0..(MaxLabelBytes - MarkerBytes))),
        marked |-> TRUE]

Allowed(key) == labelAllowlist = {} \/ key \in labelAllowlist

-------------------------------------------------------------------------------

\* ImageStatus: an image is known, or an Image without id is returned.
ImageStatus(answer) ==
  /\ image.pc = "idle"
  /\ image' = [NoStatus EXCEPT !.pc = "enriched", !.answer = answer,
                 !.meta = IF answer = NoImage THEN Nothing ELSE ParseImageInfo(answer)]
  /\ UNCHANGED labelAllowlist

\* emitImageMetrics.  An image without id has no series.
EmitImageMetrics ==
  /\ image.pc = "enriched"
  /\ LET labels == image.meta.labels
     IN image' = [image EXCEPT !.pc = "emitted",
          !.created = IF image.answer = NoImage THEN {} ELSE {image.meta.created} \ {NoTime},
          !.series = {[key |-> k, value |-> TruncateLabelValue(labels[k])] :
                        k \in {key \in DOMAIN labels : Allowed(key)}}]
  /\ UNCHANGED labelAllowlist

\* The next image.
NextImage ==
  /\ image.pc = "emitted"
  /\ image' = NoStatus
  /\ UNCHANGED labelAllowlist

ImageNext == (\E answer \in Answers : ImageStatus(answer)) \/ EmitImageMetrics \/ NextImage

ImageSpec == ImageInit /\ [][ImageNext]_imageVars

-------------------------------------------------------------------------------
(* Properties.                                                              *)

\* The labels that are to be emitted: those of the first shape that has any.
Source ==
  IF image.answer # NoImage /\ image.answer.imageSpec # Malformed
       /\ DOMAIN image.answer.imageSpec.labels # {}
  THEN image.answer.imageSpec.labels ELSE image.answer.top.labels

\* A label value is emitted as it is if it fits, and else as the longest run of
\* whole runes that fits with the marker: a value that is not valid UTF-8 is
\* refused by the Prometheus client, and with it the scrape (exporter.go: "so the
\* result always fits within maxLabelValueBytes"; "never contains a partial
\* multi-byte sequence").
LabelValuesWhole ==
  \A label \in image.series :
    LET value == Source[label.key]
        ends == value.starts \cup {value.bytes}
        out == label.value
    IN /\ out.kept \in ends
       /\ IF out.marked
          THEN /\ value.bytes > MaxLabelBytes
               /\ out.kept + MarkerBytes <= MaxLabelBytes
               /\ \A e \in ends : e > out.kept => e + MarkerBytes > MaxLabelBytes
          ELSE out.kept = value.bytes /\ out.kept <= MaxLabelBytes

\* Whatever a shape that can be decoded has is reported, also if the other shape
\* has the rest, cannot be decoded or has neither; labels are not mixed, and an
\* image that the runtime did not confirm has no series (cri.go: "Only fill in
\* fields that the containerd shape didn't already supply"; "an unfamiliar JSON
\* shape degrades gracefully").
MetadataMerged ==
  image.pc = "emitted" =>
    IF image.answer = NoImage THEN image.created = {} /\ image.series = {}
    ELSE LET shapes == {image.answer.imageSpec, image.answer.top} \ {Malformed}
         IN /\ image.created = {} <=> \A s \in shapes : s.created = NoTime
            /\ image.created \subseteq {s.created : s \in shapes}
            /\ {label.key : label \in image.series} =
                 IF \A s \in shapes : DOMAIN s.labels = {} THEN {}
                 ELSE {k \in DOMAIN Source : Allowed(k)}

===============================================================================
