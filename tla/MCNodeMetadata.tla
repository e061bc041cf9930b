---------------------------- MODULE MCNodeMetadata ----------------------------
(* The node exporter on three instances of which the initial state picks one:  *)
(* a scrape of the node (NodeExporter, as in MCNodeExporter), the metadata of   *)
(* an image (ImageMetadata), and an os-release file (OSRelease).               *)
EXTENDS MCNodeExporter, ImageMetadata, OSRelease

VARIABLE part

-------------------------------------------------------------------------------
(* Images: two keys, creation dates that tell the shapes apart, short values    *)
(* to merge, and for one key all values of up to five runes to cut.            *)

LabelKeys == {"version", "vendor"}
MCAllowLists == {{}, {"version"}}

\* The value whose runes have these widths in bytes.
Text(widths) ==
  LET Offset(i) == FoldLeft(+, 0, SubSeq(widths, 1, i - 1))
  IN [bytes |-> Offset(Len(widths) + 1), starts |-> {Offset(i) : i \in DOMAIN widths}]

ShapesAt(time, values) ==
  {[created |-> t, labels |-> l] :
     t \in {NoTime, time}, l \in UNION {[ks -> values] : ks \in SUBSET LabelKeys}}
       \cup {Malformed}

Texts == {Text(widths) : widths \in BoundedSeq({1, 2, 3, 4}, 5)}

MCAnswers ==
  {NoImage}
    \cup [imageSpec : ShapesAt(1, {Text(<<1>>)}), top : ShapesAt(2, {Text(<<1, 1>>)})]
    \cup {[imageSpec |-> [Nothing EXCEPT !.labels = "version" :> value], top |-> Nothing] :
            value \in Texts}

-------------------------------------------------------------------------------
(* Files: two keys, and values with every character at either end.             *)

MCKeys == {<<"I">>, <<"N">>}
ValueCharacters == {"v", " ", "=", "#", "q", "Q"}
MCCharacters == ValueCharacters \cup {"I", "N"}
MCValues == BoundedSeq(ValueCharacters, 2) \cup {<<"v", ch, "v">> : ch \in ValueCharacters}

-------------------------------------------------------------------------------

MCInit ==
  /\ Init /\ ImageInit /\ OSInit
  /\ part \in {"scrape", "image", "file"}
  /\ part # "scrape" => onlyImagesInUse
  /\ part # "image" => labelAllowlist = {}

MCNext ==
  /\ UNCHANGED part
  /\ \/ part = "scrape" /\ Next /\ UNCHANGED <<imageVars, osVars>>
     \/ part = "image" /\ ImageNext /\ UNCHANGED <<vars, osVars>>
     \/ part = "file" /\ OSNext /\ UNCHANGED <<vars, imageVars>>

MCSpec == MCInit /\ [][MCNext]_<<vars, imageVars, osVars, part>>

===============================================================================
