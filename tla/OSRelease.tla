------------------------------ MODULE OSRelease ------------------------------
(***************************************************************************)
(* The line parser of /etc/os-release (osrelease.go, ParseOSRelease), run   *)
(* over a file whose lines are rendered from what their writer meant.       *)
(***************************************************************************)
EXTENDS SequencesExt, Naturals

CONSTANTS
  Characters,
  Keys, Values,  \* as sequences of characters
  Blank,         \* a character that is trimmed
  Equals, Hash,  \* the characters "=" and "#"
  Quotes,        \* the two quotation marks
  Unquoted       \* the absence of quotation marks

ASSUME OSReleaseAssumption ==
  /\ {Blank, Equals, Hash} \cup Quotes \subseteq Characters
  /\ Keys \cup Values \subseteq Seq(Characters)
  /\ Unquoted \notin Quotes /\ Blank \notin {Equals, Hash} \cup Quotes
  /\ \A key \in Keys : Equals \notin Range(key) /\ Blank \notin Range(key)
                        /\ key # << >> /\ Head(key) # Hash

VARIABLES
  osFile,   \* the parser's state
  written   \* what the writer of the lines so far meant

osVars == <<osFile, written>>

NoLabels == [k \in {} |-> << >>]

OSInit == osFile = [pc |-> "scan", result |-> NoLabels] /\ written = NoLabels

Assigned(labels, key, value) ==
  [k \in DOMAIN labels \cup {key} |-> IF k = key THEN value ELSE labels[k]]

-------------------------------------------------------------------------------
(* The lines that can be written.                                           *)

\* A value needs quotation marks that it does not have at its ends if it has
\* blanks there or is quoted itself.
NeedsQuotes(value) ==
  value # << >> /\ \/ Head(value) = Blank \/ Last(value) = Blank
                   \/ Len(value) > 1 /\ Head(value) \in Quotes /\ Last(value) = Head(value)

\* An assignment, with or without blanks around it.
Rendered(key, value, quote, padded) ==
  LET pad == IF padded THEN <<Blank>> ELSE << >>
      mark == IF quote = Unquoted THEN << >> ELSE <<quote>>
  IN pad \o (key \o <<Equals>> \o (mark \o value \o mark)) \o pad

\* Blank lines, comments and lines without "=".
Noise(key, value) ==
  {<< >>, <<Blank>>, key, <<Hash>> \o Rendered(key, value, Unquoted, FALSE),
   <<Blank, Hash>> \o Rendered(key, value, Unquoted, FALSE)}

-------------------------------------------------------------------------------
(* ParseOSRelease.                                                          *)

TrimSpace(text) ==
  LET ink == {i \in DOMAIN text : text[i] # Blank}
  IN IF ink = {} THEN << >> ELSE SubSeq(text, Min(ink), Max(ink))

\* A pair of quotation marks around the value is dropped.
Unquote(val) ==
  IF Len(val) >= 2 /\ Head(val) \in Quotes /\ Head(val) = Last(val)
  THEN SubSeq(val, 2, Len(val) - 1) ELSE val

\* strings.Cut at the last "=".
CutAtLast(line, labels) ==
  LET i == SelectLastInSeq(line, LAMBDA ch : ch = Equals)
  IN IF i = 0 THEN labels
     ELSE Assigned(labels, SubSeq(line, 1, i - 1), Unquote(SubSeq(line, i + 1, Len(line))))

\* strings.Cut at the first "=": the key and value are added to the labels.
CutAtEquals(line, labels) ==
  LET i == SelectInSeq(line, LAMBDA ch : ch = Equals)
  IN IF i = 0 THEN labels
     ELSE Assigned(labels, SubSeq(line, 1, i - 1), Unquote(SubSeq(line, i + 1, Len(line))))

\* The labels after one more line.
Scanned(text) ==
  LET line == TrimSpace(text)
  IN IF line = << >> \/ Head(line) = Hash THEN osFile.result
     ELSE CutAtEquals(line, osFile.result)

ScanAssignment(key, value, quote, padded) ==
  /\ osFile.pc = "scan"
  /\ quote = Unquoted => ~NeedsQuotes(value)
  /\ osFile' = [osFile EXCEPT !.result = Scanned(Rendered(key, value, quote, padded))]
  /\ written' = Assigned(written, key, value)

ScanNoise(text) ==
  /\ osFile.pc = "scan"
  /\ osFile' = [osFile EXCEPT !.result = Scanned(text)]
  /\ UNCHANGED written

\* The end of the file.
ScanEnds ==
  /\ osFile.pc = "scan"
  /\ osFile' = [osFile EXCEPT !.pc = "done"]
  /\ UNCHANGED written

\* The file cannot be read on, or a line is longer than the scanner's buffer:
\* what was parsed so far is dropped.
ScanFails ==
  /\ osFile.pc = "scan"
  /\ osFile' = [pc |-> "failed", result |-> NoLabels]
  /\ UNCHANGED written

\* The next container's file.
NextFile ==
  /\ osFile.pc # "scan"
  /\ osFile' = [pc |-> "scan", result |-> NoLabels] /\ written' = NoLabels

-------------------------------------------------------------------------------

OSNext ==
  \/ \E key \in Keys, value \in Values :
       \/ \E quote \in Quotes \cup {Unquoted}, padded \in BOOLEAN :
            ScanAssignment(key, value, quote, padded)
       \/ \E text \in Noise(key, value) : ScanNoise(text)
  \/ ScanEnds \/ ScanFails \/ NextFile

OSSpec == OSInit /\ [][OSNext]_osVars

\* Each key has the value its last assignment gives it, with whatever marks,
\* blanks, "=" or "#" it has inside, and nothing else is a label: a comment or a
\* broken line disturbs no other (osrelease.go: "Values may be optionally quoted
\* with single or double quotes (systemd spec).  Comment lines and blank lines
\* are ignored").
WrittenIsParsed == osFile.result = IF osFile.pc = "failed" THEN NoLabels ELSE written

===============================================================================
