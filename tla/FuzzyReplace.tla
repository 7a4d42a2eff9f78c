---------------------------- MODULE FuzzyReplace ----------------------------
(***************************************************************************)
(* One edit of edit_file: finding old_text in a file's content and putting *)
(* new_text there (internal/tools/fuzzy.go, and what edit_file.go checks   *)
(* before it).                                                             *)
(*                                                                         *)
(* Four levels are tried in turn: the exact text; the text with CRLF read  *)
(* as LF; the text without its outer white space; line by line, without    *)
(* the white space around lines, the new text then taking the indentation  *)
(* of the lines it replaces.  The first level that finds something decides.*)
(*                                                                         *)
(* A text is a sequence of characters.  A tab is a blank like a space.     *)
(***************************************************************************)
EXTENDS Integers, Sequences, FiniteSets, FiniteSetsExt

CONSTANTS
  Letters,     \* characters that are not white space
  Contents,    \* contents a file may have
  OldTexts,    \* what an edit may ask for
  NewTexts     \* what it may put there

Blank == " "
CR == "cr"
LF == "lf"
Space == {Blank, CR, LF}
Text == Seq(Letters \cup Space)

ASSUME FuzzyAssumption ==
  /\ Letters \cap Space = {}
  /\ Contents \subseteq Text /\ OldTexts \subseteq Text /\ NewTexts \subseteq Text

VARIABLES
  content, old, new,  \* the file and the edit
  replaceAll,         \* whether every occurrence is meant
  result              \* what FuzzyReplace returned

editVars == <<content, old, new, replaceAll>>

Missing == [how |-> "missing", level |-> 0, text |-> <<>>]
Ambiguous == [how |-> "ambiguous", level |-> 0, text |-> <<>>]
Replaced(text) == [how |-> "replaced", level |-> 0, text |-> text]
Untried == [how |-> "untried", level |-> 0, text |-> <<>>]

-----------------------------------------------------------------------------
(* Texts and lines.                                                        *)

\* One part behind the other.
Concat(parts) ==
  LET upto[n \in 0..Len(parts)] == IF n = 0 THEN <<>> ELSE upto[n - 1] \o parts[n]
  IN upto[Len(parts)]

NormalizeLineEndings(t) ==
  Concat([i \in DOMAIN t |->
    IF t[i] = CR /\ i < Len(t) /\ t[i + 1] = LF THEN <<>> ELSE <<t[i]>>])

\* Split at each LF: there a new line begins, any other character goes on with the last one.
Lines(t) ==
  LET upto[n \in 0..Len(t)] ==
        IF n = 0 THEN << <<>> >>
        ELSE LET before == upto[n - 1]
             IN IF t[n] = LF THEN Append(before, <<>>)
                ELSE [before EXCEPT ![Len(before)] = Append(@, t[n])]
  IN upto[Len(t)]

Join(lines) == Tail(Concat([k \in DOMAIN lines |-> <<LF>> \o lines[k]]))

TrimSpace(t) ==
  LET ink == {i \in DOMAIN t : t[i] \notin Space}
  IN IF ink = {} THEN <<>> ELSE SubSeq(t, Min(ink), Max(ink))

\* How many blanks a line begins with.
Indent(line) == Min({i \in DOMAIN line : line[i] # Blank} \cup {Len(line) + 1}) - 1

BasePrefix(line) == SubSeq(line, 1, Indent(line))

\* Mutant: empty lines count as lines without indentation.
CommonIndent_EmptyCounts(lines) == Min({Indent(lines[k]) : k \in DOMAIN lines})

\* commonLeadingWhitespace: one kind of blank, so prefixes differ by length only.
CommonIndent(lines) ==
  Min({Indent(lines[k]) : k \in {j \in DOMAIN lines : lines[j] # <<>>}} \cup {Len(Join(lines))})

Reindent(text, prefix) ==
  LET lines == Lines(text)
  IN [k \in DOMAIN lines |->
        IF lines[k] = <<>> THEN <<>>
        ELSE prefix \o SubSeq(lines[k], CommonIndent(lines) + 1, Len(lines[k]))]

-----------------------------------------------------------------------------
(* Matching and replacing.  Both strings.Count and findLineWindowMatches   *)
(* go on behind a match they found, so matches do not overlap.             *)

\* Mutant: the search goes on one place behind the beginning of a match.
NonOverlapping_Overlaps(starts, width) == starts

NonOverlapping(starts, width) ==
  LET taken[i \in starts] == \A j \in starts : i - width < j /\ j < i => ~taken[j]
  IN {i \in starts : taken[i]}

\* s with segment[i] in place of its elements i .. i + width - 1, for each i in starts.
Spliced(s, starts, width, segment) ==
  Concat([i \in DOMAIN s |->
    IF i \in starts THEN segment[i]
    ELSE IF \E j \in starts : j < i /\ i < j + width THEN <<>>
    ELSE <<s[i]>>])

\* The uniqueness check.
Decided(matches, text) ==
  IF matches = {} THEN Missing
  ELSE IF Cardinality(matches) > 1 /\ ~replaceAll THEN Ambiguous
  ELSE Replaced(text)

Occurrences(t, pattern) ==
  {i \in 1..(Len(t) - Len(pattern) + 1) : SubSeq(t, i, i + Len(pattern) - 1) = pattern}

ExactReplace(t, pattern) ==
  LET matches == NonOverlapping(Occurrences(t, pattern), Len(pattern))
  IN Decided(matches, Spliced(t, matches, Len(pattern), [i \in matches |-> new]))

\* Mutant: the last window is not looked at.
LineWindows_OneLess(lines, pattern) ==
  {i \in 1..(Len(lines) - Len(pattern)) :
     \A k \in DOMAIN pattern : TrimSpace(lines[i + k - 1]) = TrimSpace(pattern[k])}

LineWindows(lines, pattern) ==
  {i \in 1..(Len(lines) - Len(pattern) + 1) :
     \A k \in DOMAIN pattern : TrimSpace(lines[i + k - 1]) = TrimSpace(pattern[k])}

LineByLineReplace(t, pattern) ==
  LET lines   == Lines(t)
      width   == Len(Lines(pattern))
      matches == NonOverlapping(LineWindows(lines, Lines(pattern)), width)
  IN Decided(matches,
             Join(Spliced(lines, matches, width,
                          [i \in matches |-> Reindent(new, BasePrefix(lines[i]))])))

\* Old texts of one line are not tried at the third level.
TrimmedReplace(t, pattern) ==
  IF TrimSpace(pattern) # <<>> /\ (\E i \in DOMAIN pattern : pattern[i] = LF)
  THEN ExactReplace(t, TrimSpace(pattern)) ELSE Missing

FuzzyReplace ==
  LET normContent == NormalizeLineEndings(content)
      normOld     == NormalizeLineEndings(old)
      tried == <<ExactReplace(content, old), ExactReplace(normContent, normOld),
                 TrimmedReplace(normContent, normOld), LineByLineReplace(normContent, normOld)>>
      hits  == {k \in 1..4 : tried[k] # Missing}
  IN IF hits = {} THEN Missing ELSE [tried[Min(hits)] EXCEPT !.level = Min(hits)]

EditInit ==
  /\ content \in Contents /\ old \in OldTexts /\ new \in NewTexts /\ replaceAll \in BOOLEAN
  /\ result = Untried

\* edit_file refuses an empty old text and an edit that changes nothing.
Refuse ==
  /\ result = Untried /\ old \in {<<>>, new}
  /\ result' = [Untried EXCEPT !.how = "refused"]
  /\ UNCHANGED editVars

Edit ==
  /\ result = Untried /\ old \notin {<<>>, new}
  /\ result' = FuzzyReplace
  /\ UNCHANGED editVars

EditNext == Refuse \/ Edit

EditSpec == EditInit /\ [][EditNext]_<<editVars, result>>

-----------------------------------------------------------------------------
(* Properties.  They speak of parts of the content, from one position to   *)
(* another, and of what a reader sees there.                               *)

\* How a part of the file is written back: past the exact level, every CRLF of it as LF.
Written(t) == IF result.level = 1 THEN t ELSE NormalizeLineEndings(t)

\* What the level that decided looked at.
Base == Written(content)

\* A text without its white space.
Ink(t) == Concat([i \in DOMAIN t |-> IF t[i] \in Space THEN <<>> ELSE <<t[i]>>])

\* The same lines, empty ones as they are, the others all moved sideways, so
\* that the least indented one of them has the given indentation.
SameButMoved(s, t, indent) ==
  LET a == Lines(s)
      b == Lines(t)
      full == {k \in DOMAIN b : b[k] # <<>>}
      rest(line) == SubSeq(line, Indent(line) + 1, Len(line))
  IN /\ DOMAIN a = DOMAIN b
     /\ \A k \in DOMAIN b : rest(a[k]) = rest(b[k]) /\ (k \notin full => a[k] = <<>>)
     /\ \A k \in full : \A least \in full :
          (\A j \in full : Indent(b[least]) <= Indent(b[j])) =>
             Indent(a[k]) = indent + Indent(b[k]) - Indent(b[least])

WholeLines(t, i, j) == (i = 1 \/ t[i - 1] = LF) /\ (j = Len(t) \/ t[j + 1] = LF)

\* "Each edit finds old_text in the file and replaces it with new_text"
\* (edit_file.go:30): without replace_all one part of the file that reads as
\* old_text becomes new_text (at the last level the part is whole lines, and
\* new_text is indented as the first of them was), and what the file has before
\* and behind it stays there: as it is if old_text was found exactly, otherwise
\* with every CRLF changed to LF (fuzzy.go:26).
OnlyTheMatchChanges ==
  result.how = "replaced" /\ ~replaceAll =>
    \E i \in 1..(Len(content) + 1) : \E j \in (i - 1)..Len(content) :
      LET before == Written(SubSeq(content, 1, i - 1))
          match  == Written(SubSeq(content, i, j))
          behind == Written(SubSeq(content, j + 1, Len(content)))
          put    == SubSeq(result.text, Len(before) + 1, Len(result.text) - Len(behind))
      IN /\ Ink(match) = Ink(old)
         /\ result.text = before \o put \o behind
         /\ IF result.level < 4 THEN put = new
            ELSE /\ before # <<>> => before[Len(before)] = LF
                 /\ behind # <<>> => behind[1] = LF
                 /\ SameButMoved(put, new, Indent(Lines(match)[1]))

\* The parts of the content that read as old_text at the level that decided.
Places ==
  CASE result.level = 1 -> Occurrences(Base, old)
    [] result.level = 2 -> Occurrences(Base, NormalizeLineEndings(old))
    [] result.level = 3 -> Occurrences(Base, TrimSpace(NormalizeLineEndings(old)))
    [] result.level = 4 -> LineWindows(Lines(Base), Lines(NormalizeLineEndings(old)))
Width ==
  CASE result.level = 1 -> Len(old)
    [] result.level = 2 -> Len(NormalizeLineEndings(old))
    [] result.level = 3 -> Len(TrimSpace(NormalizeLineEndings(old)))
    [] result.level = 4 -> Len(Lines(NormalizeLineEndings(old)))

\* How many of them there are side by side.
MostApart ==
  Max({Cardinality(P) : P \in {Q \in SUBSET Places : \A i, j \in Q : i < j => i + Width <= j}})

\* "uniqueness enforced" (README.md:115): an edit is made at one place only if
\* there are no two of them side by side, is refused only if there are; with
\* replace_all as many places are replaced as there are side by side.
UniqueOrRefused ==
  /\ result.how = "replaced" /\ ~replaceAll => MostApart = 1
  /\ result.how = "ambiguous" => ~replaceAll /\ MostApart > 1
  /\ result.how = "replaced" /\ replaceAll =>
       Len(Ink(result.text)) = Len(Ink(Base)) + MostApart * (Len(Ink(new)) - Len(Ink(old)))

\* A part of the content that has old_text's lines, whatever the white space
\* around each of them and whatever their endings.
ReadsLineByLine(i, j) ==
  LET lines(t) == [k \in DOMAIN Lines(t) |-> TrimSpace(Lines(t)[k])]
  IN WholeLines(content, i, j) /\ lines(SubSeq(content, i, j)) = lines(old)

\* "re-read the file and check exact contents (incl. whitespace and line
\* endings)" (edit_file.go:142): an edit is said not to match only if old_text
\* stands nowhere in the file, neither as it is nor line by line.
MissIsReal ==
  result.how = "missing" =>
    /\ Occurrences(content, old) = {}
    /\ \A i \in 1..(Len(content) + 1) : \A j \in (i - 1)..Len(content) : ~ReadsLineByLine(i, j)

\* "this ensures the only stripping was outer blank lines" (fuzzy.go:35), and
\* "preventing silent mid-token substring corruption" (CHANGELOG.md:82): what
\* the third level strips of old_text are whole lines, or else the match stands
\* between white space.  Not so: one line that ends with a newline passes the
\* test for a newline, loses its blanks, and matches inside of a word.
StripsOuterLinesOnly ==
  result.how = "replaced" /\ result.level = 3 =>
    LET norm == NormalizeLineEndings(old)
        from == Min({i \in DOMAIN norm : norm[i] \notin Space})
        word(i) == i \in DOMAIN Base /\ Base[i] \notin Space
    IN from > 1 /\ norm[from - 1] = Blank => \A i \in Places : ~word(i - 1)
=============================================================================
