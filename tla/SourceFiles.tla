----------------------------- MODULE SourceFiles -----------------------------
(***************************************************************************)
(* Where a mutant is: SourceFile makes lines and columns of its offsets,   *)
(* TestableMutant cuts out the lines it is shown with, and SourceMapper    *)
(* finds the transpiled file and the positions in it that belong to them,  *)
(* by the source maps that the transpiled files refer to.                  *)
(*                                                                         *)
(* A source map has no entry for some positions; where there is one, it is *)
(* the same position, so that a property can tell.                         *)
(***************************************************************************)
EXTENDS Naturals, Integers, Sequences, FiniteSets

CONSTANTS TextLength,      \* the longest text
          Comments         \* how many sourceMappingURL comments a transpiled file has, at most

VARIABLES text,            \* the characters of the source file
          transpiledFiles, \* per transpiled file the urls of its comments, in their order
          unmapped,        \* the positions the source map says nothing of
          mapper,          \* which SourceMapper there is
          range,           \* where the mutant begins, and where it ends
          original,        \* getLocation(range)
          location         \* transpiledLocationFor it

sourceVars == <<text, transpiledFiles, unmapped, mapper, range, original, location>>

----------------------------------------------------------------------------
(* SourceFile *)

LF == "LF"
CR == "CR"
LS == "LS"      \* LS stands for the paragraph separator too
Characters == {"a", CR, LF, LS}

\* A CR and the LF that follows it are one line break.
BugTwoBreaks(chars, pos) == pos + 1
Behind(chars, pos) ==
  IF chars[pos + 1] = CR /\ pos + 1 < Len(chars) /\ chars[pos + 2] = LF THEN pos + 2 ELSE pos + 1

\* computeLineStarts: a line begins behind a line break.
LineStarts(chars) ==
  LET starts[pos \in 0..Len(chars)] ==
        IF pos = Len(chars) THEN << >>
        ELSE LET next == Behind(chars, pos)
             IN  IF chars[pos + 1] = "a" THEN starts[next] ELSE <<next>> \o starts[next]
  IN  <<0>> \o starts[0]

\* binarySearch, 0-based: the index of the value, or the complement of the first index that exceeds it.
BinarySearch(array, value) ==
  LET search[window \in (0..Len(array)) \X (-1..Len(array) - 1)] ==
        LET low == window[1]
            high == window[2]
            middle == low + (high - low) \div 2
        IN  IF low > high THEN -low - 1
            ELSE IF array[middle + 1] = value THEN middle
            ELSE IF array[middle + 1] > value THEN search[<<low, middle - 1>>] ELSE search[<<middle + 1, high>>]
  IN  search[<<0, Len(array) - 1>>]

LineFound(found) == IF found < 0 THEN (-found - 1) - 1 ELSE found

GetPosition(chars, pos) ==
  LET line == LineFound(BinarySearch(LineStarts(chars), pos))
  IN  [line |-> line, column |-> pos - LineStarts(chars)[line + 1]]

GetLocation(chars, from, to) == [start |-> GetPosition(chars, from), end |-> GetPosition(chars, to)]

----------------------------------------------------------------------------
(* TestableMutant: the code with the mutant, and the lines of it that a report shows.  The replacement is a      *)
(* character of its own.  A CR and an LF are two characters here, not one break.                                 *)

Substring(chars, from, to) == SubSeq(chars, from + 1, to)
WithMutant(chars, from, to) == Substring(chars, from, range[1]) \o <<"replacement">> \o Substring(chars, range[2], to)
MutatedCode == WithMutant(text, 0, Len(text))

IsLineBreak(ch) == ch # "a"
MutationLineIndexes ==
  <<CHOOSE s \in 0..range[1] : /\ s = 0 \/ IsLineBreak(text[s])
                              /\ \A i \in s + 1..range[1] : ~IsLineBreak(text[i]),
    CHOOSE e \in range[2]..Len(text) : /\ e = Len(text) \/ IsLineBreak(text[e + 1])
                                      /\ \A i \in range[2] + 1..e : ~IsLineBreak(text[i])>>
OriginalLines == Substring(text, MutationLineIndexes[1], MutationLineIndexes[2])
MutatedLines == WithMutant(text, MutationLineIndexes[1], MutationLineIndexes[2])

----------------------------------------------------------------------------
(* SourceMapper *)

\* The urls: two map files that are there, one that is not, inline maps that can be read and that cannot.
Urls == {"own.map", "other.map", "missing.map", "data", "unsupported data"}
TranspiledNames == {"out.js", "lib.js"}

\* The map of its own, and the inline one of out.js, have the source file among their sources.
ListsSource(name, url) == url = "own.map" \/ (url = "data" /\ name = "out.js")
CannotBeRead(url) == url \in {"missing.map", "unsupported data"}

SourceMapUrl(urls) == urls[Len(urls)]

HasSourceMap(name) == transpiledFiles[name] # <<>>

\* createSourceMaps goes through all files before it answers; a later file with a map of the same source wins.
BrokenMap == \E name \in TranspiledNames : HasSourceMap(name) /\ CannotBeRead(SourceMapUrl(transpiledFiles[name]))
Mapping == {name \in TranspiledNames : HasSourceMap(name) /\ ListsSource(name, SourceMapUrl(transpiledFiles[name]))}
SourceMapOf == IF "lib.js" \in Mapping THEN "lib.js" ELSE "out.js"

\* generatedPositionFor: at least upper bound, and the begin of the file when there is nothing behind it.
GeneratedPosition(pos) == IF pos \in unmapped THEN [line |-> 0, column |-> 0] ELSE pos

TranspiledLocationFor(loc) ==
  CASE mapper = "pass through" -> [file |-> "source file", start |-> loc.start, end |-> loc.end]
    [] mapper = "transpiled" /\ (BrokenMap \/ Mapping = {}) -> [file |-> "SourceMapError"]
    [] OTHER -> [file |-> SourceMapOf, start |-> GeneratedPosition(loc.start), end |-> GeneratedPosition(loc.end)]

----------------------------------------------------------------------------
None == [file |-> "none"]
UrlLists == UNION {[1..n -> Urls] : n \in 0..Comments}

\* SourceMapper.create: maps are looked for if something is transpiled and coverage is analysed.
MapperFor(transpilers, coverageAnalysis) ==
  IF transpilers /\ coverageAnalysis THEN "transpiled" ELSE "pass through"

InitSources ==
  /\ \/ text \in UNION {[1..n -> Characters] : n \in 0..TextLength} /\ transpiledFiles = [n \in TranspiledNames |-> <<>>]
     \/ text = <<"a", LF, "a">> /\ transpiledFiles \in [TranspiledNames -> UrlLists]
  /\ unmapped \in {{}, {[line |-> 1, column |-> 0]}}
  /\ \E transpilers, coverageAnalysis \in BOOLEAN : mapper = MapperFor(transpilers, coverageAnalysis)
  /\ range \in {r \in (0..Len(text)) \X (0..Len(text)) : r[1] <= r[2]}
  /\ original = None /\ location = None

Locate ==
  /\ original = None
  /\ original' = GetLocation(text, range[1], range[2])
  /\ UNCHANGED <<text, transpiledFiles, unmapped, mapper, range, location>>

MapLocation ==
  /\ original # None /\ location = None
  /\ location' = TranspiledLocationFor(original)
  /\ UNCHANGED <<text, transpiledFiles, unmapped, mapper, range, original>>

SourceStep == Locate \/ MapLocation

----------------------------------------------------------------------------
(* Where a mutant is *)

\* The line of a position is the number of line breaks before it, and the column is counted from the last: in
\* front of, on and behind a line start, between a CR and its LF, and with all kinds of line breaks mixed.
BetweenCrAndLf(p) == p \in 1..Len(text) - 1 /\ text[p] = CR /\ text[p + 1] = LF
BreakEnds == {p \in 1..Len(text) : text[p] # "a" /\ ~BetweenCrAndLf(p)}
PositionIsExact(position, offset) ==
  LET before == {p \in BreakEnds : p <= offset}
  IN  /\ position.line = Cardinality(before)
      /\ \E start \in {0} \cup before : /\ \A p \in before : p <= start
                                        /\ position.column = offset - start

\* The lines a report shows hold the mutant: put in the place of the original ones they give the mutated code, they
\* begin at the mutant's line, unless it begins between a CR and its LF, and have no line break that it does not have.
LinesShowTheMutant ==
  LET from == MutationLineIndexes[1]
      to == MutationLineIndexes[2]
  IN  /\ Substring(text, 0, from) \o MutatedLines \o Substring(text, to, Len(text)) = MutatedCode
      /\ Substring(text, 0, from) \o OriginalLines \o Substring(text, to, Len(text)) = text
      /\ range[1] - from = original.start.column \/ BetweenCrAndLf(range[1])
      /\ \A i \in DOMAIN MutatedLines : MutatedLines[i] \in {"a", "replacement"}

\* The transpiled file is one whose last comment refers to a map that has the source file: a comment before the
\* last, or a map of other sources, leads nobody astray.  There is an answer if there is such a file and all maps
\* can be read.
LastUrl(name) == transpiledFiles[name][Len(transpiledFiles[name])]
LocatedInItsFile ==
  LET mapped == {name \in TranspiledNames : transpiledFiles[name] # << >>}
      homes == {name \in mapped : ListsSource(name, LastUrl(name))}
  IN  IF homes # {} /\ \A name \in mapped : ~CannotBeRead(LastUrl(name))
      THEN location.file \in homes ELSE location.file = "SourceMapError"

\* Without source maps the location is the original one.
LocationsAreExact ==
  /\ original # None => /\ PositionIsExact(original.start, range[1])
                        /\ PositionIsExact(original.end, range[2])
                        /\ LinesShowTheMutant
  /\ location # None => IF mapper = "transpiled" THEN LocatedInItsFile
                        ELSE location.start = original.start /\ location.end = original.end
=============================================================================
