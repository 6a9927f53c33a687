----------------------------- MODULE InputFiles -----------------------------
(***************************************************************************)
(* InputFileResolver and InputFileCollection: which files take part, which *)
(* of them are mutated, and the reading of them, all at once.              *)
(* A pattern is the set of files its glob finds, and whether it starts     *)
(* with a "!".                                                             *)
(***************************************************************************)
EXTENDS Naturals, SequencesExt

CONSTANT Files                     \* what git ls-files says

VARIABLES patterns,      \* the options `files` (ignored if git decides) and `mutate`, until they are expanded
          reading,       \* the files being read
          files,         \* the files that were read
          filesToMutate  \* those of them that have mutants

inputVars == <<patterns, reading, files, filesToMutate>>
NoPatterns == [git |-> FALSE, files |-> << >>, mutate |-> << >>]

\* As if the files to ignore were taken out when all others are in.
BugIgnoresLast(pats) ==
  UNION {pats[i].files : i \in {j \in DOMAIN pats : ~pats[j].ignore}}
    \ UNION {pats[i].files : i \in {j \in DOMAIN pats : pats[j].ignore}}
Expand(pats) ==
  FoldLeft(LAMBDA fileSet, pattern : IF pattern.ignore THEN fileSet \ pattern.files
                                                       ELSE fileSet \cup pattern.files,
           {}, pats)

ResolveInputFiles == IF patterns.git THEN Files ELSE Expand(patterns.files)

StartReading == /\ reading' = ResolveInputFiles
                /\ UNCHANGED <<patterns, files, filesToMutate>>

\* ENOENT and EISDIR: git lists deleted files, and submodules.
FileIsGone(f) == /\ f \in reading
                 /\ reading' = reading \ {f}
                 /\ UNCHANGED <<patterns, files, filesToMutate>>

FileIsRead(f) == /\ f \in reading
                 /\ reading' = reading \ {f}
                 /\ files' = files \cup {f}
                 /\ UNCHANGED <<patterns, filesToMutate>>

\* InputFileCollection
FilesToMutate == {f \in files : f \in Expand(patterns.mutate)}
CollectFiles == /\ reading = {}
                /\ filesToMutate' = FilesToMutate
                /\ patterns' = NoPatterns
                /\ UNCHANGED <<reading, files>>

\* The same selection, said per file: the last pattern that finds it decides.
Selected(pats, f) ==
  \E i \in DOMAIN pats : /\ ~pats[i].ignore /\ f \in pats[i].files
                         /\ \A j \in i + 1 .. Len(pats) : f \notin pats[j].files
=============================================================================
