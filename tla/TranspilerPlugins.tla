-------------------------- MODULE TranspilerPlugins --------------------------
(***************************************************************************)
(* The transpiler plugins.  They are told only what has changed since the  *)
(* last call, and keep the rest: Typescript in a language service, webpack *)
(* in a file system in memory and in what it remembers of the bundles it   *)
(* wrote; Babel keeps nothing.  A call may fail because of a mutant, and   *)
(* the scheduler goes on with the next one.                                *)
(*                                                                         *)
(* A file's content is a number, 0 for the original; what is transpiled of *)
(* it is told by the same number.                                          *)
(***************************************************************************)
EXTENDS Naturals

CONSTANTS TranspilerTools,    \* of "typescript", "typescriptOutFile", "babel" and "webpack"
          Sources,            \* the files to be transpiled
          TranspileCalls      \* how many calls there are, at most

VARIABLES tool,
          told,          \* the content of each file as the calls told it
          kept,          \* per file what the plugin has of it, and a version (ScriptFile)
          built,         \* per file the content and version the compiler worked with last
          unpurged,      \* what webpack wrote and OutputFileSystem still has
          sandboxed,     \* what a sandbox's files say of the sources, once the output of the call is written there
          lastMutated,   \* the file of the last mutant, and how many calls there were
          lastCall       \* "none", "resolved", "rejected"

transpilerVars == <<tool, told, kept, built, unpurged, sandboxed, lastMutated, lastCall>>

Nothing == [f \in {} |-> 0]
NoFile == "none"
ASSUME TranspilerAssumption == NoFile \notin Sources
Originals == [f \in Sources |-> 0]

InitTranspiler ==
  /\ tool \in TranspilerTools
  /\ told = Originals /\ kept = Nothing /\ built = Nothing
  /\ unpurged = Nothing /\ sandboxed = Originals
  /\ lastMutated = [file |-> NoFile, calls |-> 0] /\ lastCall = "none"

With(old, new) == [f \in DOMAIN old \cup DOMAIN new |-> IF f \in DOMAIN new THEN new[f] ELSE old[f]]

----------------------------------------------------------------------------
(* Keeping the files: ScriptFile.replace counts the versions, webpack reads a file in memory before one on disk. *)

BugSameVersion(contents) ==
  With(kept, [f \in DOMAIN contents |->
    [content |-> contents[f], version |-> IF f \in DOMAIN kept THEN kept[f].version ELSE 0]])
Replace(contents) ==
  With(kept, [f \in DOMAIN contents |->
    [content |-> contents[f], version |-> IF f \in DOMAIN kept THEN kept[f].version + 1 ELSE 0]])

----------------------------------------------------------------------------
(* Compiling *)

\* The language service looks at a file again when its version has changed.
ServiceBuilds(files) ==
  [f \in DOMAIN files |-> IF f \in DOMAIN built /\ built[f].version = files[f].version THEN built[f] ELSE files[f]]

\* The output of a file, or with outFile, from the first file on, of all of them.
TypescriptEmits(given, compiled) ==
  LET emitted == IF tool = "typescriptOutFile" THEN DOMAIN compiled ELSE given
  IN  [f \in emitted |-> compiled[f].content]

\* webpack does not write again what is as it was.
WebpackWrites(files) ==
  LET changed == {f \in DOMAIN files : f \notin DOMAIN built \/ built[f].content # files[f].content}
  IN  [f \in changed |-> files[f].content]

\* webpack's errors, by its settings, come with the output or without.  Nobody collects it then.
WebpackFails(files) ==
  \/ /\ unpurged' = With(unpurged, WebpackWrites(files))
     /\ built' = files
  \/ UNCHANGED <<unpurged, built>>

\* The files of the compilation, and those that failed ones before it have left behind.
CollectFiles(files) == With(unpurged, WebpackWrites(files))

----------------------------------------------------------------------------
(* A call.  The first is with all files; then come a mutated one and the reset of the last. *)

NextFiles(f, content) ==
  IF lastMutated.file \in {NoFile, f} THEN [g \in {f} |-> content]
  ELSE [g \in {f, lastMutated.file} |-> IF g = f THEN content ELSE 0]

\* The sandbox that gets the output has the originals: it has reset the files of the mutant it had before.
Sandboxed(output) == sandboxed' = With(Originals, output)

Succeeds(contents, files) ==
  /\ lastCall' = "resolved"
  /\ CASE tool = "babel"   -> Sandboxed(contents) /\ UNCHANGED <<kept, built, unpurged>>
       [] tool = "webpack" -> /\ Sandboxed(CollectFiles(files))
                              /\ kept' = files /\ built' = files /\ unpurged' = Nothing
       [] OTHER            -> /\ kept' = files /\ built' = ServiceBuilds(files)
                              /\ Sandboxed(TypescriptEmits(DOMAIN contents, ServiceBuilds(files)))
                              /\ UNCHANGED unpurged

Fails(files) ==
  /\ lastCall' = "rejected"
  /\ CASE tool = "babel"   -> UNCHANGED <<kept, built, unpurged>>
       [] tool = "webpack" -> kept' = files /\ WebpackFails(files)
       [] OTHER            -> kept' = files /\ built' = ServiceBuilds(files) /\ UNCHANGED unpurged
  /\ UNCHANGED sandboxed

TranspileFiles(contents) ==
  /\ told' = With(told, contents)
  /\ Succeeds(contents, Replace(contents)) \/ Fails(Replace(contents))
  /\ UNCHANGED tool

TranspileOriginals ==
  /\ lastCall = "none"
  /\ TranspileFiles(Originals)
  /\ UNCHANGED lastMutated

\* Each call brings another mutant.  When the originals do not transpile there is none.
TranspileMutant ==
  /\ lastMutated.calls < TranspileCalls
  /\ lastCall = "resolved" \/ lastMutated.file # NoFile
  /\ \E f \in Sources :
       /\ TranspileFiles(NextFiles(f, lastMutated.calls + 1))
       /\ lastMutated' = [file |-> f, calls |-> lastMutated.calls + 1]

TranspilerStep == TranspileOriginals \/ TranspileMutant

----------------------------------------------------------------------------
\* After a call that succeeded a sandbox has what the calls have told of all files, also those that failed before:
\* nothing that was compiled for an earlier mutant, and all that was changed for this one.
TranspiledIsCurrent == lastCall = "resolved" => sandboxed = told
=============================================================================
