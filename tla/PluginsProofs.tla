----------------------------- MODULE PluginsProofs -----------------------------
(***************************************************************************)
(* Theorems about the parts that work on their own: what they promise      *)
(* holds for every number of runs, tests, files and events.                *)
(***************************************************************************)
EXTENDS Plugins, OperatorProofs

-----------------------------------------------------------------------------
(* Validation *)

\* Whatever Ajv finds: its paths have at most three keys, and among the errors is one that is not a mere alternative.
ValidatedKeys == {"mutator", "name", "plugins", "excludedMutations", "0", "thresholds", "break", "logLevel"}
OptionPaths == Paths(ValidatedKeys, 3)
IsFound(errors) == HavePaths(errors, ValidatedKeys, 3) /\ (errors # {} => SingleErrors(errors) # {})

\* A set of single errors.
AreSingle(errors) == \A e \in errors : e.path \in OptionPaths /\ e.keyword \notin MetaSchemaKeywords

LEMMA PathsOfStrings ==
  /\ \A a \in ValidatedKeys : <<a>> \in OptionPaths
  /\ \A a, b \in ValidatedKeys : <<a, b>> \in OptionPaths
  /\ \A a, b, c \in ValidatedKeys : Append(<<a, b>>, c) \in OptionPaths
<1> SUFFICES ASSUME NEW a \in ValidatedKeys, NEW b \in ValidatedKeys, NEW c \in ValidatedKeys
             PROVE  <<a>> \in OptionPaths /\ <<a, b>> \in OptionPaths /\ Append(<<a, b>>, c) \in OptionPaths
  OBVIOUS
<1> HIDE DEF ValidatedKeys
<1>1. /\ <<a>> \in Seq(ValidatedKeys) /\ Len(<<a>>) <= 3
      /\ <<a, b>> \in Seq(ValidatedKeys) /\ Len(<<a, b>>) <= 3
      /\ Append(<<a, b>>, c) \in Seq(ValidatedKeys) /\ Len(Append(<<a, b>>, c)) <= 3
  OBVIOUS
<1> QED
  BY <1>1 DEF OptionPaths, Paths

LEMMA SingleErrorsTyped ==
  ASSUME NEW path \in OptionPaths, NEW keyword, keyword \notin MetaSchemaKeywords, NEW types
  PROVE  AreSingle({Error(path, keyword, types)})
  BY DEF AreSingle, Error

LEMMA SingleKeywords ==
  /\ "type" \notin MetaSchemaKeywords /\ "required" \notin MetaSchemaKeywords
  /\ "additionalProperties" \notin MetaSchemaKeywords
  /\ "maximum" \notin MetaSchemaKeywords /\ "enum" \notin MetaSchemaKeywords
  BY DEF MetaSchemaKeywords

LEMMA TypeErrorsTyped ==
  ASSUME NEW path \in OptionPaths, NEW type
  PROVE  AreSingle({TypeError(path, type)})
  BY SingleKeywords, SingleErrorsTyped DEF TypeError

LEMMA SingleTogether ==
  ASSUME NEW a, NEW b, AreSingle(a), AreSingle(b)
  PROVE  AreSingle(a \cup b)
  BY DEF AreSingle

LEMMA SingleWhen ==
  ASSUME NEW condition, NEW errors, AreSingle(errors)
  PROVE  AreSingle(When(condition, errors))
  BY DEF AreSingle, When

LEMMA SingleIsFound ==
  ASSUME NEW errors, AreSingle(errors)
  PROVE  IsFound(errors)
  BY DEF AreSingle, IsFound, HavePaths, OptionPaths, SingleErrors

LEMMA FoundTogether ==
  ASSUME NEW a, NEW b, IsFound(a), IsFound(b)
  PROVE  IsFound(a \cup b)
  BY DEF IsFound, HavePaths, SingleErrors

LEMMA NothingFound == IsFound({})
  BY DEF IsFound, HavePaths

\* A error of alternatives stands beside an error of one of them.
LEMMA FoundWithMeta ==
  ASSUME NEW path \in OptionPaths, NEW keyword, NEW errors, IsFound(errors), errors # {}
  PROVE  IsFound(errors \cup {Error(path, keyword, {})})
<1>1. Error(path, keyword, {}).path \in OptionPaths
  BY DEF Error
<1> QED
  BY <1>1 DEF IsFound, HavePaths, OptionPaths, SingleErrors

LEMMA FieldErrorsFound ==
  ASSUME NEW field \in ValidatedKeys, NEW value, NEW items, NEW alternatives
  PROVE  AreSingle(FieldErrors(field, value, items, alternatives))
<1> DEFINE path == <<"mutator", field>>
<1>1. path \in OptionPaths /\ Append(path, "0") \in OptionPaths
  BY PathsOfStrings DEF ValidatedKeys
<1> HIDE DEF path
<1>2. AreSingle({TypeError(path, "array")})
  BY <1>1, TypeErrorsTyped
<1>3. AreSingle({Error(Append(path, "0"), "type", items)})
  BY <1>1, SingleErrorsTyped, SingleKeywords
<1>4. AreSingle({TypeError(path, t) : t \in alternatives})
  <2>1. \A t \in alternatives : AreSingle({TypeError(path, t)})
    BY <1>1, TypeErrorsTyped
  <2> QED BY <2>1 DEF AreSingle
<1>5. /\ AreSingle(When(value = "number", {TypeError(path, "array")}))
      /\ AreSingle(When(value = "numbers", {Error(Append(path, "0"), "type", items)}))
      /\ AreSingle(When(value \in {"number", "numbers"}, {TypeError(path, t) : t \in alternatives}))
  BY <1>2, <1>3, <1>4, SingleWhen
<1> QED
  BY <1>5, SingleTogether DEF FieldErrors, path

LEMMA PluginsErrorsFound ==
  ASSUME NEW value
  PROVE  IsFound(PluginsErrors(value))
<1> DEFINE errors == FieldErrors("plugins", value, {"string", "array"}, {"null"})
           path == <<"mutator", "plugins">>
<1>1. IsFound(errors)
  <2>1. "plugins" \in ValidatedKeys
    BY DEF ValidatedKeys
  <2>2. AreSingle(errors)
    BY <2>1, FieldErrorsFound
  <2> QED BY <2>2, SingleIsFound
<1>2. path \in OptionPaths
  BY PathsOfStrings DEF ValidatedKeys
<1>3. PluginsErrors(value) = IF errors # {} THEN errors \cup {Error(path, "anyOf", {})} ELSE errors
  BY DEF PluginsErrors, When
<1> HIDE DEF errors, path
<1> QED
  BY <1>1, <1>2, <1>3, FoundWithMeta

LEMMA DescriptorErrorsFound ==
  ASSUME NEW o
  PROVE  IsFound(DescriptorErrors(o))
<1>1. <<"mutator">> \in OptionPaths /\ <<"mutator", "name">> \in OptionPaths
  BY PathsOfStrings DEF ValidatedKeys
<1>2. /\ AreSingle({Error(<<"mutator">>, "required", {})})
      /\ AreSingle({Error(<<"mutator">>, "additionalProperties", {})})
      /\ AreSingle({TypeError(<<"mutator", "name">>, "string")})
  BY <1>1, SingleErrorsTyped, TypeErrorsTyped, SingleKeywords
<1>3. /\ IsFound(When(o.name = "absent", {Error(<<"mutator">>, "required", {})}))
      /\ IsFound(When(o.name = "number", {TypeError(<<"mutator", "name">>, "string")}))
      /\ IsFound(When(o.other, {Error(<<"mutator">>, "additionalProperties", {})}))
  BY <1>2, SingleWhen, SingleIsFound
<1>4. IsFound(FieldErrors("excludedMutations", o.excludedMutations, {"string"}, {}))
  <2>1. "excludedMutations" \in ValidatedKeys
    BY DEF ValidatedKeys
  <2>2. AreSingle(FieldErrors("excludedMutations", o.excludedMutations, {"string"}, {}))
    BY <2>1, FieldErrorsFound
  <2> QED BY <2>2, SingleIsFound
<1> QED
  BY <1>3, <1>4, PluginsErrorsFound, FoundTogether DEF DescriptorErrors

\* A oneOf fails with the errors of its alternatives.
LEMMA NoneOfFound ==
  ASSUME NEW path \in OptionPaths, NEW errors, IsFound(errors), errors # {}
  PROVE  IsFound(NoneOf(path, errors))
  BY FoundWithMeta DEF NoneOf

LEMMA MutatorErrorsFound == \A errors \in MutatorErrors : IsFound(errors)
<1>1. <<"mutator">> \in OptionPaths
  BY PathsOfStrings DEF ValidatedKeys
<1>2. AreSingle({TypeError(<<"mutator">>, "string")}) /\ AreSingle({TypeError(<<"mutator">>, "object")})
  BY <1>1, TypeErrorsTyped
<1>3. IsFound({TypeError(<<"mutator">>, "string"), TypeError(<<"mutator">>, "object")})
  <2>1. AreSingle({TypeError(<<"mutator">>, "string")} \cup {TypeError(<<"mutator">>, "object")})
    BY <1>2, SingleTogether
  <2>2. {TypeError(<<"mutator">>, "string")} \cup {TypeError(<<"mutator">>, "object")}
       = {TypeError(<<"mutator">>, "string"), TypeError(<<"mutator">>, "object")}
    OBVIOUS
  <2> QED BY <2>1, <2>2, SingleIsFound
<1>4. IsFound(NoneOf(<<"mutator">>, {TypeError(<<"mutator">>, "string"), TypeError(<<"mutator">>, "object")}))
  BY <1>1, <1>3, NoneOfFound
<1>5. ASSUME NEW o \in MutatorObjects
      PROVE  IsFound(ObjectErrors(o))
  <2>1. IsFound(DescriptorErrors(o) \cup {TypeError(<<"mutator">>, "string")})
    BY <1>2, DescriptorErrorsFound, SingleIsFound, FoundTogether
  <2>2. IsFound(NoneOf(<<"mutator">>, DescriptorErrors(o) \cup {TypeError(<<"mutator">>, "string")}))
    BY <2>1, <1>1, NoneOfFound
  <2> QED BY <2>2, NothingFound DEF ObjectErrors, When
<1> QED
  BY <1>4, <1>5, NothingFound DEF MutatorErrors

LEMMA BreakErrorsFound == \A errors \in BreakErrors : IsFound(errors)
<1>1. Break \in OptionPaths
  BY PathsOfStrings DEF ValidatedKeys, Break
<1>2. /\ AreSingle({TypeError(Break, "null")})
      /\ AreSingle({Error(Break, "maximum", {})})
      /\ AreSingle({TypeError(Break, "number")})
  BY <1>1, SingleErrorsTyped, TypeErrorsTyped, SingleKeywords
<1>3. /\ IsFound({TypeError(Break, "null")} \cup {Error(Break, "maximum", {})})
      /\ IsFound({TypeError(Break, "null")} \cup {TypeError(Break, "number")})
  BY <1>2, SingleTogether, SingleIsFound
<1>4. \A a, b : {a} \cup {b} = {a, b}
  OBVIOUS
<1>5. /\ IsFound({TypeError(Break, "null"), Error(Break, "maximum", {})})
      /\ IsFound({TypeError(Break, "null"), TypeError(Break, "number")})
  BY <1>3, <1>4
<1>6. /\ IsFound(NoneOf(Break, {TypeError(Break, "null"), Error(Break, "maximum", {})}))
      /\ IsFound(NoneOf(Break, {TypeError(Break, "null"), TypeError(Break, "number")}))
  BY <1>1, <1>5, NoneOfFound
<1> QED
  BY <1>6, NothingFound DEF BreakErrors

LEMMA LogLevelErrorsFound == \A errors \in LogLevelErrors : IsFound(errors)
<1>1. LogLevel \in OptionPaths
  BY PathsOfStrings DEF ValidatedKeys, LogLevel
<1>2. AreSingle({Error(LogLevel, "enum", {})}) /\ AreSingle({TypeError(LogLevel, "string")})
  BY <1>1, SingleErrorsTyped, TypeErrorsTyped, SingleKeywords
<1>3. AreSingle({Error(LogLevel, "enum", {})} \cup {TypeError(LogLevel, "string")})
  BY <1>2, SingleTogether
<1>4. \A a, b : {a} \cup {b} = {a, b}
  OBVIOUS
<1>5. IsFound({Error(LogLevel, "enum", {}), TypeError(LogLevel, "string")})
  BY <1>3, <1>4, SingleIsFound
<1> QED
  BY <1>2, <1>5, SingleIsFound, NothingFound DEF LogLevelErrors

\* What was told is what FilterRelevantErrors makes of what was found.
ErrorsInv ==
  /\ IsFound(invalid)
  /\ \/ verdict = "none" /\ described = {}
     \/ described = FilterRelevantErrors(invalid) /\ verdict = IF described = {} THEN "accepted" ELSE "refused"

LEMMA ErrorsInvImplies == ErrorsInv => InvalidOptionsAreRefused
<1> SUFFICES ASSUME ErrorsInv, verdict # "none"
             PROVE  InvalidOptionsAreRefused
  BY DEF InvalidOptionsAreRefused
<1>1. described = FilterRelevantErrors(invalid) /\ verdict = IF described = {} THEN "accepted" ELSE "refused"
  BY DEF ErrorsInv
<1>2. /\ Told(invalid, described)
      /\ \A s, t \in described : s.path = t.path /\ s.keyword = "type" => s = t
      /\ \A t \in described, e \in invalid :
           t.keyword = "type" /\ e.keyword = "type" /\ e.path = t.path => e.types \subseteq t.types
  <2>1. HavePaths(invalid, ValidatedKeys, 3) /\ 3 \in Nat
    BY DEF ErrorsInv, IsFound
  <2>2. PICK tells : tells = FilterRelevantErrors(invalid)
    OBVIOUS
  <2>3. /\ Told(invalid, tells)
        /\ \A s, t \in tells : s.path = t.path /\ s.keyword = "type" => s = t
        /\ \A t \in tells, e \in invalid :
             t.keyword = "type" /\ e.keyword = "type" /\ e.path = t.path => e.types \subseteq t.types
    BY <2>1, <2>2, EveryErrorIsTold
  <2> QED BY <1>1, <2>2, <2>3
<1>3. described = {} => invalid = {}
  BY <1>2 DEF ErrorsInv, IsFound, Told
<1> QED
  BY <1>1, <1>2, <1>3 DEF InvalidOptionsAreRefused

LEMMA ErrorsInit == Init => ErrorsInv
<1> SUFFICES ASSUME Init PROVE ErrorsInv
  OBVIOUS
<1>1. InitErrors \/ (invalid = {} /\ described = {} /\ verdict = "none")
  BY DEF Init
<1>2. CASE InitErrors
  <2>1. PICK m \in MutatorErrors, b \in BreakErrors, l \in LogLevelErrors : invalid = m \cup b \cup l
    BY <1>2 DEF InitErrors
  <2>2. IsFound(m) /\ IsFound(b) /\ IsFound(l)
    BY MutatorErrorsFound, BreakErrorsFound, LogLevelErrorsFound
  <2>3. IsFound(invalid)
    BY <2>1, <2>2, FoundTogether
  <2> QED BY <2>3, <1>2 DEF ErrorsInv, InitErrors
<1>3. CASE invalid = {} /\ described = {} /\ verdict = "none"
  BY <1>3, NothingFound DEF ErrorsInv
<1> QED
  BY <1>1, <1>2, <1>3

LEMMA ErrorsNext == ErrorsInv /\ [Next]_pluginsVars => ErrorsInv'
<1> SUFFICES ASSUME ErrorsInv, [Next]_pluginsVars
             PROVE  ErrorsInv'
  OBVIOUS
<1>1. SchemaValidateOptions \/ UNCHANGED errorVars
  BY DEF Next, pluginsVars
<1>2. CASE SchemaValidateOptions
  BY <1>2 DEF SchemaValidateOptions, ErrorsInv
<1>3. CASE UNCHANGED errorVars
  BY <1>3 DEF errorVars, ErrorsInv
<1> QED
  BY <1>1, <1>2, <1>3

\* describeErrors(): options that Ajv refuses are never accepted because the errors were filtered, and each error is told.
THEOREM OptionsAreChecked == Spec => []InvalidOptionsAreRefused
<1>1. Spec => []ErrorsInv
  BY ErrorsInit, ErrorsNext, PTL DEF Spec
<1> QED
  BY <1>1, ErrorsInvImplies, PTL

-----------------------------------------------------------------------------
(* The command test runner *)

Runs == 1..CommandRuns
ProcessStates == {"none", "running", "unspawned", "killed"} \cup Ended
CommandType ==
  /\ processes \in [Runs -> ProcessStates]
  /\ commandResults \in [Runs -> {"none", "pending", "passed", "failed", "timeout", "rejected"}]
  /\ timeoutHandler \in Runs \cup {0}
  /\ commandDisposal \in {"none", "killing", "resolved", "rejected"}

\* One run follows another, so only the last can be pending; its handler is there, and nothing was disposed.
RunsFollow ==
  /\ \A r \in Runs : processes[r] = "none" <=> commandResults[r] = "none"
  /\ \A r, s \in Runs : s < r /\ commandResults[r] # "none" => commandResults[s] \in {"passed", "failed"}
  /\ \A r \in Runs : commandResults[r] = "pending" => timeoutHandler = r /\ commandDisposal = "none"
  /\ timeoutHandler # 0 => commandResults[timeoutHandler] = "pending" \/ processes[timeoutHandler] = "unspawned"

\* A process runs while its run is pending, and between the timeout and the kill; whoever listens to one that
\* could be spawned waits for the result.
ProcessesAreWatched ==
  /\ \A r \in Runs : processes[r] = "running" =>
       commandResults[r] = "pending" \/ (commandResults[r] = "timeout" /\ commandDisposal = "killing")
  /\ listening \subseteq Runs /\ killFails \subseteq Runs
  /\ \A r \in listening : commandResults[r] = "pending" \/ processes[r] = "unspawned"
  /\ \A r \in killFails : processes[r] = "unspawned"

CommandInv == CommandType /\ RunsFollow /\ ProcessesAreWatched

LEMMA CommandInit == Init => CommandInv
  BY CommandAssumption DEF Init, InitCommand, CommandInv, CommandType, RunsFollow, ProcessesAreWatched, Runs, ProcessStates

LEMMA LastIsRunning ==
  ASSUME CommandInv, NEW r \in Runs, processes[r] = "running"
  PROVE  LastRun = r
<1>1. \A s \in r + 1 .. CommandRuns : processes[s] = "none"
  <2> SUFFICES ASSUME NEW s \in r + 1 .. CommandRuns, processes[s] # "none"
               PROVE  FALSE
    OBVIOUS
  <2>1. s \in Runs /\ r < s
    BY CommandAssumption DEF Runs
  <2>2. commandResults[r] \in {"passed", "failed"}
    BY <2>1 DEF CommandInv, RunsFollow
  <2> QED BY <2>2 DEF CommandInv, ProcessesAreWatched
<1>2. ASSUME NEW q \in Runs, processes[q] # "none", \A s \in q + 1 .. CommandRuns : processes[s] = "none"
      PROVE  q = r
  BY <1>1, <1>2, CommandAssumption DEF Runs
<1> QED
  BY <1>1, <1>2 DEF LastRun, Runs

LEMMA CommandNext == CommandInv /\ [Next]_pluginsVars => CommandInv'
<1> SUFFICES ASSUME CommandInv, [Next]_pluginsVars
             PROVE  CommandInv'
  OBVIOUS
<1> USE CommandAssumption DEF CommandInv, CommandType, RunsFollow, ProcessesAreWatched, Runs, ProcessStates, Ended
<1>1. CommandStep \/ UNCHANGED commandVars
  BY DEF Next, pluginsVars
<1>2. ASSUME NEW r \in Runs, RunCommand(r)
      PROVE  CommandInv'
  <2>1. PICK p \in {"running", "unspawned"} : processes' = [processes EXCEPT ![r] = p]
    BY <1>2 DEF RunCommand
  <2>2. /\ commandResults' = [commandResults EXCEPT ![r] = "pending"]
        /\ listening' = listening \cup {r} /\ timeoutHandler' = r
        /\ killFails' = killFails /\ commandDisposal' = "none" /\ commandDisposal = "none"
        /\ commandResults[r] = "none" /\ processes[r] = "none"
        /\ \A s \in 1..r - 1 : commandResults[s] \in {"passed", "failed"}
    BY <1>2 DEF RunCommand
  <2>3. CommandType'
    BY <2>1, <2>2
  <2>4. RunsFollow'
    BY <2>1, <2>2
  <2>5. ProcessesAreWatched'
    BY <2>1, <2>2
  <2> QED BY <2>3, <2>4, <2>5
<1>3. ASSUME NEW r \in Runs, CommandEnds(r)
      PROVE  CommandInv'
  BY <1>3 DEF CommandEnds
<1>4. ASSUME NEW r \in Runs, OnExit(r)
      PROVE  CommandInv'
  <2>1. commandResults[r] = "pending" /\ timeoutHandler = r /\ commandDisposal = "none"
    BY <1>4 DEF OnExit
  <2>2. PICK result \in {"passed", "failed"} : HandleResolve(r, result)
    BY <1>4 DEF OnExit
  <2>3. commandResults' = [commandResults EXCEPT ![r] = result]
    BY <2>1, <2>2 DEF HandleResolve, Settled
  <2>4. /\ listening' = listening \ {r} /\ timeoutHandler' = 0 /\ processes' = processes
        /\ killFails' = killFails /\ commandDisposal' = commandDisposal /\ processes[r] \in Ended
    BY <1>4, <2>2 DEF OnExit, HandleResolve
  <2> QED BY <2>1, <2>3, <2>4
<1>5. ASSUME NEW r \in Runs, OnError(r)
      PROVE  CommandInv'
  BY <1>5 DEF OnError
<1>6. ASSUME NEW r \in Runs, ErrorRejects(r)
      PROVE  CommandInv'
  <2>1. \/ commandResults[r] = "pending" /\ commandResults' = [commandResults EXCEPT ![r] = "rejected"]
        \/ commandResults[r] # "pending" /\ commandResults' = commandResults
    BY <1>6 DEF ErrorRejects, Settled
  <2>2. /\ listening' = listening /\ timeoutHandler' = timeoutHandler /\ processes' = processes
        /\ killFails' = killFails \ {r} /\ commandDisposal' = commandDisposal /\ processes[r] = "unspawned"
    BY <1>6 DEF ErrorRejects
  <2> QED BY <2>1, <2>2
<1>7. CASE DisposeCommand
  <2>1. CASE timeoutHandler = 0
    <3>1. /\ commandDisposal = "none" /\ commandDisposal' = "resolved"
          /\ UNCHANGED <<processes, listening, commandResults, timeoutHandler, killFails>>
      BY <1>7, <2>1 DEF DisposeCommand
    <3>2. \A r \in Runs : commandResults[r] # "pending"
      BY <2>1
    <3>3. \A r \in Runs : processes[r] # "running"
      BY <3>1, <3>2
    <3> QED BY <2>1, <3>1, <3>2, <3>3
  <2>2. CASE timeoutHandler # 0
    <3> DEFINE h == timeoutHandler
    <3>1. /\ commandDisposal' = "killing" /\ commandDisposal = "none"
          /\ listening' = listening \ {h} /\ timeoutHandler' = 0
          /\ processes' = processes /\ killFails' = killFails /\ h \in Runs
      BY <1>7, <2>2 DEF DisposeCommand, HandleResolve
    <3>2. \/ commandResults[h] = "pending" /\ commandResults' = [commandResults EXCEPT ![h] = "timeout"]
          \/ commandResults[h] # "pending" /\ commandResults' = commandResults
      BY <1>7, <2>2, <3>1 DEF DisposeCommand, HandleResolve, Settled
    <3>3. \A r \in Runs : commandResults[r] = "pending" => r = h
      OBVIOUS
    <3> HIDE DEF h
    <3> QED BY <3>1, <3>2, <3>3
  <2> QED BY <2>1, <2>2
<1>8. CASE KillCommand
  <2>1. /\ commandDisposal = "killing" /\ commandDisposal' \in {"resolved", "rejected"}
        /\ listening' = listening /\ timeoutHandler' = timeoutHandler
        /\ commandResults' = commandResults /\ killFails' = killFails
    BY <1>8 DEF KillCommand
  <2>2. \A r \in Runs : processes[r] = "running" => LastRun = r
    BY LastIsRunning
  <2>3. \/ processes' = processes /\ \A r \in Runs : processes[r] # "running"
        \/ /\ LastRun \in Runs /\ processes[LastRun] = "running"
           /\ processes' = [processes EXCEPT ![LastRun] = "killed"]
    BY <1>8, <2>2 DEF KillCommand
  <2>4. CommandType' /\ RunsFollow'
    BY <2>1, <2>3
  <2>5. \A r \in Runs : processes'[r] # "running"
    BY <2>2, <2>3
  <2>6. \A r \in Runs : processes[r] = "unspawned" => processes'[r] = "unspawned"
    BY <2>3
  <2>7. ProcessesAreWatched'
    BY <2>1, <2>5, <2>6
  <2> QED BY <2>4, <2>7
<1>9. CASE UNCHANGED commandVars
  BY <1>9 DEF commandVars
<1> QED
  BY <1>1, <1>2, <1>3, <1>4, <1>5, <1>6, <1>7, <1>8, <1>9 DEF CommandStep

\* A dispose() that resolved left no process running and none that is listened to (CommandTestRunner.dispose).
THEOREM DisposeKillsCommand == Spec => []NoCommandLeft
<1>1. Spec => []CommandInv
  BY CommandInit, CommandNext, PTL DEF Spec
<1>2. CommandInv => NoCommandLeft
  BY DEF CommandInv, CommandType, RunsFollow, ProcessesAreWatched, NoCommandLeft, Runs
<1> QED
  BY <1>1, <1>2, PTL

-----------------------------------------------------------------------------
(* The transpilers *)

\* Only the file of the last mutant is mutated, and no mutant is as new as the next.
ToldInv ==
  /\ told \in [Sources -> Nat]
  /\ lastMutated \in [file : Sources \cup {NoFile}, calls : Nat]
  /\ \A f \in Sources : (told[f] = 0 \/ f = lastMutated.file) /\ told[f] <= lastMutated.calls

\* From the first call on a plugin has all files as the calls told them; before it, nothing.
HasAllFiles ==
  /\ DOMAIN kept = Sources
  /\ \A f \in Sources : kept[f].content = told[f] /\ kept[f].version \in Nat
KeptInv ==
  /\ lastCall = "none" => /\ kept = Nothing /\ built = Nothing /\ unpurged = Nothing
                          /\ told = Originals /\ lastMutated.file = NoFile
  /\ lastCall # "none" /\ tool # "babel" => HasAllFiles

\* The language service has compiled what is kept, after calls that failed too.
ServiceInv == lastCall # "none" /\ tool \notin {"babel", "webpack"} => built = kept

\* What webpack wrote and nobody collected is what it built last.
BundleInv ==
  tool = "webpack" =>
    /\ DOMAIN unpurged \subseteq DOMAIN built /\ DOMAIN built \subseteq Sources
    /\ \A f \in DOMAIN built : built[f].content \in Nat /\ built[f].content <= lastMutated.calls
    /\ \A f \in DOMAIN unpurged : unpurged[f] = built[f].content

TranspilerInv == ToldInv /\ KeptInv /\ ServiceInv /\ BundleInv /\ TranspiledIsCurrent

LEMMA TranspilerInit == Init => TranspilerInv
<1> SUFFICES ASSUME Init PROVE TranspilerInv
  OBVIOUS
<1>1. /\ told = Originals /\ kept = Nothing /\ built = Nothing /\ unpurged = Nothing
      /\ lastMutated = [file |-> NoFile, calls |-> 0] /\ lastCall = "none"
  BY DEF Init, InitTranspiler
<1>2. ToldInv
  BY <1>1 DEF ToldInv, Originals
<1>3. KeptInv /\ ServiceInv /\ TranspiledIsCurrent
  BY <1>1 DEF KeptInv, ServiceInv, TranspiledIsCurrent
<1>4. BundleInv
  BY <1>1 DEF BundleInv, Nothing
<1> QED
  BY <1>2, <1>3, <1>4 DEF TranspilerInv

\* The contents of a call: all files at first, and then what was changed, with a mutant newer than all before.
IsCall(contents) ==
  /\ contents = [f \in DOMAIN contents |-> contents[f]] /\ DOMAIN contents \subseteq Sources
  /\ \A f \in DOMAIN contents : contents[f] \in {0, lastMutated.calls + 1}
  /\ \A f \in Sources \ DOMAIN contents : told[f] = 0
  /\ lastCall = "none" => DOMAIN contents = Sources

\* What a call tells and what a plugin keeps of it.
LEMMA ToldByCall ==
  ASSUME TranspilerInv, NEW contents, IsCall(contents)
  PROVE  /\ With(told, contents) = [f \in Sources |-> IF f \in DOMAIN contents THEN contents[f] ELSE 0]
         /\ With(told, contents) = With(Originals, contents)
<1>1. DOMAIN told \cup DOMAIN contents = Sources /\ DOMAIN Originals \cup DOMAIN contents = Sources
  BY DEF TranspilerInv, ToldInv, IsCall, Originals
<1>2. \A f \in Sources \ DOMAIN contents : told[f] = 0 /\ Originals[f] = 0
  BY DEF IsCall, Originals
<1> QED
  BY <1>1, <1>2 DEF With

LEMMA KeptByCall ==
  ASSUME TranspilerInv, NEW contents, IsCall(contents), tool # "babel"
  PROVE  /\ DOMAIN Replace(contents) = Sources
         /\ Replace(contents) = [f \in Sources |-> Replace(contents)[f]]
         /\ \A f \in Sources : /\ Replace(contents)[f].content = With(told, contents)[f]
                              /\ Replace(contents)[f].version \in Nat
         /\ \A f \in Sources \ DOMAIN contents : f \in DOMAIN kept /\ Replace(contents)[f] = kept[f]
         /\ \A f \in DOMAIN contents \cap DOMAIN kept : Replace(contents)[f].version # kept[f].version
<1> DEFINE new == [f \in DOMAIN contents |->
                     [content |-> contents[f], version |-> IF f \in DOMAIN kept THEN kept[f].version + 1 ELSE 0]]
<1>1. \/ DOMAIN kept = {} /\ DOMAIN contents = Sources
      \/ HasAllFiles
  <2>1. CASE lastCall = "none"
    <3>1. DOMAIN kept = {}
      BY <2>1 DEF TranspilerInv, KeptInv, Nothing
    <3> QED BY <2>1, <3>1 DEF IsCall
  <2>2. CASE lastCall # "none"
    BY <2>2 DEF TranspilerInv, KeptInv
  <2> QED BY <2>1, <2>2
<1>2. DOMAIN contents \subseteq Sources
  BY DEF IsCall
<1>3. DOMAIN kept \cup DOMAIN contents = Sources
  BY <1>1, <1>2 DEF HasAllFiles
<1>4. Replace(contents) = [f \in Sources |-> IF f \in DOMAIN contents THEN new[f] ELSE kept[f]]
  BY <1>3 DEF Replace, With
<1>5. \A f \in DOMAIN contents :
        /\ new[f].content = contents[f] /\ new[f].version \in Nat
        /\ f \in DOMAIN kept => new[f].version # kept[f].version
  BY <1>1, <1>2 DEF HasAllFiles
<1>6. \A f \in Sources \ DOMAIN contents : /\ f \in DOMAIN kept /\ kept[f].version \in Nat
                                          /\ kept[f].content = 0
  BY <1>1 DEF HasAllFiles, IsCall
<1> HIDE DEF new
<1>7. \A f \in Sources : With(told, contents)[f] = IF f \in DOMAIN contents THEN contents[f] ELSE 0
  BY ToldByCall
<1> QED
  BY <1>2, <1>4, <1>5, <1>6, <1>7

\* The language service compiles what was changed, and only that.
LEMMA ServiceIsCurrent ==
  ASSUME TranspilerInv, NEW contents, IsCall(contents), tool \notin {"babel", "webpack"}
  PROVE  ServiceBuilds(Replace(contents)) = Replace(contents)
<1> DEFINE files == Replace(contents)
<1>1. /\ DOMAIN files = Sources /\ files = [f \in Sources |-> files[f]]
      /\ \A f \in Sources \ DOMAIN contents : f \in DOMAIN kept /\ files[f] = kept[f]
      /\ \A f \in DOMAIN contents \cap DOMAIN kept : files[f].version # kept[f].version
  BY KeptByCall
<1>2. built = kept
  BY DEF TranspilerInv, KeptInv, ServiceInv
<1> HIDE DEF files
<1>3. \A f \in Sources : (IF f \in DOMAIN built /\ built[f].version = files[f].version THEN built[f] ELSE files[f]) = files[f]
  BY <1>1, <1>2
<1>4. ServiceBuilds(files) = [f \in Sources |-> files[f]]
  BY <1>1, <1>3 DEF ServiceBuilds
<1> QED
  BY <1>1, <1>4 DEF files

LEMMA TypescriptIsCurrent ==
  ASSUME TranspilerInv, NEW contents, IsCall(contents), tool \notin {"babel", "webpack"}
  PROVE  With(Originals, TypescriptEmits(DOMAIN contents, Replace(contents))) = With(told, contents)
<1> DEFINE files == Replace(contents)
           emitted == IF tool = "typescriptOutFile" THEN DOMAIN files ELSE DOMAIN contents
<1>1. DOMAIN files = Sources /\ \A f \in Sources : files[f].content = With(told, contents)[f]
  BY KeptByCall
<1>2. With(told, contents) = [f \in Sources |-> IF f \in DOMAIN contents THEN contents[f] ELSE 0]
  BY ToldByCall
<1>3. DOMAIN contents \subseteq emitted /\ emitted \subseteq Sources /\ Sources \cup emitted = Sources
  BY <1>1 DEF IsCall
<1> HIDE DEF files
<1>4. TypescriptEmits(DOMAIN contents, files) = [f \in emitted |-> files[f].content]
  BY DEF TypescriptEmits
<1>5. Originals = [f \in Sources |-> 0]
  BY DEF Originals
<1> HIDE DEF emitted
<1>6. With(Originals, TypescriptEmits(DOMAIN contents, files)) =
        [f \in Sources |-> IF f \in emitted THEN files[f].content ELSE 0]
  BY <1>3, <1>4, <1>5 DEF With
<1> QED
  BY <1>1, <1>2, <1>3, <1>6 DEF files

\* A bundle that was not collected is collected now, unless its files are written again.
LEMMA WebpackIsCurrent ==
  ASSUME TranspilerInv, NEW contents, IsCall(contents), tool = "webpack"
  PROVE  /\ With(Originals, CollectFiles(Replace(contents))) = With(told, contents)
         /\ DOMAIN With(unpurged, WebpackWrites(Replace(contents))) \subseteq Sources
         /\ \A f \in DOMAIN With(unpurged, WebpackWrites(Replace(contents))) :
              With(unpurged, WebpackWrites(Replace(contents)))[f] = Replace(contents)[f].content
<1> DEFINE files == Replace(contents)
           changed == {f \in DOMAIN files : f \notin DOMAIN built \/ built[f].content # files[f].content}
           left == DOMAIN unpurged \cup changed
<1>1. DOMAIN files = Sources /\ \A f \in Sources : files[f].content = With(told, contents)[f]
  BY KeptByCall
<1>2. With(told, contents) = [f \in Sources |-> IF f \in DOMAIN contents THEN contents[f] ELSE 0]
  BY ToldByCall
<1>3. /\ DOMAIN unpurged \subseteq DOMAIN built /\ DOMAIN built \subseteq Sources
      /\ \A f \in DOMAIN built : built[f].content \in Nat /\ built[f].content <= lastMutated.calls
      /\ \A f \in DOMAIN unpurged : unpurged[f] = built[f].content
      /\ lastMutated.calls \in Nat
  BY DEF TranspilerInv, BundleInv, ToldInv
<1> HIDE DEF files
<1>4. WebpackWrites(files) = [f \in changed |-> files[f].content]
  BY DEF WebpackWrites
<1>5. changed \subseteq Sources /\ left \subseteq Sources
  BY <1>1, <1>3
<1>6. \A f \in DOMAIN unpurged \ changed : unpurged[f] = files[f].content
  BY <1>1, <1>3
<1>7. \A f \in Sources \ changed : files[f].content = 0
  <2> SUFFICES ASSUME NEW f \in Sources, f \notin changed, f \in DOMAIN contents, contents[f] # 0
               PROVE  FALSE
    BY <1>1, <1>2
  <2>1. files[f].content = lastMutated.calls + 1
    BY <1>1, <1>2 DEF IsCall
  <2>2. f \in DOMAIN built /\ built[f].content = files[f].content
    BY <1>1
  <2> QED BY <2>1, <2>2, <1>3
<1> HIDE DEF changed
<1>8. With(unpurged, WebpackWrites(files)) = [f \in left |-> files[f].content]
  BY <1>4, <1>6 DEF With
<1>9. Originals = [f \in Sources |-> 0] /\ Sources \cup left = Sources
  BY <1>5 DEF Originals
<1>10. \A f \in Sources \ left : files[f].content = 0
  BY <1>7
<1> HIDE DEF left
<1>11. With(Originals, CollectFiles(files)) = [f \in Sources |-> IF f \in left THEN files[f].content ELSE 0]
  BY <1>8, <1>9 DEF With, CollectFiles
<1>12. With(Originals, CollectFiles(files)) = [f \in Sources |-> files[f].content]
  BY <1>10, <1>11
<1> QED
  BY <1>1, <1>2, <1>5, <1>8, <1>12 DEF files

\* A call keeps the invariant, whether it succeeds or fails, and whatever it leaves behind.
LEMMA CallKeepsInv ==
  ASSUME TranspilerInv, NEW contents, IsCall(contents), TranspileFiles(contents), ToldInv',
         lastMutated'.calls \in Nat, lastMutated.calls <= lastMutated'.calls,
         \A f \in Sources : told'[f] <= lastMutated'.calls
  PROVE  TranspilerInv'
<1> DEFINE files == Replace(contents)
<1>1. told' = With(told, contents) /\ tool' = tool /\ (Succeeds(contents, files) \/ Fails(files))
  BY DEF TranspileFiles
<1>2. lastCall' \in {"resolved", "rejected"}
  BY <1>1 DEF Succeeds, Fails
<1>3. \A f \in Sources : told'[f] \in Nat
  BY DEF ToldInv
<1>4. ASSUME tool = "babel"
      PROVE  TranspilerInv'
  <2>1. KeptInv' /\ ServiceInv' /\ BundleInv'
    BY <1>1, <1>2, <1>4 DEF KeptInv, ServiceInv, BundleInv
  <2>2. TranspiledIsCurrent'
    <3>1. CASE Succeeds(contents, files)
      <4>1. sandboxed' = With(Originals, contents)
        BY <1>4, <3>1 DEF Succeeds, Sandboxed
      <4> QED BY <1>1, <4>1, ToldByCall DEF TranspiledIsCurrent
    <3>2. CASE Fails(files)
      BY <3>2 DEF Fails, TranspiledIsCurrent
    <3> QED BY <1>1, <3>1, <3>2
  <2> QED BY <2>1, <2>2 DEF TranspilerInv
<1>5. ASSUME tool # "babel", kept' = files
      PROVE  KeptInv'
  BY <1>1, <1>2, <1>5, KeptByCall DEF KeptInv, HasAllFiles
<1>6. ASSUME tool = "webpack"
      PROVE  TranspilerInv'
  <2> DEFINE written == With(unpurged, WebpackWrites(files))
  <2>1. kept' = files
    BY <1>1, <1>6 DEF Succeeds, Fails
  <2>2. \/ Succeeds(contents, files) /\ built' = files /\ unpurged' = Nothing
          /\ sandboxed' = With(Originals, CollectFiles(files))
        \/ Fails(files) /\ built' = files /\ unpurged' = written
        \/ Fails(files) /\ built' = built /\ unpurged' = unpurged
    BY <1>1, <1>6 DEF Succeeds, Fails, WebpackFails, Sandboxed
  <2>3. /\ With(Originals, CollectFiles(files)) = told'
        /\ DOMAIN written \subseteq Sources
        /\ \A f \in DOMAIN written : written[f] = files[f].content
        /\ DOMAIN files = Sources
        /\ \A f \in Sources : files[f].content = told'[f]
    BY <1>1, <1>6, WebpackIsCurrent, KeptByCall
  <2>4. /\ DOMAIN unpurged \subseteq DOMAIN built /\ DOMAIN built \subseteq Sources
        /\ \A f \in DOMAIN built : built[f].content \in Nat /\ built[f].content <= lastMutated.calls
        /\ \A f \in DOMAIN unpurged : unpurged[f] = built[f].content
        /\ lastMutated.calls \in Nat
    BY <1>6 DEF TranspilerInv, BundleInv, ToldInv
  <2> HIDE DEF written, files
  <2>5. BundleInv'
    <3>1. CASE built' = files /\ unpurged' = Nothing
      BY <3>1, <2>3, <1>3 DEF BundleInv, Nothing
    <3>2. CASE built' = files /\ unpurged' = written
      BY <3>2, <2>3, <1>3 DEF BundleInv
    <3>3. CASE built' = built /\ unpurged' = unpurged
      <4>1. \A f \in DOMAIN built : built[f].content <= lastMutated'.calls
        BY <2>4
      <4> QED BY <3>3, <4>1, <2>4 DEF BundleInv
    <3> QED BY <2>2, <3>1, <3>2, <3>3
  <2>6. TranspiledIsCurrent'
    BY <2>2, <2>3 DEF TranspiledIsCurrent, Fails
  <2>7. KeptInv'
    BY <1>5, <1>6, <2>1 DEF files
  <2>8. ServiceInv'
    BY <1>1, <1>6 DEF ServiceInv
  <2> QED BY <2>5, <2>6, <2>7, <2>8 DEF TranspilerInv
<1>7. ASSUME tool \notin {"babel", "webpack"}
      PROVE  TranspilerInv'
  <2>1. kept' = files /\ built' = ServiceBuilds(files)
    BY <1>1, <1>7 DEF Succeeds, Fails
  <2>2. ServiceBuilds(files) = files
    BY <1>7, ServiceIsCurrent
  <2>3. TranspiledIsCurrent'
    <3>1. CASE Succeeds(contents, files)
      <4>1. sandboxed' = With(Originals, TypescriptEmits(DOMAIN contents, ServiceBuilds(files)))
        BY <1>7, <3>1 DEF Succeeds, Sandboxed
      <4>2. sandboxed' = With(told, contents)
        BY <4>1, <2>2, <1>7, TypescriptIsCurrent
      <4> QED BY <1>1, <4>2 DEF TranspiledIsCurrent
    <3>2. CASE Fails(files)
      BY <3>2 DEF Fails, TranspiledIsCurrent
    <3> QED BY <1>1, <3>1, <3>2
  <2>4. KeptInv'
    BY <1>5, <1>7, <2>1
  <2>5. ServiceInv' /\ BundleInv'
    BY <1>1, <1>7, <2>1, <2>2 DEF ServiceInv, BundleInv
  <2> QED BY <2>3, <2>4, <2>5 DEF TranspilerInv
<1> QED
  BY <1>4, <1>6, <1>7

LEMMA TranspilerNext == TranspilerInv /\ [Next]_pluginsVars => TranspilerInv'
<1> SUFFICES ASSUME TranspilerInv, [Next]_pluginsVars
             PROVE  TranspilerInv'
  OBVIOUS
<1>1. TranspilerStep \/ UNCHANGED transpilerVars
  BY DEF Next, pluginsVars
<1>2. /\ told \in [Sources -> Nat] /\ lastMutated \in [file : Sources \cup {NoFile}, calls : Nat]
      /\ \A f \in Sources : (told[f] = 0 \/ f = lastMutated.file) /\ told[f] <= lastMutated.calls
  BY DEF TranspilerInv, ToldInv
<1>3. CASE TranspileOriginals
  <2>1. lastCall = "none" /\ TranspileFiles(Originals) /\ lastMutated' = lastMutated /\ told = Originals
    BY <1>3 DEF TranspileOriginals, TranspilerInv, KeptInv
  <2>2. IsCall(Originals)
    BY DEF IsCall, Originals
  <2>3. told' = [f \in Sources |-> 0]
    BY <2>1, <2>2, ToldByCall DEF TranspileFiles, Originals
  <2>4. ToldInv'
    BY <1>2, <2>1, <2>3 DEF ToldInv
  <2>5. \A f \in Sources : told'[f] <= lastMutated'.calls
    BY <2>4 DEF ToldInv
  <2> QED BY <1>2, <2>1, <2>2, <2>4, <2>5, CallKeepsInv
<1>4. CASE TranspileMutant
  <2>1. PICK f \in Sources : /\ TranspileFiles(NextFiles(f, lastMutated.calls + 1))
                             /\ lastMutated' = [file |-> f, calls |-> lastMutated.calls + 1]
    BY <1>4 DEF TranspileMutant
  <2> DEFINE contents == NextFiles(f, lastMutated.calls + 1)
             last == lastMutated.file
  <2>2. /\ contents = [g \in DOMAIN contents |-> IF g = f THEN lastMutated.calls + 1 ELSE 0]
        /\ DOMAIN contents = {f} \cup ({last} \ {NoFile})
    BY <1>2 DEF NextFiles
  <2>3. lastCall # "none"
    <3>1. CASE lastCall = "resolved"
      BY <3>1
    <3>2. CASE last # NoFile
      BY <1>4, <3>2 DEF TranspilerInv, KeptInv
    <3> QED BY <1>4, <3>1, <3>2 DEF TranspileMutant
  <2> HIDE DEF contents
  <2>4. IsCall(contents)
    BY <1>2, <2>2, <2>3, TranspilerAssumption DEF IsCall
  <2>5. told' = [g \in Sources |-> IF g \in DOMAIN contents THEN contents[g] ELSE 0]
    BY <2>1, <2>4, ToldByCall DEF TranspileFiles, contents
  <2>6. \A g \in Sources : told'[g] = IF g = f THEN lastMutated.calls + 1 ELSE 0
    BY <2>2, <2>5
  <2>7. lastMutated'.calls = lastMutated.calls + 1 /\ lastMutated'.file = f /\ lastMutated.calls \in Nat
    BY <1>2, <2>1
  <2>8. ToldInv'
    <3>1. lastMutated' \in [file : Sources \cup {NoFile}, calls : Nat]
      BY <2>1, <2>7
    <3>2. told' \in [Sources -> Nat]
      BY <2>5, <2>6, <2>7
    <3> QED BY <2>6, <2>7, <3>1, <3>2 DEF ToldInv
  <2>9. \A g \in Sources : told'[g] <= lastMutated'.calls
    BY <2>8 DEF ToldInv
  <2> QED BY <2>1, <2>4, <2>7, <2>8, <2>9, CallKeepsInv DEF contents
<1>5. CASE UNCHANGED transpilerVars
  BY <1>5 DEF transpilerVars, TranspilerInv, ToldInv, KeptInv, HasAllFiles, ServiceInv, BundleInv, TranspiledIsCurrent
<1> QED
  BY <1>1, <1>3, <1>4, <1>5 DEF TranspilerStep

\* What a transpiler keeps never gets into the output of a later mutant, also after calls that failed (TranspiledIsCurrent).
THEOREM OutputIsCurrent == Spec => []TranspiledIsCurrent
<1>1. Spec => []TranspilerInv
  BY TranspilerInit, TranspilerNext, PTL DEF Spec
<1>2. TranspilerInv => TranspiledIsCurrent
  BY DEF TranspilerInv
<1> QED
  BY <1>1, <1>2, PTL

-----------------------------------------------------------------------------
(* The test runner plugins *)

TestRecords == [test : PluginTests \cup {Hook}, status : {"passed", "failed", "skipped"}, run : Nat, code : Nat]
RunnerType ==
  /\ plugin \in {"karma", "mocha", "jest", "jasmine", "wct"} /\ watch = FALSE
  /\ pluginPhase \in {"new", "dead", "idle", "running", "done"}
  /\ pluginRun \in Nat /\ codeOf = pluginRun
  /\ pluginPhase \in {"running", "done"} => pluginRun \in 1..PluginRuns
  /\ collected \in [tests : SUBSET TestRecords, errors : SUBSET Nat, status : {"Complete", "Error", "Timeout"}]
  /\ DOMAIN pluginResults = 1..PluginRuns
  /\ pluginResults = [r \in 1..PluginRuns |-> pluginResults[r]]

\* What the code for Mocha saves of Mocha is the addTest() that lets all tests through.
FilterInv ==
  /\ filter = {t \in PluginTests : selected = {} \/ t \in selected} \ MissedByFilter
  /\ savedAddTest \in {{}, {PluginTests}}
  /\ plugin = "mocha" /\ savedAddTest = {} => filter = PluginTests

\* Nothing is known of a run that has not begun, but that Karma cannot compile for it.
FutureInv ==
  /\ failedIn \subseteq 0..pluginRun /\ outsideIn \subseteq 0..pluginRun
  /\ brokenIn \subseteq 0..pluginRun + 1
  /\ pluginRun + 1 \in brokenIn => plugin = "karma" /\ pluginPhase = "idle"

\* The runs of whose failures the plugin hears.
HeardIn == failedIn \cup (outsideIn \ Unheard)

\* What is collected is of this run, and tells of its failures.
CollectedInv ==
  pluginPhase \in {"running", "done"} =>
    /\ \A c \in collected.tests : c.run = pluginRun /\ c.code = pluginRun
    /\ collected.errors \subseteq {pluginRun}
    /\ pluginRun \in HeardIn <=> \E c \in collected.tests : c.status = "failed"

\* What goes wrong beside the tests is in the errors of Karma and in the status of Jest; the others throw it.
BrokenInv ==
  /\ plugin = "karma" /\ pluginPhase \in {"new", "idle"} =>
       /\ collected.tests = {} /\ collected.errors \subseteq {pluginRun + 1}
       /\ collected.status = "Error" \/ collected.status = "Complete"
       /\ collected.status = "Error" <=> collected.errors # {}
       /\ pluginRun + 1 \in brokenIn <=> collected.errors # {}
  /\ pluginPhase = "running" =>
       /\ plugin = "karma" => (pluginRun \in brokenIn <=> collected.errors # {})
       /\ plugin = "jest" => /\ collected.status \in {"Complete", "Error"}
                             /\ pluginRun \in brokenIn <=> collected.status = "Error"
       /\ plugin \notin {"karma", "jest"} => pluginRun \notin brokenIn
  /\ pluginPhase = "done" =>
       /\ plugin = "karma"
       /\ pluginRun \in brokenIn <=> collected.errors # {} \/ collected.status = "Timeout"
       /\ collected.status = "Error" /\ collected.errors = {} => collected.tests = {}

\* A result that is right for its run, which is over.
IsRight(r, result) ==
  /\ \A c \in result.tests : c.run = r /\ c.code = r
  /\ result.errors \subseteq {r}
  /\ StateOf(result) = "Survived" => r \notin HeardIn \cup brokenIn
  /\ StateOf(result) = "Killed" => r \in HeardIn
  /\ StateOf(result) = "RuntimeError" => r \in brokenIn
ResultsInv ==
  \A r \in 1..PluginRuns : Resolved(r) =>
    /\ r <= pluginRun /\ (r = pluginRun => pluginPhase \notin {"running", "done"})
    /\ IsRight(r, pluginResults[r])

RunnerInv == RunnerType /\ FilterInv /\ FutureInv /\ CollectedInv /\ BrokenInv /\ ResultsInv

LEMMA RunnerInit == Init => RunnerInv
<1> SUFFICES ASSUME Init PROVE RunnerInv
  OBVIOUS
<1>1. /\ plugin \in RunnerPlugins /\ watch = FALSE /\ pluginPhase = "new" /\ pluginRun = 0 /\ codeOf = 0
      /\ selected = {} /\ filter = PluginTests /\ savedAddTest = {}
      /\ collected = NoResults /\ pluginResults = [r \in 1..PluginRuns |-> Unresolved]
      /\ failedIn = {} /\ outsideIn = {} /\ brokenIn = {}
  BY DEF Init, InitPlugins
<1>2. RunnerType
  BY <1>1, RunnerAssumption DEF RunnerType, NoResults
<1>3. FilterInv
  BY <1>1 DEF FilterInv, MissedByFilter
<1>4. FutureInv /\ CollectedInv /\ BrokenInv
  BY <1>1 DEF FutureInv, CollectedInv, HeardIn, BrokenInv, NoResults
<1>5. ResultsInv
  BY <1>1 DEF ResultsInv, Resolved
<1> QED
  BY <1>2, <1>3, <1>4, <1>5 DEF RunnerInv

LEMMA NeverWatches ==
  ASSUME NEW name, NEW user
  PROVE  Watches(name, user) = FALSE
<1>1. PICK stryker : stryker = FALSE
  OBVIOUS
<1>2. \A a, b : /\ <<a, b, stryker>>[Len(<<a, b, stryker>>)] = stryker
               /\ <<a, stryker>>[Len(<<a, stryker>>)] = stryker
               /\ <<stryker>>[Len(<<stryker>>)] = stryker
  OBVIOUS
<1>3. WatchSettings(name, user) \in {<<TRUE, user, stryker>>, <<user, stryker>>, <<stryker>>}
  BY <1>1 DEF WatchSettings
<1>4. Watches(name, user) = WatchSettings(name, user)[Len(WatchSettings(name, user))]
  BY DEF Watches
<1> QED
  BY <1>1, <1>2, <1>3, <1>4

\* Each plugin sees as a failure what its framework means by one.
LEMMA FailuresAreSeen ==
  ASSUME RunnerType, NEW report \in Reports
  PROVE  /\ TestStatus(report) \in {"passed", "failed", "skipped"}
         /\ TestStatus(report) = "failed" <=> IsFailure(report)
<1>1. CASE plugin = "karma"
  BY <1>1 DEF Reports, TestStatus, IsFailure, KarmaStatus
<1>2. CASE plugin = "mocha"
  BY <1>2 DEF Reports, TestStatus, IsFailure, MochaStatus
<1>3. CASE plugin = "jest"
  BY <1>3 DEF Reports, TestStatus, IsFailure, JestStatus
<1>4. CASE plugin = "jasmine"
  <2>1. \/ report.status \in {"pending", "excluded"}
        \/ report.status = "passed" /\ report.failedExpectations = FALSE
        \/ report.status = "failed" /\ report.failedExpectations = TRUE
    BY <1>4 DEF Reports
  <2>2. TestStatus(report) = JasmineStatus(report) /\ (IsFailure(report) <=> report.status = "failed")
    BY <1>4 DEF TestStatus, IsFailure
  <2> QED BY <2>1, <2>2 DEF JasmineStatus
<1>5. CASE plugin = "wct"
  BY <1>5 DEF Reports, TestStatus, IsFailure, WctStatus
<1> QED
  BY <1>1, <1>2, <1>3, <1>4, <1>5 DEF RunnerType

\* Results stay right when something happens in a run that has no result.
LEMMA ResultsStayRight ==
  ASSUME RunnerInv, pluginResults' = pluginResults, pluginRun' = pluginRun,
         pluginPhase \in {"idle", "running"}, pluginPhase = "idle" => failedIn' = failedIn,
         pluginPhase' \in {pluginPhase, "done", "dead"}, pluginPhase = "idle" => pluginPhase' = "idle",
         failedIn' \subseteq failedIn \cup {pluginRun}, failedIn \subseteq failedIn',
         plugin' = plugin, pluginPhase = "idle" => outsideIn' = outsideIn,
         outsideIn' \subseteq outsideIn \cup {pluginRun}, outsideIn \subseteq outsideIn',
         brokenIn \subseteq brokenIn', brokenIn' \subseteq brokenIn \cup {Coming}
  PROVE  ResultsInv'
<1> SUFFICES ASSUME NEW r \in 1..PluginRuns, Resolved(r)
             PROVE  /\ r <= pluginRun' /\ (r = pluginRun' => pluginPhase' \notin {"running", "done"})
                    /\ IsRight(r, pluginResults[r])'
  BY DEF ResultsInv, Resolved
<1>1. /\ r <= pluginRun /\ (r = pluginRun => pluginPhase \notin {"running", "done"})
      /\ IsRight(r, pluginResults[r])
  BY DEF RunnerInv, ResultsInv
<1>2. pluginRun \in Nat /\ r \in Nat
  BY DEF RunnerInv, RunnerType
<1>3. r \in HeardIn' <=> r \in HeardIn
  BY <1>1 DEF HeardIn, Unheard
<1>4. r \in brokenIn' <=> r \in brokenIn
  BY <1>1, <1>2 DEF Coming
<1>5. StateOf(pluginResults[r])' = StateOf(pluginResults[r])
  BY DEF StateOf
<1> QED
  BY <1>1, <1>3, <1>4, <1>5 DEF IsRight

\* A run ends with a result that is right for it.
LEMMA ResultIsRight ==
  ASSUME RunnerInv, pluginPhase \in {"running", "done"}, NEW result, ResolveRun(result),
         brokenIn' = brokenIn \/ brokenIn' = brokenIn \cup {pluginRun}, IsRight(pluginRun, result)'
  PROVE  ResultsInv'
<1> SUFFICES ASSUME NEW r \in 1..PluginRuns, Resolved(r)'
             PROVE  /\ r <= pluginRun' /\ (r = pluginRun' => pluginPhase' \notin {"running", "done"})
                    /\ IsRight(r, pluginResults[r])'
  BY DEF ResultsInv
<1>1. /\ pluginResults' = [pluginResults EXCEPT ![pluginRun] = result] /\ pluginPhase' = "idle"
      /\ pluginRun' = pluginRun /\ HeardIn' = HeardIn /\ pluginRun \in 1..PluginRuns
      /\ DOMAIN pluginResults = 1..PluginRuns
  BY DEF ResolveRun, RunnerInv, RunnerType, HeardIn, Unheard
<1>2. CASE r = pluginRun
  <2>1. pluginResults'[r] = result
    BY <1>1, <1>2
  <2>2. IsRight(r, pluginResults[r])'
    BY <1>1, <1>2, <2>1 DEF IsRight, StateOf
  <2> QED BY <1>1, <1>2, <2>2, RunnerAssumption
<1>3. CASE r # pluginRun
  <2>1. pluginResults'[r] = pluginResults[r]
    BY <1>1, <1>3
  <2>2. Resolved(r)
    BY <2>1 DEF Resolved
  <2>3. r <= pluginRun /\ IsRight(r, pluginResults[r])
    BY <2>2 DEF RunnerInv, ResultsInv
  <2>4. r \in HeardIn' <=> r \in HeardIn
    BY <1>1
  <2>5. r \in brokenIn' <=> r \in brokenIn
    BY <1>3
  <2>6. StateOf(pluginResults[r])' = StateOf(pluginResults[r])
    BY <2>1 DEF StateOf
  <2>7. IsRight(r, pluginResults[r])'
    BY <2>1, <2>3, <2>4, <2>5, <2>6 DEF IsRight
  <2> QED BY <1>1, <1>3, <2>3, <2>7
<1> QED
  BY <1>2, <1>3

LEMMA RunnerNext == RunnerInv /\ [Next]_pluginsVars => RunnerInv'
<1> SUFFICES ASSUME RunnerInv, [Next]_pluginsVars
             PROVE  RunnerInv'
  OBVIOUS
<1> USE DEF Running, Coming
<1>1. PluginStep \/ UNCHANGED pluginVars
  BY DEF Next, pluginsVars
<1>2. /\ RunnerType /\ FilterInv /\ FutureInv /\ CollectedInv /\ BrokenInv /\ ResultsInv
      /\ pluginRun \in Nat /\ PluginRuns \in Nat
  BY RunnerAssumption DEF RunnerInv, RunnerType
<1>3. CASE InitPlugin
  <2>1. watch' = FALSE
    BY <1>3, NeverWatches DEF InitPlugin
  <2>2. /\ pluginPhase = "new" /\ pluginPhase' \in {"idle", "dead"}
        /\ UNCHANGED <<plugin, pluginRun, selected, filter, savedAddTest, codeOf, collected, pluginResults, failedIn, outsideIn, brokenIn>>
    BY <1>3 DEF InitPlugin, filters, history
  <2>3. RunnerType' /\ FilterInv'
    BY <1>2, <2>1, <2>2 DEF RunnerType, FilterInv, MissedByFilter
  <2>4. FutureInv' /\ CollectedInv' /\ BrokenInv'
    BY <1>2, <2>2 DEF FutureInv, CollectedInv, HeardIn, Unheard, BrokenInv
  <2>5. ResultsInv'
    BY <1>2, <2>2 DEF ResultsInv, Resolved, IsRight, HeardIn, Unheard, StateOf
  <2> QED BY <2>3, <2>4, <2>5 DEF RunnerInv
<1>4. CASE BeginPluginRun
  <2>1. /\ pluginPhase = "idle" /\ pluginRun < PluginRuns
        /\ selected' \in Selections /\ filter' = FilterHooks(selected')
        /\ savedAddTest' = IF plugin = "mocha" /\ selected' # {} THEN {RealAddTest} ELSE savedAddTest
        /\ pluginRun' = pluginRun + 1 /\ codeOf' = pluginRun + 1 /\ collected' = NewResults
        /\ pluginPhase' = IF plugin = "karma" /\ collected.status = "Error" THEN "done" ELSE "running"
        /\ UNCHANGED <<plugin, watch, pluginResults, failedIn, outsideIn, brokenIn>>
    BY <1>4 DEF BeginPluginRun, PurgeFiles, history
  <2>2. /\ collected' \in [tests : SUBSET TestRecords, errors : SUBSET Nat, status : {"Complete", "Error", "Timeout"}]
        /\ collected'.tests = {}
        /\ plugin = "karma" => collected' = collected
        /\ plugin # "karma" => collected'.errors = {}
        /\ plugin = "jest" => collected'.status = "Complete"
    <3>1. CASE plugin = "karma"
      BY <1>2, <2>1, <3>1 DEF NewResults, RunnerType, BrokenInv
    <3>2. CASE plugin # "karma"
      BY <1>2, <2>1, <3>2 DEF NewResults, NoResults, RunnerType
    <3> QED BY <3>1, <3>2
  <2>3. RunnerType'
    BY <1>2, <2>1, <2>2 DEF RunnerType
  <2>4. FilterInv'
    <3>1. savedAddTest \in {{}, {PluginTests}} /\ (plugin = "mocha" => RealAddTest = PluginTests)
      BY <1>2 DEF FilterInv, RealAddTest
    <3> QED BY <1>2, <2>1, <3>1
            DEF FilterInv, RunnerType, Selections, FilterHooks, MochaFilter, JasmineFilter, MissedByFilter
  <2>5. /\ pluginRun + 1 \notin failedIn /\ pluginRun + 2 \notin failedIn /\ pluginRun + 2 \notin brokenIn
        /\ pluginRun + 1 \notin outsideIn /\ pluginRun + 2 \notin outsideIn
    BY <1>2 DEF FutureInv
  <2>6. FutureInv'
    BY <1>2, <2>1, <2>5 DEF FutureInv
  <2>7. CollectedInv'
    <3>1. collected'.errors \subseteq {pluginRun + 1}
      BY <1>2, <2>1, <2>2 DEF BrokenInv
    <3>2. pluginRun' \notin HeardIn'
      BY <2>1, <2>5 DEF HeardIn, Unheard
    <3> QED BY <2>1, <2>2, <3>1, <3>2 DEF CollectedInv
  <2>8. BrokenInv'
    <3>1. CASE plugin = "karma"
      BY <1>2, <2>1, <2>2, <3>1 DEF BrokenInv
    <3>2. CASE plugin # "karma"
      <4>1. pluginRun + 1 \notin brokenIn
        BY <1>2, <3>2 DEF FutureInv
      <4> QED BY <2>1, <2>2, <3>2, <4>1 DEF BrokenInv
    <3> QED BY <3>1, <3>2
  <2>9. ResultsInv'
    BY <1>2, <2>1 DEF ResultsInv, Resolved, IsRight, HeardIn, Unheard, StateOf
  <2> QED BY <2>3, <2>4, <2>6, <2>7, <2>8, <2>9 DEF RunnerInv
<1>5. ASSUME NEW record \in TestRecords, pluginPhase = "running", record.run = pluginRun, record.code = pluginRun,
             collected'.tests = collected.tests \cup {record}, collected'.status = collected.status,
             collected' \in [tests : SUBSET TestRecords, errors : SUBSET Nat, status : {"Complete", "Error", "Timeout"}],
             collected'.errors = collected.errors \/ (plugin = "mocha" /\ collected'.errors = collected.errors \cup {pluginRun}),
             \/ record.status = "failed" /\ HeardIn' = HeardIn \cup {pluginRun}
             \/ record.status # "failed" /\ HeardIn' = HeardIn,
             failedIn' \in {failedIn, failedIn \cup {pluginRun}}, outsideIn' \in {outsideIn, outsideIn \cup {pluginRun}},
             UNCHANGED <<plugin, watch, pluginPhase, pluginRun, selected, filter, savedAddTest, codeOf, pluginResults, brokenIn>>
      PROVE  RunnerInv'
  <2>1. RunnerType' /\ FilterInv'
    BY <1>2, <1>5 DEF RunnerType, FilterInv, MissedByFilter
  <2>2. FutureInv'
    <3>1. pluginRun \in 0..pluginRun
      BY <1>2
    <3>2. failedIn' \subseteq 0..pluginRun /\ outsideIn' \subseteq 0..pluginRun
      BY <1>2, <1>5, <3>1 DEF FutureInv
    <3> QED BY <1>2, <1>5, <3>2 DEF FutureInv
  <2>3. CollectedInv'
    BY <1>2, <1>5 DEF CollectedInv
  <2>4. BrokenInv'
    BY <1>2, <1>5 DEF BrokenInv
  <2>5. ResultsInv'
    BY <1>5, ResultsStayRight
  <2> QED BY <2>1, <2>2, <2>3, <2>4, <2>5 DEF RunnerInv
<1>14. ASSUME NEW t \in PluginTests, NEW report \in Reports, TestEnds(t, report)
       PROVE  RunnerInv'
  <2> DEFINE record == [test |-> t, status |-> TestStatus(report), run |-> pluginRun, code |-> codeOf]
             errors == IF plugin = "mocha" /\ IsFailure(report) THEN collected.errors \cup {pluginRun} ELSE collected.errors
  <2>1. pluginPhase = "running"
    BY <1>2, <1>14 DEF TestEnds, RunnerType
  <2>2. /\ collected' = [collected EXCEPT !.tests = collected.tests \cup {record}, !.errors = errors]
        /\ failedIn' = IF IsFailure(report) THEN failedIn \cup {pluginRun} ELSE failedIn
        /\ UNCHANGED <<plugin, watch, pluginPhase, pluginRun, selected, filter, savedAddTest, codeOf, pluginResults,
                        outsideIn, brokenIn>>
    BY <1>14 DEF TestEnds, filters
  <2>3. record \in TestRecords /\ (record.status = "failed" <=> IsFailure(report))
        /\ record.run = pluginRun /\ record.code = pluginRun
    BY <1>2, FailuresAreSeen DEF TestRecords, RunnerType
  <2>4. errors \in SUBSET Nat
    BY <1>2 DEF RunnerType
  <2>5. errors = collected.errors \/ (plugin = "mocha" /\ errors = collected.errors \cup {pluginRun})
    OBVIOUS
  <2>6. HeardIn' = IF IsFailure(report) THEN HeardIn \cup {pluginRun} ELSE HeardIn
    BY <2>2 DEF HeardIn, Unheard
  <2> HIDE DEF record, errors
  <2>7. /\ collected'.tests = collected.tests \cup {record} /\ collected'.errors = errors
        /\ collected'.status = collected.status
        /\ collected' \in [tests : SUBSET TestRecords, errors : SUBSET Nat, status : {"Complete", "Error", "Timeout"}]
    BY <1>2, <2>2, <2>3, <2>4 DEF RunnerType
  <2> QED BY <1>5, <2>1, <2>2, <2>3, <2>5, <2>6, <2>7
<1>15. CASE FailsOutsideTests
  <2> DEFINE record == [test |-> Hook, status |-> "failed", run |-> pluginRun, code |-> codeOf]
  <2>1. /\ plugin \in {"mocha", "jasmine"} /\ pluginPhase = "running" /\ outsideIn' = outsideIn \cup {pluginRun}
        /\ UNCHANGED <<plugin, watch, pluginPhase, pluginRun, selected, filter, savedAddTest, codeOf, pluginResults,
                        failedIn, brokenIn>>
        /\ plugin = "jasmine" => collected' = collected
        /\ plugin = "mocha" => collected' = [collected EXCEPT !.tests = collected.tests \cup {record},
                                                              !.errors = collected.errors \cup {pluginRun}]
    BY <1>15 DEF FailsOutsideTests, filters
  <2>2. record \in TestRecords /\ record.status = "failed" /\ record.run = pluginRun /\ record.code = pluginRun
    BY <1>2 DEF TestRecords, RunnerType
  <2> HIDE DEF record
  <2>3. CASE plugin = "mocha"
    <3>1. HeardIn' = HeardIn \cup {pluginRun}
      BY <2>1, <2>3 DEF HeardIn, Unheard
    <3>2. /\ collected \in [tests : SUBSET TestRecords, errors : SUBSET Nat, status : {"Complete", "Error", "Timeout"}]
          /\ collected.errors \cup {pluginRun} \in SUBSET Nat /\ collected.tests \cup {record} \in SUBSET TestRecords
      BY <1>2, <2>2 DEF RunnerType
    <3>3. /\ collected'.tests = collected.tests \cup {record} /\ collected'.errors = collected.errors \cup {pluginRun}
          /\ collected'.status = collected.status
          /\ collected' \in [tests : SUBSET TestRecords, errors : SUBSET Nat, status : {"Complete", "Error", "Timeout"}]
      BY <2>1, <2>3, <3>2
    <3> QED BY <1>5, <2>1, <2>2, <2>3, <3>1, <3>3
  <2>4. CASE plugin = "jasmine"
    <3>1. HeardIn' = HeardIn
      BY <2>1, <2>4 DEF HeardIn, Unheard
    <3>2. RunnerType' /\ FilterInv'
      BY <1>2, <2>1, <2>4 DEF RunnerType, FilterInv, MissedByFilter
    <3>3. FutureInv' /\ CollectedInv' /\ BrokenInv'
      BY <1>2, <2>1, <2>4, <3>1 DEF FutureInv, CollectedInv, BrokenInv
    <3>4. ResultsInv'
      BY <2>1, ResultsStayRight
    <3> QED BY <3>2, <3>3, <3>4 DEF RunnerInv
  <2> QED BY <2>1, <2>3, <2>4
<1>6. CASE BrowserError \/ CompileError \/ SuiteCannotRun
  <2>1. /\ pluginPhase \in {"idle", "running"} /\ (pluginPhase = "idle" => plugin = "karma" /\ CompileError)
        /\ brokenIn' = brokenIn \cup {Coming}
        /\ UNCHANGED <<plugin, watch, pluginPhase, pluginRun, selected, filter, savedAddTest, codeOf, pluginResults, failedIn, outsideIn>>
    BY <1>6 DEF BrowserError, CompileError, SuiteCannotRun, filters
  <2>2. \/ /\ plugin = "karma" /\ collected'.errors = collected.errors \cup {Coming}
           /\ \/ collected'.status = collected.status /\ pluginPhase = "running"
              \/ collected'.status = "Error"
        \/ plugin = "jest" /\ collected'.errors = collected.errors /\ collected'.status = "Error"
    BY <1>2, <1>6 DEF BrowserError, CompileError, SuiteCannotRun, RunnerType
  <2>3. /\ collected'.tests = collected.tests
        /\ collected' \in [tests : SUBSET TestRecords, errors : SUBSET Nat, status : {"Complete", "Error", "Timeout"}]
    <3>1. Coming \in Nat
      BY <1>2
    <3>2. /\ collected \in [tests : SUBSET TestRecords, errors : SUBSET Nat, status : {"Complete", "Error", "Timeout"}]
          /\ collected.errors \cup {Coming} \in SUBSET Nat
      BY <1>2, <3>1 DEF RunnerType
    <3>3. \/ collected' = [collected EXCEPT !.errors = collected.errors \cup {Coming}]
          \/ collected' = [collected EXCEPT !.errors = collected.errors \cup {Coming}, !.status = "Error"]
          \/ collected' = [collected EXCEPT !.status = "Error"]
      BY <1>6 DEF BrowserError, CompileError, SuiteCannotRun
    <3> QED BY <3>2, <3>3
  <2>4. RunnerType' /\ FilterInv'
    BY <1>2, <2>1, <2>3 DEF RunnerType, FilterInv, MissedByFilter
  <2>5. FutureInv'
    BY <1>2, <2>1 DEF FutureInv
  <2>6. CollectedInv'
    BY <1>2, <2>1, <2>2, <2>3 DEF CollectedInv, HeardIn, Unheard
  <2>7. BrokenInv'
    BY <1>2, <2>1, <2>2, <2>3 DEF BrokenInv
  <2>8. ResultsInv'
    BY <2>1, ResultsStayRight
  <2> QED BY <2>4, <2>5, <2>6, <2>7, <2>8 DEF RunnerInv
<1>7. CASE RunComplete
  <2>1. PICK status \in {"Complete", "Error", "Timeout"} :
          /\ collected' = [collected EXCEPT !.status = status]
          /\ status = "Error" => collected.tests = {} \/ collected.errors # {}
          /\ brokenIn' = IF status = "Timeout" THEN brokenIn \cup {pluginRun} ELSE brokenIn
    BY <1>7 DEF RunComplete
  <2>2. /\ plugin = "karma" /\ pluginPhase = "running" /\ pluginPhase' = "done"
        /\ UNCHANGED <<plugin, watch, pluginRun, selected, filter, savedAddTest, codeOf, pluginResults, failedIn, outsideIn>>
    BY <1>7 DEF RunComplete, filters
  <2>3. /\ collected'.tests = collected.tests /\ collected'.errors = collected.errors /\ collected'.status = status
        /\ collected' \in [tests : SUBSET TestRecords, errors : SUBSET Nat, status : {"Complete", "Error", "Timeout"}]
    BY <1>2, <2>1 DEF RunnerType
  <2>4. RunnerType' /\ FilterInv'
    BY <1>2, <2>2, <2>3 DEF RunnerType, FilterInv, MissedByFilter
  <2>5. FutureInv' /\ CollectedInv'
    BY <1>2, <2>1, <2>2, <2>3 DEF FutureInv, CollectedInv, HeardIn, Unheard
  <2>6. BrokenInv'
    BY <1>2, <2>1, <2>2, <2>3 DEF BrokenInv
  <2>7. ResultsInv'
    BY <2>1, <2>2, ResultsStayRight
  <2> QED BY <2>4, <2>5, <2>6, <2>7 DEF RunnerInv
<1>8. ASSUME NEW result, pluginPhase \in {"running", "done"}, ResolveRun(result),
             IsRight(pluginRun, result)', brokenIn' = brokenIn \/ brokenIn' = brokenIn \cup {pluginRun},
             collected' = IF plugin = "karma" THEN NoResults ELSE collected
      PROVE  RunnerInv'
  <2>1. /\ pluginResults' = [pluginResults EXCEPT ![pluginRun] = result] /\ pluginPhase' = "idle"
        /\ UNCHANGED <<plugin, watch, pluginRun, selected, filter, savedAddTest, codeOf, failedIn, outsideIn>>
    BY <1>8 DEF ResolveRun, filters
  <2>2. collected' \in [tests : SUBSET TestRecords, errors : SUBSET Nat, status : {"Complete", "Error", "Timeout"}]
    BY <1>2, <1>8 DEF RunnerType, NoResults
  <2>3. DOMAIN pluginResults' = 1..PluginRuns /\ pluginResults' = [r \in 1..PluginRuns |-> pluginResults'[r]]
    BY <1>2, <2>1 DEF RunnerType
  <2>4. RunnerType' /\ FilterInv'
    BY <1>2, <2>1, <2>2, <2>3 DEF RunnerType, FilterInv, MissedByFilter
  <2>5. pluginRun + 1 \notin brokenIn'
    BY <1>2, <1>8 DEF FutureInv
  <2>6. FutureInv' /\ CollectedInv'
    BY <1>2, <1>8, <2>1, <2>5 DEF FutureInv, CollectedInv, HeardIn, Unheard
  <2>7. BrokenInv'
    BY <1>8, <2>1, <2>5 DEF BrokenInv, NoResults
  <2>8. ResultsInv'
    BY <1>8, ResultIsRight
  <2> QED BY <2>4, <2>6, <2>7, <2>8 DEF RunnerInv
<1>9. CASE CollectRunResult
  <2>0. PICK result : result = [collected EXCEPT !.status = DetermineRunState]
    OBVIOUS
  <2>1. /\ pluginPhase = "done" /\ plugin = "karma" /\ ResolveRun(result) /\ brokenIn' = brokenIn
        /\ collected' = NoResults /\ HeardIn' = HeardIn /\ pluginRun' = pluginRun
    BY <1>2, <1>9, <2>0 DEF CollectRunResult, CleanRun, BrokenInv, ResolveRun, HeardIn, Unheard
  <2>2. /\ result.tests = collected.tests /\ result.errors = collected.errors
        /\ result.status = DetermineRunState
    BY <1>2, <2>0 DEF RunnerType
  <2>3. \/ DetermineRunState = "Complete" /\ collected.errors = {} /\ collected.status = "Complete"
        \/ DetermineRunState = "Complete" /\ collected.errors = {} /\ collected.tests = {} /\ collected.status = "Error"
        \/ DetermineRunState = "Error" /\ collected.errors # {}
        \/ DetermineRunState = "Timeout"
    BY <1>2, <2>1 DEF DetermineRunState, RunnerType, BrokenInv
  <2>4. /\ pluginRun \in brokenIn <=> collected.errors # {} \/ collected.status = "Timeout"
        /\ pluginRun \in HeardIn <=> \E c \in collected.tests : c.status = "failed"
        /\ collected.errors \subseteq {pluginRun}
        /\ \A c \in collected.tests : c.run = pluginRun /\ c.code = pluginRun
    BY <1>2, <2>1 DEF BrokenInv, CollectedInv
  <2>5. IsRight(pluginRun, result)'
    BY <2>1, <2>2, <2>3, <2>4 DEF IsRight, StateOf
  <2> QED BY <1>8, <2>1, <2>5
<1>10. CASE FrameworkDone
  <2>0. PICK status, result : /\ status = IF plugin = "jest" THEN collected.status ELSE "Complete"
                             /\ result = [collected EXCEPT !.status = status]
    OBVIOUS
  <2>1. /\ pluginPhase = "running" /\ plugin # "karma" /\ ResolveRun(result) /\ brokenIn' = brokenIn
        /\ collected' = collected /\ HeardIn' = HeardIn /\ pluginRun' = pluginRun
    BY <1>2, <1>10, <2>0 DEF FrameworkDone, ResolveRun, HeardIn, Unheard
  <2>2. /\ result.tests = collected.tests /\ result.errors = collected.errors /\ result.status = status
        /\ pluginRun \in brokenIn <=> status = "Error"
        /\ status \in {"Complete", "Error"}
    BY <1>2, <2>0, <2>1 DEF RunnerType, BrokenInv
  <2>3. /\ pluginRun \in HeardIn <=> \E c \in collected.tests : c.status = "failed"
        /\ collected.errors \subseteq {pluginRun}
        /\ \A c \in collected.tests : c.run = pluginRun /\ c.code = pluginRun
    BY <1>2, <2>1 DEF CollectedInv
  <2>4. IsRight(pluginRun, result)'
    BY <2>1, <2>2, <2>3 DEF IsRight, StateOf
  <2> QED BY <1>8, <2>1, <2>4
<1>11. CASE FrameworkThrows
  <2>0. PICK result : result = ErrorResult(pluginRun)
    OBVIOUS
  <2>1. /\ pluginPhase = "running" /\ plugin # "karma" /\ ResolveRun(result)
        /\ brokenIn' = brokenIn \cup {pluginRun} /\ collected' = collected /\ pluginRun' = pluginRun
    BY <1>11, <2>0 DEF FrameworkThrows, ResolveRun
  <2>2. IsRight(pluginRun, result)'
    BY <2>0, <2>1 DEF IsRight, StateOf, ErrorResult
  <2> QED BY <1>8, <2>1, <2>2
<1>12. CASE PluginRunRejects
  <2>1. /\ pluginPhase = "running" /\ pluginPhase' = "dead"
        /\ UNCHANGED <<plugin, watch, pluginRun, selected, filter, savedAddTest, codeOf, collected, pluginResults, failedIn, outsideIn, brokenIn>>
    BY <1>12 DEF PluginRunRejects, filters, history
  <2>2. RunnerType' /\ FilterInv'
    BY <1>2, <2>1 DEF RunnerType, FilterInv, MissedByFilter
  <2>3. FutureInv' /\ CollectedInv' /\ BrokenInv'
    BY <1>2, <2>1 DEF FutureInv, CollectedInv, HeardIn, Unheard, BrokenInv
  <2>4. ResultsInv'
    BY <2>1, ResultsStayRight
  <2> QED BY <2>2, <2>3, <2>4 DEF RunnerInv
<1>13. CASE UNCHANGED pluginVars
  <2>1. RunnerType' /\ FilterInv'
    BY <1>2, <1>13 DEF pluginVars, RunnerType, FilterInv, MissedByFilter
  <2>2. FutureInv' /\ CollectedInv' /\ BrokenInv'
    BY <1>2, <1>13 DEF pluginVars, FutureInv, CollectedInv, HeardIn, Unheard, BrokenInv
  <2>3. ResultsInv'
    BY <1>2, <1>13 DEF pluginVars, ResultsInv, Resolved, IsRight, HeardIn, Unheard, StateOf
  <2> QED BY <2>1, <2>2, <2>3 DEF RunnerInv
<1> QED
  BY <1>1, <1>3, <1>4, <1>6, <1>7, <1>9, <1>10, <1>11, <1>12, <1>13, <1>14, <1>15 DEF PluginStep

\* A result is of its own run and of that run's code, and a filter does not outlive its run (Sandbox.runInTestRunner).
THEOREM ResultsAreOwn == Spec => []OwnTestsOnly
<1>1. Spec => []RunnerInv
  BY RunnerInit, RunnerNext, PTL DEF Spec
<1>2. RunnerInv => OwnTestsOnly
  BY DEF RunnerInv, ResultsInv, FilterInv, IsRight, OwnTestsOnly
<1> QED
  BY <1>1, <1>2, PTL

\* No failure is lost between a framework and the verdict on a mutant, and none is invented, but that Jasmine's
\* failures in no spec are not listened to (JasmineTestRunner.run).
THEOREM FailuresAreNoticed == Spec => []NoFailureGoesUnnoticed
<1>1. Spec => []RunnerInv
  BY RunnerInit, RunnerNext, PTL DEF Spec
<1>2. RunnerInv => NoFailureGoesUnnoticed
  BY DEF RunnerInv, ResultsInv, IsRight, HeardIn, NoFailureGoesUnnoticed
<1> QED
  BY <1>1, <1>2, PTL

-----------------------------------------------------------------------------
(* Logging *)

Levels == DOMAIN Severity
LogEvents == [by : LogWorkers \cup {"main", "log4js"}, n : Nat, level : Levels]
Appenders == {"console", "file"}
Logged == {x.event : x \in events}

LogType ==
  /\ levelsGiven.cli \in [Appenders -> Levels \cup {"unset"}] /\ levelsGiven.options \in [Appenders -> Levels]
  /\ logPhase \in DOMAIN Configurations \cup {"serving", "closing", "shutDown"}
  /\ appenders \in [Appenders -> Levels] /\ level \in Levels
  /\ IsFiniteSet(events) /\ Logged \subseteq LogEvents
  /\ logWorkers \in [LogWorkers -> {"none", "running", "shuttingDown", "disposed", "dead", "killed"}]
  /\ buffered \in [LogWorkers -> Seq(LogEvents)] /\ sent \in [LogWorkers -> Seq(LogEvents)]
  /\ console \in Seq(LogEvents) /\ logFile \in Seq(LogEvents)

\* The loggers let through what one of the appenders asks for; the levels of the appenders stay as they are once
\* there are children.
LevelInv ==
  /\ logPhase # "start" => level = MinLevel(appenders.console, appenders.file)
  /\ \A w \in LogWorkers : logWorkers[w] # "none" => logPhase \in {"serving", "closing", "shutDown"}
  /\ \A x \in events : x.event.by # "main" =>
       x.levels = appenders /\ logPhase \in {"serving", "closing", "shutDown"}

\* A child's events are on a line from its buffer to the appenders.
LineOf(w) ==
  /\ InOrder(buffered[w]) /\ InOrder(sent[w])
  /\ \A e \in ToSet(buffered[w]) \cup ToSet(sent[w]) : e.by = w /\ e \in Logged
  /\ \A e \in ToSet(sent[w]), f \in ToSet(buffered[w]) : e.n < f.n
  /\ \A e \in ToSet(console) \cup ToSet(logFile), f \in ToSet(sent[w]) \cup ToSet(buffered[w]) : e.by = w => e.n < f.n
  /\ \A e \in Logged : e.by = w => e.n <= Cardinality(EventsOf(w))
LineInv == \A w \in LogWorkers : LineOf(w)
WrittenInv == InOrder(console) /\ InOrder(logFile) /\ ToSet(console) \cup ToSet(logFile) \subseteq Logged

\* A child has flushed its log when it is disposed of, and what it leaves behind is received before the end.
EndInv ==
  /\ \A w \in LogWorkers : /\ logWorkers[w] \notin {"running", "shuttingDown"} => buffered[w] = << >>
                           /\ logPhase = "shutDown" => logWorkers[w] \notin {"running", "shuttingDown"} /\ sent[w] = << >>
  /\ \A e \in lostEvents : e.by \in LogWorkers /\ logWorkers[e.by] = "killed"

IsComplete(x) ==
  /\ (x.event \in ToSet(console) \cup OnTheWay) \/ ~Asks(x, "console") \/ x.event.by = "log4js"
  /\ x.event \in ToSet(console) => Asks(x, "console") /\ x.event.by # "log4js"
  /\ (x.event \in ToSet(logFile) \cup unfiled \cup OnTheWay) \/ ~Asks(x, "file")
  /\ x.event \in ToSet(logFile) => Asks(x, "file")
CompleteInv == \A x \in events : IsComplete(x)

LoggingInv == LogType /\ LevelInv /\ LineInv /\ WrittenInv /\ EndInv /\ CompleteInv

LEMMA LogsImplied == LoggingInv => LogsAreComplete
<1> SUFFICES ASSUME LoggingInv PROVE LogsAreComplete
  OBVIOUS
<1>1. logPhase = "shutDown" => OnTheWay = lostEvents
  <2> SUFFICES ASSUME logPhase = "shutDown" PROVE OnTheWay = lostEvents
    OBVIOUS
  <2>1. \A w \in LogWorkers : ToSet(buffered[w]) \cup ToSet(sent[w]) = {}
    BY DEF LoggingInv, EndInv, ToSet
  <2> DEFINE way == UNION {ToSet(buffered[w]) \cup ToSet(sent[w]) : w \in LogWorkers}
  <2>2. way = {}
    <3> SUFFICES ASSUME NEW e \in way PROVE FALSE
      OBVIOUS
    <3>1. PICK w \in LogWorkers : e \in ToSet(buffered[w]) \cup ToSet(sent[w])
      OBVIOUS
    <3> QED BY <2>1, <3>1
  <2>3. OnTheWay = way \cup lostEvents
    BY DEF OnTheWay
  <2> QED BY <2>2, <2>3
<1> QED
  BY <1>1 DEF LoggingInv, WrittenInv, EndInv, CompleteInv, IsComplete, Logged, LogsAreComplete

(* Sequences of events *)

LEMMA SetOfAppend ==
  ASSUME NEW S, NEW s \in Seq(S), NEW e
  PROVE  ToSet(Append(s, e)) = ToSet(s) \cup {e}
<1>1. /\ DOMAIN Append(s, e) = 1..Len(s) + 1 /\ DOMAIN s = 1..Len(s) /\ Len(s) \in Nat
      /\ \A i \in 1..Len(s) : Append(s, e)[i] = s[i]
      /\ Append(s, e)[Len(s) + 1] = e
  OBVIOUS
<1>2. 1..Len(s) + 1 = 1..Len(s) \cup {Len(s) + 1}
  BY <1>1
<1> QED
  BY <1>1, <1>2 DEF ToSet

LEMMA SetOfTail ==
  ASSUME NEW S, NEW s \in Seq(S), s # << >>
  PROVE  /\ ToSet(s) = {Head(s)} \cup ToSet(Tail(s))
         /\ Head(s) \in S /\ Tail(s) \in Seq(S)
<1>1. /\ DOMAIN s = 1..Len(s) /\ Len(s) \in Nat /\ Len(s) >= 1
      /\ DOMAIN Tail(s) = 1..Len(s) - 1
      /\ \A i \in 1..Len(s) - 1 : Tail(s)[i] = s[i + 1]
      /\ Head(s) = s[1]
  OBVIOUS
<1>2. ASSUME NEW e \in ToSet(s)
      PROVE  e \in {Head(s)} \cup ToSet(Tail(s))
  <2>1. PICK i \in 1..Len(s) : e = s[i]
    BY <1>1, <1>2 DEF ToSet
  <2>2. i = 1 \/ (i - 1 \in 1..Len(s) - 1 /\ s[i] = Tail(s)[i - 1])
    BY <1>1, <2>1
  <2> QED BY <1>1, <2>1, <2>2 DEF ToSet
<1>3. ASSUME NEW e \in ToSet(Tail(s))
      PROVE  e \in ToSet(s)
  <2>1. PICK i \in 1..Len(s) - 1 : e = Tail(s)[i]
    BY <1>1, <1>3 DEF ToSet
  <2>2. i + 1 \in 1..Len(s) /\ e = s[i + 1]
    BY <1>1, <2>1
  <2> QED BY <1>1, <2>2 DEF ToSet
<1>4. Head(s) \in ToSet(s)
  BY <1>1 DEF ToSet
<1> QED
  BY <1>2, <1>3, <1>4

LEMMA OrderOfAppend ==
  ASSUME NEW s \in Seq(LogEvents), NEW e \in LogEvents, InOrder(s),
         \A f \in ToSet(s) : f.by = e.by => f.n < e.n
  PROVE  InOrder(Append(s, e))
<1>1. /\ DOMAIN Append(s, e) = 1..Len(s) + 1 /\ DOMAIN s = 1..Len(s) /\ Len(s) \in Nat
      /\ \A i \in 1..Len(s) : Append(s, e)[i] = s[i]
      /\ Append(s, e)[Len(s) + 1] = e
  OBVIOUS
<1>2. \A i \in 1..Len(s) : s[i] \in ToSet(s)
  BY <1>1 DEF ToSet
<1> QED
  BY <1>1, <1>2 DEF InOrder

LEMMA OrderOfTail ==
  ASSUME NEW s \in Seq(LogEvents), s # << >>, InOrder(s)
  PROVE  /\ InOrder(Tail(s))
         /\ \A f \in ToSet(Tail(s)) : Head(s).by = f.by => Head(s).n < f.n
<1>1. /\ DOMAIN s = 1..Len(s) /\ Len(s) \in Nat /\ Len(s) >= 1
      /\ DOMAIN Tail(s) = 1..Len(s) - 1
      /\ \A i \in 1..Len(s) - 1 : Tail(s)[i] = s[i + 1]
      /\ Head(s) = s[1]
  OBVIOUS
<1>2. InOrder(Tail(s))
  <2> SUFFICES ASSUME NEW i \in 1..Len(s) - 1, NEW j \in 1..Len(s) - 1, i < j, Tail(s)[i].by = Tail(s)[j].by
               PROVE  Tail(s)[i].n < Tail(s)[j].n
    BY <1>1 DEF InOrder
  <2>1. i + 1 \in DOMAIN s /\ j + 1 \in DOMAIN s /\ i + 1 < j + 1
    BY <1>1
  <2>2. Tail(s)[i] = s[i + 1] /\ Tail(s)[j] = s[j + 1]
    BY <1>1
  <2> QED BY <2>1, <2>2 DEF InOrder
<1>3. ASSUME NEW f \in ToSet(Tail(s)), Head(s).by = f.by
      PROVE  Head(s).n < f.n
  <2>1. PICK i \in 1..Len(s) - 1 : f = Tail(s)[i]
    BY <1>1, <1>3 DEF ToSet
  <2>2. i + 1 \in DOMAIN s /\ 1 \in DOMAIN s /\ 1 < i + 1 /\ f = s[i + 1]
    BY <1>1, <2>1
  <2> QED BY <1>1, <1>3, <2>2 DEF InOrder
<1> QED
  BY <1>2, <1>3

LEMMA NothingInOrder == InOrder(<< >>) /\ ToSet(<< >>) = {}
  BY DEF InOrder, ToSet

(* Levels *)

LEMMA LevelsOrdered ==
  /\ "off" \in Levels /\ "info" \in Levels /\ "error" \in Levels
  /\ \A l \in Levels : Severity[l] \in Nat
  BY DEF Levels, Severity

\* What the loggers do not let through no appender asks for.
LEMMA FilteredByAll ==
  ASSUME LogType, LevelInv, logPhase # "start", NEW l \in Levels, ~IsGreaterThanOrEqualTo(l, level), NEW a \in Appenders
  PROVE  ~IsGreaterThanOrEqualTo(l, appenders[a])
<1>1. appenders.console \in Levels /\ appenders.file \in Levels
  BY DEF LogType, Appenders
<1>2. level = MinLevel(appenders.console, appenders.file)
  BY DEF LevelInv
<1>3. /\ Severity[l] \in Nat /\ Severity[level] \in Nat
      /\ Severity[appenders.console] \in Nat /\ Severity[appenders.file] \in Nat
  BY <1>1, LevelsOrdered DEF LogType
<1>4. Severity[level] <= Severity[appenders.console] /\ Severity[level] <= Severity[appenders.file]
  BY <1>2, <1>3 DEF MinLevel, IsGreaterThanOrEqualTo
<1> QED
  BY <1>3, <1>4 DEF IsGreaterThanOrEqualTo, Appenders

(* Steps *)

\* What an appender writes it was asked for; what it was asked for it writes, unless it is closed.
LEMMA Appended ==
  ASSUME LogType, NEW e \in LogEvents, MultiAppend(e)
  PROVE  /\ console' = Append(console, e) \/ console' = console
         /\ logFile' = Append(logFile, e) \/ logFile' = logFile
         /\ ToSet(console') = ToSet(console) \cup (IF IsFor(e, "console") /\ e.by # "log4js" THEN {e} ELSE {})
         /\ ToSet(logFile) \subseteq ToSet(logFile') /\ unfiled \subseteq unfiled'
         /\ ToSet(logFile') \subseteq ToSet(logFile) \cup (IF IsFor(e, "file") THEN {e} ELSE {})
         /\ IsFor(e, "file") => e \in ToSet(logFile') \cup unfiled'
<1>1. ToSet(Append(console, e)) = ToSet(console) \cup {e} /\ ToSet(Append(logFile, e)) = ToSet(logFile) \cup {e}
  BY SetOfAppend DEF LogType
<1> QED
  BY <1>1 DEF MultiAppend

\* Of an event that comes after all others of its process the order of the appenders stays right.
LEMMA WrittenStays ==
  ASSUME LogType, WrittenInv, NEW e \in LogEvents, MultiAppend(e), e \in Logged', Logged \subseteq Logged',
         \A f \in ToSet(console) \cup ToSet(logFile) : f.by = e.by => f.n < e.n
  PROVE  WrittenInv' /\ console' \in Seq(LogEvents) /\ logFile' \in Seq(LogEvents)
<1>1. InOrder(Append(console, e)) /\ InOrder(Append(logFile, e))
  BY OrderOfAppend DEF WrittenInv, LogType
<1>2. /\ console' = Append(console, e) \/ console' = console
      /\ logFile' = Append(logFile, e) \/ logFile' = logFile
      /\ ToSet(console') \subseteq ToSet(console) \cup {e} /\ ToSet(logFile') \subseteq ToSet(logFile) \cup {e}
  BY Appended
<1>3. ToSet(console') \cup ToSet(logFile') \subseteq Logged'
  BY <1>2 DEF WrittenInv
<1>4. Append(console, e) \in Seq(LogEvents) /\ Append(logFile, e) \in Seq(LogEvents)
  BY DEF LogType
<1>5. console' \in Seq(LogEvents) /\ logFile' \in Seq(LogEvents)
  BY <1>2, <1>4 DEF LogType
<1>6. InOrder(console') /\ InOrder(logFile')
  BY <1>1, <1>2 DEF WrittenInv
<1> QED
  BY <1>3, <1>5, <1>6 DEF WrittenInv

\* An event that an appender handles is complete, if it was logged with the appenders' levels.
LEMMA HandledIsComplete ==
  ASSUME LogType, NEW x, x.event \in LogEvents, x.levels = appenders, MultiAppend(x.event),
         x.event \in ToSet(console) => Asks(x, "console") /\ x.event.by # "log4js",
         x.event \in ToSet(logFile) => Asks(x, "file")
  PROVE  IsComplete(x)'
<1>1. (IsFor(x.event, "console") <=> Asks(x, "console")) /\ (IsFor(x.event, "file") <=> Asks(x, "file"))
  BY DEF IsFor, Asks
<1>2. Asks(x, "console")' = Asks(x, "console") /\ Asks(x, "file")' = Asks(x, "file")
  BY DEF Asks
<1>3. /\ ToSet(console') = ToSet(console) \cup (IF IsFor(x.event, "console") /\ x.event.by # "log4js" THEN {x.event} ELSE {})
      /\ ToSet(logFile') \subseteq ToSet(logFile) \cup (IF IsFor(x.event, "file") THEN {x.event} ELSE {})
      /\ IsFor(x.event, "file") => x.event \in ToSet(logFile') \cup unfiled'
  BY Appended
<1> QED
  BY <1>1, <1>2, <1>3 DEF IsComplete

\* An event stays complete while another one is handled, or while it is on its way.
LEMMA CompleteStays ==
  ASSUME NEW x, IsComplete(x), x.event \in OnTheWay => x.event \in OnTheWay',
         x.event \in ToSet(console') <=> x.event \in ToSet(console),
         x.event \in ToSet(logFile') <=> x.event \in ToSet(logFile),
         x.event \in unfiled => x.event \in unfiled'
  PROVE  IsComplete(x)'
<1>1. Asks(x, "console")' = Asks(x, "console") /\ Asks(x, "file")' = Asks(x, "file")
  BY DEF Asks
<1> QED
  BY <1>1 DEF IsComplete
LEMMA OthersStayComplete ==
  ASSUME LogType, NEW x, IsComplete(x), NEW e \in LogEvents, MultiAppend(e), x.event # e,
         x.event \in OnTheWay => x.event \in OnTheWay'
  PROVE  IsComplete(x)'
<1>1. /\ x.event \in ToSet(console') <=> x.event \in ToSet(console)
      /\ x.event \in ToSet(logFile') <=> x.event \in ToSet(logFile)
      /\ x.event \in unfiled => x.event \in unfiled'
  BY Appended
<1> QED
  BY <1>1, CompleteStays

LEMMA OnTheWayMeans ==
  /\ \A e : e \in OnTheWay <=> e \in lostEvents \/ \E w \in LogWorkers : e \in ToSet(buffered[w]) \cup ToSet(sent[w])
  /\ (\A e : e \in OnTheWay <=> e \in lostEvents \/ \E w \in LogWorkers : e \in ToSet(buffered[w]) \cup ToSet(sent[w]))'
  BY DEF OnTheWay

LEMMA DefaultIsGiven == Default \in [Appenders -> Levels]
<1>1. DOMAIN Default = Appenders /\ Default["console"] = "info" /\ Default["file"] = "off"
  BY DEF Default, Appenders
<1>2. Default = [a \in Appenders |-> Default[a]]
  BY <1>1 DEF Default
<1> QED
  BY <1>1, <1>2, LevelsOrdered DEF Appenders

LEMMA LoggingInit == Init => LoggingInv
<1> SUFFICES ASSUME Init PROVE LoggingInv
  OBVIOUS
<1>0. InitLogging
  BY DEF Init
<1> USE <1>0 DEF InitLogging
<1>1. Default \in [Appenders -> Levels]
  BY DefaultIsGiven
<1>2. levelsGiven.cli \in [Appenders -> Levels \cup {"unset"}] /\ levelsGiven.options \in [Appenders -> Levels]
  <2>1. CASE part # "logging"
    <3>1. levelsGiven = [cli |-> Default, options |-> Default]
      BY <2>1 DEF Init
    <3>2. levelsGiven.cli = Default /\ levelsGiven.options = Default
      BY <3>1
    <3> QED BY <1>1, <3>2
  <2>2. CASE part = "logging"
    <3>1. UserLevels \subseteq Levels
      BY LoggingAssumption DEF Levels
    <3>2. PICK cli \in Given, configFile \in Given :
            levelsGiven = [cli |-> cli, options |-> [a \in {"console", "file"} |->
                              IF cli[a] = "unset" THEN OverDefault(configFile)[a] ELSE cli[a]]]
      BY <2>2 DEF Init, LevelsGiven
    <3>3. \A given \in Given : OverDefault(given) \in [Appenders -> Levels]
      BY <1>1, <3>1 DEF OverDefault, Given, Appenders
    <3>4. levelsGiven.options \in [Appenders -> Levels]
      BY <3>1, <3>2, <3>3 DEF Given, Appenders
    <3> QED BY <3>1, <3>2, <3>4 DEF Given, Appenders
  <2> QED BY <2>1, <2>2
<1>3. Logged = {} /\ IsFiniteSet(events)
  BY FS_EmptySet DEF Logged
<1>4. LogType
  <2>1. logPhase \in DOMAIN Configurations /\ appenders \in [Appenders -> Levels] /\ level \in Levels
    BY <1>1, LevelsOrdered DEF Configurations
  <2>2. logWorkers \in [LogWorkers -> {"none", "running", "shuttingDown", "disposed", "dead", "killed"}]
    OBVIOUS
  <2>3. /\ buffered \in [LogWorkers -> Seq(LogEvents)] /\ sent \in [LogWorkers -> Seq(LogEvents)]
        /\ console \in Seq(LogEvents) /\ logFile \in Seq(LogEvents)
    <3>1. << >> \in Seq(LogEvents)
      OBVIOUS
    <3>2. /\ buffered = [w \in LogWorkers |-> << >>] /\ sent = [w \in LogWorkers |-> << >>]
          /\ console = << >> /\ logFile = << >>
      OBVIOUS
    <3> HIDE DEF InitLogging
    <3> QED BY <3>1, <3>2
  <2> QED BY <1>2, <1>3, <2>1, <2>2, <2>3 DEF LogType
<1>5. /\ ToSet(console) = {} /\ ToSet(logFile) = {} /\ InOrder(console) /\ InOrder(logFile)
      /\ \A w \in LogWorkers : /\ ToSet(buffered[w]) = {} /\ ToSet(sent[w]) = {}
                               /\ InOrder(buffered[w]) /\ InOrder(sent[w])
  BY NothingInOrder
<1>6. LevelInv
  BY DEF LevelInv
<1>7. LineInv /\ WrittenInv
  BY <1>3, <1>5 DEF LineInv, LineOf, WrittenInv
<1>8. EndInv /\ CompleteInv
  BY DEF EndInv, CompleteInv
<1> QED
  BY <1>4, <1>6, <1>7, <1>8 DEF LoggingInv

\* What logs nothing and moves no event.
LEMMA LinesStay ==
  ASSUME LoggingInv, UNCHANGED <<events, buffered, sent, lostEvents, console, logFile, unfiled>>
  PROVE  LineInv' /\ WrittenInv' /\ CompleteInv'
<1>1. Logged' = Logged /\ \A w : EventsOf(w)' = EventsOf(w)
  BY DEF Logged, EventsOf
<1>2. LineInv' /\ WrittenInv'
  BY <1>1 DEF LoggingInv, LineInv, LineOf, WrittenInv
<1>3. OnTheWay' = OnTheWay
  BY DEF OnTheWay
<1>4. ASSUME NEW x \in events PROVE IsComplete(x)'
  <2>1. IsComplete(x)
    BY DEF LoggingInv, CompleteInv
  <2> QED BY <1>3, <2>1, CompleteStays
<1> QED
  BY <1>2, <1>4 DEF CompleteInv

LEMMA EventLogged ==
  ASSUME LoggingInv, NEW p, NEW e \in LogEvents, Log(p, e)
  PROVE  /\ Logged' = Logged \cup {e} /\ Logged' \subseteq LogEvents /\ IsFiniteSet(events')
         /\ events' = events \cup {[event |-> e, levels |-> appenders]}
         /\ \A w : w # e.by => EventsOf(w)' = EventsOf(w)
<1>1. events' = events \cup {[event |-> e, levels |-> appenders]}
  BY DEF Log
<1>2. Logged' = Logged \cup {e}
  <2> DEFINE new == [event |-> e, levels |-> appenders]
  <2>1. events' = events \cup {new} /\ new.event = e
    BY <1>1
  <2> HIDE DEF new
  <2>2. ASSUME NEW f PROVE f \in Logged' <=> f \in Logged \/ f = e
    BY <2>1 DEF Logged
  <2> QED BY <2>2
<1>3. IsFiniteSet(events')
  BY <1>1, FS_AddElement DEF LoggingInv, LogType
<1>4. \A w : w # e.by => EventsOf(w)' = EventsOf(w)
  BY <1>1 DEF EventsOf
<1> QED
  BY <1>1, <1>2, <1>3, <1>4 DEF LoggingInv, LogType

\* The first event of the main process or of log4js goes to the appenders at once.
LEMMA HandledAtOnce ==
  ASSUME LoggingInv, NEW e \in LogEvents, e.by \notin LogWorkers, EventsOf(e.by) = {}, Log(e.by, e), MultiAppend(e),
         sent' = sent, \A w \in LogWorkers : buffered'[w] = buffered[w] \/ buffered'[w] = << >>,
         \A f \in OnTheWay : f \in OnTheWay'
  PROVE  LineInv' /\ WrittenInv' /\ CompleteInv' /\ console' \in Seq(LogEvents) /\ logFile' \in Seq(LogEvents)
<1> USE DEF LoggingInv
<1>1. /\ Logged' = Logged \cup {e} /\ \A w : w # e.by => EventsOf(w)' = EventsOf(w)
      /\ events' = events \cup {[event |-> e, levels |-> appenders]}
  BY EventLogged
<1>2. \A f \in Logged : f.by # e.by
  BY DEF EventsOf, Logged
<1>3. ToSet(console) \cup ToSet(logFile) \subseteq Logged
  BY DEF WrittenInv
<1>4. WrittenInv' /\ console' \in Seq(LogEvents) /\ logFile' \in Seq(LogEvents)
  BY <1>1, <1>2, <1>3, WrittenStays
<1>5. ToSet(console') \subseteq ToSet(console) \cup {e} /\ ToSet(logFile') \subseteq ToSet(logFile) \cup {e}
  BY Appended
<1>6. LineInv'
  <2> SUFFICES ASSUME NEW w \in LogWorkers
               PROVE  LineOf(w)'
    BY DEF LineInv
  <2>1. InOrder(buffered'[w]) /\ ToSet(buffered'[w]) \subseteq ToSet(buffered[w])
    BY NothingInOrder DEF LineInv, LineOf
  <2>2. EventsOf(w)' = EventsOf(w) /\ e.by # w
    BY <1>1
  <2> QED BY <1>1, <1>5, <2>1, <2>2 DEF LineInv, LineOf
<1>7. ASSUME NEW x \in events' PROVE IsComplete(x)'
  <2>1. CASE x.event = e
    <3>1. x = [event |-> e, levels |-> appenders]
      BY <1>1, <1>2, <2>1 DEF Logged
    <3>2. x.event \notin ToSet(console) /\ x.event \notin ToSet(logFile)
      BY <1>2, <1>3, <2>1
    <3> QED BY <2>1, <3>1, <3>2, HandledIsComplete
  <2>2. CASE x.event # e
    <3>1. IsComplete(x)
      BY <1>1, <2>2 DEF CompleteInv
    <3> QED BY <2>2, <3>1, OthersStayComplete
  <2> QED BY <2>1, <2>2
<1> QED
  BY <1>4, <1>6, <1>7 DEF CompleteInv

LEMMA MainLogsKeepsInv == ASSUME LoggingInv, NEW l \in EventLevels, MainLogs(l) PROVE LoggingInv'
<1> USE DEF LoggingInv
<1> DEFINE e == Event("main", 1, l)
<1>1. e \in LogEvents /\ e.by = "main" /\ e.level = l /\ l \in Levels /\ "main" \notin LogWorkers
  BY LoggingAssumption DEF Event, LogEvents, Levels
<1>2. /\ Log("main", e) /\ logPhase # "start" /\ EventsOf("main") = {}
      /\ UNCHANGED <<levelsGiven, logPhase, appenders, level, logWorkers, buffered, sent, lostEvents>>
  BY DEF MainLogs, childProcesses
<1> HIDE DEF e
<1>3. /\ Logged' = Logged \cup {e} /\ Logged' \subseteq LogEvents /\ IsFiniteSet(events')
      /\ events' = events \cup {[event |-> e, levels |-> appenders]}
      /\ \A w : w # e.by => EventsOf(w)' = EventsOf(w)
  BY <1>1, <1>2, EventLogged
<1>4. OnTheWay' = OnTheWay
  BY <1>2 DEF OnTheWay
<1>5. LevelInv'
  BY <1>1, <1>2, <1>3 DEF LevelInv
<1>6. EndInv'
  BY <1>2 DEF EndInv
<1>7. CASE IsGreaterThanOrEqualTo(l, level)
  <2>1. MultiAppend(e)
    BY <1>7 DEF MainLogs, e
  <2>2. LineInv' /\ WrittenInv' /\ CompleteInv' /\ console' \in Seq(LogEvents) /\ logFile' \in Seq(LogEvents)
    BY <1>1, <1>2, <1>4, <2>1, HandledAtOnce
  <2>3. LogType'
    BY <1>2, <1>3, <2>2 DEF LogType
  <2> QED BY <1>5, <1>6, <2>2, <2>3
<1>8. CASE ~IsGreaterThanOrEqualTo(l, level)
  <2>1. UNCHANGED <<console, logFile, unfiled>>
    BY <1>8 DEF MainLogs, destinations
  <2>2. LogType'
    BY <1>2, <1>3, <2>1 DEF LogType
  <2>3. \A w \in LogWorkers : EventsOf(w)' = EventsOf(w)
    BY <1>1, <1>3
  <2>4. LineInv'
    <3> SUFFICES ASSUME NEW w \in LogWorkers, NEW f \in Logged', f.by = w PROVE f \in Logged
      BY <1>2, <1>3, <2>1, <2>3 DEF LineInv, LineOf
    <3> QED BY <1>1, <1>3
  <2>5. WrittenInv'
    BY <1>3, <2>1 DEF WrittenInv
  <2>6. ASSUME NEW x \in events' PROVE IsComplete(x)'
    <3>1. CASE x \in events
      <4>1. IsComplete(x)
        BY <3>1 DEF CompleteInv
      <4> QED BY <1>4, <2>1, <4>1, CompleteStays
    <3>2. CASE x = [event |-> e, levels |-> appenders]
      <4>1. ~Asks(x, "console")' /\ ~Asks(x, "file")'
        BY <1>1, <1>2, <1>8, <3>2, FilteredByAll DEF Asks, Appenders
      <4>2. e \notin Logged
        BY <1>1, <1>2 DEF EventsOf, Logged
      <4>3. x.event \notin ToSet(console') /\ x.event \notin ToSet(logFile')
        BY <2>1, <3>2, <4>2 DEF WrittenInv
      <4> QED BY <4>1, <4>3 DEF IsComplete
    <3> QED BY <1>3, <3>1, <3>2
  <2> QED BY <1>5, <1>6, <2>2, <2>4, <2>5, <2>6 DEF CompleteInv
<1> QED
  BY <1>7, <1>8

\* The number of a child's next event.
LEMMA NextNumber ==
  ASSUME LoggingInv, NEW w \in LogWorkers, NEW e \in LogEvents, e.by = w, e.n = Cardinality(EventsOf(w)) + 1, Log(w, e)
  PROVE  /\ Cardinality(EventsOf(w)) \in Nat /\ e \notin Logged
         /\ Cardinality(EventsOf(w)') = Cardinality(EventsOf(w)) + 1
<1>1. IsFiniteSet(EventsOf(w)) /\ Cardinality(EventsOf(w)) \in Nat
  <2>1. EventsOf(w) \subseteq events
    BY DEF EventsOf
  <2> QED BY <2>1, FS_Subset, FS_CardinalityType DEF LoggingInv, LogType
<1>2. e \notin Logged
  <2>1. \A f \in Logged : f.by = w => f.n <= Cardinality(EventsOf(w))
    BY DEF LoggingInv, LineInv, LineOf
  <2> SUFFICES ASSUME e \in Logged PROVE FALSE
    OBVIOUS
  <2>2. e.n <= Cardinality(EventsOf(w))
    BY <2>1
  <2> QED BY <1>1, <2>2
<1> DEFINE new == [event |-> e, levels |-> appenders]
<1>3. EventsOf(w)' = EventsOf(w) \cup {new}
  BY DEF Log, EventsOf
<1>4. new \notin EventsOf(w)
  BY <1>2 DEF EventsOf, Logged
<1> HIDE DEF new
<1>5. Cardinality(EventsOf(w)') = Cardinality(EventsOf(w)) + 1
  BY <1>1, <1>3, <1>4, FS_AddElement
<1> QED
  BY <1>1, <1>2, <1>5

LEMMA WorkerLogsKeepsInv == ASSUME LoggingInv, NEW w \in LogWorkers, NEW l \in EventLevels, WorkerLogs(w, l) PROVE LoggingInv'
<1> USE DEF LoggingInv
<1> DEFINE e == Event(w, Cardinality(EventsOf(w)) + 1, l)
<1>1. PICK new : new = e
  OBVIOUS
<1>2. /\ Log(w, e) /\ logWorkers[w] = "running"
      /\ UNCHANGED <<levelsGiven, logPhase, appenders, level, logWorkers, sent, lostEvents, console, logFile, unfiled>>
      /\ buffered' = IF IsGreaterThanOrEqualTo(l, level) THEN [buffered EXCEPT ![w] = Append(@, e)] ELSE buffered
  BY DEF WorkerLogs, destinations
<1>3. l \in Levels
  BY LoggingAssumption DEF Levels
<1>4. IsFiniteSet(EventsOf(w)) /\ Cardinality(EventsOf(w)) \in Nat
  <2>1. EventsOf(w) \subseteq events
    BY DEF EventsOf
  <2> QED BY <2>1, FS_Subset, FS_CardinalityType DEF LogType
<1>5. new \in LogEvents /\ new.by = w /\ new.level = l /\ new.n = Cardinality(EventsOf(w)) + 1
  BY <1>1, <1>3, <1>4 DEF Event, LogEvents
<1>6. Log(w, new) /\ new \notin Logged /\ Cardinality(EventsOf(w)') = Cardinality(EventsOf(w)) + 1
  BY <1>1, <1>2, <1>5, NextNumber
<1>7. /\ Logged' = Logged \cup {new} /\ Logged' \subseteq LogEvents /\ IsFiniteSet(events')
      /\ events' = events \cup {[event |-> new, levels |-> appenders]}
      /\ \A v : v # w => EventsOf(v)' = EventsOf(v)
  BY <1>5, <1>6, EventLogged
<1>8. buffered' = [buffered EXCEPT ![w] = Append(@, new)] \/ buffered' = buffered
  BY <1>1, <1>2
<1>9. IsGreaterThanOrEqualTo(l, level) => buffered' = [buffered EXCEPT ![w] = Append(@, new)]
  BY <1>1, <1>2
<1> HIDE DEF e
<1>10. buffered[w] \in Seq(LogEvents) /\ buffered \in [LogWorkers -> Seq(LogEvents)]
  BY DEF LogType
<1>11. /\ ToSet(Append(buffered[w], new)) = ToSet(buffered[w]) \cup {new}
       /\ Append(buffered[w], new) \in Seq(LogEvents)
  BY <1>5, <1>10, SetOfAppend
<1>12. LogType'
  <2>1. buffered' \in [LogWorkers -> Seq(LogEvents)]
    BY <1>8, <1>10, <1>11
  <2> QED BY <1>2, <1>7, <2>1 DEF LogType
<1>13. LevelInv'
  BY <1>2, <1>5, <1>7 DEF LevelInv
<1>14. EndInv'
  <2>1. \A v \in LogWorkers : v # w => buffered'[v] = buffered[v]
    BY <1>8, <1>10
  <2> QED BY <1>2, <2>1 DEF EndInv
<1>15. WrittenInv'
  BY <1>2, <1>7 DEF WrittenInv
<1>16. LineInv'
  <2> SUFFICES ASSUME NEW v \in LogWorkers PROVE LineOf(v)'
    BY DEF LineInv
  <2>1. LineOf(v)
    BY DEF LineInv
  <2>2. CASE v # w
    <3>1. buffered'[v] = buffered[v] /\ sent'[v] = sent[v] /\ EventsOf(v)' = EventsOf(v)
      BY <1>2, <1>7, <1>8, <1>10, <2>2
    <3> QED BY <1>2, <1>5, <1>7, <2>1, <2>2, <3>1 DEF LineOf
  <2>3. CASE v = w
    <3>1. \A f \in Logged : f.by = w => f.n < new.n
      <4> SUFFICES ASSUME NEW f \in Logged, f.by = w PROVE f.n < new.n
        OBVIOUS
      <4>1. f.n <= Cardinality(EventsOf(w)) /\ f.n \in Nat
        BY <2>1, <2>3 DEF LineOf, LogType, LogEvents
      <4> QED BY <1>4, <1>5, <4>1
    <3>2. \A f \in Logged' : f.by = w => f.n <= Cardinality(EventsOf(w)')
      <4> SUFFICES ASSUME NEW f \in Logged', f.by = w PROVE f.n <= Cardinality(EventsOf(w)')
        OBVIOUS
      <4>1. CASE f = new
        BY <1>4, <1>5, <1>6, <4>1
      <4>2. CASE f \in Logged
        BY <1>4, <1>5, <1>6, <3>1, <4>2 DEF LogType, LogEvents
      <4> QED BY <1>7, <4>1, <4>2
    <3>3. \A f \in ToSet(buffered[w]) : f.by = w /\ f.n < new.n
      BY <2>1, <2>3, <3>1 DEF LineOf
    <3>4. InOrder(Append(buffered[w], new))
      BY <1>5, <1>10, <2>1, <2>3, <3>3, OrderOfAppend DEF LineOf
    <3>5. /\ InOrder(buffered'[w]) /\ buffered'[w] \in {buffered[w], Append(buffered[w], new)}
          /\ ToSet(buffered'[w]) \subseteq ToSet(buffered[w]) \cup {new}
      BY <1>8, <1>10, <1>11, <2>1, <2>3, <3>4 DEF LineOf
    <3>6. \A f \in ToSet(sent[w]) : f.by = w /\ f \in Logged /\ f.n < new.n
      BY <2>1, <2>3, <3>1 DEF LineOf
    <3>7. \A f \in ToSet(console) \cup ToSet(logFile) : f.by = w => f.n < new.n
      BY <3>1 DEF WrittenInv
    <3> QED BY <1>2, <1>5, <1>7, <2>1, <2>3, <3>2, <3>5, <3>6, <3>7 DEF LineOf
  <2> QED BY <2>2, <2>3
<1>17. \A f \in OnTheWay : f \in OnTheWay'
  <2> SUFFICES ASSUME NEW f \in OnTheWay PROVE f \in OnTheWay'
    OBVIOUS
  <2>1. CASE f \in lostEvents
    BY <1>2, <2>1, OnTheWayMeans
  <2>2. ASSUME NEW v \in LogWorkers, f \in ToSet(buffered[v]) \cup ToSet(sent[v])
        PROVE  f \in OnTheWay'
    <3>1. f \in ToSet(buffered'[v]) \cup ToSet(sent'[v])
      BY <1>2, <1>8, <1>10, <1>11, <2>2
    <3> QED BY <3>1, OnTheWayMeans
  <2> QED BY <2>1, <2>2, OnTheWayMeans
<1>18. ASSUME NEW x \in events' PROVE IsComplete(x)'
  <2>1. CASE x \in events
    <3>1. IsComplete(x)
      BY <2>1 DEF CompleteInv
    <3> QED BY <1>2, <1>17, <3>1, CompleteStays
  <2>2. CASE x = [event |-> new, levels |-> appenders]
    <3>1. x.event \notin ToSet(console') /\ x.event \notin ToSet(logFile')
      BY <1>2, <1>6, <2>2 DEF WrittenInv
    <3>2. CASE IsGreaterThanOrEqualTo(l, level)
      <4>1. new \in ToSet(buffered'[w])
        BY <1>9, <1>10, <1>11, <3>2
      <4>2. x.event \in OnTheWay'
        BY <2>2, <4>1, OnTheWayMeans
      <4> QED BY <3>1, <4>2 DEF IsComplete
    <3>3. CASE ~IsGreaterThanOrEqualTo(l, level)
      <4>1. logPhase # "start"
        BY <1>2 DEF LevelInv
      <4>2. ~Asks(x, "console")' /\ ~Asks(x, "file")'
        BY <1>3, <1>5, <2>2, <3>3, <4>1, FilteredByAll DEF Asks, Appenders
      <4> QED BY <3>1, <4>2 DEF IsComplete
    <3> QED BY <3>2, <3>3
  <2> QED BY <1>7, <2>1, <2>2
<1> QED
  BY <1>12, <1>13, <1>14, <1>15, <1>16, <1>18 DEF CompleteInv

LEMMA WorkerWritesKeepsInv == ASSUME LoggingInv, NEW w \in LogWorkers, WorkerWrites(w) PROVE LoggingInv'
<1> USE DEF LoggingInv
<1>1. PICK b, q : b = buffered[w] /\ q = sent[w]
  OBVIOUS
<1>2. /\ logWorkers[w] \in {"running", "shuttingDown"} /\ b # << >>
      /\ sent' = [sent EXCEPT ![w] = Append(q, Head(b))] /\ buffered' = [buffered EXCEPT ![w] = Tail(b)]
      /\ UNCHANGED <<levelsGiven, logPhase, appenders, level, events, logWorkers, lostEvents, console, logFile, unfiled>>
  BY <1>1 DEF WorkerWrites, destinations
<1>3. b \in Seq(LogEvents) /\ q \in Seq(LogEvents)
  BY <1>1 DEF LogType
<1>4. ToSet(b) = {Head(b)} \cup ToSet(Tail(b)) /\ Head(b) \in LogEvents /\ Tail(b) \in Seq(LogEvents)
  BY <1>2, <1>3, SetOfTail
<1>5. ToSet(Append(q, Head(b))) = ToSet(q) \cup {Head(b)} /\ Append(q, Head(b)) \in Seq(LogEvents)
  BY <1>3, <1>4, SetOfAppend
<1>6. \A v \in LogWorkers : /\ v # w => buffered'[v] = buffered[v] /\ sent'[v] = sent[v]
                            /\ v = w => buffered'[v] = Tail(b) /\ sent'[v] = Append(q, Head(b))
  BY <1>2 DEF LogType
<1>7. Logged' = Logged /\ \A v : EventsOf(v)' = EventsOf(v)
  BY <1>2 DEF Logged, EventsOf
<1>8. LogType'
  <2>1. buffered' \in [LogWorkers -> Seq(LogEvents)] /\ sent' \in [LogWorkers -> Seq(LogEvents)]
    BY <1>2, <1>4, <1>5 DEF LogType
  <2> QED BY <1>2, <1>7, <2>1 DEF LogType
<1>9. LevelInv' /\ WrittenInv'
  BY <1>2, <1>7 DEF LevelInv, WrittenInv
<1>10. EndInv'
  BY <1>2, <1>6 DEF EndInv
<1>11. LineInv'
  <2> SUFFICES ASSUME NEW v \in LogWorkers PROVE LineOf(v)'
    BY DEF LineInv
  <2>1. LineOf(v)
    BY DEF LineInv
  <2>2. CASE v # w
    BY <1>2, <1>6, <1>7, <2>1, <2>2 DEF LineOf
  <2>3. CASE v = w
    <3>1. InOrder(Tail(b)) /\ \A f \in ToSet(Tail(b)) : Head(b).by = f.by => Head(b).n < f.n
      BY <1>1, <1>2, <1>3, <2>1, <2>3, OrderOfTail DEF LineOf
    <3>2. /\ \A f \in ToSet(b) \cup ToSet(q) : f.by = w /\ f \in Logged
          /\ \A f \in ToSet(q), g \in ToSet(b) : f.n < g.n
      BY <1>1, <2>1, <2>3 DEF LineOf
    <3>3. \A f \in ToSet(q) : f.by = Head(b).by => f.n < Head(b).n
      BY <1>4, <3>2
    <3>4. InOrder(Append(q, Head(b)))
      BY <1>1, <1>3, <1>4, <2>1, <2>3, <3>3, OrderOfAppend DEF LineOf
    <3>5. buffered'[v] = Tail(b) /\ sent'[v] = Append(q, Head(b))
      BY <1>6, <2>3
    <3>6. \A f \in ToSet(sent'[v]), g \in ToSet(buffered'[v]) : f.n < g.n
      BY <1>4, <1>5, <3>1, <3>2, <3>5
    <3>7. ToSet(sent'[v]) \cup ToSet(buffered'[v]) = ToSet(sent[v]) \cup ToSet(buffered[v])
      BY <1>1, <1>4, <1>5, <2>3, <3>5
    <3> QED BY <1>2, <1>7, <2>1, <3>1, <3>4, <3>5, <3>6, <3>7 DEF LineOf
  <2> QED BY <2>2, <2>3
<1>12. \A f \in OnTheWay : f \in OnTheWay'
  <2> SUFFICES ASSUME NEW f \in OnTheWay PROVE f \in OnTheWay'
    OBVIOUS
  <2>1. CASE f \in lostEvents
    BY <1>2, <2>1, OnTheWayMeans
  <2>2. ASSUME NEW v \in LogWorkers, f \in ToSet(buffered[v]) \cup ToSet(sent[v])
        PROVE  f \in OnTheWay'
    <3>1. f \in ToSet(buffered'[v]) \cup ToSet(sent'[v])
      BY <1>1, <1>4, <1>5, <1>6, <2>2
    <3> QED BY <3>1, OnTheWayMeans
  <2> QED BY <2>1, <2>2, OnTheWayMeans
<1>13. ASSUME NEW x \in events' PROVE IsComplete(x)'
  <2>1. IsComplete(x)
    BY <1>2 DEF CompleteInv
  <2> QED BY <1>2, <1>12, <2>1, CompleteStays
<1> QED
  BY <1>8, <1>9, <1>10, <1>11, <1>13 DEF CompleteInv

LEMMA ServerReceivesKeepsInv == ASSUME LoggingInv, NEW w \in LogWorkers, ServerReceives(w) PROVE LoggingInv'
<1> USE DEF LoggingInv
<1>1. PICK q, e : q = sent[w] /\ e = Head(q)
  OBVIOUS
<1>2. /\ q # << >> /\ MultiAppend(e) /\ sent' = [sent EXCEPT ![w] = Tail(q)]
      /\ UNCHANGED <<levelsGiven, logPhase, appenders, level, events, logWorkers, buffered, lostEvents>>
  BY <1>1 DEF ServerReceives
<1>3. q \in Seq(LogEvents)
  BY <1>1 DEF LogType
<1>4. ToSet(q) = {e} \cup ToSet(Tail(q)) /\ e \in LogEvents /\ Tail(q) \in Seq(LogEvents)
  BY <1>1, <1>2, <1>3, SetOfTail
<1>5. \A v \in LogWorkers : sent'[v] = IF v = w THEN Tail(q) ELSE sent[v]
  BY <1>2 DEF LogType
<1>6. Logged' = Logged /\ \A v : EventsOf(v)' = EventsOf(v)
  BY <1>2 DEF Logged, EventsOf
<1>7. LineOf(w) /\ e.by = w /\ e \in Logged
  BY <1>1, <1>4 DEF LineInv, LineOf
<1>8. WrittenInv' /\ console' \in Seq(LogEvents) /\ logFile' \in Seq(LogEvents)
  <2>1. \A f \in ToSet(console) \cup ToSet(logFile) : f.by = e.by => f.n < e.n
    BY <1>1, <1>4, <1>7 DEF LineOf
  <2> QED BY <1>2, <1>4, <1>6, <1>7, <2>1, WrittenStays
<1>9. LogType'
  <2>1. sent' \in [LogWorkers -> Seq(LogEvents)]
    BY <1>2, <1>4 DEF LogType
  <2> QED BY <1>2, <1>6, <1>8, <2>1 DEF LogType
<1>10. LevelInv'
  BY <1>2 DEF LevelInv
<1>11. EndInv'
  <2>1. logPhase = "shutDown" => FALSE
    BY <1>1, <1>2 DEF EndInv
  <2> QED BY <1>2, <2>1 DEF EndInv
<1>12. ToSet(console') \subseteq ToSet(console) \cup {e} /\ ToSet(logFile') \subseteq ToSet(logFile) \cup {e}
  BY <1>2, <1>4, Appended
<1>13. LineInv'
  <2> SUFFICES ASSUME NEW v \in LogWorkers PROVE LineOf(v)'
    BY DEF LineInv
  <2>1. LineOf(v)
    BY DEF LineInv
  <2>2. CASE v # w
    BY <1>2, <1>5, <1>6, <1>7, <1>12, <2>1, <2>2 DEF LineOf
  <2>3. CASE v = w
    <3>1. InOrder(Tail(q)) /\ \A f \in ToSet(Tail(q)) : e.by = f.by => e.n < f.n
      BY <1>1, <1>2, <1>3, <1>7, OrderOfTail DEF LineOf
    <3>2. sent'[v] = Tail(q) /\ ToSet(Tail(q)) \subseteq ToSet(sent[v]) /\ e \in ToSet(sent[v])
      BY <1>1, <1>4, <1>5, <2>3
    <3>3. \A f \in ToSet(sent'[v]) \cup ToSet(buffered'[v]) : e.n < f.n
      BY <1>2, <1>7, <2>1, <2>3, <3>1, <3>2 DEF LineOf
    <3> QED BY <1>2, <1>6, <1>12, <2>1, <3>1, <3>2, <3>3 DEF LineOf
  <2> QED BY <2>2, <2>3
<1>14. ASSUME NEW f \in OnTheWay, f # e PROVE f \in OnTheWay'
  <2>1. CASE f \in lostEvents
    BY <1>2, <2>1, OnTheWayMeans
  <2>2. ASSUME NEW v \in LogWorkers, f \in ToSet(buffered[v]) \cup ToSet(sent[v])
        PROVE  f \in OnTheWay'
    <3>1. f \in ToSet(buffered'[v]) \cup ToSet(sent'[v])
      BY <1>1, <1>2, <1>4, <1>5, <1>14, <2>2
    <3> QED BY <3>1, OnTheWayMeans
  <2> QED BY <1>14, <2>1, <2>2, OnTheWayMeans
<1>15. ASSUME NEW x \in events' PROVE IsComplete(x)'
  <2>1. IsComplete(x) /\ x \in events
    BY <1>2 DEF CompleteInv
  <2>2. CASE x.event = e
    <3>1. x.levels = appenders
      BY <1>7, <2>1, <2>2, LoggingAssumption DEF LevelInv
    <3>2. /\ x.event \in ToSet(console) => Asks(x, "console") /\ x.event.by # "log4js"
          /\ x.event \in ToSet(logFile) => Asks(x, "file")
      BY <2>1 DEF IsComplete
    <3> QED BY <1>2, <1>4, <2>2, <3>1, <3>2, HandledIsComplete
  <2>3. CASE x.event # e
    BY <1>2, <1>4, <1>14, <2>1, <2>3, OthersStayComplete
  <2> QED BY <2>2, <2>3
<1> QED
  BY <1>8, <1>9, <1>10, <1>11, <1>13, <1>15 DEF CompleteInv

LEMMA WorkerDiesKeepsInv == ASSUME LoggingInv, NEW w \in LogWorkers, WorkerDies(w) PROVE LoggingInv'
<1> USE DEF LoggingInv
<1>1. PICK before : before = logWorkers[w]
  OBVIOUS
<1>2. /\ before \in {"running", "shuttingDown", "disposed"}
      /\ logWorkers' = [logWorkers EXCEPT ![w] = IF before = "disposed" THEN "dead" ELSE "killed"]
      /\ lostEvents' = lostEvents \cup ToSet(buffered[w]) /\ buffered' = [buffered EXCEPT ![w] = << >>]
      /\ UNCHANGED <<levelsGiven, logPhase, appenders, level, sent>>
  BY <1>1 DEF WorkerDies
<1>3. \A v \in LogWorkers : /\ v # w => logWorkers'[v] = logWorkers[v] /\ buffered'[v] = buffered[v]
                            /\ v = w => buffered'[v] = << >>
  BY <1>2 DEF LogType
<1>4. logWorkers'[w] = IF before = "disposed" THEN "dead" ELSE "killed"
  BY <1>2 DEF LogType
<1>5. /\ logWorkers' \in [LogWorkers -> {"none", "running", "shuttingDown", "disposed", "dead", "killed"}]
      /\ buffered' \in [LogWorkers -> Seq(LogEvents)]
  <2>1. << >> \in Seq(LogEvents)
    OBVIOUS
  <2> QED BY <1>2, <2>1 DEF LogType
<1>6. logPhase \in {"serving", "closing", "shutDown"}
  BY <1>1, <1>2 DEF LevelInv
<1>7. \A f \in ToSet(buffered[w]) : f.by = w /\ before # "disposed"
  BY <1>1, NothingInOrder DEF EndInv, LineInv, LineOf
<1>8. EndInv'
  <2>1. \A v \in LogWorkers : /\ logWorkers'[v] \notin {"running", "shuttingDown"} => buffered'[v] = << >>
                              /\ logPhase' = "shutDown" => logWorkers'[v] \notin {"running", "shuttingDown"} /\ sent'[v] = << >>
    BY <1>2, <1>3, <1>4 DEF EndInv
  <2>2. ASSUME NEW f \in lostEvents' PROVE f.by \in LogWorkers /\ logWorkers'[f.by] = "killed"
    <3>1. CASE f \in lostEvents
      <4>1. f.by \in LogWorkers /\ logWorkers[f.by] = "killed"
        BY <3>1 DEF EndInv
      <4>2. f.by # w
        BY <1>1, <1>2, <4>1
      <4> QED BY <1>3, <4>1, <4>2
    <3>2. CASE f \in ToSet(buffered[w])
      BY <1>4, <1>7, <3>2
    <3> QED BY <1>2, <3>1, <3>2
  <2> QED BY <2>1, <2>2 DEF EndInv
<1>9. \A f \in OnTheWay : f \in OnTheWay'
  <2> SUFFICES ASSUME NEW f \in OnTheWay PROVE f \in OnTheWay'
    OBVIOUS
  <2>1. CASE f \in lostEvents
    BY <1>2, <2>1, OnTheWayMeans
  <2>2. ASSUME NEW v \in LogWorkers, f \in ToSet(buffered[v]) \cup ToSet(sent[v])
        PROVE  f \in OnTheWay'
    <3>1. CASE v = w /\ f \in ToSet(buffered[v])
      BY <1>2, <3>1, OnTheWayMeans
    <3>2. CASE ~(v = w /\ f \in ToSet(buffered[v]))
      <4>1. f \in ToSet(buffered'[v]) \cup ToSet(sent'[v])
        BY <1>2, <1>3, <2>2, <3>2
      <4> QED BY <4>1, OnTheWayMeans
    <3> QED BY <3>1, <3>2
  <2> QED BY <2>1, <2>2, OnTheWayMeans
<1>10. CASE UNCHANGED <<events, destinations>>
  <2> USE <1>10 DEF destinations
  <2>1. Logged' = Logged /\ \A v : EventsOf(v)' = EventsOf(v)
    BY DEF Logged, EventsOf
  <2>2. LogType' /\ WrittenInv'
    BY <1>2, <1>5, <2>1 DEF LogType, WrittenInv
  <2>3. LevelInv'
    BY <1>2, <1>6 DEF LevelInv
  <2>4. LineInv'
    <3> SUFFICES ASSUME NEW v \in LogWorkers PROVE LineOf(v)'
      BY DEF LineInv
    <3>1. LineOf(v)
      BY DEF LineInv
    <3>2. InOrder(buffered'[v]) /\ ToSet(buffered'[v]) \subseteq ToSet(buffered[v])
      BY <1>3, <3>1, NothingInOrder DEF LineOf
    <3> QED BY <1>2, <2>1, <3>1, <3>2 DEF LineOf
  <2>5. ASSUME NEW x \in events' PROVE IsComplete(x)'
    <3>1. IsComplete(x)
      BY DEF CompleteInv
    <3> QED BY <1>9, <3>1, CompleteStays
  <2> QED BY <1>8, <2>2, <2>3, <2>4, <2>5 DEF CompleteInv
<1>11. CASE ~UNCHANGED <<events, destinations>>
  <2> DEFINE e == Event("log4js", 1, "error")
  <2>1. EventsOf("log4js") = {} /\ Log("log4js", e) /\ MultiAppend(e)
    BY <1>11 DEF WorkerDies
  <2>2. e \in LogEvents /\ e.by = "log4js" /\ "log4js" \notin LogWorkers
    BY LevelsOrdered, LoggingAssumption DEF Event, LogEvents
  <2> HIDE DEF e
  <2>3. /\ Logged' \subseteq LogEvents /\ IsFiniteSet(events')
        /\ events' = events \cup {[event |-> e, levels |-> appenders]}
    BY <2>1, <2>2, EventLogged
  <2>4. \A v \in LogWorkers : buffered'[v] = buffered[v] \/ buffered'[v] = << >>
    BY <1>3
  <2>5. LineInv' /\ WrittenInv' /\ CompleteInv' /\ console' \in Seq(LogEvents) /\ logFile' \in Seq(LogEvents)
    BY <1>2, <1>9, <2>1, <2>2, <2>4, HandledAtOnce
  <2>6. LogType'
    BY <1>2, <1>5, <2>3, <2>5 DEF LogType
  <2>7. LevelInv'
    BY <1>2, <1>6, <2>3 DEF LevelInv
  <2> QED BY <1>8, <2>5, <2>6, <2>7
<1> QED
  BY <1>10, <1>11

LEMMA ConfigureKeepsInv == ASSUME LoggingInv, Configure PROVE LoggingInv'
<1> USE DEF LoggingInv
<1> DEFINE levels == CASE logPhase = "start" -> OverDefault([levelsGiven.cli EXCEPT !.file = "unset"])
                       [] logPhase = "cli"   -> OverDefault(levelsGiven.cli)
                       [] OTHER              -> levelsGiven.options
<1>1. /\ logPhase \in DOMAIN Configurations /\ logPhase' = Configurations[logPhase]
      /\ appenders' = levels /\ level' = MinLevel(levels.console, levels.file)
      /\ UNCHANGED <<levelsGiven, events, logWorkers, buffered, sent, lostEvents, console, logFile, unfiled>>
  BY DEF Configure, ConfigureMainProcess, childProcesses, destinations
<1>2. levels \in [Appenders -> Levels]
  <2>1. \A given \in [Appenders -> Levels \cup {"unset"}] : OverDefault(given) \in [Appenders -> Levels]
    BY DefaultIsGiven DEF OverDefault, Appenders
  <2>2. [levelsGiven.cli EXCEPT !.file = "unset"] \in [Appenders -> Levels \cup {"unset"}]
    BY DEF LogType, Appenders
  <2> QED BY <2>1, <2>2 DEF LogType
<1>3. PICK l : l = levels
  OBVIOUS
<1> HIDE DEF levels
<1>4. level' \in Levels
  <2>1. l.console \in Levels /\ l.file \in Levels
    BY <1>2, <1>3 DEF Appenders
  <2> QED BY <1>1, <1>3, <2>1 DEF MinLevel
<1>5. /\ logPhase \in {"start", "cli", "constructing", "configured"}
      /\ logPhase' \in {"cli", "constructing", "configured", "serving"}
  BY <1>1 DEF Configurations
<1>6. Logged' = Logged
  BY <1>1 DEF Logged
<1>7. LogType'
  <2>1. logPhase' \in DOMAIN Configurations \cup {"serving", "closing", "shutDown"}
    BY <1>5 DEF Configurations
  <2> QED BY <1>1, <1>2, <1>4, <1>6, <2>1 DEF LogType
<1>8. LevelInv'
  <2>1. level' = MinLevel(appenders'.console, appenders'.file)
    BY <1>1
  <2>2. /\ \A w \in LogWorkers : logWorkers[w] = "none"
        /\ \A x \in events : x.event.by = "main"
    BY <1>5 DEF LevelInv
  <2> QED BY <1>1, <2>1, <2>2 DEF LevelInv
<1>9. EndInv'
  BY <1>1, <1>5 DEF EndInv
<1> QED
  BY <1>1, <1>7, <1>8, <1>9, LinesStay

LEMMA LoggingNext == LoggingInv /\ [Next]_pluginsVars => LoggingInv'
<1> SUFFICES ASSUME LoggingInv, [Next]_pluginsVars PROVE LoggingInv'
  OBVIOUS
<1>1. CASE UNCHANGED logVars
  <2> USE <1>1 DEF logVars
  <2>1. Logged' = Logged
    BY DEF Logged
  <2>2. LogType' /\ LevelInv' /\ EndInv'
    BY <2>1 DEF LoggingInv, LogType, LevelInv, EndInv
  <2> QED BY <2>2, LinesStay DEF LoggingInv
<1>2. LoggingStep \/ UNCHANGED logVars
  BY DEF Next, pluginsVars
<1>3. CASE Configure
  BY <1>3, ConfigureKeepsInv
<1>4. ASSUME NEW phase \in {"closing", "shutDown"}, logPhase' = phase,
             UNCHANGED <<levelsGiven, appenders, level, events, logWorkers, buffered, sent, lostEvents>>,
             UNCHANGED <<console, logFile, unfiled>>, logPhase \in {"serving", "closing"},
             phase = "shutDown" => \A w \in LogWorkers : logWorkers[w] \in {"none", "dead", "killed"} /\ sent[w] = << >>
      PROVE  LoggingInv'
  <2>1. Logged' = Logged
    BY <1>4 DEF Logged
  <2>2. LogType'
    BY <1>4, <2>1 DEF LoggingInv, LogType
  <2>3. LevelInv' /\ EndInv'
    BY <1>4 DEF LoggingInv, LevelInv, EndInv
  <2> QED BY <1>4, <2>2, <2>3, LinesStay DEF LoggingInv
<1>5. CASE ShutdownMain
  BY <1>4, <1>5 DEF ShutdownMain, childProcesses, destinations
<1>6. CASE ShutdownDone
  BY <1>4, <1>6 DEF ShutdownDone, childProcesses, destinations
<1>7. ASSUME NEW w \in LogWorkers, NEW to \in {"running", "shuttingDown", "disposed"},
             logWorkers' = [logWorkers EXCEPT ![w] = to], logPhase # "shutDown", logWorkers[w] # "killed",
             logWorkers[w] = "none" => logPhase = "serving", to = "disposed" => buffered[w] = << >>,
             UNCHANGED <<levelsGiven, logPhase, appenders, level, events, buffered, sent, lostEvents>>,
             UNCHANGED <<console, logFile, unfiled>>
      PROVE  LoggingInv'
  <2>1. Logged' = Logged
    BY <1>7 DEF Logged
  <2>2. LogType'
    <3>1. logWorkers' \in [LogWorkers -> {"none", "running", "shuttingDown", "disposed", "dead", "killed"}]
      BY <1>7 DEF LoggingInv, LogType
    <3> QED BY <1>7, <2>1, <3>1 DEF LoggingInv, LogType
  <2>3. \A v \in LogWorkers : logWorkers'[v] = IF v = w THEN to ELSE logWorkers[v]
    BY <1>7 DEF LoggingInv, LogType
  <2>4. LevelInv'
    BY <1>7, <2>3 DEF LoggingInv, LevelInv
  <2>5. EndInv'
    BY <1>7, <2>3 DEF LoggingInv, EndInv
  <2> QED BY <1>7, <2>2, <2>4, <2>5, LinesStay DEF LoggingInv
<1>8. ASSUME NEW w \in LogWorkers, ConfigureChildProcess(w) PROVE LoggingInv'
  BY <1>7, <1>8 DEF ConfigureChildProcess, destinations
<1>9. ASSUME NEW w \in LogWorkers, BeginDispose(w) PROVE LoggingInv'
  <2>1. logPhase # "shutDown"
    BY <1>9 DEF LoggingInv, EndInv, BeginDispose
  <2> QED BY <1>7, <1>9, <2>1 DEF BeginDispose, destinations
<1>10. ASSUME NEW w \in LogWorkers, DisposeCompleted(w) PROVE LoggingInv'
  <2>1. logPhase # "shutDown"
    BY <1>10 DEF LoggingInv, EndInv, DisposeCompleted
  <2> QED BY <1>7, <1>10, <2>1 DEF DisposeCompleted, Flushed, destinations
<1> QED
  BY <1>1, <1>2, <1>3, <1>5, <1>6, <1>8, <1>9, <1>10, MainLogsKeepsInv, WorkerLogsKeepsInv, WorkerWritesKeepsInv,
     ServerReceivesKeepsInv, WorkerDiesKeepsInv DEF LoggingStep

\* The log of all processes is complete, in order and of the levels that the options set, however the children end.
THEOREM AllIsLogged == Spec => []LogsAreComplete
<1>1. Spec => []LoggingInv
  BY LoggingInit, LoggingNext, PTL DEF Spec
<1> QED
  BY <1>1, LogsImplied, PTL

-----------------------------------------------------------------------------
(* Plugin options *)

\* That the asked options count, of the parts that do not run too.
OptionsInv == OptionsType /\ AskedOptionsCount

LEMMA OptionsInit == Init => OptionsInv
<1> SUFFICES ASSUME Init PROVE OptionsInv
  OBVIOUS
<1>1. InitOptions \/ SimplestOptions
  BY DEF Init
<1>2. CASE InitOptions
  <2>1. asked.sets \subseteq OptionKeys
    BY <1>2 DEF InitOptions, OptionKeys
  <2>2. ASSUME NEW f \in {"named", "standard", "lastResort"}
        PROVE  toolFiles[f].sets \subseteq OptionKeys /\ toolFiles[f].state \in {"fine", "absent", "broken"}
    <3>1. toolFiles[f] \in ToolFile
      <4> HIDE DEF ToolFile
      <4> QED BY <1>2 DEF InitOptions
    <3> QED BY <3>1 DEF ToolFile, OptionKeys
  <2> QED BY <1>2, <2>1, <2>2 DEF InitOptions, OptionsInv, OptionsType, AskedOptionsCount
<1>3. CASE SimplestOptions
  BY <1>3 DEF SimplestOptions, OptionsInv, OptionsType, AskedOptionsCount
<1> QED
  BY <1>1, <1>2, <1>3

LEMMA OptionsNext == OptionsInv /\ [Next]_pluginsVars => OptionsInv'
<1> SUFFICES ASSUME OptionsInv, [Next]_pluginsVars
             PROVE  OptionsInv'
  OBVIOUS
<1>1. LoadOptions \/ UNCHANGED optionVars
  BY DEF Next, pluginsVars
<1>2. CASE LoadOptions
  <2>1. AskedOptionsCount'
    BY <1>2, LoadedOptionsCount DEF OptionsInv
  <2>2. OptionsType'
    BY <1>2 DEF LoadOptions, OptionsInv, OptionsType
  <2> QED BY <2>1, <2>2 DEF OptionsInv
<1>3. CASE UNCHANGED optionVars
  BY <1>3 DEF optionVars, OptionsInv, OptionsType, AskedOptionsCount, State
<1> QED
  BY <1>1, <1>2, <1>3

\* MochaOptionsLoader, JestConfigLoader, the stryker-karma.conf, BabelConfigReader, ConfigLoader of webpack and
\* TypescriptOptionsEditor: whatever the files say, and whichever are missing, the user has the last word on what is
\* asked, except where Stryker must have its way, and a named file that was not read is told of.
THEOREM AskedOptionsAreUsed == Spec => []AskedOptionsCount
<1>1. OptionsInv => AskedOptionsCount
  BY DEF OptionsInv
<1> QED
  BY <1>1, OptionsInit, OptionsNext, PTL DEF Spec

-----------------------------------------------------------------------------
(* The initializer *)

\* Nothing is written before the questions are answered, and what is written will run.
InitializerInv ==
  /\ AnswersType
  /\ initConfig # NoConfig => initPhase \in {"install", "gitignore", "resolved"} /\ WillRun(initConfig, unfetched)

\* An answer is one of the choices.
LEMMA ChoicesAreTyped ==
  ASSUME AnswersType
  PROVE  /\ SelectPreset \/ SelectTestRunner \/ SelectTestFramework \/ SelectMutator => AnswersType'
         /\ SelectTranspilers \/ SelectReporters => AnswersType'
<1> DEFINE Transpilers == Seq(ToSet(TranspilerOptions))
           Reporters == Seq(ToSet(ReporterOptions) \cup ToSet(BuiltIn))
<1>1. /\ answers \in [runner : Runners, framework : Frameworks, mutator : MutatorNames,
                      transpilers : Transpilers, reporters : Reporters, preset : SUBSET Presets]
      /\ IsInjective(answers.transpilers)
      /\ answers.preset = {} \/ \E p \in Presets : answers.preset = {p}
  BY DEF AnswersType
<1>2. AnswersType' <=>
        /\ answers' \in [runner : Runners, framework : Frameworks, mutator : MutatorNames,
                         transpilers : Transpilers, reporters : Reporters, preset : SUBSET Presets]
        /\ IsInjective(answers'.transpilers)
        /\ answers'.preset = {} \/ \E p \in Presets : answers'.preset = {p}
  BY DEF AnswersType
<1> HIDE DEF Transpilers, Reporters
<1>3. ASSUME SelectPreset PROVE AnswersType'
  <2>1. PICK ps \in {{p} : p \in Presets} \cup {{}} : answers' = [answers EXCEPT !["preset"] = ps]
    BY <1>3 DEF SelectPreset, Answer, Presets
  <2> QED BY <1>1, <1>2, <2>1
<1>4. ASSUME SelectTestRunner PROVE AnswersType'
  <2>1. PICK r \in Runners : answers' = [answers EXCEPT !["runner"] = r]
    BY <1>4 DEF SelectTestRunner, Answer, TestRunnerChoices, Found, Runners
  <2> QED BY <1>1, <1>2, <2>1
<1>5. ASSUME SelectTestFramework PROVE AnswersType'
  <2>1. PICK f \in Frameworks : answers' = [answers EXCEPT !["framework"] = f]
    BY <1>5 DEF SelectTestFramework, Answer, FrameworkChoices, FrameworksFor, Found, Frameworks
  <2> QED BY <1>1, <1>2, <2>1
<1>6. ASSUME SelectMutator PROVE AnswersType'
  <2>1. PICK m \in MutatorNames : answers' = [answers EXCEPT !["mutator"] = m]
    BY <1>6 DEF SelectMutator, Answer, MutatorChoices, Found, MutatorNames
  <2> QED BY <1>1, <1>2, <2>1
<1>7. ASSUME SelectTranspilers PROVE AnswersType'
  <2>1. PICK options \in FoundInOrder(TranspilerOptions) : \E ts \in TranspilerChoices(options) :
               answers' = [answers EXCEPT !["transpilers"] = ts]
    BY <1>7 DEF SelectTranspilers, Answer
  <2>2. PICK chosen : answers' = [answers EXCEPT !["transpilers"] = Filter(options, chosen)]
    BY <2>1 DEF TranspilerChoices
  <2>3. options \in Transpilers /\ IsInjective(options)
    <3>1. options = TranspilerOptions \/ options = << >>
      BY DEF FoundInOrder
    <3>2. << >> \in Transpilers
      BY DEF Transpilers
    <3>3. IsInjective(<< >>)
      BY DEF IsInjective
    <3> QED BY <3>1, <3>2, <3>3, NamesAreFoundOnce DEF Transpilers
  <2>4. Filter(options, chosen) \in Transpilers /\ IsInjective(Filter(options, chosen))
    BY <2>3, FilterKeeps DEF IsFiltered, Transpilers
  <2> QED BY <1>1, <1>2, <2>2, <2>4
<1>8. ASSUME SelectReporters PROVE AnswersType'
  <2>1. PICK options \in FoundInOrder(ReporterOptions) : \E rs \in ReporterChoices(options) :
               answers' = [answers EXCEPT !["reporters"] = rs]
    BY <1>8 DEF SelectReporters, Answer
  <2>2. PICK chosen : answers' = [answers EXCEPT !["reporters"] = Filter(options \o BuiltIn, chosen)]
    BY <2>1 DEF ReporterChoices
  <2>3. options \in Seq(ToSet(ReporterOptions) \cup ToSet(BuiltIn))
    <3>1. options = ReporterOptions \/ options = << >>
      BY DEF FoundInOrder
    <3>2. ReporterOptions \in Seq(ToSet(ReporterOptions))
      BY NamesAreFoundOnce
    <3> DEFINE names == ToSet(ReporterOptions)   own == ToSet(BuiltIn)
    <3> HIDE DEF names, own
    <3>3. ReporterOptions \in Seq(names)
      BY <3>2 DEF names
    <3>4. ReporterOptions \in Seq(names \cup own) /\ << >> \in Seq(names \cup own)
      BY <3>3
    <3> QED BY <3>1, <3>4 DEF names, own
  <2>4. BuiltIn \in Seq(ToSet(ReporterOptions) \cup ToSet(BuiltIn))
    <3>1. DOMAIN BuiltIn = 1 .. 4 /\ BuiltIn \in Seq({BuiltIn[i] : i \in DOMAIN BuiltIn})
      BY DEF BuiltIn
    <3> QED BY <3>1 DEF ToSet
  <2>5. options \o BuiltIn \in Seq(ToSet(ReporterOptions) \cup ToSet(BuiltIn))
    BY <2>3, <2>4, ElementsOfConcatenation
  <2>6. Filter(options \o BuiltIn, chosen) \in Reporters
    BY <2>5, FilterKeeps DEF Reporters
  <2> QED BY <1>1, <1>2, <2>2, <2>6
<1> QED
  BY <1>3, <1>4, <1>5, <1>6, <1>7, <1>8

LEMMA InitializerInit == Init => InitializerInv
<1> SUFFICES ASSUME Init PROVE InitializerInv
  OBVIOUS
<1>1. answers = NoAnswers /\ initConfig = NoConfig
  BY DEF Init, InitInitializer, SimplestInitializer
<1>2. null \in Runners /\ null \in Frameworks /\ null \in MutatorNames
  BY DEF Runners, Frameworks, MutatorNames
<1>3. AnswersType
  BY <1>1, <1>2 DEF NoAnswers, AnswersType, IsInjective
<1> QED
  BY <1>1, <1>3 DEF InitializerInv

LEMMA InitializerNext == InitializerInv /\ [Next]_pluginsVars => InitializerInv'
<1> SUFFICES ASSUME InitializerInv, [Next]_pluginsVars
             PROVE  InitializerInv'
  OBVIOUS
<1>1. InitializerStep \/ UNCHANGED initVars
  BY DEF Next, pluginsVars
<1> DEFINE Questions == \/ SelectPreset \/ SelectTestRunner \/ SelectTestFramework \/ SelectMutator
                        \/ SelectTranspilers \/ SelectReporters
<1>2. ASSUME answers' = answers PROVE AnswersType'
  BY <1>2 DEF InitializerInv, AnswersType
<1>4. CASE Questions
  <2>1. initConfig = NoConfig
    BY <1>4 DEF InitializerInv, SelectPreset, SelectTestRunner, SelectTestFramework, SelectMutator,
                SelectTranspilers, SelectReporters
  <2>2. initConfig' = initConfig
    BY <1>4 DEF SelectPreset, SelectTestRunner, SelectTestFramework, SelectMutator,
                SelectTranspilers, SelectReporters, Answer
  <2>3. AnswersType'
    BY <1>4, ChoicesAreTyped DEF InitializerInv
  <2> QED BY <2>1, <2>2, <2>3 DEF InitializerInv
<1>5. CASE GuardForExistingConfig \/ InstallNpmDependencies \/ AddStrykerTempFolder \/ UNCHANGED initVars
  <2>1. answers' = answers /\ initConfig' = initConfig /\ unfetched' = unfetched
    BY <1>5 DEF GuardForExistingConfig, InstallNpmDependencies, AddStrykerTempFolder, initVars
  <2>2. initConfig # NoConfig => initPhase' \in {"install", "gitignore", "resolved"}
    BY <1>5 DEF InitializerInv, GuardForExistingConfig, InstallNpmDependencies, AddStrykerTempFolder, initVars
  <2>3. WillRun(initConfig, unfetched) => WillRun(initConfig, unfetched)'
    BY <2>1 DEF WillRun, AcceptedByRun, LoadedPlugins, Dependencies, ChosenPackages, ToBeNamed
  <2> QED BY <1>2, <2>1, <2>2, <2>3 DEF InitializerInv
<1>6. CASE WriteStrykerConfig
  <2>1. answers' = answers
    BY <1>6 DEF WriteStrykerConfig
  <2>2. CASE initPhase' = "rejected" /\ UNCHANGED <<configFiles, unfetched, initConfig>>
    <3>1. initConfig = NoConfig
      BY <1>6 DEF InitializerInv, WriteStrykerConfig
    <3> QED BY <1>2, <2>1, <2>2, <3>1 DEF InitializerInv
  <2>3. CASE /\ initPhase' = "install"
             /\ \E failed \in SUBSET (IF answers.preset # {} THEN {} ELSE Dependencies \cap DOMAIN InitStrykerConfig) :
                  /\ unfetched' = failed
                  /\ initConfig' \in WritePreset \cup WriteCustom(failed)
    <3>1. WillRun(initConfig', unfetched')
      <4>1. CASE answers.preset = {}
        <5>1. unfetched' \in SUBSET (Dependencies \cap DOMAIN InitStrykerConfig)
              /\ initConfig' = ConfigObject(Dependencies \ unfetched')
          BY <2>3, <4>1 DEF WritePreset, WriteCustom
        <5> QED BY <4>1, <5>1, AnswersRun DEF InitializerInv
      <4>2. CASE answers.preset # {}
        <5>1. PICK p \in Presets : answers.preset = {p}
          BY <4>2 DEF InitializerInv, AnswersType
        <5>2. unfetched' = {} /\ initConfig' = p.config
          BY <2>3, <4>2, <5>1 DEF WritePreset, WriteCustom
        <5> QED BY <5>1, <5>2, PresetsRun
      <4> QED BY <4>1, <4>2
    <3>2. WillRun(initConfig, unfetched)'
      BY <2>1, <3>1 DEF WillRun, AcceptedByRun, LoadedPlugins, Dependencies, ChosenPackages, ToBeNamed
    <3> QED BY <1>2, <2>1, <2>3, <3>2 DEF InitializerInv
  <2> QED BY <1>6, <2>2, <2>3 DEF WriteStrykerConfig
<1> QED
  BY <1>1, <1>4, <1>5, <1>6 DEF InitializerStep

\* StrykerConfigWriter and StrykerInitializer: what is written, run accepts, and its plugins are installed, whatever
\* of Stryker's packages npm comes up with, but where it has no runner or no mutator at all, for which init writes the
\* empty name (InitializedConfigRuns), or where one that was to switch the coverage analysis off could not be asked.
THEOREM InitializedConfigsRun == Spec => []InitializedConfigRuns
<1>1. InitializerInv => InitializedConfigRuns
  BY DEF InitializerInv, InitializedConfigRuns, WillRun
<1> QED
  BY <1>1, InitializerInit, InitializerNext, PTL DEF Spec

-----------------------------------------------------------------------------
(* Source files *)

\* What is computed is computed of the mutant, and in this order.
SourceInv ==
  /\ InText /\ mapper \in {"transpiled", "pass through"}
  /\ original \in {None, GetLocation(text, range[1], range[2])}
  /\ location \in {None, TranspiledLocationFor(original)} /\ (original = None => location = None)

LEMMA SourceInvImplies == SourceInv => LocationsAreExact
<1> SUFFICES ASSUME SourceInv PROVE LocationsAreExact
  OBVIOUS
<1>1. original # None => /\ PositionIsExact(original.start, range[1])
                         /\ PositionIsExact(original.end, range[2])
                         /\ LinesShowTheMutant
  BY MutantIsShown DEF SourceInv
<1>2. ASSUME location # None, mapper = "transpiled" PROVE LocatedInItsFile
  BY <1>2, MappedFileIsIts DEF SourceInv
<1>3. ASSUME location # None, mapper # "transpiled"
      PROVE  location.start = original.start /\ location.end = original.end
  <2>1. mapper = "pass through" /\ location = TranspiledLocationFor(original)
    BY <1>3 DEF SourceInv
  <2>2. location = [file |-> "source file", start |-> original.start, end |-> original.end]
    BY <2>1 DEF TranspiledLocationFor
  <2> QED BY <2>2
<1> QED
  BY <1>1, <1>2, <1>3 DEF LocationsAreExact

LEMMA SourceInit == Init => SourceInv
<1> SUFFICES ASSUME Init PROVE SourceInv
  OBVIOUS
<1>1. original = None /\ location = None
  BY DEF Init, InitSources, SimplestSources
<1>2. mapper \in {"transpiled", "pass through"}
  BY DEF Init, InitSources, SimplestSources, MapperFor
<1>3. text \in Seq(Characters)
  <2>1. CASE InitSources
    <3>1. CASE \E n \in 0 .. TextLength : text \in [1 .. n -> Characters]
      <4>1. PICK n \in 0 .. TextLength : text \in [1 .. n -> Characters]
        BY <3>1
      <4> HIDE DEF Characters
      <4> QED BY <4>1
    <3>2. CASE text = <<"a", LF, "a">>
      <4>1. "a" \in Characters /\ LF \in Characters
        BY DEF Characters
      <4> HIDE DEF Characters
      <4> QED BY <3>2, <4>1
    <3> QED BY <2>1, <3>1, <3>2 DEF InitSources
  <2>2. CASE SimplestSources
    <3>1. text = << >>
      BY <2>2 DEF SimplestSources
    <3> HIDE DEF Characters
    <3> QED BY <3>1
  <2> QED BY <2>1, <2>2 DEF Init
<1>4. range \in (0 .. Len(text)) \X (0 .. Len(text)) /\ range[1] <= range[2]
  <2>1. CASE InitSources
    BY <2>1 DEF InitSources
  <2>2. CASE SimplestSources
    <3>1. text = << >> /\ range = <<0, 0>>
      BY <2>2 DEF SimplestSources
    <3>2. Len(text) = 0 /\ range[1] = 0 /\ range[2] = 0
      BY <3>1
    <3>3. <<0, 0>> \in (0 .. 0) \X (0 .. 0)
      OBVIOUS
    <3> QED BY <3>1, <3>2, <3>3
  <2> QED BY <2>1, <2>2 DEF Init
<1> QED
  BY <1>1, <1>2, <1>3, <1>4 DEF SourceInv, InText

LEMMA SourceNext == SourceInv /\ [Next]_pluginsVars => SourceInv'
<1> SUFFICES ASSUME SourceInv, [Next]_pluginsVars
             PROVE  SourceInv'
  OBVIOUS
<1>1. SourceStep \/ UNCHANGED sourceVars
  BY DEF Next, pluginsVars
<1>2. text' = text /\ range' = range /\ mapper' = mapper /\ transpiledFiles' = transpiledFiles /\ unmapped' = unmapped
  BY <1>1 DEF SourceStep, Locate, MapLocation, sourceVars
<1>3. InText' /\ mapper' \in {"transpiled", "pass through"}
  BY <1>2 DEF SourceInv, InText
<1>4. /\ original' \in {None, GetLocation(text, range[1], range[2])}
      /\ location' \in {None, TranspiledLocationFor(original')} /\ (original' = None => location' = None)
  BY <1>1 DEF SourceInv, SourceStep, Locate, MapLocation, sourceVars
<1>5. (TranspiledLocationFor(original))' = TranspiledLocationFor(original')
  BY <1>2 DEF TranspiledLocationFor, BrokenMap, Mapping, SourceMapOf, HasSourceMap, GeneratedPosition
<1> QED
  BY <1>2, <1>3, <1>4, <1>5 DEF SourceInv

\* SourceFile, TestableMutant and SourceMapper: for texts of any length with all kinds of line breaks, for every
\* mutant in them and for any number of comments in the transpiled files, the position, the lines that are shown and
\* the transpiled file are the mutant's.
THEOREM LocationsAreRight == Spec => []LocationsAreExact
<1> QED
  BY SourceInvImplies, SourceInit, SourceNext, PTL DEF Spec

-----------------------------------------------------------------------------
(* The mutators *)

\* The mutants of a file are those that a mutator finds in its tree, and it is a mutator that is installed.
MutatorsInv ==
  /\ file.tree \in Trees \cup ReactTrees
  /\ file.tree \in ReactTrees => IsReact(file.tree)
  /\ IsReact(file.tree) => file.extension # ".vue"
  /\ installed \subseteq {"javascript", "typescript"}
  /\ mutation # "done" \/ HasNoScript => mutantsFound = {}
  /\ mutation = "done" /\ ~HasNoScript =>
       \E name \in IF IsReact(file.tree) THEN {"react"} ELSE {"javascript", "typescript"} :
         mutantsFound = MutantsBy(name, file.tree)

LEMMA OrdinaryTrees == \A tree \in Trees : ~IsReact(tree)
<1> SUFFICES ASSUME NEW tree \in Trees PROVE ~IsReact(tree)
  OBVIOUS
<1>1. CASE tree \in Conditions
  BY <1>1 DEF Conditions, IsReact
<1>2. CASE tree \in Booleans
  BY <1>2 DEF Booleans, IsReact
<1>3. CASE tree \in LiteralUnits
  BY <1>3 DEF LiteralUnits, IsReact
<1>4. CASE tree \in [unary : {"!", "+", "-", "~", "++", "--", "typeof"}]
  BY <1>4 DEF IsReact
<1> QED
  BY <1>1, <1>2, <1>3, <1>4 DEF Trees, Units

LEMMA ChosenAreInstalled ==
  ASSUME installed \subseteq {"javascript", "typescript"}, IsReact(file.tree) => file.extension # ".vue"
  PROVE  ChosenMutator \subseteq IF IsReact(file.tree) THEN {"react"} ELSE {"javascript", "typescript"}
<1>1. CASE IsReact(file.tree) /\ file.extension # ".vue"
  <2>1. ChosenMutator = {"react"}
    BY <1>1 DEF ChosenMutator
  <2> QED BY <1>1, <2>1
<1>2. CASE ~IsReact(file.tree) /\ file.extension = ".vue"
  <2>1. ChosenMutator = ScriptMutator(file.lang)
    BY <1>2 DEF ChosenMutator
  <2> QED BY <1>2, <2>1 DEF ScriptMutator
<1>3. CASE ~IsReact(file.tree) /\ file.extension # ".vue"
  <2>1. ChosenMutator = ModuleMutator
    BY <1>3 DEF ChosenMutator
  <2> QED BY <1>3, <2>1 DEF ModuleMutator
<1> QED
  BY <1>1, <1>2, <1>3

LEMMA MutatorsInit == Init => MutatorsInv
<1> SUFFICES ASSUME Init PROVE MutatorsInv
  OBVIOUS
<1>1. mutation = "none" /\ mutantsFound = {}
  BY DEF Init, InitMutators, SimplestMutators
<1>2. installed \subseteq {"javascript", "typescript"}
  BY DEF Init, InitMutators, SimplestMutators
<1>3. file.tree \in Trees \cup ReactTrees
  <2>1. CASE InitMutators
    <3>1. file \in Files
      BY <2>1 DEF InitMutators
    <3> HIDE DEF Trees, ReactTrees
    <3> QED BY <3>1 DEF Files
  <2>2. CASE SimplestMutators
    <3>1. file.tree = [unary |-> "!"]
      BY <2>2 DEF SimplestMutators
    <3> QED BY <3>1 DEF Trees, Units
  <2> QED BY <2>1, <2>2 DEF Init
<1>4. file.tree \in ReactTrees => IsReact(file.tree)
  BY DEF ReactTrees, IsReact
<1>5. IsReact(file.tree) => file.extension # ".vue"
  <2>1. CASE InitMutators
    <3>1. file \in Files
      BY <2>1 DEF InitMutators
    <3> HIDE DEF Trees, ReactTrees, IsReact
    <3>2. file.extension = ".vue" => file.tree \in Trees
      BY <3>1 DEF Files
    <3> QED BY <3>2, OrdinaryTrees
  <2>2. CASE SimplestMutators
    <3>1. file.extension = ".js"
      BY <2>2 DEF SimplestMutators
    <3> QED BY <3>1
  <2> QED BY <2>1, <2>2 DEF Init
<1> QED
  BY <1>1, <1>2, <1>3, <1>4, <1>5 DEF MutatorsInv

LEMMA MutatorsNext == MutatorsInv /\ [Next]_pluginsVars => MutatorsInv'
<1> SUFFICES ASSUME MutatorsInv, [Next]_pluginsVars
             PROVE  MutatorsInv'
  OBVIOUS
<1>1. Mutate \/ UNCHANGED mutatorVars
  BY DEF Next, pluginsVars, MutatorStep
<1>2. file' = file /\ installed' = installed
  BY <1>1 DEF Mutate, mutatorVars
<1>3. HasNoScript' = HasNoScript
  BY <1>2 DEF HasNoScript
<1>4. CASE Mutate
  <2>1. mutation = "none" /\ mutantsFound = {}
    BY <1>4 DEF MutatorsInv, Mutate
  <2>2. CASE HasNoScript \/ mutantsFound' = mutantsFound
    <3>1. mutantsFound' = {}
      BY <1>4, <2>1, <2>2 DEF Mutate
    <3>2. mutation' = "done" => HasNoScript \/ mutantsFound' # mutantsFound \/ \E name \in ChosenMutator : mutantsFound' = MutantsBy(name, file.tree)
      BY <1>4 DEF Mutate
    <3>3. ChosenMutator \subseteq IF IsReact(file.tree) THEN {"react"} ELSE {"javascript", "typescript"}
      BY ChosenAreInstalled DEF MutatorsInv
    <3> QED BY <1>2, <1>3, <2>1, <3>1, <3>2, <3>3 DEF MutatorsInv
  <2>3. CASE ~HasNoScript /\ mutantsFound' # mutantsFound
    <3>1. PICK name \in ChosenMutator : mutation' = "done" /\ mutantsFound' = MutantsBy(name, file.tree)
      BY <1>4, <2>3 DEF Mutate
    <3>2. name \in IF IsReact(file.tree) THEN {"react"} ELSE {"javascript", "typescript"}
      BY ChosenAreInstalled DEF MutatorsInv
    <3> QED BY <1>2, <1>3, <2>3, <3>1, <3>2 DEF MutatorsInv
  <2> QED BY <2>2, <2>3
<1>5. CASE UNCHANGED mutatorVars
  BY <1>3, <1>5 DEF MutatorsInv, mutatorVars
<1> QED
  BY <1>1, <1>4, <1>5

\* The mutators of Javascript, Typescript and React: none mutates the same place to the same code twice, whichever
\* file it is and however many methods, statements and attributes there are; `while (true)` and a condition in two
\* pairs of parentheses are the exceptions.
THEOREM MutantsAreDistinct == Spec => []NoMutantTwice
<1>1. ASSUME MutatorsInv PROVE NoMutantTwice
  <2>1. CASE mutantsFound = {}
    BY <2>1 DEF NoMutantTwice
  <2>2. CASE /\ mutantsFound # {} /\ ~(IsBoolean(file.tree) /\ file.tree.statement # "none")
             /\ ~(IsCondition(file.tree) /\ file.tree.shape = "doubleParentheses" /\ file.tree.statement # "none")
    <3>1. PICK name \in IF IsReact(file.tree) THEN {"react"} ELSE {"javascript", "typescript"} :
            mutantsFound = MutantsBy(name, file.tree)
      BY <1>1, <2>2 DEF MutatorsInv
    <3>2. TellsApart(mutantsFound)
      BY <1>1, <2>2, <3>1, MutantsAreToldApart DEF MutatorsInv
    <3> QED BY <3>2 DEF NoMutantTwice, TellsApart
  <2> QED BY <2>1, <2>2 DEF NoMutantTwice
<1> QED
  BY <1>1, MutatorsInit, MutatorsNext, PTL DEF Spec

\* JavaScriptMutator and TypescriptMutator: they find the same mutants in a tree, whichever of them gets it, and where
\* they differ, for the reasons that MutatorsApart lists by name, it is in one kind of mutants only.
THEOREM LanguagesGetTheSame == Spec => []MutatorsAgree
<1>1. ASSUME MutatorsInv PROVE MutatorsAgree
  <2> SUFFICES ASSUME mutation = "done", ~HasNoScript, ~IsReact(file.tree), NEW name \in {"javascript", "typescript"}
               PROVE  MayDiffer(file.tree, mutantsFound, MutantsBy(name, file.tree))
    BY DEF MutatorsAgree, MayDiffer
  <2>1. PICK finder \in {"javascript", "typescript"} : mutantsFound = MutantsBy(finder, file.tree)
    BY <1>1 DEF MutatorsInv
  <2>2. file.tree \in Trees
    BY <1>1 DEF MutatorsInv
  <2>3. /\ MutantsBy("javascript", file.tree) = JavaScriptMutants(file.tree)
        /\ MutantsBy("typescript", file.tree) = TypescriptMutants(file.tree)
    BY DEF MutantsBy
  <2>4. MayDiffer(file.tree, JavaScriptMutants(file.tree), TypescriptMutants(file.tree))
    BY <2>2, LanguagesAgree
  <2> QED BY <2>1, <2>3, <2>4 DEF MayDiffer
<1> QED
  BY <1>1, MutatorsInit, MutatorsNext, PTL DEF Spec
=============================================================================
