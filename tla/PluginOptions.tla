---------------------------- MODULE PluginOptions ----------------------------
(***************************************************************************)
(* How the plugins come to the options of their tools: the tool's          *)
(* defaults, what its own config file says, what the user asks for in      *)
(* Stryker's options, and what Stryker must have its way in, one over the  *)
(* other.  Each plugin looks for the file in places of its own, and has a  *)
(* way of its own to go on, or not, when the file cannot be read.          *)
(*                                                                         *)
(* Of the options there are the "needed", that some plugins insist on, the *)
(* "usual", that some have a default for, and "other" ones; an option's    *)
(* value is who has the last word on it.                                   *)
(***************************************************************************)
EXTENDS Objects

CONSTANT OptionTools   \* of "mocha", "mocha5", "jest", "createReactApp", "karma", "babel", "webpack", "typescript"

VARIABLES optionTool,
          asked,          \* Stryker's options: do they name a file, or switch files off, and which options they set
          toolFiles,      \* the named, the standard and the last resort of the files: there or not, and what they set
          toolOptions, optionsPhase,
          reported        \* an error was logged about a file

optionVars == <<optionTool, asked, toolFiles, toolOptions, optionsPhase, reported>>

OptionKeys == {"needed", "usual", "other"}
Insisted == {"needed"}
NoOptions == [k \in {} |-> "tool"]
\* What is in a file that cannot be read does not matter.
ToolFile == [state : {"fine"}, sets : {{}, {"usual"}, OptionKeys}] \cup [state : {"absent", "broken"}, sets : {{}}]

InitOptions ==
  /\ optionTool \in OptionTools
  /\ asked \in [namesFile : BOOLEAN, switchesOff : BOOLEAN, sets : {{}, {"usual"}, OptionKeys}]
  /\ toolFiles \in [named : ToolFile, standard : ToolFile, lastResort : ToolFile]
  /\ toolOptions = NoOptions /\ optionsPhase = "loading" /\ reported = FALSE

By(who, keys) == [k \in keys |-> who]
\* The user's over the file's over the tool's own, and Stryker's over all.
UserFirst(layers) == FoldLeft(LAMBDA over, layer : Over(over, layer), NoOptions, layers)
BugFileOverUser(defaults, fromFile, insisted) ==
  UserFirst(<<By("stryker", insisted), fromFile, By("user", asked.sets), By("tool", defaults)>>)
Layered(defaults, fromFile, insisted) ==
  UserFirst(<<By("stryker", insisted), By("user", asked.sets), fromFile, By("tool", defaults)>>)

Named == IF asked.namesFile THEN "named" ELSE "standard"
State(f) == toolFiles[f].state
Said(f) == By("file", toolFiles[f].sets)

Loaded(options, isReported) == optionsPhase' = "loaded" /\ toolOptions' = options /\ reported' = isReported
Unloadable == optionsPhase' = "rejected" /\ UNCHANGED <<toolOptions, reported>>

----------------------------------------------------------------------------
(* Mocha: from version 6 on it loads its files itself, or throws.  For an older one the plugin reads mocha.opts, *)
(* of which it knows a few options, and not where the tests are.                                                *)

MochaLoadOptions == IF asked.switchesOff THEN "absent" ELSE State(Named)
LoadMocha6Options ==
  IF MochaLoadOptions = "broken" \/ (MochaLoadOptions = "absent" /\ asked.namesFile /\ ~asked.switchesOff)
    THEN Unloadable
    ELSE Loaded(Layered({"usual"}, IF asked.switchesOff THEN NoOptions ELSE Said(Named), {}), FALSE)

ParseOptsFile(f) == By("file", toolFiles[f].sets \ {"usual"})
LoadLegacyMochaOptsFile ==
  LET isLeftOut == asked.switchesOff \/ State(Named) = "absent"
  IN  Loaded(Layered({"usual"}, IF isLeftOut THEN NoOptions ELSE ParseOptsFile(Named), {}),
             asked.namesFile /\ isLeftOut /\ ~asked.switchesOff)

----------------------------------------------------------------------------
(* Jest: the first of the file and package.json that can be read and says anything; an error in one is no error. *)
(* Of a create-react-app project react-scripts makes the configuration, and a named file is warned about.       *)

LoadJestConfig ==
  IF State(Named) = "fine" THEN Said(Named)
  ELSE IF State("lastResort") = "fine" THEN Said("lastResort")
  ELSE NoOptions
LoadCustomJest == Loaded(Layered({}, LoadJestConfig, Insisted), FALSE)
LoadReactScripts ==
  IF State("standard") = "fine" THEN Loaded(Layered({}, Said("standard"), Insisted), asked.namesFile) ELSE Unloadable

----------------------------------------------------------------------------
(* Karma: its file is a function that sets options, and may throw at any of them. *)

LoadKarmaConf ==
  IF ~asked.namesFile THEN Loaded(Layered({"usual"}, NoOptions, Insisted), FALSE)
  ELSE IF State("named") # "broken" THEN Loaded(Layered({"usual"}, Said("named"), Insisted), State("named") = "absent")
  ELSE \E before \in SUBSET OptionKeys : Loaded(Layered({"usual"}, By("file", before), Insisted), TRUE)

----------------------------------------------------------------------------
(* Babel goes on without its file; webpack and Typescript need the one that is named, and then take nothing else. *)
(* Without one webpack gets its context (the "usual"), of the user or the working directory.                     *)

LoadBabelOptions ==
  Loaded(Layered({}, IF asked.switchesOff THEN NoOptions ELSE Said(Named), Insisted),
         ~asked.switchesOff /\ State(Named) # "fine")

LoadWebpackConfig ==
  IF asked.namesFile /\ State("named") # "fine" THEN Unloadable
  ELSE Loaded(IF asked.namesFile THEN Said("named")
              ELSE UserFirst(<<By("user", asked.sets \cap {"usual"}), By("tool", {"usual"})>>), FALSE)

OverrideOptions(tsconfig) == UserFirst(<<By("stryker", Insisted), tsconfig>>)
\* Without a file, what the user gives as `tsconfig` is taken for a tsconfig that was parsed, which it is not.
LoadTSConfig ==
  IF ~asked.namesFile THEN IF asked.sets = {} THEN Loaded(OverrideOptions(NoOptions), FALSE) ELSE Unloadable
  ELSE IF State("named") = "fine" THEN \E hasErrors \in BOOLEAN : Loaded(OverrideOptions(Said("named")), hasErrors)
  ELSE Unloadable

----------------------------------------------------------------------------
LoadOptions ==
  /\ optionsPhase = "loading"
  /\ \/ optionTool = "mocha" /\ LoadMocha6Options
     \/ optionTool = "mocha5" /\ LoadLegacyMochaOptsFile
     \/ optionTool = "jest" /\ LoadCustomJest
     \/ optionTool = "createReactApp" /\ LoadReactScripts
     \/ optionTool = "karma" /\ LoadKarmaConf
     \/ optionTool = "babel" /\ LoadBabelOptions
     \/ optionTool = "webpack" /\ LoadWebpackConfig
     \/ optionTool = "typescript" /\ LoadTSConfig
  /\ UNCHANGED <<optionTool, asked, toolFiles>>

----------------------------------------------------------------------------
\* The last word on an option that the user asks Stryker for is the user's, or Stryker's own; the tool's file comes
\* next, and is missed silently only where none was named, or by Jest, whose loader catches all errors (a broken
\* jest.config.js is as good as none).  Webpack and Typescript have no layer of the user's over a file.
AskedOptionsCount ==
  optionsPhase = "loaded" =>
    /\ optionTool \notin {"webpack", "typescript"} => \A k \in asked.sets : toolOptions[k] \in {"user", "stryker"}
    /\ \A k \in DOMAIN toolOptions : toolOptions[k] = "stryker" => k \in Insisted
    /\ \A k \in asked.sets \cap DOMAIN toolOptions : toolOptions[k] # "tool"
    /\ asked.namesFile /\ State("named") # "fine" =>
         reported \/ asked.switchesOff \/ optionTool = "jest" \/ (optionTool = "mocha5" /\ State("named") = "broken")
=============================================================================
