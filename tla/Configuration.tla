---------------------------- MODULE Configuration ----------------------------
(***************************************************************************)
(* How the options come about: ConfigReader, PluginLoader,                 *)
(* OptionsValidator and OptionsEditorApplier, in the order of              *)
(* buildMainInjector.  Options are a function from keys to values; the key *)
(* of a nested option is its path.  A result is a set: empty for an error. *)
(***************************************************************************)
EXTENDS Objects, Naturals, Sequences, FiniteSets

CONSTANTS CoreSchema,     \* per option of Stryker its valid values and its default
          PluginSchemas,  \* per plugin that can be loaded the schema it contributes
          ListOptions     \* the options that are arrays

\* A plugin expression with a * finds what is beside core, except these packages.
IgnoredPackages == {"core", "api", "util"}
ResolvePluginModules(expressions, packages) ==
  UNION {IF expressions[i] = "*" THEN packages \ IgnoredPackages ELSE {expressions[i]} : i \in DOMAIN expressions}

\* A module that cannot be loaded is logged and skipped.
LoadPlugins(options, packages) ==
  ResolvePluginModules(options.plugins, packages) \cap DOMAIN PluginSchemas

MergedSchema(loaded) ==
  [key \in DOMAIN CoreSchema \cup UNION {DOMAIN PluginSchemas[p] : p \in loaded} |->
     IF \E p \in loaded : key \in DOMAIN PluginSchemas[p]
     THEN PluginSchemas[CHOOSE p \in loaded : key \in DOMAIN PluginSchemas[p]][key]
     ELSE CoreSchema[key]]

----------------------------------------------------------------------------
(* An array is an object with its indexes as keys: the elements are overridden one by one. *)
Overlay(list, override) == override \o SubSeq(list, Len(override) + 1, Len(list))
BugKeepsDefaults(defaults, overrides) == Over(defaults, overrides)
DeepMerge(defaults, overrides) ==
  [key \in DOMAIN defaults \cup DOMAIN overrides |->
     CASE key \notin DOMAIN overrides -> defaults[key]
       [] key \in ListOptions \cap DOMAIN overrides \cap DOMAIN defaults -> Overlay(defaults[key], overrides[key])
       [] OTHER -> overrides[key]]

----------------------------------------------------------------------------
(* Validation fills in the defaults, and checks the two rules that are not in the schema only if the schema is met. *)

SchemaValidate(options, schema) ==
  LET complete == Over(options, [key \in DOMAIN schema |-> schema[key].default])
  IN  IF \A key \in DOMAIN schema : complete[key] \in schema[key].values THEN {complete} ELSE {}

AdditionalValidation(options) ==
  /\ options["thresholds.high"] >= options["thresholds.low"]
  /\ Len(options.transpilers) > 1 => options.coverageAnalysis = "off"

Validate(options, schema) == {o \in SchemaValidate(options, schema) : AdditionalValidation(o)}

DefaultOptions == CHOOSE o \in Validate(<< >>, CoreSchema) : TRUE

\* What the user gives: `cli` the command line, `named` if it names the config file, `file` what that file is.
LoadConfigModule(given) ==
  CASE given.file = "object" -> Validate(given.contents, CoreSchema)
    [] given.file = "function" -> {DeepMerge(DefaultOptions, given.contents)}
    [] given.file = "absent" /\ ~given.named -> {DefaultOptions}
    [] OTHER -> {}

ReadConfig(given) == {DeepMerge(options, given.cli) : options \in LoadConfigModule(given)}

\* The options editors of the plugins come last, and nothing is validated behind them.  They may throw.
ApplyOptionsEditors(options, given) == IF given.editorThrows THEN {} ELSE {Over(given.edits, options)}

ValidateWithPlugins(options, given) == Validate(options, MergedSchema(LoadPlugins(options, given.packages)))

BuildOptions(given) ==
  UNION {ApplyOptionsEditors(options, given) :
         options \in UNION {ValidateWithPlugins(read, given) : read \in ReadConfig(given)}}
=============================================================================
