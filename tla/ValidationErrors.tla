--------------------------- MODULE ValidationErrors ---------------------------
(***************************************************************************)
(* OptionsValidator.schemaValidate(): Ajv tells every schema that an       *)
(* option does not meet, each alternative of a oneOf included, and         *)
(* describeErrors() leaves those out that would confuse the user.  Options *)
(* are refused only if something is left to tell.  A path is a sequence of *)
(* keys; the types of a type error are the set of those it expects.        *)
(***************************************************************************)
EXTENDS Naturals, Sequences

CONSTANT MutatorFields   \* what the object mutator may have in its fields, besides nothing
VARIABLES invalid,       \* what Ajv finds, of each option
          described,     \* the errors that the user is told
          verdict        \* "none", "accepted", "refused"

errorVars == <<invalid, described, verdict>>

Error(path, keyword, types) == [path |-> path, keyword |-> keyword, types |-> types]
TypeError(path, type) == Error(path, "type", {type})
MetaSchemaKeywords == {"anyOf", "allOf", "oneOf"}

----------------------------------------------------------------------------
(* Ajv and the schema of the core, of the options that have alternatives or several rules: what is wrong with a value. *)

\* `mutator` is a string or an object; an object's `plugins` are a list of names or null.
MutatorObjects == [name : {"absent", "string", "number"}, other : BOOLEAN,
                   plugins : MutatorFields, excludedMutations : MutatorFields]
When(condition, errors) == IF condition THEN errors ELSE {}
FieldErrors(field, value, items, alternatives) ==
  LET path == <<"mutator", field>> IN
  When(value = "number", {TypeError(path, "array")})
    \cup When(value = "numbers", {Error(Append(path, "0"), "type", items)})
    \cup When(value \in {"number", "numbers"}, {TypeError(path, t) : t \in alternatives})
PluginsErrors(value) ==
  LET errors == FieldErrors("plugins", value, {"string", "array"}, {"null"})
  IN  errors \cup When(errors # {}, {Error(<<"mutator", "plugins">>, "anyOf", {})})
DescriptorErrors(o) ==
  When(o.name = "absent", {Error(<<"mutator">>, "required", {})})
    \cup When(o.name = "number", {TypeError(<<"mutator", "name">>, "string")})
    \cup When(o.other, {Error(<<"mutator">>, "additionalProperties", {})})
    \cup PluginsErrors(o.plugins)
    \cup FieldErrors("excludedMutations", o.excludedMutations, {"string"}, {})
NoneOf(path, errors) == errors \cup {Error(path, "oneOf", {})}
ObjectErrors(o) ==
  When(DescriptorErrors(o) # {}, NoneOf(<<"mutator">>, DescriptorErrors(o) \cup {TypeError(<<"mutator">>, "string")}))
MutatorErrors ==
  {{}, NoneOf(<<"mutator">>, {TypeError(<<"mutator">>, "string"), TypeError(<<"mutator">>, "object")})}
    \cup {ObjectErrors(o) : o \in MutatorObjects}

Break == <<"thresholds", "break">>
BreakErrors ==
  {{}, NoneOf(Break, {TypeError(Break, "null"), Error(Break, "maximum", {})}),
   NoneOf(Break, {TypeError(Break, "null"), TypeError(Break, "number")})}

LogLevel == <<"logLevel">>
LogLevelErrors == {{}, {Error(LogLevel, "enum", {})}, {Error(LogLevel, "enum", {}), TypeError(LogLevel, "string")}}

InitErrors ==
  /\ invalid \in {m \cup b \cup l : m \in MutatorErrors, b \in BreakErrors, l \in LogLevelErrors}
  /\ described = {} /\ verdict = "none"

----------------------------------------------------------------------------
(* validationErrors.ts *)

StartsWith(path, prefix) == Len(prefix) <= Len(path) /\ \A i \in 1..Len(prefix) : path[i] = prefix[i]

SingleErrors(errors) == {e \in errors : e.keyword \notin MetaSchemaKeywords}
MetaErrors(errors) == errors \ SingleErrors(errors)

\* One of them is shadowed by an error below it, where there are alternatives.
BugShadowsItself(single, meta) ==
  {e \in single : (\E m \in meta : StartsWith(e.path, m.path)) => ~\E other \in single : StartsWith(other.path, e.path)}
RemoveShadowingErrors(single, meta) ==
  {e \in single : (\E m \in meta : StartsWith(e.path, m.path)) =>
                    ~\E other \in single : StartsWith(other.path, e.path) /\ Len(other.path) > Len(e.path)}

MergeTypeErrorsByPath(typeErrors) ==
  {Error(path, "type", UNION {e.types : e \in {x \in typeErrors : x.path = path}}) : path \in {e.path : e \in typeErrors}}

FilterRelevantErrors(errors) ==
  LET shown        == RemoveShadowingErrors(SingleErrors(errors), MetaErrors(errors))
      typeErrors   == {e \in shown : e.keyword = "type"}
      nonTypeErrors == shown \ typeErrors
  IN  nonTypeErrors \cup MergeTypeErrorsByPath({e \in typeErrors : ~\E n \in nonTypeErrors : n.path = e.path})

SchemaValidateOptions ==
  /\ verdict = "none"
  /\ described' = FilterRelevantErrors(invalid)
  /\ verdict' = IF described' = {} THEN "accepted" ELSE "refused"
  /\ UNCHANGED invalid

----------------------------------------------------------------------------
\* Every error that is not a mere alternative is told at its place, or another one below it; what is told was found.
Told(errors, told) ==
  /\ \A e \in SingleErrors(errors) : \E t \in told : StartsWith(t.path, e.path)
  /\ \A t \in told : \E e \in SingleErrors(errors) : e.path = t.path /\ e.keyword = t.keyword /\ e.types \subseteq t.types

\* Whatever is shadowed, filtered and merged, the user is told of every option that is wrong, in the option or below
\* it and not by the name of another, once per place where it is a question of the type, and with every type that
\* would do there.  Options are accepted only if nothing was found.
InvalidOptionsAreRefused ==
  /\ verdict = "accepted" => invalid = {}
  /\ verdict = "refused" =>
       /\ Told(invalid, described)
       /\ \A s, t \in described : s.path = t.path /\ s.keyword = "type" => s = t
       /\ \A t \in described, e \in invalid :
            t.keyword = "type" /\ e.keyword = "type" /\ e.path = t.path => e.types \subseteq t.types
=============================================================================
