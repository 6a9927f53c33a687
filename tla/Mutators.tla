------------------------------ MODULE Mutators ------------------------------
(***************************************************************************)
(* The mutators.  The JavaScript mutator (on Babel's tree) and the         *)
(* Typescript mutator (on the compiler's) are two programs that promise    *)
(* the same mutants, and the Vue mutator chooses between them.  A tree is  *)
(* a statement with its condition, or an expression or literal somewhere;  *)
(* a mutant is the node it is of, the mutator's name, the place it         *)
(* replaces, and by what.  The mutators of react-mutator are a module of   *)
(* their own, ReactMutators, and work on trees of their own.               *)
(*                                                                         *)
(* Babel has no node for parentheses, the compiler has; both places are    *)
(* "test" when they are the condition.  Assignments and commas are binary  *)
(* for the compiler and not for Babel, a destructuring assignment assigns  *)
(* to a pattern for Babel and to a literal for the compiler, and Babel     *)
(* keeps directives apart from the statements of a block.                  *)
(***************************************************************************)
EXTENDS ReactMutators, FiniteSets

VARIABLES file,          \* what is mutated: its extension, the language of a Vue script, its tree
          installed,     \* the mutators that the Vue mutator has found
          mutation,      \* "none", "done" or "failed"
          mutantsFound

mutatorVars == <<file, installed, mutation, mutantsFound>>

----------------------------------------------------------------------------
(* Trees *)

Statements == {"if", "while", "do", "for"}
Comparisons == {"<", "<=", ">", ">=", "==", "!=", "===", "!=="}
Arithmetic == {"+", "-", "*", "/", "%"}
Assignments == {"=", "+=", ","}
BinaryOperators == Comparisons \cup Arithmetic \cup Assignments \cup {"&&", "||", "in", "&"}

\* A condition of a statement or of a case, if not of neither: as it is, in parentheses, negated, as an operand, or
\* in a return that is all the body there is.
Places == Statements \cup {"case", "none"}
Shapes == {"plain", "parentheses", "doubleParentheses", "negated", "operand", "branch"}

\* "arrayTarget" and "objectTarget" are assigned to, "wrappedArray" calls Array in parentheses or behind a comment,
\* "directives" is a block that has nothing else.
Literals == {"string", "template", "array", "ArrayCall", "newArray", "wrappedArray", "arrayTarget",
             "object", "objectTarget", "block", "directives", "arrow", "case", "emptyFor"}
LiteralParents == {"other", "import", "export", "exportDefault", "jsxAttribute", "expressionStatement"}

Conditions == [statement : Places, shape : Shapes, op : BinaryOperators]
LiteralUnits ==
  {unit \in [literal : Literals, filled : BOOLEAN, parent : LiteralParents] :
     /\ unit.parent # "other" => unit.literal \in {"string", "template"}
     /\ unit.literal = "template" => unit.parent \in {"other", "exportDefault", "expressionStatement"}
     /\ unit.literal = "directives" => unit.filled}
Units == LiteralUnits \cup [unary : {"!", "+", "-", "~", "++", "--", "typeof"}]
Booleans == [statement : Statements \cup {"none"}, value : BOOLEAN]
Trees == Conditions \cup Units \cup Booleans

IsCondition(tree) == "op" \in DOMAIN tree
IsUnary(tree) == "unary" \in DOMAIN tree
IsBoolean(tree) == "value" \in DOMAIN tree
IsReact(tree) == "react" \in DOMAIN tree

\* The binary expressions of a condition, with the kinds of the nodes around them.
BinaryNode(op, at, parent, grandparent) == [op |-> op, at |-> at, parent |-> parent, grandparent |-> grandparent]

BabelNodes(tree) ==
  CASE tree.shape \in {"plain", "parentheses", "doubleParentheses"} ->
         {BinaryNode(tree.op, "test", tree.statement, "body")}
    [] tree.shape = "negated" -> {BinaryNode(tree.op, "negated", "unary", tree.statement)}
    [] tree.shape = "operand" -> {BinaryNode("&&", "test", tree.statement, "body"),
                                  BinaryNode(tree.op, "operand", "binary", tree.statement)}
    [] tree.shape = "branch" -> {BinaryNode(tree.op, "branch", "return", tree.statement)}
CompilerNodes(tree) ==
  CASE tree.shape = "parentheses" -> {BinaryNode(tree.op, "test", "parentheses", tree.statement)}
    [] tree.shape = "doubleParentheses" -> {BinaryNode(tree.op, "test", "parentheses", "parentheses")}
    [] tree.shape = "negated" -> {BinaryNode(tree.op, "negated", "parentheses", "unary")}
    [] OTHER -> BabelNodes(tree)

----------------------------------------------------------------------------
(* What both have in common: a mutator that finds its operator in a table, or the condition of a statement.      *)
(* A table is the set of the pairs of an operator and one that takes its place.                                  *)

In(table, op) == {pair[2] : pair \in {p \in table : p[1] = op}}

\* What both do to a case as a whole is what they do to the literal of this name.
StatementMutants(tree) ==
  MutationsOf("statement", "ConditionalExpression", "test",
            CASE tree.statement = "if" -> {"true", "false"}
              [] tree.statement \in {"none", "case"} -> {}
              [] OTHER -> {"false"})

\* true and false, and negation, as a condition has it.
BooleanMutants(tree) ==
  StatementMutants(tree) \cup Mutations("BooleanLiteral", "test", {IF tree.value THEN "false" ELSE "true"})
NegationMutants(tree) ==
  IF tree.shape = "negated" THEN Mutations("BooleanLiteral", "test", {"operand"}) ELSE {}

----------------------------------------------------------------------------
(* javascript-mutator *)

JsArithmetic == {<<"+", "-">>, <<"-", "+">>, <<"*", "/">>, <<"/", "*">>, <<"%", "*">>}
JsEquality ==
  {<<"<", "<=">>, <<"<", ">=">>, <<"<=", "<">>, <<"<=", ">">>, <<">", ">=">>, <<">", "<=">>, <<">=", ">">>, <<">=", "<">>,
   <<"==", "!=">>, <<"!=", "==">>, <<"===", "!==">>, <<"!==", "===">>}
JsLogical == {<<"&&", "||">>, <<"||", "&&">>}
JsUnary == {<<"+", "-">>, <<"-", "+">>, <<"~", "operand">>}
JsUpdate == {<<"++", "--">>, <<"--", "++">>}

BugAnyParent(node) == TRUE
JsHasValidParent(node) == node.parent \notin Statements
JsIsValidOperator(node) == node.op \in Comparisons \cup {"&&", "||"}

JsBinary(node) ==
  IF node.op \in Assignments THEN {}
  ELSE Mutations("ArithmeticOperator", node.at, In(JsArithmetic, node.op))
       \cup Mutations("EqualityOperator", node.at, In(JsEquality, node.op))
       \cup Mutations("LogicalOperator", node.at, In(JsLogical, node.op))
       \cup IF JsHasValidParent(node) /\ JsIsValidOperator(node)
            THEN Mutations("ConditionalExpression", node.at, {"true", "false"}) ELSE {}

Replaced(unit, filledBy, emptyBy) == IF unit.filled THEN filledBy ELSE emptyBy
ArrayLiterals == {"array", "ArrayCall", "newArray", "wrappedArray", "arrayTarget"}

JsString(unit) ==
  Mutations("StringLiteral", "node",
            IF unit.literal = "string" /\ unit.parent \in {"import", "export", "exportDefault", "jsxAttribute"} THEN {}
            ELSE Replaced(unit, {"empty"}, {"Stryker was here"}))
JsArrayDeclaration(unit) ==
  Mutations("ArrayDeclaration", "node",
            CASE unit.literal = "array"       -> Replaced(unit, {"empty"}, {"Stryker was here"})
              [] unit.literal = "arrayTarget" -> {}
              [] OTHER                        -> Replaced(unit, {"no argument"}, {"[]"}))
JsObjectLiteral(unit) ==
  Mutations("ObjectLiteral", "node", IF unit.literal = "objectTarget" THEN {} ELSE Replaced(unit, {"empty"}, {}))
JsBlockStatement(unit) ==
  Mutations("BlockStatement", "node", IF unit.literal = "directives" THEN {} ELSE Replaced(unit, {"empty"}, {}))
JsArrowFunction(unit) == Mutations("ArrowFunction", "node", Replaced(unit, {}, {"() => undefined"}))
JsSwitchCase(unit) == Mutations("ConditionalExpression", "node", Replaced(unit, {"empty"}, {}))

JsLiteral(unit) ==
  CASE unit.literal \in {"string", "template"} -> JsString(unit)
    [] unit.literal \in ArrayLiterals -> JsArrayDeclaration(unit)
    [] unit.literal \in {"object", "objectTarget"} -> JsObjectLiteral(unit)
    [] unit.literal \in {"block", "directives"} -> JsBlockStatement(unit)
    [] unit.literal = "arrow"  -> JsArrowFunction(unit)
    [] unit.literal = "case"   -> JsSwitchCase(unit)
    [] unit.literal = "emptyFor" -> Mutations("ConditionalExpression", "node", {"for with false"})

JsUnaryMutants(op) ==
  Mutations("UnaryOperator", "node", In(JsUnary, op)) \cup Mutations("UpdateOperator", "node", In(JsUpdate, op))
  \cup Mutations("BooleanLiteral", "node", IF op = "!" THEN {"operand"} ELSE {})

JavaScriptMutants(tree) ==
  IF IsCondition(tree)
  THEN StatementMutants(tree) \cup NegationMutants(tree) \cup UNION {JsBinary(n) : n \in BabelNodes(tree)}
  ELSE IF IsBoolean(tree) THEN BooleanMutants(tree)
  ELSE IF IsUnary(tree) THEN JsUnaryMutants(tree.unary) ELSE JsLiteral(tree)

----------------------------------------------------------------------------
(* typescript *)

TsArithmetic == {<<"+", "-">>, <<"-", "+">>, <<"/", "*">>, <<"*", "/">>, <<"%", "*">>}
TsOrdering ==
  {<<"<", "<=">>, <<"<", ">=">>, <<"<=", "<">>, <<"<=", ">">>, <<">", "<=">>, <<">", ">=">>, <<">=", "<">>, <<">=", ">">>}
BugNotEquals == TsOrdering \cup {<<"==", "!=">>, <<"!=", "==">>, <<"===", "!=">>, <<"!==", "==">>}
TsEquality == TsOrdering \cup {<<"==", "!=">>, <<"!=", "==">>, <<"===", "!==">>, <<"!==", "===">>}
TsLogical == {<<"||", "&&">>, <<"&&", "||">>}
TsUnary == {<<"+", "-">>, <<"-", "+">>, <<"~", "operand">>}
TsUpdate == {<<"++", "--">>, <<"--", "++">>}

TsIsInvalidParent(kind) == kind \in Statements \cup {"literalType", "case"}
TsIsInvalidOperator(node) == node.op \in Arithmetic \cup {"="}

TsBinary(node) ==
  Mutations("ArithmeticOperator", node.at, In(TsArithmetic, node.op))
  \cup Mutations("EqualityOperator", node.at, In(TsEquality, node.op))
  \cup Mutations("LogicalOperator", node.at, In(TsLogical, node.op))
  \cup IF TsIsInvalidParent(node.parent) \/ TsIsInvalidParent(node.grandparent) \/ TsIsInvalidOperator(node)
       THEN {} ELSE Mutations("ConditionalExpression", node.at, {"true", "false"})

TsStringParents == {"import", "export", "module", "externalModule", "jsxAttribute", "expressionStatement", "literalType"}

TsString(unit) ==
  Mutations("StringLiteral", "node",
            IF unit.parent \in TsStringParents THEN {} ELSE Replaced(unit, {"empty"}, {"Stryker was here"}))
TsArrayDeclaration(unit) ==
  Mutations("ArrayDeclaration", "node",
            CASE unit.literal \in {"array", "arrayTarget"} -> Replaced(unit, {"empty"}, {"Stryker was here"})
              [] unit.literal = "wrappedArray"             -> {}
              [] OTHER                                     -> Replaced(unit, {"no argument"}, {"[]"}))
TsObjectLiteral(unit) == Mutations("ObjectLiteral", "node", Replaced(unit, {"empty"}, {}))
TsBlockStatement(unit) == Mutations("BlockStatement", "node", Replaced(unit, {"empty"}, {}))
TsArrowFunction(unit) == Mutations("ArrowFunction", "node", Replaced(unit, {}, {"() => undefined"}))
TsClause(unit) == Mutations("ConditionalExpression", "node", Replaced(unit, {"empty"}, {}))

TsLiteral(unit) ==
  CASE unit.literal \in {"string", "template"} -> TsString(unit)
    [] unit.literal \in ArrayLiterals -> TsArrayDeclaration(unit)
    [] unit.literal \in {"object", "objectTarget"} -> TsObjectLiteral(unit)
    [] unit.literal \in {"block", "directives"} -> TsBlockStatement(unit)
    [] unit.literal = "arrow"  -> TsArrowFunction(unit)
    [] unit.literal = "case"   -> TsClause(unit)
    [] unit.literal = "emptyFor" -> Mutations("ConditionalExpression", "node", {"for with false"})

TsUnaryMutants(op) ==
  Mutations("UnaryOperator", "node", In(TsUnary, op)) \cup Mutations("UpdateOperator", "node", In(TsUpdate, op))
  \cup Mutations("BooleanLiteral", "node", IF op = "!" THEN {"operand"} ELSE {})

TypescriptMutants(tree) ==
  IF IsCondition(tree)
  THEN StatementMutants(tree) \cup NegationMutants(tree) \cup UNION {TsBinary(n) : n \in CompilerNodes(tree)}
  ELSE IF IsBoolean(tree) THEN BooleanMutants(tree)
  ELSE IF IsUnary(tree) THEN TsUnaryMutants(tree.unary) ELSE TsLiteral(tree)

MutantsBy(name, tree) ==
  CASE name = "typescript" -> TypescriptMutants(tree)
    [] name = "javascript" -> JavaScriptMutants(tree)
    [] name = "react"      -> ReactMutants(tree)

----------------------------------------------------------------------------
(* vue-mutator *)

Files == [extension : {".js", ".ts"}, tree : Trees]
         \cup [extension : {".vue"}, lang : {"none", "js", "ts", "coffee", "no script"}, tree : Trees]
         \cup [extension : {".jsx", ".ts"}, tree : ReactTrees]

\* getVueScriptMutatorAndExtension and getMutator: of what is installed, Typescript first.
ScriptMutator(lang) ==
  {name \in installed : \/ name = "javascript" /\ lang \in {"none", "js"}
                        \/ name = "typescript" /\ lang = "ts"}
ModuleMutator == IF "typescript" \in installed THEN {"typescript"} ELSE installed
ChosenMutator ==
  CASE IsReact(file.tree)       -> {"react"}
    [] file.extension = ".vue"  -> ScriptMutator(file.lang)
    [] OTHER                    -> ModuleMutator
HasNoScript == \/ file.extension = ".vue" /\ file.lang = "no script"
               \/ IsReact(file.tree) /\ ~ReactMutates(file.extension)

InitMutators ==
  /\ file \in Files
  /\ installed \in IF IsReact(file.tree) THEN {{}} ELSE SUBSET {"javascript", "typescript"}
  /\ mutation = "none" /\ mutantsFound = {}

Mutate ==
  /\ mutation = "none"
  /\ IF HasNoScript
     THEN mutation' = "done" /\ UNCHANGED mutantsFound
     ELSE \/ ChosenMutator = {} /\ mutation' = "failed" /\ UNCHANGED mutantsFound
          \/ \E name \in ChosenMutator : mutation' = "done" /\ mutantsFound' = MutantsBy(name, file.tree)
  /\ UNCHANGED <<file, installed>>

MutatorStep == Mutate

----------------------------------------------------------------------------
\* No file is mutated twice in the same place to the same code, by two mutators or for two nodes of the tree: the
\* condition of a statement is replaced for the statement, not once more for the expression, in parentheses or not.
\* There are two exceptions: a condition that is the literal true becomes false for the statement, and as a literal;
\* and through two pairs of parentheses the Typescript mutator does not see the statement.
NoMutantTwice ==
  \A m, o \in mutantsFound : m # o =>
    \/ <<m.at, m.by>> # <<o.at, o.by>>
    \/ IsBoolean(file.tree) /\ file.tree.statement # "none"
    \/ IsCondition(file.tree) /\ file.tree.shape = "doubleParentheses" /\ file.tree.statement # "none"

\* Which conditions become true and false differs inside others, in a case or a return without braces around it, and
\* for the operators that the specification leaves open.
LeftOpen(condition) ==
  \/ condition.shape \in {"operand", "branch", "doubleParentheses"} \/ condition.statement = "case"
  \/ condition.op \in {"+=", ",", "in", "&"}
\* A string that is a statement or a default export, what is assigned to, directives, and what is around Array, are
\* not the same to Babel and to the compiler.
ReadDifferently(unit) ==
  \/ unit.literal = "string" /\ unit.parent \in {"exportDefault", "expressionStatement"}
  \/ unit.literal = "template" /\ unit.parent = "expressionStatement"
  \/ unit.literal \in {"wrappedArray", "arrayTarget", "objectTarget", "directives"}
LiteralMutator(unit) ==
  CASE unit.literal \in {"string", "template"} -> "StringLiteral"
    [] unit.literal \in ArrayLiterals          -> "ArrayDeclaration"
    [] unit.literal = "objectTarget"           -> "ObjectLiteral"
    [] unit.literal = "directives"             -> "BlockStatement"
MutatorsApart(tree) ==
  IF IsCondition(tree) THEN IF LeftOpen(tree) THEN {"ConditionalExpression"} ELSE {}
  ELSE IF IsUnary(tree) \/ IsBoolean(tree) \/ ~ReadDifferently(tree) THEN {} ELSE {LiteralMutator(tree)}

\* Whichever mutator a file comes to, it gets the same mutants, as the specification that both are tested by says.
\* Of the trees here they differ in those above only, and there in one kind of mutants.
MutatorsAgree ==
  mutation = "done" /\ ~HasNoScript /\ ~IsReact(file.tree) => \A name \in {"javascript", "typescript"} :
    LET others == MutantsBy(name, file.tree)
        differ == (mutantsFound \ others) \cup (others \ mutantsFound)
    IN  {m.mutator : m \in differ} \subseteq MutatorsApart(file.tree)
=============================================================================
