---------------------------- MODULE ReactMutators ----------------------------
(***************************************************************************)
(* The mutators of react-mutator.  A tree is the body of a class, a block  *)
(* of statements that call setState(), or an element with its attributes.  *)
(* A place is a kind of node and its number among its siblings, a          *)
(* replacement what is done there and to which part.                       *)
(***************************************************************************)
EXTENDS Naturals, Sequences

CONSTANT Siblings   \* how many methods, statements, properties or attributes there are beside each other, at most

\* What a mutator makes of a node, in the place of it or of a part of it.
MutationsOf(node, name, at, replacements) == {[of |-> node, mutator |-> name, at |-> at, by |-> r] : r \in replacements}
Mutations(name, at, replacements) == MutationsOf(at, name, at, replacements)

Lists(S) == UNION {[1..n -> S] : n \in 0..Siblings}

Methods == [name : {"shouldComponentUpdate", "componentDidUpdate", "componentDidMount", "render"},
            kind : {"method", "get"}, key : {"identifier", "string", "computed"}, filled : BOOLEAN]
Properties == {"identifier", "string", "computed", "number", "method"}
Calls == [callee : {"this.setState", "other"}, object : Lists(Properties),
          callback : {"none", "block", "emptyBlock", "expression", "function"}]
Attributes == {"number", "numericString", "string", "callArrow", "callBlock", "otherArrow", "spread"}

ReactTrees == [react : {"class"}, body : Lists(Methods)]
              \cup [react : {"block"}, body : UNION {{[i \in 1..n |-> c] : c \in Calls} : n \in 0..Siblings}]
              \cup [react : {"element"}, name : {"div", "Div", "$", "member"}, body : Lists(Attributes)]

----------------------------------------------------------------------------
(* Classes: a getter, a computed name and an empty method are left alone. *)

IsMutableMethod(m) == m.kind = "method" /\ m.filled /\ m.key # "computed"

MethodsToRemove == {"componentDidMount", "componentDidUpdate", "componentWillUnmount", "getDerivedStateFromProps",
                    "shouldComponentUpdate", "UNSAFE_componentWillUpdate"}
LifecycleMethodRemove(methods) ==
  Mutations("LifecycleMethodRemove", <<"class", 1>>,
            {<<"without", i>> :
                i \in {j \in DOMAIN methods : IsMutableMethod(methods[j]) /\ methods[j].name \in MethodsToRemove}})

MethodsToSwap == {"shouldComponentUpdate", "componentDidUpdate", "UNSAFE_componentWillUpdate"}
LifecycleMethodSwap(methods) ==
  UNION {Mutations("LifecycleMethodSwap", <<"method", i>>,
                   IF IsMutableMethod(methods[i]) /\ methods[i].name \in MethodsToSwap
                   THEN {<<name, i>> : name \in MethodsToSwap \ {methods[i].name}} ELSE {}) : i \in DOMAIN methods}

----------------------------------------------------------------------------
(* setState() *)

\* The callback is run at once, behind the call.
AccessStaleStateAfterSetState(calls) ==
  Mutations("AccessStaleStateAfterSetState", <<"block", 1>>,
            {<<"callback behind", i>> : i \in {j \in DOMAIN calls :
               calls[j].callee = "this.setState" /\ calls[j].callback \in {"block", "expression"}}})

\* What can be assigned to this.state: no methods, nor a key that is a number.
MakeAssignmentStatement(property) == property \in {"identifier", "string", "computed"}

StateMutation(calls) ==
  UNION {Mutations("StateMutation", <<"statement", i>>,
                   IF /\ calls[i].callee = "this.setState" /\ calls[i].callback = "none"
                      /\ \A k \in DOMAIN calls[i].object : MakeAssignmentStatement(calls[i].object[k])
                   THEN {<<IF Len(calls[i].object) = 1 THEN "assignment" ELSE "block", i>>} ELSE {})
         : i \in DOMAIN calls}

----------------------------------------------------------------------------
(* Elements *)

\* There is no other case of $; a name with a dot takes the place of the whole tag.
ToggleFirstLetterCase(name) ==
  CASE name = "div" -> "Div" [] name = "Div" -> "div" [] name = "$" -> "$" [] name = "member" -> "no tag"
JsxChangeNameCase(element) ==
  Mutations("JsxChangeNameCase", <<"element", 1>>, {<<ToggleFirstLetterCase(element.name), 1>>})

JsxAttributeValueNumber(attributes) ==
  Mutations("JsxAttributeValueNumber", <<"tag", 1>>,
            {<<IF attributes[i] = "number" THEN "string" ELSE "number", i>> :
               i \in {j \in DOMAIN attributes : attributes[j] \in {"number", "numericString"}}})

\* An arrow function that only calls something, in a block or not.
PassUnboundEventHandler(attributes) ==
  UNION {Mutations("PassUnboundEventHandler", <<"attribute", i>>,
                   IF attributes[i] \in {"callArrow", "callBlock"} THEN {<<"callee", i>>} ELSE {})
         : i \in DOMAIN attributes}

ReactMutants(tree) ==
  CASE tree.react = "class"   -> LifecycleMethodRemove(tree.body) \cup LifecycleMethodSwap(tree.body)
    [] tree.react = "block"   -> AccessStaleStateAfterSetState(tree.body) \cup StateMutation(tree.body)
    [] tree.react = "element" -> JsxChangeNameCase(tree) \cup JsxAttributeValueNumber(tree.body)
                                 \cup PassUnboundEventHandler(tree.body)

\* ReactMutator.mutate: the other files are left alone.
ReactMutates(extension) == extension \in {".js", ".jsx"}
=============================================================================
