----------------------------- MODULE OperatorProofs -----------------------------
(***************************************************************************)
(* What the operators compute that the parts in Plugins are built from,    *)
(* for every input.                                                        *)
(***************************************************************************)
EXTENDS ValidationErrors, PluginOptions, Initializer, SourceFiles, Mutators, Induction, SequenceTheorems

-----------------------------------------------------------------------------
(* Validation: whatever Ajv finds, describeErrors() tells of each error. *)

\* What Ajv finds lies at most Depth keys below the options.
Paths(Keys, Depth) == {p \in Seq(Keys) : Len(p) <= Depth}
HavePaths(errors, Keys, Depth) == \A e \in errors : e.path \in Paths(Keys, Depth)

LEMMA StartsWithTransitive ==
  ASSUME NEW Keys, NEW p \in Seq(Keys), NEW q \in Seq(Keys), NEW r \in Seq(Keys), StartsWith(p, q), StartsWith(q, r)
  PROVE  StartsWith(p, r)
  BY DEF StartsWith

LEMMA StartsWithItself ==
  ASSUME NEW Keys, NEW p \in Seq(Keys)
  PROVE  StartsWith(p, p)
  BY DEF StartsWith

\* Among errors there is one that no other is deeper than.
LEMMA DeepestError ==
  ASSUME NEW Keys, NEW Depth \in Nat, NEW S, HavePaths(S, Keys, Depth), S # {}
  PROVE  \E d \in S : \A e \in S : Len(e.path) <= Len(d.path)
<1> DEFINE T == {Depth - Len(e.path) : e \in S}
<1>1. \A e \in S : Len(e.path) \in Nat /\ Len(e.path) <= Depth
  BY DEF HavePaths, Paths
<1>2. T \subseteq Nat /\ T # {}
  BY <1>1
<1>3. PICK x \in T : \A y \in T : x <= y
  <2> HIDE DEF T
  <2> QED BY <1>2, SmallestNumber
<1>4. PICK d \in S : x = Depth - Len(d.path)
  OBVIOUS
<1>5. \A e \in S : Depth - Len(d.path) <= Depth - Len(e.path)
  BY <1>3, <1>4
<1>6. \A e \in S : Len(e.path) <= Len(d.path)
  <2> SUFFICES ASSUME NEW e \in S PROVE Len(e.path) <= Len(d.path)
    OBVIOUS
  <2>1. Len(e.path) \in Nat /\ Len(d.path) \in Nat /\ Depth - Len(d.path) <= Depth - Len(e.path)
    BY <1>1, <1>5
  <2> QED BY <2>1
<1> QED
  BY <1>6

\* The three parts of FilterRelevantErrors.
Shown(errors) == RemoveShadowingErrors(SingleErrors(errors), MetaErrors(errors))
NonTypeErrors(errors) == {e \in Shown(errors) : e.keyword # "type"}
TypeErrorsAlone(errors) ==
  {e \in Shown(errors) : e.keyword = "type" /\ ~\E n \in NonTypeErrors(errors) : n.path = e.path}

LEMMA PartsOfTheTold ==
  ASSUME NEW errors
  PROVE  FilterRelevantErrors(errors) = NonTypeErrors(errors) \cup MergeTypeErrorsByPath(TypeErrorsAlone(errors))
<1>1. Shown(errors) \ {e \in Shown(errors) : e.keyword = "type"} = NonTypeErrors(errors)
  BY DEF NonTypeErrors
<1>2. {e \in {x \in Shown(errors) : x.keyword = "type"} : ~\E n \in NonTypeErrors(errors) : n.path = e.path}
      = TypeErrorsAlone(errors)
  BY DEF TypeErrorsAlone
<1> QED
  BY <1>1, <1>2 DEF FilterRelevantErrors, Shown

\* The merged error of a path has all types of the path's errors.
LEMMA MergedErrors ==
  ASSUME NEW typeErrors
  PROVE  /\ \A e \in typeErrors : \E t \in MergeTypeErrorsByPath(typeErrors) : t.path = e.path
         /\ \A t \in MergeTypeErrorsByPath(typeErrors) :
              /\ t.keyword = "type"
              /\ \E e \in typeErrors : e.path = t.path
              /\ \A e \in typeErrors : e.path = t.path => e.types \subseteq t.types
              /\ \A s \in MergeTypeErrorsByPath(typeErrors) : s.path = t.path => s = t
<1> DEFINE At(path) == {x \in typeErrors : x.path = path}
           Merge(path) == [path |-> path, keyword |-> "type", types |-> UNION {e.types : e \in At(path)}]
           merged == {Merge(path) : path \in {e.path : e \in typeErrors}}
<1>1. MergeTypeErrorsByPath(typeErrors) = merged
  BY DEF MergeTypeErrorsByPath, Error
<1>2. \A path : Merge(path).path = path /\ Merge(path).keyword = "type"
  OBVIOUS
<1>3. \A e \in typeErrors : e.types \subseteq Merge(e.path).types
  OBVIOUS
<1> HIDE DEF Merge
<1>4. \A e \in typeErrors : \E t \in merged : t.path = e.path
  BY <1>2
<1>5. ASSUME NEW t \in merged
      PROVE  t = Merge(t.path) /\ \E e \in typeErrors : e.path = t.path
  BY <1>2
<1>6. \A t \in merged : \A e \in typeErrors : e.path = t.path => e.types \subseteq t.types
  BY <1>3, <1>5
<1>7. \A t \in merged : t.keyword = "type"
  BY <1>2, <1>5
<1>8. \A s, t \in merged : s.path = t.path => s = t
  BY <1>5
<1> HIDE DEF merged
<1> QED
  BY <1>1, <1>4, <1>5, <1>6, <1>7, <1>8

\* Of all errors the user is told, at their place or below; what is told was found, and no type
\* error stands beside another error or lacks a type.
LEMMA EveryErrorIsTold ==
  ASSUME NEW Keys, NEW Depth \in Nat, NEW errors, HavePaths(errors, Keys, Depth)
  PROVE  /\ Told(errors, FilterRelevantErrors(errors))
         /\ \A s, t \in FilterRelevantErrors(errors) : s.path = t.path /\ s.keyword = "type" => s = t
         /\ \A t \in FilterRelevantErrors(errors), e \in errors :
              t.keyword = "type" /\ e.keyword = "type" /\ e.path = t.path => e.types \subseteq t.types
<1> DEFINE tells == FilterRelevantErrors(errors)
           single == SingleErrors(errors)
           merged == MergeTypeErrorsByPath(TypeErrorsAlone(errors))
<1>1. single \subseteq errors /\ Shown(errors) \subseteq single
  BY DEF SingleErrors, Shown, RemoveShadowingErrors
<1>2. \A e \in single : e.path \in Seq(Keys) /\ Len(e.path) \in Nat
  BY <1>1 DEF HavePaths, Paths
<1>3. tells = NonTypeErrors(errors) \cup merged
  BY PartsOfTheTold
<1>4. /\ \A e \in TypeErrorsAlone(errors) : \E t \in merged : t.path = e.path
      /\ \A t \in merged :
           /\ t.keyword = "type"
           /\ \E e \in TypeErrorsAlone(errors) : e.path = t.path
           /\ \A e \in TypeErrorsAlone(errors) : e.path = t.path => e.types \subseteq t.types
           /\ \A s \in merged : s.path = t.path => s = t
  BY MergedErrors
<1> HIDE DEF tells, merged
<1>5. ASSUME NEW e \in single
      PROVE  \E t \in tells : StartsWith(t.path, e.path)
  <2> DEFINE below == {x \in single : StartsWith(x.path, e.path)}
  <2>1. e \in below
    BY <1>2, StartsWithItself
  <2>2. HavePaths(below, Keys, Depth) /\ below # {}
    BY <1>1, <2>1 DEF HavePaths
  <2>3. PICK d \in below : \A x \in below : Len(x.path) <= Len(d.path)
    <3> HIDE DEF below
    <3> QED BY <2>2, DeepestError
  <2>4. \A other \in single : StartsWith(other.path, d.path) => other \in below
    BY <1>2, StartsWithTransitive
  <2>5. ~\E other \in single : StartsWith(other.path, d.path) /\ Len(other.path) > Len(d.path)
    BY <1>2, <2>3, <2>4
  <2>6. d \in Shown(errors)
    BY <2>5 DEF Shown, RemoveShadowingErrors
  <2>7. CASE d \in NonTypeErrors(errors)
    BY <2>7, <1>3
  <2>8. CASE \E n \in NonTypeErrors(errors) : n.path = d.path
    BY <2>8, <1>3
  <2>9. CASE d \notin NonTypeErrors(errors) /\ ~\E n \in NonTypeErrors(errors) : n.path = d.path
    <3>1. d \in TypeErrorsAlone(errors)
      BY <2>6, <2>9 DEF TypeErrorsAlone, NonTypeErrors
    <3> QED BY <3>1, <1>3, <1>4
  <2> QED BY <2>7, <2>8, <2>9
<1>6. \A t \in NonTypeErrors(errors) : t \in single /\ t.keyword # "type"
  BY <1>1 DEF NonTypeErrors
<1>7. \A e \in TypeErrorsAlone(errors) : e \in single /\ e.keyword = "type" /\ \A n \in NonTypeErrors(errors) : n.path # e.path
  BY <1>1 DEF TypeErrorsAlone
<1>8. ASSUME NEW t \in tells
      PROVE  \E e \in single : e.path = t.path /\ e.keyword = t.keyword /\ e.types \subseteq t.types
  <2>1. CASE t \in NonTypeErrors(errors)
    BY <2>1, <1>6
  <2>2. CASE t \in merged
    BY <2>2, <1>4, <1>7
  <2> QED BY <2>1, <2>2, <1>3
<1>9. ASSUME NEW s \in tells, NEW t \in tells, s.path = t.path, s.keyword = "type"
      PROVE  s = t
  <2>1. s \in merged
    BY <1>3, <1>6, <1>9
  <2>2. t \in merged
    BY <2>1, <1>3, <1>4, <1>7, <1>9
  <2> QED BY <2>1, <2>2, <1>4, <1>9
<1>10. ASSUME NEW t \in tells, NEW e \in errors, t.keyword = "type", e.keyword = "type", e.path = t.path
       PROVE  e.types \subseteq t.types
  <2>1. t \in merged
    BY <1>3, <1>6, <1>10
  <2>2. PICK x \in TypeErrorsAlone(errors) : x.path = t.path
    BY <2>1, <1>4
  <2>3. e \in single
    BY <1>10 DEF SingleErrors, MetaSchemaKeywords
  <2>4. e \in Shown(errors)
    <3>1. x \in Shown(errors)
      BY DEF TypeErrorsAlone
    <3> QED BY <3>1, <2>2, <2>3, <1>10 DEF Shown, RemoveShadowingErrors
  <2>5. e \in TypeErrorsAlone(errors)
    BY <2>2, <2>4, <1>10 DEF TypeErrorsAlone
  <2> QED BY <2>1, <2>5, <1>4, <1>10
<1> QED
  BY <1>5, <1>8, <1>9, <1>10 DEF Told, tells

-----------------------------------------------------------------------------
(* Plugin options *)

\* Objects with some of the keys.
Partial(keys, values) == UNION {[some -> values] : some \in SUBSET keys}

LEMMA OverIsPartial ==
  ASSUME NEW keys, NEW values, NEW object \in Partial(keys, values), NEW under \in Partial(keys, values)
  PROVE  Over(object, under) \in Partial(keys, values)
<1> DEFINE all == DOMAIN object \cup DOMAIN under
<1>1. PICK some \in SUBSET keys : object \in [some -> values]
  BY DEF Partial
<1>2. PICK others \in SUBSET keys : under \in [others -> values]
  BY DEF Partial
<1>3. all \in SUBSET keys
  BY <1>1, <1>2
<1>4. Over(object, under) \in [all -> values]
  BY <1>1, <1>2 DEF Over
<1> HIDE DEF all
<1> QED
  BY <1>3, <1>4 DEF Partial

\* The last word on a key is that of the first layer that has it.
IsFirstToSay(options, layers, n) ==
  /\ DOMAIN options = UNION {DOMAIN layers[i] : i \in 1 .. n}
  /\ \A k \in DOMAIN options : \E i \in 1 .. n : /\ k \in DOMAIN layers[i] /\ options[k] = layers[i][k]
                                             /\ \A j \in 1 .. i - 1 : k \notin DOMAIN layers[j]

LEMMA FirstLayerCounts ==
  ASSUME NEW keys, NEW values, NEW n \in Nat, NEW layers, DOMAIN layers = 1 .. n,
         \A i \in 1 .. n : layers[i] \in Partial(keys, values)
  PROVE  UserFirst(layers) \in Partial(keys, values) /\ IsFirstToSay(UserFirst(layers), layers, n)
<1> DEFINE V == Partial(keys, values)
           after(i, v) == Over(v, layers[i])
           Solves(iter) ==
             iter = [s \in SUBSET (DOMAIN layers) |->
                       IF s = {} THEN NoOptions ELSE after(Max(s), iter[s \ {Max(s)}])]
           user == CHOOSE iter : Solves(iter)
<1>1. UserFirst(layers) = user[DOMAIN layers]
  BY DEF UserFirst, FoldLeft, MapThenFoldSet
<1>2. NoOptions \in V /\ DOMAIN NoOptions = {}
  BY DEF NoOptions, Partial
<1>3. \A i \in 1 .. n, v \in V : after(i, v) \in V
  BY OverIsPartial
<1>4. Solves(user)
  <2> DEFINE step == [i \in 1 .. n |-> [v \in V |-> after(i, v)]]
  <2>1. \A i \in 1 .. n, v \in V : step[i][v] = after(i, v) /\ after(i, v) \in V
    <3> HIDE DEF after, V
    <3> QED BY <1>3
  <2> HIDE DEF after, step, V, NoOptions
  <2>2. PICK iter : IsFold(iter, 1 .. n, V, NoOptions, step, Largest(n))
    BY <1>2, <2>1, LeftFoldExists
  <2>3. \A s \in SUBSET (1 .. n) : s # {} => /\ Max(s) \in 1 .. n /\ iter[s \ {Max(s)}] \in V
                                             /\ Largest(n)[s] = Max(s)
    BY <2>2, LargestIsIn DEF IsFold, Largest
  <2>4. \A s \in SUBSET (1 .. n) : iter[s] = IF s = {} THEN NoOptions ELSE after(Max(s), iter[s \ {Max(s)}])
    <3> SUFFICES ASSUME NEW s \in SUBSET (1 .. n)
                 PROVE  iter[s] = IF s = {} THEN NoOptions ELSE after(Max(s), iter[s \ {Max(s)}])
      OBVIOUS
    <3>1. iter[s] = IF s = {} THEN NoOptions ELSE step[Largest(n)[s]][iter[s \ {Largest(n)[s]}]]
      BY <2>2 DEF IsFold
    <3> QED BY <3>1, <2>1, <2>3
  <2>5. Solves(iter)
    BY <2>2, <2>4 DEF IsFold
  <2> QED BY <2>5
<1> DEFINE run(i) == user[1 .. i]
<1>5. run(0) = NoOptions /\ \A i \in 1 .. n : run(i) = after(i, run(i - 1))
  <2> HIDE DEF after, NoOptions
  <2>1. \A s \in SUBSET (1 .. n) : user[s] = IF s = {} THEN NoOptions ELSE after(Max(s), user[s \ {Max(s)}])
    <3> HIDE DEF user
    <3> QED BY <1>4
  <2> HIDE DEF user
  <2>2. run(0) = NoOptions
    BY <2>1, 1 .. 0 = {}
  <2>3. ASSUME NEW i \in 1 .. n PROVE run(i) = after(i, run(i - 1))
    <3>a. i \in Nat \ {0} /\ i <= n
      OBVIOUS
    <3>1. 1 .. i \in SUBSET (1 .. n) /\ i \in 1 .. i
      BY <3>a
    <3>2. Max(1 .. i) = i /\ (1 .. i) \ {i} = 1 .. i - 1
      BY <3>a, LargestOfPrefix
    <3> QED BY <2>1, <3>1, <3>2
  <2> QED BY <2>2, <2>3
<1> DEFINE T == {i \in 0 .. n : run(i) \in V /\ IsFirstToSay(run(i), layers, i)}
<1>6. 0 \in T
  <2> HIDE DEF run, V, after, NoOptions
  <2>1. IsFirstToSay(NoOptions, layers, 0)
    BY <1>2 DEF IsFirstToSay
  <2> QED BY <1>2, <1>5, <2>1
<1>7. ASSUME NEW i \in 0 .. n - 1, i \in T PROVE i + 1 \in T
  <2> DEFINE k == i + 1   o == run(i)   l == layers[k]
  <2>1. k \in 1 .. n /\ k - 1 = i /\ i \in Nat /\ 1 .. k = (1 .. i) \cup {k}
    OBVIOUS
  <2>2. run(k) = Over(o, l)
    <3> HIDE DEF run
    <3> QED BY <1>5, <2>1
  <2>3. o \in V /\ IsFirstToSay(o, layers, i) /\ l \in V
    <3>1. l \in V
      BY <2>1
    <3> HIDE DEF run, V, l
    <3> QED BY <1>7, <3>1
  <2>4. run(k) \in V
    <3> HIDE DEF run, o, l
    <3> QED BY <2>2, <2>3, OverIsPartial
  <2>5. IsFirstToSay(Over(o, l), layers, k)
    <3> DEFINE both == Over(o, l)
    <3>1. DOMAIN both = DOMAIN o \cup DOMAIN l
      BY DEF Over
    <3>2. DOMAIN both = UNION {DOMAIN layers[j] : j \in 1 .. k}
      <4> HIDE DEF both, o, k
      <4> QED BY <2>1, <2>3, <3>1 DEF IsFirstToSay
    <3>3. ASSUME NEW key \in DOMAIN both
          PROVE  \E j \in 1 .. k : /\ key \in DOMAIN layers[j] /\ both[key] = layers[j][key]
                                  /\ \A h \in 1 .. j - 1 : key \notin DOMAIN layers[h]
      <4>1. both[key] = IF key \in DOMAIN o THEN o[key] ELSE l[key]
        BY <3>1, <3>3 DEF Over
      <4>2. CASE key \in DOMAIN o
        <5> HIDE DEF both, o, k
        <5> QED BY <2>1, <2>3, <4>1, <4>2 DEF IsFirstToSay
      <4>3. CASE key \notin DOMAIN o
        <5> HIDE DEF both, o
        <5>1. key \in DOMAIN l /\ both[key] = l[key]
          BY <3>1, <3>3, <4>1, <4>3
        <5>2. \A h \in 1 .. k - 1 : key \notin DOMAIN layers[h]
          <6> HIDE DEF k
          <6> QED BY <2>1, <2>3, <4>3 DEF IsFirstToSay
        <5> QED BY <2>1, <5>1, <5>2
      <4> QED BY <4>2, <4>3
    <3> HIDE DEF both, o
    <3> QED BY <3>2, <3>3 DEF IsFirstToSay, both
  <2> HIDE DEF run, V, o, l
  <2> QED BY <2>1, <2>2, <2>4, <2>5
<1>8. n \in T
  <2> HIDE DEF T
  <2>1. \A i \in 0 .. n : i \in T
    BY <1>6, <1>7, UpTo
  <2> QED BY <2>1
<1> QED
  BY <1>1, <1>8

\* Who says what: Stryker only what it insists on, the tool nothing that the user asked for.
OptionSayers == {"stryker", "user", "file", "tool"}
NobodyIsOverruled(options) ==
  /\ \A k \in DOMAIN options : options[k] = "stryker" => k \in Insisted
  /\ \A k \in asked.sets \cap DOMAIN options : options[k] # "tool"

LEMMA LayersArePartial ==
  ASSUME NEW keys \in SUBSET OptionKeys, NEW who \in OptionSayers
  PROVE  /\ By(who, keys) \in Partial(OptionKeys, OptionSayers)
         /\ DOMAIN By(who, keys) = keys
         /\ \A k \in keys : By(who, keys)[k] = who
<1> HIDE DEF OptionKeys, OptionSayers
<1>1. By(who, keys) \in [keys -> OptionSayers]
  BY DEF By
<1>2. By(who, keys) \in Partial(OptionKeys, OptionSayers)
  BY <1>1 DEF Partial
<1> QED
  BY <1>2 DEF By

LEMMA NoOptionsOfAFile == NoOptions = By("file", {})
BY DEF NoOptions, By

LEMMA LayeredOptions ==
  ASSUME asked.sets \subseteq OptionKeys, NEW defaults \in SUBSET OptionKeys, NEW keys \in SUBSET OptionKeys,
         NEW insisted \in SUBSET Insisted
  PROVE  LET options == Layered(defaults, By("file", keys), insisted)
         IN  /\ \A k \in asked.sets : options[k] \in {"user", "stryker"}
             /\ NobodyIsOverruled(options)
<1> DEFINE layers == <<By("stryker", insisted), By("user", asked.sets), By("file", keys), By("tool", defaults)>>
           options == UserFirst(layers)
<1>1. insisted \in SUBSET OptionKeys /\ asked.sets \in SUBSET OptionKeys /\ "stryker" \in OptionSayers /\ "user" \in OptionSayers
      /\ "file" \in OptionSayers /\ "tool" \in OptionSayers
  BY DEF Insisted, OptionKeys, OptionSayers
<1>2. /\ DOMAIN layers = 1 .. 4
      /\ layers[1] = By("stryker", insisted) /\ layers[2] = By("user", asked.sets)
      /\ layers[3] = By("file", keys) /\ layers[4] = By("tool", defaults)
  OBVIOUS
<1> HIDE DEF layers
<1>3. \A i \in 1 .. 4 : layers[i] \in Partial(OptionKeys, OptionSayers)
  <2>1. \A i \in 1 .. 4 : i = 1 \/ i = 2 \/ i = 3 \/ i = 4
    OBVIOUS
  <2>2. layers[1] \in Partial(OptionKeys, OptionSayers)
    BY <1>1, <1>2, LayersArePartial
  <2>3. layers[2] \in Partial(OptionKeys, OptionSayers)
    BY <1>1, <1>2, LayersArePartial
  <2>4. layers[3] \in Partial(OptionKeys, OptionSayers) /\ layers[4] \in Partial(OptionKeys, OptionSayers)
    BY <1>1, <1>2, LayersArePartial
  <2> QED BY <2>1, <2>2, <2>3, <2>4
<1>4. IsFirstToSay(options, layers, 4)
  BY <1>2, <1>3, FirstLayerCounts
<1>5. DOMAIN options = UNION {DOMAIN layers[i] : i \in 1 .. 4}
  BY <1>4 DEF IsFirstToSay
<1>6. ASSUME NEW k \in DOMAIN options
      PROVE  \/ k \in insisted /\ options[k] = "stryker"
             \/ k \in asked.sets /\ options[k] = "user"
             \/ k \notin asked.sets /\ options[k] \in {"file", "tool"}
  <2>1. PICK i \in 1 .. 4 : /\ k \in DOMAIN layers[i] /\ options[k] = layers[i][k]
                            /\ \A j \in 1 .. i - 1 : k \notin DOMAIN layers[j]
    BY <1>4, <1>6 DEF IsFirstToSay
  <2> HIDE DEF options
  <2>2. CASE i = 1
    BY <1>1, <1>2, <2>1, <2>2, LayersArePartial
  <2>3. CASE i = 2
    BY <1>1, <1>2, <2>1, <2>3, LayersArePartial
  <2>4. CASE i = 3
    <3>1. k \notin DOMAIN layers[2]
      BY <2>1, <2>4
    <3> QED BY <1>1, <1>2, <2>1, <2>4, <3>1, LayersArePartial
  <2>5. CASE i = 4
    <3>1. k \notin DOMAIN layers[2]
      BY <2>1, <2>5
    <3> QED BY <1>1, <1>2, <2>1, <2>5, <3>1, LayersArePartial
  <2> QED BY <2>2, <2>3, <2>4, <2>5
<1>7. \A k \in asked.sets : k \in DOMAIN options
  <2>1. 2 \in 1 .. 4 /\ DOMAIN layers[2] = asked.sets
    BY <1>1, <1>2, LayersArePartial
  <2> HIDE DEF options
  <2> QED BY <1>5, <2>1
<1>8. options = Layered(defaults, By("file", keys), insisted)
  BY DEF layers, Layered
<1> HIDE DEF options
<1> QED
  BY <1>6, <1>7, <1>8 DEF NobodyIsOverruled

LEMMA UserOverTool ==
  ASSUME asked.sets \subseteq OptionKeys
  PROVE  NobodyIsOverruled(UserFirst(<<By("user", asked.sets \cap {"usual"}), By("tool", {"usual"})>>))
<1> DEFINE usual == asked.sets \cap {"usual"}
           layers == <<By("user", usual), By("tool", {"usual"})>>
           options == UserFirst(layers)
<1>1. usual \in SUBSET OptionKeys /\ {"usual"} \in SUBSET OptionKeys /\ "user" \in OptionSayers /\ "tool" \in OptionSayers
  BY DEF OptionKeys, OptionSayers
<1>2. DOMAIN layers = 1 .. 2 /\ layers[1] = By("user", usual) /\ layers[2] = By("tool", {"usual"})
  OBVIOUS
<1> HIDE DEF layers
<1>3. \A i \in 1 .. 2 : i = 1 \/ i = 2
  OBVIOUS
<1>4. \A i \in 1 .. 2 : layers[i] \in Partial(OptionKeys, OptionSayers)
  <2>1. layers[1] \in Partial(OptionKeys, OptionSayers)
    BY <1>1, <1>2, LayersArePartial
  <2>2. layers[2] \in Partial(OptionKeys, OptionSayers)
    BY <1>1, <1>2, LayersArePartial
  <2> QED BY <1>3, <2>1, <2>2
<1>5. IsFirstToSay(options, layers, 2)
  BY <1>2, <1>4, FirstLayerCounts
<1>6. ASSUME NEW k \in DOMAIN options
      PROVE  options[k] = "user" \/ (options[k] = "tool" /\ k \notin asked.sets)
  <2>1. PICK i \in 1 .. 2 : /\ k \in DOMAIN layers[i] /\ options[k] = layers[i][k]
                            /\ \A j \in 1 .. i - 1 : k \notin DOMAIN layers[j]
    BY <1>5, <1>6 DEF IsFirstToSay
  <2> HIDE DEF options
  <2>2. CASE i = 1
    BY <1>1, <1>2, <2>1, <2>2, LayersArePartial
  <2>3. CASE i = 2
    <3>1. k \notin DOMAIN layers[1]
      BY <2>1, <2>3
    <3> QED BY <1>1, <1>2, <2>1, <2>3, <3>1, LayersArePartial
  <2> QED BY <1>3, <2>2, <2>3
<1> QED
  BY <1>6 DEF NobodyIsOverruled, layers

LEMMA StrykerOverFile ==
  ASSUME asked.sets \subseteq OptionKeys, NEW keys \in SUBSET OptionKeys
  PROVE  NobodyIsOverruled(OverrideOptions(By("file", keys)))
<1> DEFINE layers == <<By("stryker", Insisted), By("file", keys)>>
           options == UserFirst(layers)
<1>1. Insisted \in SUBSET OptionKeys /\ "stryker" \in OptionSayers /\ "file" \in OptionSayers
  BY DEF OptionKeys, OptionSayers, Insisted
<1>2. DOMAIN layers = 1 .. 2 /\ layers[1] = By("stryker", Insisted) /\ layers[2] = By("file", keys)
  OBVIOUS
<1> HIDE DEF layers
<1>3. \A i \in 1 .. 2 : i = 1 \/ i = 2
  OBVIOUS
<1>4. \A i \in 1 .. 2 : layers[i] \in Partial(OptionKeys, OptionSayers)
  <2>1. layers[1] \in Partial(OptionKeys, OptionSayers)
    BY <1>1, <1>2, LayersArePartial
  <2>2. layers[2] \in Partial(OptionKeys, OptionSayers)
    BY <1>1, <1>2, LayersArePartial
  <2> QED BY <1>3, <2>1, <2>2
<1>5. IsFirstToSay(options, layers, 2)
  BY <1>2, <1>4, FirstLayerCounts
<1>6. ASSUME NEW k \in DOMAIN options
      PROVE  options[k] = "file" \/ (options[k] = "stryker" /\ k \in Insisted)
  <2>1. PICK i \in 1 .. 2 : k \in DOMAIN layers[i] /\ options[k] = layers[i][k]
    BY <1>5, <1>6 DEF IsFirstToSay
  <2> HIDE DEF options
  <2> QED BY <1>1, <1>2, <1>3, <2>1, LayersArePartial
<1>7. options = OverrideOptions(By("file", keys))
  BY DEF layers, OverrideOptions
<1> HIDE DEF options
<1> QED
  BY <1>6, <1>7 DEF NobodyIsOverruled

\* The keys in Stryker's options and in the files are those that there are.
OptionsType ==
  /\ asked.sets \subseteq OptionKeys
  /\ \A f \in {"named", "standard", "lastResort"} :
       toolFiles[f].sets \subseteq OptionKeys /\ toolFiles[f].state \in {"fine", "absent", "broken"}

\* What AskedOptionsCount says of options that were loaded.
Counts(options, isReported) ==
  /\ optionTool \notin {"webpack", "typescript"} => \A k \in asked.sets : options[k] \in {"user", "stryker"}
  /\ NobodyIsOverruled(options)
  /\ asked.namesFile /\ State("named") # "fine" =>
       isReported \/ asked.switchesOff \/ optionTool = "jest" \/ (optionTool = "mocha5" /\ State("named") = "broken")

LEMMA FilesSay ==
  ASSUME OptionsType
  PROVE  /\ \A f \in {"named", "standard", "lastResort"} :
              \E keys \in SUBSET OptionKeys : Said(f) = By("file", keys) /\ ParseOptsFile(f) = By("file", keys \ {"usual"})
         /\ Named \in {"named", "standard", "lastResort"}
         /\ \E keys \in SUBSET OptionKeys : NoOptions = By("file", keys)
<1>1. \E keys \in SUBSET OptionKeys : NoOptions = By("file", keys)
  BY NoOptionsOfAFile
<1> QED
  BY <1>1 DEF OptionsType, Said, ParseOptsFile, Named

\* Layered, whatever the file says.
LEMMA LayeredCounts ==
  ASSUME OptionsType, NEW defaults \in SUBSET OptionKeys, NEW insisted \in SUBSET Insisted, NEW fromFile,
         \E keys \in SUBSET OptionKeys : fromFile = By("file", keys)
  PROVE  /\ \A k \in asked.sets : Layered(defaults, fromFile, insisted)[k] \in {"user", "stryker"}
         /\ NobodyIsOverruled(Layered(defaults, fromFile, insisted))
  BY LayeredOptions DEF OptionsType

LEMMA LoadedOptionsCount ==
  ASSUME OptionsType, LoadOptions
  PROVE  AskedOptionsCount'
<1>1. ASSUME NEW options, NEW isReported, Loaded(options, isReported), Counts(options, isReported)
      PROVE  AskedOptionsCount'
  <2>1. optionTool' = optionTool /\ asked' = asked /\ toolFiles' = toolFiles
    BY DEF LoadOptions
  <2>2. toolOptions' = options /\ reported' = isReported
    BY <1>1 DEF Loaded
  <2> QED BY <1>1, <2>1, <2>2 DEF Counts, NobodyIsOverruled, AskedOptionsCount, State
<1>2. ASSUME Unloadable PROVE AskedOptionsCount'
  BY <1>2 DEF Unloadable, AskedOptionsCount
<1>3. /\ {} \in SUBSET OptionKeys /\ {"usual"} \in SUBSET OptionKeys
      /\ {} \in SUBSET Insisted /\ Insisted \in SUBSET Insisted
  BY DEF OptionKeys
<1>4. CASE optionTool = "mocha" /\ LoadMocha6Options
  <2> DEFINE fromFile == IF asked.switchesOff THEN NoOptions ELSE Said(Named)
             options == Layered({"usual"}, fromFile, {})
  <2>1. \E keys \in SUBSET OptionKeys : fromFile = By("file", keys)
    BY FilesSay
  <2> HIDE DEF fromFile
  <2>2. CASE /\ Loaded(options, FALSE) /\ MochaLoadOptions # "broken"
             /\ ~(MochaLoadOptions = "absent" /\ asked.namesFile /\ ~asked.switchesOff)
    <3>1. asked.namesFile /\ State("named") # "fine" => asked.switchesOff
      BY <2>2 DEF OptionsType, State, MochaLoadOptions, Named
    <3> HIDE DEF options
    <3>2. (\A k \in asked.sets : options[k] \in {"user", "stryker"}) /\ NobodyIsOverruled(options)
      BY <1>3, <2>1, LayeredCounts DEF options
    <3>3. Counts(options, FALSE)
      BY <3>1, <3>2 DEF Counts
    <3> QED BY <1>1, <2>2, <3>3
  <2> QED BY <1>2, <1>4, <2>2 DEF LoadMocha6Options, fromFile
<1>5. CASE optionTool = "mocha5" /\ LoadLegacyMochaOptsFile
  <2> DEFINE isLeftOut == asked.switchesOff \/ State(Named) = "absent"
             fromFile == IF isLeftOut THEN NoOptions ELSE ParseOptsFile(Named)
             options == Layered({"usual"}, fromFile, {})
             isReported == asked.namesFile /\ isLeftOut /\ ~asked.switchesOff
  <2>1. \E keys \in SUBSET OptionKeys : fromFile = By("file", keys)
    BY FilesSay
  <2>2. Loaded(options, isReported)
    BY <1>5 DEF LoadLegacyMochaOptsFile
  <2> HIDE DEF fromFile
  <2>3. asked.namesFile /\ State("named") # "fine" => isReported \/ asked.switchesOff \/ State("named") = "broken"
    BY DEF OptionsType, State, Named
  <2> HIDE DEF options
  <2>4. (\A k \in asked.sets : options[k] \in {"user", "stryker"}) /\ NobodyIsOverruled(options)
    BY <1>3, <2>1, LayeredCounts DEF options
  <2>5. Counts(options, isReported)
    BY <1>5, <2>3, <2>4 DEF Counts
  <2> HIDE DEF isReported
  <2> QED BY <1>1, <2>2, <2>5
<1>6. CASE optionTool = "jest" /\ LoadCustomJest
  <2> DEFINE options == Layered({}, LoadJestConfig, Insisted)
  <2>1. \E keys \in SUBSET OptionKeys : LoadJestConfig = By("file", keys)
    BY FilesSay DEF LoadJestConfig
  <2>2. Loaded(options, FALSE)
    BY <1>6 DEF LoadCustomJest
  <2> HIDE DEF options
  <2>3. (\A k \in asked.sets : options[k] \in {"user", "stryker"}) /\ NobodyIsOverruled(options)
    BY <1>3, <2>1, LayeredCounts DEF options
  <2>4. Counts(options, FALSE)
    BY <1>6, <2>3 DEF Counts
  <2> QED BY <1>1, <2>2, <2>4
<1>7. CASE optionTool = "createReactApp" /\ LoadReactScripts
  <2> DEFINE options == Layered({}, Said("standard"), Insisted)
  <2>1. CASE Loaded(options, asked.namesFile)
    <3> HIDE DEF options
    <3>1. (\A k \in asked.sets : options[k] \in {"user", "stryker"}) /\ NobodyIsOverruled(options)
      BY <1>3, FilesSay, LayeredCounts DEF options
    <3>2. Counts(options, asked.namesFile)
      BY <3>1 DEF Counts
    <3> QED BY <1>1, <2>1, <3>2
  <2> QED BY <1>2, <1>7, <2>1 DEF LoadReactScripts
<1>8. CASE optionTool = "karma" /\ LoadKarmaConf
  <2>1. ASSUME NEW fromFile, \E keys \in SUBSET OptionKeys : fromFile = By("file", keys),
               NEW isReported, Loaded(Layered({"usual"}, fromFile, Insisted), isReported),
               asked.namesFile /\ State("named") # "fine" => isReported
        PROVE  AskedOptionsCount'
    <3> DEFINE options == Layered({"usual"}, fromFile, Insisted)
    <3> HIDE DEF options
    <3>1. (\A k \in asked.sets : options[k] \in {"user", "stryker"}) /\ NobodyIsOverruled(options)
      BY <1>3, <2>1, LayeredCounts DEF options
    <3>2. Counts(options, isReported)
      BY <2>1, <3>1 DEF Counts
    <3> QED BY <1>1, <2>1, <3>2 DEF options
  <2>2. CASE ~asked.namesFile
    <3>1. Loaded(Layered({"usual"}, NoOptions, Insisted), FALSE)
      BY <1>8, <2>2 DEF LoadKarmaConf
    <3> QED BY <2>1, <2>2, <3>1, FilesSay
  <2>3. CASE asked.namesFile /\ State("named") # "broken"
    <3>1. Loaded(Layered({"usual"}, Said("named"), Insisted), State("named") = "absent")
      BY <1>8, <2>3 DEF LoadKarmaConf
    <3>2. State("named") # "fine" => State("named") = "absent"
      BY <2>3 DEF OptionsType, State
    <3> DEFINE isReported == State("named") = "absent"
    <3> HIDE DEF isReported
    <3>3. Loaded(Layered({"usual"}, Said("named"), Insisted), isReported) /\ (State("named") # "fine" => isReported)
      BY <3>1, <3>2 DEF isReported
    <3> QED BY <2>1, <3>3, FilesSay
  <2>4. CASE asked.namesFile /\ State("named") = "broken"
    <3>1. PICK before \in SUBSET OptionKeys : Loaded(Layered({"usual"}, By("file", before), Insisted), TRUE)
      BY <1>8, <2>4 DEF LoadKarmaConf
    <3> QED BY <2>1, <3>1
  <2> QED BY <2>2, <2>3, <2>4
<1>9. CASE optionTool = "babel" /\ LoadBabelOptions
  <2> DEFINE fromFile == IF asked.switchesOff THEN NoOptions ELSE Said(Named)
             options == Layered({}, fromFile, Insisted)
             isReported == ~asked.switchesOff /\ State(Named) # "fine"
  <2>1. \E keys \in SUBSET OptionKeys : fromFile = By("file", keys)
    BY FilesSay
  <2>2. Loaded(options, isReported)
    BY <1>9 DEF LoadBabelOptions
  <2> HIDE DEF fromFile
  <2>3. asked.namesFile /\ State("named") # "fine" => isReported \/ asked.switchesOff
    BY DEF Named
  <2> HIDE DEF options
  <2>4. (\A k \in asked.sets : options[k] \in {"user", "stryker"}) /\ NobodyIsOverruled(options)
    BY <1>3, <2>1, LayeredCounts DEF options
  <2>5. Counts(options, isReported)
    BY <2>3, <2>4 DEF Counts
  <2> HIDE DEF isReported
  <2> QED BY <1>1, <2>2, <2>5
<1>10. CASE optionTool = "webpack" /\ LoadWebpackConfig
  <2> DEFINE user == UserFirst(<<By("user", asked.sets \cap {"usual"}), By("tool", {"usual"})>>)
  <2>1. CASE asked.namesFile /\ State("named") = "fine" /\ Loaded(Said("named"), FALSE)
    <3>1. PICK keys \in SUBSET OptionKeys : Said("named") = By("file", keys)
      BY FilesSay
    <3>2. \A k \in DOMAIN By("file", keys) : By("file", keys)[k] = "file"
      BY DEF By
    <3>3. Counts(Said("named"), FALSE)
      BY <1>10, <2>1, <3>1, <3>2 DEF Counts, NobodyIsOverruled
    <3> QED BY <1>1, <2>1, <3>3
  <2>2. CASE ~asked.namesFile /\ Loaded(user, FALSE)
    <3>1. NobodyIsOverruled(user)
      BY UserOverTool DEF OptionsType
    <3> HIDE DEF user
    <3>2. Counts(user, FALSE)
      BY <1>10, <2>2, <3>1 DEF Counts
    <3> QED BY <1>1, <2>2, <3>2
  <2> QED BY <1>2, <1>10, <2>1, <2>2 DEF LoadWebpackConfig
<1>11. CASE optionTool = "typescript" /\ LoadTSConfig
  <2>1. ASSUME NEW fromFile, \E keys \in SUBSET OptionKeys : fromFile = By("file", keys),
               NEW isReported, Loaded(OverrideOptions(fromFile), isReported), ~asked.namesFile \/ State("named") = "fine"
        PROVE  AskedOptionsCount'
    <3>1. NobodyIsOverruled(OverrideOptions(fromFile))
      BY <2>1, StrykerOverFile DEF OptionsType
    <3>2. Counts(OverrideOptions(fromFile), isReported)
      BY <1>11, <2>1, <3>1 DEF Counts
    <3> QED BY <1>1, <2>1, <3>2
  <2>2. CASE ~asked.namesFile
    <3>1. CASE Loaded(OverrideOptions(NoOptions), FALSE)
      BY <2>1, <2>2, <3>1, FilesSay
    <3> QED BY <1>2, <1>11, <2>2, <3>1 DEF LoadTSConfig
  <2>3. CASE asked.namesFile /\ State("named") = "fine"
    <3>1. PICK hasErrors \in BOOLEAN : Loaded(OverrideOptions(Said("named")), hasErrors)
      BY <1>11, <2>3 DEF LoadTSConfig
    <3> QED BY <2>1, <2>3, <3>1, FilesSay
  <2> QED BY <1>2, <1>11, <2>2, <2>3 DEF LoadTSConfig
<1> QED
  BY <1>4, <1>5, <1>6, <1>7, <1>8, <1>9, <1>10, <1>11 DEF LoadOptions

-----------------------------------------------------------------------------
(* The initializer *)

\* Filter keeps the elements of the array that are to be kept, and has none of them twice if the array has not.
IsFiltered(filtered, array, n, kept) ==
  /\ ToSet(filtered) = {array[i] : i \in 1 .. n} \cap kept
  /\ IsInjective(array) => IsInjective(filtered)

LEMMA FilterKeeps ==
  ASSUME NEW S, NEW array \in Seq(S), NEW kept
  PROVE  Filter(array, kept) \in Seq(S) /\ IsFiltered(Filter(array, kept), array, Len(array), kept)
<1> DEFINE n == Len(array)
           V == Seq(S)
           after(i, v) == IF array[i] \in kept THEN Append(v, array[i]) ELSE v
           Solves(iter) ==
             iter = [s \in SUBSET (DOMAIN array) |-> IF s = {} THEN << >> ELSE after(Max(s), iter[s \ {Max(s)}])]
           filter == CHOOSE iter : Solves(iter)
<1>0. n \in Nat /\ DOMAIN array = 1 .. n
  OBVIOUS
<1>1. Filter(array, kept) = filter[DOMAIN array]
  BY DEF Filter, FoldLeft, MapThenFoldSet
<1>2. << >> \in V
  OBVIOUS
<1>3. \A i \in 1 .. n, v \in V : after(i, v) \in V
  OBVIOUS
<1> HIDE DEF n
<1>4. Solves(filter)
  <2> DEFINE step == [i \in 1 .. n |-> [v \in V |-> after(i, v)]]
  <2>1. \A i \in 1 .. n, v \in V : step[i][v] = after(i, v) /\ after(i, v) \in V
    <3> HIDE DEF after, V
    <3> QED BY <1>3
  <2> HIDE DEF after, step, V
  <2>2. PICK iter : IsFold(iter, 1 .. n, V, << >>, step, Largest(n))
    BY <1>0, <1>2, <2>1, LeftFoldExists
  <2>3. \A s \in SUBSET (1 .. n) : s # {} => /\ Max(s) \in 1 .. n /\ iter[s \ {Max(s)}] \in V
                                             /\ Largest(n)[s] = Max(s)
    BY <1>0, <2>2, LargestIsIn DEF IsFold, Largest
  <2>4. \A s \in SUBSET (1 .. n) : iter[s] = IF s = {} THEN << >> ELSE after(Max(s), iter[s \ {Max(s)}])
    <3> SUFFICES ASSUME NEW s \in SUBSET (1 .. n)
                 PROVE  iter[s] = IF s = {} THEN << >> ELSE after(Max(s), iter[s \ {Max(s)}])
      OBVIOUS
    <3>1. iter[s] = IF s = {} THEN << >> ELSE step[Largest(n)[s]][iter[s \ {Largest(n)[s]}]]
      BY <2>2 DEF IsFold
    <3> QED BY <3>1, <2>1, <2>3
  <2>5. Solves(iter)
    BY <1>0, <2>2, <2>4 DEF IsFold
  <2> QED BY <2>5
<1> DEFINE upTo(i) == filter[1 .. i]
<1>5. upTo(0) = << >> /\ \A i \in 1 .. n : upTo(i) = after(i, upTo(i - 1))
  <2> HIDE DEF after
  <2>1. \A s \in SUBSET (1 .. n) : filter[s] = IF s = {} THEN << >> ELSE after(Max(s), filter[s \ {Max(s)}])
    <3> HIDE DEF filter
    <3> QED BY <1>0, <1>4
  <2> HIDE DEF filter
  <2>2. upTo(0) = << >>
    BY <2>1, 1 .. 0 = {}
  <2>3. ASSUME NEW i \in 1 .. n PROVE upTo(i) = after(i, upTo(i - 1))
    <3>a. i \in Nat \ {0} /\ i <= n
      BY <1>0
    <3>b. n \in Nat
      BY <1>0
    <3>1. 1 .. i \in SUBSET (1 .. n) /\ i \in 1 .. i
      BY <3>a, <3>b
    <3>2. Max(1 .. i) = i /\ (1 .. i) \ {i} = 1 .. i - 1
      BY <3>a, LargestOfPrefix
    <3> QED BY <2>1, <3>1, <3>2
  <2> QED BY <2>2, <2>3
<1> DEFINE T == {i \in 0 .. n : upTo(i) \in V /\ IsFiltered(upTo(i), array, i, kept)}
<1>6. 0 \in T
  <2>1. IsFiltered(<< >>, array, 0, kept)
    BY DEF IsFiltered, ToSet, IsInjective
  <2> HIDE DEF upTo, V, after
  <2> QED BY <1>0, <1>2, <1>5, <2>1
<1>7. ASSUME NEW i \in 0 .. n - 1, i \in T PROVE i + 1 \in T
  <2> DEFINE k == i + 1   some == upTo(i)   x == array[k]
  <2>1. k \in 1 .. n /\ k - 1 = i /\ 1 .. k = (1 .. i) \cup {k} /\ k \notin 1 .. i /\ x \in S
    BY <1>0
  <2>2. some \in V /\ IsFiltered(some, array, i, kept)
    <3> HIDE DEF upTo, V
    <3> QED BY <1>7
  <2>3. upTo(k) = IF x \in kept THEN Append(some, x) ELSE some
    <3> HIDE DEF upTo
    <3> QED BY <1>5, <2>1
  <2> HIDE DEF upTo, some, k
  <2>4. \A m \in 1 .. k : m \in 1 .. i \/ m = k
    BY <2>1
  <2>5. {array[m] : m \in 1 .. k} = {array[m] : m \in 1 .. i} \cup {x}
    BY <2>1
  <2>6. CASE x \notin kept
    <3>1. IsFiltered(some, array, k, kept)
      BY <2>2, <2>5, <2>6 DEF IsFiltered
    <3> QED BY <2>1, <2>2, <2>3, <2>6, <3>1 DEF k
  <2>7. CASE x \in kept
    <3> DEFINE longer == Append(some, x)
    <3>1. longer \in V /\ Len(longer) = Len(some) + 1 /\ Len(some) \in Nat /\ longer[Len(some) + 1] = x
          /\ \A m \in 1 .. Len(some) : longer[m] = some[m]
      BY <2>1, <2>2
    <3>2. DOMAIN longer = DOMAIN some \cup {Len(some) + 1} /\ DOMAIN some = 1 .. Len(some)
      BY <2>2, <3>1
    <3> HIDE DEF longer
    <3>3. ToSet(longer) = ToSet(some) \cup {x}
      BY <3>1, <3>2 DEF ToSet
    <3>4. ToSet(longer) = {array[m] : m \in 1 .. k} \cap kept
      BY <2>2, <2>5, <2>7, <3>3 DEF IsFiltered
    <3>5. ASSUME IsInjective(array) PROVE IsInjective(longer)
      <4>1. x \notin {array[m] : m \in 1 .. i}
        BY <1>0, <2>1, <3>5 DEF IsInjective
      <4>2. \A m \in 1 .. Len(some) : some[m] # x
        BY <2>2, <3>2, <4>1 DEF IsFiltered, ToSet
      <4>3. IsInjective(some)
        BY <2>2, <3>5 DEF IsFiltered
      <4> QED BY <3>1, <3>2, <4>2, <4>3 DEF IsInjective
    <3>6. IsFiltered(longer, array, k, kept)
      BY <3>4, <3>5 DEF IsFiltered
    <3>7. upTo(k) = longer
      BY <2>3, <2>7 DEF longer
    <3>8. upTo(k) \in V /\ IsFiltered(upTo(k), array, k, kept) /\ k \in 0 .. n
      BY <1>0, <2>1, <3>1, <3>6, <3>7
    <3> HIDE DEF V
    <3> QED BY <3>8 DEF k
  <2> QED BY <2>6, <2>7
<1>8. n \in T
  <2> HIDE DEF T
  <2>1. \A i \in 0 .. n : i \in T
    BY <1>0, <1>6, <1>7, UpTo
  <2> QED BY <1>0, <2>1
<1> QED
  BY <1>0, <1>1, <1>8 DEF n

\* Of the pieces that have a key one counts, and the object if there is none.
IsAssigned(assigned, object, pieces, n) ==
  /\ DOMAIN assigned = DOMAIN object \cup UNION {DOMAIN pieces[i] : i \in 1 .. n}
  /\ \A k \in DOMAIN assigned :
       \/ \E i \in 1 .. n : k \in DOMAIN pieces[i] /\ assigned[k] = pieces[i][k]
       \/ assigned[k] = object[k] /\ \A i \in 1 .. n : k \notin DOMAIN pieces[i]

LEMMA PiecesCount ==
  ASSUME NEW n \in Nat, NEW pieces, DOMAIN pieces = 1 .. n, NEW object
  PROVE  IsAssigned(Assign(object, pieces), object, pieces, n)
<1> DEFINE keys == DOMAIN object \cup UNION {DOMAIN pieces[i] : i \in 1 .. n}
           values == {object[k] : k \in DOMAIN object} \cup UNION {{pieces[i][k] : k \in DOMAIN pieces[i]} : i \in 1 .. n}
           V == {object} \cup Partial(keys, values)
           after(i, v) == Over(pieces[i], v)
           Solves(iter) ==
             iter = [s \in SUBSET (DOMAIN pieces) |-> IF s = {} THEN object ELSE after(Max(s), iter[s \ {Max(s)}])]
           assign == CHOOSE iter : Solves(iter)
<1>0. n \in Nat /\ DOMAIN pieces = 1 .. n
  OBVIOUS
<1>1. Assign(object, pieces) = assign[DOMAIN pieces]
  BY DEF Assign, FoldLeft, MapThenFoldSet
<1>2. object \in V
  OBVIOUS
<1>3. \A i \in 1 .. n, v \in V : after(i, v) \in V
  <2> SUFFICES ASSUME NEW i \in 1 .. n, NEW v \in V PROVE Over(pieces[i], v) \in V
    OBVIOUS
  <2> DEFINE all == DOMAIN pieces[i] \cup DOMAIN v
  <2>1. DOMAIN pieces[i] \subseteq keys /\ \A k \in DOMAIN pieces[i] : pieces[i][k] \in values
    OBVIOUS
  <2>2. DOMAIN object \subseteq keys /\ \A k \in DOMAIN object : object[k] \in values
    OBVIOUS
  <2> HIDE DEF keys, values
  <2>3. DOMAIN v \subseteq keys /\ \A k \in DOMAIN v : v[k] \in values
    BY <2>2 DEF Partial
  <2>4. all \in SUBSET keys /\ Over(pieces[i], v) \in [all -> values]
    BY <2>1, <2>3 DEF Over
  <2> HIDE DEF all
  <2> QED BY <2>4 DEF Partial
<1>4. Solves(assign)
  <2> DEFINE step == [i \in 1 .. n |-> [v \in V |-> after(i, v)]]
  <2>1. \A i \in 1 .. n, v \in V : step[i][v] = after(i, v) /\ after(i, v) \in V
    <3> HIDE DEF after, V
    <3> QED BY <1>3
  <2> HIDE DEF after, step, V
  <2>2. PICK iter : IsFold(iter, 1 .. n, V, object, step, Largest(n))
    BY <1>0, <1>2, <2>1, LeftFoldExists
  <2>3. \A s \in SUBSET (1 .. n) : s # {} => /\ Max(s) \in 1 .. n /\ iter[s \ {Max(s)}] \in V
                                             /\ Largest(n)[s] = Max(s)
    BY <1>0, <2>2, LargestIsIn DEF IsFold, Largest
  <2>4. \A s \in SUBSET (1 .. n) : iter[s] = IF s = {} THEN object ELSE after(Max(s), iter[s \ {Max(s)}])
    <3> SUFFICES ASSUME NEW s \in SUBSET (1 .. n)
                 PROVE  iter[s] = IF s = {} THEN object ELSE after(Max(s), iter[s \ {Max(s)}])
      OBVIOUS
    <3>1. iter[s] = IF s = {} THEN object ELSE step[Largest(n)[s]][iter[s \ {Largest(n)[s]}]]
      BY <2>2 DEF IsFold
    <3> QED BY <3>1, <2>1, <2>3
  <2>5. Solves(iter)
    BY <1>0, <2>2, <2>4 DEF IsFold
  <2> QED BY <2>5
<1> DEFINE upTo(i) == assign[1 .. i]
<1>5. upTo(0) = object /\ \A i \in 1 .. n : upTo(i) = after(i, upTo(i - 1))
  <2> HIDE DEF after
  <2>1. \A s \in SUBSET (1 .. n) : assign[s] = IF s = {} THEN object ELSE after(Max(s), assign[s \ {Max(s)}])
    <3> HIDE DEF assign
    <3> QED BY <1>0, <1>4
  <2> HIDE DEF assign
  <2>2. upTo(0) = object
    BY <2>1, 1 .. 0 = {}
  <2>3. ASSUME NEW i \in 1 .. n PROVE upTo(i) = after(i, upTo(i - 1))
    <3>a. i \in Nat \ {0} /\ i <= n
      BY <1>0
    <3>b. n \in Nat
      BY <1>0
    <3>1. 1 .. i \in SUBSET (1 .. n) /\ i \in 1 .. i
      BY <3>a, <3>b
    <3>2. Max(1 .. i) = i /\ (1 .. i) \ {i} = 1 .. i - 1
      BY <3>a, LargestOfPrefix
    <3> QED BY <2>1, <3>1, <3>2
  <2> QED BY <2>2, <2>3
<1> DEFINE T == {i \in 0 .. n : IsAssigned(upTo(i), object, pieces, i)}
<1>6. 0 \in T
  <2>1. UNION {DOMAIN pieces[i] : i \in 1 .. 0} = {} /\ \A i \in 1 .. 0 : FALSE
    OBVIOUS
  <2>2. IsAssigned(object, object, pieces, 0)
    BY <2>1 DEF IsAssigned
  <2> HIDE DEF upTo, V, after
  <2> QED BY <1>0, <1>5, <2>2
<1>7. ASSUME NEW i \in 0 .. n - 1, i \in T PROVE i + 1 \in T
  <2> DEFINE k == i + 1   o == upTo(i)   p == pieces[k]
  <2>1. k \in 1 .. n /\ k - 1 = i /\ 1 .. k = (1 .. i) \cup {k}
    BY <1>0
  <2>2. IsAssigned(o, object, pieces, i)
    <3> HIDE DEF upTo
    <3> QED BY <1>7
  <2>3. upTo(k) = Over(p, o)
    <3> HIDE DEF upTo
    <3> QED BY <1>5, <2>1
  <2> DEFINE both == Over(p, o)
  <2>4. DOMAIN both = DOMAIN o \cup DOMAIN p
    BY DEF Over
  <2>5. \A key \in DOMAIN both : both[key] = IF key \in DOMAIN p THEN p[key] ELSE o[key]
    BY DEF Over
  <2> HIDE DEF upTo, o, k, both
  <2>6. DOMAIN both = DOMAIN object \cup UNION {DOMAIN pieces[m] : m \in 1 .. k}
    BY <2>1, <2>2, <2>4 DEF IsAssigned
  <2>7. ASSUME NEW key \in DOMAIN both
        PROVE  \/ \E m \in 1 .. k : key \in DOMAIN pieces[m] /\ both[key] = pieces[m][key]
               \/ both[key] = object[key] /\ \A m \in 1 .. k : key \notin DOMAIN pieces[m]
    <3>1. CASE key \in DOMAIN p
      BY <2>1, <2>5, <2>7, <3>1
    <3>2. CASE key \notin DOMAIN p
      <4>1. key \in DOMAIN o /\ both[key] = o[key]
        BY <2>4, <2>5, <2>7, <3>2
      <4> QED BY <2>1, <2>2, <3>2, <4>1 DEF IsAssigned
    <3> QED BY <3>1, <3>2
  <2>8. IsAssigned(both, object, pieces, k)
    BY <2>6, <2>7 DEF IsAssigned
  <2> QED BY <2>1, <2>3, <2>8 DEF k, both
<1>8. n \in T
  <2> HIDE DEF T
  <2>1. \A i \in 0 .. n : i \in T
    BY <1>0, <1>6, <1>7, UpTo
  <2> QED BY <1>0, <2>1
<1> QED
  BY <1>0, <1>1, <1>8

\* The answers that can be given.
Presets == AngularPreset \cup ReactPreset \cup VueJsPreset
Runners == TestRunnerOptions \cup {null, "command"}
Frameworks == FrameworkOptions \cup {null}
MutatorNames == MutatorOptions \cup {null}
AnswersType ==
  /\ answers \in [runner : Runners, framework : Frameworks, mutator : MutatorNames,
                  transpilers : Seq(ToSet(TranspilerOptions)),
                  reporters : Seq(ToSet(ReporterOptions) \cup ToSet(BuiltIn)), preset : SUBSET Presets]
  /\ IsInjective(answers.transpilers)
  /\ answers.preset = {} \/ \E p \in Presets : answers.preset = {p}

LEMMA ElementsOfConcatenation ==
  ASSUME NEW S, NEW s \in Seq(S), NEW t \in Seq(S)
  PROVE  s \o t \in Seq(S) /\ ToSet(s \o t) = ToSet(s) \cup ToSet(t)
<1>1. /\ s \o t \in Seq(S) /\ Len(s \o t) = Len(s) + Len(t) /\ Len(s) \in Nat /\ Len(t) \in Nat
      /\ \A i \in 1 .. Len(s) : (s \o t)[i] = s[i]
      /\ \A i \in 1 .. Len(t) : (s \o t)[Len(s) + i] = t[i]
  OBVIOUS
<1> DEFINE both == s \o t
<1>2. DOMAIN both = 1 .. Len(s) + Len(t) /\ DOMAIN s = 1 .. Len(s) /\ DOMAIN t = 1 .. Len(t)
  BY <1>1
<1> HIDE DEF both
<1>3. \A i \in DOMAIN both : both[i] \in ToSet(s) \cup ToSet(t)
  <2> SUFFICES ASSUME NEW i \in DOMAIN both PROVE both[i] \in ToSet(s) \cup ToSet(t)
    OBVIOUS
  <2>1. CASE i <= Len(s)
    BY <1>1, <1>2, <2>1 DEF ToSet, both
  <2>2. CASE i > Len(s)
    <3> DEFINE j == i - Len(s)
    <3>1. j \in 1 .. Len(t) /\ i = Len(s) + j
      BY <1>1, <1>2, <2>2
    <3> HIDE DEF j
    <3> QED BY <1>1, <1>2, <3>1 DEF ToSet, both
  <2> QED BY <1>1, <1>2, <2>1, <2>2
<1>4. \A i \in DOMAIN s : s[i] \in ToSet(both)
  <2>1. \A i \in DOMAIN s : i \in DOMAIN both /\ both[i] = s[i]
    BY <1>1, <1>2 DEF both
  <2> QED BY <2>1 DEF ToSet
<1>5. \A i \in DOMAIN t : t[i] \in ToSet(both)
  <2>1. \A i \in DOMAIN t : Len(s) + i \in DOMAIN both /\ both[Len(s) + i] = t[i]
    BY <1>1, <1>2 DEF both
  <2> QED BY <2>1 DEF ToSet
<1>6. ToSet(both) = ToSet(s) \cup ToSet(t)
  BY <1>3, <1>4, <1>5 DEF ToSet
<1> QED
  BY <1>1, <1>6 DEF both

\* What is chosen is a package, but for what Stryker brings itself.
LEMMA ChosenAre ==
  ASSUME AnswersType
  PROVE  /\ ToSet(ChosenPackages) =
              ({answers.runner, answers.framework, answers.mutator} \cup ToSet(answers.transpilers) \cup ToSet(answers.reporters))
              \ ({null, "command"} \cup ToSet(BuiltIn))
         /\ \E S : ChosenPackages \in Seq(S)
<1> DEFINE S == Runners \cup Frameworks \cup MutatorNames \cup ToSet(TranspilerOptions) \cup ToSet(ReporterOptions) \cup ToSet(BuiltIn)
           first == <<answers.runner, answers.framework, answers.mutator>>
           ts == answers.transpilers
           rs == answers.reporters
           chosen == first \o ts \o rs
           kept == ToSet(chosen) \ ({null, "command"} \cup ToSet(BuiltIn))
<1>1. answers.runner \in S /\ answers.framework \in S /\ answers.mutator \in S /\ ts \in Seq(S) /\ rs \in Seq(S)
  <2>1. ts \in Seq(ToSet(TranspilerOptions)) /\ rs \in Seq(ToSet(ReporterOptions) \cup ToSet(BuiltIn))
    BY DEF AnswersType
  <2> QED BY <2>1 DEF AnswersType
<1> HIDE DEF S
<1>2. first \in Seq(S) /\ ToSet(first) = {answers.runner, answers.framework, answers.mutator}
  <2>1. first \in Seq(S)
    BY <1>1
  <2>2. DOMAIN first = 1 .. 3 /\ first[1] = answers.runner /\ first[2] = answers.framework /\ first[3] = answers.mutator
    OBVIOUS
  <2>3. \A i \in 1 .. 3 : i = 1 \/ i = 2 \/ i = 3
    OBVIOUS
  <2> HIDE DEF first
  <2>4. ToSet(first) = {answers.runner, answers.framework, answers.mutator}
    BY <2>2, <2>3 DEF ToSet
  <2> QED BY <2>1, <2>4
<1> HIDE DEF first, ts, rs
<1>3. chosen \in Seq(S) /\ ToSet(chosen) = ToSet(first) \cup ToSet(ts) \cup ToSet(rs)
  <2> DEFINE begin == first \o ts
  <2>1. begin \in Seq(S) /\ ToSet(begin) = ToSet(first) \cup ToSet(ts)
    BY <1>1, <1>2, ElementsOfConcatenation
  <2> HIDE DEF begin
  <2>2. begin \o rs \in Seq(S) /\ ToSet(begin \o rs) = ToSet(begin) \cup ToSet(rs)
    BY <1>1, <2>1, ElementsOfConcatenation
  <2> QED BY <2>1, <2>2 DEF begin
<1>4. ChosenPackages = Filter(chosen, kept)
  BY DEF ChosenPackages, first, ts, rs
<1> HIDE DEF chosen
<1>5. Filter(chosen, kept) \in Seq(S) /\ IsFiltered(Filter(chosen, kept), chosen, Len(chosen), kept)
  BY <1>3, FilterKeeps
<1>6. ToSet(Filter(chosen, kept)) = kept
  <2>1. ToSet(chosen) = {chosen[i] : i \in 1 .. Len(chosen)}
    BY <1>3 DEF ToSet
  <2> QED BY <1>5, <2>1 DEF IsFiltered
<1> QED
  BY <1>2, <1>3, <1>4, <1>5, <1>6 DEF ts, rs

\* Of Stryker's own packages, the plugins of a config are installed, and it runs, or a package that could not be asked
\* was to say why it will not.
WillRun(config, failed) ==
  Dependencies \cap OtherPackages = {} =>
    \/ AcceptedByRun(config, ToBeNamed)
    \/ (\E p \in failed : SaysOff(p)) /\ AcceptedByRun(Over([coverageAnalysis |-> "off"], config), ToBeNamed)

\* With the coverage analysis off any options are accepted.
LEMMA OffIsAccepted ==
  ASSUME NEW config, "coverageAnalysis" \in DOMAIN config, config.coverageAnalysis = "off"
  PROVE  CoverageAccepted(config)
<1> DEFINE defaults == [transpilers |-> << >>, coverageAnalysis |-> "off"]
<1>1. "coverageAnalysis" \in DOMAIN Over(config, defaults) /\ Over(config, defaults).coverageAnalysis = "off"
  BY DEF Over
<1> QED
  BY <1>1 DEF CoverageAccepted

\* The plugins that are named are those of the answers.
LEMMA PluginsAre ==
  ASSUME NEW config, {"testRunner", "mutator", "reporters"} \subseteq DOMAIN config
  PROVE  PluginsOf(config) =
           {config.mutator} \cup ({config.testRunner} \ {"command"})
           \cup (IF "transpilers" \in DOMAIN config THEN ToSet(config.transpilers) ELSE {})
           \cup (ToSet(config.reporters) \ ToSet(BuiltIn))
<1> DEFINE options == Over(config, [transpilers |-> << >>])
<1>1. /\ options.testRunner = config.testRunner /\ options.mutator = config.mutator
      /\ options.reporters = config.reporters
      /\ options.transpilers = IF "transpilers" \in DOMAIN config THEN config.transpilers ELSE << >>
  BY DEF Over
<1>2. ToSet(<< >>) = {}
  BY DEF ToSet
<1> HIDE DEF options
<1>3. PluginsOf(config) = {options.mutator} \cup ({options.testRunner} \ {"command"}) \cup ToSet(options.transpilers)
                          \cup (ToSet(options.reporters) \ ToSet(BuiltIn))
  BY DEF PluginsOf, options
<1> QED
  BY <1>1, <1>2, <1>3

LEMMA PresetsRun ==
  ASSUME NEW p \in Presets, answers.preset = {p}
  PROVE  WillRun(p.config, {})
<1>1. PICK mutator, runner, packages : p = Preset(mutator, runner, packages) /\ mutator \in packages /\ runner \in packages
  <2>1. CASE p \in AngularPreset
    BY <2>1 DEF AngularPreset
  <2>2. CASE p \in ReactPreset
    BY <2>2 DEF ReactPreset
  <2>3. CASE p \in VueJsPreset
    BY <2>3 DEF VueJsPreset
  <2> QED BY <2>1, <2>2, <2>3 DEF Presets
<1>2. /\ p.config = [mutator |-> mutator, testRunner |-> runner, reporters |-> PresetReporters, coverageAnalysis |-> "off"]
      /\ p.packages = packages
  BY <1>1 DEF Preset
<1>3. CoverageAccepted(p.config)
  <2>1. "coverageAnalysis" \in DOMAIN p.config /\ p.config.coverageAnalysis = "off"
    BY <1>2
  <2> QED BY <2>1, OffIsAccepted
<1>4. packages \subseteq Dependencies
  BY <1>2 DEF Dependencies
<1>5. ToSet(PresetReporters) \subseteq ToSet(BuiltIn)
  BY DEF ToSet, PresetReporters, BuiltIn
<1>6. /\ p.config.testRunner = runner /\ p.config.mutator = mutator /\ p.config.reporters = PresetReporters
      /\ DOMAIN p.config = {"mutator", "testRunner", "reporters", "coverageAnalysis"}
  BY <1>2
<1>7. PluginsOf(p.config) \subseteq Dependencies
  BY <1>1, <1>4, <1>5, <1>6, PluginsAre
<1> QED
  BY <1>3, <1>7 DEF WillRun, AcceptedByRun, LoadedPlugins

LEMMA AnswersRun ==
  ASSUME AnswersType, answers.preset = {}, NEW failed \in SUBSET (Dependencies \cap DOMAIN InitStrykerConfig)
  PROVE  WillRun(ConfigObject(Dependencies \ failed), failed)
<1> SUFFICES ASSUME Dependencies \cap OtherPackages = {}
             PROVE  LET config == ConfigObject(Dependencies \ failed)
                    IN  \/ AcceptedByRun(config, ToBeNamed)
                        \/ /\ \E p \in failed : SaysOff(p)
                           /\ AcceptedByRun(Over([coverageAnalysis |-> "off"], config), ToBeNamed)
  BY DEF WillRun
<1> DEFINE fetched == Dependencies \ failed
           adding == Filter(ChosenPackages, fetched \cap DOMAIN InitStrykerConfig)
           pieces == [i \in DOMAIN adding |-> InitStrykerConfig[adding[i]]]
           config == ConfigObject(fetched)
           named == {"testRunner", "mutator", "reporters", "transpilers"}
           own == {null, "command"} \cup ToSet(BuiltIn)
<1>1. Dependencies = ToSet(ChosenPackages)
  BY DEF Dependencies
<1>2. ToSet(adding) = fetched \cap DOMAIN InitStrykerConfig /\ Len(adding) \in Nat /\ DOMAIN adding = 1 .. Len(adding)
  <2>1. PICK S : ChosenPackages \in Seq(S)
    BY ChosenAre
  <2>2. adding \in Seq(S)
        /\ IsFiltered(adding, ChosenPackages, Len(ChosenPackages), fetched \cap DOMAIN InitStrykerConfig)
    BY <2>1, FilterKeeps
  <2>3. ToSet(ChosenPackages) = {ChosenPackages[i] : i \in 1 .. Len(ChosenPackages)}
    BY <2>1 DEF ToSet
  <2> HIDE DEF adding
  <2>4. ToSet(adding) = fetched \cap DOMAIN InitStrykerConfig
    BY <1>1, <2>2, <2>3 DEF IsFiltered
  <2> QED BY <2>2, <2>4
<1>3. config = Assign(Base, pieces)
  BY DEF ConfigObject, AdditionalPieces
<1>4. \A i \in 1 .. Len(adding) : /\ adding[i] \in DOMAIN InitStrykerConfig \ OtherPackages
                                  /\ pieces[i] = InitStrykerConfig[adding[i]]
  <2> HIDE DEF adding
  <2>1. fetched \cap OtherPackages = {}
    OBVIOUS
  <2> HIDE DEF fetched
  <2> QED BY <1>2, <2>1 DEF ToSet
<1>5. DOMAIN pieces = 1 .. Len(adding)
  BY <1>2
<1> HIDE DEF adding, pieces, config
<1>6. IsAssigned(config, Base, pieces, Len(adding))
  BY <1>2, <1>3, <1>5, PiecesCount
<1>7. /\ named \cup {"coverageAnalysis"} \subseteq DOMAIN Base
      /\ Base.testRunner = NameOf(answers.runner) /\ Base.mutator = NameOf(answers.mutator)
      /\ Base.reporters = answers.reporters /\ Base.transpilers = answers.transpilers
  BY DEF Base, ConfigureTestFramework, Over
<1>8. \A key \in named : key \in DOMAIN config /\ config[key] = Base[key]
  <2>1. \A i \in 1 .. Len(adding) : DOMAIN pieces[i] \cap named = {}
    BY <1>4, PackagesAdd
  <2> QED BY <1>6, <1>7, <2>1 DEF IsAssigned
<1>9. /\ config.testRunner = NameOf(answers.runner) /\ config.mutator = NameOf(answers.mutator)
      /\ config.reporters = answers.reporters /\ config.transpilers = answers.transpilers
      /\ named \subseteq DOMAIN config
  BY <1>7, <1>8
<1>10. "coverageAnalysis" \in DOMAIN config
  BY <1>6, <1>7 DEF IsAssigned
<1>11. ASSUME NEW p \in fetched, SaysOff(p) PROVE config.coverageAnalysis = "off"
  <2>1. PICK i \in 1 .. Len(adding) : adding[i] = p
    BY <1>2, <1>11 DEF ToSet, SaysOff
  <2>2. "coverageAnalysis" \in DOMAIN pieces[i]
    BY <1>4, <1>11, <2>1 DEF SaysOff
  <2>3. PICK j \in 1 .. Len(adding) : "coverageAnalysis" \in DOMAIN pieces[j]
                                     /\ config.coverageAnalysis = pieces[j].coverageAnalysis
    BY <1>6, <1>10, <2>2 DEF IsAssigned
  <2> QED BY <1>4, <2>3, PackagesAdd DEF SaysOff
<1>12. ToSet(ChosenPackages) =
         ({answers.runner, answers.framework, answers.mutator} \cup ToSet(answers.transpilers) \cup ToSet(answers.reporters)) \ own
  BY ChosenAre
<1>13. /\ answers.transpilers \in Seq(ToSet(TranspilerOptions)) /\ IsInjective(answers.transpilers)
       /\ answers.reporters \in Seq(ToSet(ReporterOptions) \cup ToSet(BuiltIn))
       /\ answers.runner \in Runners /\ answers.mutator \in MutatorNames
  BY DEF AnswersType
<1>14. PluginsOf(config) \ ToBeNamed \subseteq LoadedPlugins
  <2> DEFINE transpilers == ToSet(TranspilerOptions)   reporters == ToSet(ReporterOptions)   builtIn == ToSet(BuiltIn)
  <2>1. PluginsOf(config) =
          {config.mutator} \cup ({config.testRunner} \ {"command"}) \cup ToSet(config.transpilers)
          \cup (ToSet(config.reporters) \ builtIn)
    BY <1>9, PluginsAre
  <2>2. (TestRunnerOptions \cup MutatorOptions \cup transpilers \cup reporters) \cap own = {}
    BY NamesAreFoundOnce
  <2>3. \A i \in DOMAIN answers.transpilers : answers.transpilers[i] \in transpilers
    <3> HIDE DEF transpilers
    <3> QED BY <1>13 DEF transpilers
  <2>4. \A i \in DOMAIN answers.reporters : answers.reporters[i] \in reporters \cup builtIn
    <3> HIDE DEF reporters, builtIn
    <3> QED BY <1>13 DEF reporters, builtIn
  <2> HIDE DEF transpilers, reporters
  <2>5. ToSet(answers.transpilers) \subseteq transpilers /\ ToSet(answers.reporters) \subseteq reporters \cup builtIn
    <3> HIDE DEF builtIn
    <3> QED BY <2>3, <2>4 DEF ToSet
  <2>6. own = {null, "command"} \cup builtIn
    OBVIOUS
  <2> HIDE DEF builtIn, own
  <2>7. ToSet(answers.transpilers) \cup (ToSet(answers.reporters) \ builtIn) \subseteq ToSet(ChosenPackages)
    BY <1>12, <2>2, <2>5, <2>6
  <2>8. NameOf(answers.mutator) \in ToBeNamed \cup ToSet(ChosenPackages)
    <3>1. CASE answers.mutator = null
      BY <3>1 DEF NameOf, ToBeNamed
    <3>2. CASE answers.mutator # null
      BY <1>12, <1>13, <2>2, <3>2 DEF NameOf, MutatorNames
    <3> QED BY <3>1, <3>2
  <2>9. NameOf(answers.runner) \in ToBeNamed \cup ToSet(ChosenPackages) \cup {"command"}
    <3>1. CASE answers.runner = null
      BY <3>1 DEF NameOf, ToBeNamed
    <3>2. CASE answers.runner # null
      BY <1>12, <1>13, <2>2, <3>2 DEF NameOf, Runners
    <3> QED BY <3>1, <3>2
  <2> QED BY <1>1, <1>9, <2>1, <2>7, <2>8, <2>9 DEF LoadedPlugins
<1>15. CASE config.coverageAnalysis = "off"
  <2>1. CoverageAccepted(config)
    BY <1>10, <1>15, OffIsAccepted
  <2> QED BY <1>14, <2>1 DEF AcceptedByRun, config
<1>16. CASE config.coverageAnalysis # "off" /\ \E p \in ToSet(ChosenPackages) : SaysOff(p)
  <2>1. PICK p \in ToSet(ChosenPackages) : SaysOff(p)
    BY <1>16
  <2>2. p \in failed
    BY <1>1, <1>11, <1>16, <2>1
  <2> DEFINE off == Over([coverageAnalysis |-> "off"], config)
  <2>3. /\ DOMAIN off = DOMAIN config \cup {"coverageAnalysis"} /\ off.coverageAnalysis = "off"
        /\ \A key \in named : off[key] = config[key]
    BY <1>9 DEF Over
  <2> HIDE DEF off
  <2>4. CoverageAccepted(off)
    BY <2>3, OffIsAccepted
  <2>5. PluginsOf(off) = PluginsOf(config)
    BY <1>9, <2>3, PluginsAre
  <2> QED BY <1>14, <2>1, <2>2, <2>4, <2>5 DEF AcceptedByRun, config, off
<1>17. CASE ~\E p \in ToSet(ChosenPackages) : SaysOff(p)
  <2>0. ToSet(ChosenPackages) \cap OtherPackages = {}
    BY <1>1
  <2>1. "wct" \notin own /\ "babel" \notin own /\ "webpack" \notin own /\ "wct" # ""
    <3>1. DOMAIN BuiltIn = 1 .. 4 /\ BuiltIn[1] = "html" /\ BuiltIn[2] = "clear-text" /\ BuiltIn[3] = "progress"
          /\ BuiltIn[4] = "dashboard"
      BY DEF BuiltIn
    <3>2. \A i \in 1 .. 4 : i = 1 \/ i = 2 \/ i = 3 \/ i = 4
      OBVIOUS
    <3>3. ToSet(BuiltIn) = {"html", "clear-text", "progress", "dashboard"}
      BY <3>1, <3>2 DEF ToSet
    <3> QED BY <3>3 DEF null
  <2>2. NameOf(answers.runner) # "wct"
    <3>1. answers.runner # "wct"
      BY <1>12, <1>17, <2>0, <2>1, PackagesAdd
    <3> QED BY <2>1, <3>1 DEF NameOf
  <2>3. \A t \in ToSet(answers.transpilers) : t = "typescript"
    <3> DEFINE options == ToSet(TranspilerOptions)
    <3>1. options \cap own = {} /\ options \ OtherPackages \subseteq {"babel", "webpack", "typescript"}
      BY NamesAreFoundOnce, PackagesAdd
    <3> HIDE DEF options, own
    <3>2. \A i \in DOMAIN answers.transpilers : answers.transpilers[i] \in options
      BY <1>13 DEF options
    <3>3. \A t \in ToSet(answers.transpilers) : t \in options
      BY <3>2 DEF ToSet
    <3>4. ASSUME NEW t \in ToSet(answers.transpilers) PROVE t = "typescript"
      <4>1. t \in ToSet(ChosenPackages)
        BY <1>12, <3>1, <3>3, <3>4
      <4>2. t \in {"babel", "webpack", "typescript"}
        BY <2>0, <3>1, <3>3, <3>4, <4>1
      <4>3. t \in {"babel", "webpack"} => SaysOff(t)
        BY <2>0, <4>1, PackagesAdd
      <4> QED BY <1>17, <4>1, <4>2, <4>3
    <3> QED BY <3>4
  <2>4. \A i \in DOMAIN answers.transpilers : answers.transpilers[i] = "typescript"
    BY <2>3 DEF ToSet
  <2>5. Len(answers.transpilers) <= 1
    <3> SUFFICES ASSUME Len(answers.transpilers) > 1 PROVE FALSE
      BY <1>13
    <3>1. 1 \in DOMAIN answers.transpilers /\ 2 \in DOMAIN answers.transpilers
      BY <1>13
    <3> QED BY <1>13, <2>4, <3>1 DEF IsInjective
  <2>6. CoverageAccepted(config)
    <3> DEFINE options == Over(config, [transpilers |-> << >>, coverageAnalysis |-> "off"])
    <3>1. options.transpilers = answers.transpilers /\ options.testRunner = NameOf(answers.runner)
      BY <1>9 DEF Over
    <3> HIDE DEF options
    <3>2. /\ Len(options.transpilers) > 1 => options.coverageAnalysis = "off"
          /\ options.testRunner # "wct"
          /\ \A i \in DOMAIN options.transpilers : options.transpilers[i] \notin {"babel", "webpack"}
      BY <1>13, <2>2, <2>4, <2>5, <3>1
    <3> QED BY <3>2 DEF CoverageAccepted, options
  <2> QED BY <1>14, <2>6 DEF AcceptedByRun, config
<1> QED
  BY <1>15, <1>16, <1>17

-----------------------------------------------------------------------------
(* Source files *)

Increasing(s) == \A i, j \in 1 .. Len(s) : i < j => s[i] < s[j]

LEMMA PutInFront ==
  ASSUME NEW x \in Nat, NEW s \in Seq(Nat), Increasing(s), \A y \in ToSet(s) : x < y
  PROVE  /\ <<x>> \o s \in Seq(Nat) /\ Increasing(<<x>> \o s)
         /\ ToSet(<<x>> \o s) = {x} \cup ToSet(s)
         /\ Len(<<x>> \o s) = Len(s) + 1 /\ (<<x>> \o s)[1] = x
<1> DEFINE longer == <<x>> \o s
<1>1. /\ longer \in Seq(Nat) /\ Len(longer) = Len(s) + 1 /\ Len(s) \in Nat
      /\ longer[1] = x /\ \A i \in 1 .. Len(s) : longer[i + 1] = s[i]
  OBVIOUS
<1>2. ToSet(longer) = {x} \cup ToSet(s)
  <2> DEFINE first == <<x>>
  <2>1. first \in Seq(Nat) /\ DOMAIN first = 1 .. 1 /\ first[1] = x
    OBVIOUS
  <2> HIDE DEF first
  <2>2. ToSet(first) = {x}
    BY <2>1 DEF ToSet
  <2>3. ToSet(first \o s) = ToSet(first) \cup ToSet(s)
    BY <2>1, ElementsOfConcatenation
  <2> QED BY <2>2, <2>3 DEF first
<1>3. \A i \in 1 .. Len(s) : x < s[i]
  BY DEF ToSet
<1> HIDE DEF longer
<1>4. ASSUME NEW i \in 1 .. Len(longer), NEW j \in 1 .. Len(longer), i < j
      PROVE  longer[i] < longer[j]
  <2> DEFINE h == i - 1   k == j - 1
  <2>1. k \in 1 .. Len(s) /\ j = k + 1 /\ longer[j] = s[k]
    <3>1. k \in 1 .. Len(s) /\ j = k + 1
      BY <1>1, <1>4
    <3> HIDE DEF k
    <3> QED BY <1>1, <3>1
  <2>2. CASE i = 1
    BY <1>1, <1>3, <2>1, <2>2
  <2>3. CASE i # 1
    <3>1. h \in 1 .. Len(s) /\ i = h + 1 /\ h < k
      BY <1>1, <1>4, <2>3
    <3>2. longer[i] = s[h]
      BY <1>1, <3>1
    <3> HIDE DEF h, k
    <3> QED BY <2>1, <3>1, <3>2 DEF Increasing
  <2> QED BY <2>2, <2>3
<1> QED
  BY <1>1, <1>2, <1>4 DEF Increasing, longer

\* Where a line break ends: BreakEnds, of any characters.
InPair(chars, p) == p \in 1..Len(chars) - 1 /\ chars[p] = CR /\ chars[p + 1] = LF
Breaks(chars) == {p \in 1..Len(chars) : chars[p] # "a" /\ ~InPair(chars, p)}

LEMMA NextIsBehind ==
  ASSUME NEW chars \in Seq(Characters), NEW pos \in 0 .. Len(chars) - 1, ~InPair(chars, pos)
  PROVE  /\ Behind(chars, pos) \in pos + 1 .. Len(chars) /\ ~InPair(chars, Behind(chars, pos))
         /\ {p \in Breaks(chars) : p > pos} =
              (IF chars[pos + 1] = "a" THEN {} ELSE {Behind(chars, pos)}) \cup {p \in Breaks(chars) : p > Behind(chars, pos)}
<1> DEFINE n == Len(chars)   next == Behind(chars, pos)
<1>1. n \in Nat /\ CR # "a" /\ LF # "a" /\ CR # LF
  BY DEF CR, LF
<1>2. CASE chars[pos + 1] = CR /\ pos + 1 < n /\ chars[pos + 2] = LF
  <2>1. next = pos + 2
    BY <1>2 DEF Behind
  <2>2. pos + 1 \notin Breaks(chars) /\ pos + 2 \in Breaks(chars) /\ ~InPair(chars, pos + 2)
    BY <1>1, <1>2 DEF Breaks, InPair
  <2>3. \A p \in Breaks(chars) : p > pos <=> p = pos + 2 \/ p > pos + 2
    BY <1>1, <2>2 DEF Breaks
  <2> QED BY <1>1, <1>2, <2>1, <2>2, <2>3
<1>3. CASE ~(chars[pos + 1] = CR /\ pos + 1 < n /\ chars[pos + 2] = LF)
  <2>1. next = pos + 1
    BY <1>3 DEF Behind
  <2>2. ~InPair(chars, pos + 1)
    BY <1>1, <1>3 DEF InPair
  <2>3. pos + 1 \in Breaks(chars) <=> chars[pos + 1] # "a"
    BY <1>1, <2>2 DEF Breaks
  <2>4. \A p \in Breaks(chars) : p > pos <=> p = pos + 1 \/ p > pos + 1
    BY <1>1 DEF Breaks
  <2> QED BY <1>1, <2>1, <2>2, <2>3, <2>4
<1> QED
  BY <1>2, <1>3

\* The recursion of LineStarts, for the lines that begin behind a position.
LEMMA LineStartsAre ==
  ASSUME NEW chars \in Seq(Characters)
  PROVE  /\ LineStarts(chars) \in Seq(Nat) /\ Increasing(LineStarts(chars))
         /\ ToSet(LineStarts(chars)) = {0} \cup Breaks(chars)
         /\ Len(LineStarts(chars)) >= 1 /\ LineStarts(chars)[1] = 0
<1> DEFINE n == Len(chars)
           next(pos) == Behind(chars, pos)
           value(pos, f) == IF pos = n THEN << >>
                            ELSE IF chars[pos + 1] = "a" THEN f[next(pos)] ELSE <<next(pos)>> \o f[next(pos)]
           Solves(f) == f = [pos \in 0 .. n |-> value(pos, f)]
           starts == CHOOSE f : Solves(f)
<1>0. n \in Nat
  OBVIOUS
<1>1. LineStarts(chars) = <<0>> \o starts[0]
  BY DEF LineStarts
<1>2. \A pos \in 0 .. n - 1 : next(pos) \in pos + 1 .. n
  BY DEF Behind
<1>3. \E f : Solves(f)
  <2> DEFINE T == {k \in 0 .. n : \E f : f = [pos \in n - k .. n |-> value(pos, f)]}
  <2>1. 0 \in T
    <3> DEFINE f == [pos \in n .. n |-> << >>]
    <3>1. \A pos \in n .. n : value(pos, f) = << >>
      BY <1>0
    <3> HIDE DEF value
    <3>2. f = [pos \in n - 0 .. n |-> value(pos, f)]
      BY <1>0, <3>1
    <3> HIDE DEF f
    <3>3. \E g : g = [pos \in n - 0 .. n |-> value(pos, g)]
      BY <3>2
    <3> HIDE DEF n
    <3> QED BY <1>0, <3>3
  <2>2. ASSUME NEW k \in 0 .. n - 1, k \in T PROVE k + 1 \in T
    <3>1. PICK f : f = [pos \in n - k .. n |-> value(pos, f)]
      BY <2>2
    <3> DEFINE m == n - (k + 1)   longer == [pos \in m .. n |-> value(pos, f)]
    <3>a. m \in 0 .. n - 1 /\ n - k = m + 1 /\ k + 1 \in 0 .. n
      BY <1>0
    <3> HIDE DEF m
    <3>2. \A pos \in m .. n : pos # n => next(pos) \in n - k .. n
      <4> HIDE DEF next, n
      <4> QED BY <1>0, <1>2, <3>a
    <3>3. \A pos \in n - k .. n : longer[pos] = f[pos]
      <4>1. \A pos \in n - k .. n : pos \in m .. n
        BY <1>0, <3>a
      <4> HIDE DEF value, n
      <4> QED BY <3>1, <4>1
    <3>4. \A pos \in m .. n : value(pos, longer) = value(pos, f)
      <4> HIDE DEF longer, next
      <4> QED BY <3>2, <3>3
    <3>5. longer = [pos \in m .. n |-> value(pos, longer)]
      <4> HIDE DEF value
      <4> QED BY <3>4
    <3> HIDE DEF longer, value
    <3> QED BY <3>5, <3>a DEF m
  <2>3. n \in T
    <3> HIDE DEF T, n
    <3>1. \A k \in 0 .. n : k \in T
      BY <1>0, <2>1, <2>2, UpTo
    <3> QED BY <1>0, <3>1
  <2>4. n - n .. n = 0 .. n
    BY <1>0
  <2> HIDE DEF value
  <2> QED BY <2>3, <2>4
<1>4. \A pos \in 0 .. n : starts[pos] = value(pos, starts)
  <2>1. Solves(starts)
    <3> HIDE DEF Solves
    <3> QED BY <1>3
  <2> HIDE DEF starts, value
  <2> QED BY <2>1
<1> HIDE DEF starts
<1> DEFINE Right(pos) == InPair(chars, pos) \/ (/\ starts[pos] \in Seq(Nat) /\ Increasing(starts[pos])
                                               /\ ToSet(starts[pos]) = {p \in Breaks(chars) : p > pos})
           T == {k \in 0 .. n : \A pos \in n - k .. n : Right(pos)}
<1>5. 0 \in T
  <2>1. starts[n] = << >>
    <3>1. value(n, starts) = << >> /\ n \in 0 .. n
      BY <1>0
    <3> HIDE DEF value, n
    <3> QED BY <1>4, <3>1
  <2>2. {p \in Breaks(chars) : p > n} = {}
    BY <1>0 DEF Breaks
  <2>3. << >> \in Seq(Nat) /\ Increasing(<< >>) /\ ToSet(<< >>) = {}
    BY DEF Increasing, ToSet
  <2>4. \A pos \in n - 0 .. n : pos = n
    BY <1>0
  <2>5. Right(n)
    BY <2>1, <2>2, <2>3
  <2> HIDE DEF Right, n
  <2> QED BY <1>0, <2>4, <2>5
<1>6. ASSUME NEW k \in 0 .. n - 1, k \in T PROVE k + 1 \in T
  <2> DEFINE m == n - (k + 1)
  <2>1. m \in 0 .. n - 1 /\ n - k = m + 1 /\ k + 1 \in 0 .. n
    BY <1>0
  <2> HIDE DEF m
  <2>2. \A pos \in m + 1 .. n : Right(pos)
    BY <1>6, <2>1
  <2>3. Right(m)
    <3> SUFFICES ASSUME ~InPair(chars, m)
                 PROVE  /\ starts[m] \in Seq(Nat) /\ Increasing(starts[m])
                        /\ ToSet(starts[m]) = {p \in Breaks(chars) : p > m}
      OBVIOUS
    <3> DEFINE b == next(m)   s == starts[b]
    <3>1. /\ b \in m + 1 .. n /\ ~InPair(chars, b)
          /\ {p \in Breaks(chars) : p > m} = (IF chars[m + 1] = "a" THEN {} ELSE {b}) \cup {p \in Breaks(chars) : p > b}
      BY <2>1, NextIsBehind
    <3>2. s \in Seq(Nat) /\ Increasing(s) /\ ToSet(s) = {p \in Breaks(chars) : p > b}
      <4> HIDE DEF b
      <4> QED BY <2>2, <3>1
    <3>3. starts[m] = IF chars[m + 1] = "a" THEN s ELSE <<b>> \o s
      BY <1>4, <2>1
    <3>4. b \in Nat /\ \A y \in ToSet(s) : b < y
      <4> HIDE DEF b, s, n
      <4> QED BY <1>0, <2>1, <3>1, <3>2
    <3> HIDE DEF b, s
    <3>5. <<b>> \o s \in Seq(Nat) /\ Increasing(<<b>> \o s) /\ ToSet(<<b>> \o s) = {b} \cup ToSet(s)
      BY <3>2, <3>4, PutInFront
    <3> QED BY <3>1, <3>2, <3>3, <3>5
  <2>4. \A pos \in m .. n : pos = m \/ pos \in m + 1 .. n
    BY <1>0, <2>1
  <2> HIDE DEF Right
  <2> QED BY <2>1, <2>2, <2>3, <2>4 DEF m
<1>7. Right(0)
  <2>1. n \in T
    <3> HIDE DEF T, n
    <3>1. \A k \in 0 .. n : k \in T
      BY <1>0, <1>5, <1>6, UpTo
    <3> QED BY <1>0, <3>1
  <2>2. 0 \in n - n .. n
    BY <1>0
  <2> HIDE DEF Right
  <2> QED BY <2>1, <2>2
<1>8. /\ starts[0] \in Seq(Nat) /\ Increasing(starts[0])
      /\ ToSet(starts[0]) = Breaks(chars) /\ \A y \in Breaks(chars) : 0 < y
  BY <1>0, <1>7 DEF InPair, Breaks
<1> QED
  BY <1>1, <1>8, PutInFront

\* Where a value is, or would be, in an increasing sequence.
IsFoundAt(found, array, value) ==
  /\ found \in Int
  /\ found >= 0 => found + 1 \in 1 .. Len(array) /\ array[found + 1] = value
  /\ found < 0 => /\ -found - 1 \in 0 .. Len(array)
                  /\ \A i \in 1 .. -found - 1 : array[i] < value
                  /\ \A i \in -found .. Len(array) : array[i] > value

LEMMA BinarySearchFinds ==
  ASSUME NEW array \in Seq(Nat), Increasing(array), NEW value \in Nat
  PROVE  IsFoundAt(BinarySearch(array, value), array, value)
<1> DEFINE n == Len(array)
           Windows == (0 .. n) \X (-1 .. n - 1)
           middle(w) == w[1] + (w[2] - w[1]) \div 2
           narrowed(w, f) == IF w[1] > w[2] THEN -w[1] - 1
                             ELSE IF array[middle(w) + 1] = value THEN middle(w)
                             ELSE IF array[middle(w) + 1] > value THEN f[<<w[1], middle(w) - 1>>]
                             ELSE f[<<middle(w) + 1, w[2]>>]
           Solves(f) == f = [w \in Windows |-> narrowed(w, f)]
           search == CHOOSE f : Solves(f)
           Narrow(k) == {w \in Windows : w[2] - w[1] < k}
<1>0. n \in Nat
  OBVIOUS
<1>1. BinarySearch(array, value) = search[<<0, n - 1>>]
  BY DEF BinarySearch
<1>2. ASSUME NEW w \in Windows, w[1] <= w[2]
      PROVE  /\ middle(w) \in w[1] .. w[2]
             /\ <<w[1], middle(w) - 1>> \in Windows /\ <<middle(w) + 1, w[2]>> \in Windows
             /\ (middle(w) - 1) - w[1] < w[2] - w[1] /\ w[2] - (middle(w) + 1) < w[2] - w[1]
  <2> DEFINE low == w[1]   high == w[2]
  <2>1. low \in 0 .. n /\ high \in -1 .. n - 1 /\ low <= high
    BY <1>0, <1>2
  <2> HIDE DEF low, high, n
  <2>2. low + (high - low) \div 2 \in low .. high
    BY <1>0, <2>1
  <2>3. middle(w) = low + (high - low) \div 2
    BY DEF low, high
  <2> DEFINE m == middle(w)
  <2> HIDE DEF m
  <2>4. m \in low .. high
    BY <2>2, <2>3 DEF m
  <2>5. /\ low \in 0 .. n /\ m - 1 \in -1 .. n - 1 /\ m + 1 \in 0 .. n /\ high \in -1 .. n - 1
        /\ (m - 1) - low < high - low /\ high - (m + 1) < high - low
    BY <1>0, <2>1, <2>4
  <2> QED BY <2>4, <2>5 DEF low, high, m
<1>3. Narrow(0) \subseteq {w \in Windows : w[1] > w[2]} /\ Narrow(n) = Windows
  <2>1. ASSUME NEW w \in Windows PROVE (w[2] - w[1] < 0 => w[1] > w[2]) /\ w[2] - w[1] < n
    BY <1>0, <2>1
  <2> HIDE DEF Windows, n
  <2> QED BY <2>1
<1>4. \E f : Solves(f)
  <2> DEFINE T == {k \in 0 .. n : \E f : f = [w \in Narrow(k) |-> narrowed(w, f)]}
  <2>1. 0 \in T
    <3> DEFINE f == [w \in Narrow(0) |-> -w[1] - 1]
    <3>1. \A w \in Narrow(0) : narrowed(w, f) = -w[1] - 1
      <4> HIDE DEF f, Narrow, Windows
      <4> QED BY <1>3
    <3> HIDE DEF narrowed, Narrow
    <3>2. f = [w \in Narrow(0) |-> narrowed(w, f)]
      BY <3>1
    <3> HIDE DEF f
    <3>3. \E g : g = [w \in Narrow(0) |-> narrowed(w, g)]
      BY <3>2
    <3> HIDE DEF n
    <3> QED BY <1>0, <3>3
  <2>2. ASSUME NEW k \in 0 .. n - 1, k \in T PROVE k + 1 \in T
    <3>1. PICK f : f = [w \in Narrow(k) |-> narrowed(w, f)]
      BY <2>2
    <3> DEFINE longer == [w \in Narrow(k + 1) |-> narrowed(w, f)]
    <3>2. ASSUME NEW w \in Narrow(k + 1), w[1] <= w[2]
          PROVE  <<w[1], middle(w) - 1>> \in Narrow(k) /\ <<middle(w) + 1, w[2]>> \in Narrow(k)
      <4>1. w \in Windows /\ w[2] - w[1] < k + 1 /\ w[1] \in Int /\ w[2] \in Int /\ k \in Int
        BY <1>0, <3>2
      <4> DEFINE m == middle(w)
      <4> HIDE DEF Windows, n, m
      <4>2. /\ m \in w[1] .. w[2]
            /\ <<w[1], m - 1>> \in Windows /\ <<m + 1, w[2]>> \in Windows
            /\ (m - 1) - w[1] < w[2] - w[1] /\ w[2] - (m + 1) < w[2] - w[1]
        BY <1>2, <3>2, <4>1 DEF m
      <4>3. (m - 1) - w[1] < k /\ w[2] - (m + 1) < k
        BY <4>1, <4>2
      <4> QED BY <4>2, <4>3 DEF m
    <3>3. \A w \in Narrow(k) : w \in Narrow(k + 1) /\ longer[w] = f[w]
      <4>1. \A w \in Narrow(k) : w \in Narrow(k + 1)
        BY <1>0
      <4> HIDE DEF narrowed, Narrow
      <4> QED BY <3>1, <4>1
    <3>a. \A w \in Narrow(k + 1) : w[1] \in Int /\ w[2] \in Int
      BY <1>0
    <3>4. \A w \in Narrow(k + 1) : narrowed(w, longer) = narrowed(w, f)
      <4> HIDE DEF longer, middle, Narrow
      <4> QED BY <3>2, <3>3, <3>a
    <3>5. longer = [w \in Narrow(k + 1) |-> narrowed(w, longer)]
      <4> HIDE DEF narrowed, Narrow
      <4> QED BY <3>4
    <3> HIDE DEF longer, narrowed, Narrow
    <3>6. k + 1 \in 0 .. n
      BY <1>0
    <3> HIDE DEF n
    <3> QED BY <3>5, <3>6
  <2>3. n \in T
    <3> HIDE DEF T, n
    <3>1. \A k \in 0 .. n : k \in T
      BY <1>0, <2>1, <2>2, UpTo
    <3> QED BY <1>0, <3>1
  <2> HIDE DEF narrowed, Narrow, Windows, n
  <2> QED BY <1>3, <2>3
<1>5. \A w \in Windows : search[w] = narrowed(w, search)
  <2>1. Solves(search)
    <3> HIDE DEF Solves
    <3> QED BY <1>4
  <2> HIDE DEF search, narrowed, Windows
  <2> QED BY <2>1
<1> HIDE DEF search
<1> DEFINE Holds(w) == /\ w[1] <= w[2] + 1
                       /\ \A i \in 1 .. w[1] : array[i] < value
                       /\ \A i \in w[2] + 2 .. n : array[i] > value
           T == {k \in 0 .. n : \A w \in Narrow(k) : Holds(w) => IsFoundAt(search[w], array, value)}
<1>6. ASSUME NEW w \in Windows, w[1] > w[2], Holds(w) PROVE IsFoundAt(search[w], array, value)
  <2> DEFINE low == w[1]
  <2>1. low \in 0 .. n /\ w[2] \in -1 .. n - 1
    OBVIOUS
  <2>2. search[w] = -low - 1
    BY <1>5, <1>6
  <2>3. w[2] + 2 = low + 1
    BY <1>0, <1>6, <2>1
  <2>4. (\A i \in 1 .. low : array[i] < value) /\ \A i \in low + 1 .. n : array[i] > value
    BY <1>6, <2>3
  <2> HIDE DEF low, n
  <2>5. -low - 1 \in Int /\ -low - 1 < 0 /\ -(-low - 1) - 1 = low /\ -(-low - 1) = low + 1
    BY <1>0, <2>1
  <2> QED BY <2>1, <2>2, <2>4, <2>5 DEF IsFoundAt, n
<1>7. 0 \in T
  <2> HIDE DEF Holds, Windows, n, Narrow
  <2> QED BY <1>0, <1>3, <1>6
<1>8. ASSUME NEW k \in 0 .. n - 1, k \in T PROVE k + 1 \in T
  <2>1. ASSUME NEW w \in Narrow(k + 1), Holds(w) PROVE IsFoundAt(search[w], array, value)
    <3>1. CASE w[1] > w[2]
      <4> HIDE DEF Holds, Windows
      <4> QED BY <1>6, <2>1, <3>1
    <3>2. CASE w[1] <= w[2]
      <4> DEFINE low == w[1]   high == w[2]   m == middle(w)   left == <<low, m - 1>>   right == <<m + 1, high>>
      <4>1. w \in Windows /\ low \in 0 .. n /\ high \in -1 .. n - 1 /\ low <= high /\ high - low < k + 1
        BY <3>2
      <4>2. search[w] = IF array[m + 1] = value THEN m ELSE IF array[m + 1] > value THEN search[left] ELSE search[right]
        <5>1. ~(w[1] > w[2])
          BY <1>0, <3>2, <4>1
        <5> HIDE DEF middle, Windows
        <5> QED BY <1>5, <4>1, <5>1
      <4>3. /\ m \in low .. high /\ left \in Windows /\ right \in Windows
            /\ (m - 1) - low < high - low /\ high - (m + 1) < high - low
        <5> HIDE DEF Windows, middle
        <5> QED BY <1>2, <3>2, <4>1
      <4> DEFINE mid == m
      <4>a. left[1] = low /\ left[2] = m - 1 /\ right[1] = m + 1 /\ right[2] = high
        OBVIOUS
      <4> HIDE DEF low, high, m, n, left, right, Windows
      <4>4. m + 1 \in 1 .. n /\ m \in Int /\ m >= 0
        BY <1>0, <4>1, <4>3
      <4>5. left \in Narrow(k) /\ right \in Narrow(k)
        BY <1>0, <4>1, <4>3, <4>a
      <4>b. \A i \in 1 .. n : array[i] \in Nat
        BY DEF n
      <4>c. (\A i \in 1 .. low : array[i] < value) /\ \A i \in high + 2 .. n : array[i] > value
        BY <2>1 DEF low, high
      <4>6. CASE array[m + 1] = value
        BY <4>2, <4>4, <4>6 DEF IsFoundAt, n
      <4>7. CASE array[m + 1] > value
        <5>1. \A i \in m + 1 .. n : array[i] > value
          <6>1. \A i \in m + 1 .. n : i = m + 1 \/ array[m + 1] < array[i]
            BY <1>0, <4>4 DEF Increasing, n
          <6> QED BY <1>0, <4>4, <4>7, <4>b, <6>1
        <5>2. (m - 1) + 2 = m + 1 /\ low <= (m - 1) + 1
          BY <1>0, <4>1, <4>3, <4>4
        <5>3. Holds(left)
          BY <4>a, <4>c, <5>1, <5>2
        <5>4. array[m + 1] # value
          BY <4>4, <4>7, <4>b
        <5> HIDE DEF Holds
        <5> QED BY <1>8, <4>2, <4>5, <4>7, <5>3, <5>4
      <4>8. CASE array[m + 1] < value
        <5>1. \A i \in 1 .. m + 1 : array[i] < value
          <6>a. \A i \in 1 .. m + 1 : i \in 1 .. n /\ (i = m + 1 \/ i < m + 1)
            BY <1>0, <4>4
          <6>b. \A i \in 1 .. n : i < m + 1 => array[i] < array[m + 1]
            BY <4>4 DEF Increasing, n
          <6> SUFFICES ASSUME NEW i \in 1 .. m + 1 PROVE array[i] < value
            OBVIOUS
          <6>1. i \in 1 .. n /\ (i = m + 1 \/ i < m + 1)
            BY <6>a
          <6>2. array[i] \in Nat /\ array[m + 1] \in Nat
            BY <4>4, <4>b, <6>1
          <6>3. CASE i = m + 1
            BY <4>8, <6>3
          <6>4. CASE i < m + 1
            <7>1. array[i] < array[m + 1]
              BY <6>1, <6>4, <6>b
            <7> QED BY <4>8, <6>2, <7>1
          <6> QED BY <6>1, <6>3, <6>4
        <5>2. m + 1 <= high + 1
          BY <1>0, <4>1, <4>3, <4>4
        <5>3. Holds(right)
          BY <4>a, <4>c, <5>1, <5>2
        <5>4. array[m + 1] # value /\ ~(array[m + 1] > value)
          BY <4>4, <4>8, <4>b
        <5> HIDE DEF Holds
        <5> QED BY <1>8, <4>2, <4>5, <5>3, <5>4
      <4>9. array[m + 1] = value \/ array[m + 1] > value \/ array[m + 1] < value
        BY <4>4, <4>b
      <4> QED BY <4>6, <4>7, <4>8, <4>9
    <3>3. w[1] \in Int /\ w[2] \in Int
      BY <1>0
    <3> QED BY <3>1, <3>2, <3>3
  <2>2. k + 1 \in 0 .. n
    BY <1>0
  <2> HIDE DEF Holds, Narrow, n
  <2> QED BY <2>1, <2>2
<1>9. \A w \in Windows : Holds(w) => IsFoundAt(search[w], array, value)
  <2>1. n \in T
    <3> HIDE DEF T, n
    <3>1. \A k \in 0 .. n : k \in T
      BY <1>0, <1>7, <1>8, UpTo
    <3> QED BY <1>0, <3>1
  <2> HIDE DEF Holds, Narrow, Windows, n
  <2> QED BY <1>3, <2>1
<1>10. <<0, n - 1>> \in Windows /\ Holds(<<0, n - 1>>)
  BY <1>0
<1> QED
  BY <1>1, <1>9, <1>10

\* The line of a position: the last that begins in front of it, or at it.
LEMMA LineIsFound ==
  ASSUME NEW chars \in Seq(Characters), NEW pos \in 0 .. Len(chars)
  PROVE  LET starts == LineStarts(chars)
             line == LineFound(BinarySearch(starts, pos))
         IN  /\ line \in 0 .. Len(starts) - 1 /\ starts[line + 1] <= pos
             /\ \A i \in line + 2 .. Len(starts) : starts[i] > pos
<1> DEFINE starts == LineStarts(chars)   found == BinarySearch(starts, pos)   line == LineFound(found)
<1>1. starts \in Seq(Nat) /\ Increasing(starts) /\ Len(starts) >= 1 /\ starts[1] = 0 /\ Len(starts) \in Nat
  BY LineStartsAre
<1>2. pos \in Nat
  OBVIOUS
<1> HIDE DEF starts
<1>3. IsFoundAt(found, starts, pos)
  BY <1>1, <1>2, BinarySearchFinds
<1> HIDE DEF found
<1>4. \A i \in 1 .. Len(starts) : starts[i] \in Nat
  BY <1>1
<1>5. CASE found >= 0
  <2>1. line = found /\ found \in 0 .. Len(starts) - 1 /\ starts[found + 1] = pos
    BY <1>1, <1>3, <1>5 DEF IsFoundAt, LineFound
  <2>2. \A i \in found + 2 .. Len(starts) : starts[i] > pos
    <3>1. \A i \in found + 2 .. Len(starts) : starts[found + 1] < starts[i]
      BY <1>1, <2>1 DEF Increasing
    <3> QED BY <1>1, <1>2, <1>4, <2>1, <3>1
  <2> HIDE DEF line
  <2>3. starts[line + 1] <= pos
    BY <1>2, <2>1
  <2> QED BY <2>1, <2>2, <2>3 DEF starts, found, line
<1>6. CASE found < 0
  <2> DEFINE k == -found - 1
  <2>1. k \in 0 .. Len(starts) /\ found \in Int /\ -found = k + 1 /\ line = k - 1
    BY <1>1, <1>3, <1>6 DEF IsFoundAt, LineFound
  <2>2. (\A i \in 1 .. k : starts[i] < pos) /\ \A i \in k + 1 .. Len(starts) : starts[i] > pos
    BY <1>3, <1>6, <2>1 DEF IsFoundAt
  <2> HIDE DEF k, line
  <2>3. k # 0
    BY <1>1, <1>2, <2>1, <2>2
  <2>4. k \in 1 .. k /\ k \in 1 .. Len(starts)
    BY <1>1, <2>1, <2>3
  <2>5. line \in 0 .. Len(starts) - 1 /\ line + 1 = k /\ line + 2 = k + 1
    BY <1>1, <2>1, <2>3
  <2>6. starts[k] <= pos
    BY <1>2, <1>4, <2>2, <2>4
  <2> QED BY <2>2, <2>5, <2>6 DEF starts, found, line
<1>7. found \in Int
  BY <1>3 DEF IsFoundAt
<1> QED
  BY <1>5, <1>6, <1>7

\* SourceFile.getPosition(): the line is the number of breaks before the position, the column is counted from the last.
LEMMA PositionsAreExact ==
  ASSUME text \in Seq(Characters), NEW offset \in 0 .. Len(text)
  PROVE  PositionIsExact(GetPosition(text, offset), offset)
<1> DEFINE starts == LineStarts(text)
           line == LineFound(BinarySearch(starts, offset))
           before == {p \in BreakEnds : p <= offset}
<1>1. /\ starts \in Seq(Nat) /\ Increasing(starts) /\ ToSet(starts) = {0} \cup Breaks(text)
      /\ Len(starts) \in Nat /\ Len(starts) >= 1 /\ starts[1] = 0
  BY LineStartsAre
<1>2. /\ line \in 0 .. Len(starts) - 1 /\ starts[line + 1] <= offset
      /\ \A i \in line + 2 .. Len(starts) : starts[i] > offset
  BY LineIsFound
<1>3. BreakEnds = Breaks(text)
  BY DEF BreakEnds, Breaks, BetweenCrAndLf, InPair
<1>4. GetPosition(text, offset) = [line |-> line, column |-> offset - starts[line + 1]]
  BY DEF GetPosition
<1>5. offset \in Nat
  OBVIOUS
<1> HIDE DEF starts, line
<1>6. \A i \in 1 .. Len(starts) : starts[i] \in Nat
  BY <1>1
<1>7. before = {starts[i] : i \in 2 .. line + 1}
  <2>1. ASSUME NEW p \in before PROVE \E i \in 2 .. line + 1 : p = starts[i]
    <3>1. PICK i \in 1 .. Len(starts) : starts[i] = p
      BY <1>1, <1>3, <2>1 DEF ToSet
    <3>2. p <= offset /\ p # 0
      BY <1>3, <2>1 DEF Breaks
    <3>3. i # 1
      BY <1>1, <3>1, <3>2
    <3>4. ~(i \in line + 2 .. Len(starts))
      BY <1>2, <1>5, <1>6, <3>1, <3>2
    <3>5. i \in 2 .. line + 1
      BY <1>1, <1>2, <3>1, <3>3, <3>4
    <3> QED BY <3>1, <3>5
  <2>2. ASSUME NEW i \in 2 .. line + 1 PROVE starts[i] \in before
    <3>1. i \in 1 .. Len(starts) /\ 1 \in 1 .. Len(starts) /\ 1 < i /\ line + 1 \in 1 .. Len(starts)
          /\ (i = line + 1 \/ i < line + 1)
      BY <1>1, <1>2
    <3>2. starts[i] # 0
      BY <1>1, <3>1 DEF Increasing
    <3>3. starts[i] \in Breaks(text)
      BY <1>1, <3>1, <3>2 DEF ToSet
    <3>4. starts[i] <= starts[line + 1]
      BY <1>1, <1>6, <3>1 DEF Increasing
    <3>5. starts[i] <= offset
      BY <1>2, <1>5, <1>6, <3>1, <3>4
    <3> QED BY <1>3, <3>3, <3>5
  <2> QED BY <2>1, <2>2
<1>8. Cardinality(before) = line
  <2> DEFINE number == [i \in 1 .. line |-> starts[i + 1]]
  <2>1. line \in Nat /\ \A i \in 1 .. line : i + 1 \in 2 .. line + 1 /\ i + 1 \in 1 .. Len(starts)
    BY <1>1, <1>2
  <2>2. \A i \in 2 .. line + 1 : i - 1 \in 1 .. line /\ (i - 1) + 1 = i
    BY <2>1
  <2> HIDE DEF before
  <2>3. number \in [1 .. line -> before]
    BY <1>7, <2>1
  <2>4. ASSUME NEW i \in 1 .. line, NEW j \in 1 .. line, number[i] = number[j] PROVE i = j
    <3>1. starts[i + 1] = starts[j + 1] /\ i + 1 \in 1 .. Len(starts) /\ j + 1 \in 1 .. Len(starts)
      BY <2>1, <2>4
    <3>2. ~(starts[i + 1] < starts[j + 1]) /\ ~(starts[j + 1] < starts[i + 1])
      BY <1>6, <3>1
    <3>3. ~(i + 1 < j + 1) /\ ~(j + 1 < i + 1)
      BY <1>1, <3>1, <3>2 DEF Increasing
    <3> QED BY <3>3
  <2>5. \A p \in before : \E i \in 1 .. line : number[i] = p
    <3> SUFFICES ASSUME NEW p \in before PROVE \E i \in 1 .. line : number[i] = p
      OBVIOUS
    <3>1. PICK i \in 2 .. line + 1 : p = starts[i]
      BY <1>7
    <3>2. i - 1 \in 1 .. line /\ number[i - 1] = p
      BY <2>2, <3>1
    <3> QED BY <3>2
  <2> HIDE DEF number
  <2>6. number \in Bijection(1 .. line, before)
    BY <2>3, <2>4, <2>5 DEF Bijection, Injection, Surjection, IsInjective
  <2>7. ExistsBijection(1 .. line, before)
    BY <2>6 DEF ExistsBijection
  <2> QED BY <2>1, <2>7, FS_CountingElements
<1>9. starts[line + 1] \in {0} \cup before
  BY <1>1, <1>2, <1>7
<1>10. \A p \in before : p <= starts[line + 1]
  <2>1. ASSUME NEW i \in 2 .. line + 1 PROVE starts[i] <= starts[line + 1]
    <3>1. i \in 1 .. Len(starts) /\ line + 1 \in 1 .. Len(starts) /\ (i = line + 1 \/ i < line + 1)
      BY <1>1, <1>2
    <3> QED BY <1>1, <1>6, <3>1 DEF Increasing
  <2> HIDE DEF before
  <2> QED BY <1>7, <2>1
<1>11. GetPosition(text, offset).line = line /\ GetPosition(text, offset).column = offset - starts[line + 1]
  BY <1>4
<1> QED
  BY <1>8, <1>9, <1>10, <1>11 DEF PositionIsExact

\* A mutant is a piece of the text.
InText == /\ text \in Seq(Characters)
          /\ range \in (0 .. Len(text)) \X (0 .. Len(text)) /\ range[1] <= range[2]

\* The lines that hold it are there.
LEMMA LinesAround ==
  ASSUME InText
  PROVE  LET from == MutationLineIndexes[1]
             to == MutationLineIndexes[2]
         IN  /\ from \in 0 .. range[1] /\ (from = 0 \/ text[from] # "a")
             /\ \A i \in from + 1 .. range[1] : text[i] = "a"
             /\ to \in range[2] .. Len(text) /\ \A i \in range[2] + 1 .. to : text[i] = "a"
<1> DEFINE n == Len(text)   first == range[1]   last == range[2]
           Begins(s) == /\ s = 0 \/ IsLineBreak(text[s])
                        /\ \A i \in s + 1 .. first : ~IsLineBreak(text[i])
           Ends(e) == /\ e = n \/ IsLineBreak(text[e + 1])
                      /\ \A i \in last + 1 .. e : ~IsLineBreak(text[i])
           from == CHOOSE s \in 0 .. first : Begins(s)
           to == CHOOSE e \in last .. n : Ends(e)
<1>1. n \in Nat /\ first \in 0 .. n /\ last \in 0 .. n /\ first <= last
  BY DEF InText
<1>2. MutationLineIndexes = <<from, to>>
  BY DEF MutationLineIndexes
<1> HIDE DEF n, first, last
<1>3. \E s \in 0 .. first : Begins(s)
  <2> DEFINE Behinds == {first - s : s \in {t \in 0 .. first : t = 0 \/ IsLineBreak(text[t])}}
  <2>1. first - 0 \in Behinds /\ Behinds \subseteq Nat
    BY <1>1
  <2> HIDE DEF Behinds
  <2>2. PICK x \in Behinds : \A y \in Behinds : x <= y
    BY <2>1, SmallestNumber
  <2>3. PICK s \in 0 .. first : x = first - s /\ (s = 0 \/ IsLineBreak(text[s]))
    BY DEF Behinds
  <2>4. ASSUME NEW i \in s + 1 .. first, IsLineBreak(text[i]) PROVE FALSE
    <3>1. i \in 0 .. first /\ first - i < first - s
      BY <1>1
    <3>2. first - i \in Behinds
      BY <2>4, <3>1 DEF Behinds
    <3>3. first - s <= first - i
      BY <2>2, <2>3, <3>2
    <3> QED BY <1>1, <3>1, <3>3
  <2> QED BY <2>3, <2>4
<1>4. \E e \in last .. n : Ends(e)
  <2> DEFINE Stops == {e \in last .. n : e = n \/ IsLineBreak(text[e + 1])}
  <2>1. n \in Stops /\ Stops \subseteq Nat
    BY <1>1
  <2> HIDE DEF Stops
  <2>2. PICK e \in Stops : \A y \in Stops : e <= y
    BY <2>1, SmallestNumber
  <2>3. e \in last .. n /\ (e = n \/ IsLineBreak(text[e + 1]))
    BY DEF Stops
  <2>4. ASSUME NEW i \in last + 1 .. e, IsLineBreak(text[i]) PROVE FALSE
    <3>1. i - 1 \in last .. n /\ i - 1 < e /\ (i - 1) + 1 = i
      BY <1>1, <2>3
    <3>2. i - 1 \in Stops
      BY <2>4, <3>1 DEF Stops
    <3> QED BY <1>1, <2>2, <2>3, <3>1, <3>2
  <2> QED BY <2>3, <2>4
<1>5. from \in 0 .. first /\ Begins(from)
  <2> HIDE DEF Begins
  <2> QED BY <1>3
<1>6. to \in last .. n /\ Ends(to)
  <2> HIDE DEF Ends
  <2> QED BY <1>4
<1> HIDE DEF from, to
<1> QED
  BY <1>2, <1>5, <1>6 DEF IsLineBreak, n, first, last

LEMMA MutantIsShown ==
  ASSUME InText, original = GetLocation(text, range[1], range[2])
  PROVE  PositionIsExact(original.start, range[1]) /\ PositionIsExact(original.end, range[2]) /\ LinesShowTheMutant
<1> DEFINE n == Len(text)   first == range[1]   last == range[2]
           from == MutationLineIndexes[1]   to == MutationLineIndexes[2]
           S == Characters \cup {"replacement"}   new == <<"replacement">>
<1>1. /\ n \in Nat /\ first \in 0 .. n /\ last \in 0 .. n /\ first <= last
      /\ \A i \in 1 .. n : text[i] \in Characters
  BY DEF InText
<1>2. /\ from \in 0 .. first /\ (from = 0 \/ text[from] # "a")
      /\ \A i \in from + 1 .. first : text[i] = "a"
      /\ to \in last .. n /\ \A i \in last + 1 .. to : text[i] = "a"
  BY LinesAround
<1>3. PositionIsExact(original.start, first) /\ PositionIsExact(original.end, last)
  <2>1. original.start = GetPosition(text, first) /\ original.end = GetPosition(text, last)
    BY DEF GetLocation
  <2> QED BY <1>1, <2>1, PositionsAreExact DEF InText
<1>4. text \in Seq(S) /\ new \in Seq(S) /\ Len(text) = n
  BY DEF InText
<1>5. /\ MutatedLines = (SubSeq(text, from + 1, first) \o new) \o SubSeq(text, last + 1, to)
      /\ OriginalLines = SubSeq(text, from + 1, to)
      /\ MutatedCode = (SubSeq(text, 1, first) \o new) \o SubSeq(text, last + 1, n)
  BY DEF MutatedLines, OriginalLines, MutatedCode, WithMutant, Substring
<1> HIDE DEF n, first, last, from, to
<1>6. \A a \in 1 .. n + 1, b \in 0 .. n : SubSeq(text, a, b) \in Seq(S)
  <2> HIDE DEF S
  <2> QED BY <1>1, <1>4
<1>7. (SubSeq(text, 1, from) \o MutatedLines) \o SubSeq(text, to + 1, n) = MutatedCode
  <2> DEFINE a == SubSeq(text, 1, from)   b == SubSeq(text, from + 1, first)
             d == SubSeq(text, last + 1, to)   e == SubSeq(text, to + 1, n)
  <2>1. a \in Seq(S) /\ b \in Seq(S) /\ d \in Seq(S) /\ e \in Seq(S)
    BY <1>1, <1>2, <1>6
  <2>2. a \o b = SubSeq(text, 1, first)
    <3> HIDE DEF S
    <3> QED BY <1>1, <1>2, <1>4, ConcatAdjacentSubSeq
  <2>3. d \o e = SubSeq(text, last + 1, n)
    <3> HIDE DEF S
    <3> QED BY <1>1, <1>2, <1>4, ConcatAdjacentSubSeq
  <2> HIDE DEF a, b, d, e, S, new
  <2>4. (a \o ((b \o new) \o d)) \o e = ((a \o b) \o new) \o (d \o e)
    <3> DEFINE bn == b \o new   abn == (a \o b) \o new
    <3>1. bn \in Seq(S) /\ abn \in Seq(S)
      BY <1>4, <2>1
    <3>2. a \o bn = abn
      <4>1. a \in Seq(S) /\ b \in Seq(S)
        BY <2>1
      <4>2. new \in Seq(S)
        BY <1>4
      <4> QED BY <4>1, <4>2, ConcatAssociative
    <3> HIDE DEF bn, abn
    <3>3. a \o (bn \o d) = (a \o bn) \o d
      BY <2>1, <3>1
    <3>4. (abn \o d) \o e = abn \o (d \o e)
      BY <2>1, <3>1
    <3> QED BY <3>2, <3>3, <3>4 DEF bn, abn
  <2> QED BY <1>5, <2>2, <2>3, <2>4 DEF a, b, d, e
<1>8. (SubSeq(text, 1, from) \o OriginalLines) \o SubSeq(text, to + 1, n) = text
  <2>1. SubSeq(text, 1, from) \o SubSeq(text, from + 1, to) = SubSeq(text, 1, to)
    <3> HIDE DEF S
    <3> QED BY <1>1, <1>2, <1>4, ConcatAdjacentSubSeq
  <2>2. SubSeq(text, 1, to) \o SubSeq(text, to + 1, n) = SubSeq(text, 1, n)
    <3> HIDE DEF S
    <3> QED BY <1>1, <1>2, <1>4, ConcatAdjacentSubSeq
  <2>3. SubSeq(text, 1, n) = text
    BY <1>4, SubSeqFull
  <2> QED BY <1>5, <2>1, <2>2, <2>3
<1>9. first - from = original.start.column \/ BetweenCrAndLf(first)
  <2> SUFFICES ASSUME ~BetweenCrAndLf(first) PROVE first - from = original.start.column
    OBVIOUS
  <2> DEFINE before == {p \in BreakEnds : p <= first}
  <2>1. PICK start \in {0} \cup before : (\A p \in before : p <= start) /\ original.start.column = first - start
    BY <1>3 DEF PositionIsExact
  <2>2. \A p \in before : p \in 1 .. n /\ p <= first /\ text[p] # "a"
    BY DEF BreakEnds, n
  <2>3. from \in {0} \cup before
    <3>1. CASE from = 0
      BY <3>1
    <3>2. CASE from # 0
      <4>1. from \in 1 .. n /\ text[from] # "a" /\ from <= first
        BY <1>1, <1>2, <3>2
      <4>2. ASSUME BetweenCrAndLf(from) PROVE FALSE
        <5>1. text[from + 1] = LF /\ LF # "a"
          BY <4>2 DEF BetweenCrAndLf, LF
        <5>2. from # first
          BY <4>2
        <5>3. from + 1 \in from + 1 .. first
          BY <1>1, <1>2, <5>2
        <5> QED BY <1>2, <5>1, <5>3
      <4> QED BY <4>1, <4>2 DEF BreakEnds, n
    <3> QED BY <3>1, <3>2
  <2> HIDE DEF before
  <2>4. start \in 0 .. first /\ from <= start
    BY <1>1, <1>2, <2>1, <2>2, <2>3
  <2>5. start = from
    <3>1. CASE start \in from + 1 .. first
      <4>1. text[start] = "a" /\ start # 0
        BY <1>1, <1>2, <3>1
      <4> QED BY <2>1, <2>2, <4>1
    <3>2. CASE ~(start \in from + 1 .. first)
      BY <1>1, <1>2, <2>4, <3>2
    <3> QED BY <3>1, <3>2
  <2> QED BY <2>1, <2>5
<1>10. \A i \in DOMAIN MutatedLines : MutatedLines[i] \in {"a", "replacement"}
  <2> DEFINE L == {"a", "replacement"}
             b == SubSeq(text, from + 1, first)   d == SubSeq(text, last + 1, to)
  <2>1. b \in Seq(L)
    BY <1>1, <1>2, SubSeqProperties
  <2>2. d \in Seq(L)
    BY <1>1, <1>2, SubSeqProperties
  <2>3. new \in Seq(L)
    OBVIOUS
  <2> HIDE DEF L, b, d, new
  <2>4. (b \o new) \o d \in Seq(L)
    BY <2>1, <2>2, <2>3
  <2>5. MutatedLines \in Seq(L)
    BY <1>5, <2>4 DEF b, d
  <2>6. \A i \in DOMAIN MutatedLines : MutatedLines[i] \in L
    BY <2>5
  <2> QED BY <2>6 DEF L
<1>11. /\ Substring(text, 0, from) = SubSeq(text, 1, from)
       /\ Substring(text, to, Len(text)) = SubSeq(text, to + 1, n)
  BY DEF Substring, n
<1> QED
  BY <1>3, <1>7, <1>8, <1>9, <1>10, <1>11 DEF LinesShowTheMutant, n, first, last, from, to

LEMMA MappedFileIsIts ==
  ASSUME mapper = "transpiled", location = TranspiledLocationFor(original)
  PROVE  LocatedInItsFile
<1> DEFINE homes == {name \in TranspiledNames : transpiledFiles[name] # << >> /\ ListsSource(name, LastUrl(name))}
           broken == \E name \in TranspiledNames : transpiledFiles[name] # << >> /\ CannotBeRead(LastUrl(name))
<1>1. /\ BrokenMap <=> broken
      /\ Mapping = homes
  BY DEF BrokenMap, Mapping, HasSourceMap, SourceMapUrl, LastUrl
<1>2. LocatedInItsFile <=> IF homes # {} /\ ~broken THEN location.file \in homes ELSE location.file = "SourceMapError"
  BY DEF LocatedInItsFile
<1>3. homes # {} => (IF "lib.js" \in homes THEN "lib.js" ELSE "out.js") \in homes
  BY DEF TranspiledNames
<1> HIDE DEF homes, broken
<1>4. CASE broken \/ homes = {}
  <2>1. location = [file |-> "SourceMapError"]
    BY <1>1, <1>4 DEF TranspiledLocationFor
  <2> QED BY <1>2, <1>4, <2>1
<1>5. CASE ~broken /\ homes # {}
  <2>1. location = [file |-> SourceMapOf, start |-> GeneratedPosition(original.start),
                    end |-> GeneratedPosition(original.end)]
    BY <1>1, <1>5 DEF TranspiledLocationFor
  <2>2. location.file = IF "lib.js" \in homes THEN "lib.js" ELSE "out.js"
    BY <1>1, <2>1 DEF SourceMapOf
  <2> QED BY <1>2, <1>3, <1>5, <2>2
<1> QED
  BY <1>4, <1>5

-----------------------------------------------------------------------------
(* Mutators *)

\* No two of them do the same in the same place.
TellsApart(mutants) == \A m, o \in mutants : m # o => <<m.at, m.by>> # <<o.at, o.by>>

LEMMA FieldsOfMutations ==
  ASSUME NEW node, NEW name, NEW at, NEW replacements, NEW m \in MutationsOf(node, name, at, replacements)
  PROVE  /\ m = [of |-> node, mutator |-> name, at |-> at, by |-> m.by] /\ m.by \in replacements
         /\ m.of = node /\ m.mutator = name /\ m.at = at
  BY DEF MutationsOf

LEMMA TablesAgree ==
  /\ TsArithmetic = JsArithmetic /\ TsEquality = JsEquality /\ TsLogical = JsLogical
  /\ TsUnary = JsUnary /\ TsUpdate = JsUpdate
<1>1. TsArithmetic = JsArithmetic
  BY DEF TsArithmetic, JsArithmetic
<1>2. TsEquality = JsEquality
  BY DEF TsEquality, TsOrdering, JsEquality
<1>3. TsLogical = JsLogical
  BY DEF TsLogical, JsLogical
<1>4. TsUnary = JsUnary /\ TsUpdate = JsUpdate
  BY DEF TsUnary, TsUpdate, JsUnary, JsUpdate
<1> QED
  BY <1>1, <1>2, <1>3, <1>4

\* What a table finds is an operator of the same kind, for an operator of that kind.
LEMMA TablesKeepKinds ==
  ASSUME NEW op
  PROVE  /\ In(JsArithmetic, op) \subseteq Arithmetic /\ (op \notin Arithmetic => In(JsArithmetic, op) = {})
         /\ In(JsEquality, op) \subseteq Comparisons /\ (op \notin Comparisons => In(JsEquality, op) = {})
         /\ In(JsLogical, op) \subseteq {"&&", "||"} /\ (op \notin {"&&", "||"} => In(JsLogical, op) = {})
<1>1. JsArithmetic \subseteq Arithmetic \X Arithmetic
  BY DEF JsArithmetic, Arithmetic
<1>2. JsEquality \subseteq Comparisons \X Comparisons
  BY DEF JsEquality, Comparisons
<1>3. JsLogical \subseteq {"&&", "||"} \X {"&&", "||"}
  BY DEF JsLogical
<1>4. ASSUME NEW table, NEW kind, table \subseteq kind \X kind
      PROVE  In(table, op) \subseteq kind /\ (op \notin kind => In(table, op) = {})
  BY <1>4 DEF In
<1> HIDE DEF In
<1> QED
  BY <1>1, <1>2, <1>3, <1>4

\* What both mutators make of a binary expression: another operator, and the same two conditions where each of them
\* finds one.
OperatorMutants(op, at) ==
  Mutations("ArithmeticOperator", at, In(JsArithmetic, op)) \cup Mutations("EqualityOperator", at, In(JsEquality, op))
  \cup Mutations("LogicalOperator", at, In(JsLogical, op))
ConditionMutants(at) == Mutations("ConditionalExpression", at, {"true", "false"})
JsFindsCondition(node) == JsHasValidParent(node) /\ JsIsValidOperator(node)
TsFindsCondition(node) ==
  ~(TsIsInvalidParent(node.parent) \/ TsIsInvalidParent(node.grandparent) \/ TsIsInvalidOperator(node))

LEMMA BinaryMutants ==
  ASSUME NEW node
  PROVE  /\ JsBinary(node) = OperatorMutants(node.op, node.at) \cup IF JsFindsCondition(node) THEN ConditionMutants(node.at) ELSE {}
         /\ TsBinary(node) = OperatorMutants(node.op, node.at) \cup IF TsFindsCondition(node) THEN ConditionMutants(node.at) ELSE {}
<1>1. CASE node.op \in Assignments
  <2>1. node.op \notin Arithmetic /\ node.op \notin Comparisons /\ node.op \notin {"&&", "||"}
    BY <1>1 DEF Assignments, Arithmetic, Comparisons
  <2>2. In(JsArithmetic, node.op) = {} /\ In(JsEquality, node.op) = {} /\ In(JsLogical, node.op) = {}
    BY <2>1, TablesKeepKinds
  <2>3. OperatorMutants(node.op, node.at) = {}
    BY <2>2 DEF OperatorMutants, Mutations, MutationsOf
  <2>4. ~JsFindsCondition(node)
    BY <2>1 DEF JsFindsCondition, JsIsValidOperator
  <2>5. JsBinary(node) = {}
    BY <1>1 DEF JsBinary
  <2> QED BY <2>3, <2>4, <2>5, TablesAgree DEF TsBinary, TsFindsCondition, ConditionMutants, OperatorMutants
<1>2. CASE node.op \notin Assignments
  BY <1>2, TablesAgree DEF JsBinary, TsBinary, OperatorMutants, ConditionMutants, JsFindsCondition, TsFindsCondition
<1> QED
  BY <1>1, <1>2

Kind(by) ==
  IF by \in Arithmetic THEN "ArithmeticOperator" ELSE IF by \in Comparisons THEN "EqualityOperator"
  ELSE IF by \in {"&&", "||"} THEN "LogicalOperator" ELSE "ConditionalExpression"

LEMMA OperatorMutantsAre ==
  ASSUME NEW op, NEW at, NEW m \in OperatorMutants(op, at)
  PROVE  /\ m = [of |-> at, mutator |-> Kind(m.by), at |-> at, by |-> m.by] /\ m.at = at
         /\ m.by \in Arithmetic \cup Comparisons \cup {"&&", "||"}
<1>0. Arithmetic \cap Comparisons = {} /\ (Arithmetic \cup Comparisons) \cap {"&&", "||"} = {}
  BY DEF Arithmetic, Comparisons
<1>1. CASE m \in Mutations("ArithmeticOperator", at, In(JsArithmetic, op))
  <2>1. m.by \in Arithmetic
    BY <1>1, FieldsOfMutations, TablesKeepKinds DEF Mutations
  <2> QED BY <1>1, <2>1, FieldsOfMutations DEF Mutations, Kind
<1>2. CASE m \in Mutations("EqualityOperator", at, In(JsEquality, op))
  <2>1. m.by \in Comparisons
    BY <1>2, FieldsOfMutations, TablesKeepKinds DEF Mutations
  <2> QED BY <1>0, <1>2, <2>1, FieldsOfMutations DEF Mutations, Kind
<1>3. CASE m \in Mutations("LogicalOperator", at, In(JsLogical, op))
  <2>1. m.by \in {"&&", "||"}
    BY <1>3, FieldsOfMutations, TablesKeepKinds DEF Mutations
  <2> QED BY <1>0, <1>3, <2>1, FieldsOfMutations DEF Mutations, Kind
<1> QED
  BY <1>1, <1>2, <1>3 DEF OperatorMutants

LEMMA ConditionMutantsAre ==
  ASSUME NEW at, NEW m \in ConditionMutants(at)
  PROVE  /\ m = [of |-> at, mutator |-> Kind(m.by), at |-> at, by |-> m.by] /\ m.at = at
         /\ m.mutator = "ConditionalExpression" /\ m.by \in {"true", "false"}
<1>1. m.by \in {"true", "false"}
  BY FieldsOfMutations DEF ConditionMutants, Mutations
<1>2. m.by \notin Arithmetic /\ m.by \notin Comparisons /\ m.by \notin {"&&", "||"}
  BY <1>1 DEF Arithmetic, Comparisons
<1> QED
  BY <1>1, <1>2, FieldsOfMutations DEF ConditionMutants, Mutations, Kind

\* The nodes of a condition, whoever finds them: what is the condition of a statement is not found as one, unless
\* it is behind two pairs of parentheses.
LEMMA NodesOfConditions ==
  ASSUME NEW tree \in Conditions
  PROVE  /\ \A n \in BabelNodes(tree) : n.at = "test" => n.parent = tree.statement
         /\ tree.shape # "doubleParentheses" =>
              \A n \in CompilerNodes(tree) : n.at = "test" => tree.statement \in {n.parent, n.grandparent}
         /\ \A n \in BabelNodes(tree) : \E o \in CompilerNodes(tree) :
              /\ o.op = n.op /\ o.at = n.at
              /\ ~LeftOpen(tree) /\ JsFindsCondition(n) => TsFindsCondition(o)
         /\ \A o \in CompilerNodes(tree) : \E n \in BabelNodes(tree) :
              /\ o.op = n.op /\ o.at = n.at
              /\ ~LeftOpen(tree) /\ TsFindsCondition(o) => JsFindsCondition(n)
<1> DEFINE op == tree.op   statement == tree.statement
<1>0. /\ tree.shape \in Shapes /\ statement \in Places /\ op \in BinaryOperators
      /\ IsCondition(tree)
  BY DEF Conditions, IsCondition
<1>1. /\ "body" \notin Statements \cup {"literalType", "case"} /\ "unary" \notin Statements \cup {"literalType", "case"}
      /\ "parentheses" \notin Statements \cup {"literalType", "case"} /\ "none" \notin Statements \cup {"literalType", "case"}
      /\ statement # "literalType" /\ (~LeftOpen(tree) => statement # "case")
  BY <1>0 DEF Statements, Places, LeftOpen
<1>2. ~LeftOpen(tree) => (op \in Comparisons \cup {"&&", "||"} <=> op \notin Arithmetic \cup {"="})
  BY <1>0 DEF LeftOpen, BinaryOperators, Comparisons, Arithmetic, Assignments
<1> HIDE DEF op, statement
<1>3. \A n : n.op = op => (JsIsValidOperator(n) <=> op \in Comparisons \cup {"&&", "||"})
                        /\ (TsIsInvalidOperator(n) <=> op \in Arithmetic \cup {"="})
  BY DEF JsIsValidOperator, TsIsInvalidOperator
<1>4. CASE tree.shape = "plain"
  <2> DEFINE n == BinaryNode(op, "test", statement, "body")
  <2>1. BabelNodes(tree) = {n} /\ CompilerNodes(tree) = {n}
    BY <1>4 DEF BabelNodes, CompilerNodes, op, statement
  <2>2. n.op = op /\ n.at = "test" /\ n.parent = statement /\ n.grandparent = "body"
    BY DEF BinaryNode
  <2> HIDE DEF n
  <2>3. ~LeftOpen(tree) => (JsFindsCondition(n) <=> TsFindsCondition(n))
    BY <1>1, <1>2, <1>3, <2>2 DEF JsFindsCondition, TsFindsCondition, JsHasValidParent, TsIsInvalidParent
  <2> QED BY <2>1, <2>2, <2>3 DEF statement
<1>5. CASE tree.shape = "parentheses"
  <2> DEFINE n == BinaryNode(op, "test", statement, "body")   o == BinaryNode(op, "test", "parentheses", statement)
  <2>1. BabelNodes(tree) = {n} /\ CompilerNodes(tree) = {o}
    BY <1>5 DEF BabelNodes, CompilerNodes, op, statement
  <2>2. /\ n.op = op /\ n.at = "test" /\ n.parent = statement /\ n.grandparent = "body"
        /\ o.op = op /\ o.at = "test" /\ o.parent = "parentheses" /\ o.grandparent = statement
    BY DEF BinaryNode
  <2> HIDE DEF n, o
  <2>3. ~LeftOpen(tree) => (JsFindsCondition(n) <=> TsFindsCondition(o))
    BY <1>1, <1>2, <1>3, <2>2 DEF JsFindsCondition, TsFindsCondition, JsHasValidParent, TsIsInvalidParent
  <2> QED BY <2>1, <2>2, <2>3 DEF statement
<1>6. CASE tree.shape = "negated"
  <2> DEFINE n == BinaryNode(op, "negated", "unary", statement)
             o == BinaryNode(op, "negated", "parentheses", "unary")
  <2>1. BabelNodes(tree) = {n} /\ CompilerNodes(tree) = {o}
    BY <1>6 DEF BabelNodes, CompilerNodes, op, statement
  <2>2. /\ n.op = op /\ n.at = "negated" /\ n.parent = "unary" /\ n.grandparent = statement
        /\ o.op = op /\ o.at = "negated" /\ o.parent = "parentheses" /\ o.grandparent = "unary"
    BY DEF BinaryNode
  <2> HIDE DEF n, o
  <2>3. ~LeftOpen(tree) => (JsFindsCondition(n) <=> TsFindsCondition(o))
    BY <1>1, <1>2, <1>3, <2>2 DEF JsFindsCondition, TsFindsCondition, JsHasValidParent, TsIsInvalidParent
  <2> QED BY <2>1, <2>2, <2>3
<1>7. CASE tree.shape = "operand"
  <2> DEFINE n == BinaryNode("&&", "test", statement, "body")   o == BinaryNode(op, "operand", "binary", statement)
  <2>1. BabelNodes(tree) = {n, o} /\ CompilerNodes(tree) = {n, o}
    BY <1>7 DEF BabelNodes, CompilerNodes, op, statement
  <2>2. n.at = "test" /\ n.parent = statement /\ o.at = "operand"
    BY DEF BinaryNode
  <2> HIDE DEF n, o
  <2>3. LeftOpen(tree)
    BY <1>0, <1>7 DEF LeftOpen
  <2> QED BY <1>7, <2>1, <2>2, <2>3 DEF statement
<1>8. CASE tree.shape = "doubleParentheses"
  <2> DEFINE n == BinaryNode(op, "test", statement, "body")   o == BinaryNode(op, "test", "parentheses", "parentheses")
  <2>1. BabelNodes(tree) = {n} /\ CompilerNodes(tree) = {o}
    BY <1>8 DEF BabelNodes, CompilerNodes, op, statement
  <2>2. n.op = op /\ n.at = "test" /\ n.parent = statement /\ o.op = op /\ o.at = "test"
    BY DEF BinaryNode
  <2> HIDE DEF n, o
  <2>3. LeftOpen(tree)
    BY <1>8 DEF LeftOpen
  <2> QED BY <1>8, <2>1, <2>2, <2>3 DEF statement
<1>9. CASE tree.shape = "branch"
  <2> DEFINE n == BinaryNode(op, "branch", "return", statement)
  <2>1. BabelNodes(tree) = {n} /\ CompilerNodes(tree) = {n}
    BY <1>9 DEF BabelNodes, CompilerNodes, op, statement
  <2>2. n.op = op /\ n.at = "branch"
    BY DEF BinaryNode
  <2> HIDE DEF n
  <2>3. LeftOpen(tree)
    BY <1>9 DEF LeftOpen
  <2> QED BY <2>1, <2>2, <2>3
<1> QED
  BY <1>0, <1>4, <1>5, <1>6, <1>7, <1>8, <1>9 DEF Shapes

LEMMA StatementMutantsAre ==
  ASSUME NEW tree, NEW m \in StatementMutants(tree)
  PROVE  /\ m = [of |-> "statement", mutator |-> "ConditionalExpression", at |-> "test", by |-> m.by]
         /\ m.mutator = "ConditionalExpression" /\ m.at = "test" /\ m.by \in {"true", "false"}
         /\ tree.statement \notin {"none", "case"}
<1> DEFINE replacements == CASE tree.statement = "if" -> {"true", "false"}
                             [] tree.statement \in {"none", "case"} -> {}
                             [] OTHER -> {"false"}
<1>1. m \in MutationsOf("statement", "ConditionalExpression", "test", replacements)
  BY DEF StatementMutants
<1>2. m.by \in replacements
  <2> HIDE DEF replacements
  <2> QED BY <1>1, FieldsOfMutations
<1>3. m.by \in {"true", "false"} /\ tree.statement \notin {"none", "case"}
  BY <1>2
<1> HIDE DEF replacements
<1> QED
  BY <1>1, <1>3, FieldsOfMutations

LEMMA NegationMutantsAre ==
  ASSUME NEW tree, NEW m \in NegationMutants(tree)
  PROVE  m = [of |-> "test", mutator |-> "BooleanLiteral", at |-> "test", by |-> "operand"] /\ m.by = "operand"
<1>1. m \in MutationsOf("test", "BooleanLiteral", "test", {"operand"})
  BY DEF NegationMutants, Mutations
<1> QED
  BY <1>1, FieldsOfMutations

\* The mutants of a condition, of nodes with the parents that the lemma above tells of.
LEMMA ConditionsAreToldApart ==
  ASSUME NEW tree \in Conditions, ~(tree.shape = "doubleParentheses" /\ tree.statement # "none")
  PROVE  TellsApart(JavaScriptMutants(tree)) /\ TellsApart(TypescriptMutants(tree))
<1> DEFINE Allowed == Arithmetic \cup Comparisons \cup {"&&", "||"}
           FromNode(m) == /\ m = [of |-> m.at, mutator |-> Kind(m.by), at |-> m.at, by |-> m.by]
                          /\ m.by \in Allowed \cup {"true", "false"}
                          /\ m.at = "test" /\ m.by \in {"true", "false"} => tree.statement \in {"none", "case"}
<1>1. tree.statement \in Places /\ IsCondition(tree)
  BY DEF Conditions, IsCondition
<1>2. "operand" \notin Allowed \cup {"true", "false"} /\ Allowed \cap {"true", "false"} = {}
  BY DEF Arithmetic, Comparisons
<1>3. ASSUME NEW n \in BabelNodes(tree), NEW m \in JsBinary(n) PROVE FromNode(m)
  <2>1. CASE m \in OperatorMutants(n.op, n.at)
    BY <1>2, <2>1, OperatorMutantsAre
  <2>2. CASE JsFindsCondition(n) /\ m \in ConditionMutants(n.at)
    <3>1. n.at = "test" => tree.statement \in {"none", "case"}
      BY <1>1, <2>2, NodesOfConditions DEF JsFindsCondition, JsHasValidParent, Places
    <3> QED BY <2>2, <3>1, ConditionMutantsAre
  <2> QED BY <1>3, <2>1, <2>2, BinaryMutants
<1>4. ASSUME NEW n \in CompilerNodes(tree), NEW m \in TsBinary(n) PROVE FromNode(m)
  <2>1. CASE m \in OperatorMutants(n.op, n.at)
    BY <1>2, <2>1, OperatorMutantsAre
  <2>2. CASE TsFindsCondition(n) /\ m \in ConditionMutants(n.at)
    <3>1. n.at = "test" => tree.statement \in {"none", "case"}
      <4>1. CASE tree.shape = "doubleParentheses"
        BY <4>1
      <4>2. CASE tree.shape # "doubleParentheses"
        BY <1>1, <2>2, <4>2, NodesOfConditions DEF TsFindsCondition, TsIsInvalidParent, Places
      <4> QED BY <4>1, <4>2
    <3> QED BY <2>2, <3>1, ConditionMutantsAre
  <2> QED BY <1>4, <2>1, <2>2, BinaryMutants
<1>5. ASSUME NEW mutants, \A m \in mutants : m \in StatementMutants(tree) \/ m \in NegationMutants(tree) \/ FromNode(m)
      PROVE  TellsApart(mutants)
  <2> SUFFICES ASSUME NEW m \in mutants, NEW o \in mutants, m.at = o.at, m.by = o.by
               PROVE  m = o
    BY DEF TellsApart
  <2> HIDE DEF Allowed
  <2>1. CASE m \in NegationMutants(tree)
    <3>1. m = [of |-> "test", mutator |-> "BooleanLiteral", at |-> "test", by |-> "operand"] /\ m.by = "operand"
      BY <2>1, NegationMutantsAre
    <3>2. o \in NegationMutants(tree)
      BY <1>2, <1>5, <3>1, StatementMutantsAre
    <3> QED BY <3>1, <3>2, NegationMutantsAre
  <2>2. CASE m \in StatementMutants(tree)
    <3>1. /\ m = [of |-> "statement", mutator |-> "ConditionalExpression", at |-> "test", by |-> m.by]
          /\ m.at = "test" /\ m.by \in {"true", "false"} /\ tree.statement \notin {"none", "case"}
      BY <2>2, StatementMutantsAre
    <3>2. o \in StatementMutants(tree)
      <4>1. o \notin NegationMutants(tree)
        BY <3>1, NegationMutantsAre
      <4>2. ~FromNode(o)
        BY <3>1
      <4> QED BY <1>5, <4>1, <4>2
    <3> QED BY <3>1, <3>2, StatementMutantsAre
  <2>3. CASE FromNode(m)
    <3>1. o \notin NegationMutants(tree)
      BY <1>2, <2>3, NegationMutantsAre
    <3>2. CASE o \in StatementMutants(tree)
      BY <2>3, <3>2, StatementMutantsAre
    <3>3. CASE FromNode(o)
      BY <2>3, <3>3
    <3> QED BY <1>5, <3>1, <3>2, <3>3
  <2> QED BY <1>5, <2>1, <2>2, <2>3
<1>6. /\ JavaScriptMutants(tree) =
           StatementMutants(tree) \cup NegationMutants(tree) \cup UNION {JsBinary(n) : n \in BabelNodes(tree)}
      /\ TypescriptMutants(tree) =
           StatementMutants(tree) \cup NegationMutants(tree) \cup UNION {TsBinary(n) : n \in CompilerNodes(tree)}
  BY <1>1 DEF JavaScriptMutants, TypescriptMutants
<1> HIDE DEF FromNode
<1>7. \A m \in JavaScriptMutants(tree) : m \in StatementMutants(tree) \/ m \in NegationMutants(tree) \/ FromNode(m)
  BY <1>3, <1>6
<1>8. \A m \in TypescriptMutants(tree) : m \in StatementMutants(tree) \/ m \in NegationMutants(tree) \/ FromNode(m)
  BY <1>4, <1>6
<1> QED
  BY <1>5, <1>7, <1>8

\* The other trees.
LEMMA OneMutatorTellsApart ==
  ASSUME NEW node, NEW name, NEW at, NEW replacements
  PROVE  TellsApart(MutationsOf(node, name, at, replacements))
<1> SUFFICES ASSUME NEW m \in MutationsOf(node, name, at, replacements), NEW o \in MutationsOf(node, name, at, replacements),
                    m.by = o.by
             PROVE  m = o
  BY DEF TellsApart
<1> QED
  BY FieldsOfMutations

LEMMA BooleansAreToldApart ==
  ASSUME NEW tree \in Booleans, tree.statement = "none"
  PROVE  TellsApart(JavaScriptMutants(tree)) /\ TellsApart(TypescriptMutants(tree))
<1>1. IsBoolean(tree) /\ ~IsCondition(tree)
  BY DEF Booleans, IsBoolean, IsCondition
<1>2. StatementMutants(tree) = {}
  BY StatementMutantsAre
<1>3. BooleanMutants(tree) = MutationsOf("test", "BooleanLiteral", "test", {IF tree.value THEN "false" ELSE "true"})
  BY <1>2 DEF BooleanMutants, Mutations
<1>4. JavaScriptMutants(tree) = BooleanMutants(tree) /\ TypescriptMutants(tree) = BooleanMutants(tree)
  BY <1>1 DEF JavaScriptMutants, TypescriptMutants
<1> QED
  BY <1>3, <1>4, OneMutatorTellsApart

LEMMA UnaryMutantsAgree ==
  ASSUME NEW op
  PROVE  JsUnaryMutants(op) = TsUnaryMutants(op) /\ TellsApart(JsUnaryMutants(op))
<1>1. JsUnaryMutants(op) = TsUnaryMutants(op)
  BY TablesAgree DEF JsUnaryMutants, TsUnaryMutants
<1>2. \A by \in In(JsUnary, op) : op \in {"+", "-", "~"} /\ by \notin {"++", "--"}
  BY DEF In, JsUnary
<1>3. \A by \in In(JsUpdate, op) : op \in {"++", "--"} /\ by \in {"++", "--"}
  BY DEF In, JsUpdate
<1> DEFINE Name == IF op \in {"+", "-", "~"} THEN "UnaryOperator" ELSE IF op \in {"++", "--"} THEN "UpdateOperator"
                   ELSE "BooleanLiteral"
<1>4. ASSUME NEW m \in JsUnaryMutants(op)
      PROVE  m = [of |-> "node", mutator |-> Name, at |-> "node", by |-> m.by]
  <2>1. CASE m \in MutationsOf("node", "UnaryOperator", "node", In(JsUnary, op))
    <3>1. m.by \in In(JsUnary, op)
      BY <2>1, FieldsOfMutations
    <3>2. Name = "UnaryOperator"
      BY <1>2, <3>1
    <3> HIDE DEF Name
    <3> QED BY <2>1, <3>2, FieldsOfMutations
  <2>2. CASE m \in MutationsOf("node", "UpdateOperator", "node", In(JsUpdate, op))
    <3>1. m.by \in In(JsUpdate, op)
      BY <2>2, FieldsOfMutations
    <3>2. Name = "UpdateOperator"
      BY <1>3, <3>1
    <3> HIDE DEF Name
    <3> QED BY <2>2, <3>2, FieldsOfMutations
  <2>3. CASE op = "!" /\ m \in MutationsOf("node", "BooleanLiteral", "node", {"operand"})
    <3>1. Name = "BooleanLiteral"
      BY <2>3
    <3> HIDE DEF Name
    <3> QED BY <2>3, <3>1, FieldsOfMutations
  <2>4. MutationsOf("node", "BooleanLiteral", "node", {}) = {}
    BY DEF MutationsOf
  <2> QED BY <1>4, <2>1, <2>2, <2>3, <2>4 DEF JsUnaryMutants, Mutations
<1> HIDE DEF Name
<1>5. TellsApart(JsUnaryMutants(op))
  BY <1>4 DEF TellsApart
<1> QED
  BY <1>1, <1>5

\* The literals: each is mutated by one mutator, in both languages, and in the same way unless it is read differently.
LEMMA LiteralsAgree ==
  ASSUME NEW unit \in LiteralUnits
  PROVE  /\ TellsApart(JsLiteral(unit)) /\ TellsApart(TsLiteral(unit))
         /\ \/ JsLiteral(unit) = TsLiteral(unit)
            \/ /\ ReadDifferently(unit)
               /\ \A m \in JsLiteral(unit) \cup TsLiteral(unit) : m.mutator = LiteralMutator(unit)
<1>0. unit.literal \in Literals /\ unit.parent \in LiteralParents
  BY DEF LiteralUnits
<1>1. ASSUME NEW name, NEW js, NEW ts,
             JsLiteral(unit) = Mutations(name, "node", js), TsLiteral(unit) = Mutations(name, "node", ts),
             js = ts \/ (ReadDifferently(unit) /\ LiteralMutator(unit) = name)
      PROVE  /\ TellsApart(JsLiteral(unit)) /\ TellsApart(TsLiteral(unit))
             /\ \/ JsLiteral(unit) = TsLiteral(unit)
                \/ /\ ReadDifferently(unit)
                   /\ \A m \in JsLiteral(unit) \cup TsLiteral(unit) : m.mutator = LiteralMutator(unit)
  <2>1. TellsApart(JsLiteral(unit)) /\ TellsApart(TsLiteral(unit))
    BY <1>1, OneMutatorTellsApart DEF Mutations
  <2>2. \A m \in JsLiteral(unit) \cup TsLiteral(unit) : m.mutator = name
    BY <1>1, FieldsOfMutations DEF Mutations
  <2>3. js = ts => JsLiteral(unit) = TsLiteral(unit)
    BY <1>1
  <2> QED BY <1>1, <2>1, <2>2, <2>3
<1>2. CASE unit.literal \in {"string", "template"}
  <2> DEFINE js == IF unit.literal = "string" /\ unit.parent \in {"import", "export", "exportDefault", "jsxAttribute"} THEN {}
                   ELSE Replaced(unit, {"empty"}, {"Stryker was here"})
             ts == IF unit.parent \in TsStringParents THEN {} ELSE Replaced(unit, {"empty"}, {"Stryker was here"})
  <2>1. JsLiteral(unit) = Mutations("StringLiteral", "node", js) /\ TsLiteral(unit) = Mutations("StringLiteral", "node", ts)
    BY <1>2 DEF JsLiteral, TsLiteral, JsString, TsString, ArrayLiterals
  <2>2. ReadDifferently(unit) \/ js = ts
    <3>1. unit.literal = "template" => unit.parent \in {"other", "exportDefault", "expressionStatement"}
      BY DEF LiteralUnits
    <3> QED BY <1>0, <1>2, <3>1 DEF ReadDifferently, LiteralParents, TsStringParents
  <2>3. LiteralMutator(unit) = "StringLiteral"
    BY <1>2 DEF LiteralMutator, ArrayLiterals
  <2> HIDE DEF js, ts
  <2> QED BY <1>1, <2>1, <2>2, <2>3
<1>3. CASE unit.literal \in ArrayLiterals
  <2>1. unit.literal \notin {"string", "template"}
    BY <1>3 DEF ArrayLiterals
  <2>2. JsLiteral(unit) = JsArrayDeclaration(unit) /\ TsLiteral(unit) = TsArrayDeclaration(unit)
    BY <1>3, <2>1 DEF JsLiteral, TsLiteral, ArrayLiterals
  <2> DEFINE js == CASE unit.literal = "array"       -> Replaced(unit, {"empty"}, {"Stryker was here"})
                     [] unit.literal = "arrayTarget" -> {}
                     [] OTHER                        -> Replaced(unit, {"no argument"}, {"[]"})
             ts == CASE unit.literal \in {"array", "arrayTarget"} -> Replaced(unit, {"empty"}, {"Stryker was here"})
                     [] unit.literal = "wrappedArray"             -> {}
                     [] OTHER                                     -> Replaced(unit, {"no argument"}, {"[]"})
  <2>3. JsLiteral(unit) = Mutations("ArrayDeclaration", "node", js) /\ TsLiteral(unit) = Mutations("ArrayDeclaration", "node", ts)
    BY <2>2 DEF JsArrayDeclaration, TsArrayDeclaration
  <2>4. ReadDifferently(unit) \/ js = ts
    BY <1>3 DEF ReadDifferently, ArrayLiterals
  <2>5. LiteralMutator(unit) = "ArrayDeclaration"
    BY <1>3, <2>1 DEF LiteralMutator, ArrayLiterals
  <2> HIDE DEF js, ts
  <2> QED BY <1>1, <2>3, <2>4, <2>5
<1>4. CASE unit.literal \in {"object", "objectTarget"}
  <2>1. unit.literal \notin ArrayLiterals
    BY <1>4 DEF ArrayLiterals
  <2> DEFINE ts == Replaced(unit, {"empty"}, {})
             js == IF unit.literal = "objectTarget" THEN {} ELSE ts
  <2>2. JsLiteral(unit) = Mutations("ObjectLiteral", "node", js) /\ TsLiteral(unit) = Mutations("ObjectLiteral", "node", ts)
    BY <1>4, <2>1 DEF JsLiteral, TsLiteral, JsObjectLiteral, TsObjectLiteral
  <2>3. js = ts \/ (ReadDifferently(unit) /\ LiteralMutator(unit) = "ObjectLiteral")
    BY <1>4, <2>1 DEF ReadDifferently, LiteralMutator
  <2> HIDE DEF js, ts
  <2> QED BY <1>1, <2>2, <2>3
<1>5. CASE unit.literal \in {"block", "directives"}
  <2>1. unit.literal \notin ArrayLiterals
    BY <1>5 DEF ArrayLiterals
  <2> DEFINE ts == Replaced(unit, {"empty"}, {})
             js == IF unit.literal = "directives" THEN {} ELSE ts
  <2>2. JsLiteral(unit) = Mutations("BlockStatement", "node", js) /\ TsLiteral(unit) = Mutations("BlockStatement", "node", ts)
    BY <1>5, <2>1 DEF JsLiteral, TsLiteral, JsBlockStatement, TsBlockStatement
  <2>3. js = ts \/ (ReadDifferently(unit) /\ LiteralMutator(unit) = "BlockStatement")
    BY <1>5, <2>1 DEF ReadDifferently, LiteralMutator
  <2> HIDE DEF js, ts
  <2> QED BY <1>1, <2>2, <2>3
<1>6. CASE unit.literal \in {"arrow", "case", "emptyFor"}
  <2>1. unit.literal \notin ArrayLiterals
    BY <1>6 DEF ArrayLiterals
  <2> DEFINE name == IF unit.literal = "arrow" THEN "ArrowFunction" ELSE "ConditionalExpression"
             same == CASE unit.literal = "arrow" -> Replaced(unit, {}, {"() => undefined"})
                       [] unit.literal = "case"  -> Replaced(unit, {"empty"}, {})
                       [] OTHER                  -> {"for with false"}
  <2>2. JsLiteral(unit) = Mutations(name, "node", same) /\ TsLiteral(unit) = Mutations(name, "node", same)
    BY <1>6, <2>1 DEF JsLiteral, TsLiteral, JsArrowFunction, TsArrowFunction, JsSwitchCase, TsClause
  <2> HIDE DEF name, same
  <2> QED BY <1>1, <2>2
<1> QED
  BY <1>0, <1>2, <1>3, <1>4, <1>5, <1>6 DEF Literals, ArrayLiterals

\* In a class, a block or an element the kind of the place tells which mutator it was.
ReactMutator(kind) ==
  CASE kind = "class" -> "LifecycleMethodRemove" [] kind = "method" -> "LifecycleMethodSwap"
    [] kind = "block" -> "AccessStaleStateAfterSetState" [] kind = "statement" -> "StateMutation"
    [] kind = "element" -> "JsxChangeNameCase" [] kind = "tag" -> "JsxAttributeValueNumber"
    [] kind = "attribute" -> "PassUnboundEventHandler"

LEMMA PlacesTellMutators ==
  ASSUME NEW kind \in {"class", "method", "block", "statement", "element", "tag", "attribute"}, NEW i, NEW replacements,
         NEW m \in Mutations(ReactMutator(kind), <<kind, i>>, replacements)
  PROVE  m = [of |-> m.at, mutator |-> ReactMutator(m.at[1]), at |-> m.at, by |-> m.by]
<1> DEFINE name == ReactMutator(kind)   at == <<kind, i>>
<1>1. at[1] = kind
  OBVIOUS
<1> HIDE DEF name, at
<1>2. m = [of |-> at, mutator |-> name, at |-> at, by |-> m.by] /\ m.at = at
  BY FieldsOfMutations DEF Mutations, name, at
<1> QED
  BY <1>1, <1>2 DEF name

LEMMA ReactMutantsAreToldApart ==
  ASSUME NEW tree \in ReactTrees
  PROVE  TellsApart(ReactMutants(tree))
<1> DEFINE IsOf(m) == m = [of |-> m.at, mutator |-> ReactMutator(m.at[1]), at |-> m.at, by |-> m.by]
           body == tree.body
<1>0. tree.react \in {"class", "block", "element"}
  BY DEF ReactTrees
<1>1. /\ ReactMutator("class") = "LifecycleMethodRemove" /\ ReactMutator("method") = "LifecycleMethodSwap"
      /\ ReactMutator("block") = "AccessStaleStateAfterSetState" /\ ReactMutator("statement") = "StateMutation"
      /\ ReactMutator("element") = "JsxChangeNameCase" /\ ReactMutator("tag") = "JsxAttributeValueNumber"
      /\ ReactMutator("attribute") = "PassUnboundEventHandler"
  BY DEF ReactMutator
<1>2. ASSUME NEW m \in LifecycleMethodRemove(body) PROVE IsOf(m)
  <2>1. PICK replacements : m \in Mutations("LifecycleMethodRemove", <<"class", 1>>, replacements)
    BY <1>2 DEF LifecycleMethodRemove
  <2> QED BY <1>1, <2>1, PlacesTellMutators
<1>3. ASSUME NEW m \in LifecycleMethodSwap(body) PROVE IsOf(m)
  <2>1. PICK i, replacements : m \in Mutations("LifecycleMethodSwap", <<"method", i>>, replacements)
    BY <1>3 DEF LifecycleMethodSwap
  <2> QED BY <1>1, <2>1, PlacesTellMutators
<1>4. ASSUME NEW m \in AccessStaleStateAfterSetState(body) PROVE IsOf(m)
  <2>1. PICK replacements : m \in Mutations("AccessStaleStateAfterSetState", <<"block", 1>>, replacements)
    BY <1>4 DEF AccessStaleStateAfterSetState
  <2> QED BY <1>1, <2>1, PlacesTellMutators
<1>5. ASSUME NEW m \in StateMutation(body) PROVE IsOf(m)
  <2>1. PICK i, replacements : m \in Mutations("StateMutation", <<"statement", i>>, replacements)
    BY <1>5 DEF StateMutation
  <2> QED BY <1>1, <2>1, PlacesTellMutators
<1>6. ASSUME NEW m \in JsxChangeNameCase(tree) PROVE IsOf(m)
  <2>1. PICK replacements : m \in Mutations("JsxChangeNameCase", <<"element", 1>>, replacements)
    BY <1>6 DEF JsxChangeNameCase
  <2> QED BY <1>1, <2>1, PlacesTellMutators
<1>7. ASSUME NEW m \in JsxAttributeValueNumber(body) PROVE IsOf(m)
  <2>1. PICK replacements : m \in Mutations("JsxAttributeValueNumber", <<"tag", 1>>, replacements)
    BY <1>7 DEF JsxAttributeValueNumber
  <2> QED BY <1>1, <2>1, PlacesTellMutators
<1>8. ASSUME NEW m \in PassUnboundEventHandler(body) PROVE IsOf(m)
  <2>1. PICK i, replacements : m \in Mutations("PassUnboundEventHandler", <<"attribute", i>>, replacements)
    BY <1>8 DEF PassUnboundEventHandler
  <2> QED BY <1>1, <2>1, PlacesTellMutators
<1> HIDE DEF IsOf
<1>9. \A m \in ReactMutants(tree) : IsOf(m)
  BY <1>0, <1>2, <1>3, <1>4, <1>5, <1>6, <1>7, <1>8 DEF ReactMutants
<1> QED
  BY <1>9 DEF TellsApart, IsOf

\* All mutators, on all files.
LEMMA MutantsAreToldApart ==
  ASSUME NEW tree \in Trees \cup ReactTrees, ~(IsBoolean(tree) /\ tree.statement # "none"),
         ~(IsCondition(tree) /\ tree.shape = "doubleParentheses" /\ tree.statement # "none"),
         NEW name, IF IsReact(tree) THEN name = "react" ELSE name \in {"javascript", "typescript"}
  PROVE  TellsApart(MutantsBy(name, tree))
<1>1. CASE tree \in ReactTrees
  <2>1. IsReact(tree)
    BY <1>1 DEF ReactTrees, IsReact
  <2> QED BY <1>1, <2>1, ReactMutantsAreToldApart DEF MutantsBy
<1>2. CASE tree \in Conditions
  <2>1. ~IsReact(tree) /\ IsCondition(tree)
    BY <1>2 DEF Conditions, IsReact, IsCondition
  <2> QED BY <1>2, <2>1, ConditionsAreToldApart DEF MutantsBy
<1>3. CASE tree \in Booleans
  <2>1. ~IsReact(tree) /\ IsBoolean(tree)
    BY <1>3 DEF Booleans, IsReact, IsBoolean
  <2> QED BY <1>3, <2>1, BooleansAreToldApart DEF MutantsBy
<1>4. CASE tree \in LiteralUnits
  <2>1. ~IsReact(tree) /\ ~IsCondition(tree) /\ ~IsBoolean(tree) /\ ~IsUnary(tree)
    BY <1>4 DEF LiteralUnits, IsReact, IsCondition, IsBoolean, IsUnary
  <2>2. JavaScriptMutants(tree) = JsLiteral(tree) /\ TypescriptMutants(tree) = TsLiteral(tree)
    BY <2>1 DEF JavaScriptMutants, TypescriptMutants
  <2> QED BY <1>4, <2>1, <2>2, LiteralsAgree DEF MutantsBy
<1>5. CASE tree \in [unary : {"!", "+", "-", "~", "++", "--", "typeof"}]
  <2>1. ~IsReact(tree) /\ ~IsCondition(tree) /\ ~IsBoolean(tree) /\ IsUnary(tree)
    BY <1>5 DEF IsReact, IsCondition, IsBoolean, IsUnary
  <2>2. JavaScriptMutants(tree) = JsUnaryMutants(tree.unary) /\ TypescriptMutants(tree) = TsUnaryMutants(tree.unary)
    BY <2>1 DEF JavaScriptMutants, TypescriptMutants
  <2>3. TellsApart(JavaScriptMutants(tree)) /\ TellsApart(TypescriptMutants(tree))
    BY <2>2, UnaryMutantsAgree
  <2> QED BY <2>1, <2>3 DEF MutantsBy
<1> QED
  BY <1>1, <1>2, <1>3, <1>4, <1>5 DEF Trees, Units, LiteralUnits

\* In which mutants the two mutators of the languages differ, of a tree.
MayDiffer(tree, some, others) ==
  LET differ == (some \ others) \cup (others \ some) IN {m.mutator : m \in differ} \subseteq MutatorsApart(tree)

LEMMA ConditionsAgree ==
  ASSUME NEW tree \in Conditions
  PROVE  MayDiffer(tree, JavaScriptMutants(tree), TypescriptMutants(tree))
<1> DEFINE Js == JavaScriptMutants(tree)   Ts == TypescriptMutants(tree)
           Common == StatementMutants(tree) \cup NegationMutants(tree)
<1>1. /\ Js = Common \cup UNION {JsBinary(n) : n \in BabelNodes(tree)}
      /\ Ts = Common \cup UNION {TsBinary(n) : n \in CompilerNodes(tree)}
  BY DEF JavaScriptMutants, TypescriptMutants, Conditions, IsCondition
<1> HIDE DEF Js, Ts, Common
<1>2. ASSUME NEW m \in Js, m \notin Ts PROVE m.mutator = "ConditionalExpression" /\ LeftOpen(tree)
  <2>1. PICK n \in BabelNodes(tree) : m \in JsBinary(n)
    BY <1>1, <1>2
  <2>2. PICK o \in CompilerNodes(tree) :
          o.op = n.op /\ o.at = n.at /\ (~LeftOpen(tree) /\ JsFindsCondition(n) => TsFindsCondition(o))
    BY NodesOfConditions
  <2>3. m \notin TsBinary(o)
    BY <1>1, <1>2
  <2>4. JsFindsCondition(n) /\ m \in ConditionMutants(n.at) /\ ~TsFindsCondition(o)
    BY <2>1, <2>2, <2>3, BinaryMutants
  <2> QED BY <2>2, <2>4, ConditionMutantsAre
<1>3. ASSUME NEW m \in Ts, m \notin Js PROVE m.mutator = "ConditionalExpression" /\ LeftOpen(tree)
  <2>1. PICK o \in CompilerNodes(tree) : m \in TsBinary(o)
    BY <1>1, <1>3
  <2>2. PICK n \in BabelNodes(tree) :
          o.op = n.op /\ o.at = n.at /\ (~LeftOpen(tree) /\ TsFindsCondition(o) => JsFindsCondition(n))
    BY <2>1, NodesOfConditions
  <2>3. m \notin JsBinary(n)
    BY <1>1, <1>3
  <2>4. TsFindsCondition(o) /\ m \in ConditionMutants(o.at) /\ ~JsFindsCondition(n)
    BY <2>1, <2>2, <2>3, BinaryMutants
  <2> QED BY <2>2, <2>4, ConditionMutantsAre
<1>4. LeftOpen(tree) => MutatorsApart(tree) = {"ConditionalExpression"}
  BY DEF MutatorsApart, Conditions, IsCondition
<1> QED
  BY <1>2, <1>3, <1>4 DEF MayDiffer, Js, Ts

LEMMA LanguagesAgree ==
  ASSUME NEW tree \in Trees
  PROVE  MayDiffer(tree, JavaScriptMutants(tree), TypescriptMutants(tree))
<1>0. ASSUME JavaScriptMutants(tree) = TypescriptMutants(tree)
      PROVE  MayDiffer(tree, JavaScriptMutants(tree), TypescriptMutants(tree))
  BY <1>0 DEF MayDiffer
<1>1. CASE tree \in Conditions
  BY <1>1, ConditionsAgree
<1>2. CASE tree \in Booleans
  <2>1. IsBoolean(tree) /\ ~IsCondition(tree)
    BY <1>2 DEF Booleans, IsBoolean, IsCondition
  <2> QED BY <1>0, <2>1 DEF JavaScriptMutants, TypescriptMutants
<1>3. CASE tree \in LiteralUnits
  <2>1. ~IsCondition(tree) /\ ~IsBoolean(tree) /\ ~IsUnary(tree)
    BY <1>3 DEF LiteralUnits, IsCondition, IsBoolean, IsUnary
  <2>2. JavaScriptMutants(tree) = JsLiteral(tree) /\ TypescriptMutants(tree) = TsLiteral(tree)
    BY <2>1 DEF JavaScriptMutants, TypescriptMutants
  <2>3. CASE JsLiteral(tree) # TsLiteral(tree)
    <3>1. ReadDifferently(tree) /\ \A m \in JsLiteral(tree) \cup TsLiteral(tree) : m.mutator = LiteralMutator(tree)
      BY <1>3, <2>3, LiteralsAgree
    <3>2. MutatorsApart(tree) = {LiteralMutator(tree)}
      BY <2>1, <3>1 DEF MutatorsApart
    <3> QED BY <2>2, <3>1, <3>2 DEF MayDiffer
  <2> QED BY <1>0, <2>2, <2>3
<1>4. CASE tree \in [unary : {"!", "+", "-", "~", "++", "--", "typeof"}]
  <2>1. ~IsCondition(tree) /\ ~IsBoolean(tree) /\ IsUnary(tree)
    BY <1>4 DEF IsCondition, IsBoolean, IsUnary
  <2>2. JavaScriptMutants(tree) = JsUnaryMutants(tree.unary) /\ TypescriptMutants(tree) = TsUnaryMutants(tree.unary)
    BY <2>1 DEF JavaScriptMutants, TypescriptMutants
  <2> QED BY <1>0, <2>2, UnaryMutantsAgree
<1> QED
  BY <1>1, <1>2, <1>3, <1>4 DEF Trees, Units, LiteralUnits
=============================================================================
