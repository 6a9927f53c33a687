------------------------------- MODULE Objects -------------------------------
(***************************************************************************)
(* Javascript objects, which are functions from keys to values, and        *)
(* arrays.                                                                 *)
(***************************************************************************)
EXTENDS SequencesExt

\* Object.assign({}, under, object), or { ...under, ...object }: what both have is the object's.
Over(object, under) ==
  [key \in DOMAIN object \cup DOMAIN under |-> IF key \in DOMAIN object THEN object[key] ELSE under[key]]

\* array.filter(): those of the elements that are kept, in their order.
Filter(array, kept) == FoldLeft(LAMBDA some, x : IF x \in kept THEN Append(some, x) ELSE some, << >>, array)
=============================================================================
