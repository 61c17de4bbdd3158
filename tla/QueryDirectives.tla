--------------------------- MODULE QueryDirectives ---------------------------
(***************************************************************************)
(* The paths of the fields a query tags with a directive, which decide     *)
(* which errors are reported as errors of a principal or optional field:   *)
(* src/src/directives.                                                     *)
(*                                                                         *)
(* A document is the list of its fields in the order of the visit, each    *)
(* with its depth, its name and whether it is tagged.  The visitor enters  *)
(* a field, sees its directives, then its subfields, and leaves it.        *)
(***************************************************************************)
EXTENDS Integers, Sequences

\* Array.pop, which does nothing to an empty array.
Pop(path) == IF path = <<>> THEN <<>> ELSE SubSeq(path, 1, Len(path) - 1)

\* The fields from the i-th back that are left before the next is entered.
DepthBefore(doc, i) == IF i = 1 THEN 0 ELSE doc[i - 1].depth

\* The path when the i-th field is entered, after the fields before it were left.
EnterField(doc, i, path) ==
  LET left == DepthBefore(doc, i) - doc[i].depth + 1
      popped[n \in Nat] == IF n = 0 THEN path ELSE Pop(popped[n - 1])
  IN  Append(popped[left], doc[i].name)

\* Mutant: a tag leaves the path as long as it was without the field itself.
OptionalTagPopping(s, path) == [path |-> Pop(path), paths |-> Append(s.paths, path)]

\* The directive's handler empties the path.
OptionalTag(s, path) == [path |-> <<>>, paths |-> Append(s.paths, path)]

GetOptionalFieldsDirectivePaths(doc) ==
  LET visited[i \in 0 .. Len(doc)] ==
        IF i = 0 THEN [path |-> <<>>, paths |-> <<>>]
        ELSE LET s == visited[i - 1]
                 path == EnterField(doc, i, s.path)
             IN  IF doc[i].tagged THEN OptionalTag(s, path) ELSE [s EXCEPT !.path = path]
  IN  visited[Len(doc)].paths

\* The visit breaks off at the first tag and keeps the path; without a tag all
\* fields are left.
GetPrincipalFieldDirectivePath(doc) ==
  LET tags == {i \in DOMAIN doc : doc[i].tagged}
      visited[i \in 0 .. Len(doc)] ==
        IF i = 0 THEN <<>> ELSE EnterField(doc, i, visited[i - 1])
  IN  IF tags = {} THEN <<>>
      ELSE visited[CHOOSE i \in tags : \A j \in tags : i <= j]

\* The errors an optional path is about: those at it or below.
IsOptionalError(path, error) ==
  Len(path) <= Len(error) /\ SubSeq(error, 1, Len(path)) = path
=============================================================================
