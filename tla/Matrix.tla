-------------------------------- MODULE Matrix --------------------------------
(***************************************************************************)
(* Matrix expansion (schema/matrix.go): the texts that the values become,  *)
(* what is accepted as a matrix, the odometer that enumerates its          *)
(* combinations, and the substitution of the values into a test's strings. *)
(*                                                                         *)
(* A matrix is a sequence of variables [name, values] in declaration       *)
(* order.  A text is a sequence of pieces, <<"text", x>> or the            *)
(* placeholder <<"matrix", name>>; a value is one piece, and may itself    *)
(* look like a placeholder.  As written, a value may also be               *)
(* <<"number", spelling>>.                                                 *)
(***************************************************************************)
EXTENDS Integers, Sequences, FiniteSetsExt, SequencesExt

CONSTANT
  NumberText    (* NumberText[spelling]: how strconv writes the number that *)
                (* YAML reads                                               *)

\* matrixValueText.
MatrixValueText(item) ==
  IF item[1] = "number" THEN <<"text", NumberText[item[2]]>> ELSE item

\* Matrix.UnmarshalYAML keeps the texts of the values.
UnmarshalMatrix(written) ==
  [j \in DOMAIN written |->
     [name   |-> written[j].name,
      values |-> [i \in DOMAIN written[j].values |-> MatrixValueText(written[j].values[i])]]]

(***************************************************************************)
(* What the parser accepts.                                                *)
(***************************************************************************)

\* Matrix.UnmarshalYAML: values are listed, and listed once; a mapping has each
\* name once.
ValidMatrix(matrix) ==
  /\ \A v \in ToSet(matrix) : v.values # <<>> /\ IsInjective(v.values)
  /\ IsInjective([j \in DOMAIN matrix |-> matrix[j].name])

Declared(matrix) == {v.name : v \in ToSet(matrix)}

\* validateMatrixRefs: every placeholder names a variable of its own test.
ValidRefs(matrix, text) ==
  \A piece \in ToSet(text) : piece[1] = "matrix" => piece[2] \in Declared(matrix)

(***************************************************************************)
(* ExpandMatrix.                                                           *)
(***************************************************************************)
Total(matrix) == FoldLeft(LAMBDA n, v : n * Len(v.values), 1, matrix)

FirstIndices(matrix) == [j \in DOMAIN matrix |-> 1]

\* The last variable that has a value left moves on; those after it start over.
Tick(matrix, indices) ==
  LET room == {j \in DOMAIN indices : indices[j] < Len(matrix[j].values)}
  IN [j \in DOMAIN indices |->
        CASE room = {} \/ j > Max(room) -> 1
          [] room # {} /\ j = Max(room) -> indices[j] + 1
          [] OTHER                      -> indices[j]]

\* The values of an instance, in declaration order.
Assignments(matrix, indices) ==
  [j \in DOMAIN matrix |-> matrix[j].values[indices[j]]]

\* substituteMatrix: one pass over the text; what was put in is not looked at
\* again, and a name that is not declared stays as it is written.
Substitute(text, matrix, assignments) ==
  [i \in DOMAIN text |->
     IF text[i][1] = "matrix" /\ text[i][2] \in Declared(matrix)
       THEN assignments[CHOOSE j \in DOMAIN matrix : matrix[j].name = text[i][2]]
       ELSE text[i]]

(***************************************************************************)
(* What a matrix means to the author of a test: all combinations, in the   *)
(* order in which nested loops over the variables would visit them.        *)
(***************************************************************************)
Combinations(matrix) ==
  {a \in [DOMAIN matrix -> UNION {ToSet(v.values) : v \in ToSet(matrix)}] :
     \A j \in DOMAIN matrix : a[j] \in ToSet(matrix[j].values)}

Position(matrix, j, value) == CHOOSE i \in DOMAIN matrix[j].values : matrix[j].values[i] = value

VisitedBefore(matrix, a, b) ==
  \E j \in DOMAIN matrix :
    /\ \A i \in 1 .. (j - 1) : a[i] = b[i]
    /\ Position(matrix, j, a[j]) < Position(matrix, j, b[j])
=============================================================================
