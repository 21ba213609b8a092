------------------------------ MODULE MCPortal ------------------------------
(***************************************************************************)
(* Portal on a machine whose int goes to 7 and whose size_t to 255, and    *)
(* whose Vulkan device takes 2 work groups of 2 and binds 48 bytes, with   *)
(* products that succeed, are refused, are too large for OpenCL, for       *)
(* Vulkan or for both, or need the right order of their sizes.             *)
(***************************************************************************)
EXTENDS Portal

CONSTANTS x, y

MCArrays == {x, y}
MCValues == 0 .. 1
MCProduct(m, k, n, v, w) == (v + m * w + k) % 2

Matmul(a, b, output, m, k, n) ==
  [kind |-> "matmul", a |-> a, b |-> b, output |-> output, m |-> m, k |-> k, n |-> n]

InPlace == Matmul(x, y, x, 2, 3, 1)
Onward == Matmul(x, x, y, 1, 2, 3)
Large == Matmul(x, y, y, 3, 2, 3)   \* 9 elements: more than an int indexes
Long == Matmul(x, y, y, 5, 1, 1)    \* 3 work groups of rows
Huge == Matmul(x, x, x, 4, 4, 7)    \* the first tensor has 16, of 64 bytes
Flat == Matmul(x, y, x, 0, 1, 1)
Missing == Matmul(x, y, Null, 1, 1, 1)
Unknown == [InPlace EXCEPT !.kind = "other"]

MCGraphs ==
  {<<>>, <<InPlace>>, <<InPlace, Onward>>, <<Onward, InPlace>>, <<Large, Onward>>,
   <<Long>>, <<Onward, Huge>>, <<Onward, Flat>>, <<Missing, InPlace>>, <<InPlace, Unknown>>}

MCRequests ==
  {Dispatched(InPlace), Dispatched(Flat), [Dispatched(Onward) EXCEPT !.lda = 3],
   [Dispatched(Onward) EXCEPT !.transposed = TRUE], [Dispatched(Onward) EXCEPT !.scaling = "null"],
   [Dispatched(Onward) EXCEPT !.scaling = "two and one"]}

\* Sizes: none, a vector's, two that differ, and one that no int holds and whose
\* square no size_t does.
Sizes == {0, 1, 2, 3, 16}

Built ==
  {InitVectorAddF32(2), InitMatmulF32(2, 3, 1), InitMatmulF32(16, 1, 16), InitReduceSumF32(3),
   InitBroadcastAddF32(2, 3), InitReluF32(1, <<3, 0>>), InitReluF32(2, <<3, 2>>)}

\* An argument in place of arg: a buffer has a length and nothing else.
Reshaped(op, arg) ==
  IF op = "vector_add" THEN {F32(1, n, 0, use) : n \in Sizes, use \in {"in", "out"}}
                       ELSE {F32(1, n, 0, arg.use) : n \in Sizes}
                            \cup {F32(2, r, c, arg.use) : r, c \in Sizes}

\* What the builders make, and that with one argument of another shape or type, or
\* with other lanes or arguments.
MCClientKernels ==
  Built
  \cup UNION {UNION {{[k EXCEPT !.args[i] = arg] : arg \in Reshaped(k.op, k.args[i])} :
                     i \in 1 .. Len(k.args)} : k \in Built}
  \cup UNION {{[k EXCEPT !.args[i].f32 = FALSE] : i \in 1 .. Len(k.args)} : k \in Built}
  \cup {[k EXCEPT !.given = @ - 1] : k \in Built}
  \cup {[k EXCEPT !.lanes = 3] : k \in Built}

=============================================================================
