---------------------------- MODULE TensorData ----------------------------
(***************************************************************************)
(* One-dimensional tensors, as far as the collectives tell them apart.     *)
(*                                                                         *)
(* A tensor is a record: where it lives ("xpu" or "cpu"), its dtype        *)
(* ("half" stands for float16 and bfloat16 alike, which the code treats    *)
(* alike; "float" for float32; "int" for an integer type) and its data, a  *)
(* function from 1..length to integers.  Shapes of more dimensions are the *)
(* subject of another module.  The only numeric fact kept is that a half   *)
(* has a shorter significand than a float: above HalfExact only even       *)
(* integers are halves.                                                    *)
(***************************************************************************)
EXTENDS Integers, Sequences, SequencesExt, FiniteSetsExt

\* "Not yet": neither a tensor nor a call nor anything a call returns.
Pending == [where |-> "pending", group |-> "pending"]

Dtypes == {"half", "float", "int"}

HalfExact == 8

\* The half nearest to x, towards zero.
RoundHalf(x) == IF x > HalfExact THEN 2 * (x \div 2) ELSE x

Cast(dtype, data) ==
    IF dtype = "half" THEN [i \in DOMAIN data |-> RoundHalf(data[i])] ELSE data

\* tensor.to(where, dtype = dtype): a copy on that device with that dtype.
To(tensor, where, dtype) ==
    [where |-> where, dtype |-> dtype, data |-> Cast(dtype, tensor.data)]

---------------------------------------------------------------------------
(* What a collective computes from the data of its members.  f is a        *)
(* function from 0..n-1, the rank in the group, to data.                   *)

ElementSum(f) == [i \in DOMAIN f[0] |-> SumFunction([m \in DOMAIN f |-> f[m][i]])]

Concat(f, n) == FlattenSeq([i \in 1..n |-> f[i - 1]])

\* n shares of equal size, the way torch.Tensor.split(shape[0] // n) cuts.
EvenShares(len, n) == [i \in 1..n |-> len \div n]

\* The share of member m when data is split into consecutive pieces of the given sizes.
ShareOf(data, sizes, m) ==
    LET before == MapThenSumSet(LAMBDA i : sizes[i], 1..m)
    IN  [i \in 1..sizes[m + 1] |-> data[before + i]]

AllSame(sizes) == \A i \in DOMAIN sizes : sizes[i] = sizes[1]
===========================================================================
