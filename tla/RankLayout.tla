---------------------------- MODULE RankLayout ----------------------------
(***************************************************************************)
(* How the ranks of the world are divided into the groups of each kind:    *)
(* initialize_model_parallel lays the ranks out in a tensor of shape       *)
(* <<external DP, DP, PP, PCP, TP>> and cuts groups out of it by           *)
(* transposing, flattening and cutting into rows.                          *)
(*                                                                         *)
(* A layout c is a record of the sizes: ext, dp, pp, pcp, tp and dcp.      *)
(* Dimensions are counted from 0, as torch does; group ranks are sequences *)
(* since the position of a rank in its group is its rank_in_group.         *)
(***************************************************************************)
EXTENDS Integers, Sequences, FiniteSets, SequencesExt

WorldOf(c) == c.ext * c.dp * c.pp * c.pcp * c.tp

Shape(c) == <<c.ext, c.dp, c.pp, c.pcp, c.tp>>

---------------------------------------------------------------------------
(* Five-dimensional tensors of ranks: a shape, and the ranks in row-major  *)
(* order.                                                                  *)

\* The place of an index in the row-major order, and the index at a place.
Offset(shape, ix) ==
    (((ix[1] * shape[2] + ix[2]) * shape[3] + ix[3]) * shape[4] + ix[4]) * shape[5] + ix[5]

IndexAt(shape, k) ==
    <<k \div (shape[2] * shape[3] * shape[4] * shape[5]),
      (k \div (shape[3] * shape[4] * shape[5])) % shape[2],
      (k \div (shape[4] * shape[5])) % shape[3],
      (k \div shape[5]) % shape[4],
      k % shape[5]>>

\* torch.arange(world_size).reshape(shape)
Arange(shape, size) == [shape |-> shape, flat |-> [k \in 0..size - 1 |-> k]]

Swap(s, i, j) == [s EXCEPT ![i + 1] = s[j + 1], ![j + 1] = s[i + 1]]

Transpose(t, i, j) ==
    LET shape == Swap(t.shape, i, j)
    IN  [shape |-> shape,
         flat |-> [k \in DOMAIN t.flat |->
                    t.flat[Offset(t.shape, Swap(IndexAt(shape, k), i, j))]]]

\* t.reshape(-1, n).unbind(0), each row as a list.
Rows(t, n) ==
    [j \in 1..Cardinality(DOMAIN t.flat) \div n |->
        [i \in 1..n |-> t.flat[(j - 1) * n + i - 1]]]

---------------------------------------------------------------------------
AllRanks(c) == Arange(Shape(c), WorldOf(c))

\* Mutant: the pipeline is cut from the wrong dimension.
PipelineRowsOfDp(c) == Rows(Transpose(AllRanks(c), 1, 4), c.pp)

PipelineRows(c) == Rows(Transpose(AllRanks(c), 2, 4), c.pp)

\* Mutant: the pipeline dimension is not moved out of the way.
ExpertRowsInPlace(c) == Rows(AllRanks(c), c.dp * c.pcp * c.tp)

ExpertRows(c) == Rows(Transpose(AllRanks(c), 1, 2), c.dp * c.pcp * c.tp)

\* One row per data-parallel engine: dp_rank * world_size_inner_dp + i.
InnerRows(c) ==
    LET size == c.pp * c.pcp * c.tp
    IN  [d \in 1..c.dp |-> [i \in 1..size |-> (d - 1) * size + i - 1]]

\* The lists of ranks that the coordinator of this kind is built from.
GroupRanks(kind, c) ==
    CASE kind = "world" -> <<[i \in 1..WorldOf(c) |-> i - 1]>>
      [] kind = "inner" -> InnerRows(c)
      [] kind = "tp"    -> Rows(AllRanks(c), c.tp)
      [] kind = "dcp"   -> Rows(AllRanks(c), c.dcp)
      [] kind = "pcp"   -> Rows(Transpose(AllRanks(c), 3, 4), c.pcp)
      [] kind = "pp"    -> PipelineRows(c)
      [] kind = "dp"    -> Rows(Transpose(AllRanks(c), 1, 4), c.dp)
      [] kind \in {"ep", "eplb"} -> ExpertRows(c)

---------------------------------------------------------------------------
(* What the groups are meant to be, without tensors: rank r has a          *)
(* coordinate in each dimension, and a group of a kind is the set of ranks *)
(* that differ from each other in the dimensions of that kind only.        *)

Coordinate(c, r) ==
    [tp  |-> r % c.tp,
     pcp |-> (r \div c.tp) % c.pcp,
     pp  |-> (r \div (c.tp * c.pcp)) % c.pp,
     dp  |-> (r \div (c.tp * c.pcp * c.pp)) % c.dp,
     ext |-> r \div (c.tp * c.pcp * c.pp * c.dp)]

\* The dimensions that the ranks of a group of this kind span.
Spans(kind) ==
    CASE kind = "tp" -> {"tp"}
      [] kind = "pcp" -> {"pcp"}
      [] kind = "pp" -> {"pp"}
      [] kind = "dp" -> {"dp"}
      [] kind \in {"ep", "eplb"} -> {"dp", "pcp", "tp"}
      [] kind = "inner" -> {"pp", "pcp", "tp"}
      [] kind = "world" -> {"ext", "dp", "pp", "pcp", "tp"}

Peers(kind, c, r) ==
    {q \in 0..WorldOf(c) - 1 :
        \A d \in {"ext", "dp", "pp", "pcp", "tp"} \ Spans(kind) :
            Coordinate(c, q)[d] = Coordinate(c, r)[d]}

\* Tensor-parallel groups can be split into groups that share a context where dcp divides
\* tp.  The code is written for such layouts and does not check that it has one.
CanSplit(kind, c) == kind = "dcp" => c.tp % c.dcp = 0

\* The ranks that share the context of r: its tensor-parallel group is split into tp \div dcp
\* groups of neighbours.
DcpPeers(c, r) ==
    {q \in Peers("tp", c, r) : Coordinate(c, q).tp \div c.dcp = Coordinate(c, r).tp \div c.dcp}

\* The group of rank r as it is meant to be, in increasing order of rank.
IntendedGroup(kind, c, r) ==
    LET members == IF kind = "dcp" THEN DcpPeers(c, r) ELSE Peers(kind, c, r)
    IN  [i \in 1..Cardinality(members) |->
            CHOOSE q \in members : Cardinality({p \in members : p < q}) = i - 1]
===========================================================================
