------------------------ MODULE MCShapedCollectives ------------------------
(***************************************************************************)
(* Calls of ShapedCollectives for TLC.                                     *)
(***************************************************************************)
EXTENDS ShapedCollectives, SequencesExt

Call(op, n, shape, dim, sizes, dst) ==
    [op |-> op, n |-> n, shape |-> shape, dim |-> dim, sizes |-> sizes, dst |-> dst]

\* No dimension, one, two and three; square and not, divisible by the world size in some
\* dimensions and not in others; four dimensions once.
Shapes == {<<>>, <<4>>, <<6>>, <<2, 3>>, <<3, 4>>, <<6, 2>>, <<2, 2, 2>>, <<2, 4, 6>>, <<3, 6, 2>>,
           <<2, 2, 4, 2>>}

\* Every dim in range, and those just outside.
Dims(shape) == -Len(shape) - 1..Len(shape)

Plain ==
    {Call(op, n, shape, dim, <<>>, n - 1) :
        op \in {"all_gather", "gather", "reduce_scatter", "reduce_scatterv"},
        n \in 1..3, shape \in Shapes, dim \in -5..4}

\* Shares and rows of unlike sizes, empty ones among them.
Shared ==
    {Call(op, Len(sizes), shape, dim, sizes, 0) :
        op \in {"all_gatherv", "reduce_scatterv"}, shape \in Shapes \ {<<>>}, dim \in -1..2,
        sizes \in {<<1, 3>>, <<2, 4>>, <<4, 2>>, <<0, 4>>, <<1, 2, 3>>, <<2, 2>>}}

SomeCalls ==
    {c \in Plain \cup Shared : c.dim \in Dims(c.shape)}

---------------------------------------------------------------------------
(* The operators on three blocks of memory compared with what they stand   *)
(* for: a tensor of any number of dimensions, read at a position that has  *)
(* an index in each of them.                                               *)

NumelOf(shape) == FoldLeft(LAMBDA a, b : a * b, 1, shape)

\* How far apart in memory neighbours along the i-th dimension are.
Stride(shape, i) == NumelOf(SubSeq(shape, i + 1, Len(shape)))

\* The position of the p-th element, counted from 0 in each dimension, and back.
Position(shape, p) == [i \in DOMAIN shape |-> ((p - 1) \div Stride(shape, i)) % shape[i]]

PlaceOf(shape, pos) ==
    1 + FoldLeft(LAMBDA a, b : a + b, 0, [i \in DOMAIN shape |-> pos[i] * Stride(shape, i)])

\* The tensor whose element at every position is that of t at Where of it.
ByPosition(t, shape, Where(_)) ==
    [shape |-> shape,
     data |-> [p \in 1..NumelOf(shape) |-> t.data[PlaceOf(t.shape, Where(Position(shape, p)))]]]

Numbered(shape) == [shape |-> shape, data |-> [p \in 1..NumelOf(shape) |-> p]]

ASSUME BlocksArePositions ==
    \A shape \in Shapes : LET t == Numbered(shape) IN
        /\ Numel(shape) = NumelOf(shape)
        /\ \A d \in 0..Len(shape) - 1 :
            /\ MoveFirstTo(t, d) =
                ByPosition(t, InsertAt(Tail(shape), d + 1, Head(shape)),
                           LAMBDA pos : <<pos[d + 1]>> \o RemoveAt(pos, d + 1))
            /\ \A from, len \in 0..shape[d + 1] :
                from + len <= shape[d + 1] =>
                    Portion(t, d, from, len) =
                        ByPosition(t, [shape EXCEPT ![d + 1] = len],
                                   LAMBDA pos : [pos EXCEPT ![d + 1] = @ + from])
===========================================================================
