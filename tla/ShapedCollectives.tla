------------------------- MODULE ShapedCollectives -------------------------
(***************************************************************************)
(* Collectives of tensors of any number of dimensions: what the `dim` of   *)
(* all_gather, gather, all_gatherv, reduce_scatter and reduce_scatterv     *)
(* does to shapes and to the place of every element, and the shapes that   *)
(* the fake implementations of the custom operators announce to a          *)
(* compiler.  When calls complete is the subject of HostStaged, which      *)
(* looks at tensors of one dimension only.                                 *)
(*                                                                         *)
(* The collectives of torch.distributed cut and join contiguous memory:    *)
(* they know the first dimension only.  The code moves `dim` there and     *)
(* back by movedim(0, dim) and reshape.                                    *)
(***************************************************************************)
EXTENDS Integers, Sequences

CONSTANTS
    Calls           \* the calls to look at

VARIABLES
    call,           \* chosen at the start
    answer          \* Pending, Raised, or what every member's call returned

vars == <<call, answer>>

Pending == [state |-> "pending"]
Raised == [state |-> "raised"]
Returned(tensors) == [state |-> "returned", of |-> tensors]

\* n: the world size; shape: that of every member's tensor, except that with all_gatherv
\* member m has sizes[m + 1] rows; sizes: empty where none are given; dst: the member that
\* gather is for.
ASSUME CallsAssumption ==
    \A c \in Calls :
        /\ c.op \in {"all_gather", "gather", "all_gatherv", "reduce_scatter", "reduce_scatterv"}
        /\ c.n \in Nat \ {0}
        /\ c.shape \in Seq(Nat)
        /\ c.dim \in Int
        /\ c.sizes \in Seq(Nat) /\ Len(c.sizes) \in {0, c.n}
        /\ c.dst \in 0..c.n - 1
        /\ c.sizes # <<>> => c.op \in {"all_gatherv", "reduce_scatterv"}
        /\ c.op = "all_gatherv" => c.shape # <<>>

Member == 0..call.n - 1

---------------------------------------------------------------------------
(* Tensors: a shape, and the elements in the order of memory.              *)

Numel(shape) ==
    LET upto[i \in 0..Len(shape)] == IF i = 0 THEN 1 ELSE upto[i - 1] * shape[i]
    IN  upto[Len(shape)]

\* The sum of the first m.
Before(lengths, m) ==
    LET upto[i \in 0..m] == IF i = 0 THEN 0 ELSE upto[i - 1] + lengths[i]
    IN  upto[m]

\* The first d dimensions, and those behind them.
Leading(shape, d) == SubSeq(shape, 1, d)
Trailing(shape, d) == SubSeq(shape, d + 1, Len(shape))

\* Neighbouring dimensions are one as far as memory is concerned, so three of them do.  The
\* place of the element (i, j, k), counted from 0, of a tensor of any x b x c.
Place(i, j, k, b, c) == (i * b + j) * c + k + 1

\* A tensor of any x b x c whose elements are given.
Filled(shape, b, c, Element(_, _, _)) ==
    [shape |-> shape,
     data |-> [p \in 1..Numel(shape) |->
                Element((p - 1) \div (b * c), ((p - 1) \div c) % b, (p - 1) % c)]]

Reshape(t, shape) == [t EXCEPT !.shape = shape]

\* tensor.movedim(0, dim): the first dimension comes to stand at dim, those up to dim move
\* forward by one.
MoveFirstTo(t, dim) ==
    LET n == Head(t.shape)
        before == Leading(Tail(t.shape), dim)
        behind == Trailing(Tail(t.shape), dim)
        b == Numel(before)
        c == Numel(behind)
    IN  Filled(before \o <<n>> \o behind, n, c, LAMBDA i, j, k : t.data[Place(j, i, k, b, c)])

\* `len` consecutive positions along dim.
Portion(t, dim, from, len) ==
    LET b == t.shape[dim + 1]
        c == Numel(Trailing(t.shape, dim + 1))
    IN  Filled([t.shape EXCEPT ![dim + 1] = len], len, c,
               LAMBDA i, j, k : t.data[Place(i, from + j, k, b, c)])

\* Member m's argument: every element is told apart from every other.
ShapeOf(m) ==
    IF call.op = "all_gatherv" /\ call.sizes # <<>>
    THEN [call.shape EXCEPT ![1] = call.sizes[m + 1]] ELSE call.shape

Input(m) == [shape |-> ShapeOf(m), data |-> [p \in 1..Numel(ShapeOf(m)) |-> <<m, p>>]]

\* Element by element: the set of the terms stands for their sum.
SumOf(tensors) ==
    [tensors[0] EXCEPT !.data = [p \in DOMAIN @ |-> {tensors[m].data[p] : m \in DOMAIN tensors}]]

---------------------------------------------------------------------------
(* GroupCoordinator and XpuCommunicator.                                   *)

Rank == Len(call.shape)

DimInRange == -Rank <= call.dim /\ call.dim < Rank

\* Negative dim to positive.
Dim == IF call.dim < 0 THEN call.dim + Rank ELSE call.dim

\* One member's memory after another's, lengths[m + 1] elements of member m.
Concatenated(lengths) ==
    [p \in 1..Before(lengths, call.n) |->
        LET m == CHOOSE m \in Member : Before(lengths, m) < p /\ p <= Before(lengths, m + 1)
        IN  Input(m).data[p - Before(lengths, m)]]

\* all_gather_into_tensor.
Stacked ==
    [shape |-> <<call.n>> \o call.shape,
     data |-> Concatenated([i \in 1..call.n |-> Numel(call.shape)])]

\* Mutant: the members stay in front.
JoinedInFront == Reshape(Stacked, [call.shape EXCEPT ![Dim + 1] = call.n * @])

\* Mutant: the size of the input.
JoinedTooSmall == Reshape(MoveFirstTo(Stacked, Dim), call.shape)

Joined == Reshape(MoveFirstTo(Stacked, Dim), [call.shape EXCEPT ![Dim + 1] = call.n * @])

AllGather ==
    /\ call.op = "all_gather"
    /\ answer' = IF call.n = 1 THEN Returned([m \in Member |-> Input(m)])
                 ELSE IF DimInRange THEN Returned([m \in Member |-> Joined])
                 ELSE Raised

\* None for all but dst.
Gather ==
    /\ call.op = "gather"
    /\ answer' = IF call.n = 1 THEN Returned([m \in Member |-> Input(m)])
                 ELSE IF DimInRange THEN Returned([m \in Member \cap {call.dst} |-> Joined])
                 ELSE Raised

Uneven == call.sizes # <<>> /\ \E i \in DOMAIN call.sizes : call.sizes[i] # call.sizes[1]

SizesSum == Before(call.sizes, Len(call.sizes))

\* A group of one has no communicator; sizes that are alike count as none, and then gloo
\* refuses the single output.  Else the members' rows one after another.
AllGatherv ==
    /\ call.op = "all_gatherv"
    /\ answer' = IF call.n > 1 /\ call.dim = 0 /\ Uneven
                 THEN Returned([m \in Member |->
                        [shape |-> [call.shape EXCEPT ![1] = SizesSum],
                         data |-> Concatenated([i \in 1..call.n |-> Numel(ShapeOf(i - 1))])]])
                 ELSE Raised

\* What the reduce-scatters hand to torch.distributed.
Moved == [m \in Member |-> MoveFirstTo(Input(m), Dim)]

Rows == Moved[0].shape[1]

\* Mutant: dim is not moved back.
ShareLeftInFront(sizes, m) == Portion(SumOf(Moved), 0, Before(sizes, m), sizes[m + 1])

\* Rows of the sum, dim moved back.
Share(sizes, m) == MoveFirstTo(Portion(SumOf(Moved), 0, Before(sizes, m), sizes[m + 1]), Dim)

Scatter(sizes) == Returned([m \in Member |-> Share(sizes, m)])

EvenSizes(total) == [i \in 1..call.n |-> total \div call.n]

ReduceScatter ==
    /\ call.op = "reduce_scatter"
    /\ answer' = IF call.n = 1 THEN Returned([m \in Member |-> Input(m)])
                 ELSE IF DimInRange /\ Rows % call.n = 0 THEN Scatter(EvenSizes(Rows))
                 ELSE Raised

\* movedim itself raises for a dim out of range.
ReduceScatterv ==
    /\ call.op = "reduce_scatterv"
    /\ answer' = IF call.n = 1 \/ ~DimInRange THEN Raised
                 ELSE IF call.sizes # <<>> /\ Rows = SizesSum THEN Scatter(call.sizes)
                 ELSE IF call.sizes = <<>> /\ Rows % call.n = 0 THEN Scatter(EvenSizes(Rows))
                 ELSE Raised

---------------------------------------------------------------------------
(* The fake implementations: the shape that a compiler goes on with.       *)

AllGatherFake == [call.shape EXCEPT ![Dim + 1] = @ * call.n]

\* Mutant: the rows are divided whatever the dim.
ReduceScatterFakeRows == [call.shape EXCEPT ![1] = @ \div call.n]

ReduceScatterFake == [call.shape EXCEPT ![Dim + 1] = @ \div call.n]

---------------------------------------------------------------------------
Init == call \in Calls /\ answer = Pending

Step == AllGather \/ Gather \/ AllGatherv \/ ReduceScatter \/ ReduceScatterv

Next ==
    /\ UNCHANGED call
    /\ \/ answer = Pending /\ Step
       \/ answer # Pending /\ UNCHANGED answer

Spec == Init /\ [][Next]_vars

---------------------------------------------------------------------------
(* Correctness.                                                            *)

Results == {answer.of[m] : m \in DOMAIN answer.of}

\* The type invariant: every tensor that is returned has as many elements as its shape
\* says (the reshapes of all_gather and gather).
WellShaped ==
    answer.state = "returned" => \A t \in Results : DOMAIN t.data = 1..Numel(t.shape)

RowsOf(m) == ShapeOf(m)[Dim + 1]

\* What a gather returns is the members' tensors side by side along dim, in the order of
\* the members and no element out of place, whichever of the dimensions dim is
\* (all_gather, gather and all_gatherv of XpuCommunicator).
GathersAreConcatenations ==
    answer.state = "returned" /\ call.op \in {"all_gather", "gather", "all_gatherv"} =>
        LET lengths == [i \in 1..call.n |-> IF Rank = 0 THEN 1 ELSE RowsOf(i - 1)] IN
        \A t \in Results :
            IF call.n = 1 THEN t = Input(0)
            ELSE /\ t.shape = [call.shape EXCEPT ![Dim + 1] = Before(lengths, call.n)]
                 /\ \A m \in Member : Portion(t, Dim, Before(lengths, m), lengths[m + 1]) = Input(m)

\* Member m's share of the sum, cut along dim.
ShareAlongDim(m) ==
    LET sizes == IF call.sizes # <<>> THEN call.sizes ELSE EvenSizes(call.shape[Dim + 1])
    IN  Portion(SumOf([k \in Member |-> Input(k)]), Dim, Before(sizes, m), sizes[m + 1])

\* The call asks for something: the dimension can be cut this way.
CanBeCut == IF call.sizes # <<>> THEN SizesSum = call.shape[Dim + 1]
            ELSE call.shape[Dim + 1] % call.n = 0

NoShareIsEmpty == \A m \in Member : Numel(ShareAlongDim(m).shape) > 0

\* What a reduce-scatter returns is the member's share of the sum along dim, as long as dim
\* is one of the first two; and beyond them it never is, unless there is nothing to share:
\* movedim(0, dim) is its own inverse for the first two only (reduce_scatter and
\* reduce_scatterv of XpuCommunicator).
ScattersAreShares ==
    answer.state = "returned" /\ call.n > 1 /\ call.op \in {"reduce_scatter", "reduce_scatterv"} =>
        IF Dim <= 1
        THEN CanBeCut /\ \A m \in Member : answer.of[m] = ShareAlongDim(m)
        ELSE CanBeCut /\ NoShareIsEmpty => \A m \in Member : answer.of[m] # ShareAlongDim(m)

\* Compiled code has been laid out for the shape that the operator then returns: the fakes
\* know of no bypass, no staging and no movedim, and agree with the operators as long as
\* dim is one of the first two (all_gather_fake, reduce_scatter_fake).
FakeShapesAgree ==
    answer.state = "returned" /\ call.n > 1 =>
        /\ call.op = "all_gather" => \A t \in Results : t.shape = AllGatherFake
        /\ call.op = "reduce_scatter" /\ Dim <= 1 =>
                \A t \in Results : t.shape = ReduceScatterFake
===========================================================================
