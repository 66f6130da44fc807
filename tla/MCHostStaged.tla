--------------------------- MODULE MCHostStaged ---------------------------
(***************************************************************************)
(* HostStaged for TLC: the pair of cards, with VLLM_XPU_HOSTSTAGED_TP=1,   *)
(* and the calls the program chooses from.                                 *)
(***************************************************************************)
EXTENDS HostStaged

\* A call with the lengths of the members' arguments.
Req(op, dtype, lens, root, sizes) ==
    [op |-> op, dtype |-> dtype, lens |-> lens, root |-> root, sizes |-> sizes]

Plain(op, dtype, len) == Req(op, dtype, <<len, len>>, 0, <<>>)

\* Global ranks of the pair of cards.
PairRanks == <<0, 1>>

PairReductions ==
    {Plain("all_reduce", "half", 2), Plain("all_reduce", "int", 2),
     Plain("reduce_scatter", "half", 2), Plain("reduce_scatterv", "float", 2),
     Req("reduce_scatterv", "half", <<3, 3>>, 0, <<1, 2>>),
     Req("reduce_scatterv", "half", <<2, 2>>, 0, <<1, 1>>)}

PairMoves ==
    {Plain("all_gather", "half", 1), Req("all_gatherv", "half", <<1, 2>>, 0, <<1, 2>>),
     Req("gather", "int", <<1, 1>>, 1, <<>>), Req("broadcast_object", "int", <<1, 1>>, 1, <<>>),
     Req("broadcast_object_list", "int", <<1, 1>>, 1, <<>>),
     Req("comm_broadcast", "half", <<1, 1>>, 1, <<>>), Plain("barrier", "int", 0)}

\* The coordinator's own broadcast of a device tensor.
BroadcastRequests == {Plain("broadcast", "half", 1)}

\* all_gatherv of equal shares, without sizes and with them.
EqualGathervs ==
    {Plain("all_gatherv", "half", 1), Req("all_gatherv", "half", <<1, 1>>, 0, <<1, 1>>)}

\* Arguments that fit the call on one member only.
LopsidedRequests ==
    {Req("all_gatherv", "half", <<1, 1>>, 0, <<1, 2>>),
     Req("reduce_scatter", "half", <<3, 2>>, 0, <<>>),
     Req("reduce_scatterv", "half", <<3, 2>>, 0, <<1, 2>>)}

\* What the program may call with VLLM_XPU_HOSTSTAGED_TP=1: every operation, those that
\* gloo refuses and those that not every member gets into among them.
PairRequests ==
    PairReductions \cup PairMoves \cup BroadcastRequests \cup EqualGathervs \cup LopsidedRequests
===========================================================================
