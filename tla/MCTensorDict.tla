--------------------------- MODULE MCTensorDict ---------------------------
(***************************************************************************)
(* Programs of TensorDict for TLC.                                         *)
(***************************************************************************)
EXTENDS TensorDict

Tensor(key, where, numel, alike) ==
    [key |-> key, tensor |-> TRUE, where |-> where, numel |-> numel, alike |-> alike]

Object(key) == [key |-> key, tensor |-> FALSE, value |-> <<[dict |-> 0, key |-> key, at |-> 0, of |-> 0]>>]

\* What a stage hands on: hidden states and a mask, which are both cut, a residual that may
\* be spread over the group, an empty tensor, an odd one that cannot be cut in two, and a
\* plain object.
Hidden(where) == Tensor("hidden", where, 4, TRUE)
Residual(where) == Tensor("residual", where, 2, FALSE)
Odd(where) == Tensor("odd", where, 3, TRUE)
Empty == Tensor("empty", "cpu", 0, TRUE)

Mixed == <<Hidden("xpu"), Empty, Odd("cpu"), Object("note"), Residual("xpu"), Tensor("mask", "xpu", 2, TRUE)>>
OnHost == <<Odd("cpu"), Hidden("cpu"), Empty, Residual("cpu")>>
Small == <<Object("note"), Tensor("ids", "cpu", 2, TRUE)>>
Bare == <<Tensor("bare", "xpu", 2, FALSE)>>
OnDevice == <<Hidden("xpu")>>
Cuttable == <<Hidden("xpu"), Odd("cpu")>>
Refused == <<Tensor("ids", "cpu", 2, TRUE), Hidden("xpu")>>

Config(op, size, staged, sliced, window, plan) ==
    [bare |-> {k \in DOMAIN plan : plan[k] = Bare}, op |-> op, size |-> size,
     staged |-> staged, sliced |-> sliced, mq |-> sliced,
     whole |-> {"residual", "bare"} \cup IF staged THEN {} ELSE {"ids"}, forced |-> {},
     window |-> window, plan |-> plan]

\* An odd tensor that is to be cut all the same; a slice of a host tensor that is to be
\* gathered by xccl.
Forced(window) ==
    [Config("p2p", 2, FALSE, TRUE, window, <<OnDevice, Cuttable>>) EXCEPT !.forced = {"odd"}]
HostSlice(window) ==
    [Config("p2p", 2, FALSE, TRUE, window, <<Small, OnDevice>>) EXCEPT !.whole = {"residual"}]

\* With slices and without, with the message queue and without; one dictionary or two at
\* a time; host staging with what it can carry and with a tensor that gloo refuses, met by
\* receivers that finish each dictionary and by ones that run ahead.
SomeConfigs ==
    {Config("p2p", 2, FALSE, TRUE, window, <<Mixed, Small>>) : window \in 1..2}
    \cup {Config("p2p", 2, FALSE, FALSE, 1, <<Mixed, Small>>)}
    \cup {Config("broadcast", 2, FALSE, mq, 2, <<Mixed, Small>>) : mq \in BOOLEAN}
    \cup {Config(op, 2, TRUE, TRUE, 2, <<OnHost, Small>>) : op \in Ops}
    \cup {Config("p2p", 2, FALSE, TRUE, window, <<OnDevice, Bare, OnDevice>>) : window \in 1..2}
    \cup {Config(op, 2, TRUE, TRUE, 1, <<Small, Refused, Small>>) : op \in Ops}
    \cup {Config(op, 2, TRUE, TRUE, 2, <<Small, Refused>>) : op \in Ops}
    \cup {Forced(window) : window \in 1..2} \cup {HostSlice(window) : window \in 1..2}
    \cup {Config("p2p", 2, TRUE, TRUE, 1, <<Small, Bare, Small>>)}
    \cup {Config("broadcast", 3, FALSE, FALSE, 2, <<Mixed, Small>>)}
===========================================================================
