---------------------------- MODULE Collective ----------------------------
(***************************************************************************)
(* What the collectives of one process group promise their callers, with   *)
(* no word about backends, staging or devices.                             *)
(*                                                                         *)
(* The members of the group run the same program, so their k-th calls are  *)
(* the same call: slot k of the plan.  A member hands in its own argument, *)
(* and later gets a value that depends on the arguments of slot k alone,   *)
(* whatever the members did in other slots and in whichever order they     *)
(* came.                                                                   *)
(***************************************************************************)
EXTENDS TensorData

CONSTANTS
    WorldSize,      \* number of members
    Requests,       \* the calls the program may make
    Values,         \* what a member's first element may be
    MaxCalls        \* bound on the length of the plan

VARIABLES
    plan,           \* plan[k]: the call every member makes in slot k
    given,          \* given[k][m]: what member m handed in
    got             \* got[k][m]: what its call returned

vars == <<plan, given, got>>

Member == 0..WorldSize - 1
Slot == 1..MaxCalls

\* The value a call returns that returns nothing: Python's None.
Nothing == [where |-> "none"]

Init ==
    /\ plan = [k \in Slot |-> Pending]
    /\ given = [k \in Slot |-> [m \in Member |-> Pending]]
    /\ got = [k \in Slot |-> [m \in Member |-> Pending]]

\* The length of member m's argument to a call, whatever the call says of it.
LengthOf(req, m) == req.lens[m + 1]

\* What member m hands in: a device tensor, a Python object, or nothing at all.
Argument(req, m, v) ==
    CASE req.op = "barrier" -> Nothing
      [] req.op \in {"broadcast_object", "broadcast_object_list"} ->
            [where |-> "host", dtype |-> "object", data |-> <<v>>]
      [] OTHER ->
            [where |-> "xpu", dtype |-> req.dtype,
             data |-> [i \in 1..LengthOf(req, m) |-> v + i]]

---------------------------------------------------------------------------
(* The meaning of a call in terms of its members' arguments args.          *)

DataOf(args) == [m \in Member |-> args[m].data]

Shares(req, m) ==
    IF req.sizes = <<>> THEN EvenShares(LengthOf(req, m), WorldSize) ELSE req.sizes

\* What a reduction returns: on the caller's device, rounded once, to the caller's dtype.
Reduced(arg, data) ==
    [where |-> arg.where, dtype |-> arg.dtype, data |-> Cast(arg.dtype, data)]

\* What a data movement returns: the same numbers on the caller's device.
Moved(arg, data) == [where |-> arg.where, dtype |-> arg.dtype, data |-> data]

Meaning(req, args, m) ==
    CASE req.op = "all_reduce" ->
            Reduced(args[m], ElementSum(DataOf(args)))
      [] req.op \in {"reduce_scatter", "reduce_scatterv"} ->
            Reduced(args[m], ShareOf(ElementSum(DataOf(args)), Shares(req, m), m))
      [] req.op \in {"all_gather", "all_gatherv"} ->
            Moved(args[m], Concat(DataOf(args), WorldSize))
      [] req.op = "gather" ->
            IF m = req.root
            THEN Moved(args[m], Concat(DataOf(args), WorldSize))
            ELSE Nothing
      [] req.op \in {"broadcast", "comm_broadcast", "broadcast_object",
                     "broadcast_object_list"} ->
            Moved(args[m], args[req.root].data)
      [] req.op = "barrier" -> Nothing

\* Vectors of unlike lengths have no sum.
Summable(req) ==
    req.op \in {"all_reduce", "reduce_scatter", "reduce_scatterv"} =>
        \A m, n \in Member : LengthOf(req, m) = LengthOf(req, n)

\* Whose arguments a member must wait for.  A source has its answer already.
Needed(req) ==
    IF req.op \in {"broadcast", "comm_broadcast", "broadcast_object",
                   "broadcast_object_list"}
    THEN {req.root}
    ELSE Member

---------------------------------------------------------------------------
\* Member m makes the k-th call, having an answer to every earlier one.
Submit(k, m, req, arg) ==
    /\ given[k][m] = Pending
    /\ \A j \in 1..k - 1 : got[j][m] # Pending
    /\ plan[k] \in {Pending, req}
    /\ plan' = [plan EXCEPT ![k] = req]
    /\ given' = [given EXCEPT ![k][m] = arg]
    /\ UNCHANGED got

\* The k-th call of member m returns.
Deliver(k, m) ==
    /\ given[k][m] # Pending
    /\ got[k][m] = Pending
    /\ Needed(plan[k]) \subseteq Member
    /\ \A n \in Needed(plan[k]) : given[k][n] # Pending
    /\ Summable(plan[k])
    /\ UNCHANGED <<plan, given>>
    /\ got' = [got EXCEPT ![k][m] = Meaning(plan[k], given[k], m)]

Next ==
    \E k \in Slot, m \in Member :
        \/ \E req \in Requests, v \in Values : Submit(k, m, req, Argument(req, m, v))
        \/ Deliver(k, m)


Spec == Init /\ [][Next]_vars
===========================================================================
