---------------------------- MODULE HostStaged ----------------------------
(***************************************************************************)
(* The collectives of one GroupCoordinator and of its XpuCommunicator: how *)
(* each operation turns a device tensor into a call of torch.distributed,  *)
(* on which process group, and what it makes of the answer.                *)
(*                                                                         *)
(* With HostStagedTP (VLLM_XPU_HOSTSTAGED_TP=1) the device group itself is *)
(* a gloo group and the communicator moves each tensor to the host, runs   *)
(* the collective on the cpu group and moves the answer back; without it   *)
(* the tensor goes to xccl as it is.  gloo and xccl are outside this       *)
(* repository; they are modelled by what the code relies on: which calls   *)
(* they accept, when a call completes, and what it computes.               *)
(*                                                                         *)
(* The members run one program, so they make the same calls in the same    *)
(* order, each at its own pace: whoever is first in slot k picks the call. *)
(***************************************************************************)
EXTENDS TensorData

CONSTANTS
    Ranks,                  \* the global ranks of the group, in group order
    HostStagedTP,           \* VLLM_XPU_HOSTSTAGED_TP = 1
    PeerPath,               \* xccl's device-to-device path completes
    GlooTakesUneven,        \* gloo takes lists of tensors of unlike sizes
    UseDeviceCommunicator,  \* use_device_communicator
    UseMq,                  \* use_message_queue_broadcaster
    Requests,               \* the calls the program may make
    Values,                 \* what a member's first element may be
    MaxCalls                \* bound on the number of calls of a member

VARIABLES
    plan,       \* plan[k]: the call the program makes in slot k
    given,      \* given[k][m]: the argument of member m in slot k
    got,        \* got[k][m]: what its call returned
    posted,     \* posted[k][m]: the torch.distributed call it made
    calls,      \* calls[m]: the number of calls member m has entered
    pc          \* pc[m]: "idle", "waiting" in a call, or dead after a raise

vars == <<plan, given, got, posted, calls, pc>>

WorldSize == Len(Ranks)

Abstract == INSTANCE Collective

\* The operations of GroupCoordinator; comm_broadcast is XpuCommunicator's own.
Operations == {"all_reduce", "all_gather", "all_gatherv", "reduce_scatter",
               "reduce_scatterv", "gather", "broadcast", "comm_broadcast",
               "broadcast_object", "broadcast_object_list", "barrier"}

Member == 0..WorldSize - 1
Slot == 1..MaxCalls

ASSUME RanksAssumption ==
    /\ Ranks \in Seq(Nat)
    /\ WorldSize >= 1
    /\ \A i, j \in DOMAIN Ranks : Ranks[i] = Ranks[j] => i = j

ASSUME FlagsAssumption ==
    {HostStagedTP, PeerPath, GlooTakesUneven, UseDeviceCommunicator, UseMq} \subseteq BOOLEAN

---------------------------------------------------------------------------
(* What XpuCommunicator asserts of the length of a member's own argument.  *)
(* Another member may find otherwise: the lengths are its own.             *)

\* `sizes` is given (<<>> is None) and the members' shares differ.
Uneven(req) == req.sizes # <<>> /\ ~AllSame(req.sizes)

\* all_gatherv: with sizes all the same, nothing is asserted.
GathervFits(req, m) ==
    Uneven(req) =>
        /\ Len(req.sizes) = WorldSize
        /\ Abstract!LengthOf(req, m) = req.sizes[m + 1]

Divisible(req, m) == Abstract!LengthOf(req, m) % WorldSize = 0

ScattervFits(req, m) ==
    IF req.sizes = <<>>
    THEN Divisible(req, m)
    ELSE /\ Len(req.sizes) = WorldSize
         /\ Abstract!LengthOf(req, m) = MapThenSumSet(LAMBDA i : req.sizes[i], DOMAIN req.sizes)

\* Member m passes the assertions of the call.
Fits(req, m) ==
    /\ req.op = "all_gatherv" => GathervFits(req, m)
    /\ req.op = "reduce_scatter" => Divisible(req, m)
    /\ req.op = "reduce_scatterv" => ScattervFits(req, m)

\* The tensors of some members fit the call, and those of others do not.
Lopsided(req) == \E m, n \in Member : Fits(req, m) /\ ~Fits(req, n)

\* The last two conjuncts exclude no call that the code would refuse.  torch.distributed
\* wants one length from all who take part, except in an all_gatherv with sizes
\* (xpu_communicator.py:186); and n equal shares of a length are its n-th parts.
ASSUME RequestsAssumption ==
    /\ MaxCalls \in Nat
    /\ Pending \notin Requests
    /\ \A req \in Requests :
        /\ req.op \in Operations
        /\ req.dtype \in Dtypes
        /\ req.root \in Nat
        /\ req.sizes # <<>> => req.op \in {"all_gatherv", "reduce_scatterv"}
        /\ ~(req.op = "all_gatherv" /\ Uneven(req)) =>
               \A m, n \in Member :
                   Fits(req, m) /\ Fits(req, n) => Abstract!LengthOf(req, m) = Abstract!LengthOf(req, n)
        /\ req.op = "reduce_scatterv" /\ req.sizes # <<>> /\ AllSame(req.sizes) =>
               \A m \in Member :
                   Fits(req, m) => req.sizes = EvenShares(Abstract!LengthOf(req, m), WorldSize)

---------------------------------------------------------------------------
(* GroupCoordinator.__init__: what this group was built with.              *)

HasCommunicator == UseDeviceCommunicator /\ WorldSize > 1
HasMqBroadcaster == UseMq /\ WorldSize > 1

\* The backend of a process group; "local" and "mq" stand for no group at all.
Backend(group) ==
    CASE group = "cpu" -> "gloo"
      [] group = "device" -> IF HostStagedTP THEN "gloo" ELSE "xccl"
      [] OTHER -> group

\* self.ranks[src]
GlobalRank(src) == Ranks[src + 1]

---------------------------------------------------------------------------
(* XpuCommunicator: what goes on the wire.                                 *)

\* Mutant: the cpu group even for a tensor that was not staged.
CommGroupAlwaysCpu == "cpu"

CommGroup == IF HostStagedTP THEN "cpu" ELSE "device"

\* gloo has no half: reductions are carried out in float32.
WireDtype(dtype) == IF dtype = "half" THEN "float" ELSE dtype

StageToMove(t) == IF HostStagedTP THEN [t EXCEPT !.where = "cpu"] ELSE t

\* Mutant: the half goes to gloo as it is.
StageToReduceNarrow(t) == StageToMove(t)

StageToReduce(t) == IF HostStagedTP THEN To(t, "cpu", WireDtype(t.dtype)) ELSE t

\* A call of torch.distributed.  parts: the number of output tensors handed over;
\* sizes: the shares of a reduce-scatter; root: a global rank.
DistCall(group, kind, t, root, parts, sizes) ==
    [group |-> group, kind |-> kind, tensor |-> t, root |-> root,
     parts |-> parts, sizes |-> sizes]

EveryRoot == GlobalRank(0)

\* The bypass of a group of one: the argument is the answer.
Bypass(t) == DistCall("local", "identity", t, EveryRoot, 1, <<>>)

AllReduceCall(t) ==
    DistCall(CommGroup, "all_reduce", StageToReduce(t), EveryRoot, 1, <<>>)

\* all_gather and gather alike: XPU gathers by gathering everywhere.
AllGatherCall(t) ==
    DistCall(CommGroup, "all_gather_into_tensor", StageToMove(t), EveryRoot, 1, <<>>)

\* Mutant: a single output whatever the sizes.
AllGathervOneOutput(req, t) ==
    DistCall(CommGroup, "all_gather", StageToMove(t), EveryRoot, 1, <<>>)

\* One output per size when the sizes differ, else a single one.
AllGathervCall(req, t) ==
    IF Uneven(req)
    THEN DistCall(CommGroup, "all_gather", StageToMove(t), EveryRoot, Len(req.sizes), req.sizes)
    ELSE DistCall(CommGroup, "all_gather", StageToMove(t), EveryRoot, 1, <<>>)

ReduceScatterCall(req, m, t) ==
    DistCall(CommGroup, "reduce_scatter_tensor", StageToReduce(t), EveryRoot, 1,
             EvenShares(Abstract!LengthOf(req, m), WorldSize))

\* Mutant: the sizes are ignored.
ReduceScattervEvenly(req, m, t) == ReduceScatterCall(req, m, t)

ReduceScattervCall(req, m, t) ==
    IF Uneven(req)
    THEN DistCall(CommGroup, "reduce_scatter", StageToReduce(t), EveryRoot, 1, req.sizes)
    ELSE ReduceScatterCall(req, m, t)

\* Mutant: always from the first member.
BroadcastFromFirst(req, t) ==
    DistCall("device", "broadcast", t, GlobalRank(0), 1, <<>>)

\* GroupCoordinator.broadcast hands the caller's tensor to the device group.
BroadcastCall(req, t) ==
    DistCall("device", "broadcast", t, GlobalRank(req.root), 1, <<>>)

\* XpuCommunicator.broadcast passes src on as it came.
CommBroadcastCall(req, t) ==
    DistCall(CommGroup, "broadcast", StageToMove(t), req.root, 1, <<>>)

BroadcastObjectCall(req, t) ==
    IF HasMqBroadcaster
    THEN DistCall("mq", "broadcast", t, GlobalRank(0), 1, <<>>)
    ELSE DistCall("cpu", "broadcast", t, GlobalRank(req.root), 1, <<>>)

BroadcastObjectListCall(req, t) ==
    DistCall("device", "broadcast", t, GlobalRank(req.root), 1, <<>>)

BarrierCall(t) == DistCall("cpu", "barrier", t, EveryRoot, 1, <<>>)

---------------------------------------------------------------------------
(* torch.distributed: which calls a backend takes, when a call is over,    *)
(* and what it hands back.                                                 *)

\* gloo moves host memory only, reduces no half, wants an output tensor for every member
\* in a list all-gather, and takes lists of unlike tensors or not: the communicator hands
\* it such lists, and nothing here shows what comes of it.  xccl moves no host tensor.  A
\* root must be a member's global rank.
Accepts(call) ==
    /\ call.root \in {Ranks[i] : i \in DOMAIN Ranks}
    /\ Backend(call.group) = "xccl" => call.tensor.where # "cpu"
    /\ Backend(call.group) = "gloo" =>
        /\ call.tensor.where # "xpu"
        /\ call.kind \in {"all_reduce", "reduce_scatter", "reduce_scatter_tensor"} =>
               call.tensor.dtype # "half"
        /\ call.kind = "all_gather" => call.parts = WorldSize
        /\ call.kind \in {"all_gather", "reduce_scatter"} =>
               AllSame(call.sizes) \/ GlooTakesUneven

\* Member n has made the very call that member m is waiting in.
JoinedBy(k, m, n) ==
    /\ posted[k][n] # Pending
    /\ posted[k][n].group = posted[k][m].group
    /\ posted[k][n].kind = posted[k][m].kind
    /\ posted[k][n].root = posted[k][m].root

\* A broadcast may leave as soon as its source is there; the rest are rendezvous.
Completes(k, m) ==
    LET call == posted[k][m] IN
    /\ Backend(call.group) = "xccl" => PeerPath
    /\ CASE call.group = "local" -> TRUE
         [] call.kind = "broadcast" ->
                \A n \in Member : Ranks[n + 1] = call.root => JoinedBy(k, m, n)
         [] OTHER -> \A n \in Member : JoinedBy(k, m, n)

\* The data the collective leaves in the output of member m.
WireData(k, m) ==
    LET call == posted[k][m]
        data == [n \in Member |-> posted[k][n].tensor.data]
        Sum  == ElementSum(data)
        root == CHOOSE n \in Member : Ranks[n + 1] = call.root
    IN  CASE call.kind = "all_reduce" -> Cast(call.tensor.dtype, Sum)
          [] call.kind \in {"reduce_scatter", "reduce_scatter_tensor"} ->
                Cast(call.tensor.dtype, ShareOf(Sum, call.sizes, m))
          [] call.kind \in {"all_gather", "all_gather_into_tensor"} ->
                Concat(data, WorldSize)
          [] call.kind = "broadcast" -> posted[k][root].tensor.data
          [] OTHER -> call.tensor.data

Wire(k, m) == [posted[k][m].tensor EXCEPT !.data = WireData(k, m)]

---------------------------------------------------------------------------
(* What the operation makes of the answer.                                 *)

\* Mutant: the answer is left on the host.
UnstageForgotten(wire, arg) == wire

\* output.to(input_.device), and for a reduction the dtype of the input as well.
Unstage(wire, arg) == IF HostStagedTP THEN [wire EXCEPT !.where = arg.where] ELSE wire

UnstageReduced(wire, arg) ==
    IF HostStagedTP THEN To(wire, arg.where, arg.dtype) ELSE wire

\* Mutant: dst is ignored.
GatherAtFirst(req, k, m) ==
    IF m = 0 THEN Unstage(Wire(k, m), given[k][m]) ELSE Abstract!Nothing

GatherAnswer(req, k, m) ==
    IF m = req.root THEN Unstage(Wire(k, m), given[k][m]) ELSE Abstract!Nothing

Answer(req, k, m) ==
    LET arg == given[k][m]
    IN  IF posted[k][m].kind = "identity" THEN arg
        ELSE CASE req.op \in {"all_reduce", "reduce_scatter", "reduce_scatterv"} ->
                UnstageReduced(Wire(k, m), arg)
          [] req.op \in {"all_gather", "all_gatherv", "comm_broadcast"} ->
                Unstage(Wire(k, m), arg)
          [] req.op = "gather" -> GatherAnswer(req, k, m)
          [] req.op = "barrier" -> Abstract!Nothing
          [] OTHER -> Wire(k, m)

---------------------------------------------------------------------------
Init ==
    /\ Abstract!Init
    /\ posted = [k \in Slot |-> [m \in Member |-> Pending]]
    /\ calls = [m \in Member |-> 0]
    /\ pc = [m \in Member |-> "idle"]

\* Member m reaches its next call, and the call is the one the program makes there.
Arrive(m, req, t) ==
    LET k == calls[m] + 1 IN
    /\ pc[m] = "idle"
    /\ k \in Slot
    /\ plan[k] \in {Pending, req}
    /\ plan' = [plan EXCEPT ![k] = req]
    /\ given' = [given EXCEPT ![k][m] = t]
    /\ calls' = [calls EXCEPT ![m] = k]
    /\ UNCHANGED got

\* An assert, a ValueError, or an error from torch.distributed ends the process.
Raise(m, req, t) ==
    /\ Arrive(m, req, t)
    /\ pc' = [pc EXCEPT ![m] = "raised"]
    /\ UNCHANGED posted

Post(m, req, t, call) ==
    /\ Accepts(call)
    /\ Arrive(m, req, t)
    /\ posted' = [posted EXCEPT ![calls[m] + 1][m] = call]
    /\ pc' = [pc EXCEPT ![m] = "waiting"]

Refused(m, req, t, call) == ~Accepts(call) /\ Raise(m, req, t)

Make(m, req, t, call) == Post(m, req, t, call) \/ Refused(m, req, t, call)

\* Mutant: without a communicator the tensor is handed back as it came.
CommunicateOrSkip(m, req, t, call) ==
    \/ HasCommunicator /\ Make(m, req, t, call)
    \/ ~HasCommunicator /\ Make(m, req, t, Bypass(t))

\* The operations that go through the device communicator.
Communicate(m, req, t, call) ==
    \/ HasCommunicator /\ Make(m, req, t, call)
    \/ ~HasCommunicator /\ Raise(m, req, t)

\* Mutant: no bypass.
CommunicateAlways(m, req, t, call) == Communicate(m, req, t, call)

\* Those that bypass it in a group of one.
BypassOrCommunicate(m, req, t, call) ==
    \/ WorldSize = 1 /\ Make(m, req, t, Bypass(t))
    \/ WorldSize > 1 /\ Communicate(m, req, t, call)

BypassOrMake(m, req, t, call) ==
    \/ WorldSize = 1 /\ Make(m, req, t, Bypass(t))
    \/ WorldSize > 1 /\ Make(m, req, t, call)

AllReduce(m, req, t) ==
    /\ req.op = "all_reduce"
    /\ BypassOrCommunicate(m, req, t, AllReduceCall(t))

AllGather(m, req, t) ==
    /\ req.op = "all_gather"
    /\ BypassOrCommunicate(m, req, t, AllGatherCall(t))

AllGatherv(m, req, t) ==
    /\ req.op = "all_gatherv"
    /\ IF Fits(req, m)
       THEN Communicate(m, req, t, AllGathervCall(req, t))
       ELSE Raise(m, req, t)

ReduceScatter(m, req, t) ==
    /\ req.op = "reduce_scatter"
    /\ IF Fits(req, m)
       THEN BypassOrCommunicate(m, req, t, ReduceScatterCall(req, m, t))
       ELSE Raise(m, req, t)

ReduceScatterv(m, req, t) ==
    /\ req.op = "reduce_scatterv"
    /\ IF Fits(req, m)
       THEN Communicate(m, req, t, ReduceScattervCall(req, m, t))
       ELSE Raise(m, req, t)

Gather(m, req, t) ==
    /\ req.op = "gather"
    /\ BypassOrCommunicate(m, req, t, AllGatherCall(t))

\* Mutant: the source stages its tensor and the others do not.
BroadcastSourceStages(m, req, t) ==
    /\ req.op = "broadcast"
    /\ IF req.root < WorldSize
       THEN BypassOrMake(m, req, t,
                BroadcastCall(req, IF m = req.root THEN StageToMove(t) ELSE t))
       ELSE Raise(m, req, t)

Broadcast(m, req, t) ==
    /\ req.op = "broadcast"
    /\ IF req.root < WorldSize
       THEN BypassOrMake(m, req, t, BroadcastCall(req, t))
       ELSE Raise(m, req, t)

CommBroadcast(m, req, t) ==
    /\ req.op = "comm_broadcast"
    /\ Communicate(m, req, t, CommBroadcastCall(req, t))

\* Mutant: only the writer of the queue asserts.
BroadcastObjectWriterAsserts(m, req, t) ==
    /\ req.op = "broadcast_object"
    /\ IF req.root < WorldSize /\ (HasMqBroadcaster /\ m = 0 => req.root = 0)
       THEN BypassOrMake(m, req, t, BroadcastObjectCall(req, t))
       ELSE Raise(m, req, t)

\* The message queue serves member 0 only, and every member asserts it.
BroadcastObject(m, req, t) ==
    /\ req.op = "broadcast_object"
    /\ IF req.root < WorldSize /\ (HasMqBroadcaster => req.root = 0)
       THEN BypassOrMake(m, req, t, BroadcastObjectCall(req, t))
       ELSE Raise(m, req, t)

BroadcastObjectList(m, req, t) ==
    /\ req.op = "broadcast_object_list"
    /\ IF req.root < WorldSize
       THEN BypassOrMake(m, req, t, BroadcastObjectListCall(req, t))
       ELSE Raise(m, req, t)

Barrier(m, req, t) ==
    /\ req.op = "barrier"
    /\ Make(m, req, t, BarrierCall(t))

Operation(m, req, t) ==
    \/ AllReduce(m, req, t)
    \/ AllGather(m, req, t)
    \/ AllGatherv(m, req, t)
    \/ ReduceScatter(m, req, t)
    \/ ReduceScatterv(m, req, t)
    \/ Gather(m, req, t)
    \/ Broadcast(m, req, t)
    \/ CommBroadcast(m, req, t)
    \/ BroadcastObject(m, req, t)
    \/ BroadcastObjectList(m, req, t)
    \/ Barrier(m, req, t)

Call(m) ==
    \E req \in Requests, v \in Values : Operation(m, req, Abstract!Argument(req, m, v))

\* Member m makes the call that another member is already in.
Join(m) ==
    LET k == calls[m] + 1 IN
    /\ k \in Slot /\ plan[k] # Pending
    /\ \E v \in Values : Operation(m, plan[k], Abstract!Argument(plan[k], m, v))

Return(m) ==
    LET k == calls[m] IN
    /\ pc[m] = "waiting"
    /\ Completes(k, m)
    /\ got' = [got EXCEPT ![k][m] = Answer(plan[k], k, m)]
    /\ pc' = [pc EXCEPT ![m] = "idle"]
    /\ UNCHANGED <<plan, given, posted, calls>>

\* The program is over: the bound is reached, or the process has died.
Finished(m) == pc[m] = "raised" \/ (pc[m] = "idle" /\ calls[m] = MaxCalls)

\* Member m waits for a peer that has died on its way into the same collective.
Stranded(m) ==
    /\ pc[m] = "waiting"
    /\ \E n \in Member : pc[n] = "raised" /\ calls[n] = calls[m]

Done == (\A m \in Member : Finished(m) \/ Stranded(m)) /\ UNCHANGED vars

Next == (\E m \in Member : Call(m) \/ Return(m)) \/ Done

\* A member that is behind catches up with the program, and the library delivers a
\* collective that everybody has joined.  Nobody has to begin a new call.
Fairness ==
    \A m \in Member :
        /\ WF_vars(Join(m))
        /\ WF_vars(Return(m) /\ \A n \in Member : calls[n] >= calls[m])

Spec == Init /\ [][Next]_vars /\ Fairness

---------------------------------------------------------------------------
(* Correctness.                                                            *)

\* Whatever a caller is given back is not a host tensor: the operations promise to
\* return on input_.device (xpu_communicator.py), and a call on the wire names a
\* process group of this coordinator and a member of it.
TypeOK ==
    /\ plan \in [Slot -> Requests \cup {Pending}]
    /\ calls \in [Member -> 0..MaxCalls]
    /\ pc \in [Member -> {"idle", "waiting", "raised"}]
    /\ DOMAIN given = Slot /\ DOMAIN got = Slot /\ DOMAIN posted = Slot
    /\ \A k \in Slot :
        /\ DOMAIN given[k] = Member /\ DOMAIN got[k] = Member
        /\ DOMAIN posted[k] = Member
        /\ \A m \in Member :
            /\ got[k][m] # Pending => got[k][m].where \in {"xpu", "host", "none"}
            /\ posted[k][m] # Pending =>
                /\ posted[k][m].group \in {"cpu", "device", "mq", "local"}
                /\ posted[k][m].root \in {Ranks[i] : i \in DOMAIN Ranks}

\* Every operation returns what the abstract collective of its slot returns: staging
\* through the host, the float32 detour of a half and the choice of process group
\* cannot be seen by the caller (XpuCommunicator, GroupCoordinator).
ImplementsCollective == Abstract!Spec

\* Two calls may raise, on every member, although all arguments are in order: the
\* coordinator's own broadcast, which is not staged (parallel_state.py:628), and an
\* all_gatherv of equal shares, whose single output gloo does not take
\* (xpu_communicator.py:223) although its comment calls sizes unneeded (186).
MayRaise(req) == req.op = "broadcast" \/ (req.op = "all_gatherv" /\ ~Uneven(req))

\* Whoever enters a collective whose arguments fit on every member gets out of it, device-
\* to-device path or not: no staged operation waits for xccl (xpu_communicator.py:21-27).
\* It gets an answer, unless the call is one of the two above: then it may raise.
EveryCallReturns ==
    \A k \in Slot, m \in Member :
        given[k][m] # Pending /\ (\A n \in Member : Fits(plan[k], n)) ~>
            \/ got[k][m] # Pending
            \/ pc[m] = "raised" /\ calls[m] = k /\ MayRaise(plan[k])

\* Where one member's assertion or backend throws a call out, nobody gets an answer; and
\* nobody has gone into the collective to wait for the one that is dead, except in a
\* lopsided call: only the asserts on a member's own length (xpu_communicator.py:111, 148,
\* 151, 199), of which no peer learns, can strand the others.
RefusedByAll ==
    \A k \in Slot, m, n \in Member :
        pc[m] = "raised" /\ calls[m] = k =>
            /\ got[k][n] = Pending
            /\ posted[k][n] # Pending => Lopsided(plan[k])

\* Host staging is transparent: no collective call fails for want of a backend that
\* moves device tensors (xpu_communicator.py:23, "every collective is host-staged").
EveryCollectiveIsStaged == \A m \in Member : pc[m] # "raised"
===========================================================================
