# TLA+ models of b70-dual-tp2

This directory holds TLA+ specifications of the distributed part of b70-dual-tp2, the
TLC configurations that model-check them, and machine-checked proofs about most of them.
`PROJECT.json` is the index: components, runs, hazards, findings, theorems, a mutant for
every property, and for every definition the source lines it models.

## 1. The system

The repository serves one language model on two Intel Arc Pro B70 cards with tensor
parallelism. The cards sit below different root ports, and the device-to-device path that
oneCCL (`xccl`) wants may never complete there: the first collective hangs. The fusion
patch (`src/fusion_patch/`) therefore replaces two files of vLLM so that, with
`VLLM_XPU_HOSTSTAGED_TP=1`, every device process group is a gloo group and the device
communicator copies each tensor to the host, runs the collective there, and copies the
answer back. gloo can move host memory only, and has no 16-bit reduction.

Everything in a worker process happens in one thread; what makes the system concurrent is
that several worker processes run the same program and meet in blocking calls of
`torch.distributed`. A call returns only if the peers come to the same call, on the same
group, as their call of the same number. Nearly all hazards are about this.

### 1.1 Inventory

| Component | Source | State | Operations | Talks to |
|---|---|---|---|---|
| Collectives of a process group | `parallel_state.py` (`GroupCoordinator`), `xpu_communicator.py`, `base_device_communicator.py` | ranks, device group, cpu group, communicator, message queue | all_reduce, all_gather(v), reduce_scatter(v), gather, broadcast, broadcast_object(_list), barrier; send, recv | `torch.distributed`, all other components |
| Node counting | `_node_count`, `in_the_same_node_as` | node assignment, one shared-memory segment per round | one round per node: create, broadcast name, open, barrier, unlink, sum | cpu group of the world, `/dev/shm` |
| Rank layout | `initialize_model_parallel`, `init_distributed_environment` | none (pure) | lists of ranks for TP, DCP, PCP, PP, DP, EP, EPLB and the inner world | worker startup |
| Worker startup and teardown | `xpu_worker.py` (`init_device`), `parallel_state.py` | position of each worker in the sequence of blocking calls | init_process_group, new_group per list, message queues, node count, warm-up, cleanup | all of the above |
| Globals of parallel_state | module globals, `_group_name_counter`, `_TP_STATE_PATCHED` | which group each global names | initialise, ensure, patch, destroy, cleanup | compiled code looks groups up by name |
| Tensor dictionaries | `(i)send_tensor_dict`, `(i)recv_tensor_dict`, `broadcast_tensor_dict` | messages in flight on two groups, open receives, postprocess functions | metadata, tensors, slices and their all-gather | cpu group, device group, message queue, the all-gather group |
| Custom operators, fused matmul | `parallel_state.py` | table of groups by name | look up, call, fake shapes | collectives |
| All-to-all managers | `base_device_communicator.py`, `xpu_communicator.py` | dp and tp groups, cache of handles | made with the ep group; dispatch, combine | node counting's calls, `AgRsAll2AllManager` (elsewhere) |
| Elastic expert parallelism | `parallel_state.py` | stateless groups | init, replace | `StatelessGroupCoordinator` (elsewhere) |
| Graph capture | `graph_capture` | a stream | enter, leave | accelerator |
| Memory query shim | `sitecustomize.py` | none | one query with a fallback | driver |
| Probes and benchmarks | `repro/*.cpp` | device buffers, events | copy, verify, time | Level Zero |
| Launch scripts, images, HTTP tests | `scripts/`, `tests/`, `Dockerfile.prod` | none | set flags, time a server | – |

### 1.2 What is hard, and what correct means

* **Collectives.** The answer must not depend on the detour (host, float32) nor on how fast
  the members are; a half must be rounded once; uneven shares take another library call
  than even ones; a call that one member refuses must be refused by all, or the others
  wait for ever, and some assertions are about the member's own tensor; nobody may wait for
  xccl under the flag.
* **Node counting.** Ranks act on what they learn in a round, so they must learn the same;
  a segment must be opened before it is unlinked, unlinked once and always; errors of
  shared memory are suppressed in the middle of a sequence of collective calls.
* **Shapes.** The library cuts and joins along the first dimension; the code moves `dim`
  there and back, and tells a compiler in advance what shape will come out.
* **Layout.** A group cut out of the wrong dimension has the right size and computes the
  wrong sum: no assertion sees it.
* **Startup.** Every worker has to make every `new_group` call of every group in the same
  order; names and ranks are computed by each worker for itself; the second start must not
  use anything of the first.
* **Globals.** Failures in the middle, a temporary tensor-parallel group for a draft model,
  and teardown, in every legal order of calls.
* **Dictionaries.** Metadata, host tensors and device tensors travel separately, metadata
  as two messages on the group that carries host tensors too; empty tensors do not travel;
  slices are reassembled later by functions created in a loop.
* **Benchmarks.** A verdict must be about the copy that was timed, not about what the
  destination held before.

The complete list, one line each, is under `hazards` in `PROJECT.json`.

## 2. Modules

| Module | Models |
|---|---|
| `TensorData` | one-dimensional tensors: device, dtype, data; casts, sums, shares |
| `Collective` | **abstract**: slot *k* of a group returns a function of the arguments of slot *k* |
| `HostStaged` | `GroupCoordinator` + `XpuCommunicator`, refines `Collective` |
| `HostStaged_proofs` | its inductive invariant; type correctness; the refinement |
| `HostStaged_refusal_proofs` | a call that one member refuses is refused by all, unless the members' own lengths tell them apart |
| `MCHostStaged`, `MCHostStagedConfigs` | instances for TLC |
| `ShapedCollectives`, `MCShapedCollectives` | shapes and elements of collectives with a `dim`; the fake operators |
| `ShapedCollectives_proofs` | all its properties, for any number of members and dimensions |
| `SameNode`, `MCSameNode` | `_node_count` and `in_the_same_node_as` |
| `SameNode_proofs` | all its safety properties, for any placement |
| `RankLayout` | the lists of ranks (pure), and what they are meant to be |
| `RankLayout_proofs` | the lists are what they are meant to be, for any layout |
| `WorkerStartup`, `MCWorkerStartup` | all workers from boot to serving and back; extends `RankLayout` |
| `WorkerStartup_proofs` | all its safety properties, for any deployment and number of restarts |
| `GroupGlobals`, `MCGroupGlobals` | the module globals of one process |
| `GroupGlobals_proofs` | all its safety properties, for any bound |
| `DictPipe` | **abstract**: a receiver gets its source's dictionaries, whole and in order |
| `TensorDict`, `MCTensorDict` | tensor dictionaries, refines `DictPipe` |
| `TensorDict_proofs` | all its safety properties and the refinement, for any program |
| `PeerBandwidth` | the bandwidth benchmark and what it reports |

### 2.1 HostStaged

`Ranks`, `HostStagedTP`, `UseDeviceCommunicator`, `UseMq` are what a `GroupCoordinator` is
built from. Two more constants are about what lies outside: `PeerPath`, whether xccl's peer path
completes on this machine, and `GlooTakesUneven`, whether gloo takes lists of tensors of
unlike sizes, which the communicator hands it for uneven shares and of which nothing in
`src/` shows what comes (the runs have both values). Each of the eleven operations is one action with the code's early
returns (group of one), assertions, and the choice of process group, library call, staging
and sizes; `comm_broadcast` is `XpuCommunicator.broadcast` called directly. `Raise` ends
the process. `Post` puts a call on the wire; `Return` takes the answer and does what the
operation does with it (move back, cast back, drop it when not the destination).

A member's k-th call is slot *k*; the members run one program, so whoever is first in a
slot picks its call. The call is the same for all, the length of a member's tensor
(`lens`) is its own: `Fits` are the assertions about it (`xpu_communicator.py:111`, 147–151,
198–201), and a call is `Lopsided` if some members pass them and others do not. No length
is excluded: a member that does not fit raises before it has posted anything.
torch.distributed is external. It is modelled by three facts the code
relies on: which calls a backend accepts (`Accepts`: gloo refuses device memory, refuses a
reduction of a half, and wants one output per member in a list all-gather; xccl takes no
host tensor; a root must be a member), when a call is over (`Completes`: a broadcast when its source is there, the
rest when everybody is; xccl only if `PeerPath`), and what it computes (`WireData`).

The data abstraction: numbers are small integers; the one numeric fact kept is that above
`HalfExact` only even numbers are halves, which is enough to tell "round once" from "round
per member" and from "not at all". float16 and bfloat16, which the code treats alike, are
one dtype. Tensors have one dimension here; `ShapedCollectives` has the others.

### 2.2 SameNode

The loop of `_node_count` and the body of `in_the_same_node_as`, one action per stretch
between two blocking calls. `log[r]` is the sequence of calls of rank *r*; a call is over
when the peers' calls **of the same number** are the same call, so ranks that get out of
step hang in the model as they do in the library. Failing to create a segment and failing
to map one are the two environment faults. The group is an ordinary one (all-reduce of the
flags) or a stateless one (N broadcasts), chosen at the start.

### 2.3 RankLayout and WorkerStartup

`RankLayout` defines reshape, transpose and unbind on five-dimensional tensors of ranks and
writes each `GroupRanks` as the code does. `IntendedGroup` is the independent reference:
coordinates of a rank, and the ranks that agree with it outside the kind's dimensions.
For `dcp` it is what the comment at `parallel_state.py:1614` says, a part of the
tensor-parallel group of the rank (`DcpPeers`). That is possible only if the `dcp` size
divides the `tp` size (`CanSplit`), which the code does not check.

In `WorkerStartup` every worker runs through `init_device`: process group, then one
`GroupCoordinator` after the other. A constructor makes two `new_group` calls for each
list of ranks (device backend, then gloo), member or not, then possibly the all-to-all
manager of its communicator (only for ep, only with data parallelism: it reads the dp and
tp globals and calls `in_the_same_node_as` on the group that is being built) or a message
queue, then sets the global. After the world group comes the node count (one blocking call here, refined by
`SameNode`) and the warm-up all-reduce. A configuration says on its own how many nodes there
are (`many`: `nnodes > 1`, nothing is counted) and whether one engine spans several (`inner`:
`nnodes_within_dp > 1`, there is an inner world). Where torch has no xccl the device groups
are gloo groups even without the flag (`parallel_state.py:1434`); nothing is staged then,
gloo refuses the warm-up's device tensor, and every worker raises there. For a dense model
`initialize_model_parallel` still asserts that `_EP` is `None`; since a deployment's model
does not change, nothing can have set it. `Teardown` is `cleanup_dist_env_and_memory`.

### 2.4 GroupGlobals

One process and the globals `_WORLD`, `_INNER_DP_WORLD`, `_TP`, `_DCP`, `_PCP`, `_PP`, `_DP`,
`_EP`, `_EPLB`, `_NODE_COUNT`, `_TP_STATE_PATCHED`. A group is live, destroyed, gone (taken
along by `destroy_process_group()`), or failed in its constructor. Each public function is
one action, with the step that raises as a parameter; what was assigned before the raise
stays. Callers follow the workflow of `parallel_state.py:14-24`; nothing is torn down
inside an open patch; `destroy_distributed_environment` is called alone only when no
model-parallel group stands. A custom operator finds its group by name through a weak
reference: `Answers` says whether a global or an open patch still refers to it. Not
modelled: references that callers keep for themselves, a failing `init_process_group`,
`_replace_active_groups`, stateless groups.

### 2.5 TensorDict

A channel holds the messages to one receiver on one group; the n-th posted receive gets the
n-th message. `isend_tensor_dict` is three steps: the size of the pickled metadata
(`SendMetadata`), the metadata (`SendObject`), the tensors (`SendTensors`). A receiver takes
the size and the metadata and posts its receives (`ReceiveSize`, `ReceiveMetadata`),
waits for the handles (`WaitHandles`), runs the postprocess functions, each an all-gather
(`EnterGather`, `LeaveGather`), and hands over the dictionary (`Deliver`). Until the handle
is waited for a buffer holds `Garbage`. `window` is how far the caller runs ahead: with
`recv_tensor_dict` one dictionary is open, with `irecv_tensor_dict` the code sets no limit.
`whole` and `forced` are the keys that `all_gather_tensors` maps to False and to True.

Three things stop a side. A device tensor on gloo, and a forced cut of a tensor that cannot
be reshaped into as many parts (`parallel_state.py:916`, 1018), stop the loop over the tensors
on both (`Refuses`). A slice of a *host* tensor is gathered on the device group (line 1034),
and xccl does not take it (`GatherRefuses`); both sides have done their receives and sends
by then. A receiver is `Deserted` in an all-gather if a peer has raised and will not
come. Between dictionaries a single device tensor may be
sent bare, by `send` and `recv` of the communicator (`SendBare`, `ReceiveBare`): it shares
the device channel with the tensors of the dictionaries and is not announced.

### 2.6 ShapedCollectives

One call of the whole group at a time; what is modelled is what becomes of shapes and of
every single element. A tensor is a shape and its elements in memory order. To an operation
on one dimension the dimensions in front of it are one, and those behind it are one, so
`movedim(0, dim)` and slicing are written for tensors of three blocks (`Place`, `Filled`);
`MCShapedCollectives` says what they stand for, by positions with an index for every dimension,
and TLC evaluates that the two agree (`BlocksArePositions`). Each operation is one
action: bypass for a group of one, the assertions, negative `dim`, the library's call, the
way back. A sum is the set of its terms. Staging is left out: it changes neither shape nor
order. The fakes are the shapes `all_gather_fake` and `reduce_scatter_fake` announce.

### 2.7 PeerBandwidth

`main` of `b70_p2p_bandwidth.cpp`: for each size, time and verify one direction, then the
other, run both in two threads, print the line. Buffers are allocated once, filled with the
pattern the check expects, and overwritten piece by piece. What the driver makes of a peer
copy (moves, refuses, garbles) is fixed per direction, since it is a fact of the machine.

## 3. Runs

Every passing run has a mutant for each of its properties: a plausible slip in a mapped
definition, named `Mutant:` in the modules, under which TLC finds the property violated.

| Run | Question | Properties | Instance |
|---|---|---|---|
| `hoststaged_pair` | Do the two cards get right answers, or an error on both, without a peer path? | `TypeOK`, `RefusedByAll`, `ImplementsCollective`, `EveryCallReturns` | ranks 0, 1; staged; no peer path; 19 calls, 3 of them lopsided; 2 in a row |
| `hoststaged_configs` | And other groups: xccl, refused calls, three members, the world group, a group of one? | `RefusedByAll`, `ImplementsCollective`, `ServedCallsReturn` | five groups |
| `hoststaged_broadcast` | Is *every* collective host-staged? **No** | `EveryCollectiveIsStaged` violated | one broadcast |
| `samenode_any` | Is the number of nodes right, whatever fails? | `TypeOK`, `CallsMatch`, `NodeMapsAgree`, `NeverMerges`, `NodeCountExact`, `UnlinkedOnce`, `NoSegmentLeft`, `CountReturnsOrNoSegment` | 3 ranks, every placement, both kinds of group, both faults |
| `samenode_create_fails` | Are errors of shared memory ignored? **No** | `CountReturns` violated | 2 ranks |
| `worker_startup` | Do all workers start, with the right groups, also a second time? | `TypeOK`, `CallsMatch`, `MembersAgree`, `GroupsAreCoordinates`, `StartedOnFreshGroups`, `EveryoneStarts` | pairs (with and without flag, handshake, xccl) and fours (one node or more) run; all layouts of 8 and 12 laid out |
| `tensor_dict` | Do dictionaries arrive whole and in order, and does everybody end? | `TypeOK`, `GathersMatch`, `ImplementsPipe`, `EverybodyEnds` | 2–3 ranks, 2–3 dictionaries or bare tensors, some refused, window 1–2 |
| `group_globals` | Do the globals name usable groups through any legal history? | `TypeOK`, `NamesAreUnique`, `GlobalsAreLive`, `EnsuredIsWhole`, `CleanupIsComplete`, `LookupFindsTheLiving` | 3 deployments, up to 16 groups |
| `group_patch_stuck` | Is the patch flag set only inside a patch? **No** | `PatchedOnlyInside` violated | no construction fails |
| `group_inner_world` | Is the inner world that is handed out initialized? **No** | `InnerWorldIsLive` violated | no construction fails |
| `shaped_collectives` | Is every element where `dim` says, and the shape what the compiler was told? | `WellShaped`, `GathersAreConcatenations`, `ScattersAreShares`, `FakeShapesAgree` | 1–3 members, 0–4 dimensions, every `dim` |
| `peer_bandwidth` | Does a bandwidth reported as ok belong to copies that moved data? **No** | `NeverReportsDropped` violated | 2 sizes |

### 3.1 Bounds, and why they are enough

* `hoststaged_pair`: two calls in a row are what it takes for a fast member to be in the
  next collective while its peer is in the last one. Slots do not interact otherwise
  (proved for any number). `Values = {3, 4}` makes members differ and makes sums cross
  `HalfExact`, so that rounding shows. The calls are all eleven operations, with uneven
  and with equal shares, and for each operation that looks at a length one lopsided call.
  `EveryCallReturns` speaks of calls that fit on both; of these exactly two sorts may raise,
  and `MayRaise` names them.
* `hoststaged_configs`: `refuse` uses global ranks 0 and 2, so that local and global ranks
  differ, calls that no member fits, and a gloo that takes no unlike tensors; `triple` has
  a middle root, uneven shares, and a call that two of three members get into; `world` has
  no communicator.
* `samenode_any`: three ranks give every partition shape that matters: all together, two
  and one in each arrangement (also the non-contiguous {0, 2}, {1}), all apart.
* `worker_startup`: `MaxRunning = 4` workers run. Larger worlds add members to groups and
  groups to kinds, not new blocking calls; their layouts, where the dimensions interact, are
  all checked for 8 and 12 ranks (`8 = 2·2·2` and `12 = 3·2·2` have every mixture of equal
  and different sizes in up to three dimensions). One restart, because nothing remembers
  more than the starts' number.
  Two of the fours have data parallelism and experts, hence a manager: one whose engine
  spans nodes, one with an engine on each. The others are a `dcp` group and an external
  data parallelism.
* `tensor_dict`: dictionaries mix host and device, empty, odd-sized, spread and plain
  entries, two tensors to cut among them; a second and a third dictionary behind show any offset; window 2 shows overlap.
  Every way to be refused (a device tensor on gloo, a forced cut, a host slice on xccl)
  meets receivers that finish each dictionary and receivers that run ahead.
  A bare tensor stands between two dictionaries with device tensors, whose channel it uses.
* `group_globals`: `maxGroups` 16 and 12/13 let a full initialisation happen twice for a
  deployment; one failure and one draft group anywhere in between.
* `shaped_collectives`: three dimensions are the least in which `movedim(0, dim)` is not its
  own inverse; one shape has four. Every `dim` in range and those just outside are tried,
  with dimensions that the number of members divides and that it does not, and shares of
  unlike sizes, an empty one among them. A call has one step: nothing interleaves.
* `peer_bandwidth`: two sizes, so that a later size meets what an earlier one left behind.

### 3.2 Fairness

* `HostStaged`: weak fairness of *joining* a call that a peer is in (the program is the same
  on every member and does not stop between calls) and of *returning* once everybody has
  joined (the library delivers). Nobody has to begin a new call, and a broadcast's source
  need not return before the rest has come.
* `SameNode`, `WorkerStartup`: weak fairness of each process's steps: it is never
  suspended for ever in front of a step it can take. A blocking call is no such step
  until it is over.
* `TensorDict`: the same, for the sending and the receiving side of each rank: they are
  different pipeline stages for "p2p", hence different processes.
* `GroupGlobals`, `ShapedCollectives`, `PeerBandwidth`: none; all their properties are safety.

Deadlock is checked everywhere but in the two `SameNode` runs, whose protocol ends;
`CountReturnsOrNoSegment` says that it ends in the right place. In the others an explicit
stuttering step is enabled only where the program may rest; in `GroupGlobals` a process can
always be torn down or asked again.

## 4. Proofs

Everything here holds for every value of the constants that satisfies the assumptions the
modules declare: any number of ranks, any sizes and layouts, any number of restarts,
failures or groups.

| Proof module | Theorems |
|---|---|
| `HostStaged_proofs` | `TypeCorrect`, `Implementation` (refinement of `Collective`) |
| `HostStaged_refusal_proofs` | `Refusal` |
| `SameNode_proofs` | `TypesHold`, `CallsAgree`, `MapsAgree`, `NeverMerged`, `NothingLeft`, `CountIsExact`, `UnlinksOnce` |
| `RankLayout_proofs` | `GroupsCutTheWorld` |
| `WorkerStartup_proofs` | `TypesHold`, `NthCallsMatch`, `MembersHaveOneGroup`, `GroupsAreIntended`, `ServesOnFreshGroups`, `ConstructorsDoNotRaise` |
| `GroupGlobals_proofs` | `TypesHold`, `NamesStayUnique`, `GlobalsStayLive`, `LookupsFindTheLiving`, `EnsuredStaysWhole`, `CleanupsAreComplete` |
| `TensorDict_proofs` | `TypesHold`, `GathersBelongTogether`, `Implementation` (refinement of `DictPipe`) |
| `ShapedCollectives_proofs` | `WellShapedHolds`, `GathersHold`, `ScattersHold`, `FakesHold` |

Each state machine of the table has an inductive invariant, `IInv`, and a theorem
`Invariance == Spec => []IInv`; the theorems of the table follow from it. Each conjunct of
each `IInv` was an invariant of a TLC run before it was proved.

### 4.1 HostStaged

Assumptions: those the module declares (`RanksAssumption`: distinct ranks, at least one;
`FlagsAssumption`; `RequestsAssumption`), and for `Implementation` two of its own.
`RequestsAssumption` says that a call is one of the eleven, with `sizes` only where the code
takes them: as many as one likes, of any value, with tensors of any length. Two facts it
states exclude no call that the code refuses. Members that pass the assertions have
tensors of one length, except in an `all_gatherv` with sizes, since torch.distributed gives
unlike lengths no meaning elsewhere. And equal `sizes` that add up to a length are its even
parts, which is arithmetic, but by induction over the sizes. The other two:

* `WorldSize > 1`. A group of one hands the argument back, which is checked by TLC
  (`hoststaged_configs`, `single`).
* `LocalIsGlobal`: `comm_broadcast` is only called with a root whose local rank is its
  global rank. This one is necessary: `XpuCommunicator.broadcast` passes `src` on as a
  global rank (see 5.2).

The argument. `TypeOK` and the refinement are not inductive: they say nothing of the calls on
the wire. `IInv` adds (a) `Progress`: what each member has done in each slot, from its
counter and its pc: nothing beyond the current slot, an answer in every slot before it;
and (b) `Wired`: each posted call **is** `Issued(plan[k], given[k][m])`, the call that the
operation makes of that member's own argument, accepted by the backend and past the
assertions. `OperationArrives` reduces the eleven actions to two, `Raise` or `Post` of
`Issued`, so that preservation is proved once and not eleven times. For the
refinement, everybody has joined (`Rendezvous`), each posted tensor carries its member's
numbers (`PostedData`, since a half is a float), and taking the answer back rounds once
(`Unstaging`); `ReductionAnswer`, `GatheringAnswer` and `BroadcastAnswer` then show the
answer to be the abstract meaning, by kind of operation.

For `Refusal` the invariant is `RInv`: whoever has raised did so in a call outside `Served` or
with a tensor that does not fit, whatever is posted is in `Served`, and an operation that looks
at lengths has given an answer only if everybody has posted. `Served` is a set of calls in
which neither a member nor a datum occurs. `Verdict` shows each of the eleven operations to
raise exactly outside the conditions of `Servable`, `Fits` and `Accepts`; `SameVerdict` shows that
a backend, which looks at the group, the kind, the root, the device, the dtype and the
outputs, decides alike for all members. So members can come apart over `Fits` alone, and what
the others are then left in is a rendezvous. With `IInv` the invariant is inductive.

### 4.2 SameNode

Assumptions: at least one rank; every placement gives each rank a node. Nothing is assumed
of the placements themselves or of which operations on shared memory fail.

None of the invariants is inductive alone: whether the k-th call of two ranks is the same
depends on how each got there. `IInv` describes a rank by its round (how many sources it has
worked through, which is determined by its log) and by its place within the round, and
then relates two ranks. `Single`: what a rank has logged in this round, the state of its own
segment, which flags it has summed, and that its numbers never merge two nodes (`Apart`)
and, without failures, never split one (`Together`). `Double`: ranks of one round look at
the same source with the same map (`InStep`); a rank that is one round ahead started from
the map that the other one is about to compute, since everyone's flags are in the log by
then (`Ahead`, where `Follows` is the computation of the next source and map); no rank is
further ahead than that (`Close`); and a flag, once given, is true (`Told`). `Stuck` is the
state after a segment could not be created. The steps fall into three sorts (`Begins`,
`Advances`, `Completes`), and preservation of `Double` is proved for each sort instead of
for each action.

### 4.3 RankLayout

`GroupsCutTheWorld` is about the pure operators: for every layout (positive sizes, and a
`dcp` size that divides the world) and every kind, the lists have the size that the options
say, every rank is in exactly one place of one of them, and, provided for `dcp` that it
divides `tp` (`CanSplit`), each list is `IntendedGroup` of each of its members. A rank is the number whose digits, in the mixed radix of the shape,
are its coordinates; `Transpose` and `Rows` move digits, which is shown to be a bijection on
ranks, once for two dimensions and then for each kind by its own transposes. For `dcp` the
code cuts all ranks into blocks without looking at `tp`: `BlocksSplitTp` shows a block to be
a part of a tensor-parallel group, by division with remainder (`TpPeersAreConsecutive`,
`BlockNumber`).

### 4.4 WorkerStartup

Assumptions: `ConfigsAssumption` only, for any deployments and any number of restarts.

The program of a worker is determined by the configuration, so `IInv` says of each worker
separately where it is: `Placed` gives the number of blocking calls made as a function of
the teardowns, the coordinator, and the place within its constructor; `Listed` what
it has of the lists; `Global` which group each global refers to; `Numbered` how many times
each name was given out. `CallsMatch` then follows from arithmetic: two workers that
have made equally many calls are at the same coordinator and the same call of it
(`SameNumber`), and `GroupsCutTheWorld` says that they use the same list if they are in one.
`ConstructorsDoNotRaise` is stronger than what the run checks by its liveness property: no
worker finds a group already initialised, in any deployment; if one raises, it is in the
warm-up, on a gloo that stands in for a missing xccl.

### 4.5 GroupGlobals

Assumptions: `DeploymentsAssumption`, that is the types of the options and of the bounds.

`IInv` adds to the invariants that numbers grow (`Numbered`), which kind of group a global
may name (`Named`), that no live group of the model is without a global or a patch to
hold it (`Held`), that globals are filled in the order of `initialize_model_parallel` (`Filled`)
and that nothing is live without the library (`Down`). The functions that build and
take down several groups are loops; what a construction that raises leaves behind is
stated for one group and for a run of groups.

### 4.6 TensorDict

Assumptions: `ConfigsAssumption` only: groups of two or more, windows of one or more, any
programs of dictionaries and bare tensors, with one condition that the code leaves to its
callers: a tensor that is neither alike on all senders nor mapped to False is not sent in
slices. No key is mapped to both False and True.

The properties speak of what receivers have; why it is right lies in the channels, which are
filled by a sender and emptied by a receiver that are anywhere in the program. `IInv` refers
both to *places*: place `<<k, i>>` is entry i of the k-th dictionary, with the size of the
metadata at -1 and the metadata at 0, and `Before(Messages(config, g), x)` counts the
messages on group g that come before a place. Then

* `Stream`: a channel holds, at the position of each message before the place its sender
  has come to (`Limit`), the content of that message, and, unless the sender was refused,
  nothing else. Each of the four sending actions adds exactly the messages between two
  places (`ChannelGrows`).
* `Posted`: a receiver has posted as many receives as there are messages before the place
  *it* has come to. So its next receive meets the message of that place, and the position
  that `irecv_tensor_dict` computes for a tensor is the tensor's own (`TensorPlace`). Nothing
  is said of timing: dictionaries in flight together need no case of their own.
* `Follows`: a receiver is behind its sender, and has begun nothing that either side refuses,
  be it gloo or a forced cut.
* `Opened`: what an open dictionary holds, by entry: garbage before the handles are waited for,
  then the piece that its sender has sent, and the whole tensor behind `todo`.
* `Gathered`: the n-th slice that was handed to an all-gather is the piece of the n-th of the
  places that are cut. This makes the members of a stage agree without relating their
  states: `GathersMatch` follows at once, and so does that the slices that `LeaveGather`
  joins are those of one tensor (`JoinedIsWhole`, by division with remainder).

With `DictionaryIsComplete` a delivered dictionary is the sender's, so `Deliver` is
`DictPipe`'s `Receive`, the two actions that begin a dictionary are its `Send`, and all others
change none of its variables.

### 4.7 ShapedCollectives

Assumptions: `CallsAssumption` only, which gives the types of a call's arguments, allows
`sizes` for the two operations that have them, one for each member, and leaves
`all_gatherv` no tensor without dimensions. What `sizes` add up to, `dim` and the shape are free.

A call has one step, so `IInv` is short: an answer is one of five outcomes, each written with the
operators of the model (`Outcome`). The work is in what those operators do to tensors of
any number of dimensions:

* `Numel` and `Before` are recursive functions on intervals. Their values up to every
  position are characterised by their steps (`NumelFacts`, `BeforeAll`), and every induction
  over a position is made by a least counterexample (`LeastExists`). So the number of
  elements of a joined shape (`NumelJoin`), the blocks of a shape (`ShapeParts`, `Blocks`) and
  the sums of shares are known for any length.
* `PlaceFacts` and `PlaceOfAny`: places and triples of indices are one to one, by division with
  remainder. Two tensors are the same if they have the same shape and the same elements at
  each triple (`SameByPlace`), and `MoveFacts` and `PortionFacts` say which triple an element
  comes from.
* Gathers. In the stacked memory the place of member m's element is also its place in
  the joined tensor (`PlaceInStack`, `PlaceInMember`), which makes a member's tensor the portion of
  the result at its offset (`JoinedPortion`, `AppendedPortion`). `GathersHold` follows.
* Scatters, first two dimensions: moving the sum is the sum of the moved (`MovedSum`), and a
  share cut from the moved rows and moved back is the share along `dim` (`MoveThereAndBack`).
* Scatters, other dimensions. What is returned has the right shape only if there are as many
  rows as `dim` is long (`EqualCut`). Then its first and its last element are compared with
  those of the share (`EndsOfReturns`, `EndsOfShare`). No two places of the sum have the same
  terms (`TermsDiffer`), so they would have to come from the same places. For the first
  elements that leaves the offset 0, and for the last ones the whole dimension
  (`NotBothEnds`), which is no share where all members have one (`ShareSmaller`). The argument
  needs elements to compare: the proof brought out that two empty shares are equal, and
  beyond the first two dimensions `ScattersAreShares` therefore speaks of shares with
  elements (`NoShareIsEmpty`).

### 4.8 What is only model-checked

* All liveness: `EveryCallReturns`, `ServedCallsReturn`, `CountReturnsOrNoSegment`,
  `EveryoneStarts`, `EverybodyEnds`. Temporal properties under fairness are out of the
  prover's reach.
* That three blocks of memory stand for any number of dimensions (`BlocksArePositions`):
  TLC evaluates it for the shapes of the run. Its reference definition folds over the
  dimensions.
* `RefusedByAll` in `MCHostStagedConfigs`, which checks again, over more deployments, what
  `Refusal` proves.
* `PeerBandwidth`, whose run expects a violation.

## 5. Where code and words disagree

### 5.1 Found by a run

1. `parallel_state.py:628`. `GroupCoordinator.broadcast` sends the caller's device tensor
   on the device group, which is gloo under the flag, without the communicator. gloo
   refuses it, on every member. `xpu_communicator.py:22-23` says that every collective is
   host-staged. (`hoststaged_broadcast`)
2. `parallel_state.py:1997`. One `suppress(OSError)` covers the creation of the segment
   and the broadcast of its name. If the creation fails, the source goes to the barrier and
   its peers stay in the broadcast: nobody gets a count, though line 2032 says the error is
   ignored. (`samenode_create_fails`)
3. `parallel_state.py:1842`. The patch flag is set before `get_tp_group()` may raise and
   outside the `try`; after such a failure every patch is refused as "already patched".
   (`group_patch_stuck`)
4. `parallel_state.py:1919`. `_INNER_DP_WORLD` survives `destroy_distributed_environment`;
   its getter then hands out a destroyed group. (`group_inner_world`)
5. `b70_p2p_bandwidth.cpp:80`. The destination is filled with the very values that
   `verify` compares with, and no result of a copy command is looked at: a direction in
   which every copy is refused is reported as ok, although line 7 says that bandwidth is
   never reported on dropped data. (`peer_bandwidth`)

### 5.2 Noticed while modelling, without a run of their own

* `all_gatherv` with equal or no sizes hands a single output tensor to
  `dist.all_gather` (`xpu_communicator.py:223`), which wants a list; the comment at 186 says
  that sizes are not needed then. All members raise alike: `EveryCallReturns` names the call
  among the two that may raise.
* The assertions about the length of a member's own tensor (`xpu_communicator.py:111`, 148, 151,
  199) are made before a collective and by each member alone. Where one fails and the
  others hold, the peers wait for the dead member. `RefusedByAll` says that nothing else
  strands them.
* `all_gatherv` and `reduce_scatterv` with unlike sizes hand gloo lists of tensors of unlike
  sizes (`xpu_communicator.py:210`–220, 165–168). Whether gloo takes them is not to be
  seen here; if it does not, the calls are refused on every member.
* `XpuCommunicator.broadcast` takes `src` as a global rank (`:273`), its base class as a
  rank in the group (`base_device_communicator.py:309-313`).
* `reduce_scatter` and `reduce_scatterv` move `dim` with `movedim(0, dim)`, which is its own
  inverse only where `dim` is 0 or 1. `ScattersAreShares` says exactly this: the right
  share up to there, and never beyond, unless there is nothing to share. The fake shape (`parallel_state.py:156`) is right
  for what was meant. Nothing in the repository calls it with `dim` 2.
* With two dictionaries open, a receiver that raises on the second leaves its peers in the
  all-gather of the first. `EverybodyEnds` allows this, for callers that run ahead, and nothing
  else.
* A tensor that `all_gather_tensors` maps to True is cut even if it cannot be, and the error
  comes only after its metadata has been sent (`parallel_state.py:829`, 916): both sides
  raise. A slice of a host tensor is gathered on the device group (1034), which without the
  flag is xccl: all receivers raise.
* Nothing checks that the `dcp` size divides the `tp` size; where it does not, a `dcp` group
  joins ranks of two tensor-parallel groups, against the comment at `parallel_state.py:1614`.
* If counting the nodes raises, a second `init_distributed_environment` does not count
  again.
* The communicator reads the flag at import, `parallel_state` at every construction.

## 6. What is not modelled, and why

* Elastic expert parallelism (`_init_elastic_ep_world`, `_init_stateless_group`,
  `_replace_active_groups`): all of it drives `StatelessGroupCoordinator`, which is not in
  this repository.
* What the all-to-all managers do with tokens, and the `Cache` they keep handles in:
  `AgRsAll2AllManager` and every caller of the cache are elsewhere. The fallbacks of the
  base classes hand their arguments back.
* The fused scaled matmul: a kernel elsewhere, and its fake, which calls another one.
* `graph_capture`, which asserts a CUDA communicator, and the synchronous path of a cpu
  communicator: neither is taken on this platform.
* Lists of tensors in `all_gatherv`: one call after another of the modelled kind.
* Workers with different values of the flag, a flag that changes between import and
  construction, and an executor that leaves `parallel_config` unbound: settings that no
  script of the repository makes.
* References to a group that a caller keeps for itself.
* The memory shim, the launch scripts and the HTTP tests, which have no state of their own;
  the other probes, which make one call after another and keep nothing in between.

## 7. Plan

All modules of the plan are there, and every safety property of `HostStaged`, `SameNode`,
`RankLayout`, `WorkerStartup`, `GroupGlobals`, `TensorDict` and `ShapedCollectives` is proved,
with both refinements. Nothing of the plan is left; what would come next are the parts under
6 whose other half is in vLLM.
