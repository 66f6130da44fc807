--------------------------- MODULE WorkerStartup ---------------------------
(***************************************************************************)
(* From XPUWorker.init_device to a worker that can serve, and back: every  *)
(* worker joins the process group of the world, builds one                 *)
(* GroupCoordinator after another (init_distributed_environment,           *)
(* initialize_model_parallel), warms up with an all-reduce, and may later  *)
(* tear everything down (cleanup_dist_env_and_memory) and start again.     *)
(*                                                                         *)
(* All of this is a long series of blocking calls, each of which wants     *)
(* every worker, or every member of a group, to be in the very same call.  *)
(* Every worker calls torch.distributed.new_group for all groups of a      *)
(* kind, its own or not.                                                   *)
(*                                                                         *)
(* Not modelled: elastic expert parallelism (the stateless groups are not  *)
(* in this repository), and what is done between the calls that touches no *)
(* group.                                                                  *)
(***************************************************************************)
EXTENDS RankLayout

CONSTANTS
    Configs,        \* the configurations to start in
    MaxRunning      \* bound: a world of more workers is laid out but not run

VARIABLES
    config,         \* the configuration of this deployment
    pc,             \* pc[r]: where worker r is
    round,          \* round[r]: how often it has been torn down
    stage,          \* stage[r]: which coordinator of Kinds it is at
    lists,          \* lists[r]: the group_ranks of that coordinator
    row,            \* row[r]: which of these lists
    own,            \* own[r]: self.ranks as found so far in that loop
    groups,         \* groups[r][kind]: the module's global for that kind
    counter,        \* counter[r][kind]: _group_name_counter
    made,           \* made[r]: the number of blocking calls it has made
    call            \* call[r]: the last of them

vars == <<config, pc, round, stage, lists, row, own, groups, counter, made, call>>

None == [name |-> "None"]

GroupKinds == {"world", "inner", "tp", "dcp", "pcp", "pp", "dp", "ep", "eplb"}

\* A configuration adds to a layout: whether the model is a mixture of experts, whether
\* EPLB is on, whether it says that there are several nodes (`many`) and that one engine
\* has several of them (`inner`), VLLM_XPU_HOSTSTAGED_TP, whether this build of torch has
\* xccl and its handshake succeeds on this machine (`peer`), and how often the workers
\* start again.
ASSUME ConfigsAssumption ==
    /\ MaxRunning \in Nat
    /\ \A c \in Configs :
        /\ {c.ext, c.dp, c.pp, c.pcp, c.tp, c.dcp} \subseteq Nat \ {0}
        /\ WorldOf(c) % c.dcp = 0
        /\ {c.moe, c.eplb, c.many, c.inner, c.staged, c.xccl, c.peer} \subseteq BOOLEAN
        /\ c.inner => c.many /\ c.ext = 1
        /\ c.restarts \in Nat

Worker == 0..WorldOf(config) - 1

\* The coordinators a worker builds, in order.  For a dense model initialize_model_parallel
\* still asserts that there is no ep group; none is ever made for one.
Kinds ==
    LET all == IF config.inner /\ config.dp > 1
               THEN <<"world", "inner", "tp", "dcp", "pcp", "pp", "dp", "ep", "eplb">>
               ELSE <<"world", "tp", "dcp", "pcp", "pp", "dp", "ep", "eplb">>
    IN  SubSeq(all, 1, Len(all) - (IF ~config.moe THEN 2 ELSE IF ~config.eplb THEN 1 ELSE 0))

\* The lists of ranks for every coordinator: the same computation on every worker.
Laid == [c \in Configs |-> [kind \in GroupKinds |-> GroupRanks(kind, c)]]

\* use_message_queue_broadcaster
WantsMq(kind) == kind \in {"inner", "tp", "dcp"}

\* use_all2all: tokens are exchanged between coupled data-parallel ranks.
UsesAll2All(kind) == kind = "ep" /\ config.dp > 1

Init ==
    /\ config \in Configs
    /\ pc = [r \in Worker |-> "boot"]
    /\ round = [r \in Worker |-> 0]
    /\ stage = [r \in Worker |-> 1]
    /\ lists = [r \in Worker |-> <<>>]
    /\ row = [r \in Worker |-> 1]
    /\ own = [r \in Worker |-> <<>>]
    /\ groups = [r \in Worker |-> [kind \in GroupKinds |-> None]]
    /\ counter = [r \in Worker |-> [kind \in GroupKinds |-> 0]]
    /\ made = [r \in Worker |-> 0]
    /\ call = [r \in Worker |-> None]

---------------------------------------------------------------------------
(* Blocking calls.                                                         *)

\* Mutant: the flag is not looked at when a device group is made.
AlwaysXccl == "xccl"

\* gloo under the flag, and where torch has no xccl to offer.
DeviceBackend == IF config.staged \/ ~config.xccl THEN "gloo" ELSE "xccl"

Blocking(name, members, backend) ==
    [name |-> name, members |-> members, backend |-> backend]

Everyone == [i \in 1..WorldOf(config) |-> i - 1]

Enter(r, c) ==
    /\ made' = [made EXCEPT ![r] = @ + 1]
    /\ call' = [call EXCEPT ![r] = c]

NewGroup(ranks, backend) == Blocking("new_group", ranks, backend)

\* new_group is left only when the whole world has come; a message queue is set up, and
\* in_the_same_node_as is called, among the members of a group.
OfGroup == {"mq", "same_node"}

Scope(c) == IF c.name \in OfGroup THEN Range(c.members) ELSE Worker

\* Worker p has joined the call r is in, or has left it already.
Joined(r, p) == made[p] > made[r] \/ (made[p] = made[r] /\ call[p] = call[r])

\* The handshake of xccl never ends on a machine without the peer path.
Over(r) ==
    /\ \A p \in Scope(call[r]) : Joined(r, p)
    /\ call[r].backend = "xccl" => config.peer

---------------------------------------------------------------------------
(* init_distributed_environment.                                           *)

InitProcessGroup(r) ==
    /\ pc[r] = "boot"
    /\ pc' = [pc EXCEPT ![r] = "joining"]
    /\ stage' = [stage EXCEPT ![r] = 1]
    /\ Enter(r, Blocking("init_process_group", Everyone, DeviceBackend))
    /\ UNCHANGED <<round, lists, row, own, groups, counter>>

ProcessGroupReady(r) ==
    /\ pc[r] = "joining"
    /\ Over(r)
    /\ pc' = [pc EXCEPT ![r] = "idle"]
    /\ UNCHANGED <<round, stage, lists, row, own, groups, counter, made, call>>

---------------------------------------------------------------------------
(* GroupCoordinator.__init__.                                              *)

\* Mutant: a worker makes the groups it is a member of only.
MineOnly(r, list) == r \in Range(list)

\* The lists of ranks a worker calls new_group for: all of them.
MakesGroup(r, list) == TRUE

RowsFrom(r, all, j) == {i \in j..Len(all) : MakesGroup(r, all[i])}

First(S) == CHOOSE i \in S : \A k \in S : i <= k

\* The kind's global is None, or its assert ends the process.
MayBuild(r) == groups[r][Kinds[stage[r]]] = None \/ Kinds[stage[r]] = "inner"

\* A name, the lists of ranks, and the first new_group.  init_distributed_environment
\* skips a world group that exists.
Begin(r) ==
    LET kind == Kinds[stage[r]]
        all == Laid[config][kind]
        first == First(RowsFrom(r, all, 1))
    IN
    /\ pc[r] = "idle"
    /\ stage[r] <= Len(Kinds)
    /\ \/ /\ MayBuild(r)
          /\ counter' = [counter EXCEPT ![r][kind] = @ + 1]
          /\ own' = [own EXCEPT ![r] = <<>>]
          /\ lists' = [lists EXCEPT ![r] = all]
          /\ row' = [row EXCEPT ![r] = first]
          /\ pc' = [pc EXCEPT ![r] = "device"]
          /\ Enter(r, NewGroup(all[first], DeviceBackend))
          /\ UNCHANGED stage
       \/ /\ ~MayBuild(r)
          /\ IF kind = "world"
             THEN stage' = [stage EXCEPT ![r] = 2] /\ UNCHANGED pc
             ELSE pc' = [pc EXCEPT ![r] = "raised"] /\ UNCHANGED stage
          /\ UNCHANGED <<counter, own, lists, row, made, call>>
    /\ UNCHANGED <<round, groups>>

DeviceGroupReady(r) ==
    /\ pc[r] = "device"
    /\ Over(r)
    /\ pc' = [pc EXCEPT ![r] = "cpu"]
    /\ Enter(r, NewGroup(lists[r][row[r]], "gloo"))
    /\ UNCHANGED <<round, stage, lists, row, own, groups, counter>>

\* The global is set; _node_count runs after the world group is there, unless the
\* configuration says how many nodes there are.
Built(r, ranks) ==
    LET kind == Kinds[stage[r]]
        new == [name |-> kind, number |-> counter[r][kind] - 1, ranks |-> ranks]
        set == {kind} \cup (IF kind = "world" /\ config.inner /\ config.dp = 1 THEN {"inner"} ELSE {})
    IN
    /\ groups' = [groups EXCEPT ![r] =
                    [k \in GroupKinds |-> IF k \in set THEN new ELSE @[k]]]
    /\ stage' = [stage EXCEPT ![r] = @ + 1]
    /\ IF kind = "world" /\ ~config.many
       THEN /\ pc' = [pc EXCEPT ![r] = "counting"]
            /\ Enter(r, Blocking("node_count", ranks, "gloo"))
       ELSE pc' = [pc EXCEPT ![r] = "idle"] /\ UNCHANGED <<made, call>>

\* Mutant: the ranks of the last list, whether or not this worker is in it.
LastList(r) == lists[r][row[r]]

\* Mutant: each member puts itself first.
OwnFirst(r) ==
    LET list == lists[r][row[r]]
    IN  IF r \in Range(list)
        THEN <<r>> \o SelectSeq(list, LAMBDA p : p # r) ELSE own[r]

\* self.ranks after the loop has looked at this list.
OwnAfter(r) == IF r \in Range(lists[r][row[r]]) THEN lists[r][row[r]] ELSE own[r]

\* The communicator's all-to-all manager asks who is on the same node, once it has the
\* data- and tensor-parallel groups from their globals.
MakeManager(r, ranks) ==
    IF groups[r]["dp"] # None /\ groups[r]["tp"] # None
    THEN /\ pc' = [pc EXCEPT ![r] = "all2all"]
         /\ Enter(r, Blocking("same_node", ranks, "gloo"))
    ELSE pc' = [pc EXCEPT ![r] = "raised"] /\ UNCHANGED <<made, call>>

\* The next list, or the communicator, or the message queue, or the end of the constructor.
CpuGroupReady(r) ==
    LET mine == OwnAfter(r)
        rest == RowsFrom(r, lists[r], row[r] + 1)
    IN
    /\ pc[r] = "cpu"
    /\ Over(r)
    /\ own' = [own EXCEPT ![r] = mine]
    /\ \/ /\ rest # {}
          /\ row' = [row EXCEPT ![r] = First(rest)]
          /\ pc' = [pc EXCEPT ![r] = "device"]
          /\ Enter(r, NewGroup(lists[r][First(rest)], DeviceBackend))
          /\ UNCHANGED <<stage, groups>>
       \/ /\ rest = {} /\ UsesAll2All(Kinds[stage[r]]) /\ Len(mine) > 1
          /\ MakeManager(r, mine)
          /\ UNCHANGED <<stage, row, groups>>
       \/ /\ rest = {} /\ WantsMq(Kinds[stage[r]]) /\ Len(mine) > 1
          /\ pc' = [pc EXCEPT ![r] = "mq"]
          /\ Enter(r, Blocking("mq", mine, "gloo"))
          /\ UNCHANGED <<stage, row, groups>>
       \/ /\ rest = {}
          /\ (WantsMq(Kinds[stage[r]]) \/ UsesAll2All(Kinds[stage[r]])) => Len(mine) = 1
          /\ Built(r, mine)
          /\ UNCHANGED row
    /\ UNCHANGED <<round, lists, counter>>

\* A group with a manager has no message queue.
ManagerReady(r) ==
    /\ pc[r] = "all2all"
    /\ Over(r)
    /\ Built(r, own[r])
    /\ UNCHANGED <<round, lists, row, own, counter>>

MqReady(r) ==
    /\ pc[r] = "mq"
    /\ Over(r)
    /\ Built(r, own[r])
    /\ UNCHANGED <<round, lists, row, own, counter>>

NodesCounted(r) ==
    /\ pc[r] = "counting"
    /\ Over(r)
    /\ pc' = [pc EXCEPT ![r] = "idle"]
    /\ UNCHANGED <<round, stage, lists, row, own, groups, counter, made, call>>

---------------------------------------------------------------------------
(* XPUWorker.init_device, after the groups are there; and the way back.    *)

\* Mutant: the warm-up of oneCCL whatever the flag says.
WarmUpOneCcl == "xccl"

\* The warm-up is on the group of the world.
WarmUpBackend == DeviceBackend

\* A tensor of the host under the flag, and else one of the device, which gloo refuses.
WarmUp(r) ==
    /\ pc[r] = "idle"
    /\ stage[r] = Len(Kinds) + 1
    /\ IF config.staged \/ config.xccl
       THEN /\ pc' = [pc EXCEPT ![r] = "warming"]
            /\ Enter(r, Blocking("all_reduce", Everyone, WarmUpBackend))
       ELSE pc' = [pc EXCEPT ![r] = "raised"] /\ UNCHANGED <<made, call>>
    /\ UNCHANGED <<round, stage, lists, row, own, groups, counter>>

Start(r) ==
    /\ pc[r] = "warming"
    /\ Over(r)
    /\ pc' = [pc EXCEPT ![r] = "started"]
    /\ UNCHANGED <<round, stage, lists, row, own, groups, counter, made, call>>

\* Mutant: the world group is left in place.
SurvivorsWithWorld == {"inner", "world"}

\* destroy_distributed_environment does not mention _INNER_DP_WORLD.
Survivors == {"inner"}

Teardown(r) ==
    /\ pc[r] = "started"
    /\ round[r] < config.restarts
    /\ round' = [round EXCEPT ![r] = @ + 1]
    /\ groups' = [groups EXCEPT ![r] =
                    [kind \in GroupKinds |-> IF kind \in Survivors THEN @[kind] ELSE None]]
    /\ pc' = [pc EXCEPT ![r] = "boot"]
    /\ UNCHANGED <<stage, lists, row, own, counter, made, call>>

Step(r) ==
    /\ WorldOf(config) <= MaxRunning
    /\ UNCHANGED config
    /\ \/ InitProcessGroup(r) \/ ProcessGroupReady(r)
       \/ Begin(r) \/ DeviceGroupReady(r) \/ CpuGroupReady(r)
       \/ ManagerReady(r) \/ MqReady(r)
       \/ NodesCounted(r)
       \/ WarmUp(r) \/ Start(r) \/ Teardown(r)

Finished(r) == pc[r] = "started" /\ round[r] = config.restarts

\* Host staging, or xccl with a handshake that succeeds.
CanServe == config.staged \/ (config.xccl /\ config.peer)

\* The deployment is up for good, cannot come up on its machine, or is a layout that is
\* not run.
Rest ==
    /\ \/ \A r \in Worker : Finished(r)
       \/ ~CanServe
       \/ WorldOf(config) > MaxRunning
    /\ UNCHANGED vars

Next == (\E r \in Worker : Step(r)) \/ Rest

\* Every worker process runs on.
AllWorkers == 0..MaxRunning - 1
Spec ==
    /\ Init /\ [][Next]_vars
    /\ \A r \in AllWorkers : WF_vars(r \in Worker /\ Step(r))

---------------------------------------------------------------------------
(* Correctness.                                                            *)

\* The type invariant; what a worker has found of its group is a list it belongs to.
TypeOK ==
    /\ config \in Configs
    /\ DOMAIN pc = Worker /\ DOMAIN groups = Worker
    /\ \A r \in Worker :
        /\ pc[r] \in {"boot", "joining", "idle", "device", "cpu", "all2all", "mq", "counting",
                      "warming", "started", "raised"}
        /\ stage[r] \in 1..Len(Kinds) + 1
        /\ round[r] \in 0..config.restarts
        /\ own[r] # <<>> => r \in Range(own[r])
        /\ DOMAIN groups[r] = GroupKinds

\* The workers never disagree on which of their blocking calls is the n-th: they create
\* all groups in one order, and the queues and managers of a kind at the same point.
CallsMatch ==
    \A r, p \in Worker :
        made[r] = made[p] /\ made[r] > 0 =>
            IF call[r].name \in OfGroup
            THEN /\ call[p].name = call[r].name
                 /\ p \in Range(call[r].members) => call[p] = call[r]
            ELSE call[p] = call[r]

\* The members of a group agree on who they are, in which order, and on the unique name
\* under which compiled code will look the group up.
MembersAgree ==
    \A r \in Worker : \A kind \in GroupKinds :
        groups[r][kind] # None =>
            \A p \in Range(groups[r][kind].ranks) :
                /\ round[p] = round[r] /\ groups[p][kind] # None
                /\ kind = "inner" => pc[r] = "started" /\ pc[p] = "started"
                => groups[p][kind] = groups[r][kind]

\* A group of a kind holds the ranks that differ in the dimensions of that kind only, and
\* a member's position in it is its coordinate: the transposes and reshapes of
\* initialize_model_parallel cut along the right dimension, in any layout; and where dcp
\* divides tp, the context groups split the tensor-parallel groups.
GroupsAreCoordinates ==
    /\ \A r \in Worker : stage[r] > 1 =>
        LET kind == Kinds[stage[r] - 1]
        IN  groups[r][kind] # None /\ CanSplit(kind, config) =>
                groups[r][kind].ranks = IntendedGroup(kind, config, r)
    /\ WorldOf(config) > MaxRunning =>
        \A kind \in {k \in Range(Kinds) : CanSplit(k, config)} :
            \A list \in Range(Laid[config][kind]) : \A r \in Range(list) :
                list = IntendedGroup(kind, config, r)

\* A worker that serves uses groups of this start, none of an earlier one: names are
\* handed out once per start, and nothing that a teardown has destroyed is found again.
StartedOnFreshGroups ==
    \A r \in Worker : pc[r] = "started" =>
        \A i \in 1..Len(Kinds) : groups[r][Kinds[i]].number = round[r]

\* With host staging every worker gets to serve although xccl's handshake would never
\* end, and without it when there is xccl and the handshake works; and so again after
\* every teardown.
CanStart(r) ==
    CanServe /\ r \in DOMAIN pc /\ MaxRunning \notin DOMAIN pc

EveryoneStarts == \A r \in AllWorkers : CanStart(r) ~> (CanStart(r) /\ Finished(r))
===========================================================================
