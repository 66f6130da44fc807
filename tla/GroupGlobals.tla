---------------------------- MODULE GroupGlobals ----------------------------
(***************************************************************************)
(* The globals of parallel_state in one process: which GroupCoordinator    *)
(* each of them names, through initialisation, reinitialisation, failure   *)
(* in the middle, a draft model's temporary tensor-parallel group, and     *)
(* teardown.                                                               *)
(*                                                                         *)
(* The callers follow the workflow that the module documents: environment  *)
(* first, then the model-parallel groups, and back in the opposite order.  *)
(* Within patch_tensor_parallel_group they run a draft model: they may     *)
(* call any of these functions but those that tear groups down.            *)
(*                                                                         *)
(* What the other ranks do is the subject of WorkerStartup; here           *)
(* the construction of a group either succeeds or raises.  Elastic expert  *)
(* parallelism is left out (its groups are not in this repository).        *)
(***************************************************************************)
EXTENDS Integers, Sequences, SequencesExt, FiniteSets

CONSTANTS
    Deployments,    \* the configurations to look at
    MaxFailures,    \* bound on the number of constructions that raise
    MaxDrafts       \* bound on the number of groups for draft models

VARIABLES
    deployment,     \* chosen at the start
    initialized,    \* torch.distributed.is_initialized()
    active,         \* active[kind]: the group that the global names, or None
    groups,         \* groups[id]: every coordinator whose constructor was entered
    nodeCount,      \* _NODE_COUNT is set
    patched,        \* _TP_STATE_PATCHED
    patch,          \* what the open `with patch_tensor_parallel_group` will restore
    failures,       \* how many constructions have raised
    last            \* the last call, if it was one of Observed, and whether it returned

vars == <<deployment, initialized, active, groups, nodeCount, patched, patch, failures, last>>

None == 0

\* A deployment: a mixture of experts or not, EPLB or not, and the inner world: "none" with
\* nnodes_within_dp = 1; else "shared" with one data-parallel rank, "own" with several.
\* maxGroups bounds the number of groups ever constructed.
ASSUME DeploymentsAssumption ==
    /\ \A d \in Deployments :
        /\ {d.moe, d.eplb} \subseteq BOOLEAN
        /\ d.inner \in {"none", "shared", "own"}
        /\ d.maxGroups \in Nat
    /\ {MaxFailures, MaxDrafts} \subseteq Nat

Kind == {"world", "inner", "tp", "dcp", "pcp", "pp", "dp", "ep", "eplb"}

\* In the order of initialize_model_parallel.
Order ==
    IF ~deployment.moe THEN <<"tp", "dcp", "pcp", "pp", "dp">>
    ELSE IF ~deployment.eplb THEN <<"tp", "dcp", "pcp", "pp", "dp", "ep">>
    ELSE <<"tp", "dcp", "pcp", "pp", "dp", "ep", "eplb">>

\* Mutant: the global that was added last is not torn down.
DestroyOrderBeforeEplb == <<"tp", "dcp", "pcp", "pp", "dp", "ep">>

\* In the order of destroy_model_parallel.
DestroyOrder == <<"tp", "dcp", "pcp", "pp", "dp", "ep", "eplb">>

Destroyed == Range(DestroyOrder)

Id == 1..Len(groups)

State(id) == groups[id].state

Live(id) == id \in Id /\ State(id) = "live"

\* The assert of the getters (get_tp_group and the like) lets through.
Got(kind) == active[kind] # None

\* The lookup of a custom operator: the table of names refers to a group weakly, so that a
\* name answers as long as a global, or the way out of a patch, refers to its group.
Answers(id) == id \in Range(active) \cup {patch.old}

\* The calls that promise their caller more than they do.
Observed == {"ensure", "cleanup"}

Nothing == [op |-> "none", ok |-> TRUE]

Outcome(op, ok) == last' = IF op \in Observed THEN [op |-> op, ok |-> ok] ELSE Nothing

Init ==
    /\ deployment \in Deployments
    /\ initialized = FALSE
    /\ active = [kind \in Kind |-> None]
    /\ groups = <<>>
    /\ nodeCount = FALSE
    /\ patched = FALSE
    /\ patch = [open |-> FALSE, old |-> None]
    /\ failures = 0
    /\ last = Nothing

---------------------------------------------------------------------------
(* GroupCoordinator.__init__: the name is taken before anything can raise. *)

\* Mutant: numbered by the groups of that name that are still there.
NumberOfLiving(name) == Cardinality({i \in Id : groups[i].name = name /\ Live(i)})

\* _group_name_counter
Number(name) == Cardinality({i \in Id : groups[i].name = name})

New(name, ok) ==
    [name |-> name, number |-> Number(name), state |-> IF ok THEN "live" ELSE "failed"]

Constructed(names, ok) ==
    groups \o [i \in DOMAIN names |-> New(names[i], i < Len(names) \/ ok)]

\* Within the bounds.
MayConstruct(n, ok) ==
    /\ Len(groups) + n <= deployment.maxGroups
    /\ failures' = IF ok THEN failures ELSE failures + 1
    /\ failures' <= MaxFailures

---------------------------------------------------------------------------
(* init_distributed_environment.  `fails`: the step that raises, if any.    *)

\* The steps there are: a world group that exists is left as it is, an engine that spans
\* nodes has their number in its configuration.
Steps ==
    (IF active["world"] = None THEN {"world"} ELSE {})
    \cup (IF active["world"] = None /\ deployment.inner = "none" THEN {"count"} ELSE {})
    \cup (IF deployment.inner = "own" THEN {"inner"} ELSE {})

InitEnvironment(fails) ==
    LET ok == fails = "none"
        world == IF active["world"] = None THEN Len(groups) + 1 ELSE active["world"]
        names == SubSeq(<<"world", "inner">>,
                        IF active["world"] = None THEN 1 ELSE 2,
                        IF deployment.inner = "own" /\ fails # "world" THEN 2 ELSE 1)
    IN
    /\ fails \in Steps \cup {"none"}
    /\ MayConstruct(Len(names), ok)
    /\ initialized' = TRUE
    /\ groups' = Constructed(names, fails \notin {"world", "inner"})
    /\ nodeCount' = (nodeCount \/ (active["world"] = None /\ fails \notin {"world", "count"}))
    /\ active' = [active EXCEPT
                    !["world"] = IF fails = "world" THEN @ ELSE world,
                    !["inner"] = IF ok /\ deployment.inner = "shared" THEN world
                                 ELSE IF ok /\ deployment.inner = "own" THEN Len(groups) + Len(names)
                                 ELSE @]
    /\ Outcome("init_environment", ok)
    /\ UNCHANGED <<patched, patch>>

---------------------------------------------------------------------------
(* initialize_model_parallel, ensure_model_parallel_initialized.           *)

\* Mutant: groups that are there are replaced.
NeverBlocked == Len(Order) + 1

\* The first global in the way of its assert, or one past the last.
Blocked ==
    LET taken == {i \in DOMAIN Order : active[Order[i]] # None}
    IN  IF taken = {} THEN Len(Order) + 1 ELSE CHOOSE i \in taken : \A j \in taken : i <= j

\* Groups up to `stop` are built and named by their globals; that one raises, unless
\* stop is past the end.
Build(op, stop) ==
    LET ok == stop = Len(Order) + 1
        constructs == IF stop < Blocked THEN stop ELSE stop - 1
    IN
    /\ stop \in 1..Blocked
    /\ MayConstruct(constructs, stop = Blocked)
    /\ groups' = Constructed(SubSeq(Order, 1, constructs), stop = Blocked)
    /\ active' = [kind \in Kind |->
                    IF \E i \in 1..stop - 1 : Order[i] = kind
                    THEN Len(groups) + (CHOOSE i \in 1..stop - 1 : Order[i] = kind)
                    ELSE active[kind]]
    /\ Outcome(op, ok)

InitializeModelParallel(op) ==
    /\ IF initialized /\ Got("world")
       THEN \E stop \in 1..Len(Order) + 1 : Build(op, stop)
       ELSE Outcome(op, FALSE) /\ UNCHANGED <<active, groups, failures>>
    /\ UNCHANGED <<initialized, nodeCount, patched, patch>>

ModelParallelIsInitialized == active["tp"] # None /\ active["pp"] # None

\* Mutant: the size of the tensor-parallel group is not compared.
AnySize == Got("pcp")

\* What is there has the sizes that are asked for; a draft model has a degree of its own.
SizesMatch == Got("pcp") /\ groups[active["tp"]].name = "tp"

EnsureModelParallel ==
    \/ /\ Got("world") /\ ~ModelParallelIsInitialized
       /\ InitializeModelParallel("ensure")
    \/ /\ Got("world") => ModelParallelIsInitialized
       /\ Outcome("ensure", Got("world") /\ SizesMatch)
       /\ UNCHANGED <<initialized, active, groups, nodeCount, patched, patch, failures>>

---------------------------------------------------------------------------
(* patch_tensor_parallel_group.                                            *)

\* init_model_parallel_group, called for a draft model.
MakeDraft(ok) ==
    /\ initialized
    /\ Number("draft") < MaxDrafts
    /\ MayConstruct(1, ok)
    /\ groups' = Constructed(<<"draft">>, ok)
    /\ Outcome("draft", ok)
    /\ UNCHANGED <<initialized, active, nodeCount, patched, patch>>

\* Mutant: the old group is taken without get_tp_group's assert.
EnterPatchUnchecked(draft) ==
    /\ Live(draft) /\ groups[draft].name = "draft" /\ ~patched
    /\ patched' = TRUE
    /\ patch' = [open |-> TRUE, old |-> active["tp"]]
    /\ active' = [active EXCEPT !["tp"] = draft]
    /\ Outcome("enter", TRUE)
    /\ UNCHANGED <<initialized, groups, nodeCount, failures>>

\* The flag is set before get_tp_group may raise, and outside the try.
EnterPatch(draft) ==
    LET ok == ~patched /\ Got("tp") IN
    /\ Live(draft) /\ groups[draft].name = "draft"
    /\ patched' = TRUE
    /\ IF ok
       THEN /\ patch' = [open |-> TRUE, old |-> active["tp"]]
            /\ active' = [active EXCEPT !["tp"] = draft]
       ELSE UNCHANGED <<patch, active>>
    /\ Outcome("enter", ok)
    /\ UNCHANGED <<initialized, groups, nodeCount, failures>>

\* The body is over, by an exception or not.
LeavePatch ==
    /\ patch.open
    /\ patched' = FALSE
    /\ active' = [active EXCEPT !["tp"] = patch.old]
    /\ patch' = [open |-> FALSE, old |-> None]
    /\ Outcome("leave", TRUE)
    /\ UNCHANGED <<initialized, groups, nodeCount, failures>>

---------------------------------------------------------------------------
(* Teardown.                                                               *)

\* GroupCoordinator.destroy raises for a group that went down with the library.
FirstGone ==
    LET gone == {i \in DOMAIN DestroyOrder :
                    active[DestroyOrder[i]] # None /\ State(active[DestroyOrder[i]]) = "gone"}
    IN  IF gone = {} THEN Len(DestroyOrder) + 1 ELSE CHOOSE i \in gone : \A j \in gone : i <= j

\* destroy_model_parallel if `model`, then destroy_distributed_environment if
\* `environment`: _WORLD.destroy() and destroy_process_group(), which takes every process
\* group with it.
TearDown(op, model, environment) ==
    LET down == {DestroyOrder[i] : i \in 1..(IF model THEN FirstGone - 1 ELSE 0)}
        ok == model => FirstGone > Len(DestroyOrder)
        env == environment /\ ok
        kinds == down \cup (IF env THEN {"world"} ELSE {})
        destroyed == {active[kind] : kind \in kinds}
    IN
    /\ ~patch.open
    /\ groups' = [i \in Id |->
                    IF ~Live(i) THEN groups[i]
                    ELSE IF i \in destroyed THEN [groups[i] EXCEPT !.state = "destroyed"]
                    ELSE IF env /\ initialized THEN [groups[i] EXCEPT !.state = "gone"]
                    ELSE groups[i]]
    /\ active' = [kind \in Kind |-> IF kind \in kinds THEN None ELSE active[kind]]
    /\ nodeCount' = (nodeCount /\ ~env)
    /\ initialized' = (initialized /\ ~env)
    /\ Outcome(op, ok)
    /\ UNCHANGED <<patched, patch, failures>>

DestroyModelParallel == TearDown("destroy_model_parallel", TRUE, FALSE)

DestroyEnvironment ==
    /\ \A kind \in Destroyed : active[kind] = None
    /\ TearDown("destroy_environment", FALSE, TRUE)

\* Mutant: the model-parallel groups are forgotten.
CleanupOfEnvironment == TearDown("cleanup", FALSE, TRUE)

Cleanup == TearDown("cleanup", TRUE, TRUE)

---------------------------------------------------------------------------
Step ==
    \/ \E fails \in {"none", "world", "count", "inner"} : InitEnvironment(fails)
    \/ InitializeModelParallel("initialize")
    \/ EnsureModelParallel
    \/ \E ok \in BOOLEAN : MakeDraft(ok)
    \/ \E draft \in Id : EnterPatch(draft)
    \/ LeavePatch
    \/ DestroyModelParallel
    \/ DestroyEnvironment
    \/ Cleanup

Next == Step /\ UNCHANGED deployment

Spec == Init /\ [][Next]_vars

---------------------------------------------------------------------------
(* Correctness.                                                            *)

\* The type invariant; the group that leaving a patch restores is a group.
TypeOK ==
    /\ {initialized, nodeCount, patched, patch.open, last.ok} \subseteq BOOLEAN
    /\ active \in [Kind -> Id \cup {None}]
    /\ \A i \in Id : State(i) \in {"live", "destroyed", "gone", "failed"}
    /\ patch.open <=> patch.old \in Id
    /\ failures \in 0..MaxFailures

\* A name is given to one group only, dead or alive: compiled code that carries a name
\* in its graph reaches the group it was traced with or none (_get_unique_name,
\* _register_group and the custom operators).
NamesAreUnique ==
    \A i, j \in Id :
        groups[i].name = groups[j].name /\ groups[i].number = groups[j].number => i = j

\* Every global but _INNER_DP_WORLD names a group that can be used, also the group that a
\* patch will put back, whatever was built, failed, patched and torn down before.
GlobalsAreLive ==
    /\ \A kind \in Kind \ {"inner"} : active[kind] # None => Live(active[kind])
    /\ patch.open => Live(patch.old)

\* A custom operator finds its group by name if and only if the group can be used, unless
\* somebody holds on to the object: no call forgets a group of the model that is not torn
\* down, and none keeps one that is (the weak references behind all_reduce, all_gather
\* and reduce_scatter).
LookupFindsTheLiving ==
    \A id \in Id : groups[id].name \in Destroyed => (Answers(id) <=> Live(id))

\* When ensure_model_parallel_initialized returns, the groups that it looked at are there
\* and are the target model's; and all groups are, unless a construction has raised
\* before: then those behind the pipeline group may be missing for good.
EnsuredIsWhole ==
    last = [op |-> "ensure", ok |-> TRUE] =>
        /\ \A kind \in {"tp", "dcp", "pcp", "pp"} :
            Live(active[kind]) /\ groups[active[kind]].name = kind
        /\ failures = 0 => \A i \in DOMAIN Order : active[Order[i]] # None

\* After cleanup_dist_env_and_memory nothing is left of the process's groups, and nothing
\* stands in the way of the asserts of the next initialisation; it never stops half-way.
CleanupIsComplete ==
    last.op = "cleanup" =>
        /\ last.ok /\ ~nodeCount
        /\ \A id \in Id : ~Live(id)
        /\ \A kind \in Kind \ {"inner"} : active[kind] = None

\* What get_inner_dp_world_group hands out has not been destroyed: its assert says that
\* the group is initialized.
InnerWorldIsLive == active["inner"] # None => Live(active["inner"])

\* The assert of patch_tensor_parallel_group stops a caller only when it is patched.
PatchedOnlyInside == patched => patch.open
=============================================================================
