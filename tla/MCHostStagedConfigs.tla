------------------------ MODULE MCHostStagedConfigs ------------------------
(***************************************************************************)
(* HostStaged in the configurations other than the pair of cards with host *)
(* staging (MCHostStaged), in one run: `which` is the configuration of the *)
(* group, chosen once at the start.                                        *)
(*                                                                         *)
(*   "xccl"    the pair without host staging, over a working xccl          *)
(*   "refuse"  every other rank, a message queue, calls that are refused   *)
(*   "triple"  three members, uneven shares, a root in the middle          *)
(*   "world"   a group without a device communicator, as the world group   *)
(*   "single"  a group of one                                              *)
(***************************************************************************)
EXTENDS TensorData

VARIABLES which, plan, given, got, posted, calls, pc

vars == <<which, plan, given, got, posted, calls, pc>>

\* A call with the lengths of the members' arguments, and one with a length for all.
Unlike(op, dtype, lens, root, sizes) ==
    [op |-> op, dtype |-> dtype, lens |-> lens, root |-> root, sizes |-> sizes]

Req(op, dtype, len, root, sizes) == Unlike(op, dtype, <<len, len, len>>, root, sizes)

Plain(op, dtype, len) == Req(op, dtype, len, 0, <<>>)

\* Every operation once, among them the coordinator's broadcast, which xccl takes.
XcclRequests ==
    {Plain("all_reduce", "half", 2), Plain("reduce_scatter", "half", 2),
     Req("reduce_scatterv", "half", 3, 0, <<1, 2>>), Plain("all_gather", "half", 1),
     Unlike("all_gatherv", "half", <<1, 2>>, 0, <<1, 2>>), Plain("all_gatherv", "half", 1),
     Req("gather", "int", 1, 1, <<>>), Req("broadcast", "half", 1, 1, <<>>),
     Req("comm_broadcast", "half", 1, 1, <<>>), Plain("broadcast_object", "int", 1),
     Req("broadcast_object_list", "int", 1, 1, <<>>), Plain("barrier", "int", 0)}

\* Calls that an assertion, the message queue or gloo refuses, and some they take.  Here
\* gloo takes no lists of unlike tensors, so uneven shares are refused as well.
RefusableRequests ==
    {Req("broadcast", "half", 1, 0, <<>>), Plain("all_gatherv", "half", 1),
     Req("broadcast_object", "int", 1, 1, <<>>), Req("broadcast_object", "int", 1, 2, <<>>),
     Req("broadcast_object_list", "int", 1, 2, <<>>), Req("broadcast", "half", 1, 2, <<>>),
     Req("comm_broadcast", "half", 1, 1, <<>>),
     Req("reduce_scatter", "half", 3, 0, <<>>), Req("reduce_scatterv", "half", 4, 0, <<1, 2>>),
     Req("reduce_scatterv", "half", 3, 0, <<1, 1, 1>>), Req("reduce_scatterv", "half", 3, 0, <<1, 2>>),
     Unlike("all_gatherv", "half", <<1, 2>>, 0, <<1, 2>>),
     Unlike("all_gatherv", "half", <<1, 2>>, 0, <<1, 2, 1>>),
     Plain("all_reduce", "half", 2), Plain("barrier", "int", 0)}

\* Uneven shares, and a call that two of the three members get into.
TripleRequests ==
    {Req("reduce_scatterv", "half", 4, 0, <<1, 2, 1>>),
     Unlike("all_gatherv", "half", <<2, 1, 1>>, 0, <<2, 1, 1>>),
     Unlike("all_gatherv", "half", <<2, 2, 1>>, 0, <<2, 1, 1>>),
     Req("gather", "half", 1, 1, <<>>)}

\* Without a communicator some of these are served and the rest are refused.
BareRequests ==
    {Plain("all_reduce", "half", 2), Plain("all_gather", "half", 1),
     Plain("all_gatherv", "half", 1), Plain("reduce_scatter", "half", 2),
     Plain("reduce_scatterv", "half", 2), Plain("gather", "half", 1),
     Plain("comm_broadcast", "half", 1), Plain("broadcast", "half", 1),
     Plain("broadcast_object", "int", 1), Plain("broadcast_object_list", "int", 1),
     Plain("barrier", "int", 0)}

\* What a group of one serves by handing the argument back.
SingleRequests ==
    {req \in BareRequests : req.op \notin {"all_gatherv", "reduce_scatterv", "comm_broadcast"}}

Inputs == {3, 4}

Xccl == INSTANCE HostStaged WITH
    Ranks <- <<0, 1>>, HostStagedTP <- FALSE, PeerPath <- TRUE, GlooTakesUneven <- TRUE,
    UseDeviceCommunicator <- TRUE, UseMq <- TRUE,
    Requests <- XcclRequests, Values <- Inputs, MaxCalls <- 1

Refuse == INSTANCE HostStaged WITH
    Ranks <- <<0, 2>>, HostStagedTP <- TRUE, PeerPath <- FALSE, GlooTakesUneven <- FALSE,
    UseDeviceCommunicator <- TRUE, UseMq <- TRUE,
    Requests <- RefusableRequests, Values <- Inputs, MaxCalls <- 2

Triple == INSTANCE HostStaged WITH
    Ranks <- <<0, 1, 2>>, HostStagedTP <- TRUE, PeerPath <- FALSE, GlooTakesUneven <- TRUE,
    UseDeviceCommunicator <- TRUE, UseMq <- FALSE,
    Requests <- TripleRequests, Values <- Inputs, MaxCalls <- 2

World == INSTANCE HostStaged WITH
    Ranks <- <<0, 1>>, HostStagedTP <- TRUE, PeerPath <- FALSE, GlooTakesUneven <- TRUE,
    UseDeviceCommunicator <- FALSE, UseMq <- FALSE,
    Requests <- BareRequests, Values <- Inputs, MaxCalls <- 1

Single == INSTANCE HostStaged WITH
    Ranks <- <<0>>, HostStagedTP <- TRUE, PeerPath <- FALSE, GlooTakesUneven <- TRUE,
    UseDeviceCommunicator <- TRUE, UseMq <- TRUE,
    Requests <- SingleRequests, Values <- Inputs, MaxCalls <- 2

Init ==
    \/ which = "xccl" /\ Xccl!Init
    \/ which = "refuse" /\ Refuse!Init
    \/ which = "triple" /\ Triple!Init
    \/ which = "world" /\ World!Init
    \/ which = "single" /\ Single!Init

Next ==
    /\ UNCHANGED which
    /\ \/ which = "xccl" /\ Xccl!Next
       \/ which = "refuse" /\ Refuse!Next
       \/ which = "triple" /\ Triple!Next
       \/ which = "world" /\ World!Next
       \/ which = "single" /\ Single!Next

---------------------------------------------------------------------------
\* The fairness of HostStaged, for the configuration that runs.
Join(m) ==
    \/ which = "xccl" /\ m \in Xccl!Member /\ Xccl!Join(m)
    \/ which = "refuse" /\ m \in Refuse!Member /\ Refuse!Join(m)
    \/ which = "triple" /\ m \in Triple!Member /\ Triple!Join(m)
    \/ which = "world" /\ m \in World!Member /\ World!Join(m)
    \/ which = "single" /\ m \in Single!Member /\ Single!Join(m)

Return(m) ==
    \/ which = "xccl" /\ m \in Xccl!Member /\ Xccl!Return(m)
    \/ which = "refuse" /\ m \in Refuse!Member /\ Refuse!Return(m)
    \/ which = "triple" /\ m \in Triple!Member /\ Triple!Return(m)
    \/ which = "world" /\ m \in World!Member /\ World!Return(m)
    \/ which = "single" /\ m \in Single!Member /\ Single!Return(m)

EveryoneHere(m) == m \in DOMAIN calls /\ \A n \in DOMAIN calls : calls[n] >= calls[m]

Spec ==
    /\ Init /\ [][Next]_vars
    /\ \A m \in 0..2 :
        /\ WF_vars(Join(m) /\ UNCHANGED which)
        /\ WF_vars(EveryoneHere(m) /\ Return(m) /\ UNCHANGED which)

---------------------------------------------------------------------------
\* In every configuration each step is a step of the abstract collective of that group
\* or leaves the abstract variables alone: with and without host staging, with and
\* without a communicator, the operations of XpuCommunicator and GroupCoordinator return
\* what the collective means or raise.
ImplementsCollective ==
    [][CASE which = "xccl" -> Xccl!Abstract!Next
         [] which = "refuse" -> Refuse!Abstract!Next
         [] which = "triple" -> Triple!Abstract!Next
         [] which = "world" -> World!Abstract!Next
         [] which = "single" -> Single!Abstract!Next]_<<plan, given, got>>

\* Where one member's assertion or backend throws a call out, nobody gets an answer, and
\* nobody waits in the collective for the one that is dead, except in a lopsided call:
\* in every configuration only the asserts on a member's own length can strand its peers.
RefusedByAll ==
    CASE which = "xccl" -> Xccl!RefusedByAll
      [] which = "refuse" -> Refuse!RefusedByAll
      [] which = "triple" -> Triple!RefusedByAll
      [] which = "world" -> World!RefusedByAll
      [] which = "single" -> Single!RefusedByAll

\* Member m is in slot k of a configuration that serves every call whose arguments fit on
\* all members, in such a call.
Entered(k, m) == k \in DOMAIN given /\ m \in DOMAIN given[k] /\ given[k][m] # Pending

Served(k, m) ==
    /\ which \in {"xccl", "triple", "single"}
    /\ Entered(k, m)
    /\ which = "triple" => ~Triple!Lopsided(plan[k])

\* Such a call returns, with the device-to-device path of xccl or, under host staging,
\* without it, if gloo takes the lists it is handed.
ServedCallsReturn ==
    \A k \in 1..2, m \in 0..2 : Served(k, m) ~> (Entered(k, m) /\ got[k][m] # Pending)
===========================================================================
