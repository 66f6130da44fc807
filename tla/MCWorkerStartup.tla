-------------------------- MODULE MCWorkerStartup --------------------------
(***************************************************************************)
(* Configurations of WorkerStartup for TLC.                                *)
(***************************************************************************)
EXTENDS WorkerStartup

Layout(ext, dp, pp, pcp, tp, dcp) ==
    [ext |-> ext, dp |-> dp, pp |-> pp, pcp |-> pcp, tp |-> tp, dcp |-> dcp]

\* All ways to use n ranks.
Layouts(n) ==
    {c \in [{"ext", "dp", "pp", "pcp", "tp", "dcp"} -> {d \in 1..n : n % d = 0}] :
        WorldOf(c) = n /\ c.tp % c.dcp = 0}

Deployment(layout, moe, staged, peer, restarts) ==
    [ext |-> layout.ext, dp |-> layout.dp, pp |-> layout.pp, pcp |-> layout.pcp,
     tp |-> layout.tp, dcp |-> layout.dcp, moe |-> moe, eplb |-> moe,
     many |-> FALSE, inner |-> FALSE,
     staged |-> staged, xccl |-> TRUE, peer |-> peer, restarts |-> restarts]

\* The pair of cards, with and without the flag and a working handshake, started twice,
\* and with a torch that has no xccl.
Pairs ==
    {Deployment(Layout(1, 1, 1, 1, 2, 1), moe, staged, peer, 1) : moe, staged, peer \in BOOLEAN}
    \cup {[Deployment(Layout(1, 1, 1, 1, 2, 1), FALSE, staged, TRUE, 0) EXCEPT !.xccl = FALSE] :
            staged \in BOOLEAN}

\* Several nodes, which one engine spans or not.
ManyNodes(deployment, inner) == [deployment EXCEPT !.many = TRUE, !.inner = inner]

\* Engines that span nodes or have one each; four ranks in two dimensions.
Fours ==
    {ManyNodes(Deployment(Layout(1, 1, 2, 1, 2, 2), FALSE, TRUE, FALSE, 1), TRUE),
     ManyNodes(Deployment(Layout(1, 2, 1, 1, 2, 1), TRUE, TRUE, FALSE, 1), TRUE),
     ManyNodes(Deployment(Layout(1, 2, 1, 1, 1, 1), TRUE, TRUE, FALSE, 1), FALSE),
     Deployment(Layout(2, 1, 1, 2, 1, 1), TRUE, TRUE, FALSE, 0)}

\* Every layout of eight and of twelve ranks: laid out, not run.
Large == {Deployment(layout, TRUE, TRUE, FALSE, 0) : layout \in Layouts(8) \cup Layouts(12)}

SomeConfigs == Pairs \cup Fours \cup Large
===========================================================================
