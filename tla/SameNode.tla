----------------------------- MODULE SameNode -----------------------------
(***************************************************************************)
(* How the ranks of a process group find out how many nodes they run on:   *)
(* _node_count, which asks in_the_same_node_as once per node, which in     *)
(* turn has a source rank create a shared-memory segment, broadcast its    *)
(* name, and lets every other rank try to open it.                         *)
(*                                                                         *)
(* Each rank runs the same loop on its own.  The calls it makes on the     *)
(* group are kept in a log, because the library pairs the k-th call of one *)
(* rank with the k-th call of every other: a call is over only when the    *)
(* peers' calls of the same number are the same call.                      *)
(*                                                                         *)
(* Shared memory may fail (ShmFaults): no segment can be created           *)
(* ("create": the file system of /dev/shm is full), or an existing one     *)
(* cannot be mapped ("open").  Both are OSErrors, which the code           *)
(* suppresses.  Where the ranks run and which kind of group they form is   *)
(* chosen at the start; `failed` remembers what has gone wrong so far.     *)
(***************************************************************************)
EXTENDS Integers, Sequences, FiniteSets, FiniteSetsExt

CONSTANTS
    WorldSize,      \* number of ranks of the group
    Placements,     \* the ways in which the ranks may be spread over nodes
    ShmFaults       \* which shared-memory operations may fail

Rank == 0..WorldSize - 1

ASSUME WorldSizeAssumption == WorldSize \in Nat /\ WorldSize >= 1

ASSUME PlacementsAssumption == \A place \in Placements : DOMAIN place = Rank

ASSUME FaultsAssumption == ShmFaults \subseteq {"create", "open"}

VARIABLES
    nodeOf,         \* nodeOf[r]: the node rank r really runs on
    stateless,      \* a StatelessProcessGroup: N broadcasts instead of an all-reduce
    failed,         \* the shared-memory operations that have failed
    pc,             \* pc[r]: where rank r is
    cur,            \* cur[r]: current_rank, the source of the round
    assigned,       \* assigned[r]: node_assignment
    nextId,         \* nextId[r]: next_node_id
    flag,           \* flag[r]: is_in_the_same_node[rank]
    total,          \* total[r]: aggregated_data
    log,            \* log[r]: the calls rank r has made on the group
    seg             \* seg[s]: the segment of source s: "none", "linked", "unlinked"

loop == <<cur, assigned, nextId, total>>
world == <<nodeOf, stateless>>
vars == <<nodeOf, stateless, failed, pc, cur, assigned, nextId, flag, total, log, seg>>

Vector(x) == [r \in Rank |-> x]

Init ==
    /\ nodeOf \in Placements
    /\ stateless \in BOOLEAN
    /\ failed = {}
    /\ pc = Vector(IF WorldSize = 1 THEN "done" ELSE "scan")
    /\ cur = Vector(0)
    /\ assigned = Vector(Vector(0))
    /\ nextId = Vector(IF WorldSize = 1 THEN 1 ELSE 0)
    /\ flag = Vector(0)
    /\ total = Vector(Vector(0))
    /\ log = Vector(<<>>)
    /\ seg = Vector("none")

---------------------------------------------------------------------------
(* Calls on the group.                                                     *)

Broadcast(src) == [kind |-> "broadcast", src |-> src, value |-> 0]
Barrier == [kind |-> "barrier", src |-> 0, value |-> 0]
AllReduce(value) == [kind |-> "all_reduce", src |-> 0, value |-> value]
Aggregate(src, value) == [kind |-> "aggregate", src |-> src, value |-> value]

Make(r, call) == log' = [log EXCEPT ![r] = Append(@, call)]

\* Rank p has made the call that rank r waits in, as its call of the same number.
Joined(r, p) ==
    LET k == Len(log[r]) IN
    /\ Len(log[p]) >= k
    /\ log[p][k].kind = log[r][k].kind
    /\ log[p][k].src = log[r][k].src

Here(r) == log[r][Len(log[r])]

\* A broadcast waits for its source, anything else for everybody.
Over(r) ==
    IF Here(r).kind \in {"broadcast", "aggregate"}
    THEN Joined(r, Here(r).src)
    ELSE \A p \in Rank : Joined(r, p)

\* What rank p put into the call that rank r waits in.
ValueOf(r, p) == log[p][Len(log[r])].value

---------------------------------------------------------------------------
(* _node_count: the next rank that is not on a known node.                 *)

\* Mutant: the loop visits ranks whose node is known already.
UnassignedOrNot(r) == {c \in Rank : c >= cur[r]}

Unassigned(r) == {c \in Rank : c >= cur[r] /\ assigned[r][c] = 0}

\* The loop ends: the count is next_node_id.
Finish(r) ==
    /\ pc[r] = "scan"
    /\ Unassigned(r) = {}
    /\ pc' = [pc EXCEPT ![r] = "done"]
    /\ UNCHANGED <<loop, flag, log, seg, failed>>

\* Mutant: the sums of the last round are not cleared.
BeginKeepsTotal(r) ==
    LET s == Min(Unassigned(r)) IN
    /\ pc[r] = "scan"
    /\ Unassigned(r) # {}
    /\ cur' = [cur EXCEPT ![r] = s]
    /\ nextId' = [nextId EXCEPT ![r] = @ + 1]
    /\ assigned' = [assigned EXCEPT ![r][s] = nextId[r] + 1]
    /\ flag' = [flag EXCEPT ![r] = 0]
    /\ IF s = r
       THEN pc' = [pc EXCEPT ![r] = "create"] /\ UNCHANGED log
       ELSE pc' = [pc EXCEPT ![r] = "recv"] /\ Make(r, Broadcast(s))
    /\ UNCHANGED <<seg, total, failed>>

\* A new node, and the call of in_the_same_node_as that looks for its other ranks.
\* Everybody but the source goes straight into the broadcast of the name.
Begin(r) ==
    LET s == Min(Unassigned(r)) IN
    /\ pc[r] = "scan"
    /\ Unassigned(r) # {}
    /\ cur' = [cur EXCEPT ![r] = s]
    /\ nextId' = [nextId EXCEPT ![r] = @ + 1]
    /\ assigned' = [assigned EXCEPT ![r][s] = nextId[r] + 1]
    /\ flag' = [flag EXCEPT ![r] = 0]
    /\ total' = [total EXCEPT ![r] = Vector(0)]
    /\ IF s = r
       THEN pc' = [pc EXCEPT ![r] = "create"] /\ UNCHANGED log
       ELSE pc' = [pc EXCEPT ![r] = "recv"] /\ Make(r, Broadcast(s))
    /\ UNCHANGED <<seg, failed>>

---------------------------------------------------------------------------
(* in_the_same_node_as.                                                    *)

\* The source creates the segment, writes the message and broadcasts the name.
Create(r) ==
    /\ pc[r] = "create"
    /\ seg' = [seg EXCEPT ![r] = "linked"]
    /\ Make(r, Broadcast(r))
    /\ pc' = [pc EXCEPT ![r] = "sent"]
    /\ UNCHANGED <<loop, flag, failed>>

\* No segment: the OSError is suppressed, the broadcast skipped.
CreateFails(r) ==
    /\ pc[r] = "create"
    /\ "create" \in ShmFaults
    /\ failed' = failed \cup {"create"}
    /\ Make(r, Barrier)
    /\ pc' = [pc EXCEPT ![r] = "barrier"]
    /\ UNCHANGED <<loop, flag, seg>>

\* Mutant: the source unlinks the segment as soon as it has sent the name.
SentAndUnlinked(r) ==
    /\ pc[r] = "sent"
    /\ Over(r)
    /\ flag' = [flag EXCEPT ![r] = 1]
    /\ seg' = [seg EXCEPT ![r] = "unlinked"]
    /\ Make(r, Barrier)
    /\ pc' = [pc EXCEPT ![r] = "barrier"]
    /\ UNCHANGED <<loop, failed>>

\* The name is out: the source is on its own node, and unmaps the segment.
Sent(r) ==
    /\ pc[r] = "sent"
    /\ Over(r)
    /\ flag' = [flag EXCEPT ![r] = 1]
    /\ Make(r, Barrier)
    /\ pc' = [pc EXCEPT ![r] = "barrier"]
    /\ UNCHANGED <<loop, seg, failed>>

Receive(r) ==
    /\ pc[r] = "recv"
    /\ Over(r)
    /\ pc' = [pc EXCEPT ![r] = "open"]
    /\ UNCHANGED <<loop, flag, log, seg, failed>>

\* The name is that of a segment of this node that still has a name.
Visible(r) == nodeOf[r] = nodeOf[cur[r]] /\ seg[cur[r]] = "linked"

\* Mutant: the flag is set before the segment is opened.
OpenClaims(r) ==
    /\ pc[r] = "open"
    /\ flag' = [flag EXCEPT ![r] = 1]
    /\ Make(r, Barrier)
    /\ pc' = [pc EXCEPT ![r] = "barrier"]
    /\ UNCHANGED <<loop, seg, failed>>

\* Mutant: a rank that cannot open the segment does not wait at the barrier.
OpenOrSkip(r) ==
    /\ pc[r] = "open"
    /\ flag' = [flag EXCEPT ![r] = IF Visible(r) THEN 1 ELSE 0]
    /\ IF Visible(r)
       THEN Make(r, Barrier) /\ pc' = [pc EXCEPT ![r] = "barrier"]
       ELSE /\ Make(r, IF stateless THEN Aggregate(0, 0) ELSE AllReduce(0))
            /\ pc' = [pc EXCEPT ![r] = "reduce"]
    /\ UNCHANGED <<loop, seg, failed>>

\* Opening and unmapping the segment; a missing one is a suppressed OSError.
Open(r) ==
    /\ pc[r] = "open"
    /\ \/ flag' = [flag EXCEPT ![r] = IF Visible(r) THEN 1 ELSE 0] /\ UNCHANGED failed
       \/ /\ Visible(r) /\ "open" \in ShmFaults
          /\ failed' = failed \cup {"open"}
          /\ UNCHANGED flag
    /\ Make(r, Barrier)
    /\ pc' = [pc EXCEPT ![r] = "barrier"]
    /\ UNCHANGED <<loop, seg>>

\* Mutant: the name is never removed.
LeaveBarrierOnly(r) ==
    /\ pc[r] = "barrier"
    /\ Over(r)
    /\ Make(r, IF stateless THEN Aggregate(0, flag[r]) ELSE AllReduce(flag[r]))
    /\ pc' = [pc EXCEPT ![r] = "reduce"]
    /\ UNCHANGED <<loop, flag, seg, failed>>

\* Everybody has tried: the source removes the name, and the flags are added up.
LeaveBarrier(r) ==
    /\ pc[r] = "barrier"
    /\ Over(r)
    /\ seg' = IF cur[r] = r /\ seg[r] = "linked"
              THEN [seg EXCEPT ![r] = "unlinked"] ELSE seg
    /\ Make(r, IF stateless
               THEN Aggregate(0, flag[r])
               ELSE AllReduce(flag[r]))
    /\ pc' = [pc EXCEPT ![r] = "reduce"]
    /\ UNCHANGED <<loop, flag, failed>>

\* Mutant: a rank goes by its own flag where it has one, not by the sum.
AssignOwn(r, sums) ==
    /\ assigned' = [assigned EXCEPT ![r] =
                        [q \in Rank |-> IF q = r /\ flag[r] = 1 /\ assigned[r][q] = 0
                                        THEN nextId[r] ELSE assigned[r][q]]]
    /\ cur' = [cur EXCEPT ![r] = @ + 1]
    /\ total' = [total EXCEPT ![r] = sums]
    /\ pc' = [pc EXCEPT ![r] = "scan"]
    /\ UNCHANGED <<nextId, flag, seg, failed>>

\* The ranks of the round's node get its number.
Assign(r, sums) ==
    /\ assigned' = [assigned EXCEPT ![r] =
                        [q \in Rank |-> IF sums[q] = 1 /\ assigned[r][q] = 0
                                        THEN nextId[r] ELSE assigned[r][q]]]
    /\ cur' = [cur EXCEPT ![r] = @ + 1]
    /\ total' = [total EXCEPT ![r] = sums]
    /\ pc' = [pc EXCEPT ![r] = "scan"]
    /\ UNCHANGED <<nextId, flag, seg, failed>>

\* Rank p's vector is zero but for its own entry, so entry p of the sum is its flag.
Reduced(r) ==
    /\ pc[r] = "reduce"
    /\ ~stateless
    /\ Over(r)
    /\ Assign(r, [p \in Rank |-> ValueOf(r, p)])
    /\ UNCHANGED log

\* The stateless group adds up by one broadcast from each rank in turn.
Aggregated(r) ==
    LET i == Here(r).src
        sums == [total[r] EXCEPT ![i] = @ + ValueOf(r, i)]
    IN
    /\ pc[r] = "reduce"
    /\ stateless
    /\ Over(r)
    /\ \/ i < WorldSize - 1
          /\ total' = [total EXCEPT ![r] = sums]
          /\ Make(r, Aggregate(i + 1, flag[r]))
          /\ UNCHANGED <<pc, cur, assigned, nextId, flag, seg, failed>>
       \/ i = WorldSize - 1
          /\ Assign(r, sums)
          /\ UNCHANGED log

Step(r) ==
    /\ UNCHANGED world
    /\ \/ Finish(r) \/ Begin(r)
       \/ Create(r) \/ CreateFails(r) \/ Sent(r)
       \/ Receive(r) \/ Open(r)
       \/ LeaveBarrier(r) \/ Reduced(r) \/ Aggregated(r)

Next == \E r \in Rank : Step(r)

\* Every process runs: no rank rests for ever in front of a step it can take.
Spec == Init /\ [][Next]_vars /\ \A r \in Rank : WF_vars(Step(r))

---------------------------------------------------------------------------
(* Correctness.                                                            *)

Calls == {Broadcast(s) : s \in Rank} \cup {Barrier} \cup {AllReduce(v) : v \in 0..1}
             \cup {Aggregate(s, v) : s \in Rank, v \in 0..1}

\* The type invariant.  A sum never exceeds 1: nobody speaks for another rank.
TypeOK ==
    /\ nodeOf \in Placements /\ stateless \in BOOLEAN /\ failed \subseteq ShmFaults
    /\ pc \in [Rank -> {"scan", "create", "sent", "recv", "open", "barrier", "reduce",
                        "done"}]
    /\ cur \in [Rank -> 0..WorldSize]
    /\ assigned \in [Rank -> [Rank -> 0..WorldSize]]
    /\ nextId \in [Rank -> 0..WorldSize]
    /\ flag \in [Rank -> 0..1]
    /\ total \in [Rank -> [Rank -> 0..1]]
    /\ log \in [Rank -> Seq(Calls)]
    /\ seg \in [Rank -> {"none", "linked", "unlinked"}]

\* Unless a source could not create its segment, the ranks never disagree on which call
\* is the k-th: what a rank learns locally (that it is on the source's node or not, that
\* it cannot map the segment) must not steer it to another call.
CallsMatch ==
    "create" \notin failed =>
        \A r, p \in Rank : \A k \in 1..Len(log[r]) :
            k <= Len(log[p]) => /\ log[p][k].kind = log[r][k].kind
                                /\ log[p][k].src = log[r][k].src

\* Ranks that have made as many calls and are between two rounds have the same map of the
\* nodes and the same count, whatever fails (_node_count decides collectively).
NodeMapsAgree ==
    \A r, p \in Rank :
        /\ {pc[r], pc[p]} \subseteq {"scan", "done"}
        /\ Len(log[r]) = Len(log[p])
        => nextId[r] = nextId[p] /\ assigned[r] = assigned[p]

\* Ranks that are counted as one node share its memory, whatever fails.
NeverMerges ==
    \A r, p, q \in Rank :
        assigned[r][p] # 0 /\ assigned[r][p] = assigned[r][q] => nodeOf[p] = nodeOf[q]

\* When shared memory has not failed, the count is the number of nodes (_node_count's
\* promise), for every way to spread the ranks.
NodeCountExact ==
    failed = {} =>
        \A r \in Rank :
            pc[r] = "done" => nextId[r] = Cardinality({nodeOf[p] : p \in Rank})

\* A segment loses its name only when nobody can still want to open it (the barrier
\* before shm.unlink), and gets a name only once.
UnlinkedOnce ==
    [][\A s \in Rank :
        seg[s] # seg'[s] =>
            \/ seg[s] = "none" /\ seg'[s] = "linked"
            \/ /\ seg[s] = "linked" /\ seg'[s] = "unlinked"
               /\ \A r \in Rank : cur[r] = s /\ pc[r] \notin {"scan", "recv", "open"}]_vars

\* Nothing is left behind in /dev/shm by a rank that has its count.
NoSegmentLeft ==
    \A r \in Rank : pc[r] = "done" => seg[r] # "linked"

\* Every rank gets its count, unless a segment could not be created.
CountReturnsOrNoSegment ==
    \A r \in Rank : <>(pc[r] = "done" \/ "create" \in failed)

\* Every rank gets its count: errors of shared memory are ignored
\* (parallel_state.py:2032).
CountReturns == \A r \in Rank : <>(pc[r] = "done")
===========================================================================
