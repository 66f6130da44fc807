-------------------------- MODULE SameNode_proofs --------------------------
(***************************************************************************)
(* Theorems about SameNode, for every number of ranks, every way to spread *)
(* them over nodes, either kind of group and whatever shared memory does.  *)
(*                                                                         *)
(* The inductive invariant IInv says where a rank is in its round, what    *)
(* its calls of this round and of the last one are, and how two ranks are  *)
(* placed towards each other: they are in the same round, or one of them   *)
(* is in the last call of a round that the other has completed.            *)
(***************************************************************************)
EXTENDS SameNode, FiniteSetTheorems, WellFoundedInduction, TLAPS

---------------------------------------------------------------------------
(* Where a rank is in its round.                                           *)

\* Between two rounds.
Idle(r) == pc[r] \in {"scan", "done"}

\* The rounds that the rank has completed.
Round(r) == IF Idle(r) THEN nextId[r] ELSE nextId[r] - 1

\* How many calls of its round the rank has made.  A source without a segment has made
\* one when it waits at the barrier, everybody else two.
Offset(r) ==
    CASE Idle(r) \/ pc[r] = "create" -> 0
      [] pc[r] \in {"sent", "recv", "open"} -> 1
      [] pc[r] = "barrier" -> IF "create" \in failed THEN 1 ELSE 2
      [] pc[r] = "reduce" -> 3 + Here(r).src

\* The calls of the completed rounds.
Base(r) == Len(log[r]) - Offset(r)

\* The calls of a round.
RoundLength == IF stateless THEN WorldSize + 2 ELSE 3

\* Call number o of a round, but for its value; a stateless group adds up by broadcasts.
Scheduled(broadcasts, call, src, o) ==
    /\ o = 1 => call.kind = "broadcast" /\ call.src = src
    /\ o = 2 => call.kind = "barrier" /\ call.src = 0
    /\ o > 2 => IF broadcasts THEN call.kind = "aggregate" /\ call.src = o - 3
                ELSE call.kind = "all_reduce" /\ call.src = 0

\* Where, in the round of rank r, rank q says whether it is on the source's node.
Place(r, q) == Base(r) + 3 + (IF stateless THEN q ELSE 0)

\* What rank q has said there, once it has made that call.
Given(r, q) == log[q][Place(r, q)].value

\* What rank r will know of rank q when its round is over.
After(r, q) == IF Given(r, q) = 1 /\ assigned[r][q] = 0 THEN nextId[r] ELSE assigned[r][q]

---------------------------------------------------------------------------
(* One rank.                                                               *)

\* Where the rank is in the loop: how far its cursor, its numbers and its map have come.
\* The numbers given are 1..nextId without a gap, and no rank before the cursor is without one.
Progress(r) ==
    /\ Base(r) >= 0
    /\ Idle(r) => nextId[r] <= cur[r]
    /\ ~Idle(r) =>
        /\ nextId[r] \in 1..cur[r] + 1
        /\ cur[r] \in Rank
        /\ assigned[r][cur[r]] = nextId[r]
    /\ pc[r] \in {"create", "sent"} => cur[r] = r
    /\ pc[r] \in {"recv", "open"} => cur[r] # r
    /\ pc[r] = "reduce" =>
        Here(r).src \in Rank /\ (~stateless => Here(r).src = 0)
    /\ \A q \in Rank : assigned[r][q] <= nextId[r]
    /\ pc[r] = "done" => Unassigned(r) = {}
    /\ \A c \in Rank : c < cur[r] => assigned[r][c] # 0
    /\ \A i \in 1..nextId[r] : \E q \in Rank : assigned[r][q] = i

\* The calls the rank has made in its round, and those of the last round of a stateless
\* group, which a rank that is one round behind has yet to make.
Calling(r) ==
    /\ pc[r] = "barrier" /\ "create" \in failed => Here(r).kind = "barrier" /\ cur[r] = r
    /\ ~(pc[r] = "barrier" /\ "create" \in failed) =>
        \A o \in 1..Offset(r) : Scheduled(stateless, log[r][Base(r) + o], cur[r], o)
    /\ \A o \in 3..Offset(r) : log[r][Base(r) + o].value = flag[r]
    /\ stateless /\ Base(r) >= RoundLength =>
        \A o \in 3..RoundLength : Scheduled(stateless, log[r][Base(r) - RoundLength + o], 0, o)

\* The segment of the rank has a name just while the rank is a source in its round.
Segment(r) ==
    /\ seg[r] = "linked" <=>
        /\ cur[r] = r
        /\ pc[r] = "sent" \/ (pc[r] = "barrier" /\ "create" \notin failed)
    /\ assigned[r][r] = 0 \/ pc[r] = "create" => seg[r] = "none"

\* Behind the attempt to open the segment the flag says whether the rank is on the source's
\* node: never wrongly 1, and rightly so when shared memory has not failed.
Flagged(r) ==
    /\ pc[r] \in {"create", "sent", "recv", "open"} => flag[r] = 0
    /\ pc[r] \in {"barrier", "reduce"} =>
        /\ flag[r] = 1 => nodeOf[r] = nodeOf[cur[r]]
        /\ failed = {} /\ nodeOf[r] = nodeOf[cur[r]] => flag[r] = 1

\* What a rank of a stateless group has added up so far: the flags of the ranks before the
\* one that broadcasts.
Summed(r) ==
    /\ pc[r] \in {"create", "sent", "recv", "open", "barrier"} =>
        \A q \in Rank : total[r][q] = 0
    /\ pc[r] = "reduce" =>
        \A q \in Rank :
            IF q < Here(r).src
            THEN Len(log[q]) >= Place(r, q) /\ total[r][q] = Given(r, q)
            ELSE total[r][q] = 0

\* Ranks with the same number share a node.
Apart(r) ==
    \A p, q \in Rank :
        assigned[r][p] # 0 /\ assigned[r][p] = assigned[r][q] => nodeOf[p] = nodeOf[q]

\* Without failures, ranks of one node have the same number, but for the node that the round
\* is about: of its ranks only the source has one.
Together(r) ==
    failed = {} =>
        IF Idle(r)
        THEN \A p, q \in Rank : nodeOf[p] = nodeOf[q] => assigned[r][p] = assigned[r][q]
        ELSE \A p, q \in Rank :
                nodeOf[p] = nodeOf[q] =>
                    IF nodeOf[p] = nodeOf[cur[r]] THEN assigned[r][p] = 0 \/ p = cur[r]
                    ELSE assigned[r][p] = assigned[r][q]

---------------------------------------------------------------------------
(* Two ranks.                                                              *)

\* The source and the map of a round that follows from a cursor and a map.
Follows(p, from, map) ==
    LET candidates == {c \in Rank : c >= from /\ map[c] = 0} IN
    IF Idle(p)
    THEN cur[p] = from /\ \A q \in Rank : assigned[p][q] = map[q]
    ELSE /\ candidates # {}
         /\ cur[p] = Min(candidates)
         /\ \A q \in Rank : q # cur[p] => assigned[p][q] = map[q]

\* Ranks of the same round have made as many calls before it, and look at the same source
\* with the same map.
InStep(r, p) ==
    Round(p) = Round(r) =>
        /\ Base(p) = Base(r)
        /\ Idle(r) => Follows(p, cur[r], assigned[r])
        /\ ~Idle(r) /\ ~Idle(p) => cur[r] = cur[p] /\ assigned[r] = assigned[p]

\* A rank that is one round ahead has completed the one whose last calls the other waits in:
\* the other has heard everything, and will start from the same map.
Ahead(r, p) ==
    Round(p) = Round(r) + 1 =>
        /\ Base(p) = Base(r) + RoundLength
        /\ pc[r] = "reduce"
        /\ pc[p] # "reduce"
        /\ \A q \in Rank : Len(log[q]) >= Place(r, q)
        /\ Follows(p, cur[r] + 1, [q \in Rank |-> After(r, q)])

\* No rank is two rounds ahead; and one that exchanges flags has seen the others at the
\* barrier.
Close(r, p) ==
    /\ Round(p) = Round(r) \/ Round(p) = Round(r) + 1 \/ Round(r) = Round(p) + 1
    /\ pc[r] = "reduce" => \/ Round(p) = Round(r) + 1
                           \/ Round(p) = Round(r) /\ Offset(p) >= 2

\* The source of a rank that wants to open the segment, or has tried to, has not left the
\* round.
Sourced(r) ==
    /\ pc[r] = "open" => /\ Round(cur[r]) = Round(r)
                         /\ pc[cur[r]] \in {"sent", "barrier"}
    /\ pc[r] = "barrier" => /\ Round(cur[r]) = Round(r)
                            /\ pc[cur[r]] \in {"sent", "barrier", "reduce"}

\* What a rank learns from another one's flag is true, and complete without failures.
Told(r, q) ==
    pc[r] = "reduce" /\ Len(log[q]) >= Place(r, q) =>
        /\ Given(r, q) = 1 => nodeOf[q] = nodeOf[cur[r]]
        /\ failed = {} /\ nodeOf[q] = nodeOf[cur[r]] => Given(r, q) = 1

\* Once a source could not create its segment, it waits at a barrier that nobody else reaches.
Stuck ==
    "create" \in failed =>
        /\ \A r \in Rank : pc[r] \notin {"create", "sent", "open"}
        /\ \E r \in Rank : pc[r] = "barrier"

\* A rank that a step leaves as it was.
Unmoved(p) ==
    /\ pc'[p] = pc[p] /\ cur'[p] = cur[p] /\ assigned'[p] = assigned[p]
    /\ nextId'[p] = nextId[p] /\ flag'[p] = flag[p] /\ total'[p] = total[p]
    /\ seg'[p] = seg[p] /\ log'[p] = log[p]
    /\ (Idle(p)' <=> Idle(p)) /\ Round(p)' = Round(p)
    /\ Offset(p)' = Offset(p) /\ Base(p)' = Base(p)
    /\ pc[p] = "barrier" => ("create" \in failed' <=> "create" \in failed)

\* A rank that begins a round: the next source, with the next number.
Begins(r) ==
    /\ Idle(r) /\ ~Idle(r)' /\ Unassigned(r) # {}
    /\ Round(r)' = Round(r) /\ Base(r)' = Base(r)
    /\ cur'[r] = Min(Unassigned(r))
    /\ nextId'[r] = nextId[r] + 1
    /\ assigned'[r] = [assigned[r] EXCEPT ![cur'[r]] = nextId'[r]]
    /\ flag'[r] = 0 /\ total'[r] = Vector(0) /\ seg' = seg /\ failed' = failed
    /\ IF cur'[r] = r THEN pc'[r] = "create" /\ log' = log
       ELSE pc'[r] = "recv" /\ Make(r, Broadcast(cur'[r]))

\* A rank that is in the same round before and after.
Advances(r) ==
    /\ ~Idle(r) /\ ~Idle(r)'
    /\ cur'[r] = cur[r] /\ assigned'[r] = assigned[r] /\ nextId'[r] = nextId[r]
    /\ Round(r)' = Round(r) /\ Base(r)' = Base(r)
    /\ Offset(r)' >= Offset(r)

\* A rank that completes its round, and takes over what all ranks have said.
Completes(r) ==
    /\ pc[r] = "reduce" /\ pc'[r] = "scan"
    /\ Round(r)' = Round(r) + 1 /\ Base(r)' = Base(r) + RoundLength
    /\ cur'[r] = cur[r] + 1 /\ nextId'[r] = nextId[r]
    /\ \A q \in Rank : Len(log[q]) >= Place(r, q) /\ assigned'[r][q] = After(r, q)
    /\ flag'[r] = flag[r] /\ log' = log /\ seg' = seg /\ failed' = failed

\* The logs after a step extend the logs before it.
LogsKept ==
    \A q \in Rank :
        /\ log'[q] \in Seq(Calls) /\ Len(log'[q]) \in Nat /\ Len(log'[q]) >= Len(log[q])
        /\ \A k \in 1..Len(log[q]) : log'[q][k] = log[q][k]

\* A rank whose step neither begins nor completes a round, or that a step leaves alone.
Steady(p) ==
    /\ cur'[p] = cur[p] /\ assigned'[p] = assigned[p] /\ nextId'[p] = nextId[p]
    /\ (Idle(p)' <=> Idle(p)) /\ Round(p)' = Round(p) /\ Base(p)' = Base(p)
    /\ Offset(p)' >= Offset(p)
    /\ pc[p] = "reduce" => pc'[p] = "reduce"

\* A group of one rank: the count is there from the start.
Alone ==
    /\ WorldSize = 1 /\ TypeOK
    /\ \A r \in Rank :
        /\ pc[r] = "done" /\ nextId[r] = 1 /\ seg[r] = "none" /\ log[r] = <<>>
        /\ \A q \in Rank : assigned[r][q] = 0

\* The parts of the invariant about one rank.
Single(r) ==
    /\ Progress(r) /\ Calling(r) /\ Segment(r) /\ Flagged(r) /\ Summed(r)
    /\ Apart(r) /\ Together(r) /\ Sourced(r)

\* The parts of the invariant about two ranks.
Double(r, p) == InStep(r, p) /\ Ahead(r, p) /\ Close(r, p) /\ Told(r, p)

\* The invariant of a group of several ranks.
Counting ==
    /\ WorldSize > 1 /\ TypeOK /\ Stuck /\ CallsMatch
    /\ \A r \in Rank : Single(r)
    /\ \A r, p \in Rank : Double(r, p)

\* The inductive invariant.
IInv == Alone \/ Counting

---------------------------------------------------------------------------
(* Facts about the operators.                                              *)

\* The least element of a non-empty set of naturals.
LEMMA MinExists ==
    ASSUME NEW S, S \subseteq Nat, S # {}
    PROVE  Min(S) \in S /\ \A x \in S : Min(S) <= x
  <1> DEFINE R == {ss \in Nat \X Nat : ss[1] < ss[2]}
  <1>1. IsWellFoundedOn(R, Nat)
    BY NatLessThanWellFounded DEF OpToRel
  <1>2. PICK x \in S : \A y \in S : <<y, x>> \notin R
    BY <1>1, WFMin
  <1>3. \A y \in S : x <= y
    <2> SUFFICES ASSUME NEW y \in S, y < x
                 PROVE  FALSE
      BY x \in Nat, S \subseteq Nat
    <2>1. <<y, x>> \in Nat \X Nat
      OBVIOUS
    <2>2. <<y, x>> \in R
      BY <2>1
    <2> QED BY <1>2, <2>2
  <1> QED BY <1>3 DEF Min

\* The calls are records with a kind, a source and a value of 0 or 1.
LEMMA CallFacts ==
    /\ WorldSize \in Nat /\ WorldSize >= 1 /\ Rank \subseteq Nat /\ 0 \in Rank
    /\ \A call \in Calls :
        call.kind \in {"broadcast", "barrier", "all_reduce", "aggregate"}
        /\ call.src \in Rank /\ call.value \in 0..1
    /\ \A s \in Rank : Broadcast(s) \in Calls
    /\ Barrier \in Calls
    /\ \A v \in 0..1 : AllReduce(v) \in Calls
    /\ \A s \in Rank, v \in 0..1 : Aggregate(s, v) \in Calls
  <1>1. WorldSize \in Nat /\ WorldSize >= 1 /\ Rank \subseteq Nat /\ 0 \in Rank
    BY WorldSizeAssumption DEF Rank
  <1>2. ASSUME NEW call \in Calls
        PROVE  /\ call.kind \in {"broadcast", "barrier", "all_reduce", "aggregate"}
               /\ call.src \in Rank /\ call.value \in 0..1
    BY <1>1 DEF Calls, Broadcast, Barrier, AllReduce, Aggregate
  <1>3. /\ \A s \in Rank : Broadcast(s) \in Calls
        /\ Barrier \in Calls
        /\ \A v \in 0..1 : AllReduce(v) \in Calls
        /\ \A s \in Rank, v \in 0..1 : Aggregate(s, v) \in Calls
    BY DEF Calls
  <1> QED BY <1>1, <1>2, <1>3

\* What the offsets and lengths are.
LEMMA Typing ==
    ASSUME TypeOK, NEW r \in Rank, Progress(r)
    PROVE  /\ cur[r] \in Nat /\ nextId[r] \in Nat /\ Round(r) \in Int
           /\ log[r] \in Seq(Calls) /\ Len(log[r]) \in Nat
           /\ Offset(r) \in Nat /\ Base(r) \in Nat
           /\ Offset(r) > 0 => Here(r) \in Calls
           /\ RoundLength \in Nat /\ RoundLength >= 3
           /\ \A q \in Rank : Place(r, q) \in Nat /\ Place(r, q) > Base(r) + 2
  <1>1. /\ cur[r] \in Nat /\ nextId[r] \in Nat /\ log[r] \in Seq(Calls)
        /\ RoundLength \in Nat /\ RoundLength >= 3
    BY CallFacts DEF TypeOK, RoundLength
  <1>2. Len(log[r]) \in Nat
    BY <1>1
  <1>3. Offset(r) \in Nat
    <2>1. pc[r] = "reduce" => Here(r).src \in Nat
      BY CallFacts DEF Progress
    <2>2. pc[r] \in {"scan", "create", "sent", "recv", "open", "barrier", "reduce", "done"}
      BY DEF TypeOK
    <2> QED BY <2>1, <2>2 DEF Offset, Idle
  <1>4. Base(r) \in Nat
    BY <1>2, <1>3 DEF Base, Progress
  <1>5. Offset(r) > 0 => Here(r) \in Calls
    <2> SUFFICES ASSUME Offset(r) > 0
                 PROVE  Here(r) \in Calls
      OBVIOUS
    <2>1. Len(log[r]) \in 1..Len(log[r])
      BY <1>2, <1>3, <1>4 DEF Base
    <2> QED BY <1>1, <2>1 DEF Here
  <1>6. \A q \in Rank : Place(r, q) \in Nat /\ Place(r, q) > Base(r) + 2
    BY <1>4, CallFacts DEF Place
  <1> QED BY <1>1, <1>2, <1>3, <1>4, <1>5, <1>6 DEF Round

---------------------------------------------------------------------------
(* What a step leaves alone.                                               *)

\* A log only grows, and only that of the rank that takes the step.
LEMMA LogsGrow ==
    ASSUME TypeOK, NEW r \in Rank, NEW call \in Calls, Make(r, call)
    PROVE  /\ log' \in [Rank -> Seq(Calls)]
           /\ Len(log'[r]) = Len(log[r]) + 1
           /\ log'[r][Len(log[r]) + 1] = call
           /\ \A k \in 1..Len(log[r]) : log'[r][k] = log[r][k]
           /\ \A p \in Rank : p # r => log'[p] = log[p]
  <1>1. log[r] \in Seq(Calls)
    BY DEF TypeOK
  <1>2. /\ log' = [log EXCEPT ![r] = Append(log[r], call)]
        /\ log'[r] = Append(log[r], call)
    BY DEF Make, TypeOK
  <1>3. Append(log[r], call) \in Seq(Calls)
    BY <1>1
  <1> QED BY <1>1, <1>2, <1>3 DEF TypeOK

\* A rank whose source has not made its broadcast is not at the barrier.
LEMMA NobodyAtBarrier ==
    ASSUME Counting, NEW r \in Rank, pc[r] = "create", NEW p \in Rank
    PROVE  pc[p] # "barrier"
  <1> SUFFICES ASSUME pc[p] = "barrier"
               PROVE  FALSE
    OBVIOUS
  <1>1. /\ Single(r) /\ Single(p) /\ Double(r, p) /\ Double(p, r)
        /\ cur[r] = r /\ cur[p] \in Rank
    BY DEF Counting, Single, Progress, Idle
  <1>2. Round(p) \in Int /\ Round(r) \in Int
    BY <1>1, Typing DEF Counting, Single
  <1>3. Round(p) = Round(r)
    BY <1>1, <1>2 DEF Double, Close, Ahead
  <1>4. cur[p] = r
    BY <1>1, <1>3 DEF Double, InStep, Idle
  <1> QED BY <1>1, <1>4 DEF Single, Sourced

\* A rank that does not take the step stays where it is, in its round too.
LEMMA Others ==
    ASSUME Counting, NEW r \in Rank, Step(r), NEW p \in Rank, p # r
    PROVE  Unmoved(p)
  <1>1. /\ pc'[p] = pc[p] /\ cur'[p] = cur[p] /\ assigned'[p] = assigned[p]
        /\ nextId'[p] = nextId[p] /\ flag'[p] = flag[p] /\ total'[p] = total[p]
        /\ seg'[p] = seg[p] /\ log'[p] = log[p]
    <2> USE DEF Counting, TypeOK, loop, Make, Assign
    <2>1. CASE Finish(r)  BY <2>1 DEF Finish
    <2>2. CASE Begin(r)  BY <2>2 DEF Begin
    <2>3. CASE Create(r)  BY <2>3 DEF Create
    <2>4. CASE CreateFails(r)  BY <2>4 DEF CreateFails
    <2>5. CASE Sent(r)  BY <2>5 DEF Sent
    <2>6. CASE Receive(r)  BY <2>6 DEF Receive
    <2>7. CASE Open(r)  BY <2>7 DEF Open
    <2>8. CASE LeaveBarrier(r)  BY <2>8 DEF LeaveBarrier
    <2>9. CASE Reduced(r)  BY <2>9 DEF Reduced
    <2>10. CASE Aggregated(r)  BY <2>10 DEF Aggregated
    <2> QED BY <2>1, <2>2, <2>3, <2>4, <2>5, <2>6, <2>7, <2>8, <2>9, <2>10 DEF Step
  <1>2. "create" \in failed' => "create" \in failed \/ pc[r] = "create"
    BY DEF Step, Finish, Begin, Create, CreateFails, Sent, Receive, Open, LeaveBarrier,
           Reduced, Aggregated, Assign
  <1>3. "create" \in failed => "create" \in failed'
    BY DEF Step, Finish, Begin, Create, CreateFails, Sent, Receive, Open, LeaveBarrier,
           Reduced, Aggregated, Assign
  <1>4. pc[p] = "barrier" => ("create" \in failed' <=> "create" \in failed)
    BY <1>2, <1>3, NobodyAtBarrier
  <1>5. /\ Idle(p)' = Idle(p) /\ Round(p)' = Round(p) /\ Here(p)' = Here(p)
    BY <1>1 DEF Idle, Round, Here
  <1>6. Offset(p)' = Offset(p)
    BY <1>1, <1>4, <1>5 DEF Offset
  <1>7. Base(p)' = Base(p)
    BY <1>1, <1>6 DEF Base
  <1> QED BY <1>1, <1>4, <1>5, <1>6, <1>7 DEF Unmoved

\* No rank makes more calls than there are in a round.
LEMMA OffsetBound ==
    ASSUME TypeOK, NEW r \in Rank, Progress(r)
    PROVE  Offset(r) <= RoundLength
  <1>1. WorldSize \in Nat /\ WorldSize >= 1
    BY WorldSizeAssumption
  <1>2. pc[r] = "reduce" => /\ Here(r).src \in 0..WorldSize - 1
                            /\ ~stateless => Here(r).src = 0
    BY DEF Progress, Rank
  <1>3. pc[r] \in {"scan", "create", "sent", "recv", "open", "barrier", "reduce", "done"}
    BY DEF TypeOK
  <1> QED BY <1>1, <1>2, <1>3 DEF Offset, Idle, RoundLength

\* What the invariant says of one rank.
LEMMA Facts ==
    ASSUME Counting, NEW r \in Rank
    PROVE  /\ Single(r) /\ Progress(r)
           /\ cur[r] \in Nat /\ nextId[r] \in Nat /\ Round(r) \in Int
           /\ log[r] \in Seq(Calls) /\ Len(log[r]) \in Nat
           /\ Offset(r) \in Nat /\ Base(r) \in Nat /\ Offset(r) <= RoundLength
           /\ Len(log[r]) = Base(r) + Offset(r)
           /\ Offset(r) > 0 => Here(r) \in Calls
           /\ RoundLength \in Nat /\ RoundLength >= 3
           /\ \A q \in Rank : Place(r, q) \in Nat /\ Place(r, q) > Base(r) + 2
  <1>1. Single(r) /\ Progress(r) /\ TypeOK
    BY DEF Counting, Single
  <1>2. Len(log[r]) \in Nat /\ Offset(r) \in Nat => Len(log[r]) = Base(r) + Offset(r)
    BY DEF Base
  <1> QED BY <1>1, <1>2, Typing, OffsetBound

\* Nobody leaves the barrier that a source without a segment waits at.
LEMMA BarrierHolds ==
    ASSUME Counting, NEW r \in Rank, pc[r] = "barrier", Over(r)
    PROVE  /\ "create" \notin failed
           /\ \A p \in Rank : /\ Round(p) = Round(r) /\ cur[p] = cur[r]
                              /\ pc[p] \in {"barrier", "reduce"}
  <1>1. /\ Single(r) /\ Base(r) \in Nat /\ Len(log[r]) \in Nat /\ Round(r) \in Int /\ ~Idle(r)
        /\ Offset(r) = IF "create" \in failed THEN 1 ELSE 2
        /\ Len(log[r]) = Base(r) + Offset(r)
    BY Facts DEF Offset, Idle
  <1>2. Here(r).kind = "barrier"
    BY <1>1 DEF Single, Calling, Scheduled, Here
  <1>3. ASSUME NEW p \in Rank
        PROVE  Len(log[p]) >= Len(log[r]) /\ log[p][Len(log[r])].kind = "barrier"
    BY <1>2 DEF Over, Joined, Here
  <1>4. ASSUME NEW p \in Rank
        PROVE  Round(p) = Round(r) /\ Base(p) = Base(r) /\ Offset(p) >= Offset(r)
    <2>1. /\ Single(p) /\ Double(r, p) /\ Double(p, r) /\ Round(p) \in Int
          /\ Len(log[p]) \in Nat /\ Offset(p) \in Nat /\ Base(p) \in Nat
          /\ Offset(p) <= RoundLength /\ RoundLength \in Nat
          /\ Len(log[p]) = Base(p) + Offset(p) /\ Len(log[p]) >= Len(log[r])
      BY <1>3, Facts DEF Counting
    <2>2. Round(p) # Round(r) + 1
      BY <2>1 DEF Double, Ahead
    <2>3. Round(r) # Round(p) + 1
      <3>1. SUFFICES ASSUME Round(r) = Round(p) + 1
                     PROVE  FALSE
        OBVIOUS
      <3>2. Base(r) = Base(p) + RoundLength
        BY <2>1, <3>1 DEF Double, Ahead
      <3>3. PICK c \in 1..2 : c = Offset(r)
        BY <1>1
      <3>4. Len(log[r]) = Base(p) + RoundLength + c
        BY <1>1, <2>1, <3>2, <3>3
      <3>5. Len(log[p]) <= Base(p) + RoundLength
        BY <2>1
      <3> QED BY <2>1, <3>4, <3>5
    <2>4. Round(p) = Round(r)
      BY <1>1, <2>1, <2>2, <2>3 DEF Double, Close
    <2>5. Base(p) = Base(r)
      BY <2>1, <2>4 DEF Double, InStep
    <2> QED BY <1>1, <2>1, <2>4, <2>5
  <1>5. "create" \notin failed
    <2> SUFFICES ASSUME "create" \in failed
                 PROVE  FALSE
      OBVIOUS
    <2>1. PICK p \in Rank : p # r
      BY WorldSizeAssumption DEF Rank, Counting
    <2>2. /\ Single(p) /\ Double(r, p) /\ Double(p, r) /\ cur[r] = r
          /\ Offset(r) = 1 /\ Offset(p) >= 1 /\ Offset(p) \in Nat /\ Base(p) = Base(r)
          /\ Round(p) = Round(r) /\ Round(p) \in Int
      BY <1>1, <1>4, Facts DEF Counting, Single, Calling
    <2>3. pc[p] \in {"recv", "barrier", "reduce"}
      BY <2>2 DEF Counting, Stuck, TypeOK, Offset, Idle
    <2>4. pc[p] # "barrier"
      BY <1>1, <2>1, <2>2 DEF Single, Calling, Double, InStep, Idle
    <2>5. pc[p] # "reduce"
      BY <2>2 DEF Double, Close
    <2>6. pc[p] # "recv"
      <3>1. 1 \in 1..Offset(p)
        BY <2>2
      <3>2. pc[p] = "recv" => log[p][Base(p) + 1].kind = "broadcast"
        BY <2>2, <3>1 DEF Single, Calling, Scheduled
      <3> QED BY <1>1, <1>3, <2>2, <3>2
    <2> QED BY <2>3, <2>4, <2>5, <2>6
  <1>6. ASSUME NEW p \in Rank
        PROVE  cur[p] = cur[r] /\ pc[p] \in {"barrier", "reduce"}
    <2>1. Offset(p) >= 2 /\ Double(r, p) /\ Round(p) = Round(r)
      BY <1>1, <1>4, <1>5 DEF Counting
    <2>2. pc[p] \in {"barrier", "reduce"}
      BY <2>1 DEF Counting, TypeOK, Offset, Idle
    <2> QED BY <1>1, <2>1, <2>2 DEF Double, InStep, Idle
  <1> QED BY <1>4, <1>5, <1>6

---------------------------------------------------------------------------
(* What a step does to the rank that takes it.                             *)

\* The loop's end changes nothing but the program counter.
LEMMA Finishing ==
    ASSUME Counting, NEW r \in Rank, Step(r), Finish(r)
    PROVE  /\ pc[r] = "scan" /\ pc'[r] = "done" /\ Unassigned(r) = {}
           /\ Idle(r) /\ Idle(r)' /\ Round(r)' = Round(r) /\ Base(r)' = Base(r)
           /\ <<cur, assigned, nextId, total, flag, log, seg, failed>>' =
                <<cur, assigned, nextId, total, flag, log, seg, failed>>
  <1>1. /\ pc[r] = "scan" /\ pc'[r] = "done" /\ Unassigned(r) = {}
        /\ <<cur, assigned, nextId, total, flag, log, seg, failed>>' =
             <<cur, assigned, nextId, total, flag, log, seg, failed>>
    BY DEF Counting, TypeOK, Finish, loop
  <1>2. Idle(r) /\ Idle(r)' /\ Round(r)' = Round(r)
    BY <1>1 DEF Idle, Round
  <1>3. Base(r)' = Base(r)
    BY <1>1, <1>2 DEF Base, Offset
  <1> QED BY <1>1, <1>2, <1>3

\* The loop's next round starts with the first rank that has no number.
LEMMA Beginning ==
    ASSUME Counting, NEW r \in Rank, Step(r), Begin(r)
    PROVE  Begins(r)
  <1> DEFINE s == Min(Unassigned(r))
  <1>1. /\ pc[r] = "scan" /\ Unassigned(r) # {} /\ cur'[r] = s
        /\ nextId'[r] = nextId[r] + 1
        /\ flag'[r] = 0 /\ total'[r] = Vector(0) /\ seg' = seg /\ failed' = failed
        /\ IF s = r THEN pc'[r] = "create" /\ log' = log
           ELSE pc'[r] = "recv" /\ Make(r, Broadcast(s))
    BY DEF Begin, Counting, TypeOK
  <1>2. assigned'[r] = [assigned[r] EXCEPT ![s] = nextId[r] + 1]
    BY DEF Begin, Counting, TypeOK
  <1>3. s \in Rank
    BY <1>1, MinExists, CallFacts DEF Unassigned
  <1>4. Idle(r) /\ ~Idle(r)'
    BY <1>1 DEF Idle
  <1>5. Round(r)' = Round(r)
    BY <1>1, <1>4 DEF Round, Counting, TypeOK
  <1>6. Len(log[r]) \in Nat
    BY DEF Counting, TypeOK
  <1>7. Offset(r) = 0 /\ Base(r) = Len(log[r])
    BY <1>1, <1>6 DEF Offset, Base, Idle
  <1>8. Base(r)' = Len(log[r])
    <2>1. CASE s = r
      <3>1. Offset(r)' = 0
        BY <1>1, <2>1 DEF Offset
      <3> QED BY <1>1, <1>6, <2>1, <3>1 DEF Base
    <2>2. CASE s # r
      <3>1. Offset(r)' = 1
        BY <1>1, <2>2 DEF Offset, Idle
      <3>2. Len(log'[r]) = Len(log[r]) + 1
        BY <1>1, <1>3, <2>2, CallFacts, LogsGrow DEF Counting
      <3> QED BY <1>6, <3>1, <3>2 DEF Base
    <2> QED BY <2>1, <2>2
  <1> QED BY <1>1, <1>2, <1>4, <1>5, <1>7, <1>8 DEF Begins

\* A step within a round makes at most one call.
LEMMA Advancing ==
    ASSUME Counting, NEW r \in Rank, Step(r),
           ~Finish(r), ~Begin(r), pc'[r] # "scan"
    PROVE  /\ Advances(r)
           /\ log' # log => \E call \in Calls : Make(r, call)
  <1>1. Single(r)
    BY DEF Counting
  <1>2. flag[r] \in 0..1 /\ Len(log[r]) \in Nat /\ failed \subseteq ShmFaults
    BY DEF Counting, TypeOK
  <1>3. ASSUME Make(r, Barrier)
        PROVE  /\ Len(log'[r]) = Len(log[r]) + 1
               /\ \E call \in Calls : Make(r, call)
    BY <1>3, LogsGrow, CallFacts DEF Counting
  <1>4. ASSUME NEW n \in 0..1, NEW o \in Nat,
               cur'[r] = cur[r], assigned'[r] = assigned[r], nextId'[r] = nextId[r],
               ~Idle(r), ~Idle(r)', Offset(r) = o, Offset(r)' = o + n,
               Len(log'[r]) = Len(log[r]) + n
        PROVE  Advances(r)
    <2>1. Round(r)' = Round(r)
      BY <1>4 DEF Round
    <2>2. Base(r) = Len(log[r]) - o /\ Base(r)' = Len(log[r]) + n - (o + n)
      BY <1>4 DEF Base
    <2>3. Base(r)' = Base(r)
      BY <1>2, <2>2
    <2>4. Offset(r)' >= Offset(r)
      BY <1>4
    <2> QED BY <1>4, <2>1, <2>3, <2>4 DEF Advances
  <1>5. CASE Create(r)
    <2>1. /\ pc[r] = "create" /\ pc'[r] = "sent" /\ Make(r, Broadcast(r))
          /\ cur' = cur /\ assigned' = assigned /\ nextId' = nextId
      BY <1>5 DEF Create, Counting, TypeOK, loop
    <2>2. Offset(r) = 0 /\ Offset(r)' = 1 /\ ~Idle(r) /\ ~Idle(r)'
      BY <2>1 DEF Offset, Idle
    <2>3. Len(log'[r]) = Len(log[r]) + 1 /\ \E call \in Calls : Make(r, call)
      BY <2>1, LogsGrow, CallFacts DEF Counting
    <2> QED BY <1>2, <1>4, <2>1, <2>2, <2>3
  <1>6. CASE CreateFails(r)
    <2>1. /\ pc[r] = "create" /\ pc'[r] = "barrier" /\ Make(r, Barrier)
          /\ cur' = cur /\ assigned' = assigned /\ nextId' = nextId
          /\ "create" \in failed'
      BY <1>6 DEF CreateFails, Counting, TypeOK, loop
    <2>2. Offset(r) = 0 /\ Offset(r)' = 1 /\ ~Idle(r) /\ ~Idle(r)'
      BY <2>1 DEF Offset, Idle
    <2> QED BY <1>2, <1>3, <1>4, <2>1, <2>2
  <1>7. CASE Sent(r)
    <2>1. /\ pc[r] = "sent" /\ pc'[r] = "barrier" /\ Make(r, Barrier)
          /\ cur' = cur /\ assigned' = assigned /\ nextId' = nextId
          /\ failed' = failed
      BY <1>7 DEF Sent, Counting, TypeOK, loop
    <2>2. "create" \notin failed'
      BY <2>1 DEF Counting, Stuck
    <2>3. Offset(r) = 1 /\ Offset(r)' = 2 /\ ~Idle(r) /\ ~Idle(r)'
      BY <2>1, <2>2 DEF Offset, Idle
    <2> QED BY <1>2, <1>3, <1>4, <2>1, <2>3
  <1>8. CASE Receive(r)
    <2>1. /\ pc[r] = "recv" /\ pc'[r] = "open" /\ log' = log
          /\ cur' = cur /\ assigned' = assigned /\ nextId' = nextId
      BY <1>8 DEF Receive, Counting, TypeOK, loop
    <2>2. Offset(r) = 1 /\ Offset(r)' = 1 /\ ~Idle(r) /\ ~Idle(r)'
      BY <2>1 DEF Offset, Idle
    <2> QED BY <1>2, <1>4, <2>1, <2>2
  <1>9. CASE Open(r)
    <2>1. /\ pc[r] = "open" /\ pc'[r] = "barrier" /\ Make(r, Barrier)
          /\ cur' = cur /\ assigned' = assigned /\ nextId' = nextId
          /\ failed' = failed \/ failed' = failed \cup {"open"}
      BY <1>9 DEF Open, Counting, TypeOK, loop
    <2>2. "create" \notin failed'
      BY <2>1 DEF Counting, Stuck
    <2>3. Offset(r) = 1 /\ Offset(r)' = 2 /\ ~Idle(r) /\ ~Idle(r)'
      BY <2>1, <2>2 DEF Offset, Idle
    <2> QED BY <1>2, <1>3, <1>4, <2>1, <2>3
  <1>10. CASE LeaveBarrier(r)
    <2> DEFINE call == IF stateless THEN Aggregate(0, flag[r]) ELSE AllReduce(flag[r])
    <2>1. /\ pc[r] = "barrier" /\ pc'[r] = "reduce" /\ Make(r, call)
          /\ cur' = cur /\ assigned' = assigned /\ nextId' = nextId
          /\ failed' = failed /\ Over(r)
      BY <1>10 DEF LeaveBarrier, Counting, TypeOK, loop
    <2>2. call \in Calls /\ call.src = 0
      BY <1>2, CallFacts DEF Aggregate, AllReduce
    <2>3. Len(log'[r]) = Len(log[r]) + 1 /\ Here(r)' = call
      BY <2>1, <2>2, LogsGrow DEF Counting, Here
    <2>4. "create" \notin failed
      BY <2>1, BarrierHolds
    <2>5. Offset(r) = 2 /\ Offset(r)' = 3 /\ ~Idle(r) /\ ~Idle(r)'
      BY <2>1, <2>2, <2>3, <2>4 DEF Offset, Idle
    <2> QED BY <1>2, <1>4, <2>1, <2>2, <2>3, <2>5
  <1>11. CASE Reduced(r)
    BY <1>11 DEF Reduced, Assign, Counting, TypeOK
  <1>12. CASE Aggregated(r)
    <2> DEFINE i == Here(r).src
               call == Aggregate(i + 1, flag[r])
    <2>1. /\ pc[r] = "reduce" /\ pc'[r] = "reduce" /\ Make(r, call) /\ i < WorldSize - 1
          /\ cur' = cur /\ assigned' = assigned /\ nextId' = nextId
      BY <1>12 DEF Aggregated, Assign, Counting, TypeOK
    <2>2. i \in Nat
      BY <1>1, <2>1, CallFacts DEF Single, Progress
    <2>3. call \in Calls /\ call.src = i + 1
      <3>1. i + 1 \in Rank
        BY <2>1, <2>2, WorldSizeAssumption DEF Rank
      <3>2. call \in Calls
        BY <1>2, <3>1, CallFacts
      <3> QED BY <3>2 DEF Aggregate
    <2>4. Len(log'[r]) = Len(log[r]) + 1 /\ Here(r)' = call
      BY <2>1, <2>3, LogsGrow DEF Counting, Here
    <2>5. Offset(r) = 3 + i /\ Offset(r)' = 4 + i /\ ~Idle(r) /\ ~Idle(r)'
      BY <2>1, <2>2, <2>3, <2>4 DEF Offset, Idle
    <2>6. \E c \in Calls : Make(r, c)
      BY <2>1, <2>3
    <2>7. Advances(r)
      <3>1. 3 + i \in Nat /\ 1 \in 0..1 /\ Offset(r)' = 3 + i + 1
        BY <2>2, <2>5
      <3> QED BY <1>4, <2>1, <2>4, <2>5, <3>1
    <2> QED BY <2>6, <2>7
  <1> QED BY <1>5, <1>6, <1>7, <1>8, <1>9, <1>10, <1>11, <1>12 DEF Step

\* What is in the log is a call.
LEMMA LogEntry ==
    ASSUME TypeOK, NEW q \in Rank, NEW k \in Nat, k >= 1, Len(log[q]) >= k
    PROVE  log[q][k] \in Calls /\ log[q][k].value \in 0..1
  <1>1. log[q] \in Seq(Calls) /\ k \in 1..Len(log[q])
    BY DEF TypeOK
  <1>2. log[q][k] \in Calls
    BY <1>1
  <1> QED BY <1>2, CallFacts

\* Behind the barrier, the call that the rank waits in.
LEMMA Reducing ==
    ASSUME Counting, NEW r \in Rank, pc[r] = "reduce"
    PROVE  /\ Here(r).src \in Rank /\ Offset(r) = 3 + Here(r).src
           /\ Len(log[r]) = Base(r) + 3 + Here(r).src
           /\ Here(r).kind = IF stateless THEN "aggregate" ELSE "all_reduce"
           /\ ~stateless => Here(r).src = 0
           /\ Len(log[r]) = Place(r, Here(r).src)
  <1>1. Here(r).src \in Rank /\ (~stateless => Here(r).src = 0) /\ Here(r).src \in Nat
    BY Facts, CallFacts DEF Progress
  <1>2. Offset(r) = 3 + Here(r).src
    BY DEF Offset, Idle
  <1>3. Base(r) \in Nat /\ Len(log[r]) = Base(r) + Offset(r) /\ Single(r)
    BY Facts
  <1>4. Offset(r) \in 1..Offset(r) /\ Offset(r) > 2
    BY <1>1, <1>2
  <1>5. Scheduled(stateless, Here(r), cur[r], Offset(r))
    BY <1>3, <1>4 DEF Single, Calling, Here
  <1>6. Here(r).kind = IF stateless THEN "aggregate" ELSE "all_reduce"
    BY <1>4, <1>5 DEF Scheduled
  <1>7. Len(log[r]) = Base(r) + 3 + Here(r).src
    BY <1>1, <1>2, <1>3
  <1>8. Len(log[r]) = Place(r, Here(r).src)
    BY <1>1, <1>3, <1>7 DEF Place
  <1> QED BY <1>1, <1>2, <1>6, <1>7, <1>8

\* What a rank of a stateless group has added up when a broadcast is over.
LEMMA Summing ==
    ASSUME Counting, NEW r \in Rank, pc[r] = "reduce", stateless, Over(r)
    PROVE  LET i == Here(r).src
               sums == [total[r] EXCEPT ![i] = @ + ValueOf(r, i)]
           IN  /\ sums \in [Rank -> 0..1]
               /\ \A q \in Rank :
                    IF q <= i THEN Len(log[q]) >= Place(r, q) /\ sums[q] = Given(r, q)
                    ELSE sums[q] = 0
  <1> DEFINE i == Here(r).src
             sums == [total[r] EXCEPT ![i] = @ + ValueOf(r, i)]
  <1>1. /\ i \in Rank /\ i \in Nat /\ Here(r).kind = "aggregate"
        /\ Len(log[r]) = Place(r, i) /\ Rank \subseteq Nat
    BY Reducing, CallFacts
  <1>2. Len(log[i]) >= Place(r, i)
    BY <1>1 DEF Over, Joined
  <1>3. ValueOf(r, i) = Given(r, i) /\ Given(r, i) \in 0..1
    <2>1. Place(r, i) \in Nat /\ Place(r, i) >= 1
      <3>1. Place(r, i) \in Nat /\ Place(r, i) > Base(r) + 2 /\ Base(r) \in Nat
        BY <1>1, Facts
      <3> QED BY <3>1
    <2>2. log[i][Place(r, i)].value \in 0..1
      BY <1>1, <1>2, <2>1, LogEntry DEF Counting
    <2> QED BY <1>1, <2>2 DEF ValueOf, Given
  <1>4. /\ total[r] \in [Rank -> 0..1]
        /\ \A q \in Rank :
             IF q < i THEN Len(log[q]) >= Place(r, q) /\ total[r][q] = Given(r, q)
             ELSE total[r][q] = 0
    BY Facts DEF Counting, TypeOK, Single, Summed
  <1>5. sums[i] = Given(r, i)
    BY <1>1, <1>3, <1>4
  <1>6. \A q \in Rank : q # i => sums[q] = total[r][q]
    BY <1>4
  <1>7. sums \in [Rank -> 0..1]
    BY <1>1, <1>3, <1>4
  <1>8. ASSUME NEW q \in Rank
        PROVE  IF q <= i THEN Len(log[q]) >= Place(r, q) /\ sums[q] = Given(r, q)
               ELSE sums[q] = 0
    <2>1. q \in Nat
      BY <1>1
    <2>2. CASE q = i
      BY <1>1, <1>2, <1>5, <2>2
    <2>3. CASE q < i
      BY <1>1, <1>4, <1>6, <2>1, <2>3
    <2>4. CASE q > i
      BY <1>1, <1>4, <1>6, <2>1, <2>4
    <2> QED BY <1>1, <2>1, <2>2, <2>3, <2>4
  <1> QED BY <1>7, <1>8

\* A round ends with the sums of what all ranks have said, and takes RoundLength calls.
LEMMA Completing ==
    ASSUME Counting, NEW r \in Rank, Step(r),
           ~Finish(r), ~Begin(r), pc'[r] = "scan"
    PROVE  /\ Completes(r)
           /\ total' \in [Rank -> [Rank -> 0..1]]
           /\ UNCHANGED stateless
  <1>1. pc[r] = "reduce" /\ UNCHANGED stateless
    BY DEF Step, Finish, Begin, Create, CreateFails, Sent, Receive, Open, LeaveBarrier,
           Reduced, Aggregated, Assign, Counting, TypeOK, world
  <1>2. /\ Here(r).src \in Rank /\ Here(r).src \in Nat /\ Offset(r) = 3 + Here(r).src
        /\ Base(r) \in Nat /\ Len(log[r]) = Base(r) + Offset(r) /\ WorldSize \in Nat
    BY <1>1, Reducing, CallFacts, Facts
  <1>3. ASSUME NEW sums \in [Rank -> 0..1], Assign(r, sums), log' = log, Offset(r) = RoundLength,
               \A q \in Rank : Len(log[q]) >= Place(r, q) /\ sums[q] = Given(r, q)
        PROVE  /\ Completes(r)
               /\ total' \in [Rank -> [Rank -> 0..1]]
    <2>1. /\ pc'[r] = "scan" /\ cur'[r] = cur[r] + 1 /\ nextId'[r] = nextId[r]
          /\ flag' = flag /\ seg' = seg /\ failed' = failed
          /\ assigned'[r] = [q \in Rank |-> IF sums[q] = 1 /\ assigned[r][q] = 0
                                            THEN nextId[r] ELSE assigned[r][q]]
          /\ total' = [total EXCEPT ![r] = sums]
      BY <1>3 DEF Assign, Counting, TypeOK
    <2>2. Idle(r)' /\ ~Idle(r)
      BY <1>1, <2>1 DEF Idle
    <2>3. Round(r)' = nextId[r] /\ Round(r) = nextId[r] - 1 /\ nextId[r] \in Nat
      BY <2>1, <2>2, Facts DEF Round
    <2>4. Round(r)' = Round(r) + 1
      BY <2>3
    <2>5. Offset(r)' = 0
      BY <2>2 DEF Offset
    <2>6. Base(r)' = Len(log[r])
      BY <1>2, <1>3, <2>5 DEF Base
    <2>7. \A q \in Rank : assigned'[r][q] = After(r, q)
      BY <1>3, <2>1 DEF After
    <2>8. total' \in [Rank -> [Rank -> 0..1]]
      BY <2>1 DEF Counting, TypeOK
    <2> QED BY <1>1, <1>2, <1>3, <2>1, <2>4, <2>6, <2>7, <2>8 DEF Completes
  <1>4. CASE Reduced(r)
    <2> DEFINE sums == [p \in Rank |-> ValueOf(r, p)]
    <2>1. /\ ~stateless /\ Over(r) /\ Assign(r, sums) /\ log' = log
      BY <1>4 DEF Reduced
    <2>2. Here(r).kind = "all_reduce" /\ Here(r).src = 0 /\ Len(log[r]) = Base(r) + 3
      BY <1>1, <1>2, <2>1, Reducing
    <2>3. ASSUME NEW q \in Rank
          PROVE  /\ Len(log[q]) >= Place(r, q) /\ sums[q] = Given(r, q) /\ sums[q] \in 0..1
      <3>1. Place(r, q) = Len(log[r]) /\ Place(r, q) \in Nat /\ Place(r, q) >= 1
        BY <1>2, <2>1, <2>2 DEF Place
      <3>2. Len(log[q]) >= Place(r, q)
        BY <2>1, <2>2, <3>1 DEF Over, Joined
      <3>3. log[q][Place(r, q)].value \in 0..1
        BY <3>1, <3>2, LogEntry DEF Counting
      <3> QED BY <3>1, <3>2, <3>3 DEF ValueOf, Given
    <2>4. sums \in [Rank -> 0..1]
      BY <2>3
    <2>5. Offset(r) = RoundLength
      BY <1>2, <2>1, <2>2 DEF RoundLength
    <2> QED BY <1>1, <1>3, <2>1, <2>3, <2>4, <2>5
  <1>5. CASE Aggregated(r)
    <2> DEFINE i == Here(r).src
               sums == [total[r] EXCEPT ![i] = @ + ValueOf(r, i)]
    <2>1. stateless /\ Over(r) /\ i = WorldSize - 1 /\ Assign(r, sums) /\ log' = log
      BY <1>1, <1>5 DEF Aggregated, Counting, TypeOK
    <2>2. /\ sums \in [Rank -> 0..1]
          /\ \A q \in Rank :
               IF q <= i THEN Len(log[q]) >= Place(r, q) /\ sums[q] = Given(r, q)
               ELSE sums[q] = 0
      BY <1>1, <2>1, Summing
    <2>3. \A q \in Rank : q <= i
      BY <2>1, WorldSizeAssumption DEF Rank
    <2>4. \A q \in Rank : Len(log[q]) >= Place(r, q) /\ sums[q] = Given(r, q)
      BY <2>2, <2>3
    <2>5. Offset(r) = RoundLength
      BY <1>2, <2>1 DEF RoundLength
    <2> QED BY <1>1, <1>3, <2>1, <2>2, <2>4, <2>5
  <1>6. pc'[r] = "scan" /\ ~(Reduced(r) \/ Aggregated(r)) => FALSE
    BY <1>1 DEF Step, Finish, Begin, Create, CreateFails, Sent, Receive, Open, LeaveBarrier,
           Counting, TypeOK
  <1> QED BY <1>4, <1>5, <1>6

\* The kinds of steps there are.
LEMMA StepKinds ==
    ASSUME Counting, NEW r \in Rank, Step(r)
    PROVE  /\ Finish(r) \/ Begins(r) \/ Advances(r) \/ Completes(r)
           /\ log' = log \/ \E call \in Calls : Make(r, call)
           /\ LogsKept
           /\ UNCHANGED world /\ failed \subseteq failed'
  <1>1. UNCHANGED world /\ failed \subseteq failed'
    BY DEF Step, Finish, Begin, Create, CreateFails, Sent, Receive, Open, LeaveBarrier,
           Reduced, Aggregated, Assign
  <1>2. /\ Finish(r) \/ Begins(r) \/ Advances(r) \/ Completes(r)
        /\ log' = log \/ \E call \in Calls : Make(r, call)
    <2>1. CASE Finish(r)
      BY <2>1 DEF Finish
    <2>2. CASE Begin(r)
      <3>1. Begins(r)
        BY <2>2, Beginning
      <3>2. cur'[r] \in Rank
        BY <3>1, MinExists, CallFacts DEF Begins, Unassigned
      <3> QED BY <3>1, <3>2, CallFacts DEF Begins
    <2>3. CASE ~Finish(r) /\ ~Begin(r) /\ pc'[r] = "scan"
      BY <2>3, Completing DEF Completes
    <2>4. CASE ~Finish(r) /\ ~Begin(r) /\ pc'[r] # "scan"
      BY <2>4, Advancing
    <2> QED BY <2>1, <2>2, <2>3, <2>4
  <1>3. LogsKept
    <2> SUFFICES ASSUME NEW q \in Rank
                 PROVE  /\ log'[q] \in Seq(Calls) /\ Len(log'[q]) \in Nat
                        /\ Len(log'[q]) >= Len(log[q])
                        /\ \A k \in 1..Len(log[q]) : log'[q][k] = log[q][k]
      BY DEF LogsKept
    <2>1. log[q] \in Seq(Calls) /\ Len(log[q]) \in Nat
      BY DEF Counting, TypeOK
    <2>2. CASE log' = log
      BY <2>1, <2>2
    <2>3. ASSUME NEW call \in Calls, Make(r, call)
          PROVE  /\ log'[q] \in Seq(Calls) /\ Len(log'[q]) \in Nat
                 /\ Len(log'[q]) >= Len(log[q])
                 /\ \A k \in 1..Len(log[q]) : log'[q][k] = log[q][k]
      <3>1. /\ log' \in [Rank -> Seq(Calls)]
            /\ Len(log'[r]) = Len(log[r]) + 1
            /\ \A k \in 1..Len(log[r]) : log'[r][k] = log[r][k]
            /\ \A p \in Rank : p # r => log'[p] = log[p]
        BY <2>3, LogsGrow DEF Counting
      <3>2. CASE q = r
        BY <2>1, <3>1, <3>2
      <3>3. CASE q # r
        BY <2>1, <3>1, <3>3
      <3> QED BY <3>2, <3>3
    <2> QED BY <1>2, <2>2, <2>3
  <1> QED BY <1>1, <1>2, <1>3

\* A rank that waits in the exchange of the flags after a step.
LEMMA ReducesNext ==
    ASSUME Counting, NEW r \in Rank, Step(r), ~Finish(r), ~Begin(r), pc'[r] = "reduce"
    PROVE  /\ Here(r)'.src \in Rank /\ (~stateless' => Here(r)'.src = 0)
           /\ Here(r)'.value = flag[r] /\ flag'[r] = flag[r]
           /\ Here(r)'.kind = IF stateless THEN "aggregate" ELSE "all_reduce"
           /\ \/ pc[r] = "barrier" /\ Over(r) /\ Here(r)'.src = 0 /\ total' = total
              \/ /\ pc[r] = "reduce" /\ stateless /\ Over(r) /\ Here(r)'.src = Here(r).src + 1
                 /\ LET i == Here(r).src
                    IN  total' = [total EXCEPT ![r] =
                                    [total[r] EXCEPT ![i] = @ + ValueOf(r, i)]]
           /\ Make(r, Here(r)') /\ Here(r)' \in Calls
  <1>1. flag[r] \in 0..1 /\ Len(log[r]) \in Nat
    BY DEF Counting, TypeOK
  <1>2. ASSUME NEW call \in Calls, Make(r, call)
        PROVE  Here(r)' = call
    BY <1>1, <1>2, LogsGrow DEF Counting, Here
  <1>3. CASE LeaveBarrier(r)
    <2> DEFINE call == IF stateless THEN Aggregate(0, flag[r]) ELSE AllReduce(flag[r])
    <2>1. /\ pc[r] = "barrier" /\ Over(r) /\ Make(r, call) /\ flag' = flag /\ total' = total
      BY <1>3 DEF LeaveBarrier, loop
    <2>2. call \in Calls /\ 0 \in Rank
      BY <1>1, CallFacts
    <2>3. Here(r)' = call
      BY <1>2, <2>1, <2>2
    <2> QED BY <2>1, <2>2, <2>3 DEF Step, world, Aggregate, AllReduce
  <1>4. CASE Aggregated(r)
    <2> DEFINE i == Here(r).src
               call == Aggregate(i + 1, flag[r])
    <2>1. /\ pc[r] = "reduce" /\ stateless /\ Over(r) /\ i < WorldSize - 1 /\ Make(r, call)
          /\ flag' = flag
          /\ total' = [total EXCEPT ![r] = [total[r] EXCEPT ![i] = @ + ValueOf(r, i)]]
      BY <1>4 DEF Aggregated, Assign, Counting, TypeOK
    <2>2. i + 1 \in Rank
      BY <2>1, Reducing, WorldSizeAssumption DEF Rank
    <2>3. call \in Calls
      BY <1>1, <2>2, CallFacts
    <2>4. Here(r)' = call
      BY <1>2, <2>1, <2>3
    <2> QED BY <2>1, <2>2, <2>3, <2>4 DEF Step, world, Aggregate
  <1>5. LeaveBarrier(r) \/ Aggregated(r)
    BY DEF Step, Create, CreateFails, Sent, Receive, Open, Reduced, Assign, Counting, TypeOK
  <1> QED BY <1>3, <1>4, <1>5

---------------------------------------------------------------------------
(* Every part of the invariant is preserved.                               *)

\* A rank that a step does not move keeps its place.
LEMMA ProgressOfOthers ==
    ASSUME NEW p \in Rank, Progress(p), Unmoved(p), UNCHANGED world
    PROVE  Progress(p)'
  <1>1. Here(p)' = Here(p) /\ Unassigned(p)' = Unassigned(p)
    BY DEF Unmoved, Here, Unassigned
  <1>2. /\ pc'[p] = pc[p] /\ cur'[p] = cur[p] /\ assigned'[p] = assigned[p]
        /\ nextId'[p] = nextId[p] /\ (Idle(p)' <=> Idle(p)) /\ Base(p)' = Base(p)
        /\ (stateless' <=> stateless)
    BY DEF Unmoved, world
  <1> QED BY <1>1, <1>2 DEF Progress

\* Every rank keeps its place in the loop.
LEMMA ProgressKept ==
    ASSUME Counting, NEW r \in Rank, Step(r), NEW p \in Rank
    PROVE  Progress(p)'
  <1>1. CASE p # r
    BY <1>1, Facts, Others, StepKinds, ProgressOfOthers
  <1>2. Progress(r)'
    <2>0. /\ Progress(r) /\ nextId[r] \in Nat /\ cur[r] \in Nat /\ Base(r) \in Nat
          /\ assigned[r] \in [Rank -> Nat] /\ Rank \subseteq Nat
          /\ Round(r) \in Int /\ RoundLength \in Nat
      <3>1. assigned[r] \in [Rank -> Nat] /\ Rank \subseteq Nat
        <4>1. assigned[r] \in [Rank -> 0..WorldSize]
          BY DEF Counting, TypeOK
        <4>2. 0..WorldSize \subseteq Nat /\ Rank \subseteq Nat
          BY WorldSizeAssumption DEF Rank
        <4> QED BY <4>1, <4>2
      <3> QED BY <3>1, Facts
    <2>1. CASE Finish(r)
      <3>1. /\ pc[r] = "scan" /\ pc'[r] = "done" /\ Unassigned(r) = {}
            /\ Idle(r) /\ Idle(r)' /\ Base(r)' = Base(r) /\ Unassigned(r)' = Unassigned(r)
            /\ cur' = cur /\ assigned' = assigned /\ nextId' = nextId
        BY <2>1, Finishing DEF Unassigned
      <3> QED BY <2>0, <3>1 DEF Progress
    <2>2. CASE Begins(r)
      <3> DEFINE s == Min(Unassigned(r))
      <3>1. /\ s \in Rank /\ s >= cur[r] /\ assigned[r][s] = 0
            /\ \A c \in Unassigned(r) : s <= c
        BY <2>2, <2>0, MinExists DEF Begins, Unassigned
      <3>2. /\ cur'[r] = s /\ nextId'[r] = nextId[r] + 1 /\ ~Idle(r)' /\ Idle(r)
            /\ assigned'[r][s] = nextId[r] + 1
            /\ \A q \in Rank : q # s => assigned'[r][q] = assigned[r][q]
            /\ s = r => pc'[r] = "create"
            /\ s # r => pc'[r] = "recv"
            /\ Base(r)' = Base(r)
        BY <2>0, <2>2, <3>1 DEF Begins
      <3>3. nextId'[r] \in 1..cur'[r] + 1
        BY <2>0, <3>1, <3>2 DEF Progress
      <3>4. \A c \in Rank : c < cur'[r] => assigned'[r][c] # 0
        <4> SUFFICES ASSUME NEW c \in Rank, c < s
                     PROVE  assigned[r][c] # 0
          BY <2>0, <3>1, <3>2
        <4>1. c < cur[r] => assigned[r][c] # 0
          BY <2>0 DEF Progress
        <4>2. c >= cur[r] => assigned[r][c] # 0
          BY <2>0, <3>1 DEF Unassigned
        <4> QED BY <2>0, <4>1, <4>2
      <3>5. \A i \in 1..nextId'[r] : \E q \in Rank : assigned'[r][q] = i
        <4> SUFFICES ASSUME NEW i \in 1..nextId[r] + 1
                     PROVE  \E q \in Rank : assigned'[r][q] = i
          BY <3>2
        <4>1. CASE i = nextId[r] + 1
          BY <3>1, <3>2, <4>1
        <4>2. CASE i \in 1..nextId[r]
          <5>1. PICK q \in Rank : assigned[r][q] = i
            BY <2>0, <4>2 DEF Progress
          <5> QED BY <3>1, <3>2, <4>2, <5>1
        <4> QED BY <2>0, <4>1, <4>2
      <3>6. \A q \in Rank : assigned'[r][q] <= nextId'[r]
        BY <2>0, <3>1, <3>2 DEF Progress
      <3> QED BY <2>0, <3>1, <3>2, <3>3, <3>4, <3>5, <3>6 DEF Progress
    <2>3. CASE Advances(r)
      <3>1. /\ cur'[r] = cur[r] /\ assigned'[r] = assigned[r] /\ nextId'[r] = nextId[r]
            /\ Base(r)' = Base(r) /\ ~Idle(r) /\ ~Idle(r)'
        BY <2>3 DEF Advances
      <3>2. pc'[r] # "scan" /\ pc'[r] # "done" /\ ~Finish(r) /\ ~Begin(r)
        BY <3>1 DEF Idle, Finish, Begin
      <3>3. pc'[r] \in {"create", "sent"} => cur[r] = r
        BY <3>2, <2>0 DEF Step, Create, CreateFails, Sent, Receive, Open, LeaveBarrier,
              Reduced, Aggregated, Assign, Progress, Counting, TypeOK
      <3>4. pc'[r] \in {"recv", "open"} => cur[r] # r
        BY <3>2, <2>0 DEF Step, Create, CreateFails, Sent, Receive, Open, LeaveBarrier,
              Reduced, Aggregated, Assign, Progress, Counting, TypeOK
      <3>5. pc'[r] = "reduce" => Here(r)'.src \in Rank /\ (~stateless' => Here(r)'.src = 0)
        BY <3>2, ReducesNext
      <3> QED BY <2>0, <3>1, <3>2, <3>3, <3>4, <3>5 DEF Progress
    <2>4. CASE Completes(r)
      <3>1. /\ pc[r] = "reduce" /\ pc'[r] = "scan" /\ ~Idle(r) /\ Idle(r)'
            /\ Base(r)' = Base(r) + RoundLength
            /\ cur'[r] = cur[r] + 1 /\ nextId'[r] = nextId[r]
            /\ \A q \in Rank : assigned'[r][q] = After(r, q)
        BY <2>4 DEF Completes, Idle
      <3>2. \A q \in Rank : assigned'[r][q] <= nextId'[r]
        BY <2>0, <3>1 DEF Progress, After
      <3>3. nextId[r] \in 1..cur[r] + 1 /\ cur[r] \in Rank /\ assigned[r][cur[r]] = nextId[r]
        BY <2>0, <3>1 DEF Progress
      <3>4. \A q \in Rank : assigned[r][q] # 0 => assigned'[r][q] = assigned[r][q]
        BY <3>1 DEF After
      <3>5. \A c \in Rank : c < cur'[r] => assigned'[r][c] # 0
        <4> SUFFICES ASSUME NEW c \in Rank, c < cur[r] + 1
                     PROVE  assigned[r][c] # 0
          BY <3>1, <3>4
        <4>1. c < cur[r] => assigned[r][c] # 0
          BY <2>0 DEF Progress
        <4>2. c = cur[r] => assigned[r][c] # 0
          BY <3>3
        <4> QED BY <2>0, <4>1, <4>2
      <3>6. \A i \in 1..nextId'[r] : \E q \in Rank : assigned'[r][q] = i
        <4> SUFFICES ASSUME NEW i \in 1..nextId[r]
                     PROVE  \E q \in Rank : assigned'[r][q] = i
          BY <3>1
        <4>1. PICK q \in Rank : assigned[r][q] = i
          BY <2>0 DEF Progress
        <4> QED BY <2>0, <3>4, <4>1
      <3>7. Base(r)' >= 0 /\ nextId'[r] <= cur'[r]
        BY <2>0, <3>1, <3>3
      <3> QED BY <3>1, <3>2, <3>5, <3>6, <3>7 DEF Progress
    <2> QED BY <2>1, <2>2, <2>3, <2>4, StepKinds
  <1> QED BY <1>1, <1>2

\* A rank that a step does not move keeps its calls.
LEMMA CallingOfOthers ==
    ASSUME NEW p \in Rank, Calling(p), Unmoved(p), UNCHANGED world
    PROVE  Calling(p)'
  <1>1. Here(p)' = Here(p) /\ RoundLength' = RoundLength
    BY DEF Unmoved, Here, world, RoundLength
  <1>2. /\ pc'[p] = pc[p] /\ cur'[p] = cur[p] /\ log'[p] = log[p] /\ flag'[p] = flag[p]
        /\ Base(p)' = Base(p) /\ Offset(p)' = Offset(p) /\ (stateless' <=> stateless)
        /\ pc[p] = "barrier" => ("create" \in failed' <=> "create" \in failed)
    BY DEF Unmoved, world
  <1> QED BY <1>1, <1>2 DEF Calling, Scheduled

\* The source without a segment stays where it is.
LEMMA NotFromStuck ==
    ASSUME Counting, NEW r \in Rank, Step(r), Advances(r)
    PROVE  ~(pc[r] = "barrier" /\ "create" \in failed)
  <1> SUFFICES ASSUME pc[r] = "barrier"
               PROVE  "create" \notin failed
    OBVIOUS
  <1>1. Over(r)
    BY DEF Step, Finish, Begin, Create, CreateFails, Sent, Receive, Open, LeaveBarrier,
           Reduced, Aggregated
  <1> QED BY <1>1, BarrierHolds

\* What a rank within its round calls next is what the round has for it.
LEMMA NextCall ==
    ASSUME Counting, NEW r \in Rank, Step(r), Advances(r)
    PROVE  \/ /\ Offset(r)' = Offset(r) /\ Offset(r) = 1 /\ log' = log
              /\ pc[r] = "recv" /\ pc'[r] = "open"
           \/ /\ Offset(r)' = Offset(r) + 1 /\ Len(log'[r]) = Len(log[r]) + 1
              /\ LET call == log'[r][Base(r) + Offset(r)']
                 IN  /\ IF pc'[r] = "barrier" /\ "create" \in failed'
                        THEN /\ Offset(r) = 0 /\ cur[r] = r
                             /\ call.kind = "barrier" /\ call.src = 0
                        ELSE Scheduled(stateless, call, cur[r], Offset(r)')
                     /\ Offset(r)' > 2 => call.value = flag[r] /\ flag'[r] = flag[r]
                     /\ call = Here(r)'
  <1>0. /\ ~Finish(r) /\ ~Begin(r) /\ pc'[r] # "scan" /\ ~Idle(r) /\ ~Idle(r)'
        /\ cur'[r] = cur[r] /\ Base(r)' = Base(r)
    BY DEF Advances, Idle, Finish, Begin
  <1>1. /\ Progress(r) /\ Len(log[r]) = Base(r) + Offset(r) /\ Base(r) \in Nat
        /\ Offset(r) \in Nat /\ flag[r] \in 0..1 /\ Len(log[r]) \in Nat
    BY Facts DEF Counting, TypeOK
  <1>2. ASSUME NEW call \in Calls, Make(r, call)
        PROVE  /\ Len(log'[r]) = Len(log[r]) + 1 /\ Offset(r)' = Offset(r) + 1
               /\ log'[r][Base(r) + Offset(r)'] = call /\ call = Here(r)'
    <2>1. Len(log'[r]) = Len(log[r]) + 1 /\ log'[r][Len(log[r]) + 1] = call
      BY <1>2, LogsGrow DEF Counting
    <2>2. Len(log'[r]) = Base(r)' + Offset(r)' /\ Offset(r)' \in Int
      <3>1. Offset(r)' \in Int
        <4>1. pc'[r] = "reduce" => Here(r)'.src \in Int
          BY <1>0, ReducesNext, CallFacts
        <4>2. pc'[r] \in {"create", "sent", "recv", "open", "barrier", "reduce"}
          BY <1>0 DEF Step, Create, CreateFails, Sent, Receive, Open, LeaveBarrier,
              Reduced, Aggregated, Assign, Counting, TypeOK
        <4> QED BY <4>1, <4>2 DEF Offset, Idle
      <3> QED BY <1>1, <2>1, <3>1 DEF Base
    <2>3. Offset(r)' = Offset(r) + 1
      <3>1. Base(r) + Offset(r) + 1 = Base(r) + Offset(r)'
        BY <1>0, <1>1, <2>1, <2>2
      <3> QED BY <1>1, <2>2, <3>1
    <2> QED BY <1>1, <2>1, <2>3 DEF Here
  <1>3. CASE Create(r)
    <2>1. /\ pc[r] = "create" /\ pc'[r] = "sent" /\ Make(r, Broadcast(r))
      BY <1>3 DEF Create, Counting, TypeOK
    <2>2. Offset(r) = 0 /\ cur[r] = r /\ Broadcast(r) \in Calls
      BY <1>1, <2>1, CallFacts DEF Progress, Offset, Idle
    <2>3. Scheduled(stateless, Broadcast(r), r, 1)
      BY DEF Scheduled, Broadcast
    <2> QED BY <1>2, <2>1, <2>2, <2>3
  <1>4. CASE CreateFails(r)
    <2>1. /\ pc[r] = "create" /\ pc'[r] = "barrier" /\ Make(r, Barrier) /\ "create" \in failed'
      BY <1>4 DEF CreateFails, Counting, TypeOK
    <2>2. Offset(r) = 0 /\ cur[r] = r /\ Barrier \in Calls
      BY <1>1, <2>1, CallFacts DEF Progress, Offset, Idle
    <2>3. Barrier.kind = "barrier" /\ Barrier.src = 0
      BY DEF Barrier
    <2> QED BY <1>2, <2>1, <2>2, <2>3
  <1>5. CASE Sent(r) \/ Open(r)
    <2>1. /\ pc[r] \in {"sent", "open"} /\ pc'[r] = "barrier" /\ Make(r, Barrier)
          /\ failed' \subseteq failed \cup {"open"}
      BY <1>5 DEF Sent, Open, Counting, TypeOK
    <2>2. Offset(r) = 1 /\ "create" \notin failed' /\ Barrier \in Calls
      BY <1>1, <2>1, CallFacts DEF Offset, Idle, Counting, Stuck
    <2>3. Scheduled(stateless, Barrier, cur[r], 2)
      BY DEF Scheduled, Barrier
    <2> QED BY <1>2, <2>1, <2>2, <2>3
  <1>6. CASE Receive(r)
    <2>1. /\ pc[r] = "recv" /\ pc'[r] = "open" /\ log' = log
      BY <1>6 DEF Receive, Counting, TypeOK
    <2> QED BY <2>1 DEF Offset, Idle
  <1>7. CASE pc'[r] = "reduce"
    <2>1. /\ Here(r)'.src \in Rank /\ (~stateless => Here(r)'.src = 0)
          /\ Here(r)'.value = flag[r] /\ flag'[r] = flag[r]
          /\ Here(r)'.kind = IF stateless THEN "aggregate" ELSE "all_reduce"
          /\ Make(r, Here(r)')
      BY <1>0, <1>7, ReducesNext, StepKinds DEF world
    <2>2. Offset(r)' = 3 + Here(r)'.src
      BY <1>7 DEF Offset, Idle
    <2>4. Here(r)' \in Calls
      BY <1>0, <1>7, ReducesNext
    <2>5. /\ Len(log'[r]) = Len(log[r]) + 1 /\ Offset(r)' = Offset(r) + 1
          /\ log'[r][Base(r) + Offset(r)'] = Here(r)'
      BY <1>2, <2>1, <2>4
    <2>6. Scheduled(stateless, Here(r)', cur[r], Offset(r)')
      <3>1. Here(r)'.src \in Nat
        BY <2>1, CallFacts
      <3> QED BY <2>1, <2>2, <3>1 DEF Scheduled
    <2> QED BY <1>7, <2>1, <2>5, <2>6
  <1>8. Create(r) \/ CreateFails(r) \/ Sent(r) \/ Open(r) \/ Receive(r) \/ pc'[r] = "reduce"
    BY <1>0 DEF Step, LeaveBarrier, Reduced, Aggregated, Assign, Counting, TypeOK
  <1> QED BY <1>3, <1>4, <1>5, <1>6, <1>7, <1>8

\* The calls stay those of the rounds.
LEMMA CallingKept ==
    ASSUME Counting, NEW r \in Rank, Step(r), NEW p \in Rank
    PROVE  Calling(p)'
  <1>1. CASE p # r
    BY <1>1, Facts, Others, StepKinds, CallingOfOthers DEF Single
  <1>2. Calling(r)'
    <2>0. /\ Calling(r) /\ LogsKept /\ RoundLength' = RoundLength /\ (stateless' <=> stateless)
          /\ Base(r) \in Nat /\ Offset(r) \in Nat /\ Len(log[r]) = Base(r) + Offset(r)
          /\ RoundLength \in Nat /\ RoundLength >= 3
      BY Facts, StepKinds DEF Single, world, RoundLength
    \* The calls of the last round stay where they are.
    <2>2. ASSUME Base(r)' = Base(r)
          PROVE  stateless /\ Base(r)' >= RoundLength' =>
                    \A o \in 3..RoundLength' :
                        Scheduled(stateless, log'[r][Base(r)' - RoundLength' + o], 0, o)
      <3> SUFFICES ASSUME stateless, Base(r) >= RoundLength, NEW o \in 3..RoundLength
                   PROVE  Scheduled(stateless, log'[r][Base(r) - RoundLength + o], 0, o)
        BY <2>0, <2>2
      <3>1. Base(r) - RoundLength + o \in 1..Len(log[r])
        BY <2>0
      <3>2. log'[r][Base(r) - RoundLength + o] = log[r][Base(r) - RoundLength + o]
        BY <2>0, <3>1 DEF LogsKept
      <3> QED BY <2>0, <3>2 DEF Calling
    \* So do the calls of this one.
    <2>3. \A o \in 1..Offset(r) : log'[r][Base(r) + o] = log[r][Base(r) + o]
      <3> SUFFICES ASSUME NEW o \in 1..Offset(r)
                   PROVE  log'[r][Base(r) + o] = log[r][Base(r) + o]
        OBVIOUS
      <3>1. Base(r) + o \in 1..Len(log[r])
        BY <2>0
      <3> QED BY <2>0, <3>1 DEF LogsKept
    <2>4. CASE Finish(r)
      <3>1. Base(r)' = Base(r) /\ Offset(r)' = 0 /\ pc'[r] = "done"
        BY <2>4, Finishing DEF Offset
      <3> QED BY <2>0, <2>2, <3>1 DEF Calling, Scheduled
    <2>5. CASE Begins(r)
      <3>1. Base(r)' = Base(r) /\ Offset(r) = 0 /\ pc'[r] \in {"create", "recv"}
        BY <2>5 DEF Begins, Offset, Idle
      <3>2. CASE pc'[r] = "create"
        <4>1. Offset(r)' = 0
          BY <3>2 DEF Offset
        <4> QED BY <2>0, <2>2, <3>1, <3>2, <4>1 DEF Calling, Scheduled
      <3>3. CASE pc'[r] = "recv"
        <4>1. Offset(r)' = 1 /\ Make(r, Broadcast(cur'[r])) /\ cur'[r] \in Rank
          BY <2>5, <3>3, MinExists, CallFacts DEF Begins, Offset, Idle, Unassigned
        <4>2. log'[r][Base(r) + 1] = Broadcast(cur'[r])
          BY <2>0, <3>1, <4>1, LogsGrow, CallFacts DEF Counting
        <4>3. Scheduled(stateless, Broadcast(cur'[r]), cur'[r], 1)
          BY DEF Scheduled, Broadcast
        <4>4. \A o \in 1..Offset(r)' : Scheduled(stateless, log'[r][Base(r)' + o], cur'[r], o)
          BY <3>1, <4>1, <4>2, <4>3
        <4> QED BY <2>0, <2>2, <3>1, <3>3, <4>1, <4>4 DEF Calling, Scheduled
      <3> QED BY <3>1, <3>2, <3>3
    <2>6. CASE Advances(r)
      <3>1. Base(r)' = Base(r) /\ cur'[r] = cur[r]
        BY <2>6 DEF Advances
      <3>2. CASE /\ Offset(r)' = Offset(r) /\ Offset(r) = 1 /\ log' = log
                 /\ pc[r] = "recv" /\ pc'[r] = "open"
        <4>1. \A o \in 1..Offset(r)' : Scheduled(stateless, log'[r][Base(r)' + o], cur'[r], o)
          BY <2>0, <3>1, <3>2 DEF Calling
        <4> QED BY <2>0, <2>2, <3>1, <3>2, <4>1 DEF Calling, Scheduled
      <3>3. CASE /\ Offset(r)' = Offset(r) + 1
                 /\ LET call == log'[r][Base(r) + Offset(r)']
                    IN  /\ IF pc'[r] = "barrier" /\ "create" \in failed'
                           THEN /\ Offset(r) = 0 /\ cur[r] = r
                                /\ call.kind = "barrier" /\ call.src = 0
                           ELSE Scheduled(stateless, call, cur[r], Offset(r)')
                        /\ Offset(r)' > 2 => call.value = flag[r] /\ flag'[r] = flag[r]
                        /\ call = Here(r)'
        <4>1. ~(pc[r] = "barrier" /\ "create" \in failed)
          BY <2>6, <3>3, NotFromStuck
        <4>2. ASSUME ~(pc'[r] = "barrier" /\ "create" \in failed'), NEW o \in 1..Offset(r)'
              PROVE  Scheduled(stateless, log'[r][Base(r)' + o], cur'[r], o)
          <5>1. CASE o \in 1..Offset(r)
            BY <2>0, <2>3, <3>1, <4>1, <5>1 DEF Calling
          <5>2. CASE o = Offset(r)'
            BY <2>0, <3>1, <3>3, <4>2, <5>2
          <5> QED BY <2>0, <3>3, <4>2, <5>1, <5>2
        <4>3. ASSUME NEW o \in 3..Offset(r)'
              PROVE  log'[r][Base(r)' + o].value = flag'[r]
          <5>1. flag'[r] = flag[r]
            BY <2>0, <3>3
          <5>2. CASE o \in 3..Offset(r)
            BY <2>0, <2>3, <3>1, <5>1, <5>2 DEF Calling
          <5>3. CASE o = Offset(r)'
            BY <2>0, <3>1, <3>3, <5>1, <5>3
          <5> QED BY <2>0, <3>3, <5>2, <5>3
        <4>4. pc'[r] = "barrier" /\ "create" \in failed' => Here(r)'.kind = "barrier" /\ cur'[r] = r
          BY <3>1, <3>3
        <4> QED BY <2>0, <2>2, <3>1, <4>2, <4>3, <4>4 DEF Calling, Scheduled
      <3> QED BY <2>6, <3>2, <3>3, NextCall
    <2>7. CASE Completes(r)
      <3>1. /\ Base(r)' = Base(r) + RoundLength /\ Offset(r)' = 0 /\ log' = log
            /\ Idle(r)' /\ pc'[r] = "scan" /\ pc[r] = "reduce"
        BY <2>7 DEF Completes, Offset, Idle
      <3>2. Offset(r) = RoundLength
        <4>1. Base(r)' = Len(log[r])
          BY <2>0, <3>1 DEF Base
        <4> QED BY <2>0, <3>1, <4>1
      <3>3. ASSUME NEW o \in 3..RoundLength
            PROVE  Scheduled(stateless, log'[r][Base(r)' - RoundLength + o], 0, o)
        <4>1. Base(r)' - RoundLength + o = Base(r) + o /\ o \in 1..Offset(r) /\ o > 2
          BY <2>0, <3>1, <3>2
        <4>2. Scheduled(stateless, log[r][Base(r) + o], cur[r], o)
          BY <2>0, <3>1, <4>1 DEF Calling
        <4> QED BY <3>1, <4>1, <4>2 DEF Scheduled
      <3> QED BY <2>0, <3>1, <3>3 DEF Calling, Scheduled
    <2> QED BY <2>4, <2>5, <2>6, <2>7, StepKinds
  <1> QED BY <1>1, <1>2

\* The segment of a rank is there while the rank is the source, and then never again.
LEMMA SegmentKept ==
    ASSUME Counting, NEW r \in Rank, Step(r), NEW p \in Rank
    PROVE  Segment(p)'
  <1>1. CASE p # r
    <2>1. Segment(p) /\ Unmoved(p)
      BY <1>1, Facts, Others DEF Single
    <2>2. /\ pc'[p] = pc[p] /\ cur'[p] = cur[p] /\ assigned'[p] = assigned[p] /\ seg'[p] = seg[p]
          /\ pc[p] = "barrier" => ("create" \in failed' <=> "create" \in failed)
      BY <2>1 DEF Unmoved
    <2> QED BY <2>1, <2>2 DEF Segment
  <1>2. Segment(r)'
    <2>0. /\ Segment(r) /\ Progress(r) /\ Calling(r) /\ seg \in [Rank -> {"none", "linked", "unlinked"}]
          /\ cur[r] \in Nat /\ nextId[r] \in Nat /\ pc \in [Rank -> {"scan", "create", "sent", "recv",
                 "open", "barrier", "reduce", "done"}]
      BY Facts DEF Single, Counting, TypeOK
    <2>1. CASE Finish(r)
      <3>1. /\ pc[r] = "scan" /\ pc'[r] = "done" /\ cur' = cur /\ assigned' = assigned /\ seg' = seg
        BY <2>1, Finishing
      <3> QED BY <2>0, <3>1 DEF Segment
    <2>2. CASE Begins(r)
      <3> DEFINE s == Min(Unassigned(r))
      <3>1. s \in Rank /\ assigned[r][s] = 0
        BY <2>0, <2>2, MinExists, CallFacts DEF Begins, Unassigned
      <3>2. /\ cur'[r] = s /\ pc[r] \in {"scan", "done"} /\ seg' = seg
            /\ assigned'[r] = [assigned[r] EXCEPT ![s] = nextId[r] + 1]
            /\ IF s = r THEN pc'[r] = "create" ELSE pc'[r] = "recv"
        BY <2>2 DEF Begins, Idle
      <3>3. assigned[r] \in [Rank -> 0..WorldSize]
        BY DEF Counting, TypeOK
      <3>4. assigned'[r][r] = 0 => assigned[r][r] = 0
        BY <2>0, <3>1, <3>2, <3>3
      <3> QED BY <2>0, <3>1, <3>2, <3>4 DEF Segment
    <2>3. CASE Advances(r)
      <3>1. /\ cur'[r] = cur[r] /\ assigned'[r] = assigned[r] /\ ~Idle(r) /\ ~Idle(r)'
        BY <2>3 DEF Advances
      <3>2. ~Finish(r) /\ ~Begin(r) /\ pc'[r] # "scan"
        BY <3>1 DEF Idle, Finish, Begin
      <3>3. assigned[r][cur[r]] # 0
        BY <2>0, <3>1 DEF Progress
      <3>4. "create" \in failed => pc[r] \notin {"create", "sent", "open"}
        BY DEF Counting, Stuck
      <3>5. CASE Create(r)
        BY <2>0, <3>1, <3>3, <3>5 DEF Create, Segment, Progress
      <3>6. CASE CreateFails(r)
        BY <2>0, <3>1, <3>3, <3>6 DEF CreateFails, Segment, Progress
      <3>7. CASE Sent(r)
        BY <2>0, <3>1, <3>4, <3>7 DEF Sent, Segment, Progress
      <3>8. CASE Receive(r)
        BY <2>0, <3>1, <3>8 DEF Receive, Segment, Progress
      <3>9. CASE Open(r)
        BY <2>0, <3>1, <3>4, <3>9 DEF Open, Segment, Progress
      <3>10. CASE LeaveBarrier(r)
        BY <2>0, <3>1, <3>3, <3>10 DEF LeaveBarrier, Segment
      <3>11. CASE Aggregated(r)
        BY <2>0, <3>1, <3>2, <3>11 DEF Aggregated, Assign, Segment
      <3>12. CASE Reduced(r)
        BY <2>0, <3>2, <3>12 DEF Reduced, Assign
      <3> QED BY <3>2, <3>5, <3>6, <3>7, <3>8, <3>9, <3>10, <3>11, <3>12 DEF Step
    <2>4. CASE Completes(r)
      <3>1. /\ pc[r] = "reduce" /\ pc'[r] = "scan" /\ seg' = seg
            /\ assigned'[r][r] = After(r, r)
        BY <2>4 DEF Completes
      <3>2. nextId[r] # 0
        BY <2>0, <3>1 DEF Progress, Idle
      <3>3. assigned'[r][r] = 0 => assigned[r][r] = 0
        BY <3>1, <3>2 DEF After
      <3> QED BY <2>0, <3>1, <3>3 DEF Segment
    <2> QED BY <2>1, <2>2, <2>3, <2>4, StepKinds
  <1> QED BY <1>1, <1>2

\* The flag of a rank behind the barrier says whether it is on the source's node; when
\* nothing has failed, in both directions.
LEMMA FlaggedKept ==
    ASSUME Counting, NEW r \in Rank, Step(r), NEW p \in Rank
    PROVE  Flagged(p)'
  <1>0. nodeOf' = nodeOf /\ failed \subseteq failed'
    BY StepKinds DEF world
  <1>1. CASE p # r
    <2>1. Flagged(p) /\ Unmoved(p)
      BY <1>1, Facts, Others DEF Single
    <2>2. /\ pc'[p] = pc[p] /\ cur'[p] = cur[p] /\ flag'[p] = flag[p]
      BY <2>1 DEF Unmoved
    <2>3. failed' = {} => failed = {}
      BY <1>0
    <2> QED BY <1>0, <2>1, <2>2, <2>3 DEF Flagged
  <1>2. Flagged(r)'
    <2>0. /\ Flagged(r) /\ Progress(r)
          /\ flag \in [Rank -> 0..1]
          /\ pc \in [Rank -> {"scan", "create", "sent", "recv",
                 "open", "barrier", "reduce", "done"}]
      BY Facts DEF Single, Counting, TypeOK
    <2>1. CASE Finish(r)
      <3>1. pc'[r] = "done"
        BY <2>1, Finishing
      <3> QED BY <3>1 DEF Flagged
    <2>2. CASE Begins(r)
      <3>1. pc'[r] \in {"create", "recv"} /\ flag'[r] = 0
        BY <2>2 DEF Begins
      <3> QED BY <3>1 DEF Flagged
    <2>3. CASE Advances(r)
      <3>1. /\ cur'[r] = cur[r] /\ ~Idle(r) /\ ~Idle(r)'
        BY <2>3 DEF Advances
      <3>2. ~Finish(r) /\ ~Begin(r) /\ pc'[r] # "scan"
        BY <3>1 DEF Idle, Finish, Begin
      <3>3. failed' = {} => failed = {}
        BY <1>0
      <3>5. CASE Create(r)
        BY <2>0, <3>5 DEF Create, Flagged
      <3>6. CASE CreateFails(r)
        BY <2>0, <3>6 DEF CreateFails, Flagged
      <3>7. CASE Sent(r)
        BY <1>0, <2>0, <3>1, <3>7 DEF Sent, Flagged, Progress
      <3>8. CASE Receive(r)
        BY <2>0, <3>8 DEF Receive, Flagged
      <3>9. CASE Open(r)
        <4>1. pc[r] = "open" /\ pc'[r] = "barrier"
          BY <2>0, <3>9 DEF Open
        <4>2. seg[cur[r]] = "linked"
          <5>1. Sourced(r) /\ cur[r] \in Rank
            BY <2>0, <3>1, Facts DEF Single, Progress
          <5>2. pc[cur[r]] \in {"sent", "barrier"} /\ Round(cur[r]) = Round(r)
            BY <4>1, <5>1 DEF Sourced
          <5>3. cur[cur[r]] = cur[r]
            BY <3>1, <5>1, <5>2 DEF Counting, Double, InStep, Idle
          <5>4. Segment(cur[r])
            BY <5>1, Facts DEF Single
          <5>5. "create" \notin failed
            BY <4>1 DEF Counting, Stuck
          <5> QED BY <5>2, <5>3, <5>4, <5>5 DEF Segment
        <4>3. Visible(r) <=> nodeOf[r] = nodeOf[cur[r]]
          BY <4>2 DEF Visible
        <4>4. \/ flag'[r] = (IF Visible(r) THEN 1 ELSE 0)
              \/ flag'[r] = 0 /\ failed' # {}
          BY <2>0, <3>9, <4>1 DEF Open, Flagged
        <4> QED BY <1>0, <3>1, <4>1, <4>3, <4>4 DEF Flagged
      <3>10. CASE LeaveBarrier(r)
        BY <1>0, <2>0, <3>1, <3>3, <3>10 DEF LeaveBarrier, Flagged
      <3>11. CASE Aggregated(r)
        BY <1>0, <2>0, <3>1, <3>2, <3>3, <3>11 DEF Aggregated, Assign, Flagged
      <3>12. CASE Reduced(r)
        BY <2>0, <3>2, <3>12 DEF Reduced, Assign
      <3> QED BY <3>2, <3>5, <3>6, <3>7, <3>8, <3>9, <3>10, <3>11, <3>12 DEF Step
    <2>4. CASE Completes(r)
      <3>1. pc'[r] = "scan"
        BY <2>4 DEF Completes
      <3> QED BY <3>1 DEF Flagged
    <2> QED BY <2>1, <2>2, <2>3, <2>4, StepKinds
  <1> QED BY <1>1, <1>2

\* What has been said stays said.
LEMMA GivenKept ==
    ASSUME Counting, NEW r \in Rank, Step(r), NEW p \in Rank, Base(p)' = Base(p), NEW q \in Rank
    PROVE  /\ Place(p, q)' = Place(p, q)
           /\ Len(log[q]) >= Place(p, q) =>
                /\ Len(log'[q]) >= Place(p, q)
                /\ Given(p, q)' = Given(p, q)
  <1>1. Place(p, q)' = Place(p, q)
    BY StepKinds DEF Place, world
  <1>2. /\ Place(p, q) \in Nat /\ Place(p, q) >= 1
        /\ Len(log[q]) \in Nat /\ Len(log'[q]) \in Nat /\ Len(log'[q]) >= Len(log[q])
    <2>1. Place(p, q) \in Nat /\ Place(p, q) > Base(p) + 2 /\ Base(p) \in Nat
      BY Facts
    <2>2. Len(log[q]) \in Nat /\ Len(log'[q]) \in Nat /\ Len(log'[q]) >= Len(log[q])
      BY StepKinds, Facts DEF LogsKept
    <2> QED BY <2>1, <2>2
  <1>3. ASSUME Len(log[q]) >= Place(p, q)
        PROVE  log'[q][Place(p, q)] = log[q][Place(p, q)]
    <2>1. Place(p, q) \in 1..Len(log[q])
      BY <1>2, <1>3
    <2> QED BY <2>1, StepKinds DEF LogsKept
  <1> QED BY <1>1, <1>2, <1>3 DEF Given

\* A rank's sums are what the ranks so far have said.
LEMMA SummedKept ==
    ASSUME Counting, NEW r \in Rank, Step(r), NEW p \in Rank
    PROVE  Summed(p)'
  <1>1. CASE p # r
    <2>1. Summed(p) /\ Unmoved(p)
      BY <1>1, Facts, Others DEF Single
    <2>2. /\ pc'[p] = pc[p] /\ total'[p] = total[p] /\ Here(p)' = Here(p) /\ Base(p)' = Base(p)
      BY <2>1 DEF Unmoved, Here
    <2> QED BY <2>1, <2>2, GivenKept DEF Summed
  <1>2. Summed(r)'
    <2>0. /\ Summed(r) /\ Progress(r)
          /\ total \in [Rank -> [Rank -> 0..1]]
          /\ pc \in [Rank -> {"scan", "create", "sent", "recv",
                 "open", "barrier", "reduce", "done"}]
      BY Facts DEF Single, Counting, TypeOK
    <2>1. CASE Finish(r)
      <3>1. pc'[r] = "done"
        BY <2>1, Finishing
      <3> QED BY <3>1 DEF Summed
    <2>2. CASE Begins(r)
      <3>1. pc'[r] \in {"create", "recv"} /\ total'[r] = [q \in Rank |-> 0]
        BY <2>2 DEF Begins, Vector
      <3> QED BY <3>1 DEF Summed
    <2>3. CASE Advances(r)
      <3>1. /\ Base(r)' = Base(r) /\ ~Idle(r) /\ ~Idle(r)'
        BY <2>3 DEF Advances
      <3>2. ~Finish(r) /\ ~Begin(r) /\ pc'[r] # "scan"
        BY <3>1 DEF Idle, Finish, Begin
      <3>3. CASE pc'[r] # "reduce"
        <4>1. /\ pc[r] \in {"create", "sent", "recv", "open", "barrier"} /\ total' = total
          BY <2>0, <3>2, <3>3 DEF Step, Create, CreateFails, Sent, Receive, Open, LeaveBarrier,
              Reduced, Aggregated, Assign, loop
        <4> QED BY <2>0, <3>3, <4>1 DEF Summed
      <3>4. CASE pc'[r] = "reduce" /\ pc[r] = "barrier"
        <4>1. Here(r)'.src = 0 /\ total' = total
          BY <3>2, <3>4, ReducesNext
        <4>2. \A q \in Rank : total'[r][q] = 0 /\ ~(q < 0)
          BY <2>0, <3>4, <4>1, CallFacts DEF Summed
        <4> QED BY <3>4, <4>1, <4>2 DEF Summed
      <3>5. CASE pc'[r] = "reduce" /\ pc[r] # "barrier"
        <4> DEFINE i == Here(r).src
                   sums == [total[r] EXCEPT ![i] = @ + ValueOf(r, i)]
        <4>1. /\ pc[r] = "reduce" /\ stateless /\ Over(r) /\ Here(r)'.src = i + 1
              /\ total' = [total EXCEPT ![r] = sums]
          BY <3>2, <3>5, ReducesNext
        <4>2. total'[r] = sums
          BY <2>0, <4>1
        <4>3. \A q \in Rank :
                IF q <= i THEN Len(log[q]) >= Place(r, q) /\ sums[q] = Given(r, q)
                ELSE sums[q] = 0
          BY <4>1, Summing
        <4>4. i \in Nat /\ Rank \subseteq Nat
          BY <4>1, Reducing, CallFacts
        <4>5. ASSUME NEW q \in Rank
              PROVE  IF q < Here(r)'.src
                     THEN Len(log'[q]) >= Place(r, q)' /\ total'[r][q] = Given(r, q)'
                     ELSE total'[r][q] = 0
          <5>1. q < Here(r)'.src <=> q <= i
            BY <4>1, <4>4
          <5> QED BY <3>1, <4>2, <4>3, <5>1, GivenKept
        <4> QED BY <3>5, <4>5 DEF Summed
      <3> QED BY <3>3, <3>4, <3>5
    <2>4. CASE Completes(r)
      <3>1. pc'[r] = "scan"
        BY <2>4 DEF Completes
      <3> QED BY <3>1 DEF Summed
    <2> QED BY <2>1, <2>2, <2>3, <2>4, StepKinds
  <1> QED BY <1>1, <1>2

\* A rank in a round has given the source's node a number.
LEMMA Busy ==
    ASSUME Counting, NEW r \in Rank, ~Idle(r)
    PROVE  /\ cur[r] \in Rank /\ assigned[r][cur[r]] = nextId[r]
           /\ nextId[r] >= 1 /\ nextId[r] # 0
  <1>1. Progress(r) /\ nextId[r] \in Nat /\ cur[r] \in Nat
    BY Facts
  <1>2. nextId[r] \in 1..cur[r] + 1
    BY <1>1 DEF Progress
  <1>3. nextId[r] >= 1 /\ nextId[r] # 0
    BY <1>1, <1>2
  <1> QED BY <1>1, <1>3 DEF Progress

\* What rank r learns in its round, from the flags that the ranks have given.
LEMMA Learning ==
    ASSUME Counting, NEW r \in Rank, pc[r] = "reduce",
           \A q \in Rank : Len(log[q]) >= Place(r, q), NEW q \in Rank
    PROVE  /\ assigned[r][q] # 0 => After(r, q) = assigned[r][q]
           /\ assigned[r][q] = 0 /\ After(r, q) # 0 =>
                After(r, q) = nextId[r] /\ nodeOf[q] = nodeOf[cur[r]]
           /\ failed = {} /\ nodeOf[q] = nodeOf[cur[r]] => After(r, q) # 0
           /\ After(r, q) = nextId[r] => nodeOf[q] = nodeOf[cur[r]]
  <1>1. /\ Apart(r) /\ Told(r, q)
        /\ cur[r] \in Rank /\ assigned[r][cur[r]] = nextId[r] /\ nextId[r] # 0
    <2>1. ~Idle(r)
      BY DEF Idle
    <2> QED BY <2>1, Busy DEF Counting, Single, Double
  <1>2. Given(r, q) = 1 => nodeOf[q] = nodeOf[cur[r]]
    BY <1>1 DEF Told
  <1>3. failed = {} /\ nodeOf[q] = nodeOf[cur[r]] => Given(r, q) = 1
    BY <1>1 DEF Told
  <1>4. assigned[r][q] = nextId[r] => nodeOf[q] = nodeOf[cur[r]]
    BY <1>1 DEF Apart
  <1> QED BY <1>1, <1>2, <1>3, <1>4 DEF After

\* No step gives one number to two nodes.
LEMMA ApartKept ==
    ASSUME Counting, NEW r \in Rank, Step(r), NEW p \in Rank
    PROVE  Apart(p)'
  <1>0. nodeOf' = nodeOf
    BY StepKinds DEF world
  <1>1. CASE assigned'[p] = assigned[p]
    <2>1. Apart(p)
      BY DEF Counting, Single
    <2> QED BY <1>0, <1>1, <2>1 DEF Apart
  <1>2. CASE p = r /\ Begins(r)
    <2> DEFINE s == Min(Unassigned(r))
    <2>0. /\ Progress(r) /\ Apart(r) /\ nextId[r] \in Nat
          /\ \A q \in Rank : assigned[r][q] \in Nat
      BY Facts, WorldSizeAssumption DEF Single, Counting, TypeOK
    <2>1. s \in Rank /\ assigned[r][s] = 0
      BY <1>2, MinExists, CallFacts DEF Begins, Unassigned
    <2>2. /\ assigned'[r][s] = nextId[r] + 1
          /\ \A q \in Rank : q # s => assigned'[r][q] = assigned[r][q]
      BY <1>2, <2>1 DEF Begins, Counting, TypeOK
    <2>3. \A q \in Rank : assigned[r][q] # nextId[r] + 1
      BY <2>0 DEF Progress
    <2>4. Apart(r)'
      BY <1>0, <2>0, <2>1, <2>2, <2>3 DEF Apart
    <2> QED BY <1>2, <2>4
  <1>3. CASE p = r /\ Completes(r)
    <2>1. /\ pc[r] = "reduce" /\ \A q \in Rank : assigned'[r][q] = After(r, q)
          /\ \A q \in Rank : Len(log[q]) >= Place(r, q)
      BY <1>3 DEF Completes
    <2>2. ASSUME NEW a \in Rank, NEW b \in Rank, After(r, a) # 0, After(r, a) = After(r, b)
          PROVE  nodeOf[a] = nodeOf[b]
      <3>1. CASE After(r, a) = nextId[r]
        <4>1. After(r, b) = nextId[r]
          BY <2>2, <3>1
        <4>2. nodeOf[a] = nodeOf[cur[r]] /\ nodeOf[b] = nodeOf[cur[r]]
          BY <2>1, <3>1, <4>1, Learning
        <4> QED BY <4>2
      <3>2. CASE After(r, a) # nextId[r]
        <4>1. assigned[r][a] = After(r, a) /\ assigned[r][b] = After(r, b)
          BY <2>2, <3>2 DEF After
        <4>2. Apart(r)
          BY DEF Counting, Single
        <4> QED BY <2>2, <4>1, <4>2 DEF Apart
      <3> QED BY <3>1, <3>2
    <2>3. Apart(r)'
      BY <1>0, <2>1, <2>2 DEF Apart
    <2> QED BY <1>3, <2>3
  <1>4. \/ p = r /\ Begins(r)
        \/ p = r /\ Completes(r)
        \/ assigned'[p] = assigned[p]
    <2>1. p # r => assigned'[p] = assigned[p]
      BY Others DEF Unmoved
    <2>2. Finish(r) => assigned' = assigned
      BY Finishing
    <2>3. Advances(r) => assigned'[r] = assigned[r]
      BY DEF Advances
    <2> QED BY <2>1, <2>2, <2>3, StepKinds
  <1> QED BY <1>1, <1>2, <1>3, <1>4

\* Without failures, no step parts the ranks of a node.
LEMMA TogetherKept ==
    ASSUME Counting, NEW r \in Rank, Step(r), NEW p \in Rank
    PROVE  Together(p)'
  <1>0. nodeOf' = nodeOf /\ (failed' = {} => failed = {})
    BY StepKinds DEF world
  <1>1. CASE assigned'[p] = assigned[p] /\ cur'[p] = cur[p] /\ (Idle(p)' <=> Idle(p))
    <2>1. Together(p)
      BY DEF Counting, Single
    <2> QED BY <1>0, <1>1, <2>1 DEF Together
  <1>2. CASE p = r /\ Begins(r)
    <2> DEFINE s == Min(Unassigned(r))
    <2>1. s \in Rank /\ assigned[r][s] = 0 /\ Together(r)
      BY <1>2, MinExists, CallFacts, Facts DEF Begins, Unassigned, Single
    <2>2. /\ Idle(r) /\ ~Idle(r)' /\ cur'[r] = s
          /\ \A q \in Rank : q # s => assigned'[r][q] = assigned[r][q]
      BY <1>2, <2>1 DEF Begins, Counting, TypeOK
    <2>3. Together(r)'
      BY <1>0, <2>1, <2>2 DEF Together
    <2> QED BY <1>2, <2>3
  <1>3. CASE p = r /\ Completes(r)
    <2>1. /\ pc[r] = "reduce" /\ \A q \in Rank : assigned'[r][q] = After(r, q)
          /\ \A q \in Rank : Len(log[q]) >= Place(r, q)
          /\ ~Idle(r) /\ Idle(r)'
      BY <1>3 DEF Completes, Idle
    <2>2. /\ Together(r) /\ cur[r] \in Rank /\ assigned[r][cur[r]] = nextId[r] /\ nextId[r] # 0
      BY <2>1, Busy DEF Counting, Single
    <2>3. ASSUME failed = {}, NEW a \in Rank, NEW b \in Rank, nodeOf[a] = nodeOf[b]
          PROVE  After(r, a) = After(r, b)
      <3>1. CASE nodeOf[a] = nodeOf[cur[r]]
        <4>1. ASSUME NEW q \in Rank, nodeOf[q] = nodeOf[cur[r]]
              PROVE  After(r, q) = nextId[r]
          <5>1. After(r, q) # 0
            BY <2>1, <2>3, <4>1, Learning
          <5>2. assigned[r][q] = 0 \/ q = cur[r]
            BY <2>1, <2>2, <2>3, <4>1 DEF Together
          <5> QED BY <2>2, <5>1, <5>2 DEF After
        <4> QED BY <2>3, <3>1, <4>1
      <3>2. CASE nodeOf[a] # nodeOf[cur[r]]
        <4>1. assigned[r][a] = assigned[r][b]
          BY <2>1, <2>2, <2>3, <3>2 DEF Together
        <4>2. After(r, a) = assigned[r][a] /\ After(r, b) = assigned[r][b]
          <5>1. Given(r, a) # 1 /\ Given(r, b) # 1
            BY <2>1, <2>3, <3>2 DEF Counting, Double, Told
          <5> QED BY <5>1 DEF After
        <4> QED BY <4>1, <4>2
      <3> QED BY <3>1, <3>2
    <2>4. Together(r)'
      BY <1>0, <2>1, <2>3 DEF Together
    <2> QED BY <1>3, <2>4
  <1>4. \/ p = r /\ Begins(r)
        \/ p = r /\ Completes(r)
        \/ assigned'[p] = assigned[p] /\ cur'[p] = cur[p] /\ (Idle(p)' <=> Idle(p))
    <2>1. p # r => assigned'[p] = assigned[p] /\ cur'[p] = cur[p] /\ (Idle(p)' <=> Idle(p))
      BY Others DEF Unmoved
    <2>2. Finish(r) => assigned' = assigned /\ cur' = cur /\ (Idle(r)' <=> Idle(r))
      BY Finishing
    <2>3. Advances(r) => /\ assigned'[r] = assigned[r] /\ cur'[r] = cur[r]
                         /\ (Idle(r)' <=> Idle(r))
      BY DEF Advances
    <2> QED BY <2>1, <2>2, <2>3, StepKinds
  <1> QED BY <1>1, <1>2, <1>3, <1>4

---------------------------------------------------------------------------
(* Two ranks.                                                              *)

LEMMA SteadySteps ==
    ASSUME Counting, NEW r \in Rank, Step(r), NEW p \in Rank
    PROVE  \/ Steady(p)
           \/ p = r /\ Begins(r)
           \/ p = r /\ Completes(r)
  <1>0. Offset(p) \in Nat
    BY Facts
  <1>1. Unmoved(p) => Steady(p)
    BY <1>0 DEF Unmoved, Steady
  <1>2. p = r /\ Finish(r) => Steady(p)
    <2> SUFFICES ASSUME Finish(r)
                 PROVE  Steady(r)
      OBVIOUS
    <2>1. /\ pc[r] = "scan" /\ Idle(r) /\ Idle(r)' /\ Round(r)' = Round(r) /\ Base(r)' = Base(r)
          /\ cur' = cur /\ assigned' = assigned /\ nextId' = nextId
      BY Finishing
    <2>2. Offset(r) = 0
      BY <2>1 DEF Offset
    <2>3. Offset(r)' = 0
      BY Finishing DEF Offset
    <2> QED BY <2>1, <2>2, <2>3 DEF Steady
  <1>3. p = r /\ Advances(r) => Steady(p)
    <2> SUFFICES ASSUME Advances(r)
                 PROVE  Steady(r)
      OBVIOUS
    <2>1. pc[r] = "reduce" => pc'[r] = "reduce"
      <3>1. SUFFICES ASSUME pc[r] = "reduce"
                     PROVE  pc'[r] = "reduce"
        OBVIOUS
      <3>2. ~Idle(r)' /\ pc'[r] # "scan"
        BY DEF Advances, Idle
      <3> QED BY <3>1, <3>2 DEF Step, Finish, Begin, Create, CreateFails, Sent, Receive, Open,
              LeaveBarrier, Reduced, Aggregated, Assign, Counting, TypeOK
    <2> QED BY <2>1 DEF Advances, Steady
  <1> QED BY <1>1, <1>2, <1>3, StepKinds, Others

\* What a rank will have learnt does not depend on what the others do meanwhile.
LEMMA AfterKept ==
    ASSUME Counting, NEW r \in Rank, Step(r), NEW p \in Rank,
           Base(p)' = Base(p), assigned'[p] = assigned[p], nextId'[p] = nextId[p],
           NEW q \in Rank, Len(log[q]) >= Place(p, q)
    PROVE  /\ After(p, q)' = After(p, q)
           /\ Len(log'[q]) >= Place(p, q)'
  BY GivenKept DEF After

\* Two ranks that complete the same round learn the same.
LEMMA AfterAgrees ==
    ASSUME Counting, NEW a \in Rank, NEW b \in Rank, Round(a) = Round(b),
           ~Idle(a), ~Idle(b), NEW q \in Rank
    PROVE  Place(a, q) = Place(b, q) /\ After(a, q) = After(b, q)
  <1>1. Double(a, b)
    BY DEF Counting
  <1>2. Base(a) = Base(b) /\ cur[a] = cur[b] /\ assigned[a] = assigned[b]
    BY <1>1 DEF Double, InStep
  <1>3. nextId[a] = nextId[b]
    <2>1. nextId[a] \in Nat /\ nextId[b] \in Nat /\ nextId[a] - 1 = nextId[b] - 1
      BY Facts DEF Round
    <2> QED BY <2>1
  <1> QED BY <1>2, <1>3 DEF Place, Given, After

\* When a rank completes a round, those in the same round are about to.
LEMMA CompletesTogether ==
    ASSUME Counting, NEW r \in Rank, pc[r] = "reduce", NEW p \in Rank,
           Len(log[p]) >= Place(r, p)
    PROVE  \/ Round(p) = Round(r) + 1
           \/ Round(p) = Round(r) /\ pc[p] = "reduce"
  <1>1. /\ Double(r, p) /\ Offset(p) \in Nat /\ Base(p) \in Nat /\ Base(r) \in Nat
        /\ Len(log[p]) = Base(p) + Offset(p) /\ Place(r, p) \in Nat /\ Place(r, p) > Base(r) + 2
    BY Facts DEF Counting
  <1>2. CASE Round(p) = Round(r)
    <2>1. Offset(p) > 2
      BY <1>1, <1>2 DEF Double, InStep
    <2>2. pc[p] = "reduce"
      BY <2>1 DEF Offset, Idle, Counting, TypeOK
    <2> QED BY <1>2, <2>2
  <1> QED BY <1>1, <1>2 DEF Double, Close

\* The number of calls in a round stays a number.
LEMMA OffsetIsInt ==
    ASSUME Counting, NEW r \in Rank, Step(r), NEW p \in Rank
    PROVE  Offset(p)' \in Int
  <1>1. Offset(p) \in Int /\ Offset(r) \in Int
    BY Facts
  <1>2. p # r => Offset(p)' = Offset(p)
    BY Others DEF Unmoved
  <1>3. Offset(r)' \in Int
    <2>1. CASE Finish(r)
      BY <2>1, Finishing DEF Offset
    <2>2. CASE Begins(r)
      <3>1. Offset(r)' \in {0, 1}
        BY <2>2 DEF Begins, Offset, Idle
      <3> QED BY <3>1
    <2>3. CASE Advances(r)
      BY <1>1, <2>3, NextCall
    <2>4. CASE Completes(r)
      BY <2>4 DEF Completes, Offset, Idle
    <2> QED BY <2>1, <2>2, <2>3, <2>4, StepKinds
  <1> QED BY <1>1, <1>2, <1>3

\* Steps within rounds keep every two ranks as they are.
LEMMA SteadyPair ==
    ASSUME Counting, NEW r \in Rank, Step(r), NEW a \in Rank, NEW b \in Rank,
           Steady(a), Steady(b)
    PROVE  InStep(a, b)' /\ Ahead(a, b)' /\ Close(a, b)'
  <1>0. /\ Double(a, b) /\ Double(b, a) /\ Offset(b) \in Nat /\ RoundLength' = RoundLength
        /\ Offset(b)' >= Offset(b) /\ Round(a) \in Int /\ Round(b) \in Int
    <2>1. Double(a, b) /\ Double(b, a)
      BY DEF Counting
    <2>2. RoundLength' = RoundLength
      BY StepKinds DEF world, RoundLength
    <2> QED BY <2>1, <2>2, Facts DEF Steady
  <1>1. InStep(a, b)'
    BY <1>0 DEF Double, InStep, Steady, Follows
  <1>2. \/ pc'[a] = "reduce" <=> pc[a] = "reduce"
        \/ \A p \in Rank : Round(p) = Round(a) /\ pc[p] \in {"barrier", "reduce"}
    <2>1. ASSUME pc'[a] = "reduce", pc[a] # "reduce"
          PROVE  \A p \in Rank : Round(p) = Round(a) /\ pc[p] \in {"barrier", "reduce"}
      <3>1. a = r
        BY <2>1, Others DEF Unmoved
      <3>2. pc[a] = "barrier" /\ Over(a)
        BY <2>1, <3>1 DEF Step, Finish, Begin, Create, CreateFails, Sent, Receive, Open,
              LeaveBarrier, Reduced, Aggregated, Assign, Counting, TypeOK
      <3> QED BY <3>2, BarrierHolds
    <2> QED BY <2>1 DEF Steady
  <1>3. \/ pc'[b] = "reduce" <=> pc[b] = "reduce"
        \/ \A p \in Rank : Round(p) = Round(b)
    <2>1. ASSUME pc'[b] = "reduce", pc[b] # "reduce"
          PROVE  \A p \in Rank : Round(p) = Round(b)
      <3>1. b = r
        BY <2>1, Others DEF Unmoved
      <3>2. pc[b] = "barrier" /\ Over(b)
        BY <2>1, <3>1 DEF Step, Finish, Begin, Create, CreateFails, Sent, Receive, Open,
              LeaveBarrier, Reduced, Aggregated, Assign, Counting, TypeOK
      <3> QED BY <3>2, BarrierHolds
    <2> QED BY <2>1 DEF Steady
  <1>4. Ahead(a, b)'
    <2> SUFFICES ASSUME Round(b) = Round(a) + 1
                 PROVE  /\ Base(b)' = Base(a)' + RoundLength'
                        /\ pc'[a] = "reduce" /\ pc'[b] # "reduce"
                        /\ \A q \in Rank : Len(log'[q]) >= Place(a, q)'
                        /\ Follows(b, cur[a] + 1, [q \in Rank |-> After(a, q)])'
      BY DEF Ahead, Steady
    <2>1. /\ Base(b) = Base(a) + RoundLength /\ pc[a] = "reduce" /\ pc[b] # "reduce"
          /\ \A q \in Rank : Len(log[q]) >= Place(a, q)
          /\ Follows(b, cur[a] + 1, [q \in Rank |-> After(a, q)])
      BY <1>0 DEF Double, Ahead
    <2>2. \A q \in Rank : After(a, q)' = After(a, q) /\ Len(log'[q]) >= Place(a, q)'
      BY <2>1, AfterKept DEF Steady
    <2>3. pc'[b] # "reduce"
      <3>1. Round(a) # Round(b)
        BY <1>0
      <3> QED BY <1>3, <2>1, <3>1
    <2>4. Follows(b, cur[a] + 1, [q \in Rank |-> After(a, q)])'
      BY <2>1, <2>2 DEF Follows, Steady
    <2> QED BY <1>0, <2>1, <2>2, <2>3, <2>4 DEF Steady
  <1>5. Close(a, b)'
    <2>1. /\ Round(b)' = Round(b) /\ Round(a)' = Round(a)
          /\ Round(b) = Round(a) \/ Round(b) = Round(a) + 1 \/ Round(a) = Round(b) + 1
      BY <1>0 DEF Double, Close, Steady
    <2>2. ASSUME pc'[a] = "reduce"
          PROVE  \/ Round(b) = Round(a) + 1
                 \/ Round(b) = Round(a) /\ Offset(b)' >= 2
      <3>1. CASE pc[a] = "reduce"
        <4>1. Offset(b) >= 2 => Offset(b)' >= 2
          <5>1. Offset(b)' \in Int
            BY <1>0, OffsetIsInt
          <5> QED BY <1>0, <5>1
        <4> QED BY <1>0, <3>1, <4>1 DEF Double, Close
      <3>2. CASE pc[a] # "reduce"
        <4>1. a = r
          BY <2>2, <3>2, Others DEF Unmoved
        <4>2. pc[a] = "barrier" /\ Over(a)
          BY <2>2, <3>2, <4>1 DEF Step, Finish, Begin, Create, CreateFails, Sent, Receive, Open,
              LeaveBarrier, Reduced, Aggregated, Assign, Counting, TypeOK
        <4>3. /\ Round(b) = Round(a) /\ pc[b] \in {"barrier", "reduce"}
              /\ "create" \notin failed
          BY <4>2, BarrierHolds
        <4>4. Offset(b) >= 2
          <5>1. pc[b] = "reduce" => Offset(b) = 3 + Here(b).src /\ Here(b).src \in Nat
            BY Reducing, CallFacts
          <5>2. pc[b] = "barrier" => Offset(b) = 2
            BY <4>3 DEF Offset, Idle
          <5> QED BY <4>3, <5>1, <5>2
        <4>5. Offset(b)' \in Int
          BY OffsetIsInt
        <4> QED BY <1>0, <4>3, <4>4, <4>5
      <3> QED BY <3>1, <3>2
    <2> QED BY <2>1, <2>2 DEF Close
  <1> QED BY <1>1, <1>4, <1>5

\* A rank that begins a round keeps its map, but for the source of the round.
LEMMA Begun ==
    ASSUME Counting, NEW r \in Rank, Begins(r)
    PROVE  /\ cur'[r] \in Rank /\ cur'[r] = Min(Unassigned(r)) /\ Unassigned(r) # {}
           /\ assigned[r][cur'[r]] = 0 /\ assigned'[r][cur'[r]] = nextId[r] + 1
           /\ \A q \in Rank : q # cur'[r] => assigned'[r][q] = assigned[r][q]
  <1>1. cur'[r] = Min(Unassigned(r)) /\ Unassigned(r) # {}
    BY DEF Begins
  <1>2. cur'[r] \in Rank /\ assigned[r][cur'[r]] = 0
    BY <1>1, MinExists, CallFacts DEF Unassigned
  <1>3. /\ \A q \in Rank : q # cur'[r] => assigned'[r][q] = assigned[r][q]
        /\ assigned'[r][cur'[r]] = nextId[r] + 1
    BY <1>2 DEF Begins, Counting, TypeOK
  <1> QED BY <1>1, <1>2, <1>3

\* A rank that begins a round stays in step with the others.
LEMMA BeginsPair ==
    ASSUME Counting, NEW r \in Rank, Step(r), Begins(r), NEW b \in Rank, b # r
    PROVE  /\ InStep(r, b)' /\ Ahead(r, b)' /\ Close(r, b)'
           /\ InStep(b, r)' /\ Ahead(b, r)' /\ Close(b, r)'
  <1>1. /\ Idle(r) /\ ~Idle(r)' /\ Round(r)' = Round(r) /\ Base(r)' = Base(r)
        /\ pc[r] # "reduce" /\ pc'[r] # "reduce" /\ nextId'[r] = nextId[r] + 1
        /\ cur'[r] \in Rank /\ Offset(r) = 0
    BY Begun DEF Begins, Offset, Idle
  <1>2. /\ pc'[b] = pc[b] /\ cur'[b] = cur[b] /\ assigned'[b] = assigned[b]
        /\ nextId'[b] = nextId[b]
        /\ (Idle(b)' <=> Idle(b)) /\ Round(b)' = Round(b)
        /\ Offset(b)' = Offset(b) /\ Base(b)' = Base(b)
    BY Others DEF Unmoved
  <1>3. /\ InStep(r, b) /\ Ahead(r, b) /\ Close(r, b)
        /\ InStep(b, r) /\ Ahead(b, r) /\ Close(b, r)
        /\ Round(r) \in Int /\ Round(b) \in Int /\ RoundLength' = RoundLength
    <2>1. RoundLength' = RoundLength
      BY StepKinds DEF world, RoundLength
    <2> QED BY <2>1, Facts DEF Counting, Double
  <1>4. ASSUME Round(b) = Round(r), ~Idle(b)
        PROVE  cur'[r] = cur[b] /\ assigned'[r] = assigned[b]
    <2>1. /\ cur[b] = Min(Unassigned(r))
          /\ \A q \in Rank : q # cur[b] => assigned[b][q] = assigned[r][q]
      BY <1>1, <1>3, <1>4 DEF InStep, Follows, Unassigned
    <2>2. assigned[b][cur[b]] = nextId[r] + 1
      <3>1. nextId[b] - 1 = nextId[r] /\ nextId[b] \in Nat /\ nextId[r] \in Nat
        BY <1>1, <1>4, Facts DEF Round
      <3> QED BY <1>4, <3>1, Busy
    <2>3. assigned[b] \in [Rank -> 0..WorldSize] /\ assigned[r] \in [Rank -> 0..WorldSize]
      BY DEF Counting, TypeOK
    <2>4. assigned'[r] = [assigned[r] EXCEPT ![cur[b]] = nextId[r] + 1] /\ cur'[r] = cur[b]
      BY <2>1 DEF Begins
    <2>5. \A q \in Rank : assigned'[r][q] = assigned[b][q]
      BY <2>1, <2>2, <2>3, <2>4
    <2>6. assigned'[r] = [q \in Rank |-> assigned'[r][q]]
      BY <2>3, <2>4
    <2>7. assigned[b] = [q \in Rank |-> assigned[b][q]]
      BY <2>3
    <2> QED BY <2>4, <2>5, <2>6, <2>7
  <1>5. InStep(r, b)'
    BY <1>1, <1>2, <1>3, <1>4 DEF InStep
  <1>6. ASSUME Round(b) = Round(r), Idle(b)
        PROVE  Follows(r, cur[b], assigned[b])'
    <2>1. cur[r] = cur[b] /\ \A q \in Rank : assigned[r][q] = assigned[b][q]
      BY <1>1, <1>3, <1>6 DEF InStep, Follows
    <2>2. LET candidates == {c \in Rank : c >= cur[b] /\ assigned[b][c] = 0}
          IN  /\ candidates # {}
              /\ cur'[r] = Min(candidates)
              /\ \A q \in Rank : q # cur'[r] => assigned'[r][q] = assigned[b][q]
      <3>1. {c \in Rank : c >= cur[b] /\ assigned[b][c] = 0} = Unassigned(r)
        BY <2>1 DEF Unassigned
      <3> QED BY <2>1, <3>1, Begun
    <2> QED BY <1>1, <1>2, <2>2 DEF Follows
  <1>7. InStep(b, r)'
    BY <1>1, <1>2, <1>3, <1>4, <1>6 DEF InStep
  <1>8. Ahead(r, b)'
    BY <1>1, <1>2, <1>3 DEF Ahead
  <1>9. Ahead(b, r)'
    <2> SUFFICES ASSUME Round(r) = Round(b) + 1
                 PROVE  /\ Base(r)' = Base(b)' + RoundLength'
                        /\ pc'[b] = "reduce" /\ pc'[r] # "reduce"
                        /\ \A q \in Rank : Len(log'[q]) >= Place(b, q)'
                        /\ Follows(r, cur[b] + 1, [q \in Rank |-> After(b, q)])'
      BY <1>1, <1>2 DEF Ahead
    <2>1. /\ Base(r) = Base(b) + RoundLength /\ pc[b] = "reduce"
          /\ \A q \in Rank : Len(log[q]) >= Place(b, q)
          /\ cur[r] = cur[b] + 1
          /\ \A q \in Rank : assigned[r][q] = After(b, q)
      BY <1>1, <1>3 DEF Ahead, Follows
    <2>2. \A q \in Rank : After(b, q)' = After(b, q) /\ Len(log'[q]) >= Place(b, q)'
      BY <1>2, <2>1, AfterKept
    <2> DEFINE map == [q \in Rank |-> After(b, q)]
    <2>3. LET candidates == {c \in Rank : c >= cur[b] + 1 /\ map[c] = 0}
          IN  /\ candidates # {}
              /\ cur'[r] = Min(candidates)
              /\ \A q \in Rank : q # cur'[r] => assigned'[r][q] = map[q]
      <3>1. \A q \in Rank : assigned[r][q] = map[q]
        BY <2>1
      <3> HIDE DEF map
      <3>2. {c \in Rank : c >= cur[b] + 1 /\ map[c] = 0} = Unassigned(r)
        BY <2>1, <3>1 DEF Unassigned
      <3> QED BY <3>1, <3>2, Begun
    <2>4. map' = map
      BY <2>2
    <2>5. Follows(r, cur[b] + 1, map)'
      <3> HIDE DEF map
      <3> QED BY <1>1, <1>2, <2>3, <2>4 DEF Follows
    <2> QED BY <1>1, <1>2, <1>3, <2>1, <2>2, <2>5
  <1>10. Close(r, b)' /\ Close(b, r)'
    BY <1>1, <1>2, <1>3 DEF Close
  <1> QED BY <1>5, <1>7, <1>8, <1>9, <1>10

\* A rank that completes a round is one round ahead of those that have not, and in step
\* with those that have.
LEMMA CompletesPair ==
    ASSUME Counting, NEW r \in Rank, Step(r), Completes(r), NEW b \in Rank, b # r
    PROVE  /\ InStep(r, b)' /\ Ahead(r, b)' /\ Close(r, b)'
           /\ InStep(b, r)' /\ Ahead(b, r)' /\ Close(b, r)'
  <1>1. /\ pc[r] = "reduce" /\ pc'[r] = "scan" /\ ~Idle(r) /\ Idle(r)'
        /\ Round(r)' = Round(r) + 1 /\ Base(r)' = Base(r) + RoundLength
        /\ cur'[r] = cur[r] + 1
        /\ \A q \in Rank : Len(log[q]) >= Place(r, q) /\ assigned'[r][q] = After(r, q)
    BY DEF Completes, Idle
  <1>2. /\ pc'[b] = pc[b] /\ cur'[b] = cur[b] /\ assigned'[b] = assigned[b]
        /\ nextId'[b] = nextId[b]
        /\ (Idle(b)' <=> Idle(b)) /\ Round(b)' = Round(b)
        /\ Offset(b)' = Offset(b) /\ Base(b)' = Base(b)
    BY Others DEF Unmoved
  <1>3. /\ InStep(r, b) /\ Ahead(r, b) /\ Close(r, b)
        /\ InStep(b, r) /\ Ahead(b, r) /\ Close(b, r)
        /\ Round(r) \in Int /\ Round(b) \in Int /\ RoundLength' = RoundLength
    <2>1. RoundLength' = RoundLength
      BY StepKinds DEF world, RoundLength
    <2> QED BY <2>1, Facts DEF Counting, Double
  <1>4. CASE Round(b) = Round(r) + 1
    <2> DEFINE map == [q \in Rank |-> After(r, q)]
    <2>1. /\ Base(b) = Base(r) + RoundLength /\ pc[b] # "reduce"
          /\ Follows(b, cur[r] + 1, map)
      BY <1>3, <1>4 DEF Ahead
    <2>2. \A q \in Rank : assigned'[r][q] = map[q]
      BY <1>1
    <2> HIDE DEF map
    <2>3. {c \in Rank : c >= cur'[r] /\ assigned'[r][c] = 0}
            = {c \in Rank : c >= cur[r] + 1 /\ map[c] = 0}
      BY <1>1, <2>2
    <2>4. Follows(b, cur[r], assigned[r])'
      BY <1>1, <1>2, <2>1, <2>2, <2>3 DEF Follows
    <2>5. Idle(b) => Follows(r, cur[b], assigned[b])'
      BY <1>1, <1>2, <2>1, <2>2 DEF Follows
    <2>6. InStep(r, b)' /\ InStep(b, r)'
      BY <1>1, <1>2, <1>4, <2>1, <2>4, <2>5 DEF InStep
    <2>7. Ahead(r, b)' /\ Ahead(b, r)'
      BY <1>1, <1>2, <1>3, <1>4 DEF Ahead
    <2>8. Close(r, b)' /\ Close(b, r)'
      BY <1>1, <1>2, <1>4, <2>1 DEF Close
    <2> QED BY <2>6, <2>7, <2>8
  <1>5. CASE Round(b) = Round(r) /\ pc[b] = "reduce"
    <2>1. ~Idle(b) /\ Base(b) = Base(r) /\ cur[b] = cur[r]
      BY <1>1, <1>3, <1>5 DEF Idle, InStep
    <2>2. \A q \in Rank : Place(b, q) = Place(r, q) /\ After(b, q) = After(r, q)
      BY <1>1, <1>5, <2>1, AfterAgrees
    <2>3. \A q \in Rank : After(b, q)' = After(b, q) /\ Len(log'[q]) >= Place(b, q)'
      BY <1>1, <1>2, <2>2, AfterKept
    <2>4. \A q \in Rank : assigned'[r][q] = After(b, q)'
      BY <1>1, <2>2, <2>3
    <2>5. Follows(r, cur[b] + 1, [q \in Rank |-> After(b, q)])'
      BY <1>1, <1>2, <2>1, <2>4 DEF Follows
    <2>6. Ahead(r, b)' /\ Ahead(b, r)'
      BY <1>1, <1>2, <1>3, <1>5, <2>1, <2>3, <2>5 DEF Ahead
    <2>7. InStep(r, b)' /\ InStep(b, r)'
      BY <1>1, <1>2, <1>3, <1>5 DEF InStep
    <2>8. Close(r, b)' /\ Close(b, r)'
      BY <1>1, <1>2, <1>5 DEF Close
    <2> QED BY <2>6, <2>7, <2>8
  <1> QED BY <1>1, <1>4, <1>5, CompletesTogether

\* A rank is in step with itself.
LEMMA WithItself ==
    ASSUME Counting, NEW r \in Rank, Step(r)
    PROVE  InStep(r, r)' /\ Ahead(r, r)' /\ Close(r, r)'
  <1>1. CASE Steady(r)
    BY <1>1, SteadyPair
  <1>2. CASE Begins(r) \/ Completes(r)
    <2>1. Round(r)' \in Int /\ pc'[r] # "reduce" /\ (Idle(r)' => Completes(r))
      BY <1>2, Facts DEF Begins, Completes, Idle
    <2>2. Idle(r)' => Follows(r, cur[r], assigned[r])'
      BY DEF Follows
    <2>3. InStep(r, r)'
      BY <2>2 DEF InStep
    <2>4. Ahead(r, r)'
      BY <2>1 DEF Ahead
    <2>5. Close(r, r)'
      BY <2>1 DEF Close
    <2> QED BY <2>3, <2>4, <2>5
  <1> QED BY <1>1, <1>2, SteadySteps

\* Any two ranks stay in the same round, or one round apart.
LEMMA PairKept ==
    ASSUME Counting, NEW r \in Rank, Step(r), NEW a \in Rank, NEW b \in Rank
    PROVE  InStep(a, b)' /\ Ahead(a, b)' /\ Close(a, b)'
  <1>1. CASE Steady(a) /\ Steady(b)
    BY <1>1, SteadyPair
  <1>2. CASE a = r /\ b = r
    BY <1>2, WithItself
  <1>3. CASE a = r /\ b # r /\ (Begins(r) \/ Completes(r))
    BY <1>3, BeginsPair, CompletesPair
  <1>4. CASE a # r /\ b = r /\ (Begins(r) \/ Completes(r))
    BY <1>4, BeginsPair, CompletesPair
  <1> QED BY <1>1, <1>2, <1>3, <1>4, SteadySteps

\* The program counter stays in its range.
LEMMA CounterNext ==
    ASSUME Counting, NEW r \in Rank, Step(r)
    PROVE  pc' \in [Rank -> {"scan", "create", "sent", "recv", "open", "barrier", "reduce",
                             "done"}]
  <1> USE DEF Counting, TypeOK
  <1>1. CASE Finish(r)  BY <1>1 DEF Finish
  <1>2. CASE Begin(r)  BY <1>2 DEF Begin
  <1>3. CASE Create(r)  BY <1>3 DEF Create
  <1>4. CASE CreateFails(r)  BY <1>4 DEF CreateFails
  <1>5. CASE Sent(r)  BY <1>5 DEF Sent
  <1>6. CASE Receive(r)  BY <1>6 DEF Receive
  <1>7. CASE Open(r)  BY <1>7 DEF Open
  <1>8. CASE LeaveBarrier(r)  BY <1>8 DEF LeaveBarrier
  <1>9. CASE Reduced(r)  BY <1>9 DEF Reduced, Assign
  <1>10. CASE Aggregated(r)  BY <1>10 DEF Aggregated, Assign
  <1> QED BY <1>1, <1>2, <1>3, <1>4, <1>5, <1>6, <1>7, <1>8, <1>9, <1>10 DEF Step

\* The numbers stay numbers.
LEMMA NumbersNext ==
    ASSUME Counting, NEW r \in Rank, Step(r), NEW p \in Rank
    PROVE  /\ Offset(p)' \in Int /\ Base(p)' \in Int /\ Round(p)' \in Int
           /\ Len(log'[p]) \in Nat /\ Len(log'[p]) = Base(p)' + Offset(p)'
  <1>1. Offset(p)' \in Int /\ Len(log'[p]) \in Nat
    BY OffsetIsInt, StepKinds DEF LogsKept
  <1>2. Base(p)' \in Int /\ Len(log'[p]) = Base(p)' + Offset(p)'
    BY <1>1 DEF Base
  <1>3. Round(p)' \in Int
    <2>1. Round(p) \in Int
      BY Facts
    <2>2. Round(p)' = Round(p) \/ Round(p)' = Round(p) + 1
      BY SteadySteps DEF Steady, Begins, Completes
    <2> QED BY <2>1, <2>2
  <1> QED BY <1>1, <1>2, <1>3

\* What a rank has been told of another one, in this round and while it finishes the last.
LEMMA ToldKept ==
    ASSUME Counting, NEW r \in Rank, Step(r), NEW a \in Rank, NEW b \in Rank
    PROVE  Told(a, b)'
  <1> SUFFICES ASSUME pc'[a] = "reduce", Len(log'[b]) >= Place(a, b)'
               PROVE  /\ Given(a, b)' = 1 => nodeOf'[b] = nodeOf'[cur'[a]]
                      /\ failed' = {} /\ nodeOf'[b] = nodeOf'[cur'[a]] => Given(a, b)' = 1
    BY DEF Told
  <1>1. /\ InStep(a, b)' /\ Ahead(b, a)' /\ Close(a, b)'
        /\ Calling(b)' /\ Flagged(b)' /\ Progress(b)'
        /\ Round(a)' \in Int /\ Round(b)' \in Int /\ Base(b)' \in Int /\ Offset(b)' \in Int
        /\ Len(log'[b]) = Base(b)' + Offset(b)'
    BY PairKept, CallingKept, FlaggedKept, ProgressKept, NumbersNext
  <1>2. /\ UNCHANGED world /\ (failed' = {} => failed = {})
    BY StepKinds
  <1>3. CASE Round(b)' = Round(a)'
    <2> DEFINE o == 3 + (IF stateless' THEN b ELSE 0)
    <2>1. b \in Nat /\ o \in Nat /\ o >= 3
      BY CallFacts
    <2>2. Place(a, b)' = Base(b)' + o
      <3>1. Base(a)' = Base(b)'
        BY <1>1, <1>3 DEF InStep
      <3>2. Place(a, b)' = Base(b)' + 3 + (IF stateless' THEN b ELSE 0)
        BY <3>1 DEF Place
      <3> QED BY <1>1, <2>1, <3>2
    <2> HIDE DEF o
    <2>3. o \in 3..Offset(b)'
      BY <1>1, <2>1, <2>2
    <2>4. Given(a, b)' = flag'[b]
      BY <1>1, <2>2, <2>3 DEF Calling, Given
    <2>5. pc'[b] = "reduce"
      <3>1. pc'[b] \in {"scan", "create", "sent", "recv", "open", "barrier", "reduce", "done"}
        BY CounterNext
      <3>2. Offset(b)' > 2
        BY <1>1, <2>3
      <3> QED BY <3>1, <3>2 DEF Offset, Idle
    <2>6. cur'[a] = cur'[b]
      BY <1>1, <1>3, <2>5 DEF InStep, Idle
    <2> QED BY <1>1, <2>4, <2>5, <2>6 DEF Flagged
  <1>4. CASE Round(b)' = Round(a)' + 1
    <2>1. pc[a] = "reduce" /\ Steady(a)
      <3>1. Steady(a)
        BY SteadySteps DEF Begins, Completes
      <3>2. ASSUME pc[a] # "reduce"
            PROVE  FALSE
        <4>1. a = r
          BY <3>2, Others DEF Unmoved
        <4>2. pc[a] = "barrier" /\ Over(a)
          BY <3>2, <4>1 DEF Step, Finish, Begin, Create, CreateFails, Sent, Receive, Open,
              LeaveBarrier, Reduced, Aggregated, Assign, Counting, TypeOK
        <4>3. Round(b) = Round(a)
          BY <4>2, BarrierHolds
        <4>4. b # r /\ Round(b)' = Round(b) /\ Round(a)' = Round(a)
          BY <1>1, <1>4, <3>1, <4>1, Others DEF Steady, Unmoved
        <4> QED BY <1>1, <1>4, <4>3, <4>4
      <3> QED BY <3>1, <3>2
    <2>2. Len(log[b]) >= Place(a, b)
      <3>0. Round(a)' = Round(a) /\ Round(a) \in Int /\ Round(b) \in Int
        BY <2>1, Facts DEF Steady
      <3>1. CASE Round(b) = Round(a) + 1
        BY <3>1 DEF Counting, Double, Ahead
      <3>2. CASE Round(b) # Round(a) + 1
        <4>1. b = r /\ Completes(r)
          BY <1>4, <3>0, <3>2, SteadySteps DEF Steady, Begins
        <4>2. Round(b) = Round(a) /\ Len(log[b]) >= Place(b, b)
          BY <1>4, <3>0, <4>1 DEF Completes
        <4>3. Base(b) = Base(a)
          BY <4>2 DEF Counting, Double, InStep
        <4> QED BY <4>2, <4>3 DEF Place
      <3> QED BY <3>1, <3>2
    <2>3. Given(a, b)' = Given(a, b)
      BY <2>1, <2>2, GivenKept DEF Steady
    <2>4. cur'[a] = cur[a] /\ nodeOf' = nodeOf /\ Told(a, b)
      BY <1>2, <2>1 DEF Steady, world, Counting, Double
    <2> QED BY <1>2, <2>1, <2>2, <2>3, <2>4 DEF Told
  <1>5. CASE Round(a)' = Round(b)' + 1
    BY <1>1, <1>5 DEF Ahead
  <1> QED BY <1>1, <1>3, <1>4, <1>5 DEF Close

---------------------------------------------------------------------------
(* The type invariant, the calls and the failures.                         *)

\* The type invariant is preserved: no source beyond the last rank, no more nodes than
\* ranks, no sum above 1.
LEMMA TypeOKKept ==
    ASSUME Counting, NEW r \in Rank, Step(r)
    PROVE  TypeOK'
  <1>0. /\ TypeOK /\ UNCHANGED world /\ WorldSize \in Nat /\ WorldSize >= 1
        /\ Rank = 0..WorldSize - 1
    BY StepKinds, WorldSizeAssumption DEF Counting, Rank
  <1>1. /\ nodeOf' \in Placements /\ stateless' \in BOOLEAN
    BY <1>0 DEF TypeOK, world
  <1>2. failed' \subseteq ShmFaults
    BY <1>0 DEF TypeOK, Step, Finish, Begin, Create, CreateFails, Sent, Receive, Open,
           LeaveBarrier, Reduced, Aggregated, Assign
  <1>3. log' \in [Rank -> Seq(Calls)]
    <2>1. ASSUME NEW call \in Calls, Make(r, call)
          PROVE  log' \in [Rank -> Seq(Calls)]
      BY <1>0, <2>1, LogsGrow
    <2> QED BY <1>0, <2>1, StepKinds DEF TypeOK
  <1>4. seg' \in [Rank -> {"none", "linked", "unlinked"}] /\ flag' \in [Rank -> 0..1]
    <2>0. 0 \in 0..1 /\ 1 \in 0..1
      OBVIOUS
    <2> USE <2>0 DEF Counting, TypeOK
    <2>1. CASE Finish(r)  BY <2>1 DEF Finish
    <2>2. CASE Begin(r)  BY <2>2 DEF Begin
    <2>3. CASE Create(r)  BY <2>3 DEF Create
    <2>4. CASE CreateFails(r)  BY <2>4 DEF CreateFails
    <2>5. CASE Sent(r)  BY <2>5 DEF Sent
    <2>6. CASE Receive(r)  BY <2>6 DEF Receive
    <2>7. CASE Open(r)  BY <2>7 DEF Open
    <2>8. CASE LeaveBarrier(r)  BY <2>8 DEF LeaveBarrier
    <2>9. CASE Reduced(r)  BY <2>9 DEF Reduced, Assign
    <2>10. CASE Aggregated(r)  BY <2>10 DEF Aggregated, Assign
    <2> QED BY <2>1, <2>2, <2>3, <2>4, <2>5, <2>6, <2>7, <2>8, <2>9, <2>10 DEF Step
  <1>5. /\ cur' \in [Rank -> 0..WorldSize] /\ nextId' \in [Rank -> 0..WorldSize]
        /\ assigned' \in [Rank -> [Rank -> 0..WorldSize]]
    <2>1. CASE Begin(r)
      <3>1. /\ cur'[r] \in Rank /\ ~Idle(r)' /\ nextId'[r] = nextId[r] + 1
            /\ nextId[r] \in Nat
        BY <2>1, Begun, Beginning, Facts DEF Begins
      <3>2. nextId'[r] \in 1..cur'[r] + 1
        BY <3>1, ProgressKept DEF Progress
      <3>3. cur'[r] \in 0..WorldSize /\ nextId[r] + 1 \in 0..WorldSize
        BY <1>0, <3>1, <3>2
      <3>4. /\ cur' = [cur EXCEPT ![r] = cur'[r]]
            /\ nextId' = [nextId EXCEPT ![r] = nextId[r] + 1]
            /\ assigned' = [assigned EXCEPT ![r] =
                                [assigned[r] EXCEPT ![cur'[r]] = nextId[r] + 1]]
        BY <1>0, <2>1 DEF Begin, TypeOK
      <3>5. cur' \in [Rank -> 0..WorldSize] /\ nextId' \in [Rank -> 0..WorldSize]
        BY <1>0, <3>3, <3>4 DEF TypeOK
      <3>6. [assigned[r] EXCEPT ![cur'[r]] = nextId[r] + 1] \in [Rank -> 0..WorldSize]
        BY <1>0, <3>3 DEF TypeOK
      <3>7. assigned' \in [Rank -> [Rank -> 0..WorldSize]]
        BY <1>0, <3>4, <3>6 DEF TypeOK
      <3> QED BY <3>5, <3>7
    <2>2. ASSUME NEW sums, Assign(r, sums), pc[r] = "reduce"
          PROVE  /\ cur' \in [Rank -> 0..WorldSize] /\ nextId' \in [Rank -> 0..WorldSize]
                 /\ assigned' \in [Rank -> [Rank -> 0..WorldSize]]
      <3>1. cur[r] \in Rank
        BY <2>2, Busy DEF Idle
      <3>2. cur[r] + 1 \in 0..WorldSize
        BY <1>0, <3>1
      <3> QED BY <1>0, <2>2, <3>2 DEF TypeOK, Assign
    <2>3. CASE Reduced(r)
      BY <2>2, <2>3 DEF Reduced
    <2>4. CASE Aggregated(r)
      BY <1>0, <2>2, <2>4 DEF Aggregated, TypeOK
    <2> QED BY <1>0, <2>1, <2>3, <2>4 DEF TypeOK, Step, Finish, Create, CreateFails, Sent,
              Receive, Open, LeaveBarrier, loop
  <1>6. total' \in [Rank -> [Rank -> 0..1]]
    <2>1. CASE Finish(r)
      BY <1>0, <2>1, Finishing DEF TypeOK
    <2>2. CASE Begin(r)
      <3>1. total' = [total EXCEPT ![r] = Vector(0)] /\ Vector(0) \in [Rank -> 0..1]
        BY <2>2 DEF Begin, Vector
      <3> QED BY <1>0, <3>1 DEF TypeOK
    <2>3. CASE ~Finish(r) /\ ~Begin(r) /\ pc'[r] = "scan"
      BY <2>3, Completing
    <2>4. CASE ~Finish(r) /\ ~Begin(r) /\ pc'[r] = "reduce" /\ pc[r] = "reduce"
      <3> DEFINE i == Here(r).src
                 sums == [total[r] EXCEPT ![i] = @ + ValueOf(r, i)]
      <3>1. stateless /\ Over(r) /\ total' = [total EXCEPT ![r] = sums]
        BY <2>4, ReducesNext
      <3>2. sums \in [Rank -> 0..1]
        BY <2>4, <3>1, Summing
      <3> QED BY <1>0, <3>1, <3>2 DEF TypeOK
    <2>5. CASE ~Finish(r) /\ ~Begin(r) /\ pc'[r] # "scan" /\ pc[r] # "reduce"
      BY <1>0, <2>5 DEF TypeOK, Step, Create, CreateFails, Sent, Receive, Open, LeaveBarrier,
             Reduced, Aggregated, loop
    <2>6. pc[r] = "reduce" => pc'[r] \in {"scan", "reduce"}
      BY <1>0 DEF TypeOK, Step, Finish, Begin, Create, CreateFails, Sent, Receive, Open,
             LeaveBarrier, Reduced, Aggregated, Assign
    <2> QED BY <2>1, <2>2, <2>3, <2>4, <2>5, <2>6
  <1> QED BY <1>1, <1>2, <1>3, <1>4, <1>5, <1>6, CounterNext DEF TypeOK

\* A rank receives the name of a segment only from the source of its own round, and only
\* if the source could create one.
LEMMA Receiving ==
    ASSUME Counting, NEW r \in Rank, pc[r] = "recv", Over(r)
    PROVE  /\ cur[r] \in Rank /\ cur[r] # r /\ "create" \notin failed
           /\ Round(cur[r]) = Round(r) /\ pc[cur[r]] \in {"sent", "barrier"}
  <1> DEFINE s == cur[r]
  <1>1. /\ s \in Rank /\ s # r /\ ~Idle(r) /\ Offset(r) = 1 /\ pc[r] # "reduce"
    BY Busy, Facts DEF Idle, Offset, Progress
  <1>2. /\ Base(r) \in Nat /\ Len(log[r]) = Base(r) + 1 /\ Round(r) \in Int
        /\ Base(s) \in Nat /\ Offset(s) \in Nat /\ Len(log[s]) = Base(s) + Offset(s)
        /\ Offset(s) <= RoundLength /\ RoundLength \in Nat /\ Round(s) \in Int
        /\ Progress(s) /\ Calling(s) /\ Calling(r)
        /\ Double(r, s) /\ Double(s, r)
    BY <1>1, Facts DEF Single, Counting
  <1>3. Here(r).kind = "broadcast" /\ Here(r).src = s
    <2>1. Scheduled(stateless, Here(r), cur[r], 1)
      BY <1>1, <1>2 DEF Calling, Here
    <2> QED BY <2>1 DEF Scheduled
  <1>4. Len(log[s]) >= Base(r) + 1 /\ log[s][Base(r) + 1].kind = "broadcast"
    BY <1>2, <1>3 DEF Over, Joined, Here
  <1>5. Round(s) = Round(r)
    <2>1. Round(s) # Round(r) + 1
      BY <1>1, <1>2 DEF Double, Ahead
    <2>2. Round(r) # Round(s) + 1
      <3> SUFFICES ASSUME Round(r) = Round(s) + 1
                   PROVE  FALSE
        OBVIOUS
      <3>1. Base(r) = Base(s) + RoundLength
        BY <1>2 DEF Double, Ahead
      <3> QED BY <1>2, <1>4, <3>1
    <2> QED BY <1>2, <2>1, <2>2 DEF Double, Close
  <1>6. Base(s) = Base(r) /\ Offset(s) >= 1
    <2>1. Base(s) = Base(r)
      BY <1>2, <1>5 DEF Double, InStep
    <2> QED BY <1>2, <1>4, <2>1
  <1>7. ~Idle(s) /\ pc[s] # "create"
    BY <1>6 DEF Offset, Idle
  <1>8. cur[s] = s
    BY <1>1, <1>2, <1>5, <1>7 DEF Double, InStep
  <1>9. pc[s] # "reduce"
    BY <1>1, <1>2, <1>5 DEF Double, Close
  <1>10. pc[s] \in {"sent", "barrier"}
    BY <1>1, <1>2, <1>7, <1>8, <1>9 DEF Progress, Idle, Counting, TypeOK
  <1>11. "create" \notin failed
    <2> SUFFICES ASSUME "create" \in failed
                 PROVE  FALSE
      OBVIOUS
    <2>1. pc[s] = "barrier"
      BY <1>1, <1>10 DEF Counting, Stuck
    <2>2. Offset(s) = 1 /\ Here(s).kind = "barrier"
      BY <1>2, <2>1 DEF Offset, Idle, Calling
    <2>3. Here(s) = log[s][Base(r) + 1]
      BY <1>2, <1>6, <2>2 DEF Here
    <2> QED BY <1>4, <2>2, <2>3
  <1> QED BY <1>1, <1>5, <1>10, <1>11

\* The source of a rank that wants to open the segment is still in the same round.
LEMMA SourcedKept ==
    ASSUME Counting, NEW r \in Rank, Step(r), NEW p \in Rank
    PROVE  Sourced(p)'
  <1>1. ASSUME NEW s \in Rank, Round(s) = Round(p), p # r, pc[p] \in {"open", "barrier"},
               pc[s] \in {"sent", "barrier"} \/ (pc[p] = "barrier" /\ pc[s] = "reduce")
        PROVE  /\ Round(s)' = Round(s)
               /\ \/ pc'[s] \in {"sent", "barrier"}
                  \/ pc[p] = "barrier" /\ pc'[s] = "reduce"
    <2>1. CASE s # r
      BY <1>1, <2>1, Others DEF Unmoved
    <2>2. CASE s = r
      <3>1. ~Finish(r) /\ ~Begin(r) /\ ~Begins(r) /\ pc[r] \in {"sent", "barrier", "reduce"}
        BY <1>1, <2>2 DEF Finish, Begin, Begins, Idle
      <3>2. ~Completes(r)
        <4> SUFFICES ASSUME Completes(r)
                     PROVE  FALSE
          OBVIOUS
        <4>1. pc[r] = "reduce" /\ Len(log[p]) >= Place(r, p) /\ Round(r) \in Int
          BY Facts DEF Completes
        <4>2. Round(p) = Round(r) + 1 \/ pc[p] = "reduce"
          BY <4>1, CompletesTogether
        <4> QED BY <1>1, <2>2, <4>1, <4>2
      <3>3. Advances(r) /\ Round(r)' = Round(r)
        BY <3>1, <3>2, StepKinds DEF Advances
      <3>4. pc'[r] \in {"barrier", "reduce"}
        <4>1. pc'[r] # "scan"
          BY <3>3 DEF Advances, Idle
        <4> QED BY <3>1, <4>1 DEF Step, Create, CreateFails, Sent, Receive, Open, LeaveBarrier,
              Reduced, Aggregated, Assign, Counting, TypeOK
      <3>5. pc'[r] = "reduce" => pc[p] = "barrier"
        <4>1. pc'[r] = "reduce" /\ pc[r] # "reduce" => pc[r] = "barrier" /\ Over(r)
          BY <3>1 DEF Step, Create, CreateFails, Sent, Receive, Open, LeaveBarrier,
              Reduced, Aggregated, Assign, Counting, TypeOK
        <4>2. pc[r] = "barrier" /\ Over(r) => pc[p] \in {"barrier", "reduce"}
          BY BarrierHolds
        <4> QED BY <1>1, <2>2, <4>1, <4>2
      <3> QED BY <2>2, <3>3, <3>4, <3>5
    <2> QED BY <2>1, <2>2
  <1>2. CASE p # r
    <2>1. /\ pc'[p] = pc[p] /\ cur'[p] = cur[p] /\ Round(p)' = Round(p) /\ Sourced(p)
      BY <1>2, Others, Facts DEF Unmoved, Single
    <2>2. pc[p] \in {"open", "barrier"} => cur[p] \in Rank
      BY Busy DEF Idle
    <2>3. CASE pc[p] \in {"open", "barrier"}
      <3>0. PICK s \in Rank : s = cur[p]
        BY <2>2, <2>3
      <3>1. Round(s) = Round(p)
        BY <2>1, <2>3, <3>0 DEF Sourced
      <3>2. pc[s] \in {"sent", "barrier"} \/ (pc[p] = "barrier" /\ pc[s] = "reduce")
        BY <2>1, <2>3, <3>0 DEF Sourced
      <3>3. /\ Round(s)' = Round(s)
            /\ \/ pc'[s] \in {"sent", "barrier"}
               \/ pc[p] = "barrier" /\ pc'[s] = "reduce"
        BY <1>1, <1>2, <2>3, <3>1, <3>2
      <3>4. Round(cur[p])' = Round(p)'
        BY <2>1, <3>0, <3>1, <3>3 DEF Round, Idle
      <3> QED BY <2>1, <2>3, <3>0, <3>3, <3>4 DEF Sourced
    <2>4. CASE pc[p] \notin {"open", "barrier"}
      BY <2>1, <2>4 DEF Sourced
    <2> QED BY <2>3, <2>4
  <1>3. Sourced(r)'
    <2>1. CASE pc'[r] = "open"
      <3>1. pc[r] = "recv" /\ Over(r) /\ Receive(r)
        <4>1. ~Finish(r)
          BY <2>1, Finishing
        <4>2. ~Begin(r)
          BY <2>1, Beginning DEF Begins
        <4>3. Receive(r)
          BY <2>1, <4>1, <4>2 DEF Step, Create, CreateFails, Sent, Open, LeaveBarrier,
                Reduced, Aggregated, Assign, Counting, TypeOK
        <4> QED BY <4>3 DEF Receive
      <3>2. PICK s \in Rank : s = cur[r]
        BY <3>1, Receiving
      <3>3. s # r /\ Round(s) = Round(r) /\ pc[s] \in {"sent", "barrier"}
        BY <3>1, <3>2, Receiving
      <3>4. Round(s)' = Round(s) /\ pc'[s] = pc[s]
        BY <3>3, Others DEF Unmoved
      <3>5. cur' = cur /\ nextId' = nextId
        BY <3>1 DEF Receive, loop
      <3>6. Round(r)' = Round(r)
        BY <2>1, <3>1, <3>5 DEF Round, Idle
      <3>7. Round(cur[r])' = Round(r)' /\ pc'[cur'[r]] \in {"sent", "barrier"}
        BY <3>2, <3>3, <3>4, <3>5, <3>6 DEF Round, Idle
      <3> QED BY <2>1, <3>7 DEF Sourced
    <2>2. CASE pc'[r] = "barrier"
      <3>1. /\ cur'[r] = cur[r] /\ nextId'[r] = nextId[r]
            /\ \/ pc[r] \in {"create", "sent"}
               \/ pc[r] = "open"
        BY <2>2 DEF Step, Finish, Begin, Create, CreateFails, Sent, Receive, Open, LeaveBarrier,
              Reduced, Aggregated, Assign, loop, Counting, TypeOK
      <3>2. CASE pc[r] \in {"create", "sent"}
        <4>1. cur'[r] = r
          BY <3>1, <3>2, Facts DEF Progress
        <4> QED BY <2>2, <4>1 DEF Sourced, Round, Idle
      <3>3. CASE pc[r] = "open"
        <4>1. PICK s \in Rank : s = cur[r]
          BY <3>3, Busy DEF Idle
        <4>2. s # r /\ Round(s) = Round(r) /\ pc[s] \in {"sent", "barrier"}
          BY <3>3, <4>1, Facts DEF Single, Sourced, Progress
        <4>3. Round(s)' = Round(s) /\ pc'[s] = pc[s]
          BY <4>2, Others DEF Unmoved
        <4>4. Round(r)' = Round(r)
          BY <2>2, <3>1, <3>3 DEF Round, Idle
        <4>5. Round(cur[r])' = Round(r)' /\ pc'[cur'[r]] \in {"sent", "barrier"}
          BY <3>1, <4>1, <4>2, <4>3, <4>4 DEF Round, Idle
        <4> QED BY <2>2, <4>5 DEF Sourced
      <3> QED BY <3>1, <3>2, <3>3
    <2> QED BY <2>1, <2>2 DEF Sourced
  <1> QED BY <1>2, <1>3

\* Once a source has failed to create its segment it stays at the barrier, and nobody can
\* still receive a name.
LEMMA StuckKept ==
    ASSUME Counting, NEW r \in Rank, Step(r)
    PROVE  Stuck'
  <1> SUFFICES ASSUME "create" \in failed'
               PROVE  /\ \A p \in Rank : pc'[p] \notin {"create", "sent", "open"}
                      /\ \E p \in Rank : pc'[p] = "barrier"
    BY DEF Stuck
  <1>1. CASE "create" \in failed
    <2>1. PICK s \in Rank : pc[s] = "barrier"
      BY <1>1 DEF Counting, Stuck
    <2>2. \A p \in Rank : pc[p] \notin {"create", "sent", "open"}
      BY <1>1 DEF Counting, Stuck
    <2>3. cur[s] = s /\ ~Idle(s) /\ pc[s] # "reduce"
      BY <1>1, <2>1, Facts DEF Single, Calling, Idle
    <2>4. pc'[s] = "barrier"
      <3>1. CASE s # r
        BY <2>1, <3>1, Others DEF Unmoved
      <3>2. CASE s = r
        <4>1. ~Over(r)
          BY <1>1, <2>1, <3>2, BarrierHolds
        <4> QED BY <2>1, <3>2, <4>1 DEF Step, Finish, Begin, Create, CreateFails, Sent, Receive,
              Open, LeaveBarrier, Reduced, Aggregated
      <3> QED BY <3>1, <3>2
    <2>5. pc'[r] # "create"
      <3> SUFFICES ASSUME pc'[r] = "create"
                   PROVE  FALSE
        OBVIOUS
      <3>1. Begin(r) /\ ~Finish(r)
        BY <2>2 DEF Step, Finish, Create, CreateFails, Sent, Receive, Open, LeaveBarrier,
              Reduced, Aggregated, Assign, Counting, TypeOK
      <3>2. Idle(r) /\ Min(Unassigned(r)) = r /\ pc[r] # "reduce"
        BY <3>1, Beginning DEF Begins, Idle
      <3>3. Double(r, s) /\ Double(s, r) /\ Round(r) \in Int /\ Round(s) \in Int
        BY Facts DEF Counting
      <3>4. Round(s) = Round(r)
        BY <2>3, <3>2, <3>3 DEF Double, Close, Ahead
      <3>5. cur[s] = Min(Unassigned(r))
        BY <2>3, <3>2, <3>3, <3>4 DEF Double, InStep, Follows, Unassigned
      <3> QED BY <2>3, <3>2, <3>5
    <2>6. pc'[r] \notin {"sent", "open"}
      <3>1. pc[r] = "recv" => ~Over(r)
        BY <1>1, Receiving
      <3>2. ~Create(r) /\ ~Receive(r)
        BY <2>2, <3>1 DEF Create, Receive
      <3>3. Begin(r) => pc'[r] \notin {"sent", "open"}
        BY Beginning DEF Begins
      <3> QED BY <3>2, <3>3 DEF Step, Finish, CreateFails, Sent, Open, LeaveBarrier,
              Reduced, Aggregated, Assign, Counting, TypeOK
    <2>7. \A p \in Rank : pc'[p] \notin {"create", "sent", "open"}
      BY <2>2, <2>5, <2>6, Others DEF Unmoved
    <2> QED BY <2>4, <2>7
  <1>2. CASE "create" \notin failed
    <2>1. CreateFails(r)
      BY <1>2 DEF Step, Finish, Begin, Create, CreateFails, Sent, Receive, Open, LeaveBarrier,
             Reduced, Aggregated, Assign
    <2>2. pc[r] = "create" /\ pc'[r] = "barrier"
      BY <2>1 DEF CreateFails, Counting, TypeOK
    <2>3. cur[r] = r /\ ~Idle(r) /\ pc[r] # "reduce"
      BY <2>2, Facts DEF Progress, Idle
    <2>4. ASSUME NEW p \in Rank, p # r, pc[p] \in {"create", "sent", "open"}
          PROVE  FALSE
      <3>1. /\ Double(r, p) /\ Double(p, r) /\ Round(r) \in Int /\ Round(p) \in Int
            /\ ~Idle(p) /\ pc[p] # "reduce" /\ Progress(p) /\ Sourced(p)
        BY <2>4, Facts DEF Counting, Single, Idle
      <3>2. Round(p) = Round(r)
        BY <2>3, <3>1 DEF Double, Close, Ahead
      <3>3. cur[p] = r
        BY <2>3, <3>1, <3>2 DEF Double, InStep
      <3> QED BY <2>2, <2>4, <3>1, <3>3 DEF Progress, Sourced
    <2>5. \A p \in Rank : p # r => pc'[p] \notin {"create", "sent", "open"}
      BY <2>4, Others DEF Unmoved
    <2> QED BY <2>2, <2>5
  <1> QED BY <1>1, <1>2

\* A new call is the one that the others have made or will make under the same number.
LEMMA NewCallMatches ==
    ASSUME Counting, NEW r \in Rank, Step(r), NEW call \in Calls, Make(r, call),
           "create" \notin failed', NEW p \in Rank, p # r, Len(log[p]) >= Len(log[r]) + 1
    PROVE  LET k == Len(log[r]) + 1
           IN  log[p][k].kind = call.kind /\ log[p][k].src = call.src
  <1> DEFINE k == Len(log[r]) + 1
             o == Offset(r)'
  <1>1. /\ log'[r][k] = call /\ Len(log'[r]) = k /\ log'[p] = log[p] /\ log' # log
        /\ Len(log[r]) = Base(r) + Offset(r) /\ Offset(r) \in Nat /\ Base(r) \in Nat
    <2>1. log'[r][k] = call /\ Len(log'[r]) = k /\ log'[p] = log[p]
      BY LogsGrow DEF Counting
    <2>2. Len(log[r]) \in Nat
      BY Facts
    <2>3. log' # log
      BY <2>1, <2>2
    <2> QED BY <2>1, <2>3, Facts
  <1>2. Base(r)' = Base(r)
    <2>1. Begins(r) \/ Advances(r)
      BY <1>1, StepKinds, Finishing DEF Completes
    <2> QED BY <2>1 DEF Begins, Advances
  <1>3. o \in Int /\ Base(r) + o = k /\ o >= 1
    <2>1. Offset(r)' \in Int /\ Len(log'[r]) = Base(r)' + Offset(r)'
      BY NumbersNext
    <2> QED BY <1>1, <1>2, <2>1
  <1>4. Scheduled(stateless', call, cur'[r], o)
    <2>1. Calling(r)'
      BY CallingKept
    <2>2. o \in 1..o
      BY <1>3
    <2>3. log'[r][Base(r)' + o] = call
      BY <1>1, <1>2, <1>3
    <2> QED BY <2>1, <2>2, <2>3 DEF Calling, Scheduled
  <1>5. /\ Unmoved(p) /\ Base(p)' \in Int /\ Base(p)' = Base(p) /\ Offset(p)' = Offset(p)
        /\ Len(log[p]) = Base(p) + Offset(p) /\ Offset(p) <= RoundLength
        /\ RoundLength \in Nat /\ Base(p) \in Nat /\ Offset(p) \in Nat
        /\ Round(r)' \in Int /\ Round(p)' \in Int /\ RoundLength' = RoundLength
        /\ InStep(r, p)' /\ Ahead(r, p)' /\ Ahead(p, r)' /\ Close(r, p)' /\ Calling(p)'
    <2>1. RoundLength' = RoundLength
      BY StepKinds DEF world, RoundLength
    <2>2. Unmoved(p)
      BY Others
    <2>3. /\ Len(log[p]) = Base(p) + Offset(p) /\ Offset(p) <= RoundLength
          /\ RoundLength \in Nat /\ Base(p) \in Nat /\ Offset(p) \in Nat
      BY Facts
    <2>4. /\ InStep(r, p)' /\ Ahead(r, p)' /\ Ahead(p, r)' /\ Close(r, p)' /\ Calling(p)'
      BY PairKept, CallingKept
    <2>5. Round(r)' \in Int /\ Round(p)' \in Int
      BY NumbersNext
    <2> QED BY <2>1, <2>2, <2>3, <2>4, <2>5 DEF Unmoved
  <1>6. CASE Round(p)' = Round(r)'
    <2>1. Base(p) = Base(r)
      BY <1>2, <1>5, <1>6 DEF InStep
    <2>2. o \in 1..Offset(p)
      BY <1>1, <1>3, <1>5, <2>1
    <2>3. ~Idle(p)' /\ ~Idle(r)'
      <3>1. Idle(p)' => Offset(p)' = 0
        BY DEF Offset, Idle
      <3>2. Idle(r)' => Offset(r)' = 0
        BY DEF Offset, Idle
      <3> QED BY <1>3, <1>5, <2>2, <3>1, <3>2
    <2>4. cur'[p] = cur'[r]
      BY <1>5, <1>6, <2>3 DEF InStep
    <2>5. Scheduled(stateless', log[p][k], cur'[p], o)
      <3>1. log'[p][Base(p)' + o] = log[p][k]
        BY <1>1, <1>3, <1>5, <2>1
      <3>2. o \in 1..Offset(p)'
        BY <1>5, <2>2
      <3>3. \A i \in 1..Offset(p)' : Scheduled(stateless', log'[p][Base(p)' + i], cur'[p], i)
        BY <1>5 DEF Calling, Scheduled
      <3> QED BY <3>1, <3>2, <3>3
    <2> QED BY <1>3, <1>4, <2>4, <2>5 DEF Scheduled
  <1>7. CASE Round(p)' = Round(r)' + 1
    <2>1. pc'[r] = "reduce" /\ Base(p)' = Base(r)' + RoundLength'
      BY <1>5, <1>7 DEF Ahead
    <2>2. /\ stateless /\ (stateless' <=> stateless)
          /\ Here(r)'.src \in Rank /\ Here(r)'.src \in Nat /\ o = 3 + Here(r)'.src
      <3>1. ~Finish(r) /\ ~Begin(r)
        BY <2>1, Finishing, Beginning DEF Begins
      <3>2. pc[r] = "barrier" => ~Over(r)
        <4> SUFFICES ASSUME pc[r] = "barrier", Over(r)
                     PROVE  FALSE
          OBVIOUS
        <4>1. Round(p) = Round(r)
          BY BarrierHolds
        <4>2. Round(r)' = Round(r) \/ Round(r)' = Round(r) + 1
          BY SteadySteps DEF Steady, Begins, Completes
        <4>3. Round(p)' = Round(p) /\ Round(p) \in Int
          BY <1>5, Facts DEF Unmoved
        <4> QED BY <1>7, <4>1, <4>2, <4>3
      <3>3. stateless /\ Here(r)'.src \in Rank
        BY <2>1, <3>1, <3>2, ReducesNext
      <3> QED BY <2>1, <3>3, CallFacts, StepKinds DEF Offset, Idle, world
    <2>3. o \in 3..RoundLength
      BY <2>2, WorldSizeAssumption DEF Rank, RoundLength
    <2>4. Scheduled(stateless', log[p][k], 0, o)
      <3>1. Base(p)' - RoundLength' + o = k /\ Base(p)' >= RoundLength'
        <4>1. Base(p)' = Base(r) + RoundLength /\ RoundLength' = RoundLength
          BY <1>2, <1>5, <2>1
        <4>2. Base(r) \in Nat /\ RoundLength \in Nat /\ o \in Int /\ Base(r) + o = k
          BY <1>1, <1>3, <1>5
        <4> QED BY <4>1, <4>2
      <3>2. Scheduled(stateless', log'[p][Base(p)' - RoundLength' + o], 0, o)
        <4>1. \A i \in 3..RoundLength' :
                Scheduled(stateless', log'[p][Base(p)' - RoundLength' + i], 0, i)
          BY <1>5, <2>2, <3>1 DEF Calling, Scheduled
        <4> QED BY <1>5, <2>3, <4>1
      <3> QED BY <1>1, <3>1, <3>2
    <2> QED BY <1>4, <2>2, <2>3, <2>4 DEF Scheduled
  <1>8. CASE Round(r)' = Round(p)' + 1
    <2>1. Base(r)' = Base(p)' + RoundLength'
      BY <1>5, <1>8 DEF Ahead
    <2> QED BY <1>1, <1>2, <1>5, <2>1
  <1> QED BY <1>5, <1>6, <1>7, <1>8 DEF Close

\* The calls keep matching.
LEMMA CallsMatchKept ==
    ASSUME Counting, NEW r \in Rank, Step(r)
    PROVE  CallsMatch'
  <1> SUFFICES ASSUME "create" \notin failed', NEW a \in Rank, NEW b \in Rank,
                      NEW k \in 1..Len(log'[a]), k <= Len(log'[b])
               PROVE  /\ log'[b][k].kind = log'[a][k].kind
                      /\ log'[b][k].src = log'[a][k].src
    BY DEF CallsMatch
  <1>1. /\ CallsMatch /\ "create" \notin failed /\ LogsKept
        /\ \A q \in Rank : Len(log[q]) \in Nat /\ Len(log'[q]) \in Nat
    BY Facts, StepKinds DEF Counting, LogsKept
  <1>2. CASE k <= Len(log[a]) /\ k <= Len(log[b])
    <2>1. k \in 1..Len(log[a]) /\ k \in 1..Len(log[b])
      BY <1>1, <1>2
    <2>2. log'[a][k] = log[a][k] /\ log'[b][k] = log[b][k]
      BY <1>1, <2>1 DEF LogsKept
    <2>3. log[b][k].kind = log[a][k].kind /\ log[b][k].src = log[a][k].src
      BY <1>1, <1>2, <2>1 DEF CallsMatch
    <2> QED BY <2>2, <2>3
  <1>3. CASE k > Len(log[a]) \/ k > Len(log[b])
    <2>1. PICK call \in Calls : Make(r, call)
      BY <1>1, <1>3, StepKinds
    <2>2. /\ Len(log'[r]) = Len(log[r]) + 1 /\ log'[r][Len(log[r]) + 1] = call
          /\ \A q \in Rank : q # r => log'[q] = log[q]
      BY <2>1, LogsGrow DEF Counting
    <2>3. CASE a = r /\ b = r
      BY <2>3
    <2>4. CASE a = r /\ b # r
      <3>1. k = Len(log[r]) + 1 /\ Len(log[b]) >= Len(log[r]) + 1
        BY <1>1, <1>3, <2>2, <2>4
      <3> QED BY <2>1, <2>2, <2>4, <3>1, NewCallMatches
    <2>5. CASE a # r /\ b = r
      <3>1. k = Len(log[r]) + 1 /\ Len(log[a]) >= Len(log[r]) + 1
        BY <1>1, <1>3, <2>2, <2>5
      <3> QED BY <2>1, <2>2, <2>5, <3>1, NewCallMatches
    <2>6. CASE a # r /\ b # r
      BY <1>1, <1>3, <2>2, <2>6
    <2> QED BY <2>3, <2>4, <2>5, <2>6
  <1> QED BY <1>1, <1>2, <1>3

---------------------------------------------------------------------------
(* The invariant.                                                          *)

\* Every step of a rank preserves the invariant.
LEMMA CountingKept ==
    ASSUME Counting, NEW r \in Rank, Step(r)
    PROVE  Counting'
  <1>1. TypeOK' /\ Stuck' /\ CallsMatch' /\ WorldSize > 1
    BY TypeOKKept, StuckKept, CallsMatchKept DEF Counting
  <1>2. \A p \in Rank : Single(p)'
    BY ProgressKept, CallingKept, SegmentKept, FlaggedKept, SummedKept, ApartKept, TogetherKept,
       SourcedKept DEF Single
  <1>3. \A a, b \in Rank : Double(a, b)'
    BY PairKept, ToldKept DEF Double
  <1> QED BY <1>1, <1>2, <1>3 DEF Counting

\* A rank on its own has its count from the start, and calls nobody.
LEMMA NobodyMoves ==
    ASSUME Alone, NEW r \in Rank
    PROVE  ~Step(r)
  BY DEF Alone, Step, Finish, Begin, Create, CreateFails, Sent, Receive, Open, LeaveBarrier,
         Reduced, Aggregated

\* At the start all ranks are between two rounds, and have done nothing.
LEMMA Initially ==
    ASSUME Init
    PROVE  IInv
  <1>0. WorldSize \in Nat /\ WorldSize >= 1 /\ Rank \subseteq Nat /\ 0 \in Rank
    BY CallFacts
  <1>1. /\ failed = {} /\ nodeOf \in Placements /\ stateless \in BOOLEAN
        /\ pc = [r \in Rank |-> IF WorldSize = 1 THEN "done" ELSE "scan"]
        /\ cur = [r \in Rank |-> 0] /\ assigned = [r \in Rank |-> [q \in Rank |-> 0]]
        /\ nextId = [r \in Rank |-> IF WorldSize = 1 THEN 1 ELSE 0]
        /\ flag = [r \in Rank |-> 0] /\ total = [r \in Rank |-> [q \in Rank |-> 0]]
        /\ log = [r \in Rank |-> <<>>] /\ seg = [r \in Rank |-> "none"]
    BY DEF Init, Vector
  <1>2. TypeOK
    <2>1. <<>> \in Seq(Calls) /\ 0 \in 0..1 /\ 0 \in 0..WorldSize /\ 1 \in 0..WorldSize
      BY <1>0
    <2>2. assigned \in [Rank -> [Rank -> 0..WorldSize]] /\ total \in [Rank -> [Rank -> 0..1]]
      BY <1>1, <2>1
    <2>3. log \in [Rank -> Seq(Calls)] /\ seg \in [Rank -> {"none", "linked", "unlinked"}]
      BY <1>1, <2>1
    <2>4. cur \in [Rank -> 0..WorldSize] /\ nextId \in [Rank -> 0..WorldSize] /\ flag \in [Rank -> 0..1]
      BY <1>1, <2>1
    <2> QED BY <1>1, <2>2, <2>3, <2>4 DEF TypeOK
  <1>3. CASE WorldSize = 1
    <2>1. \A r \in Rank :
            /\ pc[r] = "done" /\ nextId[r] = 1 /\ seg[r] = "none" /\ log[r] = <<>>
            /\ \A q \in Rank : assigned[r][q] = 0
      BY <1>1, <1>3
    <2> QED BY <1>2, <1>3, <2>1 DEF IInv, Alone
  <1>4. CASE WorldSize # 1
    <2>1. ASSUME NEW r \in Rank
          PROVE  /\ pc[r] = "scan" /\ cur[r] = 0 /\ nextId[r] = 0 /\ flag[r] = 0
                 /\ \A q \in Rank : assigned[r][q] = 0
                 /\ log[r] = <<>> /\ Len(log[r]) = 0 /\ seg[r] = "none"
      BY <1>1, <1>4
    <2>2. ASSUME NEW r \in Rank
          PROVE  Idle(r) /\ Round(r) = 0 /\ Offset(r) = 0 /\ Base(r) = 0
      <3>1. Idle(r) /\ Round(r) = 0
        BY <2>1 DEF Idle, Round
      <3>2. Offset(r) = 0
        BY <2>1 DEF Offset, Idle
      <3> QED BY <2>1, <3>1, <3>2 DEF Base
    <2>3. RoundLength >= 3 /\ RoundLength \in Nat
      BY <1>0 DEF RoundLength
    <2>4. ASSUME NEW r \in Rank
          PROVE  Single(r)
      <3>1. Progress(r)
        <4>1. nextId[r] <= cur[r] /\ \A q \in Rank : assigned[r][q] <= nextId[r]
          BY <2>1, <2>4
        <4>2. \A c \in Rank : ~(c < cur[r])
          BY <1>0, <2>1, <2>4
        <4>3. \A i \in 1..nextId[r] : FALSE
          BY <2>1, <2>4
        <4>4. /\ Base(r) >= 0 /\ Idle(r)
              /\ pc[r] \notin {"create", "sent", "recv", "open", "reduce", "done"}
          BY <2>1, <2>2, <2>4
        <4> QED BY <4>1, <4>2, <4>3, <4>4 DEF Progress
      <3>2. Calling(r)
        BY <2>1, <2>2, <2>3, <2>4 DEF Calling
      <3>3. Segment(r) /\ Flagged(r) /\ Summed(r) /\ Sourced(r)
        BY <2>1, <2>4 DEF Segment, Flagged, Summed, Sourced
      <3>4. Apart(r) /\ Together(r)
        BY <2>1, <2>2, <2>4 DEF Apart, Together
      <3> QED BY <3>1, <3>2, <3>3, <3>4 DEF Single
    <2>5. ASSUME NEW r \in Rank, NEW p \in Rank
          PROVE  Double(r, p)
      <3>1. InStep(r, p)
        BY <2>1, <2>2, <2>5 DEF InStep, Follows
      <3>2. Ahead(r, p) /\ Close(r, p) /\ Told(r, p)
        BY <2>1, <2>2, <2>5 DEF Ahead, Close, Told
      <3> QED BY <3>1, <3>2 DEF Double
    <2>6. Stuck
      BY <1>1 DEF Stuck
    <2>7. CallsMatch
      BY <2>1 DEF CallsMatch
    <2>8. WorldSize > 1
      BY <1>0, <1>4
    <2> QED BY <1>2, <2>4, <2>5, <2>6, <2>7, <2>8 DEF IInv, Counting
  <1> QED BY <1>3, <1>4

\* A step that changes nothing preserves everything.
LEMMA Stuttering ==
    ASSUME IInv, UNCHANGED vars
    PROVE  IInv'
  <1>0. /\ nodeOf' = nodeOf /\ stateless' = stateless /\ failed' = failed /\ pc' = pc
        /\ cur' = cur /\ assigned' = assigned /\ nextId' = nextId /\ flag' = flag
        /\ total' = total /\ log' = log /\ seg' = seg
    BY DEF vars
  <1>1. ASSUME NEW r \in Rank
        PROVE  /\ (Idle(r)' <=> Idle(r)) /\ Round(r)' = Round(r) /\ Here(r)' = Here(r)
               /\ Offset(r)' = Offset(r) /\ Base(r)' = Base(r)
    <2>1. (Idle(r)' <=> Idle(r)) /\ Round(r)' = Round(r) /\ Here(r)' = Here(r)
      BY <1>0 DEF Idle, Round, Here
    <2>2. Offset(r)' = Offset(r)
      BY <1>0, <2>1 DEF Offset
    <2> QED BY <1>0, <2>1, <2>2 DEF Base
  <1>2. RoundLength' = RoundLength
    BY <1>0 DEF RoundLength
  <1>3. ASSUME NEW r \in Rank, NEW q \in Rank
        PROVE  /\ Place(r, q)' = Place(r, q) /\ Given(r, q)' = Given(r, q)
               /\ After(r, q)' = After(r, q)
    BY <1>0, <1>1 DEF Place, Given, After
  <1>4. CASE Alone
    BY <1>0, <1>4 DEF Alone, IInv, TypeOK
  <1>5. CASE Counting
    <2>1. TypeOK' /\ Stuck' /\ CallsMatch' /\ WorldSize > 1
      BY <1>0, <1>5 DEF Counting, TypeOK, Stuck, CallsMatch
    <2>2. ASSUME NEW r \in Rank
          PROVE  Single(r)'
      <3>1. Single(r)
        BY <1>5 DEF Counting
      <3>2. Progress(r)'
        BY <1>0, <1>1, <3>1 DEF Single, Progress, Unassigned
      <3>3. Calling(r)'
        BY <1>0, <1>1, <1>2, <3>1 DEF Single, Calling, Scheduled
      <3>4. Segment(r)' /\ Flagged(r)'
        BY <1>0, <3>1 DEF Single, Segment, Flagged
      <3>5. Summed(r)'
        BY <1>0, <1>1, <1>3, <3>1 DEF Single, Summed
      <3>6. Apart(r)' /\ Together(r)'
        BY <1>0, <1>1, <3>1 DEF Single, Apart, Together
      <3>7. Sourced(r)'
        BY <1>0, <3>1 DEF Single, Sourced, Round, Idle
      <3> QED BY <3>2, <3>3, <3>4, <3>5, <3>6, <3>7 DEF Single
    <2>3. ASSUME NEW r \in Rank, NEW p \in Rank
          PROVE  Double(r, p)'
      <3>1. Double(r, p)
        BY <1>5 DEF Counting
      <3>2. InStep(r, p)'
        BY <1>0, <1>1, <3>1 DEF Double, InStep, Follows
      <3>3. Ahead(r, p)'
        <4>1. ASSUME Follows(p, cur[r] + 1, [q \in Rank |-> After(r, q)])
              PROVE  Follows(p, cur[r] + 1, [q \in Rank |-> After(r, q)])'
          <5>1. [q \in Rank |-> After(r, q)]' = [q \in Rank |-> After(r, q)]
            BY <1>3
          <5> QED BY <1>0, <1>1, <4>1, <5>1 DEF Follows
        <4> QED BY <1>0, <1>1, <1>2, <1>3, <3>1, <4>1 DEF Double, Ahead
      <3>4. Close(r, p)' /\ Told(r, p)'
        BY <1>0, <1>1, <1>3, <3>1 DEF Double, Close, Told
      <3> QED BY <3>2, <3>3, <3>4 DEF Double
    <2> QED BY <2>1, <2>2, <2>3 DEF Counting, IInv
  <1> QED BY <1>4, <1>5 DEF IInv

\* The inductive invariant holds in every state: wherever the ranks run and whatever shared
\* memory does, they are in the same round of _node_count or one round apart.
THEOREM Invariance == Spec => []IInv
  <1>1. Init => IInv
    BY Initially
  <1>2. IInv /\ [Next]_vars => IInv'
    <2> SUFFICES ASSUME IInv, [Next]_vars
                 PROVE  IInv'
      OBVIOUS
    <2>1. CASE UNCHANGED vars
      BY <2>1, Stuttering
    <2>2. ASSUME NEW r \in Rank, Step(r)
          PROVE  IInv'
      <3>1. Counting
        BY <2>2, NobodyMoves DEF IInv
      <3>2. Counting'
        BY <2>2, <3>1, CountingKept
      <3> QED BY <3>2 DEF IInv
    <2> QED BY <2>1, <2>2 DEF Next
  <1> QED BY <1>1, <1>2, PTL DEF Spec

---------------------------------------------------------------------------
(* What the invariant says of the ranks' results.                          *)

\* Every variable keeps its type: the loop ends before its cursor passes the last rank, it
\* numbers no more nodes than there are ranks, and no sum of flags exceeds 1.
THEOREM TypesHold == Spec => []TypeOK
  <1>1. IInv => TypeOK
    BY DEF IInv, Alone, Counting
  <1> QED BY <1>1, Invariance, PTL

\* The ranks never disagree on which call of the group is the k-th, unless a source could
\* not create its segment: what in_the_same_node_as finds on one rank does not steer it to
\* other calls than the rest.
THEOREM CallsAgree == Spec => []CallsMatch
  <1>1. IInv => CallsMatch
    <2>1. Alone => CallsMatch
      <3> SUFFICES ASSUME Alone, NEW r \in Rank, NEW k \in 1..Len(log[r])
                   PROVE  FALSE
        BY DEF CallsMatch
      <3>1. log[r] = <<>>
        BY DEF Alone
      <3>2. Len(log[r]) = 0
        BY <3>1
      <3> QED BY <3>2
    <2> QED BY <2>1 DEF IInv, Counting
  <1> QED BY <1>1, Invariance, PTL

\* Ranks that have made as many calls and are between two rounds have the same map of the
\* nodes and the same count.
LEMMA IdleRanksAgree ==
    ASSUME Counting, NEW r \in Rank, NEW p \in Rank, Idle(r), Idle(p), Len(log[r]) = Len(log[p])
    PROVE  nextId[r] = nextId[p] /\ assigned[r] = assigned[p]
  <1>1. Offset(r) = 0 /\ Offset(p) = 0 /\ pc[r] # "reduce" /\ pc[p] # "reduce"
    BY DEF Offset, Idle
  <1>2. /\ Double(r, p) /\ Double(p, r) /\ Round(r) \in Int /\ Round(p) \in Int
    BY Facts DEF Counting
  <1>3. Round(p) = Round(r)
    BY <1>1, <1>2 DEF Double, Close, Ahead
  <1>4. \A q \in Rank : assigned[p][q] = assigned[r][q]
    BY <1>2, <1>3 DEF Double, InStep, Follows
  <1>5. assigned[r] \in [Rank -> 0..WorldSize] /\ assigned[p] \in [Rank -> 0..WorldSize]
    BY DEF Counting, TypeOK
  <1>6. assigned[r] = assigned[p]
    BY <1>4, <1>5
  <1> QED BY <1>3, <1>6 DEF Round

\* Ranks that are level have the same map of the nodes and the same count, whatever shared
\* memory does: _node_count decides collectively.
THEOREM MapsAgree == Spec => []NodeMapsAgree
  <1>1. IInv => NodeMapsAgree
    <2>1. Counting => NodeMapsAgree
      BY IdleRanksAgree DEF NodeMapsAgree, Idle
    <2>2. Alone => NodeMapsAgree
      <3>1. Alone => \A r, p \in Rank : r = p
        BY DEF Alone, Rank
      <3> QED BY <3>1 DEF NodeMapsAgree
    <2> QED BY <2>1, <2>2 DEF IInv
  <1> QED BY <1>1, Invariance, PTL

\* Ranks that are counted as one node share its memory, whatever shared memory does.
THEOREM NeverMerged == Spec => []NeverMerges
  <1>1. IInv => NeverMerges
    BY DEF IInv, Alone, Counting, Single, Apart, NeverMerges
  <1> QED BY <1>1, Invariance, PTL

\* No rank that has its count has left a segment behind in /dev/shm.
THEOREM NothingLeft == Spec => []NoSegmentLeft
  <1>1. IInv => NoSegmentLeft
    BY DEF IInv, Alone, Counting, Single, Segment, NoSegmentLeft
  <1> QED BY <1>1, Invariance, PTL

\* A map in which ranks have the same number, between 1 and n, just when they are on the
\* same node, and in which every number occurs, counts the nodes.
LEMMA Counted ==
    ASSUME NEW place, NEW map, NEW n \in Nat,
           \A p \in Rank : map[p] \in 1..n,
           \A p, q \in Rank : map[p] = map[q] <=> place[p] = place[q],
           \A i \in 1..n : \E p \in Rank : map[p] = i
    PROVE  n = Cardinality({place[p] : p \in Rank})
  <1> DEFINE nodes == {place[p] : p \in Rank}
             first(i) == CHOOSE p \in Rank : map[p] = i
             f == [i \in 1..n |-> place[first(i)]]
  <1>1. \A i \in 1..n : first(i) \in Rank /\ map[first(i)] = i
    OBVIOUS
  <1>2. f \in Bijection(1..n, nodes)
    <2>1. f \in [1..n -> nodes]
      BY <1>1
    <2>2. \A i, j \in 1..n : f[i] = f[j] => i = j
      BY <1>1
    <2>3. \A x \in nodes : \E i \in 1..n : f[i] = x
      <3> SUFFICES ASSUME NEW p \in Rank
                   PROVE  \E i \in 1..n : f[i] = place[p]
        OBVIOUS
      <3>1. place[first(map[p])] = place[p]
        BY <1>1
      <3> QED BY <3>1
    <2> QED BY <2>1, <2>2, <2>3 DEF Bijection, Injection, Surjection, IsInjective
  <1>3. IsFiniteSet(1..n) /\ Cardinality(1..n) = n
    BY FS_Interval
  <1> HIDE DEF f, nodes
  <1>4. Cardinality(1..n) = Cardinality(nodes)
    BY <1>2, <1>3, FS_Bijection DEF ExistsBijection
  <1> QED BY <1>3, <1>4 DEF nodes

\* The count is the number of nodes when shared memory has not failed, for every number of
\* ranks and every way to spread them (what _node_count promises).
THEOREM CountIsExact == Spec => []NodeCountExact
  <1>1. IInv => NodeCountExact
    <2> SUFFICES ASSUME IInv, failed = {}, NEW r \in Rank, pc[r] = "done"
                 PROVE  nextId[r] = Cardinality({nodeOf[p] : p \in Rank})
      BY DEF NodeCountExact
    <2>1. CASE Alone
      <3>1. nextId[r] = 1 /\ Rank = {0}
        BY <2>1 DEF Alone, Rank
      <3>2. {nodeOf[p] : p \in Rank} = {nodeOf[0]}
        BY <3>1
      <3> QED BY <3>1, <3>2, FS_Singleton
    <2>2. CASE Counting
      <3>1. /\ Progress(r) /\ Apart(r) /\ Together(r) /\ Idle(r) /\ nextId[r] \in Nat
            /\ cur[r] \in Nat /\ Rank \subseteq Nat
            /\ \A q \in Rank : assigned[r][q] \in Nat
        <4>1. WorldSize \in Nat /\ assigned[r] \in [Rank -> 0..WorldSize] /\ Rank \subseteq Nat
          BY <2>2, CallFacts DEF Counting, TypeOK
        <4>2. \A q \in Rank : assigned[r][q] \in Nat
          <5>1. 0..WorldSize \subseteq Nat
            BY <4>1
          <5> QED BY <4>1, <5>1
        <4> QED BY <2>2, <4>1, <4>2, Facts DEF Single, Idle
      <3>2. ASSUME NEW q \in Rank
            PROVE  assigned[r][q] \in 1..nextId[r]
        <4>1. assigned[r][q] # 0
          <5>1. q < cur[r] => assigned[r][q] # 0
            BY <3>1 DEF Progress
          <5>2. q >= cur[r] => assigned[r][q] # 0
            BY <3>1 DEF Progress, Unassigned
          <5> QED BY <3>1, <5>1, <5>2
        <4> QED BY <3>1, <4>1 DEF Progress
      <3>3. \A p, q \in Rank : assigned[r][p] = assigned[r][q] <=> nodeOf[p] = nodeOf[q]
        <4>1. \A p \in Rank : assigned[r][p] # 0
          BY <3>1, <3>2
        <4> QED BY <3>1, <4>1 DEF Apart, Together
      <3>4. \A i \in 1..nextId[r] : \E q \in Rank : assigned[r][q] = i
        BY <3>1 DEF Progress
      <3> QED BY <3>1, <3>2, <3>3, <3>4, Counted
    <2> QED BY <2>1, <2>2 DEF IInv
  <1> QED BY <1>1, Invariance, PTL

\* A segment loses its name only when every rank has tried to open it in the same round, and
\* gets a name only once: shm.unlink comes behind the barrier for all.
THEOREM UnlinksOnce == Spec => UnlinkedOnce
  <1> DEFINE Once ==
        \A s \in Rank :
            seg[s] # seg'[s] =>
                \/ seg[s] = "none" /\ seg'[s] = "linked"
                \/ /\ seg[s] = "linked" /\ seg'[s] = "unlinked"
                   /\ \A r \in Rank : cur[r] = s /\ pc[r] \notin {"scan", "recv", "open"}
  <1>1. IInv /\ [Next]_vars => [Once]_vars
    <2> SUFFICES ASSUME IInv, NEW r \in Rank, Step(r), NEW s \in Rank, seg[s] # seg'[s]
                 PROVE  \/ seg[s] = "none" /\ seg'[s] = "linked"
                        \/ /\ seg[s] = "linked" /\ seg'[s] = "unlinked"
                           /\ \A p \in Rank : /\ cur[p] = s
                                              /\ pc[p] \notin {"scan", "recv", "open"}
      BY DEF Next
    <2>1. Counting
      BY NobodyMoves DEF IInv
    <2>2. s = r /\ Segment(r)
      BY <2>1, Others, Facts DEF Unmoved, Single
    <2>3. CASE Create(r)
      <3>1. pc[r] = "create" /\ seg'[r] = "linked"
        BY <2>1, <2>3 DEF Create, Counting, TypeOK
      <3> QED BY <2>2, <3>1 DEF Segment
    <2>4. CASE LeaveBarrier(r)
      <3>1. /\ pc[r] = "barrier" /\ Over(r) /\ cur[r] = r
            /\ seg[r] = "linked" /\ seg'[r] = "unlinked"
        BY <2>1, <2>2, <2>4 DEF LeaveBarrier, Counting, TypeOK
      <3>2. \A p \in Rank : cur[p] = r /\ pc[p] \in {"barrier", "reduce"}
        BY <2>1, <3>1, BarrierHolds
      <3> QED BY <2>2, <3>1, <3>2
    <2>5. Create(r) \/ LeaveBarrier(r)
      BY DEF Step, Finish, Begin, CreateFails, Sent, Receive, Open, Reduced, Aggregated, Assign
    <2> QED BY <2>3, <2>4, <2>5
  <1> QED BY <1>1, Invariance, PTL DEF Spec, UnlinkedOnce
============
