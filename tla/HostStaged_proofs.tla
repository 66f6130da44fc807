------------------------- MODULE HostStaged_proofs -------------------------
(***************************************************************************)
(* Theorems about HostStaged: its type invariant, and that in a group of   *)
(* at least two members every operation returns what the abstract          *)
(* collective promises, whatever the group, the flags, the calls and the   *)
(* data.                                                                   *)
(***************************************************************************)
EXTENDS HostStaged, TLAPS

\* The call of torch.distributed that an accepted operation makes.
Issued(req, m, t) ==
    IF WorldSize = 1 /\ req.op # "barrier" THEN Bypass(t)
    ELSE CASE req.op = "all_reduce" -> AllReduceCall(t)
           [] req.op = "all_gather" -> AllGatherCall(t)
           [] req.op = "gather" -> AllGatherCall(t)
           [] req.op = "all_gatherv" -> AllGathervCall(req, t)
           [] req.op = "reduce_scatter" -> ReduceScatterCall(req, m, t)
           [] req.op = "reduce_scatterv" -> ReduceScattervCall(req, m, t)
           [] req.op = "broadcast" -> BroadcastCall(req, t)
           [] req.op = "comm_broadcast" -> CommBroadcastCall(req, t)
           [] req.op = "broadcast_object" -> BroadcastObjectCall(req, t)
           [] req.op = "broadcast_object_list" -> BroadcastObjectListCall(req, t)
           [] req.op = "barrier" -> BarrierCall(t)

\* What is asserted of a call before it is made.
Checked(req) ==
    /\ req.op \in {"broadcast", "broadcast_object", "broadcast_object_list"} =>
           req.root < WorldSize
    /\ req.op = "broadcast_object" /\ HasMqBroadcaster => req.root = 0

\* One member's progress in one slot: nothing yet, in the call, or done.
Progress(k, m) ==
    /\ k > calls[m] =>
        given[k][m] = Pending /\ posted[k][m] = Pending /\ got[k][m] = Pending
    /\ k <= calls[m] =>
        /\ plan[k] \in Requests
        /\ \E v \in Values : given[k][m] = Abstract!Argument(plan[k], m, v)
    /\ k < calls[m] => got[k][m] # Pending
    /\ k = calls[m] =>
        /\ pc[m] = "idle" => got[k][m] # Pending
        /\ pc[m] # "idle" => got[k][m] = Pending
        /\ pc[m] = "waiting" => posted[k][m] # Pending

\* Every call on the wire is the one that its slot and its argument call for.
Wired(k, m) ==
    posted[k][m] # Pending =>
        /\ posted[k][m] = Issued(plan[k], m, given[k][m])
        /\ Accepts(posted[k][m])
        /\ Checked(plan[k])
        /\ Fits(plan[k], m)

Shape ==
    /\ plan \in [Slot -> Requests \cup {Pending}]
    /\ calls \in [Member -> 0..MaxCalls]
    /\ pc \in [Member -> {"idle", "waiting", "raised"}]
    /\ DOMAIN given = Slot /\ DOMAIN got = Slot /\ DOMAIN posted = Slot
    /\ \A k \in Slot :
        DOMAIN given[k] = Member /\ DOMAIN got[k] = Member /\ DOMAIN posted[k] = Member
    /\ \A m \in Member : pc[m] # "idle" => calls[m] \in Slot

OnDevice ==
    \A k \in Slot, m \in Member :
        got[k][m] # Pending => got[k][m].where \in {"xpu", "host", "none"}

IInv ==
    /\ Shape
    /\ OnDevice
    /\ \A k \in Slot, m \in Member : Progress(k, m) /\ Wired(k, m)

---------------------------------------------------------------------------
(* Facts about the operators.                                              *)

\* A group has at least one member, member 0, and every member has a global rank.
LEMMA MemberFacts ==
    /\ WorldSize \in Nat
    /\ WorldSize >= 1
    /\ Member \subseteq Int
    /\ 0 \in Member
    /\ \A m \in Member : GlobalRank(m) \in {Ranks[i] : i \in DOMAIN Ranks}
  BY RanksAssumption DEF WorldSize, Member, GlobalRank

\* A call is not "not yet", and it belongs to one of the four kinds of group.
LEMMA IssuedIsACall ==
    ASSUME NEW req, NEW m, NEW t, req.op \in Operations
    PROVE  /\ Issued(req, m, t) # Pending
           /\ Issued(req, m, t).group \in {"cpu", "device", "mq", "local"}
  <1> DEFINE call == Issued(req, m, t)
  <1>1. call.group \in {"cpu", "device", "mq", "local"}
    BY DEF Issued, Operations, Bypass, AllReduceCall, AllGatherCall, AllGathervCall,
           ReduceScatterCall, ReduceScattervCall, BroadcastCall, CommBroadcastCall,
           BroadcastObjectCall, BroadcastObjectListCall, BarrierCall, DistCall, CommGroup
  <1>2. Pending.group = "pending"
    BY DEF Pending
  <1> QED BY <1>1, <1>2

\* An argument is not "not yet".
LEMMA ArgumentFacts ==
    ASSUME NEW req, NEW m, NEW v
    PROVE  /\ Abstract!Argument(req, m, v) # Pending
           /\ Abstract!Argument(req, m, v).where \in {"xpu", "host", "none"}
  <1>1. Abstract!Argument(req, m, v).where \in {"xpu", "host", "none"}
    BY DEF Abstract!Argument, Abstract!Nothing
  <1>2. Pending.where = "pending"
    BY DEF Pending
  <1> QED BY <1>1, <1>2

---------------------------------------------------------------------------
(* What an operation does, whichever it is.                                *)

\* Whichever operation it is, a member either raises or, its assertions having passed,
\* makes one call: the call that Issued names.
LEMMA OperationArrives ==
    ASSUME NEW m \in Member, NEW req \in Requests, NEW t, Operation(m, req, t)
    PROVE  \/ Raise(m, req, t)
           \/ Checked(req) /\ Fits(req, m) /\ Post(m, req, t, Issued(req, m, t))
  <1> USE DEF Refused, Make, HasCommunicator
  <1>b. req.op \notin {"all_gatherv", "reduce_scatter", "reduce_scatterv"} => Fits(req, m)
    BY DEF Fits
  <1>0. WorldSize \in Nat /\ WorldSize >= 1
    BY MemberFacts
  <1>1. CASE AllReduce(m, req, t)
    <2>1. req.op = "all_reduce"
      BY <1>1 DEF AllReduce
    <2>2. WorldSize > 1 => Issued(req, m, t) = AllReduceCall(t)
      BY <2>1 DEF Issued
    <2>3. WorldSize = 1 => Issued(req, m, t) = Bypass(t)
      BY <2>1 DEF Issued
    <2> QED
      BY <1>0, <1>b, <1>1, <2>1, <2>2, <2>3 DEF AllReduce, BypassOrCommunicate, Communicate, Checked
  <1>2. CASE AllGather(m, req, t)
    <2>1. req.op = "all_gather"
      BY <1>2 DEF AllGather
    <2>2. WorldSize > 1 => Issued(req, m, t) = AllGatherCall(t)
      BY <2>1 DEF Issued
    <2>3. WorldSize = 1 => Issued(req, m, t) = Bypass(t)
      BY <2>1 DEF Issued
    <2> QED
      BY <1>0, <1>b, <1>2, <2>1, <2>2, <2>3 DEF AllGather, BypassOrCommunicate, Communicate, Checked
  <1>3. CASE AllGatherv(m, req, t)
    <2>1. req.op = "all_gatherv"
      BY <1>3 DEF AllGatherv
    <2>2. WorldSize > 1 => Issued(req, m, t) = AllGathervCall(req, t)
      BY <2>1 DEF Issued
    <2>3. WorldSize = 1 => Issued(req, m, t) = Bypass(t)
      BY <2>1 DEF Issued
    <2> QED
      BY <1>0, <1>b, <1>3, <2>1, <2>2, <2>3 DEF AllGatherv, Communicate, Checked
  <1>4. CASE ReduceScatter(m, req, t)
    <2>1. req.op = "reduce_scatter"
      BY <1>4 DEF ReduceScatter
    <2>2. WorldSize > 1 => Issued(req, m, t) = ReduceScatterCall(req, m, t)
      BY <2>1 DEF Issued
    <2>3. WorldSize = 1 => Issued(req, m, t) = Bypass(t)
      BY <2>1 DEF Issued
    <2> QED
      BY <1>0, <1>b, <1>4, <2>1, <2>2, <2>3 DEF ReduceScatter, BypassOrCommunicate, Communicate, Checked
  <1>5. CASE ReduceScatterv(m, req, t)
    <2>1. req.op = "reduce_scatterv"
      BY <1>5 DEF ReduceScatterv
    <2>2. WorldSize > 1 => Issued(req, m, t) = ReduceScattervCall(req, m, t)
      BY <2>1 DEF Issued
    <2>3. WorldSize = 1 => Issued(req, m, t) = Bypass(t)
      BY <2>1 DEF Issued
    <2> QED
      BY <1>0, <1>b, <1>5, <2>1, <2>2, <2>3 DEF ReduceScatterv, Communicate, Checked
  <1>6. CASE Gather(m, req, t)
    <2>1. req.op = "gather"
      BY <1>6 DEF Gather
    <2>2. WorldSize > 1 => Issued(req, m, t) = AllGatherCall(t)
      BY <2>1 DEF Issued
    <2>3. WorldSize = 1 => Issued(req, m, t) = Bypass(t)
      BY <2>1 DEF Issued
    <2> QED
      BY <1>0, <1>b, <1>6, <2>1, <2>2, <2>3 DEF Gather, BypassOrCommunicate, Communicate, Checked
  <1>7. CASE Broadcast(m, req, t)
    <2>1. req.op = "broadcast"
      BY <1>7 DEF Broadcast
    <2>2. WorldSize > 1 => Issued(req, m, t) = BroadcastCall(req, t)
      BY <2>1 DEF Issued
    <2>3. WorldSize = 1 => Issued(req, m, t) = Bypass(t)
      BY <2>1 DEF Issued
    <2> QED
      BY <1>0, <1>b, <1>7, <2>1, <2>2, <2>3 DEF Broadcast, BypassOrMake, Checked
  <1>8. CASE CommBroadcast(m, req, t)
    <2>1. req.op = "comm_broadcast"
      BY <1>8 DEF CommBroadcast
    <2>2. WorldSize > 1 => Issued(req, m, t) = CommBroadcastCall(req, t)
      BY <2>1 DEF Issued
    <2>3. WorldSize = 1 => Issued(req, m, t) = Bypass(t)
      BY <2>1 DEF Issued
    <2> QED
      BY <1>0, <1>b, <1>8, <2>1, <2>2, <2>3 DEF CommBroadcast, Communicate, Checked
  <1>9. CASE BroadcastObject(m, req, t)
    <2>1. req.op = "broadcast_object"
      BY <1>9 DEF BroadcastObject
    <2>2. WorldSize > 1 => Issued(req, m, t) = BroadcastObjectCall(req, t)
      BY <2>1 DEF Issued
    <2>3. WorldSize = 1 => Issued(req, m, t) = Bypass(t)
      BY <2>1 DEF Issued
    <2> QED
      BY <1>0, <1>b, <1>9, <2>1, <2>2, <2>3 DEF BroadcastObject, BypassOrMake, Checked
  <1>10. CASE BroadcastObjectList(m, req, t)
    <2>1. req.op = "broadcast_object_list"
      BY <1>10 DEF BroadcastObjectList
    <2>2. WorldSize > 1 => Issued(req, m, t) = BroadcastObjectListCall(req, t)
      BY <2>1 DEF Issued
    <2>3. WorldSize = 1 => Issued(req, m, t) = Bypass(t)
      BY <2>1 DEF Issued
    <2> QED
      BY <1>0, <1>b, <1>10, <2>1, <2>2, <2>3 DEF BroadcastObjectList, BypassOrMake, Checked
  <1>11. CASE Barrier(m, req, t)
    <2>1. req.op = "barrier"
      BY <1>11 DEF Barrier
    <2>2. WorldSize > 1 => Issued(req, m, t) = BarrierCall(t)
      BY <2>1 DEF Issued
    <2>3. WorldSize = 1 => Issued(req, m, t) = BarrierCall(t)
      BY <2>1 DEF Issued
    <2> QED
      BY <1>0, <1>b, <1>11, <2>1, <2>2, <2>3 DEF Barrier, Checked
  <1> QED
    BY <1>1, <1>2, <1>3, <1>4, <1>5, <1>6, <1>7, <1>8, <1>9, <1>10, <1>11
    DEF Operation

---------------------------------------------------------------------------
(* The inductive invariant.                                                *)

\* Before the first call the invariant holds: nothing is given, posted or returned.
LEMMA InitIInv == Init => IInv
  <1> SUFFICES ASSUME Init PROVE IInv
    OBVIOUS
  <1> USE MemberFacts, RequestsAssumption DEF Init, Abstract!Init
  <1> USE DEF Abstract!Slot, Abstract!Member, Slot, Member, Abstract!Pending, Pending
  <1>1. Shape
    BY DEF Shape
  <1>2. OnDevice
    BY DEF OnDevice
  <1>3. ASSUME NEW k \in Slot, NEW m \in Member
        PROVE  Progress(k, m) /\ Wired(k, m)
    BY DEF Progress, Wired
  <1> QED BY <1>1, <1>2, <1>3 DEF IInv

\* Arriving at a call touches the slot's plan only if nobody has been there, and
\* nobody's earlier slots.
LEMMA ArriveFacts ==
    ASSUME IInv, NEW m \in Member, NEW req \in Requests, NEW t, Arrive(m, req, t)
    PROVE  /\ calls[m] + 1 \in Slot
           /\ plan' \in [Slot -> Requests \cup {Pending}]
           /\ plan'[calls[m] + 1] = req
           /\ \A k \in Slot, n \in Member : k <= calls[n] => plan'[k] = plan[k]
           /\ calls' \in [Member -> 0..MaxCalls]
           /\ calls'[m] = calls[m] + 1
           /\ \A n \in Member : n # m => calls'[n] = calls[n]
           /\ DOMAIN given' = Slot
           /\ \A k \in Slot : DOMAIN given'[k] = Member
           /\ given'[calls[m] + 1][m] = t
           /\ \A k \in Slot, n \in Member :
                  (k # calls[m] + 1 \/ n # m) => given'[k][n] = given[k][n]
           /\ got' = got
           /\ pc[m] = "idle"
  <1> USE RequestsAssumption, MemberFacts DEF IInv, Shape, Arrive
  <1>1. calls[m] + 1 \in Slot /\ calls[m] \in 0..MaxCalls
    OBVIOUS
  <1>2. plan' \in [Slot -> Requests \cup {Pending}] /\ plan'[calls[m] + 1] = req
    BY <1>1
  <1>3. ASSUME NEW k \in Slot, NEW n \in Member, k <= calls[n]
        PROVE  plan'[k] = plan[k]
    <2>1. plan[k] \in Requests
      BY <1>3 DEF Progress
    <2>2. k = calls[m] + 1 => plan[k] = req
      BY <2>1
    <2> QED BY <1>1, <2>2
  <1>4. /\ calls' \in [Member -> 0..MaxCalls]
        /\ calls'[m] = calls[m] + 1
        /\ \A n \in Member : n # m => calls'[n] = calls[n]
    BY <1>1 DEF Slot
  <1>5. /\ DOMAIN given' = Slot
        /\ \A k \in Slot : DOMAIN given'[k] = Member
        /\ given'[calls[m] + 1][m] = t
        /\ \A k \in Slot, n \in Member :
               (k # calls[m] + 1 \/ n # m) => given'[k][n] = given[k][n]
    BY <1>1
  <1> QED BY <1>1, <1>2, <1>3, <1>4, <1>5

\* Whatever becomes of a call, nobody's other slots are disturbed by it.
LEMMA ArriveElsewhere ==
    ASSUME IInv, NEW m \in Member, NEW req \in Requests, NEW t, Arrive(m, req, t),
           NEW state \in {"waiting", "raised"}, pc' = [pc EXCEPT ![m] = state],
           NEW call,
           posted' = posted \/ posted' = [posted EXCEPT ![calls[m] + 1][m] = call],
           NEW k \in Slot, NEW n \in Member, k # calls[m] + 1 \/ n # m
    PROVE  Progress(k, n)' /\ Wired(k, n)'
  <1> DEFINE now == calls[m] + 1
  <1>1. /\ now \in Slot
        /\ \A j \in Slot, l \in Member : j <= calls[l] => plan'[j] = plan[j]
        /\ calls'[m] = now
        /\ \A l \in Member : l # m => calls'[l] = calls[l]
        /\ given'[k][n] = given[k][n]
        /\ got' = got
        /\ pc[m] = "idle"
    BY ArriveFacts
  <1>2. posted'[k][n] = posted[k][n]
    BY <1>1 DEF IInv, Shape
  <1>3. n # m => pc'[n] = pc[n]
    BY DEF IInv, Shape
  <1>4. now \in Nat /\ calls[m] \in Nat /\ calls[n] \in Nat /\ k \in Nat
    BY RequestsAssumption DEF IInv, Shape, Slot
  <1>5. k <= calls[n] => plan'[k] = plan[k]
    BY <1>1
  <1>6. Progress(k, n) /\ Wired(k, n)
    BY DEF IInv
  <1>7. pc'[m] = state
    BY DEF IInv, Shape
  <1>8. now = calls[m] + 1
    OBVIOUS
  <1> HIDE DEF now
  <1>9. Progress(k, n)'
    <2>1. CASE n # m
      BY <1>1, <1>2, <1>3, <1>4, <1>5, <1>6, <2>1 DEF Progress
    <2>2. CASE n = m /\ k < now
      <3>1. k <= calls[n] /\ k < calls'[n]
        BY <1>1, <1>4, <1>8, <2>2
      <3>2. got[k][n] # Pending
        BY <1>1, <1>4, <1>6, <1>8, <2>2 DEF Progress
      <3> QED BY <1>1, <1>4, <1>5, <1>6, <3>1, <3>2 DEF Progress
    <2>3. CASE n = m /\ k > now
      <3>1. k > calls[n] /\ k > calls'[n]
        BY <1>1, <1>4, <1>8, <2>3
      <3> QED BY <1>1, <1>2, <1>4, <1>6, <3>1 DEF Progress
    <2> QED BY <1>4, <1>8, <2>1, <2>2, <2>3
  <1>10. Wired(k, n)'
    <2>1. CASE posted[k][n] = Pending
      BY <1>2, <2>1 DEF Wired
    <2>2. CASE posted[k][n] # Pending
      <3>1. k <= calls[n]
        BY <1>4, <1>6, <2>2 DEF Progress
      <3> QED BY <1>1, <1>2, <1>5, <1>6, <3>1 DEF Wired, Issued, Accepts
    <2> QED BY <2>1, <2>2
  <1> QED BY <1>9, <1>10

\* A call that is refused leaves the invariant: it takes its slot and posts nothing.
LEMMA RaiseIInv ==
    ASSUME IInv, NEW m \in Member, NEW req \in Requests, NEW v \in Values,
           Raise(m, req, Abstract!Argument(req, m, v))
    PROVE  IInv'
  <1> DEFINE t == Abstract!Argument(req, m, v)
  <1>a. PICK now \in Slot : now = calls[m] + 1
    BY ArriveFacts DEF Raise
  <1>0. Arrive(m, req, t) /\ pc' = [pc EXCEPT ![m] = "raised"] /\ posted' = posted
    BY DEF Raise
  <1>1. Shape'
    BY <1>0, ArriveFacts DEF IInv, Shape
  <1>2. OnDevice'
    BY <1>0, ArriveFacts DEF IInv, OnDevice
  <1>3. ASSUME NEW k \in Slot, NEW n \in Member, k # now \/ n # m
        PROVE  Progress(k, n)' /\ Wired(k, n)'
    BY <1>a, <1>0, <1>3, ArriveElsewhere
  <1>4. Progress(now, m)' /\ Wired(now, m)'
    <2>1. /\ now \in Slot /\ now \in Nat /\ calls[m] < now
          /\ calls'[m] = now /\ plan'[now] = req /\ given'[now][m] = t /\ got' = got
      <3>1. calls'[m] = now /\ plan'[now] = req /\ given'[now][m] = t /\ got' = got
        BY <1>a, <1>0, ArriveFacts
      <3>2. now \in Nat /\ calls[m] \in Nat
        BY RequestsAssumption DEF IInv, Shape, Slot
      <3> HIDE DEF t
      <3> QED BY <1>a, <3>1, <3>2
    <2>2. pc'[m] = "raised"
      BY <1>0 DEF IInv, Shape
    <2>3. posted[now][m] = Pending /\ got[now][m] = Pending
      BY <2>1 DEF IInv, Progress
    <2>4. Progress(now, m)'
      BY <1>0, <2>1, <2>2, <2>3 DEF Progress
    <2>5. Wired(now, m)'
      BY <1>0, <2>3 DEF Wired
    <2> QED BY <2>4, <2>5
  <1>5. \A k \in Slot, n \in Member : Progress(k, n)' /\ Wired(k, n)'
    BY <1>3, <1>4
  <1> QED BY <1>1, <1>2, <1>5 DEF IInv

\* A call that is posted leaves the invariant: it is the one its argument calls for.
LEMMA PostIInv ==
    ASSUME IInv, NEW m \in Member, NEW req \in Requests, NEW v \in Values,
           Checked(req), Fits(req, m),
           Post(m, req, Abstract!Argument(req, m, v),
                Issued(req, m, Abstract!Argument(req, m, v)))
    PROVE  IInv'
  <1> DEFINE t == Abstract!Argument(req, m, v)
  <1>a. PICK now \in Slot : now = calls[m] + 1
    BY ArriveFacts DEF Post
  <1> DEFINE call == Issued(req, m, t)
  <1>0. /\ Arrive(m, req, t) /\ Accepts(call)
        /\ pc' = [pc EXCEPT ![m] = "waiting"]
        /\ posted' = [posted EXCEPT ![now][m] = call]
    BY <1>a DEF Post
  <1>1. Shape'
    BY <1>0, ArriveFacts DEF IInv, Shape
  <1>2. OnDevice'
    BY <1>0, ArriveFacts DEF IInv, OnDevice
  <1>3. ASSUME NEW k \in Slot, NEW n \in Member, k # now \/ n # m
        PROVE  Progress(k, n)' /\ Wired(k, n)'
    BY <1>a, <1>0, <1>3, ArriveElsewhere
  <1>4. Progress(now, m)' /\ Wired(now, m)'
    <2>1. /\ now \in Slot /\ now \in Nat /\ calls[m] < now
          /\ calls'[m] = now /\ plan'[now] = req /\ given'[now][m] = t /\ got' = got
      <3>1. calls'[m] = now /\ plan'[now] = req /\ given'[now][m] = t /\ got' = got
        BY <1>a, <1>0, ArriveFacts
      <3>2. now \in Nat /\ calls[m] \in Nat
        BY RequestsAssumption DEF IInv, Shape, Slot
      <3> HIDE DEF t
      <3> QED BY <1>a, <3>1, <3>2
    <2>2. pc'[m] = "waiting"
      BY <1>0 DEF IInv, Shape
    <2>3. got[now][m] = Pending
      BY <2>1 DEF IInv, Progress
    <2>4. posted'[now][m] = call /\ call # Pending
      BY <1>0, <2>1, IssuedIsACall, RequestsAssumption DEF IInv, Shape
    <2>5. Progress(now, m)'
      BY <2>1, <2>2, <2>3, <2>4 DEF Progress
    <2>6. Wired(now, m)'
      <3>1. posted'[now][m] = Issued(plan'[now], m, given'[now][m])
        BY <2>1, <2>4
      <3>2. Checked(plan'[now]) /\ Fits(plan'[now], m) /\ Accepts(posted'[now][m])
        BY <1>0, <2>1, <2>4
      <3> HIDE DEF call, t
      <3> QED BY <3>1, <3>2 DEF Wired, Issued, Accepts, Checked, Fits
    <2> QED BY <2>5, <2>6
  <1>5. \A k \in Slot, n \in Member : Progress(k, n)' /\ Wired(k, n)'
    BY <1>3, <1>4
  <1> QED BY <1>1, <1>2, <1>5 DEF IInv

---------------------------------------------------------------------------
(* Lemmas for the refinement.                                              *)

\* The abstract collective computes with the operators that the wire computes with.
LEMMA SameData ==
    ASSUME NEW f, NEW n, NEW sizes, NEW m, NEW dtype, NEW len
    PROVE  /\ Abstract!ElementSum(f) = ElementSum(f)
           /\ Abstract!ShareOf(f, sizes, m) = ShareOf(f, sizes, m)
           /\ Abstract!Concat(f, n) = Concat(f, n)
           /\ Abstract!Cast(dtype, f) = Cast(dtype, f)
           /\ Abstract!EvenShares(len, n) = EvenShares(len, n)
           /\ Abstract!Pending = Pending
  <1>1. Abstract!ElementSum(f) = ElementSum(f)
    BY Zenon DEF Abstract!ElementSum, ElementSum, Abstract!SumFunction, SumFunction,
       Abstract!SumFunctionOnSet, SumFunctionOnSet, Abstract!FoldFunctionOnSet,
       FoldFunctionOnSet, Abstract!MapThenFoldSet, MapThenFoldSet
  <1>2. Abstract!ShareOf(f, sizes, m) = ShareOf(f, sizes, m)
    BY Zenon DEF Abstract!ShareOf, ShareOf, Abstract!MapThenSumSet, MapThenSumSet,
       Abstract!MapThenFoldSet, MapThenFoldSet
  <1>3. Abstract!Concat(f, n) = Concat(f, n)
    BY Zenon DEF Abstract!Concat, Concat, Abstract!FlattenSeq, FlattenSeq
  <1>4. Abstract!Cast(dtype, f) = Cast(dtype, f)
    BY Zenon DEF Abstract!Cast, Cast, Abstract!RoundHalf, RoundHalf,
       Abstract!HalfExact, HalfExact
  <1>5. Abstract!EvenShares(len, n) = EvenShares(len, n)
    BY Zenon DEF Abstract!EvenShares, EvenShares
  <1>6. Abstract!Pending = Pending
    BY DEF Abstract!Pending, Pending
  <1> QED BY <1>1, <1>2, <1>3, <1>4, <1>5, <1>6

---------------------------------------------------------------------------
(* What goes on the wire, and what comes back.                             *)

DeviceTensor(dtype, data) == [where |-> "xpu", dtype |-> dtype, data |-> data]

\* The argument of an operation on tensors is a tensor on the device.
LEMMA TensorArgument ==
    ASSUME NEW req, NEW m, NEW v,
           req.op \notin {"barrier", "broadcast_object", "broadcast_object_list"}
    PROVE  LET t == Abstract!Argument(req, m, v)
           IN  t = DeviceTensor(req.dtype, t.data)
  BY DEF Abstract!Argument, DeviceTensor

\* Staging for a move changes only the device; staging for a reduction also the dtype,
\* and never a number: a half is a float.
LEMMA Staging ==
    ASSUME NEW dtype \in Dtypes, NEW x
    PROVE  LET t == DeviceTensor(dtype, x)
               there == IF HostStagedTP THEN "cpu" ELSE "xpu"
               wide == IF HostStagedTP THEN WireDtype(dtype) ELSE dtype
           IN  /\ StageToMove(t) = [where |-> there, dtype |-> dtype, data |-> x]
               /\ StageToReduce(t) = [where |-> there, dtype |-> wide, data |-> x]
  <1>1. WireDtype(dtype) # "half"
    BY DEF WireDtype, Dtypes
  <1>2. Cast(WireDtype(dtype), x) = x
    BY <1>1 DEF Cast
  <1> QED BY <1>2 DEF StageToMove, StageToReduce, To, DeviceTensor

\* A reduction on the wire followed by the way back rounds once, to the caller's dtype.
LEMMA Unstaging ==
    ASSUME NEW dtype \in Dtypes, NEW x, NEW y
    PROVE  LET t == DeviceTensor(dtype, x)
               reduced == [StageToReduce(t) EXCEPT
                              !.data = Cast(StageToReduce(t).dtype, y)]
               moved == [StageToMove(t) EXCEPT !.data = y]
           IN  /\ UnstageReduced(reduced, t) = DeviceTensor(dtype, Cast(dtype, y))
               /\ Unstage(moved, t) = DeviceTensor(dtype, y)
  <1>1. WireDtype(dtype) # "half"
    BY DEF WireDtype, Dtypes
  <1>2. Cast(WireDtype(dtype), y) = y
    BY <1>1 DEF Cast
  <1> DEFINE t == DeviceTensor(dtype, x)
  <1>3. CASE HostStagedTP
    <2>1. /\ StageToMove(t) = [where |-> "cpu", dtype |-> dtype, data |-> x]
          /\ StageToReduce(t) = [where |-> "cpu", dtype |-> WireDtype(dtype), data |-> x]
      BY <1>3, Staging
    <2>2. /\ t.where = "xpu"
          /\ t.dtype = dtype
      BY DEF DeviceTensor
    <2>3. [StageToReduce(t) EXCEPT !.data = Cast(StageToReduce(t).dtype, y)]
            = [where |-> "cpu", dtype |-> WireDtype(dtype), data |-> y]
      BY <1>2, <2>1
    <2>4. [StageToMove(t) EXCEPT !.data = y] = [where |-> "cpu", dtype |-> dtype, data |-> y]
      BY <2>1
    <2> HIDE DEF t
    <2>5. UnstageReduced([where |-> "cpu", dtype |-> WireDtype(dtype), data |-> y], t)
            = DeviceTensor(dtype, Cast(dtype, y))
      BY <1>3, <2>2 DEF UnstageReduced, To, DeviceTensor
    <2>6. Unstage([where |-> "cpu", dtype |-> dtype, data |-> y], t) = DeviceTensor(dtype, y)
      BY <1>3, <2>2 DEF Unstage, DeviceTensor
    <2> QED BY <2>3, <2>4, <2>5, <2>6 DEF t
  <1>4. CASE ~HostStagedTP
    <2>1. StageToMove(t) = t /\ StageToReduce(t) = t
      BY <1>4 DEF StageToMove, StageToReduce
    <2> QED BY <1>4, <2>1 DEF UnstageReduced, Unstage, DeviceTensor
  <1> QED BY <1>3, <1>4

\* The same, for every tensor that may have been staged.
LEMMA UnstagingReduced ==
    ASSUME NEW dtype \in Dtypes, NEW y
    PROVE  \A x : UnstageReduced([StageToReduce(DeviceTensor(dtype, x)) EXCEPT
                            !.data = Cast(StageToReduce(DeviceTensor(dtype, x)).dtype, y)],
                        DeviceTensor(dtype, x)) = DeviceTensor(dtype, Cast(dtype, y))
  <1> SUFFICES ASSUME NEW x
               PROVE  UnstageReduced([StageToReduce(DeviceTensor(dtype, x)) EXCEPT
                            !.data = Cast(StageToReduce(DeviceTensor(dtype, x)).dtype, y)],
                        DeviceTensor(dtype, x)) = DeviceTensor(dtype, Cast(dtype, y))
    OBVIOUS
  <1> QED BY Unstaging, Zenon

---------------------------------------------------------------------------
(* The answer of a completed call is the meaning of the abstract call.     *)

\* A communicator's broadcast is only right where local and global ranks coincide.
LocalIsGlobal ==
    \A req \in Requests :
        req.op = "comm_broadcast" => req.root \in Member /\ GlobalRank(req.root) = req.root

\* What a member that waits knows of itself and of whoever else is in the slot.
LEMMA SlotFacts ==
    ASSUME IInv, NEW k \in Slot, NEW n \in Member, posted[k][n] # Pending
    PROVE  /\ plan[k] \in Requests
           /\ Checked(plan[k])
           /\ Fits(plan[k], n)
           /\ \E v \in Values : given[k][n] = Abstract!Argument(plan[k], n, v)
           /\ given[k][n] # Pending
           /\ posted[k][n] = Issued(plan[k], n, given[k][n])
           /\ Accepts(posted[k][n])
  <1>1. Progress(k, n) /\ Wired(k, n) /\ k \in Int /\ calls[n] \in Int
    BY RequestsAssumption DEF IInv, Shape, Slot
  <1>2. k <= calls[n]
    BY <1>1 DEF Progress
  <1> QED BY <1>1, <1>2, ArgumentFacts DEF Progress, Wired

\* A call of a communicator's collective carries the caller's numbers.
LEMMA PostedData ==
    ASSUME IInv, WorldSize > 1, NEW k \in Slot, NEW n \in Member, posted[k][n] # Pending,
           plan[k].op # "barrier"
    PROVE  posted[k][n].tensor.data = given[k][n].data
  <1> DEFINE req == plan[k]
  <1> DEFINE t == given[k][n]
  <1>1. req \in Requests /\ posted[k][n] = Issued(req, n, t)
    BY SlotFacts
  <1>2. PICK v \in Values : t = Abstract!Argument(req, n, v)
    BY SlotFacts
  <1>3. req.op \in Operations /\ req.dtype \in Dtypes
    BY <1>1, RequestsAssumption
  <1> HIDE DEF req, t
  <1>4. CASE req.op \in {"broadcast_object", "broadcast_object_list", "broadcast"}
    <2>1. Issued(req, n, t).tensor = t
      BY <1>4 DEF Issued, BroadcastObjectCall, BroadcastObjectListCall, BroadcastCall,
                  DistCall
    <2> QED BY <1>1, <2>1 DEF req, t
  <1>5. CASE req.op \notin {"barrier", "broadcast_object", "broadcast_object_list",
                            "broadcast"}
    <2>1. t = DeviceTensor(req.dtype, t.data)
      BY <1>2, <1>5, TensorArgument
    <2>2. StageToMove(t).data = t.data /\ StageToReduce(t).data = t.data
      <3>1. \A x : /\ StageToMove(DeviceTensor(req.dtype, x)).data = x
                   /\ StageToReduce(DeviceTensor(req.dtype, x)).data = x
        BY <1>3, Staging
      <3> QED BY <2>1, <3>1
    <2>3. Issued(req, n, t).tensor \in {StageToMove(t), StageToReduce(t)}
      BY <1>3, <1>5 DEF Issued, Operations, AllReduceCall, AllGatherCall, AllGathervCall,
         ReduceScatterCall, ReduceScattervCall, CommBroadcastCall, DistCall
    <2> QED BY <1>1, <2>2, <2>3 DEF req, t
  <1> QED BY <1>3, <1>4, <1>5 DEF req, t

Objects == {"broadcast_object", "broadcast_object_list"}
Broadcasts == {"broadcast", "comm_broadcast"} \cup Objects
Reductions == {"all_reduce", "reduce_scatter", "reduce_scatterv"}
Gathers == {"all_gather", "all_gatherv", "gather"}

\* A rendezvous is over only when everybody has made the call.
LEMMA Rendezvous ==
    ASSUME IInv, WorldSize > 1, NEW k \in Slot, NEW m \in Member,
           posted[k][m] # Pending, Completes(k, m), plan[k].op \in Reductions \cup Gathers
    PROVE  /\ \A n \in Member : posted[k][n] # Pending
           /\ [n \in Member |-> posted[k][n].tensor.data] = Abstract!DataOf(given[k])
  <1> DEFINE req == plan[k]
  <1>1. posted[k][m] = Issued(req, m, given[k][m])
    BY SlotFacts
  <1> DEFINE t == given[k][m]
  <1>a. Issued(req, m, t) \in {AllReduceCall(t), ReduceScatterCall(req, m, t),
                            ReduceScattervCall(req, m, t), AllGatherCall(t),
                            AllGathervCall(req, t)}
    BY DEF Issued, Reductions, Gathers
  <1>2. posted[k][m].group # "local" /\ posted[k][m].kind # "broadcast"
    <2> HIDE DEF req, t
    <2> QED BY <1>1, <1>a DEF AllReduceCall, AllGatherCall, AllGathervCall,
               ReduceScatterCall, ReduceScattervCall, DistCall, CommGroup, t
  <1>3. \A n \in Member : posted[k][n] # Pending
    BY <1>2 DEF Completes, JoinedBy
  <1>4. \A n \in Member : posted[k][n].tensor.data = given[k][n].data
    BY <1>3, PostedData DEF Reductions, Gathers
  <1>5. [n \in Member |-> posted[k][n].tensor.data] = [n \in Member |-> given[k][n].data]
    BY <1>4
  <1> QED BY <1>3, <1>5 DEF Abstract!DataOf, Abstract!Member, Member

\* What a reduction returns on a group of at least two.
LEMMA ReductionAnswer ==
    ASSUME IInv, WorldSize > 1, NEW k \in Slot, NEW m \in Member,
           posted[k][m] # Pending, Completes(k, m), plan[k].op \in Reductions
    PROVE  Answer(plan[k], k, m) = Abstract!Meaning(plan[k], given[k], m)
  <1> DEFINE req == plan[k]
  <1> DEFINE t == given[k][m]
  <1> DEFINE c == posted[k][m]
  <1> DEFINE sum == ElementSum(Abstract!DataOf(given[k]))
  <1>1. req \in Requests /\ c = Issued(req, m, t) /\ req.dtype \in Dtypes
    BY SlotFacts, RequestsAssumption
  <1>2. t = DeviceTensor(req.dtype, t.data)
    <2>1. PICK v \in Values : t = Abstract!Argument(req, m, v)
      BY SlotFacts
    <2> QED BY <2>1, TensorArgument DEF Reductions, Objects
  <1>3. [n \in Member |-> posted[k][n].tensor.data] = Abstract!DataOf(given[k])
    BY Rendezvous
  <1>4. c.tensor = StageToReduce(t)
    BY <1>1 DEF Issued, Reductions, AllReduceCall, ReduceScatterCall, ReduceScattervCall,
       DistCall
  <1>5. c.kind # "identity"
    BY <1>1 DEF Issued, Reductions, AllReduceCall, ReduceScatterCall, ReduceScattervCall,
       DistCall
  <1>6. \E y : /\ WireData(k, m) = Cast(c.tensor.dtype, y)
               /\ Abstract!Meaning(req, given[k], m) = Abstract!Reduced(t, y)
    <2>1. CASE req.op = "all_reduce"
      <3>1. c.kind = "all_reduce"
        BY <1>1, <2>1 DEF Issued, AllReduceCall, DistCall
      <3>2. WireData(k, m) = Cast(c.tensor.dtype, sum)
        BY <1>3, <3>1 DEF WireData
      <3>3. Abstract!Meaning(req, given[k], m) = Abstract!Reduced(t, sum)
        BY <2>1, SameData DEF Abstract!Meaning
      <3> QED BY <3>2, <3>3
    <2>2. CASE req.op \in {"reduce_scatter", "reduce_scatterv"}
      <3>1. /\ c.kind \in {"reduce_scatter", "reduce_scatter_tensor"}
            /\ c.sizes = Abstract!Shares(req, m)
        <4>1. CASE req.op = "reduce_scatter"
          <5>1. c = ReduceScatterCall(req, m, t)
            BY <1>1, <4>1 DEF Issued
          <5>2. Abstract!Shares(req, m) = EvenShares(Abstract!LengthOf(req, m), WorldSize)
            BY <1>1, <4>1, SameData, RequestsAssumption DEF Abstract!Shares
          <5> QED BY <5>1, <5>2 DEF ReduceScatterCall, DistCall
        <4>2. CASE req.op = "reduce_scatterv"
          <5>1. c = ReduceScattervCall(req, m, t)
            BY <1>1, <4>2 DEF Issued
          <5>2. CASE Uneven(req)
            BY <5>1, <5>2 DEF Uneven, ReduceScattervCall, DistCall, Abstract!Shares
          <5>3. CASE ~Uneven(req)
            <6>1. Abstract!Shares(req, m) = EvenShares(Abstract!LengthOf(req, m), WorldSize)
              <7>1. Fits(req, m)
                BY SlotFacts
              <7> QED
                BY <1>1, <4>2, <5>3, <7>1, SameData, RequestsAssumption
                DEF Abstract!Shares, Uneven
            <6> QED BY <5>1, <5>3, <6>1 DEF ReduceScattervCall, ReduceScatterCall, DistCall
          <5> QED BY <5>2, <5>3
        <4> QED BY <2>2, <4>1, <4>2
      <3>2. WireData(k, m) = Cast(c.tensor.dtype, ShareOf(sum, Abstract!Shares(req, m), m))
        BY <1>3, <3>1 DEF WireData
      <3>3. Abstract!Meaning(req, given[k], m)
              = Abstract!Reduced(t, ShareOf(sum, Abstract!Shares(req, m), m))
        BY <2>2, SameData DEF Abstract!Meaning
      <3> QED BY <3>2, <3>3
    <2> QED BY <2>1, <2>2 DEF Reductions
  <1>7. PICK y : /\ WireData(k, m) = Cast(c.tensor.dtype, y)
                 /\ Abstract!Meaning(req, given[k], m) = Abstract!Reduced(t, y)
    BY <1>6
  <1>8. Answer(req, k, m) = UnstageReduced(Wire(k, m), t)
    BY <1>5 DEF Answer, Reductions
  <1>9. Wire(k, m) = [StageToReduce(t) EXCEPT !.data = Cast(StageToReduce(t).dtype, y)]
    BY <1>4, <1>7 DEF Wire
  <1>10. Abstract!Reduced(t, y) = DeviceTensor(req.dtype, Cast(req.dtype, y))
    <2>1. t.where = "xpu" /\ t.dtype = req.dtype
      BY <1>2 DEF DeviceTensor
    <2> QED BY <2>1, SameData DEF Abstract!Reduced, DeviceTensor
  <1>11. UnstageReduced(Wire(k, m), t) = DeviceTensor(req.dtype, Cast(req.dtype, y))
    <2> HIDE DEF t, req
    <2>1. \A x : UnstageReduced([StageToReduce(DeviceTensor(req.dtype, x)) EXCEPT
                      !.data = Cast(StageToReduce(DeviceTensor(req.dtype, x)).dtype, y)],
                    DeviceTensor(req.dtype, x)) = DeviceTensor(req.dtype, Cast(req.dtype, y))
      <3>1. req.dtype \in Dtypes
        BY <1>1
      <3> QED BY <3>1, UnstagingReduced
    <2> QED BY <1>2, <1>9, <2>1
  <1> QED BY <1>7, <1>8, <1>10, <1>11

\* What a gather returns on a group of at least two.
LEMMA GatheringAnswer ==
    ASSUME IInv, WorldSize > 1, NEW k \in Slot, NEW m \in Member,
           posted[k][m] # Pending, Completes(k, m), plan[k].op \in Gathers
    PROVE  Answer(plan[k], k, m) = Abstract!Meaning(plan[k], given[k], m)
  <1> DEFINE req == plan[k]
  <1> DEFINE t == given[k][m]
  <1> DEFINE c == posted[k][m]
  <1> DEFINE all == Concat(Abstract!DataOf(given[k]), WorldSize)
  <1>1. req \in Requests /\ c = Issued(req, m, t) /\ req.dtype \in Dtypes
    BY SlotFacts, RequestsAssumption
  <1>2. t = DeviceTensor(req.dtype, t.data)
    <2>1. PICK v \in Values : t = Abstract!Argument(req, m, v)
      BY SlotFacts
    <2> QED BY <2>1, TensorArgument DEF Gathers
  <1>3. [n \in Member |-> posted[k][n].tensor.data] = Abstract!DataOf(given[k])
    BY Rendezvous
  <1>a. Issued(req, m, t) \in {AllGatherCall(t), AllGathervCall(req, t)}
    BY DEF Issued, Gathers
  <1>4. /\ c.tensor = StageToMove(t)
        /\ c.kind \in {"all_gather", "all_gather_into_tensor"}
    BY <1>1, <1>a DEF AllGatherCall, AllGathervCall, DistCall
  <1>5. WireData(k, m) = all
    BY <1>3, <1>4 DEF WireData
  <1>6. Unstage(Wire(k, m), t) = DeviceTensor(req.dtype, all)
    <2>1. Wire(k, m) = [StageToMove(t) EXCEPT !.data = all]
      BY <1>4, <1>5 DEF Wire
    <2> HIDE DEF t, req
    <2>2. \A x : Unstage([StageToMove(DeviceTensor(req.dtype, x)) EXCEPT !.data = all],
                         DeviceTensor(req.dtype, x)) = DeviceTensor(req.dtype, all)
      BY <1>1, Unstaging
    <2> QED BY <1>2, <2>1, <2>2
  <1>7. Abstract!Moved(t, all) = DeviceTensor(req.dtype, all)
    <2>1. t.where = "xpu" /\ t.dtype = req.dtype
      BY <1>2 DEF DeviceTensor
    <2> QED BY <2>1 DEF Abstract!Moved, DeviceTensor
  <1>8. CASE req.op \in {"all_gather", "all_gatherv"}
    <2>1. Answer(req, k, m) = Unstage(Wire(k, m), t)
      BY <1>4, <1>8 DEF Answer
    <2>2. Abstract!Meaning(req, given[k], m) = Abstract!Moved(t, all)
      BY <1>8, SameData DEF Abstract!Meaning
    <2> QED BY <1>6, <1>7, <2>1, <2>2
  <1>9. CASE req.op = "gather"
    <2>1. Answer(req, k, m) =
            IF m = req.root THEN Unstage(Wire(k, m), t) ELSE Abstract!Nothing
      BY <1>4, <1>9 DEF Answer, GatherAnswer
    <2>2. Abstract!Meaning(req, given[k], m) =
            IF m = req.root THEN Abstract!Moved(t, all) ELSE Abstract!Nothing
      BY <1>9, SameData DEF Abstract!Meaning
    <2> QED BY <1>6, <1>7, <2>1, <2>2
  <1> QED BY <1>8, <1>9 DEF Gathers

\* What a broadcast returns on a group of at least two: the source's data.
LEMMA BroadcastAnswer ==
    ASSUME IInv, WorldSize > 1, LocalIsGlobal, NEW k \in Slot, NEW m \in Member,
           posted[k][m] # Pending, Completes(k, m), plan[k].op \in Broadcasts
    PROVE  /\ Answer(plan[k], k, m) = Abstract!Meaning(plan[k], given[k], m)
           /\ plan[k].root \in Member
           /\ given[k][plan[k].root] # Pending
  <1> DEFINE req == plan[k]
  <1> DEFINE t == given[k][m]
  <1> DEFINE c == posted[k][m]
  <1> DEFINE src == req.root
  <1>1. /\ req \in Requests /\ c = Issued(req, m, t) /\ req.dtype \in Dtypes /\ src \in Nat
        /\ Checked(req)
    BY SlotFacts, RequestsAssumption
  <1>a. Issued(req, m, t) \in {BroadcastCall(req, t), CommBroadcastCall(req, t),
                            BroadcastObjectCall(req, t), BroadcastObjectListCall(req, t)}
    BY DEF Issued, Broadcasts, Objects
  <1>2. c.kind = "broadcast" /\ c.group # "local"
    <2> HIDE DEF req, t
    <2> QED BY <1>1, <1>a DEF BroadcastCall, CommBroadcastCall, BroadcastObjectCall,
               BroadcastObjectListCall, DistCall, CommGroup
  <1>3. src \in Member
    <2>1. CASE req.op = "comm_broadcast"
      BY <1>1, <2>1 DEF LocalIsGlobal
    <2>2. CASE req.op # "comm_broadcast"
      BY <1>1, <2>2, MemberFacts DEF Checked, Broadcasts, Objects, Member
    <2> QED BY <2>1, <2>2
  <1>4. c.root = GlobalRank(src)
    <2>1. CASE req.op = "comm_broadcast"
      BY <1>1, <2>1 DEF Issued, CommBroadcastCall, DistCall, LocalIsGlobal
    <2>2. CASE req.op \in {"broadcast", "broadcast_object_list"}
      BY <1>1, <2>2 DEF Issued, BroadcastCall, BroadcastObjectListCall, DistCall
    <2>3. CASE req.op = "broadcast_object"
      BY <1>1, <2>3 DEF Issued, BroadcastObjectCall, DistCall, Checked
    <2> QED BY <2>1, <2>2, <2>3 DEF Broadcasts, Objects
  <1>5. \A n \in Member : Ranks[n + 1] = c.root <=> n = src
    <2>1. \A n \in Member : n \in Int /\ n + 1 \in DOMAIN Ranks
      BY RanksAssumption DEF Member, WorldSize
    <2>2. c.root = Ranks[src + 1]
      BY <1>4 DEF GlobalRank
    <2> HIDE DEF src, c
    <2>3. ASSUME NEW n \in Member, Ranks[n + 1] = c.root
          PROVE  n = src
      <3>1. n + 1 = src + 1
        BY <1>3, <2>1, <2>2, <2>3, RanksAssumption
      <3> QED BY <1>3, <2>1, <3>1
    <2> QED BY <2>2, <2>3
  <1>6. posted[k][src] # Pending
    BY <1>2, <1>3, <1>5 DEF Completes, JoinedBy
  <1>7. WireData(k, m) = given[k][src].data
    <2>1. (CHOOSE n \in Member : Ranks[n + 1] = c.root) = src
      BY <1>3, <1>5
    <2>2. WireData(k, m) = posted[k][src].tensor.data
      BY <1>2, <2>1 DEF WireData
    <2> QED BY <1>3, <1>6, <2>2, PostedData DEF Broadcasts, Objects
  <1>8. Abstract!Meaning(req, given[k], m) = Abstract!Moved(t, given[k][src].data)
    BY DEF Abstract!Meaning, Broadcasts, Objects
  <1>9. PICK v \in Values : t = Abstract!Argument(req, m, v)
    BY SlotFacts
  <1>10. CASE req.op \in Objects \cup {"broadcast"}
    <2>1. c.tensor = t
      BY <1>1, <1>10 DEF Issued, Objects, BroadcastCall, BroadcastObjectCall,
         BroadcastObjectListCall, DistCall
    <2>2. Answer(req, k, m) = [t EXCEPT !.data = given[k][src].data]
      BY <1>2, <1>7, <1>10, <2>1 DEF Answer, Wire, Objects
    <2>3. t = [where |-> t.where, dtype |-> t.dtype, data |-> t.data]
      BY <1>9, <1>10 DEF Abstract!Argument, Objects
    <2>4. [t EXCEPT !.data = given[k][src].data] = Abstract!Moved(t, given[k][src].data)
      BY <2>3 DEF Abstract!Moved
    <2> QED BY <1>3, <1>6, <1>8, <2>2, <2>4, SlotFacts
  <1>11. CASE req.op = "comm_broadcast"
    <2>1. c.tensor = StageToMove(t)
      BY <1>1, <1>11 DEF Issued, CommBroadcastCall, DistCall
    <2>2. Answer(req, k, m) = Unstage([StageToMove(t) EXCEPT !.data = given[k][src].data], t)
      BY <1>2, <1>7, <1>11, <2>1 DEF Answer, Wire
    <2>3. t = DeviceTensor(req.dtype, t.data)
      BY <1>9, <1>11, TensorArgument
    <2>4. Abstract!Moved(t, given[k][src].data) = DeviceTensor(req.dtype, given[k][src].data)
      <3>1. t.where = "xpu" /\ t.dtype = req.dtype
        BY <2>3 DEF DeviceTensor
      <3> QED BY <3>1 DEF Abstract!Moved, DeviceTensor
    <2>5. \A x, y : Unstage([StageToMove(DeviceTensor(req.dtype, x)) EXCEPT !.data = y],
                            DeviceTensor(req.dtype, x)) = DeviceTensor(req.dtype, y)
      BY <1>1, Unstaging
    <2>6. Answer(req, k, m) = DeviceTensor(req.dtype, given[k][src].data)
      <3> HIDE DEF req, t, src
      <3> QED BY <2>2, <2>3, <2>5
    <2> QED BY <1>3, <1>6, <1>8, <2>4, <2>6, SlotFacts
  <1> QED BY <1>10, <1>11 DEF Broadcasts

\* Whoever gets into a reduction has handed in as much as everybody else: when it is over,
\* its arguments can be summed.
LEMMA SumsExist ==
    ASSUME IInv, WorldSize > 1, NEW k \in Slot, NEW m \in Member,
           posted[k][m] # Pending, Completes(k, m)
    PROVE  Abstract!Summable(plan[k])
  <1> DEFINE req == plan[k]
  <1>1. CASE req.op \in Reductions
    <2>1. \A n \in Member : Fits(req, n)
      BY <1>1, Rendezvous, SlotFacts
    <2>2. req \in Requests /\ req.op # "all_gatherv"
      BY <1>1, SlotFacts DEF Reductions
    <2>3. \A n, l \in Member : Abstract!LengthOf(req, n) = Abstract!LengthOf(req, l)
      BY <2>1, <2>2, RequestsAssumption
    <2> QED BY <2>3 DEF Abstract!Summable, Abstract!Member, Member
  <1>2. CASE req.op \notin Reductions
    BY <1>2 DEF Abstract!Summable, Reductions
  <1> QED BY <1>1, <1>2

\* When a call is over, what the operation makes of the answer is what the abstract
\* collective means, and whoever's argument that depends on has given it.
LEMMA AnswerIsMeaning ==
    ASSUME IInv, WorldSize > 1, LocalIsGlobal, NEW k \in Slot, NEW m \in Member,
           posted[k][m] # Pending, Completes(k, m)
    PROVE  /\ Answer(plan[k], k, m) = Abstract!Meaning(plan[k], given[k], m)
           /\ Abstract!Needed(plan[k]) \subseteq Member
           /\ \A n \in Abstract!Needed(plan[k]) : given[k][n] # Pending
  <1> DEFINE req == plan[k]
  <1>1. req \in Requests /\ posted[k][m] = Issued(req, m, given[k][m]) /\ req.op \in Operations
    BY SlotFacts, RequestsAssumption
  <1>2. CASE req.op \in Reductions \cup Gathers
    <2>1. Abstract!Needed(req) = Member
      BY <1>2 DEF Abstract!Needed, Abstract!Member, Member, Reductions, Gathers
    <2>2. \A n \in Member : given[k][n] # Pending
      BY <1>2, Rendezvous, SlotFacts
    <2> QED BY <1>2, <2>1, <2>2, ReductionAnswer, GatheringAnswer
  <1>3. CASE req.op \in Broadcasts
    <2>1. Abstract!Needed(req) = {req.root}
      BY <1>3 DEF Abstract!Needed, Broadcasts, Objects
    <2> QED BY <1>3, <2>1, BroadcastAnswer
  <1>4. CASE req.op = "barrier"
    <2>1. Abstract!Needed(req) = Member
      BY <1>4 DEF Abstract!Needed, Abstract!Member, Member
    <2>2. posted[k][m].kind = "barrier" /\ posted[k][m].group = "cpu"
      BY <1>1, <1>4 DEF Issued, BarrierCall, DistCall
    <2>3. \A n \in Member : given[k][n] # Pending
      BY <2>2, SlotFacts DEF Completes, JoinedBy
    <2>4. Answer(req, k, m) = Abstract!Nothing
      BY <1>4, <2>2 DEF Answer
    <2>5. Abstract!Meaning(req, given[k], m) = Abstract!Nothing
      BY <1>4 DEF Abstract!Meaning
    <2> QED BY <2>1, <2>3, <2>4, <2>5
  <1> QED
    BY <1>1, <1>2, <1>3, <1>4 DEF Operations, Reductions, Gathers, Broadcasts, Objects

\* Whatever a call returns, it is on the device, a Python object, or None.
LEMMA AnswerWhere ==
    ASSUME IInv, NEW k \in Slot, NEW m \in Member, posted[k][m] # Pending, Completes(k, m)
    PROVE  Answer(plan[k], k, m).where \in {"xpu", "host", "none"}
  <1> DEFINE req == plan[k]
  <1> DEFINE t == given[k][m]
  <1> DEFINE y == WireData(k, m)
  <1>1. /\ req \in Requests /\ posted[k][m] = Issued(req, m, t) /\ req.op \in Operations
        /\ req.dtype \in Dtypes
    BY SlotFacts, RequestsAssumption
  <1>2. PICK v \in Values : t = Abstract!Argument(req, m, v)
    BY SlotFacts
  <1>3. t.where \in {"xpu", "host", "none"}
    BY <1>2, ArgumentFacts
  <1>4. CASE req.op = "barrier"
    <2>1. posted[k][m].kind = "barrier"
      BY <1>1, <1>4 DEF Issued, BarrierCall, DistCall
    <2> QED BY <1>4, <2>1 DEF Answer, Abstract!Nothing
  <1>5. CASE req.op # "barrier" /\ WorldSize = 1
    <2>1. posted[k][m].kind = "identity"
      BY <1>1, <1>5 DEF Issued, Bypass, DistCall
    <2> QED BY <1>3, <2>1 DEF Answer
  <1>6. CASE req.op \in Reductions \cup Gathers /\ WorldSize > 1
    <2>1. Answer(req, k, m) = Abstract!Meaning(req, given[k], m)
      BY <1>6, ReductionAnswer, GatheringAnswer
    <2>2. Abstract!Meaning(req, given[k], m).where \in {t.where, "none"}
      BY <1>6 DEF Abstract!Meaning, Abstract!Reduced, Abstract!Moved, Abstract!Nothing,
                  Reductions, Gathers
    <2>3. Answer(req, k, m).where \in {t.where, "none"}
      BY <2>1, <2>2
    <2> QED BY <1>3, <2>3
  <1>7. CASE req.op \in Objects \cup {"broadcast"} /\ WorldSize > 1
    <2>1. posted[k][m].tensor = t /\ posted[k][m].kind = "broadcast"
      BY <1>1, <1>7 DEF Issued, Objects, BroadcastCall, BroadcastObjectCall,
         BroadcastObjectListCall, DistCall
    <2>2. Answer(req, k, m) = [t EXCEPT !.data = y]
      BY <1>7, <2>1 DEF Answer, Wire, Objects
    <2>3. t = [where |-> t.where, dtype |-> t.dtype, data |-> t.data]
      BY <1>2, <1>7 DEF Abstract!Argument, Objects
    <2>4. [t EXCEPT !.data = y].where = t.where
      <3> HIDE DEF t, y
      <3> QED BY <2>3
    <2> QED BY <1>3, <2>2, <2>4
  <1>8. CASE req.op = "comm_broadcast" /\ WorldSize > 1
    <2>1. posted[k][m].tensor = StageToMove(t) /\ posted[k][m].kind = "broadcast"
      BY <1>1, <1>8 DEF Issued, CommBroadcastCall, DistCall
    <2>2. Answer(req, k, m) = Unstage([StageToMove(t) EXCEPT !.data = y], t)
      BY <1>8, <2>1 DEF Answer, Wire
    <2>3. t = DeviceTensor(req.dtype, t.data)
      BY <1>2, <1>8, TensorArgument
    <2>4. \A x, z : Unstage([StageToMove(DeviceTensor(req.dtype, x)) EXCEPT !.data = z],
                            DeviceTensor(req.dtype, x)) = DeviceTensor(req.dtype, z)
      BY <1>1, Unstaging
    <2>5. Answer(req, k, m) = DeviceTensor(req.dtype, y)
      <3> HIDE DEF req, t, y
      <3> QED BY <2>2, <2>3, <2>4
    <2> QED BY <2>5 DEF DeviceTensor
  <1> QED
    BY <1>1, <1>4, <1>5, <1>6, <1>7, <1>8, MemberFacts
    DEF Operations, Reductions, Gathers, Objects

\* A call that returns leaves the invariant: it fills its own slot, and not with a
\* tensor of the host.
LEMMA ReturnIInv ==
    ASSUME IInv, NEW m \in Member, Return(m)
    PROVE  IInv'
  <1>1. PICK now \in Slot : now = calls[m] /\ posted[now][m] # Pending
    BY DEF IInv, Shape, Progress, Return
  <1> DEFINE answer == Answer(plan[now], now, m)
  <1>2. /\ pc[m] = "waiting" /\ pc' = [pc EXCEPT ![m] = "idle"]
        /\ Completes(now, m)
        /\ got' = [got EXCEPT ![now][m] = answer]
        /\ plan' = plan /\ given' = given /\ posted' = posted /\ calls' = calls
    BY <1>1 DEF Return
  <1>3. answer.where \in {"xpu", "host", "none"} /\ answer # Pending
    <2>1. answer.where \in {"xpu", "host", "none"}
      BY <1>1, <1>2, AnswerWhere
    <2>2. Pending.where = "pending"
      BY DEF Pending
    <2> QED BY <2>1, <2>2
  <1> HIDE DEF answer
  <1>4. /\ pc' \in [Member -> {"idle", "waiting", "raised"}]
        /\ pc'[m] = "idle"
        /\ \A n \in Member : n # m => pc'[n] = pc[n]
    BY <1>2 DEF IInv, Shape
  <1>5. /\ DOMAIN got' = Slot /\ \A k \in Slot : DOMAIN got'[k] = Member
        /\ got'[now][m] = answer
        /\ \A k \in Slot, n \in Member : k # now \/ n # m => got'[k][n] = got[k][n]
    BY <1>2 DEF IInv, Shape
  <1>6. Shape'
    BY <1>2, <1>4, <1>5 DEF IInv, Shape
  <1>7. OnDevice'
    BY <1>3, <1>5 DEF IInv, OnDevice
  <1>8. ASSUME NEW k \in Slot, NEW n \in Member
        PROVE  Progress(k, n)' /\ Wired(k, n)'
    <2>1. Progress(k, n) /\ Wired(k, n) /\ k \in Int /\ calls[n] \in Int
      BY RequestsAssumption DEF IInv, Shape, Slot
    <2>2. Wired(k, n)'
      BY <1>2, <2>1 DEF Wired, Issued, Accepts, Fits
    <2>3. Progress(k, n)'
      <3>1. CASE n = m /\ k = now
        BY <1>1, <1>2, <1>3, <1>4, <1>5, <2>1, <3>1 DEF Progress
      <3>2. CASE n = m /\ k # now
        BY <1>1, <1>2, <1>4, <1>5, <2>1, <3>2 DEF Progress
      <3>3. CASE n # m
        BY <1>2, <1>4, <1>5, <2>1, <3>3 DEF Progress
      <3> QED BY <3>1, <3>2, <3>3
    <2> QED BY <2>2, <2>3
  <1> QED BY <1>6, <1>7, <1>8 DEF IInv

\* The invariant is inductive: every step of every member keeps it.
LEMMA NextIInv == IInv /\ [Next]_vars => IInv'
  <1> SUFFICES ASSUME IInv, [Next]_vars PROVE IInv'
    OBVIOUS
  <1>1. ASSUME NEW m \in Member, Call(m)
        PROVE  IInv'
    <2>1. PICK req \in Requests, v \in Values :
              Operation(m, req, Abstract!Argument(req, m, v))
      BY <1>1 DEF Call
    <2>2. CASE Raise(m, req, Abstract!Argument(req, m, v))
      BY <2>2, RaiseIInv
    <2>3. CASE /\ Checked(req) /\ Fits(req, m)
               /\ Post(m, req, Abstract!Argument(req, m, v),
                       Issued(req, m, Abstract!Argument(req, m, v)))
      BY <2>3, PostIInv
    <2> QED BY <2>1, <2>2, <2>3, OperationArrives
  <1>2. ASSUME NEW m \in Member, Return(m)
        PROVE  IInv'
    BY <1>2, ReturnIInv
  <1>3. CASE UNCHANGED vars
    <2>1. /\ plan' = plan /\ given' = given /\ got' = got
          /\ posted' = posted /\ calls' = calls /\ pc' = pc
      BY <1>3 DEF vars
    <2>2. Shape' /\ OnDevice'
      BY <2>1 DEF IInv, Shape, OnDevice
    <2>3. ASSUME NEW k \in Slot, NEW n \in Member
          PROVE  Progress(k, n)' /\ Wired(k, n)'
      <3>1. Progress(k, n) /\ Wired(k, n)
        BY DEF IInv
      <3>2. Progress(k, n)'
        BY <2>1, <3>1 DEF Progress
      <3>3. Wired(k, n)'
        BY <2>1, <3>1 DEF Wired, Issued, Accepts, Fits
      <3> QED BY <3>2, <3>3
    <2> QED BY <2>2, <2>3 DEF IInv
  <1> QED BY <1>1, <1>2, <1>3 DEF Next, Done

\* Every slot of every member holds what its progress says, and every call on the wire
\* is the one that the operation makes of the member's own argument, for ever.
THEOREM Invariance == Spec => []IInv
  BY InitIInv, NextIInv, PTL DEF Spec

\* Type correctness: what callers get back is never left on the host, and every call on
\* the wire names a process group of the coordinator and a member of it.
THEOREM TypeCorrect == Spec => []TypeOK
  <1>1. IInv => TypeOK
    <2> SUFFICES ASSUME IInv PROVE TypeOK
      OBVIOUS
    <2>1. ASSUME NEW k \in Slot, NEW m \in Member, posted[k][m] # Pending
          PROVE  /\ posted[k][m].group \in {"cpu", "device", "mq", "local"}
                 /\ posted[k][m].root \in {Ranks[i] : i \in DOMAIN Ranks}
      BY <2>1, SlotFacts, IssuedIsACall, RequestsAssumption DEF Accepts
    <2> QED BY <2>1 DEF IInv, Shape, OnDevice, TypeOK
  <1> QED BY <1>1, Invariance, PTL

---------------------------------------------------------------------------
(* HostStaged implements Collective.                                       *)

\* The initial states are initial states of the abstract collective.
LEMMA InitImplements == Init => Abstract!Init
  BY DEF Init

\* To arrive at a call, refused or not, is to submit it to the abstract collective.
LEMMA ArriveImplements ==
    ASSUME IInv, NEW m \in Member, NEW req \in Requests, NEW v \in Values,
           Arrive(m, req, Abstract!Argument(req, m, v))
    PROVE  Abstract!Next
  <1> DEFINE t == Abstract!Argument(req, m, v)
  <1>1. PICK now \in Slot : now = calls[m] + 1
    BY ArriveFacts
  <1>2. /\ plan[now] \in {Pending, req} /\ plan' = [plan EXCEPT ![now] = req]
        /\ given' = [given EXCEPT ![now][m] = t] /\ got' = got /\ pc[m] = "idle"
    BY <1>1 DEF Arrive
  <1>3. calls[m] \in Int /\ now \in Int
    BY RequestsAssumption DEF IInv, Shape, Slot
  <1>4. given[now][m] = Pending
    BY <1>1, <1>3 DEF IInv, Progress
  <1>5. ASSUME NEW j \in 1..now - 1
        PROVE  got[j][m] # Pending
    <2>1. j \in Slot /\ j <= calls[m]
      BY <1>1, <1>3, RequestsAssumption DEF Slot
    <2>2. Progress(j, m)
      BY <2>1 DEF IInv
    <2> QED BY <1>2, <1>3, <2>1, <2>2 DEF Progress
  <1>6. Abstract!Submit(now, m, req, t)
    BY <1>2, <1>4, <1>5, SameData DEF Abstract!Submit
  <1>7. now \in Abstract!Slot /\ m \in Abstract!Member
    BY DEF Abstract!Slot, Abstract!Member, Slot, Member
  <1> QED BY <1>6, <1>7 DEF Abstract!Next

\* To return from a call is to get the abstract collective's answer.
LEMMA ReturnImplements ==
    ASSUME IInv, WorldSize > 1, LocalIsGlobal, NEW m \in Member, Return(m)
    PROVE  Abstract!Next
  <1>1. PICK now \in Slot : now = calls[m] /\ posted[now][m] # Pending
    BY DEF IInv, Shape, Progress, Return
  <1>2. /\ pc[m] = "waiting" /\ Completes(now, m)
        /\ got' = [got EXCEPT ![now][m] = Answer(plan[now], now, m)]
        /\ plan' = plan /\ given' = given
    BY <1>1 DEF Return
  <1>3. got[now][m] = Pending
    BY <1>1, <1>2 DEF IInv, Progress
  <1>4. given[now][m] # Pending
    BY <1>1, SlotFacts
  <1>5. Abstract!Deliver(now, m)
    BY <1>1, <1>2, <1>3, <1>4, AnswerIsMeaning, SumsExist, SameData
    DEF Abstract!Deliver, Abstract!Member, Member
  <1>6. now \in Abstract!Slot /\ m \in Abstract!Member
    BY DEF Abstract!Slot, Abstract!Member, Slot, Member
  <1> QED BY <1>5, <1>6 DEF Abstract!Next

\* Every step is a step of the abstract collective, or leaves its variables alone.
LEMMA StepImplements ==
    ASSUME IInv, WorldSize > 1, LocalIsGlobal, [Next]_vars
    PROVE  [Abstract!Next]_(Abstract!vars)
  <1>1. ASSUME NEW m \in Member, Call(m)
        PROVE  Abstract!Next
    <2>1. PICK req \in Requests, v \in Values :
              Operation(m, req, Abstract!Argument(req, m, v))
      BY <1>1 DEF Call
    <2>2. Arrive(m, req, Abstract!Argument(req, m, v))
      BY <2>1, OperationArrives DEF Raise, Post
    <2> QED BY <2>2, ArriveImplements
  <1>2. ASSUME NEW m \in Member, Return(m)
        PROVE  Abstract!Next
    BY <1>2, ReturnImplements
  <1>3. CASE UNCHANGED vars
    BY <1>3 DEF vars, Abstract!vars
  <1> QED BY <1>1, <1>2, <1>3 DEF Next, Done

\* In a group of two members or more, every operation of the coordinator and of its
\* communicator returns what the abstract collective returns: for every group, backend,
\* choice of calls and data, provided that the communicator's own broadcast is only
\* used where a local rank is its global rank.
THEOREM Implementation ==
    ASSUME WorldSize > 1, LocalIsGlobal
    PROVE  Spec => ImplementsCollective
  <1>1. IInv /\ [Next]_vars => [Abstract!Next]_(Abstract!vars)
    BY StepImplements
  <1> QED
    BY <1>1, InitImplements, Invariance, PTL DEF Spec, ImplementsCollective, Abstract!Spec
===========================================================================
