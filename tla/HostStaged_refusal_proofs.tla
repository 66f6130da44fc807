--------------------- MODULE HostStaged_refusal_proofs ---------------------
(***************************************************************************)
(* RefusedByAll for every instance of HostStaged.  Whether a call is       *)
(* refused is decided by the call, which is the same for everybody, and by *)
(* the length of the member's own argument, which is not: so members can   *)
(* come apart only over that length, and what they are then left in is a   *)
(* rendezvous that gives nobody an answer.                                 *)
(***************************************************************************)
EXTENDS HostStaged_proofs

\* What is required of a call, whoever makes it, before it reaches torch.distributed.
Servable(req) ==
    /\ Checked(req)
    /\ req.op \in {"all_reduce", "all_gather", "gather", "reduce_scatter"} =>
           WorldSize = 1 \/ HasCommunicator
    /\ req.op \in {"all_gatherv", "reduce_scatterv", "comm_broadcast"} => HasCommunicator

\* torch.distributed takes the call that the operation makes of t.
Taken(req, m, t) == Accepts(Issued(req, m, t))

\* The calls that are served, to everybody whose argument fits.
Served ==
    {req \in Requests :
        /\ Servable(req)
        /\ \A m \in Member, v \in Values : Taken(req, m, Abstract!Argument(req, m, v))}

\* The operations that look at the length of the argument.
Sized == {"all_gatherv", "reduce_scatter", "reduce_scatterv"}

\* Who has raised had to, what was posted may be, and an answer that depends on everybody
\* has waited for everybody.
Rightly(k, m) ==
    /\ pc[m] = "raised" /\ calls[m] = k => plan[k] \notin Served \/ ~Fits(plan[k], m)
    /\ posted[k][m] # Pending => plan[k] \in Served
    /\ got[k][m] # Pending =>
        /\ posted[k][m] # Pending
        /\ plan[k].op \in Sized => \A n \in Member : posted[k][n] # Pending

RInv == \A k \in Slot, m \in Member : Rightly(k, m)

---------------------------------------------------------------------------
\* A member raises exactly if the call is not servable, not taken, or its argument does
\* not fit.
LEMMA Verdict ==
    ASSUME NEW m \in Member, NEW req \in Requests, NEW t, Operation(m, req, t)
    PROVE  \/ Raise(m, req, t) /\ ~(Servable(req) /\ Fits(req, m) /\ Taken(req, m, t))
           \/ Post(m, req, t, Issued(req, m, t)) /\ Servable(req)
  <1> USE DEF Refused, Make, HasCommunicator, Taken
  <1>0. WorldSize \in Nat /\ WorldSize >= 1
    BY MemberFacts
  <1>b. req.op \notin {"all_gatherv", "reduce_scatter", "reduce_scatterv"} => Fits(req, m)
    BY DEF Fits
  <1>1. CASE AllReduce(m, req, t)
    <2>1. req.op = "all_reduce"
      BY <1>1 DEF AllReduce
    <2>2. WorldSize > 1 => Issued(req, m, t) = AllReduceCall(t)
      BY <2>1 DEF Issued
    <2>3. WorldSize = 1 => Issued(req, m, t) = Bypass(t)
      BY <2>1 DEF Issued
    <2> QED
      BY <1>0, <1>b, <1>1, <2>1, <2>2, <2>3
      DEF AllReduce, BypassOrCommunicate, Communicate, Checked, Servable
  <1>2. CASE AllGather(m, req, t)
    <2>1. req.op = "all_gather"
      BY <1>2 DEF AllGather
    <2>2. WorldSize > 1 => Issued(req, m, t) = AllGatherCall(t)
      BY <2>1 DEF Issued
    <2>3. WorldSize = 1 => Issued(req, m, t) = Bypass(t)
      BY <2>1 DEF Issued
    <2> QED
      BY <1>0, <1>b, <1>2, <2>1, <2>2, <2>3
      DEF AllGather, BypassOrCommunicate, Communicate, Checked, Servable
  <1>3. CASE AllGatherv(m, req, t)
    <2>1. req.op = "all_gatherv"
      BY <1>3 DEF AllGatherv
    <2>2. WorldSize > 1 => Issued(req, m, t) = AllGathervCall(req, t)
      BY <2>1 DEF Issued
    <2> QED
      BY <1>0, <1>b, <1>3, <2>1, <2>2 DEF AllGatherv, Communicate, Checked, Servable
  <1>4. CASE ReduceScatter(m, req, t)
    <2>1. req.op = "reduce_scatter"
      BY <1>4 DEF ReduceScatter
    <2>2. WorldSize > 1 => Issued(req, m, t) = ReduceScatterCall(req, m, t)
      BY <2>1 DEF Issued
    <2>3. WorldSize = 1 => Issued(req, m, t) = Bypass(t)
      BY <2>1 DEF Issued
    <2> QED
      BY <1>0, <1>b, <1>4, <2>1, <2>2, <2>3
      DEF ReduceScatter, BypassOrCommunicate, Communicate, Checked, Servable
  <1>5. CASE ReduceScatterv(m, req, t)
    <2>1. req.op = "reduce_scatterv"
      BY <1>5 DEF ReduceScatterv
    <2>2. WorldSize > 1 => Issued(req, m, t) = ReduceScattervCall(req, m, t)
      BY <2>1 DEF Issued
    <2> QED
      BY <1>0, <1>b, <1>5, <2>1, <2>2 DEF ReduceScatterv, Communicate, Checked, Servable
  <1>6. CASE Gather(m, req, t)
    <2>1. req.op = "gather"
      BY <1>6 DEF Gather
    <2>2. WorldSize > 1 => Issued(req, m, t) = AllGatherCall(t)
      BY <2>1 DEF Issued
    <2>3. WorldSize = 1 => Issued(req, m, t) = Bypass(t)
      BY <2>1 DEF Issued
    <2> QED
      BY <1>0, <1>b, <1>6, <2>1, <2>2, <2>3
      DEF Gather, BypassOrCommunicate, Communicate, Checked, Servable
  <1>7. CASE Broadcast(m, req, t)
    <2>1. req.op = "broadcast"
      BY <1>7 DEF Broadcast
    <2>2. WorldSize > 1 => Issued(req, m, t) = BroadcastCall(req, t)
      BY <2>1 DEF Issued
    <2>3. WorldSize = 1 => Issued(req, m, t) = Bypass(t)
      BY <2>1 DEF Issued
    <2> QED
      BY <1>0, <1>b, <1>7, <2>1, <2>2, <2>3 DEF Broadcast, BypassOrMake, Checked, Servable
  <1>8. CASE CommBroadcast(m, req, t)
    <2>1. req.op = "comm_broadcast"
      BY <1>8 DEF CommBroadcast
    <2>2. WorldSize > 1 => Issued(req, m, t) = CommBroadcastCall(req, t)
      BY <2>1 DEF Issued
    <2> QED
      BY <1>0, <1>b, <1>8, <2>1, <2>2 DEF CommBroadcast, Communicate, Checked, Servable
  <1>9. CASE BroadcastObject(m, req, t)
    <2>1. req.op = "broadcast_object"
      BY <1>9 DEF BroadcastObject
    <2>2. WorldSize > 1 => Issued(req, m, t) = BroadcastObjectCall(req, t)
      BY <2>1 DEF Issued
    <2>3. WorldSize = 1 => Issued(req, m, t) = Bypass(t)
      BY <2>1 DEF Issued
    <2> QED
      BY <1>0, <1>b, <1>9, <2>1, <2>2, <2>3 DEF BroadcastObject, BypassOrMake, Checked, Servable
  <1>10. CASE BroadcastObjectList(m, req, t)
    <2>1. req.op = "broadcast_object_list"
      BY <1>10 DEF BroadcastObjectList
    <2>2. WorldSize > 1 => Issued(req, m, t) = BroadcastObjectListCall(req, t)
      BY <2>1 DEF Issued
    <2>3. WorldSize = 1 => Issued(req, m, t) = Bypass(t)
      BY <2>1 DEF Issued
    <2> QED
      BY <1>0, <1>b, <1>10, <2>1, <2>2, <2>3
      DEF BroadcastObjectList, BypassOrMake, Checked, Servable
  <1>11. CASE Barrier(m, req, t)
    <2>1. req.op = "barrier"
      BY <1>11 DEF Barrier
    <2>2. Issued(req, m, t) = BarrierCall(t)
      BY <2>1 DEF Issued
    <2> QED
      BY <1>b, <1>11, <2>1, <2>2 DEF Barrier, Checked, Servable
  <1> QED
    BY <1>1, <1>2, <1>3, <1>4, <1>5, <1>6, <1>7, <1>8, <1>9, <1>10, <1>11
    DEF Operation

\* What a backend looks at in a tensor is the same for every member and all data.
LEMMA SameLooks ==
    ASSUME NEW req \in Requests, NEW m, NEW n, NEW v, NEW w
    PROVE  LET s == Abstract!Argument(req, m, v)
               t == Abstract!Argument(req, n, w)
           IN  /\ s.where = t.where /\ s.dtype = t.dtype
               /\ req.op \notin Objects \cup {"barrier"} =>
                      /\ StageToMove(s).where = StageToMove(t).where
                      /\ StageToMove(s).dtype = StageToMove(t).dtype
                      /\ StageToReduce(s).where = StageToReduce(t).where
                      /\ StageToReduce(s).dtype = StageToReduce(t).dtype
  <1> DEFINE s == Abstract!Argument(req, m, v)
  <1> DEFINE t == Abstract!Argument(req, n, w)
  <1>1. CASE req.op = "barrier"
    <2>1. s = Abstract!Nothing /\ t = Abstract!Nothing
      BY <1>1 DEF Abstract!Argument
    <2> QED BY <1>1, <2>1
  <1>2. CASE req.op \in Objects
    <2>1. /\ s.where = "host" /\ s.dtype = "object"
          /\ t.where = "host" /\ t.dtype = "object"
      BY <1>2 DEF Abstract!Argument, Objects
    <2> QED BY <1>2, <2>1
  <1>3. CASE req.op \notin Objects \cup {"barrier"}
    <2>1. /\ s = DeviceTensor(req.dtype, s.data) /\ t = DeviceTensor(req.dtype, t.data)
      BY <1>3, TensorArgument DEF Objects
    <2>2. \A x, y :
            /\ StageToMove(DeviceTensor(req.dtype, x)).where
                 = StageToMove(DeviceTensor(req.dtype, y)).where
            /\ StageToMove(DeviceTensor(req.dtype, x)).dtype
                 = StageToMove(DeviceTensor(req.dtype, y)).dtype
            /\ StageToReduce(DeviceTensor(req.dtype, x)).where
                 = StageToReduce(DeviceTensor(req.dtype, y)).where
            /\ StageToReduce(DeviceTensor(req.dtype, x)).dtype
                 = StageToReduce(DeviceTensor(req.dtype, y)).dtype
      BY DEF StageToMove, StageToReduce, To, DeviceTensor
    <2>3. s.where = t.where /\ s.dtype = t.dtype
      <3>1. \A x : DeviceTensor(req.dtype, x).where = "xpu"
                   /\ DeviceTensor(req.dtype, x).dtype = req.dtype
        BY DEF DeviceTensor
      <3> HIDE DEF s, t
      <3> QED BY <2>1, <3>1
    <2> HIDE DEF s, t
    <2>4. /\ StageToMove(s).where = StageToMove(t).where
          /\ StageToMove(s).dtype = StageToMove(t).dtype
          /\ StageToReduce(s).where = StageToReduce(t).where
          /\ StageToReduce(s).dtype = StageToReduce(t).dtype
      BY <2>1, <2>2
    <2> QED BY <2>3, <2>4 DEF s, t
  <1> QED BY <1>1, <1>2, <1>3

\* A backend takes a call from one member exactly if it takes it from another.
LEMMA SameVerdict ==
    ASSUME NEW req \in Requests, NEW m, NEW n, NEW v, NEW w
    PROVE  Taken(req, m, Abstract!Argument(req, m, v))
             <=> Taken(req, n, Abstract!Argument(req, n, w))
  <1> DEFINE s == Abstract!Argument(req, m, v)
  <1> DEFINE t == Abstract!Argument(req, n, w)
  <1> DEFINE c == Issued(req, m, s)
  <1> DEFINE d == Issued(req, n, t)
  <1>0. req.op \in Operations
    BY RequestsAssumption
  <1>1. /\ s.where = t.where /\ s.dtype = t.dtype
        /\ req.op \notin Objects \cup {"barrier"} =>
               /\ StageToMove(s).where = StageToMove(t).where
               /\ StageToMove(s).dtype = StageToMove(t).dtype
               /\ StageToReduce(s).where = StageToReduce(t).where
               /\ StageToReduce(s).dtype = StageToReduce(t).dtype
    BY SameLooks
  <1> HIDE DEF s, t
  <1>2. /\ c.root = d.root /\ c.group = d.group /\ c.kind = d.kind /\ c.parts = d.parts
        /\ c.kind \in {"all_gather", "reduce_scatter"} => c.sizes = d.sizes
    BY <1>0 DEF Issued, Operations, Bypass, AllReduceCall, AllGatherCall, AllGathervCall,
       ReduceScatterCall, ReduceScattervCall, BroadcastCall, CommBroadcastCall,
       BroadcastObjectCall, BroadcastObjectListCall, BarrierCall, DistCall
  <1>3. c.tensor.where = d.tensor.where /\ c.tensor.dtype = d.tensor.dtype
    <2>1. \/ c.tensor = s /\ d.tensor = t
          \/ /\ req.op \notin Objects \cup {"barrier"}
             /\ \/ c.tensor = StageToMove(s) /\ d.tensor = StageToMove(t)
                \/ c.tensor = StageToReduce(s) /\ d.tensor = StageToReduce(t)
      BY <1>0 DEF Issued, Operations, Objects, Bypass, AllReduceCall, AllGatherCall,
         AllGathervCall, ReduceScatterCall, ReduceScattervCall, BroadcastCall,
         CommBroadcastCall, BroadcastObjectCall, BroadcastObjectListCall, BarrierCall,
         DistCall
    <2> QED BY <1>1, <2>1
  <1> HIDE DEF c, d
  <1>4. Accepts(c) <=> Accepts(d)
    BY <1>2, <1>3 DEF Accepts
  <1> QED BY <1>4 DEF Taken, c, d, s, t

---------------------------------------------------------------------------
(* The invariant.                                                          *)

\* Before the first call nobody has raised and nothing is posted.
LEMMA InitRInv == Init => RInv
  <1> SUFFICES ASSUME Init, NEW k \in Slot, NEW m \in Member
               PROVE  Rightly(k, m)
    BY DEF RInv
  <1>1. pc[m] = "idle" /\ posted[k][m] = Pending
    BY DEF Init
  <1>2. got[k][m] = Pending
    BY MemberFacts, RequestsAssumption
       DEF Init, Abstract!Init, Abstract!Slot, Abstract!Member, Slot, Member, Abstract!Pending, Pending
  <1> QED BY <1>1, <1>2 DEF Rightly

\* Whatever becomes of a call, what is said of everybody's other slots stays true.
LEMMA ArriveRightlyElsewhere ==
    ASSUME IInv, RInv, NEW m \in Member, NEW req \in Requests, NEW t, Arrive(m, req, t),
           NEW state \in {"waiting", "raised"}, pc' = [pc EXCEPT ![m] = state],
           NEW call, call # Pending,
           posted' = posted \/ posted' = [posted EXCEPT ![calls[m] + 1][m] = call],
           NEW k \in Slot, NEW n \in Member, k # calls[m] + 1 \/ n # m
    PROVE  Rightly(k, n)'
  <1> DEFINE now == calls[m] + 1
  <1>1. /\ \A j \in Slot, l \in Member : j <= calls[l] => plan'[j] = plan[j]
        /\ calls'[m] = now
        /\ \A l \in Member : l # m => calls'[l] = calls[l]
    BY ArriveFacts
  <1>2. posted'[k][n] = posted[k][n]
    BY DEF IInv, Shape
  <1>3. n # m => pc'[n] = pc[n]
    BY DEF IInv, Shape
  <1>4. k \in Int /\ calls[n] \in Int
    BY RequestsAssumption DEF IInv, Shape, Slot
  <1>5. Rightly(k, n) /\ Progress(k, n)
    BY DEF IInv, RInv
  <1>6. ASSUME pc'[n] = "raised", calls'[n] = k
        PROVE  plan'[k] \notin Served \/ ~Fits(plan'[k], n)
    <2>1. n # m
      BY <1>1, <1>6
    <2>2. pc[n] = "raised" /\ calls[n] = k
      BY <1>1, <1>3, <1>6, <2>1
    <2>3. plan'[k] = plan[k]
      BY <1>1, <1>4, <2>2
    <2> QED BY <1>1, <1>5, <2>2, <2>3 DEF Rightly
  <1>7. ASSUME posted'[k][n] # Pending
        PROVE  plan'[k] \in Served
    <2>1. k <= calls[n]
      BY <1>2, <1>4, <1>5, <1>7 DEF Progress
    <2>2. plan'[k] = plan[k]
      BY <1>1, <2>1
    <2> QED BY <1>1, <1>2, <1>5, <1>7, <2>2 DEF Rightly
  <1>8. ASSUME got'[k][n] # Pending
        PROVE  /\ posted'[k][n] # Pending
               /\ plan'[k].op \in Sized => \A l \in Member : posted'[k][l] # Pending
    <2>1. got[k][n] # Pending
      BY <1>8, ArriveFacts
    <2>2. plan'[k] = plan[k]
      BY <1>1, <1>4, <1>5, <2>1 DEF Progress
    <2>3. \A l \in Member : posted[k][l] # Pending => posted'[k][l] # Pending
      BY DEF IInv, Shape
    <2> QED BY <1>5, <2>1, <2>2, <2>3 DEF Rightly
  <1> QED BY <1>6, <1>7, <1>8 DEF Rightly

\* A member that raises does so because of the call.
LEMMA RaiseRInv ==
    ASSUME IInv, RInv, NEW m \in Member, NEW req \in Requests, NEW t,
           Raise(m, req, t), req \notin Served \/ ~Fits(req, m)
    PROVE  RInv'
  <1>a. PICK now \in Slot : now = calls[m] + 1
    BY ArriveFacts DEF Raise
  <1>0. Arrive(m, req, t) /\ pc' = [pc EXCEPT ![m] = "raised"] /\ posted' = posted
    BY DEF Raise
  <1>b. \E call : call # Pending
    OBVIOUS
  <1>1. ASSUME NEW k \in Slot, NEW n \in Member, k # now \/ n # m
        PROVE  Rightly(k, n)'
    BY <1>a, <1>b, <1>0, <1>1, ArriveRightlyElsewhere
  <1>2. Rightly(now, m)'
    <2>1. plan'[now] = req /\ got' = got
      BY <1>a, <1>0, ArriveFacts
    <2>2. posted'[now][m] = Pending /\ got[now][m] = Pending
      <3>1. calls[m] \in Int
        BY RequestsAssumption DEF IInv, Shape, Slot
      <3>2. now > calls[m]
        BY <1>a, <3>1
      <3> QED BY <1>0, <3>2 DEF IInv, Progress
    <2> QED BY <2>1, <2>2 DEF Rightly
  <1>3. \A k \in Slot, n \in Member : Rightly(k, n)'
    BY <1>1, <1>2
  <1> QED BY <1>3 DEF RInv

\* A call that is posted may be.
LEMMA PostRInv ==
    ASSUME IInv, RInv, NEW m \in Member, NEW req \in Requests, NEW t,
           Post(m, req, t, Issued(req, m, t)), req \in Served
    PROVE  RInv'
  <1>a. PICK now \in Slot : now = calls[m] + 1
    BY ArriveFacts DEF Post
  <1> DEFINE call == Issued(req, m, t)
  <1>0. /\ Arrive(m, req, t)
        /\ pc' = [pc EXCEPT ![m] = "waiting"]
        /\ posted' = [posted EXCEPT ![calls[m] + 1][m] = call]
    BY DEF Post
  <1>b. call # Pending
    BY IssuedIsACall, RequestsAssumption
  <1>1. ASSUME NEW k \in Slot, NEW n \in Member, k # now \/ n # m
        PROVE  Rightly(k, n)'
    BY <1>a, <1>b, <1>0, <1>1, ArriveRightlyElsewhere
  <1>2. Rightly(now, m)'
    <2>1. plan'[now] = req /\ got' = got
      BY <1>a, <1>0, ArriveFacts
    <2>3. got[now][m] = Pending
      <3>1. calls[m] \in Int
        BY RequestsAssumption DEF IInv, Shape, Slot
      <3>2. now > calls[m]
        BY <1>a, <3>1
      <3> QED BY <3>2 DEF IInv, Progress
    <2>2. pc'[m] = "waiting"
      BY <1>0 DEF IInv, Shape
    <2> QED BY <2>1, <2>2, <2>3 DEF Rightly
  <1>3. \A k \in Slot, n \in Member : Rightly(k, n)'
    BY <1>1, <1>2
  <1> QED BY <1>3 DEF RInv

\* A call that returns refuses nothing.
LEMMA ReturnRInv ==
    ASSUME IInv, RInv, NEW m \in Member, Return(m)
    PROVE  RInv'
  <1>0. PICK now \in Slot : now = calls[m] /\ posted[now][m] # Pending
    BY DEF IInv, Shape, Progress, Return
  <1>1. /\ pc' = [pc EXCEPT ![m] = "idle"]
        /\ \E answer : got' = [got EXCEPT ![now][m] = answer]
        /\ Completes(now, m)
        /\ plan' = plan /\ posted' = posted /\ calls' = calls
    BY <1>0 DEF Return
  <1>3. plan[now].op \in Sized => \A n \in Member : posted[now][n] # Pending
    <2>1. CASE WorldSize > 1
      BY <1>0, <1>1, <2>1, Rendezvous DEF Sized, Reductions, Gathers
    <2>2. CASE WorldSize = 1
      <3>1. \A n \in Member : n = m
        BY <2>2 DEF Member
      <3> QED BY <1>0, <3>1
    <2> QED BY <2>1, <2>2, MemberFacts
  <1>2. ASSUME NEW k \in Slot, NEW n \in Member
        PROVE  Rightly(k, n)'
    <2>1. Rightly(k, n)
      BY DEF RInv
    <2>2. pc'[n] = "raised" => pc[n] = "raised"
      BY <1>1 DEF IInv, Shape
    <2>3. got'[k][n] = got[k][n] \/ (k = now /\ n = m)
      BY <1>1 DEF IInv, Shape
    <2> QED BY <1>0, <1>1, <1>3, <2>1, <2>2, <2>3 DEF Rightly
  <1> QED BY <1>2 DEF RInv

\* Together with IInv, the invariant is inductive.
LEMMA NextRInv == IInv /\ RInv /\ [Next]_vars => RInv'
  <1> SUFFICES ASSUME IInv, RInv, [Next]_vars PROVE RInv'
    OBVIOUS
  <1>1. ASSUME NEW m \in Member, Call(m)
        PROVE  RInv'
    <2>1. PICK req \in Requests, v \in Values :
              Operation(m, req, Abstract!Argument(req, m, v))
      BY <1>1 DEF Call
    <2> DEFINE t == Abstract!Argument(req, m, v)
    <2> HIDE DEF t
    <2>2. Operation(m, req, t)
      BY <2>1 DEF t
    <2>3. CASE Raise(m, req, t) /\ ~(Servable(req) /\ Fits(req, m) /\ Taken(req, m, t))
      <3>1. req \notin Served \/ ~Fits(req, m)
        BY <2>3 DEF Served, t
      <3> QED BY <2>3, <3>1, RaiseRInv
    <2>4. CASE Post(m, req, t, Issued(req, m, t)) /\ Servable(req)
      <3>1. Taken(req, m, t)
        BY <2>4 DEF Post, Taken
      <3>2. ASSUME NEW n \in Member, NEW w \in Values
            PROVE  Taken(req, n, Abstract!Argument(req, n, w))
        BY <3>1, SameVerdict DEF t
      <3>3. req \in Served
        BY <2>4, <3>2 DEF Served
      <3> QED BY <2>4, <3>3, PostRInv
    <2> QED BY <2>2, <2>3, <2>4, Verdict
  <1>2. ASSUME NEW m \in Member, Return(m)
        PROVE  RInv'
    BY <1>2, ReturnRInv
  <1>3. CASE UNCHANGED vars
    <2>1. plan' = plan /\ posted' = posted /\ calls' = calls /\ pc' = pc /\ got' = got
      BY <1>3 DEF vars
    <2>2. ASSUME NEW k \in Slot, NEW n \in Member
          PROVE  Rightly(k, n)'
      <3>1. Rightly(k, n)
        BY DEF RInv
      <3> QED BY <2>1, <3>1 DEF Rightly
    <2> QED BY <2>2 DEF RInv
  <1> QED BY <1>1, <1>2, <1>3 DEF Next, Done

\* Where one member's assertion or backend throws a call out, nobody gets an answer in
\* that slot, and whoever has gone into the collective is there because its own argument
\* fits and the other's does not: for every group, configuration, set of calls and data.
THEOREM Refusal == Spec => []RefusedByAll
  <1>1. IInv /\ RInv => RefusedByAll
    <2> SUFFICES ASSUME IInv, RInv, NEW k \in Slot, NEW m \in Member, NEW n \in Member,
                        pc[m] = "raised", calls[m] = k
                 PROVE  /\ got[k][n] = Pending
                        /\ posted[k][n] # Pending => Lopsided(plan[k])
      BY DEF RefusedByAll
    <2>1. Rightly(k, m) /\ Rightly(k, n) /\ Wired(k, m) /\ Wired(k, n)
      BY DEF IInv, RInv
    <2>2. posted[k][m] = Pending
      BY <2>1 DEF Rightly, Wired
    <2>3. posted[k][n] # Pending => Fits(plan[k], n) /\ ~Fits(plan[k], m)
      BY <2>1 DEF Rightly, Wired
    <2>4. posted[k][n] # Pending => Lopsided(plan[k])
      BY <2>3 DEF Lopsided
    <2>5. ASSUME got[k][n] # Pending
          PROVE  FALSE
      <3>1. posted[k][n] # Pending /\ plan[k].op \notin Sized
        BY <2>1, <2>2, <2>5 DEF Rightly
      <3>2. Fits(plan[k], m)
        BY <3>1 DEF Fits, Sized
      <3> QED BY <2>3, <3>1, <3>2
    <2> QED BY <2>4, <2>5
  <1> QED BY <1>1, InitRInv, NextRInv, Invariance, PTL DEF Spec
===========================================================================
