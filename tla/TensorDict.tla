---------------------------- MODULE TensorDict ----------------------------
(***************************************************************************)
(* Dictionaries of tensors between the members of a group.                 *)
(*                                                                         *)
(* "p2p": (i)send_tensor_dict and (i)recv_tensor_dict between two stages   *)
(* of a pipeline, each of them a tensor-parallel group of the same size.   *)
(* Rank r of the one stage sends to rank r of the other: first the keys    *)
(* with the metadata of the tensors, as a size and a pickled object, then  *)
(* the tensors, host tensors on the cpu group and device tensors on the    *)
(* device group.  A tensor that all senders hold alike is not sent whole:  *)
(* each sends its slice, and the receivers put the slices together by an   *)
(* all-gather of their group.  In between, a device tensor may be sent     *)
(* bare, by send and recv: its receiver knows what comes.                  *)
(*                                                                         *)
(* "broadcast": broadcast_tensor_dict, from rank 0 to all others of one    *)
(* group, in the same two parts, never in slices.                          *)
(*                                                                         *)
(* A channel is what the library keeps between a sender and a receiver on  *)
(* one group: the n-th receive that is posted gets the n-th message.  A    *)
(* message that does not fit the tensor it is received into is never       *)
(* received.                                                               *)
(***************************************************************************)
EXTENDS Integers, Sequences, SequencesExt, FiniteSets

CONSTANTS
    Configs         \* the deployments and programs to look at

VARIABLES
    config,         \* chosen at the start
    sent,           \* sent[s]: dictionaries s has begun to send
    spc,            \* spc[s]: "idle", "object" after the size of the metadata, "tensors"
                    \* after the metadata, or "raised"
    chan,           \* chan[r][g]: the messages sent to receiver r on group g
    posted,         \* posted[r][g]: how many receives r has posted there
    open,           \* open[r]: the dictionaries r has begun to receive, each with the
                    \* entry its postprocessing has come to (0: handles not waited for)
    rpc,            \* rpc[r]: "idle", "object" with the size of an object in hand,
                    \* "gathering" in an all-gather, or "raised"
    gathers,        \* gathers[r]: the slices r has handed to all-gathers, in order
    received        \* received[r]: the dictionaries r has handed to its caller

vars == <<config, sent, spc, chan, posted, open, rpc, gathers, received>>

Ops == {"p2p", "broadcast"}

\* An entry of a dictionary: a key; whether its value is a tensor, and then where it
\* lives, how many elements it has and whether all senders hold the same.
\* `whole`, `forced`: the keys that all_gather_tensors maps to False and to True, on both
\* sides.
\* `bare`: which elements of the plan are not dictionaries but one tensor of the device,
\* which is never cut.
\* `window`: how many dictionaries a receiver may have open: 1 with recv_tensor_dict,
\* more when its caller lets irecv_tensor_dict run ahead of the handles; the code sets
\* no limit, so a larger window is a caller that runs further ahead.
ASSUME ConfigsAssumption ==
    \A c \in Configs :
        /\ c.op \in Ops
        /\ c.size \in Nat \ {0, 1}
        /\ {c.staged, c.sliced, c.mq} \subseteq BOOLEAN
        /\ c.window \in Nat \ {0}
        /\ c.plan \in Seq(Range(c.plan)) /\ c.bare \subseteq DOMAIN c.plan
        /\ \A k \in c.bare :
            /\ c.op = "p2p" /\ Len(c.plan[k]) = 1
            /\ LET e == c.plan[k][1] IN e.tensor /\ e.where = "xpu" /\ e.key \in c.whole
        /\ c.whole \cap c.forced = {}
        /\ \A k \in DOMAIN c.plan : c.plan[k] \in Seq(Range(c.plan[k]))
        /\ \A k \in DOMAIN c.plan : \A i \in DOMAIN c.plan[k] :
            LET e == c.plan[k][i] IN
            /\ e.tensor \in BOOLEAN
            /\ e.tensor => /\ e.where \in {"xpu", "cpu"} /\ e.numel \in Nat
                           /\ c.op = "p2p" /\ c.sliced /\ ~e.alike => e.key \in c.whole

Rank == 0..config.size - 1
Group == {"cpu", "device", "mq"}
MaxSize == 3

Receiver == IF config.op = "p2p" THEN Rank ELSE Rank \ {0}
Sender == IF config.op = "p2p" THEN Rank ELSE {0}
From(r) == IF config.op = "p2p" THEN r ELSE 0
To(s) == {r \in Receiver : From(r) = s}

Plan == config.plan

\* What torch.empty finds in memory.
Garbage == <<[dict |-> 0, key |-> "garbage", at |-> 0, of |-> 0]>>

---------------------------------------------------------------------------
(* Tensors.                                                                *)

\* Element i of the tensor that rank s holds under this key of dictionary k.
Element(e, s, k, i) == [dict |-> k, key |-> e.key, at |-> i, of |-> IF e.alike THEN 0 ELSE s + 1]

TensorOf(e, s, k) == [i \in 1..e.numel |-> Element(e, s, k, i)]

\* The k-th dictionary of rank s as its caller sees it.
Dict(s, k) ==
    [i \in DOMAIN Plan[k] |->
        LET e == Plan[k][i]
        IN  [key |-> e.key, value |-> IF e.tensor THEN TensorOf(e, s, k) ELSE e.value]]

\* value.numel() > 0: an empty tensor is in the metadata only.
Travels(e) == e.tensor /\ e.numel > 0

\* As many elements for every member.
Divisible(e) == e.numel % config.size = 0

\* _should_use_all_gather
UseAllGather(e) ==
    /\ config.op = "p2p" /\ config.sliced
    /\ Divisible(e) \/ e.key \in config.forced
    /\ e.key \notin config.whole

\* tensor.reshape(all_gather_size, -1)[all_gather_rank]
Slice(data, r) ==
    LET n == Len(data) \div config.size
    IN  SubSeq(data, r * n + 1, (r + 1) * n)

Message(e, s, k) ==
    IF UseAllGather(e) THEN Slice(TensorOf(e, s, k), s) ELSE TensorOf(e, s, k)

\* metadata_group for a host tensor, the device group for a device tensor.
CommGroup(e) == IF e.tensor /\ e.where = "xpu" THEN "device" ELSE "cpu"

\* Metadata goes by the cpu group, or by the message queue of a broadcast_object.
MetadataGroup == IF config.op = "broadcast" /\ config.mq THEN "mq" ELSE "cpu"

\* What stops the loop over the tensors on either side: gloo does not move a device tensor,
\* and a tensor that is to be cut without being divisible cannot be reshaped.
Refuses(e) ==
    \/ config.staged /\ e.where = "xpu"
    \/ UseAllGather(e) /\ ~Divisible(e)

\* Slices are gathered on the device group, and xccl does not take a host tensor.
GatherRefuses(e) == ~config.staged /\ e.where = "cpu"

---------------------------------------------------------------------------
Init ==
    /\ config \in Configs
    /\ sent = [s \in Rank |-> 0]
    /\ spc = [s \in Rank |-> "idle"]
    /\ chan = [r \in Rank |-> [g \in Group |-> <<>>]]
    /\ posted = [r \in Rank |-> [g \in Group |-> 0]]
    /\ open = [r \in Rank |-> <<>>]
    /\ rpc = [r \in Rank |-> "idle"]
    /\ gathers = [r \in Rank |-> <<>>]
    /\ received = [r \in Rank |-> <<>>]

---------------------------------------------------------------------------
(* The sending side.                                                       *)

\* Messages for the readers of s, in the channel of each group.
Put(s, messages) ==
    chan' = [r \in Rank |->
                IF r \in To(s)
                THEN [g \in Group |-> chan[r][g] \o messages[g]]
                ELSE chan[r]]

On(group, messages) == [g \in Group |-> IF g = group THEN messages ELSE <<>>]

\* The first message of send_object; its length stands for the bytes of the second.
SizeOf(entries) == <<[size |-> Len(entries)]>>

\* The keys, and the metadata of the tensors: send_object makes two messages of them,
\* broadcast_object is one call.
SendMetadata(s) ==
    LET entries == Plan[sent[s] + 1] IN
    /\ spc[s] = "idle"
    /\ sent[s] < Len(Plan) /\ sent[s] + 1 \notin config.bare
    /\ sent' = [sent EXCEPT ![s] = @ + 1]
    /\ IF config.op = "p2p"
       THEN Put(s, On("cpu", <<SizeOf(entries)>>)) /\ spc' = [spc EXCEPT ![s] = "object"]
       ELSE Put(s, On(MetadataGroup, <<entries>>)) /\ spc' = [spc EXCEPT ![s] = "tensors"]
    /\ UNCHANGED <<config, posted, open, rpc, gathers, received>>

SendObject(s) ==
    /\ spc[s] = "object"
    /\ Put(s, On("cpu", <<Plan[sent[s]]>>))
    /\ spc' = [spc EXCEPT ![s] = "tensors"]
    /\ UNCHANGED <<config, sent, posted, open, rpc, gathers, received>>

\* The communicator's send: on the device group, host-staged or not.
SendBare(s) ==
    LET k == sent[s] + 1 IN
    /\ spc[s] = "idle"
    /\ k \in config.bare
    /\ sent' = [sent EXCEPT ![s] = k]
    /\ IF Refuses(Plan[k][1])
       THEN spc' = [spc EXCEPT ![s] = "raised"] /\ UNCHANGED chan
       ELSE Put(s, On("device", <<TensorOf(Plan[k][1], s, k)>>)) /\ UNCHANGED spc
    /\ UNCHANGED <<config, posted, open, rpc, gathers, received>>

\* The tensors of a dictionary that are sent: those that travel, up to one that is refused.
Outgoing(entries) ==
    {i \in DOMAIN entries :
        /\ Travels(entries[i])
        /\ \A j \in 1..i : Travels(entries[j]) => ~Refuses(entries[j])}

\* A set of numbers in increasing order.
InOrder(S) ==
    [n \in 1..Cardinality(S) |-> CHOOSE i \in S : Cardinality({j \in S : j < i}) = n - 1]

\* Mutant: the library's error is caught, and the loop goes on.
ErrorCaught(entries) == FALSE

HasRefused(entries) == \E i \in DOMAIN entries : Travels(entries[i]) /\ Refuses(entries[i])

\* Every isend (or broadcast) of the dictionary; the caller may go on at once, since what
\* is sent is what the tensor held.
SendTensors(s) ==
    LET k == sent[s]
        By(g) == {i \in Outgoing(Plan[k]) : CommGroup(Plan[k][i]) = g}
    IN
    /\ spc[s] = "tensors"
    /\ Put(s, [g \in Group |->
                    [n \in 1..Cardinality(By(g)) |-> Message(Plan[k][InOrder(By(g))[n]], s, k)]])
    /\ spc' = [spc EXCEPT ![s] = IF HasRefused(Plan[k]) THEN "raised" ELSE "idle"]
    /\ UNCHANGED <<config, sent, posted, open, rpc, gathers, received>>

---------------------------------------------------------------------------
(* The receiving side.                                                     *)

\* The receives posted for these entries: for each travelling tensor its place in the
\* channel of its group.
PostedBefore(entries, i, g) ==
    Cardinality({j \in 1..i - 1 : Travels(entries[j]) /\ CommGroup(entries[j]) = g})

\* Mutant: one more.
MayOpenOneMore(r) == Len(open[r]) <= config.window

\* recv_tensor_dict finishes a dictionary before the next; irecv_tensor_dict need not.
MayOpen(r) == Len(open[r]) < config.window

\* What the program of r receives next.
Expected(r) == Len(received[r]) + Len(open[r]) + 1

\* The place of the next receive that r posts on a group, when its message has come.
Posts(r, g) == posted[r][g] + 1
HasCome(r, g) == Posts(r, g) <= Len(chan[r][g])

\* recv_object begins with the size of the object.
ReceiveSize(r) ==
    /\ config.op = "p2p" /\ rpc[r] = "idle"
    /\ MayOpen(r) /\ Expected(r) \in DOMAIN Plan \ config.bare
    /\ HasCome(r, "cpu") /\ Len(chan[r]["cpu"][Posts(r, "cpu")]) = 1
    /\ posted' = [posted EXCEPT ![r]["cpu"] = @ + 1]
    /\ rpc' = [rpc EXCEPT ![r] = "object"]
    /\ UNCHANGED <<config, sent, spc, chan, open, gathers, received>>

\* The metadata can be received: the object has the size that was announced, or it is
\* broadcast.
MetadataHasCome(r) ==
    /\ HasCome(r, MetadataGroup)
    /\ IF config.op = "p2p"
       THEN /\ rpc[r] = "object"
            /\ SizeOf(chan[r]["cpu"][Posts(r, "cpu")]) = chan[r]["cpu"][posted[r]["cpu"]]
       ELSE rpc[r] = "idle" /\ MayOpen(r)

\* The metadata, and an irecv for every tensor that travels.
ReceiveMetadata(r) ==
    LET entries == chan[r][MetadataGroup][Posts(r, MetadataGroup)]
        after == [posted[r] EXCEPT ![MetadataGroup] = @ + 1]
        buffers == [i \in DOMAIN entries |->
                        LET g == CommGroup(entries[i])
                        IN  [entry |-> entries[i],
                             group |-> g,
                             place |-> after[g] + PostedBefore(entries, i, g) + 1,
                             value |-> IF entries[i].tensor
                                       THEN IF entries[i].numel = 0 THEN <<>> ELSE Garbage
                                       ELSE entries[i].value]]
    IN
    /\ MetadataHasCome(r)
    /\ IF HasRefused(entries)
       THEN rpc' = [rpc EXCEPT ![r] = "raised"] /\ UNCHANGED <<open, posted>>
       ELSE /\ open' = [open EXCEPT ![r] = Append(@, [buffers |-> buffers, todo |-> 0])]
            /\ posted' = [posted EXCEPT
                    ![r] = [g \in Group |->
                                after[g] + PostedBefore(entries, Len(entries) + 1, g)]]
            /\ rpc' = [rpc EXCEPT ![r] = "idle"]
    /\ UNCHANGED <<config, sent, spc, chan, gathers, received>>

\* The communicator's recv waits for its tensor; the caller looks at it in its turn.
ReceiveBare(r) ==
    LET entry == Plan[Expected(r)][1]
        message == chan[r]["device"][Posts(r, "device")]
    IN
    /\ rpc[r] = "idle" /\ MayOpen(r)
    /\ Expected(r) \in config.bare
    /\ IF Refuses(entry)
       THEN rpc' = [rpc EXCEPT ![r] = "raised"] /\ UNCHANGED <<open, posted>>
       ELSE /\ HasCome(r, "device") /\ Len(message) = entry.numel
            /\ posted' = [posted EXCEPT ![r]["device"] = @ + 1]
            /\ open' = [open EXCEPT ![r] = Append(@,
                    [buffers |-> <<[entry |-> entry, group |-> "device",
                                    place |-> Posts(r, "device"), value |-> message]>>,
                     todo |-> 2])]
            /\ UNCHANGED rpc
    /\ UNCHANGED <<config, sent, spc, chan, gathers, received>>

Arrived(r, b) == Travels(b.entry) => b.place <= Len(chan[r][b.group])

\* The number of elements that the receiver's buffer has room for.
Room(e) == IF UseAllGather(e) THEN e.numel \div config.size ELSE e.numel

\* Mutant: the slices are gathered before the handles are waited for.
GatherWithoutWait(r) ==
    /\ rpc[r] = "idle" /\ open[r] # <<>> /\ open[r][1].todo = 0
    /\ open' = [open EXCEPT ![r][1].todo = 1]
    /\ UNCHANGED <<config, sent, spc, chan, posted, rpc, gathers, received>>

\* The handles of the oldest open dictionary have all been waited for, and the tensors
\* hold what came.
WaitHandles(r) ==
    /\ rpc[r] = "idle" /\ open[r] # <<>> /\ open[r][1].todo = 0
    /\ \A i \in DOMAIN open[r][1].buffers : Arrived(r, open[r][1].buffers[i])
    /\ \A i \in DOMAIN open[r][1].buffers :
            LET b == open[r][1].buffers[i]
            IN  Travels(b.entry) => Len(chan[r][b.group][b.place]) = Room(b.entry)
    /\ open' = [open EXCEPT
                    ![r][1] = [buffers |-> [i \in DOMAIN open[r][1].buffers |->
                                    LET b == open[r][1].buffers[i]
                                    IN  IF Travels(b.entry)
                                        THEN [b EXCEPT !.value = chan[r][b.group][b.place]]
                                        ELSE b],
                               todo |-> 1]]
    /\ UNCHANGED <<config, sent, spc, chan, posted, rpc, gathers, received>>

\* What is left to put together in the oldest open dictionary.
ToGather(r) ==
    {i \in DOMAIN open[r][1].buffers :
        LET e == open[r][1].buffers[i].entry
        IN  i >= open[r][1].todo /\ Travels(e) /\ UseAllGather(e)}

Least(S) == CHOOSE i \in S : \A j \in S : i <= j

\* Mutant: the closure sees the loop's last key and tensor.
LateBound(r) == CHOOSE i \in ToGather(r) : \A j \in ToGather(r) : j <= i

\* The tensor that the next postprocess function is about.
Bound(r) == Least(ToGather(r))

\* The next postprocess function: all_gather of the receiver's group.
EnterGather(r) ==
    /\ rpc[r] = "idle" /\ open[r] # <<>> /\ open[r][1].todo # 0
    /\ ToGather(r) # {}
    /\ LET b == open[r][1].buffers[Bound(r)] IN
       IF GatherRefuses(b.entry)
       THEN rpc' = [rpc EXCEPT ![r] = "raised"] /\ UNCHANGED gathers
       ELSE /\ gathers' = [gathers EXCEPT ![r] = Append(@, b.value)]
            /\ rpc' = [rpc EXCEPT ![r] = "gathering"]
    /\ UNCHANGED <<config, sent, spc, chan, posted, open, received>>

\* The slices one after the other, each as long as that of r.
Joined(slices, r) ==
    LET len == Len(slices[r])
    IN  [i \in 1..config.size * len |-> slices[(i - 1) \div len][((i - 1) % len) + 1]]

\* Everybody has come with a slice: the tensor is their concatenation.
LeaveGather(r) ==
    LET n == Len(gathers[r])
        i == Bound(r)
    IN
    /\ rpc[r] = "gathering"
    /\ \A p \in Receiver : Len(gathers[p]) >= n
    /\ open' = [open EXCEPT
                    ![r][1] = [buffers |-> [open[r][1].buffers EXCEPT
                                    ![i].value = Joined([p \in Rank |-> gathers[p][n]], r)],
                               todo |-> Least(ToGather(r)) + 1]]
    /\ rpc' = [rpc EXCEPT ![r] = "idle"]
    /\ UNCHANGED <<config, sent, spc, chan, posted, gathers, received>>

\* The dictionary is complete and goes to the caller.
Deliver(r) ==
    /\ rpc[r] = "idle" /\ open[r] # <<>> /\ open[r][1].todo # 0
    /\ ToGather(r) = {}
    /\ received' = [received EXCEPT
                    ![r] = Append(@, [i \in DOMAIN open[r][1].buffers |->
                                        [key |-> open[r][1].buffers[i].entry.key,
                                         value |-> open[r][1].buffers[i].value]])]
    /\ open' = [open EXCEPT ![r] = Tail(@)]
    /\ UNCHANGED <<config, sent, spc, chan, posted, rpc, gathers>>

---------------------------------------------------------------------------
Send(s) == s \in Sender /\ (SendMetadata(s) \/ SendObject(s) \/ SendTensors(s) \/ SendBare(s))

Receive(r) ==
    /\ r \in Receiver
    /\  \/ ReceiveSize(r) \/ ReceiveMetadata(r) \/ ReceiveBare(r)
        \/ WaitHandles(r) \/ EnterGather(r) \/ LeaveGather(r) \/ Deliver(r)

SenderEnds(s) == spc[s] = "raised" \/ (spc[s] = "idle" /\ sent[s] = Len(Plan))
ReceiverEnds(r) == rpc[r] = "raised" \/ Len(received[r]) = Len(Plan)

\* r is in an all-gather that another receiver, which has raised, will not come to.
Deserted(r) ==
    /\ rpc[r] = "gathering"
    /\ \E p \in Receiver : rpc[p] = "raised" /\ Len(gathers[p]) < Len(gathers[r])

Done ==
    /\ \A s \in Sender : SenderEnds(s)
    /\ \A r \in Receiver : ReceiverEnds(r) \/ Deserted(r)
    /\ UNCHANGED vars

Next == (\E r \in Rank : Send(r) \/ Receive(r)) \/ Done

\* Every process runs on, and the library delivers what was sent.
Fairness == \A r \in 0..MaxSize - 1 : WF_vars(r \in Rank /\ Send(r)) /\ WF_vars(r \in Rank /\ Receive(r))

Spec == Init /\ [][Next]_vars /\ Fairness

---------------------------------------------------------------------------
(* Correctness.                                                            *)

Pipe == INSTANCE DictPipe WITH
    offered <- [s \in Rank |-> [k \in DOMAIN Plan |-> Dict(s, k)]],
    source <- [r \in Rank |-> From(r)]

\* The type invariant; receives never run ahead of what the metadata announced.
TypeOK ==
    /\ config \in Configs
    /\ \A r \in Rank :
        /\ sent[r] \in 0..Len(Plan)
        /\ spc[r] \in {"idle", "object", "tensors", "raised"}
        /\ rpc[r] \in {"idle", "object", "gathering", "raised"}
        /\ Len(open[r]) <= config.window
        /\ Len(received[r]) + Len(open[r]) <= sent[From(r)]

\* Every receiver gets its source's dictionaries, unchanged and in order: metadata,
\* skipped empty tensors, slices and their all-gather, the two groups and dictionaries
\* in flight together do not show (send_tensor_dict, recv_tensor_dict,
\* broadcast_tensor_dict).
ImplementsPipe == Pipe!Spec

\* The receivers of a stage are in the same all-gather: what they contribute are the
\* successive slices of one tensor of one dictionary, and nobody's slice is gathered
\* before it has come (the postprocess functions of irecv_tensor_dict).
GathersMatch ==
    \A r, p \in Receiver : \A n \in DOMAIN gathers[r] \cap DOMAIN gathers[p] :
        LET x == gathers[r][n]  y == gathers[p][n]
        IN  /\ Len(x) = Len(y)
            /\ \A i \in DOMAIN x :
                /\ x[i].dict = y[i].dict /\ x[i].key = y[i].key
                /\ x[i].at - y[i].at = (r - p) * Len(x)

\* A tensor that is refused stops both ends: no receiver waits for a tensor that a sender
\* has announced and cannot send, and nobody waits for anything else.  This holds without
\* exception where each dictionary is finished before the next is begun.  A receiver that
\* runs ahead may raise at the metadata of a later dictionary before it has gathered an
\* earlier one, and only then its peers are left in the all-gather of the earlier one.
EverybodyEnds ==
    \A r \in 0..MaxSize - 1 :
        /\ <>(r \in Sender => SenderEnds(r))
        /\ <>(r \in Receiver =>
                ReceiverEnds(r) \/ (config.window > 1 /\ Deserted(r)))
===========================================================================
