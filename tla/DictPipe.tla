----------------------------- MODULE DictPipe -----------------------------
(***************************************************************************)
(* What handing over tensor dictionaries promises: a receiver gets the     *)
(* dictionaries of its source, whole, unchanged and in the order in which  *)
(* they were sent, whatever happens to metadata, slices and groups on the  *)
(* way.                                                                    *)
(***************************************************************************)
EXTENDS Integers, Sequences

VARIABLES
    offered,        \* offered[s]: the dictionaries the caller of s has for sending
    source,         \* source[r]: the rank whose dictionaries receiver r gets
    sent,           \* sent[s]: how many of them s has sent
    received        \* received[r]: the dictionaries r has handed to its caller

vars == <<offered, source, sent, received>>

Init ==
    /\ sent = [s \in DOMAIN offered |-> 0]
    /\ received = [r \in DOMAIN source |-> <<>>]

Send(s) ==
    /\ sent[s] < Len(offered[s])
    /\ sent' = [sent EXCEPT ![s] = @ + 1]
    /\ UNCHANGED <<offered, source, received>>

Receive(r) ==
    LET next == Len(received[r]) + 1 IN
    /\ next <= sent[source[r]]
    /\ received' = [received EXCEPT ![r] = Append(@, offered[source[r]][next])]
    /\ UNCHANGED <<offered, source, sent>>

Next == (\E s \in DOMAIN offered : Send(s)) \/ (\E r \in DOMAIN source : Receive(r))

Spec == Init /\ [][Next]_vars
===========================================================================
