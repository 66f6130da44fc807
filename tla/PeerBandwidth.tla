--------------------------- MODULE PeerBandwidth ---------------------------
(***************************************************************************)
(* The benchmark b70_p2p_bandwidth.cpp: copies between two cards, timed    *)
(* for one message size after another, with a check of the destination and *)
(* a line of the report for each size.                                     *)
(*                                                                         *)
(* The buffers are allocated once and sliced: a copy of size s overwrites  *)
(* the pieces 1..s of its destination.  Both are filled with the values    *)
(* that the check expects.  What the driver makes of a peer copy depends   *)
(* on the machine; no result of a copy command is looked at.               *)
(***************************************************************************)
EXTENDS Integers, Sequences

CONSTANTS
    MaxSize         \* the number of message sizes, at least one

VARIABLES
    path,           \* path[d]: what becomes of a copy in direction d on this machine
    size,           \* the message size it is at
    pc,             \* the next statement of the loop
    buffer,         \* buffer[dev][i]: what piece i of the buffer of this card holds
    arrived,        \* arrived[d]: the timed copies of this size have moved their data
    ok,             \* ok[d]: the verdict on them
    threads,        \* the threads of the bidirectional measurement that have to run yet
    report          \* the lines printed

vars == <<path, size, pc, buffer, arrived, ok, threads, report>>

Direction == {"fwd", "rev"}
Device == {0, 1}

Source(d) == IF d = "fwd" THEN 0 ELSE 1
Target(d) == 1 - Source(d)

\* Moved, refused with an error code, or moved and damaged.
Outcome == {"moves", "refuses", "garbles"}

Init ==
    /\ path \in [Direction -> Outcome]
    /\ size = 1
    /\ pc = "time fwd"
    /\ buffer = [dev \in Device |-> [i \in 1..MaxSize |-> "pattern"]]
    /\ arrived = [d \in Direction |-> FALSE]
    /\ ok = [d \in Direction |-> FALSE]
    /\ threads = {}
    /\ report = <<>>

\* zeCommandListAppendMemoryCopy of the first `size` pieces, warm-up and repetitions alike.
Copied(d) ==
    [buffer EXCEPT ![Target(d)] =
        [i \in 1..MaxSize |->
            IF i > size \/ path[d] = "refuses" THEN @[i]
            ELSE IF path[d] = "moves" THEN buffer[Source(d)][i] ELSE "garbage"]]

BenchCopy(d, next) ==
    /\ buffer' = Copied(d)
    /\ arrived' = [arrived EXCEPT ![d] = path[d] = "moves"]
    /\ pc' = next
    /\ UNCHANGED <<path, size, ok, threads, report>>

\* The destination is read back and compared.
Verify(d, next) ==
    /\ ok' = [ok EXCEPT ![d] = \A i \in 1..size : buffer[Target(d)][i] = "pattern"]
    /\ pc' = next
    /\ UNCHANGED <<path, size, buffer, arrived, threads, report>>

TimeForward == pc = "time fwd" /\ BenchCopy("fwd", "verify fwd")
VerifyForward == pc = "verify fwd" /\ Verify("fwd", "time rev")
TimeReverse == pc = "time rev" /\ BenchCopy("rev", "verify rev")
VerifyReverse == pc = "verify rev" /\ Verify("rev", "start threads")

\* Both directions at once; nothing is verified behind it.
StartThreads ==
    /\ pc = "start threads"
    /\ threads' = Direction
    /\ pc' = "join"
    /\ UNCHANGED <<path, size, buffer, arrived, ok, report>>

Thread(d) ==
    /\ d \in threads
    /\ buffer' = Copied(d)
    /\ threads' = threads \ {d}
    /\ UNCHANGED <<path, size, pc, arrived, ok, report>>

\* The threads are joined, and the line of this size is printed.
PrintLine ==
    /\ pc = "join" /\ threads = {}
    /\ report' = Append(report, [size |-> size, ok |-> ok, arrived |-> arrived])
    /\ IF size < MaxSize THEN size' = size + 1 /\ pc' = "time fwd" ELSE pc' = "done" /\ UNCHANGED size
    /\ UNCHANGED <<path, buffer, arrived, ok, threads>>

Done == pc = "done" /\ UNCHANGED vars

Next ==
    \/ TimeForward \/ VerifyForward \/ TimeReverse \/ VerifyReverse
    \/ StartThreads \/ (\E d \in Direction : Thread(d)) \/ PrintLine
    \/ Done

Spec == Init /\ [][Next]_vars

---------------------------------------------------------------------------
\* A bandwidth that is reported as ok belongs to copies that have moved their data
\* (b70_p2p_bandwidth.cpp:7, "we never report bandwidth on dropped data").
NeverReportsDropped ==
    \A n \in DOMAIN report : \A d \in Direction : report[n].ok[d] => report[n].arrived[d]
===========================================================================
