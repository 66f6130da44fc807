----------------------- MODULE WorkerStartup_proofs -----------------------
(***************************************************************************)
(* Theorems about WorkerStartup, for every set of configurations: the      *)
(* workers never disagree on a blocking call, on a group or on its name,   *)
(* and the groups are those that were meant.                               *)
(*                                                                         *)
(* A worker's program is fixed by the configuration.  The invariant says   *)
(* of each worker by itself where in that program it is, by the number of  *)
(* blocking calls it has made: two workers that have made equally many     *)
(* have made the same ones.  That every worker finds itself in exactly one *)
(* list of every kind is GroupsCutTheWorld of RankLayout_proofs.           *)
(***************************************************************************)
EXTENDS WorkerStartup, RankLayout_proofs, SequenceTheorems

---------------------------------------------------------------------------
(* The program of a worker, as the configuration fixes it.                 *)

\* Kinds, for configuration c.
Order(c) ==
    LET all == IF c.inner /\ c.dp > 1
               THEN <<"world", "inner", "tp", "dcp", "pcp", "pp", "dp", "ep", "eplb">>
               ELSE <<"world", "tp", "dcp", "pcp", "pp", "dp", "ep", "eplb">>
    IN  SubSeq(all, 1, Len(all) - (IF ~c.moe THEN 2 ELSE IF ~c.eplb THEN 1 ELSE 0))

\* The stages of a start: the process group of the world is stage 0, then the coordinators
\* are built, and the warm-up comes last.
LastStage(c) == Len(Order(c)) + 1

\* How many lists of ranks a kind has, which of them a worker is in, and that list.
NumLists(c, kind) == Len(Laid[c][kind])
RowOf(c, kind, r) == CHOOSE j \in 1..NumLists(c, kind) : r \in Range(Laid[c][kind][j])
ListOf(c, kind, r) == Laid[c][kind][RowOf(c, kind, r)]

\* The members of a group of this kind make a call among themselves.
Couples(c, kind) == SizeOf(kind, c) > 1 /\ (WantsMq(kind) \/ (kind = "ep" /\ c.dp > 1))

\* The number of blocking calls for a kind, in a stage, before a stage and in a start.
CallsFor(c, kind) ==
    2 * NumLists(c, kind) + (IF Couples(c, kind) THEN 1 ELSE 0)
        + (IF kind = "world" /\ ~c.many THEN 1 ELSE 0)

\* One for the process group, one for the warm-up.
Weight(c, s) ==
    IF s = 0 \/ s = LastStage(c) THEN 1
    ELSE IF s \in 1..Len(Order(c)) THEN CallsFor(c, Order(c)[s]) ELSE 0

\* What stage i contributes to the calls before stage s; there are at most eleven stages.
Part(c, s, i) == IF i < s THEN Weight(c, i) ELSE 0
CallsBefore(c, s) ==
    Part(c, s, 0) + Part(c, s, 1) + Part(c, s, 2) + Part(c, s, 3) + Part(c, s, 4) + Part(c, s, 5)
        + Part(c, s, 6) + Part(c, s, 7) + Part(c, s, 8) + Part(c, s, 9) + Part(c, s, 10)
PerStart(c) == CallsBefore(c, LastStage(c) + 1)

\* The backend of device groups and of the warm-up.
Backend(c) == IF c.staged \/ ~c.xccl THEN "gloo" ELSE "xccl"
WorldList(c) == [i \in 1..WorldOf(c) |-> i - 1]

\* The k-th blocking call of worker r in stage s.
CallIn(c, r, s, k) ==
    IF s = 0 THEN Blocking("init_process_group", WorldList(c), Backend(c))
    ELSE IF s = LastStage(c) THEN Blocking("all_reduce", WorldList(c), Backend(c))
    ELSE LET kind == Order(c)[s] IN
         IF k <= 2 * NumLists(c, kind)
         THEN IF k % 2 = 1 THEN NewGroup(Laid[c][kind][(k + 1) \div 2], Backend(c))
                           ELSE NewGroup(Laid[c][kind][k \div 2], "gloo")
         ELSE IF kind = "world" THEN Blocking("node_count", ListOf(c, kind, r), "gloo")
         ELSE Blocking(IF WantsMq(kind) THEN "mq" ELSE "same_node", ListOf(c, kind, r), "gloo")

\* The coordinator that worker r has after the n-th teardown.
GroupOf(c, kind, n, r) == [name |-> kind, number |-> n, ranks |-> ListOf(c, kind, r)]

---------------------------------------------------------------------------
(* The invariant, worker by worker; the arguments are the worker's state.  *)

\* A coordinator is being built.
Building == {"device", "cpu", "mq", "all2all"}

\* The stage a worker has reached; it restarts from the first when it boots.
Reached(p, s) == IF p = "boot" THEN 1 ELSE s

\* The calls it has made in this start.
Done(c, p, s, j) ==
    CASE p = "boot" -> 0
      [] p = "joining" -> 1
      [] p \in {"idle", "counting", "raised"} -> CallsBefore(c, s)
      [] p = "device" -> CallsBefore(c, s) + 2 * j - 1
      [] p = "cpu" -> CallsBefore(c, s) + 2 * j
      [] p \in {"mq", "all2all"} -> CallsBefore(c, s) + 2 * NumLists(c, Order(c)[s]) + 1
      [] p \in {"warming", "started"} -> PerStart(c)

\* Where worker r is, after n teardowns, in stage s at list j, having made m calls.
Placed(c, p, n, s, j, m) ==
    /\ p \in Building \cup {"boot", "joining", "idle", "counting", "warming", "started", "raised"}
    /\ n \in 0..c.restarts /\ s \in 1..LastStage(c) /\ j \in Nat
    /\ m = Times(n, PerStart(c)) + Done(c, p, s, j)
    /\ p = "joining" => s = 1
    /\ p \in Building => s <= Len(Order(c))
    /\ p \in {"device", "cpu"} => j \in 1..NumLists(c, Order(c)[s])
    /\ p \in {"mq", "all2all"} =>
        Couples(c, Order(c)[s]) /\ (p = "mq" <=> WantsMq(Order(c)[s]))
    /\ p = "counting" => s = 2 /\ ~c.many
    /\ p \in {"warming", "started", "raised"} => s = LastStage(c)
    /\ p = "raised" => ~c.staged /\ ~c.xccl

\* The last call x of a worker that has made m is the m-th of its program.
Kept(c, r, m, x) ==
    m # 0 => \E n \in 0..c.restarts, s \in 0..LastStage(c) : \E k \in 1..Weight(c, s) :
                m = Times(n, PerStart(c)) + CallsBefore(c, s) + k /\ x = CallIn(c, r, s, k)

\* While it builds a coordinator it has the lists of that kind, and its own one from the
\* moment the loop has passed it.
Listed(c, r, p, s, j, l, o) ==
    /\ o # <<>> => r \in Range(o)
    /\ p \in Building =>
        /\ l = Laid[c][Order(c)[s]]
        /\ o = IF p \in {"mq", "all2all"} \/ RowOf(c, Order(c)[s], r) < j
               THEN ListOf(c, Order(c)[s], r) ELSE <<>>

\* The globals of the kinds it has come to, after n teardowns.  _INNER_DP_WORLD survives a
\* teardown until it is set again, and is the world of an engine that has no peers.
Global(c, r, n, s, g) ==
    /\ DOMAIN g = GroupKinds
    /\ \A i \in 1..Len(Order(c)) : Order(c)[i] # "inner" =>
        g[Order(c)[i]] = IF i < s THEN GroupOf(c, Order(c)[i], n, r) ELSE None
    /\ \A kind \in GroupKinds \ {"inner"} :
        (\A i \in 1..Len(Order(c)) : Order(c)[i] # kind) => g[kind] = None
    /\ ~c.inner => g["inner"] = None
    /\ c.inner =>
        LET kind == IF c.dp > 1 THEN "inner" ELSE "world"
        IN  IF s > (IF c.dp > 1 THEN 2 ELSE 1) THEN g["inner"] = GroupOf(c, kind, n, r)
            ELSE g["inner"] = None \/ \E k \in 0..c.restarts : g["inner"] = GroupOf(c, kind, k, r)

\* Names are given out once in a start.
Numbered(c, p, n, s, count) ==
    /\ DOMAIN count = GroupKinds
    /\ \A i \in 1..Len(Order(c)) :
        count[Order(c)[i]] = IF i < s \/ (i = s /\ p \in Building) THEN n + 1 ELSE n

\* All of it, for worker r at p after n teardowns, in stage s at list j with the lists l and its
\* own list o, the globals g, the names count, and m calls made of which x was the last.
Where(c, r, p, n, s, j, l, o, g, count, m, x) ==
    /\ Placed(c, p, n, s, j, m)
    /\ Kept(c, r, m, x)
    /\ Listed(c, r, p, s, j, l, o)
    /\ Global(c, r, n, Reached(p, s), g)
    /\ Numbered(c, p, n, Reached(p, s), count)

Here(r) == Where(config, r, pc[r], round[r], stage[r], row[r], lists[r], own[r], groups[r],
                 counter[r], made[r], call[r])

\* Every variable has an entry for every worker of the world.
Domains ==
    /\ DOMAIN pc = Worker /\ DOMAIN round = Worker /\ DOMAIN stage = Worker
    /\ DOMAIN lists = Worker /\ DOMAIN row = Worker /\ DOMAIN own = Worker
    /\ DOMAIN groups = Worker /\ DOMAIN counter = Worker
    /\ DOMAIN made = Worker /\ DOMAIN call = Worker

IInv == config \in Configs /\ Domains /\ \A r \in Worker : Here(r)

---------------------------------------------------------------------------
(* What the configurations guarantee.                                      *)

\* A configuration has a layout.
LEMMA ConfigFacts ==
    ASSUME NEW c \in Configs
    PROVE  /\ IsLayout(c)
           /\ c.dp \in Nat /\ c.dp >= 1 /\ c.restarts \in Nat
           /\ c.moe \in BOOLEAN /\ c.eplb \in BOOLEAN
           /\ c.many \in BOOLEAN /\ c.inner \in BOOLEAN
           /\ c.staged \in BOOLEAN /\ c.xccl \in BOOLEAN /\ c.peer \in BOOLEAN
           /\ c.inner => c.ext = 1
  <1>1. /\ {c.ext, c.dp, c.pp, c.pcp, c.tp, c.dcp} \subseteq Nat \ {0}
        /\ WorldOf(c) % c.dcp = 0
        /\ {c.moe, c.eplb, c.many, c.inner, c.staged, c.xccl, c.peer} \subseteq BOOLEAN
        /\ c.inner => c.ext = 1
        /\ c.restarts \in Nat
    BY ConfigsAssumption
  <1>2. IsLayout(c)
    BY <1>1 DEF IsLayout, Positive
  <1> QED BY <1>1, <1>2

\* The first coordinator is the world's, inner comes second if at all, no kind comes twice,
\* and experts come after the groups their manager looks for.
Ordered(kinds, inner) ==
    /\ Len(kinds) \in 6..9 /\ DOMAIN kinds = 1..Len(kinds)
    /\ \A i \in 1..Len(kinds) :
        /\ kinds[i] \in GroupKinds
        /\ kinds[i] = "world" <=> i = 1
        /\ kinds[i] = "inner" <=> i = 2 /\ inner
        /\ kinds[i] = "tp" <=> i = (IF inner THEN 3 ELSE 2)
        /\ kinds[i] = "dp" <=> i = (IF inner THEN 7 ELSE 6)
        /\ kinds[i] = "ep" => i > (IF inner THEN 7 ELSE 6)
        /\ \A j \in 1..Len(kinds) : kinds[i] = kinds[j] => i = j

\* They come in that order.
LEMMA OrderIsOrdered ==
    ASSUME NEW c \in Configs
    PROVE  Ordered(Order(c), c.inner /\ c.dp > 1)
  <1> DEFINE T9 == <<"world", "inner", "tp", "dcp", "pcp", "pp", "dp", "ep", "eplb">>
             T8 == <<"world", "tp", "dcp", "pcp", "pp", "dp", "ep", "eplb">>
  <1>1. PICK cut \in 0..2 : cut = IF ~c.moe THEN 2 ELSE IF ~c.eplb THEN 1 ELSE 0
    OBVIOUS
  <1>2. CASE c.inner /\ c.dp > 1
    <2>1. PICK n \in 7..9 : n = 9 - cut
      OBVIOUS
    <2>2. Order(c) = SubSeq(T9, 1, n)
      <3>1. Len(T9) = 9
        OBVIOUS
      <3> QED BY <1>1, <1>2, <2>1, <3>1 DEF Order
    <2>3. /\ T9[1] = "world" /\ T9[2] = "inner" /\ T9[3] = "tp" /\ T9[4] = "dcp" /\ T9[5] = "pcp"
          /\ T9[6] = "pp" /\ T9[7] = "dp" /\ T9[8] = "ep" /\ T9[9] = "eplb"
      OBVIOUS
    <2> HIDE DEF T9
    <2>4. \A i \in 1..n : T9[i] \in GroupKinds
      BY <2>3 DEF GroupKinds
    <2>5. /\ SubSeq(T9, 1, n) \in Seq(GroupKinds) /\ Len(SubSeq(T9, 1, n)) = n
          /\ \A i \in 1..n : SubSeq(T9, 1, n)[i] = T9[i]
      <3>1. /\ SubSeq(T9, 1, n) \in Seq(GroupKinds)
            /\ Len(SubSeq(T9, 1, n)) = IF 1 <= n THEN n - 1 + 1 ELSE 0
            /\ \A i \in 1..n - 1 + 1 : SubSeq(T9, 1, n)[i] = T9[1 + i - 1]
        BY <2>4, SubSeqProperties
      <3> QED BY <3>1
    <2>6. PICK kinds \in Seq(GroupKinds) :
                kinds = Order(c) /\ Len(kinds) = n /\ \A i \in 1..n : kinds[i] = T9[i]
      BY <2>2, <2>5
    <2>7. Ordered(kinds, TRUE)
      <3>1. Len(kinds) \in 6..9 /\ DOMAIN kinds = 1..Len(kinds)
        BY <2>6
      <3>2. ASSUME NEW i \in 1..Len(kinds)
            PROVE  /\ kinds[i] \in GroupKinds
                   /\ kinds[i] = "world" <=> i = 1
                   /\ kinds[i] = "inner" <=> i = 2 /\ TRUE
                   /\ kinds[i] = "tp" <=> i = (IF TRUE THEN 3 ELSE 2)
                   /\ kinds[i] = "dp" <=> i = (IF TRUE THEN 7 ELSE 6)
                   /\ kinds[i] = "ep" => i > (IF TRUE THEN 7 ELSE 6)
        BY <2>3, <2>4, <2>6
      <3>3. ASSUME NEW i \in 1..Len(kinds), NEW j \in 1..Len(kinds), kinds[i] = kinds[j]
            PROVE  i = j
        <4>1. T9[i] = T9[j] /\ i \in 1..9 /\ j \in 1..9
          BY <2>6, <3>3
        <4>2. i = 1 \/ i = 2 \/ i = 3 \/ i = 4 \/ i = 5 \/ i = 6 \/ i = 7 \/ i = 8 \/ i = 9
          BY <4>1
        <4>3. CASE i = 1
          BY <2>3, <4>1, <4>3
        <4>4. CASE i = 2
          BY <2>3, <4>1, <4>4
        <4>5. CASE i = 3
          BY <2>3, <4>1, <4>5
        <4>6. CASE i = 4
          BY <2>3, <4>1, <4>6
        <4>7. CASE i = 5
          BY <2>3, <4>1, <4>7
        <4>8. CASE i = 6
          BY <2>3, <4>1, <4>8
        <4>9. CASE i = 7
          BY <2>3, <4>1, <4>9
        <4>10. CASE i = 8
          BY <2>3, <4>1, <4>10
        <4>11. CASE i = 9
          BY <2>3, <4>1, <4>11
        <4> QED BY <4>2, <4>3, <4>4, <4>5, <4>6, <4>7, <4>8, <4>9, <4>10, <4>11
      <3> QED BY <3>1, <3>2, <3>3, Zenon DEF Ordered
    <2>8. (c.inner /\ c.dp > 1) = TRUE
      BY <1>2
    <2> QED BY <2>6, <2>7, <2>8, Zenon
  <1>3. CASE ~(c.inner /\ c.dp > 1)
    <2>1. PICK n \in 6..8 : n = 8 - cut
      OBVIOUS
    <2>2. Order(c) = SubSeq(T8, 1, n)
      <3>1. Len(T8) = 8
        OBVIOUS
      <3> QED BY <1>1, <1>3, <2>1, <3>1 DEF Order
    <2>3. /\ T8[1] = "world" /\ T8[2] = "tp" /\ T8[3] = "dcp" /\ T8[4] = "pcp"
          /\ T8[5] = "pp" /\ T8[6] = "dp" /\ T8[7] = "ep" /\ T8[8] = "eplb"
      OBVIOUS
    <2> HIDE DEF T8
    <2>4. \A i \in 1..n : T8[i] \in GroupKinds
      BY <2>3 DEF GroupKinds
    <2>5. /\ SubSeq(T8, 1, n) \in Seq(GroupKinds) /\ Len(SubSeq(T8, 1, n)) = n
          /\ \A i \in 1..n : SubSeq(T8, 1, n)[i] = T8[i]
      <3>1. /\ SubSeq(T8, 1, n) \in Seq(GroupKinds)
            /\ Len(SubSeq(T8, 1, n)) = IF 1 <= n THEN n - 1 + 1 ELSE 0
            /\ \A i \in 1..n - 1 + 1 : SubSeq(T8, 1, n)[i] = T8[1 + i - 1]
        BY <2>4, SubSeqProperties
      <3> QED BY <3>1
    <2>6. PICK kinds \in Seq(GroupKinds) :
                kinds = Order(c) /\ Len(kinds) = n /\ \A i \in 1..n : kinds[i] = T8[i]
      BY <2>2, <2>5
    <2>7. Ordered(kinds, FALSE)
      <3>1. Len(kinds) \in 6..9 /\ DOMAIN kinds = 1..Len(kinds)
        BY <2>6
      <3>2. ASSUME NEW i \in 1..Len(kinds)
            PROVE  /\ kinds[i] \in GroupKinds
                   /\ kinds[i] = "world" <=> i = 1
                   /\ kinds[i] = "inner" <=> i = 2 /\ FALSE
                   /\ kinds[i] = "tp" <=> i = (IF FALSE THEN 3 ELSE 2)
                   /\ kinds[i] = "dp" <=> i = (IF FALSE THEN 7 ELSE 6)
                   /\ kinds[i] = "ep" => i > (IF FALSE THEN 7 ELSE 6)
        BY <2>3, <2>4, <2>6
      <3>3. ASSUME NEW i \in 1..Len(kinds), NEW j \in 1..Len(kinds), kinds[i] = kinds[j]
            PROVE  i = j
        <4>1. T8[i] = T8[j] /\ i \in 1..8 /\ j \in 1..8
          BY <2>6, <3>3
        <4>2. i = 1 \/ i = 2 \/ i = 3 \/ i = 4 \/ i = 5 \/ i = 6 \/ i = 7 \/ i = 8
          BY <4>1
        <4>3. CASE i = 1
          BY <2>3, <4>1, <4>3
        <4>4. CASE i = 2
          BY <2>3, <4>1, <4>4
        <4>5. CASE i = 3
          BY <2>3, <4>1, <4>5
        <4>6. CASE i = 4
          BY <2>3, <4>1, <4>6
        <4>7. CASE i = 5
          BY <2>3, <4>1, <4>7
        <4>8. CASE i = 6
          BY <2>3, <4>1, <4>8
        <4>9. CASE i = 7
          BY <2>3, <4>1, <4>9
        <4>10. CASE i = 8
          BY <2>3, <4>1, <4>10
        <4> QED BY <4>2, <4>3, <4>4, <4>5, <4>6, <4>7, <4>8, <4>9, <4>10
      <3> QED BY <3>1, <3>2, <3>3, Zenon DEF Ordered
    <2>8. (c.inner /\ c.dp > 1) = FALSE
      BY <1>3
    <2> QED BY <2>6, <2>7, <2>8, Zenon
  <1> QED BY <1>2, <1>3

\* The size of a group is a number.
LEMMA SizeIsNat ==
    ASSUME NEW c, IsLayout(c), NEW kind \in CutKinds \cup {"world", "dcp"}
    PROVE  SizeOf(kind, c) \in Nat
  <1>1. PICK dp \in Nat, pp \in Nat, pcp \in Nat, tp \in Nat :
            dp = c.dp /\ pp = c.pp /\ pcp = c.pcp /\ tp = c.tp
    BY PositiveIsNat DEF IsLayout
  <1>2. pp * pcp \in Nat /\ pp * pcp * tp \in Nat /\ dp * pcp \in Nat /\ dp * pcp * tp \in Nat
    BY <1>1, Products
  <1>3. WorldOf(c) \in Nat /\ c.dcp \in Nat
    BY LaidOut, PositiveIsNat DEF IsLayout
  <1> QED BY <1>1, <1>2, <1>3 DEF SizeOf, CutKinds

\* A function on 1..n is a sequence.
LEMMA FunctionIsSequence ==
    ASSUME NEW n \in Nat, NEW S, NEW f \in [1..n -> S]
    PROVE  f \in Seq(S) /\ Len(f) = n /\ Range(f) = {f[i] : i \in 1..n}
  <1>1. f \in Seq(S) /\ Len(f) = n
    OBVIOUS
  <1>2. DOMAIN f = 1..n
    OBVIOUS
  <1> QED BY <1>1, <1>2, Zenon DEF Range

\* Each rank is in one list, and all lists are equally long.
OneEach(pieces, m, n, ranks) ==
    /\ pieces \in Seq(Seq(ranks)) /\ Len(pieces) = m
    /\ \A j \in 1..m : Len(pieces[j]) = n /\ Range(pieces[j]) \subseteq ranks
    /\ \A r \in ranks : \E j \in 1..m : r \in Range(pieces[j])
    /\ \A j, k \in 1..m : \A r : r \in Range(pieces[j]) /\ r \in Range(pieces[k]) => j = k
    /\ \A j \in 1..m : \A r \in Range(pieces[j]) : \E i \in 1..n : r = pieces[j][i]

\* That is what it means to cut the world into lists.
LEMMA ListFacts ==
    ASSUME NEW m \in Positive, NEW n \in Nat, NEW size, NEW pieces, Cuts(pieces, m, n, size)
    PROVE  OneEach(pieces, m, n, 0..size - 1)
  <1>1. /\ pieces \in [1..m -> [1..n -> 0..size - 1]]
        /\ \A r \in 0..size - 1 : \E j \in 1..m, i \in 1..n : pieces[j][i] = r
        /\ \A j, k \in 1..m : \A i, l \in 1..n : pieces[j][i] = pieces[k][l] => j = k /\ i = l
    BY Zenon DEF Cuts
  <1>2. m \in Nat
    BY DEF Positive
  <1>3. ASSUME NEW j \in 1..m
        PROVE  /\ pieces[j] \in Seq(0..size - 1) /\ Len(pieces[j]) = n
               /\ Range(pieces[j]) = {pieces[j][i] : i \in 1..n}
    <2>1. PICK list : list = pieces[j]
      OBVIOUS
    <2>2. list \in [1..n -> 0..size - 1]
      BY <1>1, <2>1
    <2>3. PICK S : S = 0..size - 1
      OBVIOUS
    <2>4. list \in [1..n -> S]
      BY <2>2, <2>3, Zenon
    <2>5. list \in Seq(S) /\ Len(list) = n /\ Range(list) = {list[i] : i \in 1..n}
      BY <2>4, FunctionIsSequence, Zenon
    <2> QED BY <2>1, <2>3, <2>5, Zenon
  <1>4. pieces \in Seq(Seq(0..size - 1)) /\ Len(pieces) = m
    <2>1. DOMAIN pieces = 1..m /\ pieces = [j \in 1..m |-> pieces[j]]
      BY <1>1, Zenon
    <2>2. pieces \in [1..m -> Seq(0..size - 1)]
      BY <1>3, <2>1, Zenon
    <2>3. PICK S : S = Seq(0..size - 1)
      OBVIOUS
    <2>4. pieces \in [1..m -> S]
      BY <2>2, <2>3, Zenon
    <2>5. pieces \in Seq(S) /\ Len(pieces) = m
      BY <1>2, <2>4, FunctionIsSequence
    <2> QED BY <2>3, <2>5, Zenon
  <1>5. \A j \in 1..m : Len(pieces[j]) = n /\ Range(pieces[j]) \subseteq 0..size - 1
    <2> SUFFICES ASSUME NEW j \in 1..m
                 PROVE  Len(pieces[j]) = n /\ Range(pieces[j]) \subseteq 0..size - 1
      OBVIOUS
    <2>1. PICK list : list = pieces[j]
      OBVIOUS
    <2>2. list \in [1..n -> 0..size - 1]
      BY <1>1, <2>1
    <2>3. Len(list) = n /\ Range(list) = {list[i] : i \in 1..n}
      BY <1>3, <2>1, Zenon
    <2>4. Range(list) \subseteq 0..size - 1
      BY <2>2, <2>3
    <2> QED BY <2>1, <2>3, <2>4, Zenon
  <1>6. \A r \in 0..size - 1 : \E j \in 1..m : r \in Range(pieces[j])
    <2> SUFFICES ASSUME NEW r \in 0..size - 1 PROVE \E j \in 1..m : r \in Range(pieces[j])
      OBVIOUS
    <2>1. PICK j \in 1..m, i \in 1..n : pieces[j][i] = r
      BY <1>1
    <2> QED BY <1>3, <2>1
  <1>7. \A j, k \in 1..m : \A r : r \in Range(pieces[j]) /\ r \in Range(pieces[k]) => j = k
    <2> SUFFICES ASSUME NEW j \in 1..m, NEW k \in 1..m, NEW r,
                        r \in Range(pieces[j]), r \in Range(pieces[k])
                 PROVE  j = k
      OBVIOUS
    <2>1. PICK i \in 1..n : r = pieces[j][i]
      BY <1>3
    <2>2. PICK l \in 1..n : r = pieces[k][l]
      BY <1>3
    <2>3. pieces[j][i] = pieces[k][l]
      BY <2>1, <2>2, Zenon
    <2> QED BY <1>1, <2>3, Zenon
  <1>8. \A j \in 1..m : \A r \in Range(pieces[j]) : \E i \in 1..n : r = pieces[j][i]
    BY <1>3
  <1> QED BY <1>4, <1>5, <1>6, <1>7, <1>8, Zenon DEF OneEach

\* The kinds whose lists are used.
Used(c, kind) == kind \in GroupKinds /\ (kind = "inner" => c.ext = 1)

\* What is known of a worker's own list of a kind.
OwnList(c, kind, r) ==
    /\ NumLists(c, kind) \in Positive /\ Laid[c][kind] \in Seq(Seq(Ranks(c)))
    /\ RowOf(c, kind, r) \in 1..NumLists(c, kind)
    /\ r \in Range(ListOf(c, kind, r))
    /\ \A j \in 1..NumLists(c, kind) : r \in Range(Laid[c][kind][j]) => j = RowOf(c, kind, r)
    /\ Len(ListOf(c, kind, r)) = SizeOf(kind, c)
    /\ SizeOf(kind, c) \in Nat
    /\ CanSplit(kind, c) => ListOf(c, kind, r) = IntendedGroup(kind, c, r)
    /\ \A p \in Range(ListOf(c, kind, r)) :
        p \in Ranks(c) /\ RowOf(c, kind, p) = RowOf(c, kind, r)
                       /\ ListOf(c, kind, p) = ListOf(c, kind, r)
    /\ CanSplit(kind, c) =>
        \A j \in 1..NumLists(c, kind) : \A p \in Range(Laid[c][kind][j]) :
            Laid[c][kind][j] = IntendedGroup(kind, c, p)

\* A worker is in one list of every kind, and that is its intended group: of the size the
\* options say, and the same for all of its members.
LEMMA LaidFacts ==
    ASSUME NEW c \in Configs, NEW kind, Used(c, kind), NEW r \in Ranks(c)
    PROVE  OwnList(c, kind, r)
  <1>1. PICK all : all = Laid[c][kind]
    OBVIOUS
  <1>2. all = GroupRanks(kind, c)
    BY <1>1, Zenon DEF Laid, Used
  <1>3. IsLayout(c)
    BY ConfigFacts
  <1>4. kind \in CutKinds \cup {"world", "dcp"} /\ (kind = "inner" => c.ext = 1)
    BY DEF Used, GroupKinds, CutKinds
  <1>5. PICK m \in Positive :
            /\ m * SizeOf(kind, c) = WorldOf(c)
            /\ Cuts(GroupRanks(kind, c), m, SizeOf(kind, c), WorldOf(c))
            /\ CanSplit(kind, c) =>
                \A q \in 1..m : \A x \in 1..SizeOf(kind, c) :
                    GroupRanks(kind, c)[q] = IntendedGroup(kind, c, GroupRanks(kind, c)[q][x])
    BY <1>3, <1>4, GroupsCutTheWorld
  <1>6. PICK n : n = SizeOf(kind, c)
    OBVIOUS
  <1>7. PICK size : size = WorldOf(c)
    OBVIOUS
  <1>8. n \in Nat
    BY <1>3, <1>4, <1>6, SizeIsNat
  <1>9. Cuts(all, m, n, size)
    BY <1>2, <1>5, <1>6, <1>7, Zenon
  <1>10. CanSplit(kind, c) =>
            \A q \in 1..m : \A x \in 1..n : all[q] = IntendedGroup(kind, c, all[q][x])
    BY <1>2, <1>5, <1>6, Zenon
  <1>11. /\ all \in Seq(Seq(0..size - 1)) /\ Len(all) = m
         /\ \A j \in 1..m : Len(all[j]) = n /\ Range(all[j]) \subseteq 0..size - 1
         /\ \A p \in 0..size - 1 : \E j \in 1..m : p \in Range(all[j])
         /\ \A j, k \in 1..m : \A p : p \in Range(all[j]) /\ p \in Range(all[k]) => j = k
         /\ \A j \in 1..m : \A p \in Range(all[j]) : \E i \in 1..n : p = all[j][i]
    <2>1. OneEach(all, m, n, 0..size - 1)
      BY <1>8, <1>9, ListFacts, Zenon
    <2> QED BY <2>1, Zenon DEF OneEach
  <1>12. Ranks(c) = 0..size - 1
    BY <1>7, Zenon DEF Ranks
  <1>13. NumLists(c, kind) = m
    BY <1>1, <1>11, Zenon DEF NumLists
  <1>14. ASSUME NEW p \in Ranks(c)
         PROVE  /\ RowOf(c, kind, p) \in 1..m /\ p \in Range(all[RowOf(c, kind, p)])
                /\ \A j \in 1..m : p \in Range(all[j]) => j = RowOf(c, kind, p)
                /\ ListOf(c, kind, p) = all[RowOf(c, kind, p)]
    <2>1. RowOf(c, kind, p) = CHOOSE j \in 1..m : p \in Range(all[j])
      BY <1>1, <1>13, Zenon DEF RowOf
    <2>2. \E j \in 1..m : p \in Range(all[j])
      BY <1>11, <1>12
    <2>3. RowOf(c, kind, p) \in 1..m /\ p \in Range(all[RowOf(c, kind, p)])
      BY <2>1, <2>2, Zenon
    <2>4. ListOf(c, kind, p) = all[RowOf(c, kind, p)]
      BY <1>1, Zenon DEF ListOf
    <2> QED BY <1>11, <2>3, <2>4, Zenon
  <1>15. ASSUME NEW j \in 1..m, NEW p \in Range(all[j])
         PROVE  /\ p \in Ranks(c) /\ RowOf(c, kind, p) = j
                /\ CanSplit(kind, c) => all[j] = IntendedGroup(kind, c, p)
    <2>1. p \in Ranks(c)
      BY <1>11, <1>12
    <2>2. PICK i \in 1..n : p = all[j][i]
      BY <1>11
    <2>3. CanSplit(kind, c) => all[j] = IntendedGroup(kind, c, p)
      BY <1>10, <2>2, Zenon
    <2> QED BY <1>14, <2>1, <2>3, Zenon
  <1>16. PICK found \in 1..m : found = RowOf(c, kind, r) /\ r \in Range(all[found])
                                /\ ListOf(c, kind, r) = all[found]
    BY <1>14
  <1>17. Len(all[found]) = n
    BY <1>11
  <1>18. CanSplit(kind, c) => all[found] = IntendedGroup(kind, c, r)
    BY <1>15, <1>16
  <1>19. ASSUME NEW p \in Range(ListOf(c, kind, r))
         PROVE  /\ p \in Ranks(c) /\ RowOf(c, kind, p) = RowOf(c, kind, r)
                /\ ListOf(c, kind, p) = ListOf(c, kind, r)
    <2>1. p \in Range(all[found])
      BY <1>16
    <2>2. p \in Ranks(c) /\ RowOf(c, kind, p) = found
      BY <1>15, <2>1
    <2> QED BY <1>14, <1>16, <2>2, Zenon
  <1>20. /\ NumLists(c, kind) \in Positive /\ Laid[c][kind] \in Seq(Seq(Ranks(c)))
         /\ RowOf(c, kind, r) \in 1..NumLists(c, kind)
         /\ r \in Range(ListOf(c, kind, r))
    BY <1>1, <1>11, <1>12, <1>13, <1>16, Zenon
  <1>21. \A j \in 1..NumLists(c, kind) : r \in Range(Laid[c][kind][j]) => j = RowOf(c, kind, r)
    BY <1>1, <1>13, <1>14, Zenon
  <1>22. /\ Len(ListOf(c, kind, r)) = SizeOf(kind, c) /\ SizeOf(kind, c) \in Nat
         /\ CanSplit(kind, c) => ListOf(c, kind, r) = IntendedGroup(kind, c, r)
    BY <1>6, <1>8, <1>16, <1>17, <1>18, Zenon
  <1>23. CanSplit(kind, c) =>
            \A j \in 1..NumLists(c, kind) : \A p \in Range(Laid[c][kind][j]) :
                Laid[c][kind][j] = IntendedGroup(kind, c, p)
    BY <1>1, <1>13, <1>15, Zenon
  <1> QED BY <1>19, <1>20, <1>21, <1>22, <1>23, Zenon DEF OwnList

---------------------------------------------------------------------------
(* Counting the blocking calls of a worker.                                *)

\* The lists of every kind that is built are used.
LEMMA OrderIsUsed ==
    ASSUME NEW c \in Configs, NEW s \in 1..Len(Order(c))
    PROVE  Used(c, Order(c)[s])
  <1>1. Ordered(Order(c), c.inner /\ c.dp > 1)
    BY OrderIsOrdered
  <1>2. PICK kinds : kinds = Order(c)
    OBVIOUS
  <1>3. kinds[s] \in GroupKinds /\ (kinds[s] = "inner" => c.inner)
    BY <1>1, <1>2, Zenon DEF Ordered
  <1>4. c.inner => c.ext = 1
    BY ConfigFacts
  <1> QED BY <1>2, <1>3, <1>4, Zenon DEF Used

\* A start has at most eleven stages.
LEMMA StagesCounted ==
    ASSUME NEW c \in Configs
    PROVE  /\ Len(Order(c)) \in 6..9 /\ LastStage(c) \in 7..10
           /\ LastStage(c) = Len(Order(c)) + 1
  <1>1. Len(Order(c)) \in 6..9
    BY OrderIsOrdered, Zenon DEF Ordered
  <1>2. PICK n \in 6..9 : n = Len(Order(c))
    BY <1>1
  <1>3. LastStage(c) = n + 1
    BY <1>2, Zenon DEF LastStage
  <1>4. n + 1 \in 7..10
    OBVIOUS
  <1> QED BY <1>2, <1>3, <1>4, Zenon

\* Every stage has its calls.
LEMMA WeightType ==
    ASSUME NEW c \in Configs
    PROVE  /\ \A s \in 0..10 : Weight(c, s) \in Nat
           /\ \A s \in 0..LastStage(c) : Weight(c, s) >= 1
           /\ Weight(c, 0) = 1 /\ Weight(c, LastStage(c)) = 1
           /\ \A s \in 1..Len(Order(c)) : Weight(c, s) = CallsFor(c, Order(c)[s])
  <1>1. ASSUME NEW s \in 1..Len(Order(c))
        PROVE  CallsFor(c, Order(c)[s]) \in Nat /\ CallsFor(c, Order(c)[s]) >= 1
    <2>1. PICK kind : kind = Order(c)[s]
      OBVIOUS
    <2>2. Used(c, kind)
      BY <2>1, OrderIsUsed
    <2>3. 0 \in Ranks(c)
      <3>1. IsLayout(c)
        BY ConfigFacts
      <3>2. PICK n \in Positive : n = WorldOf(c)
        BY <3>1, LaidOut
      <3> QED BY <3>2 DEF Ranks, Positive
    <2>4. NumLists(c, kind) \in Nat /\ NumLists(c, kind) >= 1
      BY <2>2, <2>3, LaidFacts DEF OwnList, Positive
    <2> QED BY <2>1, <2>4 DEF CallsFor
  <1>2. PICK n \in 6..9 : n = Len(Order(c)) /\ LastStage(c) = n + 1
    BY StagesCounted, Zenon
  <1>3. ASSUME NEW s \in 1..n
        PROVE  Weight(c, s) = CallsFor(c, Order(c)[s])
    <2>1. s # 0 /\ s # n + 1
      OBVIOUS
    <2> QED BY <1>2, <2>1, Zenon DEF Weight
  <1>4. Weight(c, 0) = 1 /\ Weight(c, n + 1) = 1
    BY <1>2, Zenon DEF Weight
  <1>5. ASSUME NEW s \in 0..10, s > n + 1
        PROVE  Weight(c, s) = 0
    <2>1. s # 0 /\ s # n + 1 /\ s \notin 1..n
      BY <1>5
    <2> QED BY <1>2, <2>1, Zenon DEF Weight
  <1>6. \A s \in 1..n : Weight(c, s) \in Nat /\ Weight(c, s) >= 1
    BY <1>1, <1>2, <1>3, Zenon
  <1>7. \A s \in 0..n + 1 : Weight(c, s) \in Nat /\ Weight(c, s) >= 1
    BY <1>4, <1>6
  <1>8. \A s \in 0..10 : Weight(c, s) \in Nat
    BY <1>5, <1>7
  <1> QED BY <1>2, <1>3, <1>4, <1>7, <1>8, Zenon

\* The stages come one after the other.
Cumulative(c) ==
    /\ \A s \in 0..LastStage(c) :
        /\ CallsBefore(c, s) \in Nat
        /\ CallsBefore(c, s + 1) = CallsBefore(c, s) + Weight(c, s)
        /\ CallsBefore(c, s) + Weight(c, s) <= PerStart(c)
    /\ \A s, t \in 0..LastStage(c) : s < t => CallsBefore(c, s) + Weight(c, s) <= CallsBefore(c, t)
    /\ CallsBefore(c, 0) = 0 /\ CallsBefore(c, 1) = 1
    /\ PerStart(c) = CallsBefore(c, LastStage(c)) + 1 /\ PerStart(c) \in Positive

\* So the calls of a start are counted stage by stage.
LEMMA CallsAreCumulative ==
    ASSUME NEW c \in Configs
    PROVE  Cumulative(c)
  <1>1. PICK w \in [0..10 -> Nat] : \A i \in 0..10 : w[i] = Weight(c, i)
    <2>1. [i \in 0..10 |-> Weight(c, i)] \in [0..10 -> Nat]
      BY WeightType
    <2> QED BY <2>1
  <1>2. PICK last \in 7..10 : last = LastStage(c)
    BY StagesCounted
  <1>3. w[0] = 1 /\ w[last] = 1
    <2>1. Weight(c, 0) = 1 /\ Weight(c, last) = 1
      BY <1>2, WeightType, Zenon
    <2>2. 0 \in 0..10 /\ last \in 0..10
      OBVIOUS
    <2> QED BY <1>1, <2>1, <2>2, Zenon
  <1> DEFINE part(s, i) == IF i < s THEN w[i] ELSE 0
             before(s) == part(s, 0) + part(s, 1) + part(s, 2) + part(s, 3) + part(s, 4)
                            + part(s, 5) + part(s, 6) + part(s, 7) + part(s, 8) + part(s, 9)
                            + part(s, 10)
  <1>4. ASSUME NEW s \in 0..11
        PROVE  CallsBefore(c, s) = before(s)
    <2>1. \A i \in 0..10 : Part(c, s, i) = part(s, i)
      BY <1>1 DEF Part
    <2> QED BY <2>1 DEF CallsBefore
  <1>5. \A s \in 0..11 : \A i \in 0..10 : part(s, i) \in Nat
    BY <1>1
  <1>6. \A s \in 0..11 : before(s) \in Nat
    BY <1>5
  <1>7. ASSUME NEW s \in 0..11, NEW t \in 0..11, s <= t
        PROVE  before(s) <= before(t)
    <2>1. \A i \in 0..10 : part(s, i) <= part(t, i)
      BY <1>1, <1>7
    <2> HIDE DEF part
    <2>2. /\ part(s, 0) <= part(t, 0) /\ part(s, 1) <= part(t, 1) /\ part(s, 2) <= part(t, 2)
          /\ part(s, 3) <= part(t, 3) /\ part(s, 4) <= part(t, 4) /\ part(s, 5) <= part(t, 5)
          /\ part(s, 6) <= part(t, 6) /\ part(s, 7) <= part(t, 7) /\ part(s, 8) <= part(t, 8)
          /\ part(s, 9) <= part(t, 9) /\ part(s, 10) <= part(t, 10)
      BY <2>1
    <2>3. /\ part(s, 0) \in Nat /\ part(s, 1) \in Nat /\ part(s, 2) \in Nat /\ part(s, 3) \in Nat
          /\ part(s, 4) \in Nat /\ part(s, 5) \in Nat /\ part(s, 6) \in Nat /\ part(s, 7) \in Nat
          /\ part(s, 8) \in Nat /\ part(s, 9) \in Nat /\ part(s, 10) \in Nat
      BY <1>5
    <2>4. /\ part(t, 0) \in Nat /\ part(t, 1) \in Nat /\ part(t, 2) \in Nat /\ part(t, 3) \in Nat
          /\ part(t, 4) \in Nat /\ part(t, 5) \in Nat /\ part(t, 6) \in Nat /\ part(t, 7) \in Nat
          /\ part(t, 8) \in Nat /\ part(t, 9) \in Nat /\ part(t, 10) \in Nat
      BY <1>5
    <2>5. ASSUME NEW a0 \in Nat, NEW b0 \in Nat, a0 <= b0,
                 NEW a1 \in Nat, NEW b1 \in Nat, a1 <= b1,
                 NEW a2 \in Nat, NEW b2 \in Nat, a2 <= b2,
                 NEW a3 \in Nat, NEW b3 \in Nat, a3 <= b3,
                 NEW a4 \in Nat, NEW b4 \in Nat, a4 <= b4,
                 NEW a5 \in Nat, NEW b5 \in Nat, a5 <= b5,
                 NEW a6 \in Nat, NEW b6 \in Nat, a6 <= b6,
                 NEW a7 \in Nat, NEW b7 \in Nat, a7 <= b7,
                 NEW a8 \in Nat, NEW b8 \in Nat, a8 <= b8,
                 NEW a9 \in Nat, NEW b9 \in Nat, a9 <= b9,
                 NEW a10 \in Nat, NEW b10 \in Nat, a10 <= b10
          PROVE  a0 + a1 + a2 + a3 + a4 + a5 + a6 + a7 + a8 + a9 + a10
                    <= b0 + b1 + b2 + b3 + b4 + b5 + b6 + b7 + b8 + b9 + b10
      BY <2>5
    <2> QED BY <2>2, <2>3, <2>4, <2>5
  <1>8. ASSUME NEW s \in 0..10
        PROVE  before(s + 1) = before(s) + w[s]
    <2>1. ASSUME NEW i \in 0..10
          PROVE  part(s + 1, i) = IF i = s THEN w[s] ELSE part(s, i)
      OBVIOUS
    <2>2. part(s, s) = 0
      OBVIOUS
    <2>3. w[s] \in Nat
      BY <1>1
    <2> HIDE DEF part
    <2> QED BY <1>5, <2>1, <2>2, <2>3
  <1>9. before(0) = 0 /\ before(1) = 1
    BY <1>3
  <1> HIDE DEF before, part
  <1>10. \A s \in 0..last :
            /\ CallsBefore(c, s) \in Nat
            /\ CallsBefore(c, s + 1) = CallsBefore(c, s) + Weight(c, s)
    BY <1>1, <1>2, <1>4, <1>6, <1>8
  <1>11. \A s, t \in 0..last + 1 : s < t => CallsBefore(c, s + 1) <= CallsBefore(c, t)
    BY <1>4, <1>7
  <1>12. PerStart(c) = CallsBefore(c, last + 1)
    BY <1>2 DEF PerStart
  <1>13. PerStart(c) = CallsBefore(c, last) + 1
    BY <1>1, <1>3, <1>10, <1>12
  <1>14. PerStart(c) \in Positive
    BY <1>10, <1>13 DEF Positive
  <1>15. CallsBefore(c, 0) = 0 /\ CallsBefore(c, 1) = 1
    BY <1>4, <1>9
  <1>16. \A s \in 0..last : CallsBefore(c, s) + Weight(c, s) <= PerStart(c)
    BY <1>10, <1>11, <1>12
  <1>17. \A s, t \in 0..last : s < t => CallsBefore(c, s) + Weight(c, s) <= CallsBefore(c, t)
    BY <1>10, <1>11
  <1> QED BY <1>2, <1>10, <1>13, <1>14, <1>15, <1>16, <1>17, Zenon DEF Cumulative

\* A call's number says which call it is.
LEMMA SameNumber ==
    ASSUME NEW c \in Configs, NEW n \in Nat, NEW m \in Nat,
           NEW s \in 0..LastStage(c), NEW t \in 0..LastStage(c),
           NEW k \in 1..Weight(c, s), NEW l \in 1..Weight(c, t),
           Times(n, PerStart(c)) + CallsBefore(c, s) + k
                = Times(m, PerStart(c)) + CallsBefore(c, t) + l
    PROVE  n = m /\ s = t /\ k = l
  <1>1. Cumulative(c)
    BY CallsAreCumulative
  <1>2. PICK all \in Positive : all = PerStart(c)
    BY <1>1, Zenon DEF Cumulative
  <1>3. PICK a \in Nat, b \in Nat : a = CallsBefore(c, s) /\ b = CallsBefore(c, t)
    BY <1>1, Zenon DEF Cumulative
  <1>4. PICK v \in Nat, w \in Nat : v = Weight(c, s) /\ w = Weight(c, t)
    <2>1. s \in 0..10 /\ t \in 0..10
      <3>1. LastStage(c) \in 7..10
        BY StagesCounted, Zenon
      <3> QED BY <3>1
    <2> QED BY <2>1, WeightType
  <1>5. a + v <= all /\ b + w <= all
    BY <1>1, <1>2, <1>3, <1>4 DEF Cumulative
  <1>6. k \in 1..v /\ l \in 1..w
    BY <1>4
  <1>7. PICK x \in 0..all - 1, y \in 0..all - 1 : x = a + k - 1 /\ y = b + l - 1
    BY <1>2, <1>5, <1>6 DEF Positive
  <1>8. Digit(n, all, x) = Digit(m, all, y)
    <2>1. PICK p \in Nat, q \in Nat : p = n * all /\ q = m * all
      BY Products, PositiveIsNat
    <2>2. p + a + k = q + b + l
      BY <1>2, <1>3, <2>1, Zenon DEF Times
    <2>3. p + x = q + y
      BY <1>6, <1>7, <2>2
    <2> QED BY <2>1, <2>3, Zenon DEF Digit
  <1>9. n = m /\ x = y
    <2>1. x \in Nat /\ y \in Nat /\ x < all /\ y < all
      BY PositiveIsNat
    <2> QED BY <1>8, <2>1, DigitIsInjective
  <1>10. s < t => a + v <= b
    BY <1>1, <1>3, <1>4 DEF Cumulative
  <1>11. t < s => b + w <= a
    BY <1>1, <1>3, <1>4 DEF Cumulative
  <1>12. s = t
    BY <1>6, <1>7, <1>9, <1>10, <1>11, StagesCounted
  <1> QED BY <1>3, <1>6, <1>7, <1>9, <1>12

---------------------------------------------------------------------------
(* What a step does to the invariant's parts.                              *)

\* Products of a number of starts and the calls of a start.
LEMMA StartsCounted ==
    ASSUME NEW c \in Configs, NEW n \in Nat
    PROVE  /\ PerStart(c) \in Nat /\ Times(n, PerStart(c)) \in Nat
           /\ Times(n + 1, PerStart(c)) = Times(n, PerStart(c)) + PerStart(c)
  <1>1. PICK all \in Nat : all = PerStart(c)
    BY CallsAreCumulative, PositiveIsNat DEF Cumulative
  <1>2. n * all \in Nat /\ (n + 1) * all = n * all + all
    BY Products
  <1> QED BY <1>1, <1>2, Zenon DEF Times

\* Done, case by case.
LEMMA DoneAt ==
    ASSUME NEW c, NEW s, NEW j
    PROVE  /\ Done(c, "boot", s, j) = 0
           /\ Done(c, "joining", s, j) = 1
           /\ Done(c, "idle", s, j) = CallsBefore(c, s)
           /\ Done(c, "counting", s, j) = CallsBefore(c, s)
           /\ Done(c, "raised", s, j) = CallsBefore(c, s)
           /\ Done(c, "device", s, j) = CallsBefore(c, s) + 2 * j - 1
           /\ Done(c, "cpu", s, j) = CallsBefore(c, s) + 2 * j
           /\ Done(c, "mq", s, j) = CallsBefore(c, s) + 2 * NumLists(c, Order(c)[s]) + 1
           /\ Done(c, "all2all", s, j) = CallsBefore(c, s) + 2 * NumLists(c, Order(c)[s]) + 1
           /\ Done(c, "warming", s, j) = PerStart(c)
           /\ Done(c, "started", s, j) = PerStart(c)
  BY DEF Done

\* How many of them it has made inside the new_group call of the j-th device group.
LEMMA DoneAtDevice ==
    ASSUME NEW c, NEW s, NEW j
    PROVE  Done(c, "device", s, j) = CallsBefore(c, s) + 2 * j - 1
  BY DoneAt

\* The call that comes next in the program may be made.
LEMMA CallIsKept ==
    ASSUME NEW c \in Configs, NEW r, NEW n \in Nat, n <= c.restarts,
           NEW s \in 0..LastStage(c), NEW k \in 1..Weight(c, s), NEW m,
           m + 1 = Times(n, PerStart(c)) + CallsBefore(c, s) + k
    PROVE  Kept(c, r, m + 1, CallIn(c, r, s, k))
  <1>1. n \in 0..c.restarts
    BY ConfigFacts
  <1> QED BY <1>1, Zenon DEF Kept

\* The program of a coordinator: its new_group calls, and what may come after them.
LEMMA CallsOfKind ==
    ASSUME NEW c \in Configs, NEW r \in Ranks(c), NEW s \in 1..Len(Order(c))
    PROVE  /\ \A j \in 1..NumLists(c, Order(c)[s]) :
                /\ CallIn(c, r, s, 2 * j - 1) = NewGroup(Laid[c][Order(c)[s]][j], Backend(c))
                /\ CallIn(c, r, s, 2 * j) = NewGroup(Laid[c][Order(c)[s]][j], "gloo")
                /\ 2 * j - 1 \in 1..Weight(c, s) /\ 2 * j \in 1..Weight(c, s)
           /\ CallIn(c, r, s, 2 * NumLists(c, Order(c)[s]) + 1) =
                IF Order(c)[s] = "world"
                THEN Blocking("node_count", ListOf(c, Order(c)[s], r), "gloo")
                ELSE Blocking(IF WantsMq(Order(c)[s]) THEN "mq" ELSE "same_node",
                              ListOf(c, Order(c)[s], r), "gloo")
           /\ NumLists(c, Order(c)[s]) \in Nat /\ NumLists(c, Order(c)[s]) >= 1
           /\ Weight(c, s) = CallsFor(c, Order(c)[s])
  <1>1. PICK kind : kind = Order(c)[s]
    OBVIOUS
  <1>2. PICK num \in Nat : num = NumLists(c, kind) /\ num >= 1
    <2>1. OwnList(c, kind, r)
      BY <1>1, OrderIsUsed, LaidFacts
    <2> QED BY <2>1 DEF OwnList, Positive
  <1>3. s # 0 /\ s # LastStage(c)
    BY StagesCounted
  <1>4. Weight(c, s) = CallsFor(c, kind)
    BY <1>1, WeightType
  <1>5. PICK w \in Nat : w = Weight(c, s) /\ w >= 2 * num
    BY <1>2, <1>4 DEF CallsFor
  <1>6. ASSUME NEW j \in 1..num
        PROVE  /\ CallIn(c, r, s, 2 * j - 1) = NewGroup(Laid[c][kind][j], Backend(c))
               /\ CallIn(c, r, s, 2 * j) = NewGroup(Laid[c][kind][j], "gloo")
               /\ 2 * j - 1 \in 1..w /\ 2 * j \in 1..w
    <2>1. /\ 2 * j - 1 <= 2 * num /\ (2 * j - 1) % 2 = 1 /\ ((2 * j - 1) + 1) \div 2 = j
          /\ 2 * j <= 2 * num /\ (2 * j) % 2 # 1 /\ (2 * j) \div 2 = j
      OBVIOUS
    <2>2. 2 * j - 1 \in 1..w /\ 2 * j \in 1..w
      BY <1>5
    <2>3. PICK a, b : a = 2 * j - 1 /\ b = 2 * j
      OBVIOUS
    <2>4. /\ a <= 2 * num /\ a % 2 = 1 /\ (a + 1) \div 2 = j
          /\ b <= 2 * num /\ b % 2 # 1 /\ b \div 2 = j
      BY <2>1, <2>3, Zenon
    <2>5. CallIn(c, r, s, a) = NewGroup(Laid[c][kind][j], Backend(c))
      BY <1>1, <1>2, <1>3, <2>4, Zenon DEF CallIn
    <2>6. CallIn(c, r, s, b) = NewGroup(Laid[c][kind][j], "gloo")
      BY <1>1, <1>2, <1>3, <2>4, Zenon DEF CallIn
    <2> QED BY <2>2, <2>3, <2>5, <2>6, Zenon
  <1>7. CallIn(c, r, s, 2 * num + 1) =
            IF kind = "world" THEN Blocking("node_count", ListOf(c, kind, r), "gloo")
            ELSE Blocking(IF WantsMq(kind) THEN "mq" ELSE "same_node", ListOf(c, kind, r), "gloo")
    <2>1. ~(2 * num + 1 <= 2 * num)
      OBVIOUS
    <2> QED BY <1>1, <1>2, <1>3, <2>1, Zenon DEF CallIn
  <1> QED BY <1>1, <1>2, <1>4, <1>5, <1>6, <1>7, Zenon

\* A new name.
LEMMA NameIsTaken ==
    ASSUME NEW c \in Configs, NEW n \in Nat, NEW s \in 1..Len(Order(c)), NEW count,
           Numbered(c, "idle", n, s, count)
    PROVE  Numbered(c, "device", n, s, [count EXCEPT ![Order(c)[s]] = @ + 1])
  <1>0. PICK kinds : kinds = Order(c)
    OBVIOUS
  <1>1. PICK size \in Nat : kinds = Order(c) /\ size = Len(kinds)
    BY <1>0, StagesCounted
  <1>2. /\ \A i \in 1..size : kinds[i] \in GroupKinds
        /\ \A i, k \in 1..size : kinds[i] = kinds[k] => i = k
    <2>1. Ordered(kinds, c.inner /\ c.dp > 1)
      BY <1>1, OrderIsOrdered, Zenon
    <2> QED BY <1>1, <2>1 DEF Ordered
  <1>3. DOMAIN count = GroupKinds /\ \A i \in 1..size : count[kinds[i]] = IF i < s THEN n + 1 ELSE n
    <2>1. "idle" \notin Building
      BY DEF Building
    <2> QED BY <1>1, <2>1, Zenon DEF Numbered
  <1>4. PICK new : new = [count EXCEPT ![kinds[s]] = @ + 1]
    OBVIOUS
  <1>5. DOMAIN new = GroupKinds
    BY <1>3, <1>4
  <1>6. s \in 1..size
    BY <1>1
  <1>7. ASSUME NEW i \in 1..size
        PROVE  new[kinds[i]] = IF i < s \/ (i = s /\ "device" \in Building) THEN n + 1 ELSE n
    <2>1. "device" \in Building
      BY DEF Building
    <2>2. CASE i = s
      <3>1. count[kinds[i]] = n
        BY <1>3, <2>2
      <3>2. new[kinds[i]] = count[kinds[i]] + 1
        BY <1>2, <1>3, <1>4, <2>2
      <3> QED BY <2>1, <2>2, <3>1, <3>2
    <2>3. CASE i # s
      <3>1. kinds[i] # kinds[s]
        BY <1>2, <1>6, <2>3
      <3>2. new[kinds[i]] = count[kinds[i]]
        BY <1>2, <1>3, <1>4, <3>1
      <3> QED BY <1>3, <2>3, <3>2
    <2> QED BY <2>2, <2>3
  <1> QED BY <1>1, <1>4, <1>5, <1>7, Zenon DEF Numbered

\* A coordinator that is done has its name.
LEMMA NameIsKept ==
    ASSUME NEW c \in Configs, NEW n \in Nat, NEW s \in 1..Len(Order(c)), NEW p \in Building,
           NEW count, Numbered(c, p, n, s, count), NEW q, q \notin Building
    PROVE  Numbered(c, q, n, s + 1, count) /\ count[Order(c)[s]] = n + 1
  <1>1. PICK size \in Nat : size = Len(Order(c))
    BY StagesCounted
  <1>2. DOMAIN count = GroupKinds
        /\ \A i \in 1..size : count[Order(c)[i]] = IF i < s \/ i = s THEN n + 1 ELSE n
    BY <1>1, Zenon DEF Numbered
  <1>3. \A i \in 1..size : i < s \/ i = s <=> i < s + 1
    BY <1>1
  <1>4. s \in 1..size
    BY <1>1
  <1>5. \A i \in 1..size :
            count[Order(c)[i]] = IF i < s + 1 \/ (i = s + 1 /\ q \in Building) THEN n + 1 ELSE n
    BY <1>2, <1>3, Zenon
  <1>6. count[Order(c)[s]] = n + 1
    BY <1>2, <1>4, Zenon
  <1> QED BY <1>1, <1>2, <1>5, <1>6, Zenon DEF Numbered

\* A coordinator's place among the kinds.
LEMMA KindFacts ==
    ASSUME NEW c \in Configs, NEW s \in 1..Len(Order(c))
    PROVE  /\ Order(c)[s] \in GroupKinds
           /\ Order(c)[s] = "world" <=> s = 1
           /\ Order(c)[s] = "inner" <=> s = 2 /\ c.inner /\ c.dp > 1
           /\ \A i \in 1..Len(Order(c)) : Order(c)[i] = Order(c)[s] => i = s
           /\ \A i \in 1..Len(Order(c)) : Order(c)[i] = "inner" => c.inner /\ c.dp > 1
  <1>1. PICK kinds : kinds = Order(c)
    OBVIOUS
  <1>2. PICK inner \in BOOLEAN : inner <=> (c.inner /\ c.dp > 1)
    OBVIOUS
  <1>3. Ordered(kinds, inner)
    <2>1. (c.inner /\ c.dp > 1) \in BOOLEAN
      OBVIOUS
    <2> QED BY <1>1, <1>2, <2>1, OrderIsOrdered
  <1>4. \A i \in 1..Len(kinds) :
            /\ kinds[i] \in GroupKinds
            /\ kinds[i] = "world" <=> i = 1
            /\ kinds[i] = "inner" <=> i = 2 /\ inner
            /\ \A j \in 1..Len(kinds) : kinds[i] = kinds[j] => i = j
    BY <1>3, Zenon DEF Ordered
  <1> QED BY <1>1, <1>2, <1>4, Zenon

\* The global of a kind that is built.
SetGlobal(c, kind, g, new) ==
    [k \in GroupKinds |->
        IF k \in {kind} \cup (IF kind = "world" /\ c.inner /\ c.dp = 1 THEN {"inner"} ELSE {})
        THEN new ELSE g[k]]

\* Setting it leaves the globals of the other kinds.
LEMMA GlobalIsSet ==
    ASSUME NEW c \in Configs, NEW r, NEW n \in 0..c.restarts, NEW s \in 1..Len(Order(c)), NEW g,
           Global(c, r, n, s, g)
    PROVE  Global(c, r, n, s + 1, SetGlobal(c, Order(c)[s], g, GroupOf(c, Order(c)[s], n, r)))
  <1>1. PICK kinds : kinds = Order(c)
    OBVIOUS
  <1>2. PICK size \in Nat : size = Len(kinds)
    BY <1>1, StagesCounted
  <1>3. PICK kind : kind = kinds[s]
    OBVIOUS
  <1>4. PICK new : new = GroupOf(c, kind, n, r)
    OBVIOUS
  <1>5. PICK h : h = SetGlobal(c, kind, g, new)
    OBVIOUS
  <1>6. /\ kind \in GroupKinds /\ s \in 1..size
        /\ kind = "world" <=> s = 1
        /\ kind = "inner" <=> s = 2 /\ c.inner /\ c.dp > 1
        /\ \A i \in 1..size : kinds[i] = kind => i = s
        /\ \A i \in 1..size : kinds[i] = "inner" => c.inner /\ c.dp > 1
    BY <1>1, <1>2, <1>3, KindFacts
  <1>7. DOMAIN g = GroupKinds
    BY DEF Global
  <1>8. \A i \in 1..size : kinds[i] # "inner" =>
            g[kinds[i]] = IF i < s THEN GroupOf(c, kinds[i], n, r) ELSE None
    BY <1>1, <1>2, Zenon DEF Global
  <1>9. \A k \in GroupKinds \ {"inner"} : (\A i \in 1..size : kinds[i] # k) => g[k] = None
    BY <1>1, <1>2, Zenon DEF Global
  <1>10. DOMAIN h = GroupKinds
    BY <1>5, <1>7 DEF SetGlobal
  <1>11. \A k \in GroupKinds \ {"inner"} : h[k] = IF k = kind THEN new ELSE g[k]
    BY <1>5, <1>7 DEF SetGlobal
  <1>12. h["inner"] = IF kind = "world" /\ c.inner /\ c.dp = 1 THEN new
                      ELSE IF kind = "inner" THEN new ELSE g["inner"]
    <2>1. "inner" \in GroupKinds
      BY DEF GroupKinds
    <2> QED BY <1>5, <1>7, <2>1 DEF SetGlobal
  <1>13. ASSUME NEW i \in 1..size, kinds[i] # "inner"
         PROVE  h[kinds[i]] = IF i < s + 1 THEN GroupOf(c, kinds[i], n, r) ELSE None
    <2>1. kinds[i] \in GroupKinds
      BY <1>1, <1>2, KindFacts
    <2>2. h[kinds[i]] = IF kinds[i] = kind THEN new ELSE g[kinds[i]]
      BY <1>11, <1>13, <2>1
    <2>3. CASE i = s
      <3>1. i < s + 1
        BY <2>3
      <3> QED BY <1>3, <1>4, <2>2, <2>3, <3>1, Zenon
    <2>4. CASE i # s
      <3>1. i < s + 1 <=> i < s
        BY <1>6, <2>4
      <3>2. kinds[i] # kind
        BY <1>6, <2>4
      <3> QED BY <1>8, <1>13, <2>2, <3>1, <3>2, Zenon
    <2> QED BY <2>3, <2>4
  <1>14. ASSUME NEW k \in GroupKinds \ {"inner"}, \A i \in 1..size : kinds[i] # k
         PROVE  h[k] = None
    <2>1. k # kind
      BY <1>3, <1>6, <1>14
    <2> QED BY <1>9, <1>11, <1>14, <2>1
  <1>15. ~c.inner => h["inner"] = None
    <2> SUFFICES ASSUME ~c.inner PROVE h["inner"] = None
      OBVIOUS
    <2>1. g["inner"] = None
      BY DEF Global
    <2> QED BY <1>6, <1>12, <2>1
  <1>16. ASSUME c.inner, c.dp > 1
         PROVE  IF s + 1 > 2 THEN h["inner"] = GroupOf(c, "inner", n, r)
                ELSE h["inner"] = None
                        \/ \E k \in 0..c.restarts : h["inner"] = GroupOf(c, "inner", k, r)
    <2>1. IF s > 2 THEN g["inner"] = GroupOf(c, "inner", n, r)
          ELSE g["inner"] = None
                \/ \E k \in 0..c.restarts : g["inner"] = GroupOf(c, "inner", k, r)
      BY <1>16, Zenon DEF Global
    <2>2. c.dp # 1
      BY <1>16, ConfigFacts
    <2>3. h["inner"] = IF s = 2 THEN new ELSE g["inner"]
      BY <1>6, <1>12, <1>16, <2>2
    <2>4. CASE s = 2
      <3>1. kind = "inner" /\ s + 1 > 2
        BY <1>6, <1>16, <2>4
      <3> QED BY <1>4, <2>3, <2>4, <3>1, Zenon
    <2>5. CASE s # 2
      <3>1. s + 1 > 2 <=> s > 2
        BY <2>5
      <3> QED BY <2>1, <2>3, <2>5, <3>1, Zenon
    <2> QED BY <2>4, <2>5
  <1>17. ASSUME c.inner, ~(c.dp > 1)
         PROVE  h["inner"] = GroupOf(c, "world", n, r) /\ s + 1 > 1
    <2>1. c.dp = 1
      BY <1>17, ConfigFacts
    <2>2. s > 1 => g["inner"] = GroupOf(c, "world", n, r)
      BY <1>17, Zenon DEF Global
    <2>3. h["inner"] = IF s = 1 THEN new ELSE g["inner"]
      BY <1>6, <1>12, <1>17, <2>1
    <2>4. CASE s = 1
      BY <1>4, <1>6, <2>3, <2>4
    <2>5. CASE s # 1
      <3>1. s > 1 /\ s + 1 > 1
        BY <2>5
      <3> QED BY <2>2, <2>3, <2>5, <3>1, Zenon
    <2> QED BY <2>4, <2>5
  <1>18. c.inner =>
            LET k == IF c.dp > 1 THEN "inner" ELSE "world"
            IN  IF s + 1 > (IF c.dp > 1 THEN 2 ELSE 1) THEN h["inner"] = GroupOf(c, k, n, r)
                ELSE h["inner"] = None \/ \E m \in 0..c.restarts : h["inner"] = GroupOf(c, k, m, r)
    <2>1. CASE c.dp > 1
      BY <1>16, <2>1, Zenon
    <2>2. CASE ~(c.dp > 1)
      BY <1>17, <2>2, Zenon
    <2> QED BY <2>1, <2>2, Zenon
  <1>19. Global(c, r, n, s + 1, h)
    BY <1>1, <1>2, <1>10, <1>13, <1>14, <1>15, <1>18, Zenon DEF Global
  <1> QED BY <1>1, <1>3, <1>4, <1>5, <1>19, Zenon

\* A teardown leaves _INNER_DP_WORLD.
LEMMA GlobalIsLeft ==
    ASSUME NEW c \in Configs, NEW r, NEW n \in 0..c.restarts, NEW g,
           Global(c, r, n, LastStage(c), g)
    PROVE  Global(c, r, n + 1, 1,
                  [kind \in GroupKinds |-> IF kind \in Survivors THEN g[kind] ELSE None])
  <1>1. PICK h : h = [kind \in GroupKinds |-> IF kind \in Survivors THEN g[kind] ELSE None]
    OBVIOUS
  <1>2. /\ \A kind \in GroupKinds \ {"inner"} : h[kind] = None
        /\ h["inner"] = g["inner"] /\ DOMAIN h = GroupKinds
    BY <1>1 DEF GroupKinds, Survivors
  <1>3. PICK size \in Nat : size = Len(Order(c))
    BY StagesCounted
  <1>4. ASSUME NEW i \in 1..size, Order(c)[i] # "inner"
        PROVE  h[Order(c)[i]] = IF i < 1 THEN GroupOf(c, Order(c)[i], n + 1, r) ELSE None
    <2>1. Order(c)[i] \in GroupKinds \ {"inner"} /\ ~(i < 1)
      BY <1>3, <1>4, KindFacts
    <2> QED BY <1>2, <2>1, Zenon
  <1>5. ~c.inner => h["inner"] = None
    BY <1>2 DEF Global
  <1>6. PICK big \in BOOLEAN : big <=> c.dp > 1
    OBVIOUS
  <1>7. PICK kind : kind = IF big THEN "inner" ELSE "world"
    OBVIOUS
  <1>8. c.inner => h["inner"] = GroupOf(c, kind, n, r)
    <2>1. LastStage(c) > (IF big THEN 2 ELSE 1)
      <3>1. LastStage(c) \in 7..10
        BY StagesCounted, Zenon
      <3> QED BY <3>1
    <2>2. LastStage(c) > (IF c.dp > 1 THEN 2 ELSE 1) /\ kind = IF c.dp > 1 THEN "inner" ELSE "world"
      BY <1>6, <1>7, <2>1, Zenon
    <2> QED BY <1>2, <2>2, Zenon DEF Global
  <1>9. c.inner =>
            LET k == IF c.dp > 1 THEN "inner" ELSE "world"
            IN  IF 1 > (IF c.dp > 1 THEN 2 ELSE 1) THEN h["inner"] = GroupOf(c, k, n + 1, r)
                ELSE h["inner"] = None \/ \E m \in 0..c.restarts : h["inner"] = GroupOf(c, k, m, r)
    <2>1. ~(1 > (IF big THEN 2 ELSE 1))
      OBVIOUS
    <2>2. ~(1 > (IF c.dp > 1 THEN 2 ELSE 1)) /\ kind = IF c.dp > 1 THEN "inner" ELSE "world"
      BY <1>6, <1>7, <2>1, Zenon
    <2> QED BY <1>8, <2>2, Zenon
  <1>10. Global(c, r, n + 1, 1, h)
    BY <1>2, <1>3, <1>4, <1>5, <1>9, Zenon DEF Global
  <1> QED BY <1>1, <1>10, Zenon

---------------------------------------------------------------------------
(* The steps of a worker.                                                  *)

\* The process group of the world is the first call of a start.
LEMMA WorldIsJoined ==
    ASSUME NEW c \in Configs, NEW r \in Ranks(c), NEW n, NEW s, NEW j, NEW l, NEW o, NEW g,
           NEW count, NEW m, NEW x, Where(c, r, "boot", n, s, j, l, o, g, count, m, x)
    PROVE  Where(c, r, "joining", n, 1, j, l, o, g, count, m + 1,
                 Blocking("init_process_group", WorldList(c), Backend(c)))
  <1>1. n \in 0..c.restarts /\ j \in Nat /\ m = Times(n, PerStart(c)) + Done(c, "boot", s, j)
    BY DEF Where, Placed
  <1>2. n \in Nat /\ n <= c.restarts
    BY <1>1, ConfigFacts
  <1>3. PICK t \in Nat : t = Times(n, PerStart(c))
    BY <1>2, StartsCounted
  <1>4. m = t
    BY <1>1, <1>3, DoneAt
  <1>5. Placed(c, "joining", n, 1, j, m + 1)
    <2>1. m + 1 = Times(n, PerStart(c)) + Done(c, "joining", 1, j)
      BY <1>3, <1>4, DoneAt
    <2>2. 1 \in 1..LastStage(c)
      BY StagesCounted
    <2> QED BY <1>1, <2>1, <2>2 DEF Placed, Building
  <1>6. Kept(c, r, m + 1, CallIn(c, r, 0, 1))
    <2>1. 0 \in 0..LastStage(c)
      BY StagesCounted
    <2>2. 1 \in 1..Weight(c, 0)
      BY WeightType
    <2>3. CallsBefore(c, 0) = 0
      BY CallsAreCumulative DEF Cumulative
    <2>4. m + 1 = Times(n, PerStart(c)) + CallsBefore(c, 0) + 1
      BY <1>3, <1>4, <2>3
    <2> QED BY <1>2, <2>1, <2>2, <2>4, CallIsKept
  <1>7. CallIn(c, r, 0, 1) = Blocking("init_process_group", WorldList(c), Backend(c))
    BY DEF CallIn
  <1>8. Listed(c, r, "joining", 1, j, l, o)
    BY DEF Where, Listed, Building
  <1>9. Reached("boot", s) = 1 /\ Reached("joining", 1) = 1
    BY DEF Reached
  <1>10. Numbered(c, "joining", n, 1, count)
    <2>1. Numbered(c, "boot", n, 1, count)
      BY <1>9, Zenon DEF Where
    <2> QED BY <2>1 DEF Numbered, Building
  <1> QED BY <1>5, <1>6, <1>7, <1>8, <1>9, <1>10, Zenon DEF Where

\* From the process group on, the worker goes from stage to stage.
LEMMA WorldIsReady ==
    ASSUME NEW c \in Configs, NEW r \in Ranks(c), NEW n, NEW s, NEW j, NEW l, NEW o, NEW g,
           NEW count, NEW m, NEW x, Where(c, r, "joining", n, s, j, l, o, g, count, m, x)
    PROVE  Where(c, r, "idle", n, s, j, l, o, g, count, m, x)
  <1>1. Placed(c, "joining", n, s, j, m) /\ s = 1
    BY DEF Where, Placed
  <1>2. Done(c, "joining", s, j) = 1 /\ Done(c, "idle", s, j) = 1
    BY <1>1, DoneAt, CallsAreCumulative DEF Cumulative
  <1>3. Placed(c, "idle", n, s, j, m)
    BY <1>1, <1>2 DEF Placed, Building
  <1>4. Listed(c, r, "idle", s, j, l, o)
    BY DEF Where, Listed, Building
  <1>5. Numbered(c, "joining", n, s, count)
    BY Zenon DEF Where, Reached
  <1>6. Numbered(c, "idle", n, s, count)
    BY <1>5 DEF Numbered, Building
  <1> QED BY <1>3, <1>4, <1>6, Zenon DEF Where, Reached

\* A coordinator's first new_group: the list is the first one, the name is the next one.
LEMMA KindIsBegun ==
    ASSUME NEW c \in Configs, NEW r \in Ranks(c), NEW n, NEW s, NEW j, NEW l, NEW o, NEW g,
           NEW count, NEW m, NEW x, Where(c, r, "idle", n, s, j, l, o, g, count, m, x),
           s <= Len(Order(c))
    PROVE  /\ Order(c)[s] = "inner" \/ g[Order(c)[s]] = None
           /\ Where(c, r, "device", n, s, 1, Laid[c][Order(c)[s]], <<>>, g,
                    [count EXCEPT ![Order(c)[s]] = @ + 1], m + 1,
                    NewGroup(Laid[c][Order(c)[s]][1], Backend(c)))
  <1>1. /\ n \in 0..c.restarts /\ s \in 1..LastStage(c)
        /\ m = Times(n, PerStart(c)) + Done(c, "idle", s, j)
    BY DEF Where, Placed
  <1>2. n \in Nat /\ n <= c.restarts /\ s \in 1..Len(Order(c)) /\ s \in 0..LastStage(c)
    BY <1>1, ConfigFacts, StagesCounted
  <1>3. PICK t \in Nat, b \in Nat : t = Times(n, PerStart(c)) /\ b = CallsBefore(c, s)
    BY <1>2, StartsCounted, CallsAreCumulative DEF Cumulative
  <1>4. m = t + b
    BY <1>1, <1>3, DoneAt
  <1>5. PICK kind : kind = Order(c)[s]
    OBVIOUS
  <1>6. PICK num \in Nat : num = NumLists(c, kind) /\ num >= 1
    BY <1>2, <1>5, CallsOfKind
  <1>7. 1 \in 1..num
    BY <1>6
  <1>8. CallIn(c, r, s, 1) = NewGroup(Laid[c][kind][1], Backend(c)) /\ 1 \in 1..Weight(c, s)
    <2>1. /\ CallIn(c, r, s, 2 * 1 - 1) = NewGroup(Laid[c][kind][1], Backend(c))
          /\ 2 * 1 - 1 \in 1..Weight(c, s)
      BY <1>2, <1>5, <1>6, <1>7, CallsOfKind
    <2>2. 2 * 1 - 1 = 1
      OBVIOUS
    <2> QED BY <2>1, <2>2, Zenon
  <1>9. Kept(c, r, m + 1, CallIn(c, r, s, 1))
    <2>1. m + 1 = Times(n, PerStart(c)) + CallsBefore(c, s) + 1
      BY <1>3, <1>4
    <2> QED BY <1>2, <1>8, <2>1, CallIsKept
  <1>10. Placed(c, "device", n, s, 1, m + 1)
    <2>1. m + 1 = Times(n, PerStart(c)) + Done(c, "device", s, 1)
      BY <1>3, <1>4, DoneAtDevice
    <2>2. 1 \in 1..NumLists(c, Order(c)[s])
      BY <1>5, <1>6, <1>7, Zenon
    <2> QED BY <1>1, <1>2, <2>1, <2>2 DEF Placed, Building
  <1>11. Listed(c, r, "device", s, 1, Laid[c][kind], <<>>)
    <2>1. RowOf(c, kind, r) \in 1..num
      BY <1>2, <1>5, <1>6, OrderIsUsed, LaidFacts, Zenon DEF OwnList
    <2>2. ~(RowOf(c, kind, r) < 1)
      BY <2>1
    <2> QED BY <1>5, <2>2 DEF Listed
  <1>12. Global(c, r, n, s, g) /\ Numbered(c, "idle", n, s, count)
    BY Zenon DEF Where, Reached
  <1>13. Numbered(c, "device", n, s, [count EXCEPT ![kind] = @ + 1])
    BY <1>2, <1>5, <1>12, NameIsTaken
  <1>14. kind = "inner" \/ g[kind] = None
    <2>1. ~(s < s)
      BY <1>1
    <2> QED BY <1>2, <1>5, <1>12, <2>1, Zenon DEF Global
  <1>15. Reached("device", s) = s
    BY DEF Reached
  <1>16. Where(c, r, "device", n, s, 1, Laid[c][kind], <<>>, g, [count EXCEPT ![kind] = @ + 1],
               m + 1, NewGroup(Laid[c][kind][1], Backend(c)))
    BY <1>8, <1>9, <1>10, <1>11, <1>12, <1>13, <1>15, Zenon DEF Where
  <1> QED BY <1>5, <1>14, <1>16, Zenon

\* The gloo group of a list follows its device group.
LEMMA DeviceIsReady ==
    ASSUME NEW c \in Configs, NEW r \in Ranks(c), NEW n, NEW s, NEW j, NEW l, NEW o, NEW g,
           NEW count, NEW m, NEW x, Where(c, r, "device", n, s, j, l, o, g, count, m, x)
    PROVE  Where(c, r, "cpu", n, s, j, l, o, g, count, m + 1, NewGroup(l[j], "gloo"))
  <1>1. /\ n \in 0..c.restarts /\ s \in 1..LastStage(c) /\ j \in Nat /\ s <= Len(Order(c))
        /\ m = Times(n, PerStart(c)) + Done(c, "device", s, j)
        /\ j \in 1..NumLists(c, Order(c)[s])
    BY DEF Where, Placed, Building
  <1>2. n \in Nat /\ n <= c.restarts /\ s \in 1..Len(Order(c)) /\ s \in 0..LastStage(c)
    BY <1>1, ConfigFacts, StagesCounted
  <1>3. PICK t \in Nat, b \in Nat : t = Times(n, PerStart(c)) /\ b = CallsBefore(c, s)
    BY <1>2, StartsCounted, CallsAreCumulative DEF Cumulative
  <1>4. m = t + (b + 2 * j - 1)
    BY <1>1, <1>3, DoneAt
  <1>5. l = Laid[c][Order(c)[s]]
    BY DEF Where, Listed, Building
  <1>6. CallIn(c, r, s, 2 * j) = NewGroup(l[j], "gloo") /\ 2 * j \in 1..Weight(c, s)
    BY <1>1, <1>2, <1>5, CallsOfKind, Zenon
  <1>7. Kept(c, r, m + 1, CallIn(c, r, s, 2 * j))
    <2>1. m + 1 = Times(n, PerStart(c)) + CallsBefore(c, s) + 2 * j
      BY <1>1, <1>3, <1>4
    <2> QED BY <1>2, <1>6, <2>1, CallIsKept
  <1>8. Placed(c, "cpu", n, s, j, m + 1)
    <2>1. m + 1 = t + (b + 2 * j)
      BY <1>1, <1>4
    <2>2. Done(c, "cpu", s, j) = b + 2 * j
      BY <1>3, DoneAt
    <2>3. m + 1 = Times(n, PerStart(c)) + Done(c, "cpu", s, j)
      BY <1>3, <2>1, <2>2, Zenon
    <2> QED BY <1>1, <2>3 DEF Placed, Building
  <1>9. Listed(c, r, "cpu", s, j, l, o)
    BY DEF Where, Listed, Building
  <1>10. Numbered(c, "device", n, s, count)
    BY Zenon DEF Where, Reached
  <1>11. Numbered(c, "cpu", n, s, count)
    BY <1>10 DEF Numbered, Building
  <1>12. Reached("device", s) = s /\ Reached("cpu", s) = s
    BY DEF Reached
  <1> QED BY <1>6, <1>7, <1>8, <1>9, <1>11, <1>12, Zenon DEF Where

\* What is known of a worker that has called new_group twice for list j of kind, and for all
\* lists before; found is its own list if it was among these.
ListDone(c, r, n, s, j, l, found, g, count, m, kind) ==
    /\ found = IF RowOf(c, kind, r) < j + 1 THEN ListOf(c, kind, r) ELSE <<>>
    /\ l = Laid[c][kind] /\ s \in 1..Len(Order(c)) /\ s \in 0..LastStage(c)
    /\ n \in 0..c.restarts /\ n \in Nat /\ n <= c.restarts
    /\ j \in 1..NumLists(c, kind) /\ NumLists(c, kind) \in Nat
    /\ m = Times(n, PerStart(c)) + CallsBefore(c, s) + 2 * j
    /\ Times(n, PerStart(c)) \in Nat /\ CallsBefore(c, s) \in Nat
    /\ Global(c, r, n, s, g) /\ Numbered(c, "cpu", n, s, count)
    /\ OwnList(c, kind, r) /\ RowOf(c, kind, r) \in 1..NumLists(c, kind)

\* The loop over the lists finds a worker's own one.
LEMMA OwnIsFound ==
    ASSUME NEW c \in Configs, NEW r \in Ranks(c), NEW n, NEW s, NEW j, NEW l, NEW o, NEW g,
           NEW count, NEW m, NEW x, Where(c, r, "cpu", n, s, j, l, o, g, count, m, x)
    PROVE  ListDone(c, r, n, s, j, l, IF r \in Range(l[j]) THEN l[j] ELSE o, g, count, m,
                    Order(c)[s])
  <1>1. /\ n \in 0..c.restarts /\ s \in 1..LastStage(c) /\ j \in Nat /\ s <= Len(Order(c))
        /\ m = Times(n, PerStart(c)) + Done(c, "cpu", s, j)
        /\ j \in 1..NumLists(c, Order(c)[s])
    BY DEF Where, Placed, Building
  <1>2. n \in Nat /\ n <= c.restarts /\ s \in 1..Len(Order(c)) /\ s \in 0..LastStage(c)
    BY <1>1, ConfigFacts, StagesCounted
  <1>3. PICK t \in Nat, b \in Nat : t = Times(n, PerStart(c)) /\ b = CallsBefore(c, s)
    BY <1>2, StartsCounted, CallsAreCumulative DEF Cumulative
  <1>4. m = t + b + 2 * j
    <2>1. Done(c, "cpu", s, j) = b + 2 * j
      BY <1>3, DoneAt
    <2>2. m = t + (b + 2 * j)
      BY <1>1, <1>3, <2>1, Zenon
    <2> QED BY <1>1, <2>2
  <1>5. PICK kind : kind = Order(c)[s]
    OBVIOUS
  <1>6. OwnList(c, kind, r)
    BY <1>2, <1>5, OrderIsUsed, LaidFacts
  <1>7. PICK mine, num \in Nat : mine = RowOf(c, kind, r) /\ num = NumLists(c, kind)
    BY <1>6 DEF OwnList, Positive
  <1>8. l = Laid[c][kind] /\ o = IF mine < j THEN ListOf(c, kind, r) ELSE <<>>
    BY <1>5, <1>7 DEF Where, Listed, Building
  <1>9. mine \in 1..num /\ r \in Range(l[mine]) /\ ListOf(c, kind, r) = l[mine]
        /\ \A i \in 1..num : r \in Range(l[i]) => i = mine
    <2>1. ListOf(c, kind, r) = l[mine]
      BY <1>7, <1>8, Zenon DEF ListOf
    <2> QED BY <1>6, <1>7, <1>8, <2>1, Zenon DEF OwnList
  <1>10. j \in 1..num
    BY <1>1, <1>5, <1>7, Zenon
  <1>11. (IF r \in Range(l[j]) THEN l[j] ELSE o) = IF mine < j + 1 THEN ListOf(c, kind, r) ELSE <<>>
    <2>1. CASE mine = j
      <3>1. mine < j + 1
        BY <1>10, <2>1
      <3> QED BY <1>9, <2>1, <3>1, Zenon
    <2>2. CASE mine # j
      <3>1. mine < j + 1 <=> mine < j
        BY <1>9, <1>10, <2>2
      <3>2. r \notin Range(l[j])
        BY <1>9, <1>10, <2>2, Zenon
      <3> QED BY <1>8, <3>1, <3>2, Zenon
    <2> QED BY <2>1, <2>2
  <1>12. Global(c, r, n, s, g) /\ Numbered(c, "cpu", n, s, count)
    BY Zenon DEF Where, Reached
  <1> QED BY <1>1, <1>2, <1>3, <1>4, <1>5, <1>6, <1>7, <1>8, <1>9, <1>10, <1>11, <1>12,
            Zenon DEF ListDone

\* The next list.
LEMMA ListIsNext ==
    ASSUME NEW c \in Configs, NEW r \in Ranks(c), NEW n, NEW s, NEW j, NEW l, NEW o, NEW g,
           NEW count, NEW m, NEW x, Where(c, r, "cpu", n, s, j, l, o, g, count, m, x),
           j + 1 <= Len(l)
    PROVE  Where(c, r, "device", n, s, j + 1, l, IF r \in Range(l[j]) THEN l[j] ELSE o, g, count,
                 m + 1, NewGroup(l[j + 1], Backend(c)))
  <1>1. PICK kind : kind = Order(c)[s]
    OBVIOUS
  <1>2. PICK found : found = IF r \in Range(l[j]) THEN l[j] ELSE o
    OBVIOUS
  <1>3. /\ found = IF RowOf(c, kind, r) < j + 1 THEN ListOf(c, kind, r) ELSE <<>>
        /\ l = Laid[c][kind] /\ s \in 1..Len(Order(c)) /\ s \in 0..LastStage(c)
        /\ n \in 0..c.restarts /\ n \in Nat /\ n <= c.restarts
        /\ j \in 1..NumLists(c, kind) /\ NumLists(c, kind) \in Nat
        /\ m = Times(n, PerStart(c)) + CallsBefore(c, s) + 2 * j
        /\ Times(n, PerStart(c)) \in Nat /\ CallsBefore(c, s) \in Nat
        /\ Global(c, r, n, s, g) /\ Numbered(c, "cpu", n, s, count)
        /\ OwnList(c, kind, r) /\ RowOf(c, kind, r) \in 1..NumLists(c, kind)
    <2>1. ListDone(c, r, n, s, j, l, found, g, count, m, kind)
      BY <1>1, <1>2, OwnIsFound, Zenon
    <2> QED BY <2>1, Zenon DEF ListDone
  <1>4. Len(l) = NumLists(c, kind)
    BY <1>3, Zenon DEF NumLists
  <1>5. PICK i \in 1..NumLists(c, kind) : i = j + 1
    BY <1>3, <1>4
  <1>6. /\ CallIn(c, r, s, 2 * i - 1) = NewGroup(l[i], Backend(c))
        /\ 2 * i - 1 \in 1..Weight(c, s)
    BY <1>1, <1>3, CallsOfKind, Zenon
  <1>7. m + 1 = Times(n, PerStart(c)) + CallsBefore(c, s) + (2 * i - 1)
    BY <1>3, <1>5
  <1>8. Kept(c, r, m + 1, CallIn(c, r, s, 2 * i - 1))
    BY <1>3, <1>6, <1>7, CallIsKept
  <1>9. Placed(c, "device", n, s, i, m + 1)
    <2>1. Done(c, "device", s, i) = CallsBefore(c, s) + 2 * i - 1
      BY DoneAtDevice, Zenon
    <2>2. m + 1 = Times(n, PerStart(c)) + (CallsBefore(c, s) + 2 * i - 1)
      <3>1. PICK a \in Nat, b \in Nat : a = Times(n, PerStart(c)) /\ b = CallsBefore(c, s)
        BY <1>3, Zenon
      <3>2. i \in Nat /\ m + 1 = a + b + (2 * i - 1)
        BY <1>3, <1>7, <3>1
      <3>3. m + 1 = a + (b + 2 * i - 1)
        BY <3>2
      <3> QED BY <3>1, <3>3, Zenon
    <2>3. m + 1 = Times(n, PerStart(c)) + Done(c, "device", s, i)
      BY <2>1, <2>2, Zenon
    <2>4. s \in 1..LastStage(c) /\ s <= Len(Order(c)) /\ i \in Nat
      BY <1>3, StagesCounted
    <2> QED BY <1>1, <1>3, <2>3, <2>4 DEF Placed, Building
  <1>10. Listed(c, r, "device", s, i, l, found)
    <2>1. found # <<>> => r \in Range(found)
      BY <1>3, Zenon DEF OwnList
    <2> QED BY <1>1, <1>3, <1>5, <2>1 DEF Listed
  <1>11. Numbered(c, "device", n, s, count)
    BY <1>3 DEF Numbered, Building
  <1>12. Reached("device", s) = s
    BY DEF Reached
  <1> QED BY <1>2, <1>3, <1>5, <1>6, <1>8, <1>9, <1>10, <1>11, <1>12, Zenon DEF Where

\* A coordinator is not None.
LEMMA GroupIsSome ==
    ASSUME NEW c, NEW kind \in GroupKinds, NEW n, NEW r
    PROVE  GroupOf(c, kind, n, r) # None
  <1>1. GroupOf(c, kind, n, r).name = kind /\ None.name = "None"
    BY DEF GroupOf, None
  <1>2. kind # "None"
    BY DEF GroupKinds
  <1> QED BY <1>1, <1>2, Zenon

\* Where the manager asks for the data- and the tensor-parallel group, both are there.
LEMMA ManagersAreServed ==
    ASSUME NEW c \in Configs, NEW r, NEW n, NEW s \in 1..Len(Order(c)), NEW g,
           Global(c, r, n, s, g), Order(c)[s] = "ep"
    PROVE  g["dp"] # None /\ g["tp"] # None
  <1>1. PICK kinds : kinds = Order(c)
    OBVIOUS
  <1>2. PICK inner \in BOOLEAN : inner <=> (c.inner /\ c.dp > 1)
    OBVIOUS
  <1>3. Ordered(kinds, inner)
    <2>1. (c.inner /\ c.dp > 1) \in BOOLEAN
      OBVIOUS
    <2> QED BY <1>1, <1>2, <2>1, OrderIsOrdered
  <1>4. PICK size \in Nat : size = Len(kinds)
    BY <1>1, StagesCounted
  <1>5. \A i \in 1..size :
            /\ kinds[i] = "tp" <=> i = (IF inner THEN 3 ELSE 2)
            /\ kinds[i] = "dp" <=> i = (IF inner THEN 7 ELSE 6)
            /\ kinds[i] = "ep" => i > (IF inner THEN 7 ELSE 6)
    BY <1>3, <1>4, Zenon DEF Ordered
  <1>6. PICK a \in 1..size, b \in 1..size : kinds[a] = "dp" /\ kinds[b] = "tp" /\ a < s /\ b < s
    <2>1. s \in 1..size /\ s > IF inner THEN 7 ELSE 6
      BY <1>1, <1>4, <1>5
    <2>2. PICK a \in 1..size, b \in 1..size :
            a = (IF inner THEN 7 ELSE 6) /\ b = (IF inner THEN 3 ELSE 2)
      <3>1. CASE inner
        <4>1. 7 \in 1..size /\ 3 \in 1..size
          BY <2>1, <3>1
        <4> QED BY <3>1, <4>1, Zenon
      <3>2. CASE ~inner
        <4>1. 6 \in 1..size /\ 2 \in 1..size
          BY <2>1, <3>2
        <4> QED BY <3>2, <4>1, Zenon
      <3> QED BY <3>1, <3>2
    <2>3. a < s /\ b < s
      BY <2>1, <2>2
    <2> QED BY <1>5, <2>2, <2>3, Zenon
  <1>7. ASSUME NEW i \in 1..size, i < s, kinds[i] # "inner"
        PROVE  g[kinds[i]] = GroupOf(c, kinds[i], n, r)
    BY <1>1, <1>4, <1>7, Zenon DEF Global
  <1>8. "dp" # "inner" /\ "tp" # "inner" /\ "dp" \in GroupKinds /\ "tp" \in GroupKinds
    BY DEF GroupKinds
  <1>9. g["dp"] = GroupOf(c, "dp", n, r) /\ g["tp"] = GroupOf(c, "tp", n, r)
    <2>1. kinds[a] # "inner" /\ kinds[b] # "inner"
      BY <1>6
    <2> QED BY <1>6, <1>7, <2>1
  <1> QED BY <1>8, <1>9, GroupIsSome, Zenon

\* The message queue, or the manager's question who is on the same node, follows the lists.
LEMMA MembersMeet ==
    ASSUME NEW c \in Configs, NEW r \in Ranks(c), NEW n, NEW s, NEW j, NEW l, NEW o, NEW g,
           NEW count, NEW m, NEW x, Where(c, r, "cpu", n, s, j, l, o, g, count, m, x),
           j = Len(l), Couples(c, Order(c)[s]),
           NEW p \in {"mq", "all2all"}, p = "mq" <=> WantsMq(Order(c)[s])
    PROVE  Where(c, r, p, n, s, j, l, IF r \in Range(l[j]) THEN l[j] ELSE o, g, count, m + 1,
                 Blocking(IF p = "mq" THEN "mq" ELSE "same_node",
                          IF r \in Range(l[j]) THEN l[j] ELSE o, "gloo"))
  <1>1. PICK kind : kind = Order(c)[s]
    OBVIOUS
  <1>2. PICK found : found = IF r \in Range(l[j]) THEN l[j] ELSE o
    OBVIOUS
  <1>3. /\ found = IF RowOf(c, kind, r) < j + 1 THEN ListOf(c, kind, r) ELSE <<>>
        /\ l = Laid[c][kind] /\ s \in 1..Len(Order(c)) /\ s \in 0..LastStage(c)
        /\ n \in 0..c.restarts /\ n \in Nat /\ n <= c.restarts
        /\ j \in 1..NumLists(c, kind) /\ NumLists(c, kind) \in Nat
        /\ m = Times(n, PerStart(c)) + CallsBefore(c, s) + 2 * j
        /\ Times(n, PerStart(c)) \in Nat /\ CallsBefore(c, s) \in Nat
        /\ Global(c, r, n, s, g) /\ Numbered(c, "cpu", n, s, count)
        /\ OwnList(c, kind, r) /\ RowOf(c, kind, r) \in 1..NumLists(c, kind)
    <2>1. ListDone(c, r, n, s, j, l, found, g, count, m, kind)
      BY <1>1, <1>2, OwnIsFound, Zenon
    <2> QED BY <2>1, Zenon DEF ListDone
  <1>4. j = NumLists(c, kind)
    BY <1>3, Zenon DEF NumLists
  <1>5. found = ListOf(c, kind, r) /\ r \in Range(found)
    <2>1. RowOf(c, kind, r) < j + 1
      <3>1. RowOf(c, kind, r) \in 1..NumLists(c, kind) /\ NumLists(c, kind) \in Nat
        BY <1>3
      <3> QED BY <1>4, <3>1
    <2>2. found = ListOf(c, kind, r)
      BY <1>3, <2>1, Zenon
    <2> QED BY <1>3, <2>2, Zenon DEF OwnList
  <1>6. PICK a : a = IF p = "mq" THEN "mq" ELSE "same_node"
    OBVIOUS
  <1>7. CallIn(c, r, s, 2 * j + 1) = Blocking(a, found, "gloo")
    <2>1. kind # "world"
      BY <1>1 DEF Couples, WantsMq
    <2>2. a = IF WantsMq(kind) THEN "mq" ELSE "same_node"
      BY <1>1, <1>6, Zenon
    <2> QED BY <1>1, <1>3, <1>4, <1>5, <2>1, <2>2, CallsOfKind, Zenon
  <1>8. 2 * j + 1 \in 1..Weight(c, s)
    <2>1. Weight(c, s) = CallsFor(c, kind)
      BY <1>1, <1>3, CallsOfKind, Zenon
    <2>2. Couples(c, kind)
      BY <1>1
    <2>3. PICK i \in Nat : i = j /\ i = NumLists(c, kind)
      BY <1>3, <1>4
    <2>4. CallsFor(c, kind) = 2 * i + 1 + (IF kind = "world" /\ ~c.many THEN 1 ELSE 0)
      BY <2>2, <2>3, Zenon DEF CallsFor
    <2>5. 2 * i + 1 \in 1..2 * i + 1 + (IF kind = "world" /\ ~c.many THEN 1 ELSE 0)
      OBVIOUS
    <2> QED BY <2>1, <2>3, <2>4, <2>5, Zenon
  <1>9. m + 1 = Times(n, PerStart(c)) + CallsBefore(c, s) + (2 * j + 1)
    <2>1. PICK t \in Nat, b \in Nat, i \in Nat :
                t = Times(n, PerStart(c)) /\ b = CallsBefore(c, s) /\ i = j
      BY <1>3
    <2>2. m = t + b + 2 * i
      BY <1>3, <2>1, Zenon
    <2>3. m + 1 = t + b + (2 * i + 1)
      BY <2>2
    <2> QED BY <2>1, <2>3, Zenon
  <1>10. Kept(c, r, m + 1, CallIn(c, r, s, 2 * j + 1))
    BY <1>3, <1>8, <1>9, CallIsKept
  <1>11. Placed(c, p, n, s, j, m + 1)
    <2>1. Done(c, p, s, j) = CallsBefore(c, s) + 2 * NumLists(c, kind) + 1
      <3>1. /\ Done(c, "mq", s, j) = CallsBefore(c, s) + 2 * NumLists(c, Order(c)[s]) + 1
            /\ Done(c, "all2all", s, j) = CallsBefore(c, s) + 2 * NumLists(c, Order(c)[s]) + 1
        BY DoneAt
      <3>2. p = "mq" \/ p = "all2all"
        OBVIOUS
      <3> QED BY <1>1, <3>1, <3>2, Zenon
    <2>2. m + 1 = Times(n, PerStart(c)) + (CallsBefore(c, s) + 2 * NumLists(c, kind) + 1)
      BY <1>3, <1>4, <1>9
    <2>3. m + 1 = Times(n, PerStart(c)) + Done(c, p, s, j)
      BY <2>1, <2>2, Zenon
    <2>4. s \in 1..LastStage(c) /\ s <= Len(Order(c)) /\ j \in Nat
      BY <1>3, StagesCounted
    <2> QED BY <1>1, <1>3, <2>3, <2>4 DEF Placed, Building
  <1>12. Listed(c, r, p, s, j, l, found)
    BY <1>1, <1>3, <1>5 DEF Listed
  <1>13. Numbered(c, p, n, s, count)
    BY <1>3 DEF Numbered, Building
  <1>14. Reached(p, s) = s
    BY DEF Reached
  <1> QED BY <1>2, <1>3, <1>6, <1>7, <1>10, <1>11, <1>12, <1>13, <1>14, Zenon DEF Where

\* What KindIsBuilt wants.
Complete(c, r, p, n, s, j, found, g, count, m, x) ==
    /\ n \in 0..c.restarts /\ s \in 1..Len(Order(c)) /\ j \in Nat /\ p \in Building
    /\ found = ListOf(c, Order(c)[s], r)
    /\ m = Times(n, PerStart(c)) + CallsBefore(c, s) + 2 * NumLists(c, Order(c)[s])
            + (IF Couples(c, Order(c)[s]) THEN 1 ELSE 0)
    /\ Kept(c, r, m, x) /\ Global(c, r, n, s, g) /\ Numbered(c, p, n, s, count)

\* The coordinator is there: its global is set, and after the world's the nodes are counted.
LEMMA KindIsBuilt ==
    ASSUME NEW c \in Configs, NEW r \in Ranks(c), NEW n, NEW s, NEW j, NEW l, NEW o, NEW g,
           NEW count, NEW m, NEW x, NEW p, Complete(c, r, p, n, s, j, o, g, count, m, x),
           NEW new, new = [name |-> Order(c)[s], number |-> count[Order(c)[s]] - 1, ranks |-> o]
    PROVE  IF Order(c)[s] = "world" /\ ~c.many
           THEN Where(c, r, "counting", n, s + 1, j, l, o, SetGlobal(c, Order(c)[s], g, new), count,
                      m + 1, Blocking("node_count", o, "gloo"))
           ELSE Where(c, r, "idle", n, s + 1, j, l, o, SetGlobal(c, Order(c)[s], g, new), count, m, x)
  <1>0. /\ n \in 0..c.restarts /\ s \in 1..Len(Order(c)) /\ j \in Nat /\ p \in Building
        /\ o = ListOf(c, Order(c)[s], r)
        /\ m = Times(n, PerStart(c)) + CallsBefore(c, s) + 2 * NumLists(c, Order(c)[s])
                + (IF Couples(c, Order(c)[s]) THEN 1 ELSE 0)
        /\ Kept(c, r, m, x) /\ Global(c, r, n, s, g) /\ Numbered(c, p, n, s, count)
    BY Zenon DEF Complete
  <1>1. PICK kind : kind = Order(c)[s]
    OBVIOUS
  <1>2. n \in Nat /\ n <= c.restarts /\ s \in 0..LastStage(c) /\ s + 1 \in 1..LastStage(c)
    BY <1>0, ConfigFacts, StagesCounted
  <1>3. PICK t \in Nat, b \in Nat : t = Times(n, PerStart(c)) /\ b = CallsBefore(c, s)
    BY <1>0, <1>2, StartsCounted, CallsAreCumulative DEF Cumulative
  <1>4. PICK num \in Nat : num = NumLists(c, kind)
    BY <1>0, <1>1, CallsOfKind
  <1>5. PICK both \in 0..1 : both = IF Couples(c, kind) THEN 1 ELSE 0
    OBVIOUS
  <1>6. m = t + b + 2 * num + both
    BY <1>0, <1>1, <1>3, <1>4, <1>5, Zenon
  <1>7. PICK nodes \in 0..1 : nodes = IF kind = "world" /\ ~c.many THEN 1 ELSE 0
    OBVIOUS
  <1>8. Weight(c, s) = 2 * num + both + nodes
    <2>1. Weight(c, s) = CallsFor(c, kind)
      BY <1>0, <1>1, CallsOfKind
    <2> QED BY <1>0, <1>4, <1>5, <1>7, <2>1, Zenon DEF CallsFor
  <1>9. CallsBefore(c, s + 1) = b + (2 * num + both + nodes)
    <2>1. CallsBefore(c, s + 1) = CallsBefore(c, s) + Weight(c, s)
      BY <1>0, <1>2, CallsAreCumulative, Zenon DEF Cumulative
    <2> QED BY <1>0, <1>3, <1>8, <2>1, Zenon
  <1>10. new = GroupOf(c, kind, n, r)
    <2>1. "idle" \notin Building
      BY DEF Building
    <2>2. count[kind] = n + 1
      <3>1. count[Order(c)[s]] = n + 1
        BY <1>0, <1>2, <2>1, NameIsKept
      <3> QED BY <1>0, <1>1, <3>1, Zenon
    <2>3. (n + 1) - 1 = n
      BY <1>0, <1>2
    <2>4. count[kind] - 1 = n
      BY <1>0, <2>2, <2>3, Zenon
    <2> QED BY <1>0, <1>1, <2>4, Zenon DEF GroupOf
  <1>11. PICK h : h = SetGlobal(c, kind, g, new)
    OBVIOUS
  <1>12. Global(c, r, n, s + 1, h)
    BY <1>0, <1>1, <1>10, <1>11, GlobalIsSet, Zenon
  <1>13. ASSUME NEW q \in {"idle", "counting"}
         PROVE  /\ Numbered(c, q, n, s + 1, count) /\ Listed(c, r, q, s + 1, j, l, o)
                /\ Reached(q, s + 1) = s + 1
    <2>1. q \notin Building
      BY DEF Building
    <2>2. Numbered(c, q, n, s + 1, count)
      BY <1>0, <1>2, <2>1, NameIsKept
    <2>3. OwnList(c, kind, r)
      BY <1>0, <1>1, OrderIsUsed, LaidFacts
    <2>4. r \in Range(o)
      BY <1>0, <1>1, <2>3, Zenon DEF OwnList
    <2>5. Listed(c, r, q, s + 1, j, l, o)
      BY <1>0, <2>1, <2>4 DEF Listed
    <2>6. Reached(q, s + 1) = s + 1
      BY DEF Reached
    <2> QED BY <1>0, <2>2, <2>5, <2>6, Zenon
  <1>14. CASE kind = "world" /\ ~c.many
    <2>1. both = 0 /\ nodes = 1
      BY <1>0, <1>5, <1>7, <1>14 DEF Couples, WantsMq
    <2>2. m + 1 = t + b + (2 * num + 1) /\ 2 * num + 1 \in 1..2 * num + both + nodes
      BY <1>0, <1>6, <2>1
    <2>3. Kept(c, r, m + 1, CallIn(c, r, s, 2 * num + 1))
      <3>1. m + 1 = Times(n, PerStart(c)) + CallsBefore(c, s) + (2 * num + 1)
        BY <1>0, <1>3, <2>2, Zenon
      <3>2. 2 * num + 1 \in 1..Weight(c, s)
        BY <1>0, <1>8, <2>2, Zenon
      <3> QED BY <1>0, <1>2, <3>1, <3>2, CallIsKept
    <2>4. CallIn(c, r, s, 2 * num + 1) = Blocking("node_count", o, "gloo")
      BY <1>0, <1>1, <1>4, <1>14, CallsOfKind, Zenon
    <2>5. m + 1 = t + (b + (2 * num + both + nodes))
      BY <2>1, <2>2
    <2>6. m + 1 = Times(n, PerStart(c)) + Done(c, "counting", s + 1, j)
      <3>1. Done(c, "counting", s + 1, j) = CallsBefore(c, s + 1)
        BY <1>0, DoneAt
      <3> QED BY <1>0, <1>3, <1>9, <2>5, <3>1, Zenon
    <2>7. s + 1 = 2
      <3>1. s = 1
        BY <1>0, <1>1, <1>14, KindFacts, Zenon
      <3> QED BY <1>0, <3>1
    <2>8. Placed(c, "counting", n, s + 1, j, m + 1)
      BY <1>0, <1>2, <1>14, <2>6, <2>7 DEF Placed, Building
    <2>9. Where(c, r, "counting", n, s + 1, j, l, o, h, count, m + 1,
                Blocking("node_count", o, "gloo"))
      BY <1>0, <1>12, <1>13, <2>3, <2>4, <2>8, Zenon DEF Where
    <2> QED BY <1>0, <1>1, <1>11, <1>14, <2>9, Zenon
  <1>15. CASE ~(kind = "world" /\ ~c.many)
    <2>1. nodes = 0
      BY <1>0, <1>7, <1>15, Zenon
    <2>2. m = t + (b + (2 * num + both + nodes))
      BY <1>0, <1>6, <2>1
    <2>3. m = Times(n, PerStart(c)) + Done(c, "idle", s + 1, j)
      <3>1. Done(c, "idle", s + 1, j) = CallsBefore(c, s + 1)
        BY <1>0, DoneAt
      <3> QED BY <1>0, <1>3, <1>9, <2>2, <3>1, Zenon
    <2>4. Placed(c, "idle", n, s + 1, j, m)
      BY <1>0, <1>2, <2>3 DEF Placed, Building
    <2>5. Where(c, r, "idle", n, s + 1, j, l, o, h, count, m, x)
      BY <1>0, <1>12, <1>13, <2>4, Zenon DEF Where
    <2> QED BY <1>0, <1>1, <1>11, <1>15, <2>5, Zenon
  <1> QED BY <1>0, <1>14, <1>15, Zenon

\* Whether the loop over the lists was the last thing to do, or a queue or a manager.
Ready(c, p, s, j) ==
    \/ p = "cpu" /\ j = NumLists(c, Order(c)[s]) /\ ~Couples(c, Order(c)[s])
    \/ p \in {"mq", "all2all"}

\* Either way it is there.
LEMMA ReadyToBuild ==
    ASSUME NEW c \in Configs, NEW r \in Ranks(c), NEW p, NEW n, NEW s, NEW j, NEW l, NEW o, NEW g,
           NEW count, NEW m, NEW x, Where(c, r, p, n, s, j, l, o, g, count, m, x), Ready(c, p, s, j)
    PROVE  Complete(c, r, p, n, s, j,
                    IF p = "cpu" THEN IF r \in Range(l[j]) THEN l[j] ELSE o ELSE o, g, count, m, x)
  <1>1. PICK kind : kind = Order(c)[s]
    OBVIOUS
  <1>2. p \in Building
    BY DEF Ready, Building
  <1>3. n \in 0..c.restarts /\ s \in 1..LastStage(c) /\ s <= Len(Order(c)) /\ j \in Nat
        /\ m = Times(n, PerStart(c)) + Done(c, p, s, j)
    BY <1>2 DEF Where, Placed
  <1>4. s \in 1..Len(Order(c)) /\ s \in 0..LastStage(c) /\ n \in Nat
    BY <1>3, StagesCounted, ConfigFacts
  <1>5. PICK t \in Nat, b \in Nat : t = Times(n, PerStart(c)) /\ b = CallsBefore(c, s)
    BY <1>4, StartsCounted, CallsAreCumulative DEF Cumulative
  <1>6. PICK num \in Nat : num = NumLists(c, kind)
    BY <1>1, <1>4, CallsOfKind
  <1>7. Kept(c, r, m, x) /\ Global(c, r, n, s, g) /\ Numbered(c, p, n, s, count)
    <2>1. p # "boot"
      BY <1>2 DEF Building
    <2> QED BY <2>1, Zenon DEF Where, Reached
  <1>8. CASE p = "cpu"
    <2>1. j = num /\ ~Couples(c, kind)
      BY <1>1, <1>6, <1>8 DEF Ready
    <2>2. PICK found : found = IF r \in Range(l[j]) THEN l[j] ELSE o
      OBVIOUS
    <2>3. ListDone(c, r, n, s, j, l, found, g, count, m, kind)
      BY <1>1, <1>8, <2>2, OwnIsFound, Zenon
    <2>4. RowOf(c, kind, r) < j + 1
      <3>1. RowOf(c, kind, r) \in 1..num
        BY <1>6, <2>3, Zenon DEF ListDone
      <3> QED BY <2>1, <3>1
    <2>5. found = ListOf(c, kind, r)
      BY <2>3, <2>4, Zenon DEF ListDone
    <2>6. m = t + b + 2 * num
      BY <1>5, <2>1, <2>3, Zenon DEF ListDone
    <2>7. m = t + b + 2 * num + 0
      BY <2>6
    <2> QED BY <1>1, <1>2, <1>3, <1>4, <1>5, <1>6, <1>7, <1>8, <2>1, <2>2, <2>5, <2>7,
              Zenon DEF Complete
  <1>9. CASE p # "cpu"
    <2>1. p \in {"mq", "all2all"}
      BY <1>9 DEF Ready
    <2>2. Couples(c, kind) /\ o = ListOf(c, kind, r)
      BY <1>1, <2>1 DEF Where, Placed, Listed, Building
    <2>3. Done(c, p, s, j) = b + 2 * num + 1
      <3>1. /\ Done(c, "mq", s, j) = CallsBefore(c, s) + 2 * NumLists(c, Order(c)[s]) + 1
            /\ Done(c, "all2all", s, j) = CallsBefore(c, s) + 2 * NumLists(c, Order(c)[s]) + 1
        BY DoneAt
      <3> QED BY <1>1, <1>5, <1>6, <2>1, <3>1
    <2>4. m = t + (b + 2 * num + 1)
      BY <1>3, <1>5, <2>3, Zenon
    <2>5. m = t + b + 2 * num + 1
      BY <2>4
    <2> QED BY <1>1, <1>2, <1>3, <1>4, <1>5, <1>6, <1>7, <1>9, <2>2, <2>5, Zenon DEF Complete
  <1> QED BY <1>8, <1>9

\* The count of the nodes is a call of its own.
LEMMA NodesAreCounted ==
    ASSUME NEW c \in Configs, NEW r \in Ranks(c), NEW n, NEW s, NEW j, NEW l, NEW o, NEW g,
           NEW count, NEW m, NEW x, Where(c, r, "counting", n, s, j, l, o, g, count, m, x)
    PROVE  Where(c, r, "idle", n, s, j, l, o, g, count, m, x)
  <1>1. Placed(c, "counting", n, s, j, m) /\ Done(c, "counting", s, j) = Done(c, "idle", s, j)
    BY DoneAt DEF Where
  <1>2. Placed(c, "idle", n, s, j, m)
    BY <1>1 DEF Placed, Building
  <1>3. Listed(c, r, "idle", s, j, l, o)
    BY DEF Where, Listed, Building
  <1>4. Numbered(c, "counting", n, s, count)
    BY Zenon DEF Where, Reached
  <1>5. Numbered(c, "idle", n, s, count)
    BY <1>4 DEF Numbered, Building
  <1> QED BY <1>2, <1>3, <1>5, Zenon DEF Where, Reached

\* The warm-up is the last call of a start.
LEMMA WorkerWarmsUp ==
    ASSUME NEW c \in Configs, NEW r \in Ranks(c), NEW n, NEW s, NEW j, NEW l, NEW o, NEW g,
           NEW count, NEW m, NEW x, Where(c, r, "idle", n, s, j, l, o, g, count, m, x),
           s = LastStage(c)
    PROVE  Where(c, r, "warming", n, s, j, l, o, g, count, m + 1,
                 Blocking("all_reduce", WorldList(c), Backend(c)))
  <1>1. /\ n \in 0..c.restarts /\ j \in Nat /\ s \in 1..LastStage(c)
        /\ m = Times(n, PerStart(c)) + Done(c, "idle", s, j)
    BY DEF Where, Placed
  <1>2. n \in Nat /\ n <= c.restarts /\ s \in 0..LastStage(c)
    BY <1>1, ConfigFacts, StagesCounted
  <1>3. PICK t \in Nat, b \in Nat : t = Times(n, PerStart(c)) /\ b = CallsBefore(c, s)
    BY <1>2, StartsCounted, CallsAreCumulative DEF Cumulative
  <1>4. m = t + b
    BY <1>1, <1>3, DoneAt
  <1>5. PerStart(c) = b + 1
    BY <1>3, CallsAreCumulative, Zenon DEF Cumulative
  <1>6. Kept(c, r, m + 1, CallIn(c, r, s, 1))
    <2>1. 1 \in 1..Weight(c, s)
      BY WeightType
    <2>2. m + 1 = Times(n, PerStart(c)) + CallsBefore(c, s) + 1
      BY <1>3, <1>4
    <2> QED BY <1>2, <2>1, <2>2, CallIsKept
  <1>7. CallIn(c, r, s, 1) = Blocking("all_reduce", WorldList(c), Backend(c))
    <2>1. s # 0
      BY <1>1
    <2> QED BY <2>1, Zenon DEF CallIn
  <1>8. Placed(c, "warming", n, s, j, m + 1)
    <2>1. m + 1 = t + (b + 1)
      BY <1>3, <1>4
    <2>2. Done(c, "warming", s, j) = PerStart(c)
      BY DoneAt
    <2>3. m + 1 = Times(n, PerStart(c)) + Done(c, "warming", s, j)
      BY <1>3, <1>5, <2>1, <2>2, Zenon
    <2> QED BY <1>1, <2>3 DEF Placed, Building
  <1>9. Listed(c, r, "warming", s, j, l, o)
    BY DEF Where, Listed, Building
  <1>10. Numbered(c, "idle", n, s, count)
    BY Zenon DEF Where, Reached
  <1>11. Numbered(c, "warming", n, s, count)
    BY <1>10 DEF Numbered, Building
  <1> QED BY <1>6, <1>7, <1>8, <1>9, <1>11, Zenon DEF Where, Reached

\* The warm-up is refused by gloo, and no call is made.
LEMMA WorkerRaises ==
    ASSUME NEW c \in Configs, NEW r \in Ranks(c), NEW n, NEW s, NEW j, NEW l, NEW o, NEW g,
           NEW count, NEW m, NEW x, Where(c, r, "idle", n, s, j, l, o, g, count, m, x),
           s = LastStage(c), ~c.staged, ~c.xccl
    PROVE  Where(c, r, "raised", n, s, j, l, o, g, count, m, x)
  <1>1. Placed(c, "idle", n, s, j, m) /\ Done(c, "idle", s, j) = Done(c, "raised", s, j)
    BY DoneAt DEF Where
  <1>2. Placed(c, "raised", n, s, j, m)
    BY <1>1 DEF Placed, Building
  <1>3. Listed(c, r, "raised", s, j, l, o)
    BY DEF Where, Listed, Building
  <1>4. Numbered(c, "idle", n, s, count)
    BY Zenon DEF Where, Reached
  <1>5. Numbered(c, "raised", n, s, count)
    BY <1>4 DEF Numbered, Building
  <1> QED BY <1>2, <1>3, <1>5, Zenon DEF Where, Reached

\* Then the worker serves.
LEMMA WorkerStarts ==
    ASSUME NEW c \in Configs, NEW r \in Ranks(c), NEW n, NEW s, NEW j, NEW l, NEW o, NEW g,
           NEW count, NEW m, NEW x, Where(c, r, "warming", n, s, j, l, o, g, count, m, x)
    PROVE  Where(c, r, "started", n, s, j, l, o, g, count, m, x)
  <1>1. Placed(c, "warming", n, s, j, m) /\ Done(c, "warming", s, j) = Done(c, "started", s, j)
    BY DoneAt DEF Where
  <1>2. Placed(c, "started", n, s, j, m)
    BY <1>1 DEF Placed, Building
  <1>3. Listed(c, r, "started", s, j, l, o)
    BY DEF Where, Listed, Building
  <1>4. Numbered(c, "warming", n, s, count)
    BY Zenon DEF Where, Reached
  <1>5. Numbered(c, "started", n, s, count)
    BY <1>4 DEF Numbered, Building
  <1> QED BY <1>2, <1>3, <1>5, Zenon DEF Where, Reached

\* A teardown starts the program over, with the names counted on.
LEMMA WorkerStartsOver ==
    ASSUME NEW c \in Configs, NEW r \in Ranks(c), NEW n, NEW s, NEW j, NEW l, NEW o, NEW g,
           NEW count, NEW m, NEW x, Where(c, r, "started", n, s, j, l, o, g, count, m, x),
           n < c.restarts
    PROVE  Where(c, r, "boot", n + 1, s, j, l, o,
                 [kind \in GroupKinds |-> IF kind \in Survivors THEN g[kind] ELSE None], count, m, x)
  <1>1. /\ n \in 0..c.restarts /\ j \in Nat /\ s = LastStage(c) /\ s \in 1..LastStage(c)
        /\ m = Times(n, PerStart(c)) + Done(c, "started", s, j)
    BY DEF Where, Placed
  <1>2. n \in Nat /\ n + 1 \in 0..c.restarts
    BY <1>1, ConfigFacts
  <1>3. PICK t \in Nat, all \in Nat : t = Times(n, PerStart(c)) /\ all = PerStart(c)
    BY <1>2, StartsCounted
  <1>4. m = Times(n + 1, PerStart(c)) + Done(c, "boot", s, j)
    <2>1. Done(c, "boot", s, j) = 0 /\ Done(c, "started", s, j) = all
      BY <1>3, DoneAt
    <2>2. Times(n + 1, PerStart(c)) = t + all
      BY <1>2, <1>3, StartsCounted, Zenon
    <2>3. m = t + all
      BY <1>1, <1>3, <2>1, Zenon
    <2>4. t + all = t + all + 0
      OBVIOUS
    <2> QED BY <2>1, <2>2, <2>3, <2>4, Zenon
  <1>5. Placed(c, "boot", n + 1, s, j, m)
    BY <1>1, <1>2, <1>4 DEF Placed, Building
  <1>6. Listed(c, r, "boot", s, j, l, o)
    BY DEF Where, Listed, Building
  <1>7. Global(c, r, n, LastStage(c), g) /\ Numbered(c, "started", n, LastStage(c), count)
    BY <1>1, Zenon DEF Where, Reached
  <1>8. Global(c, r, n + 1, 1,
               [kind \in GroupKinds |-> IF kind \in Survivors THEN g[kind] ELSE None])
    BY <1>1, <1>7, GlobalIsLeft, Zenon
  <1>9. Numbered(c, "boot", n + 1, 1, count)
    <2>1. PICK size \in Nat : size = Len(Order(c)) /\ LastStage(c) = size + 1
      BY StagesCounted
    <2>2. \A i \in 1..size : i < LastStage(c) /\ ~(i < 1)
      BY <2>1
    <2>3. "boot" \notin Building
      BY DEF Building
    <2> QED BY <1>7, <2>1, <2>2, <2>3, Zenon DEF Numbered
  <1>10. Reached("boot", s) = 1
    BY DEF Reached
  <1> QED BY <1>5, <1>6, <1>8, <1>9, <1>10, Zenon DEF Where

---------------------------------------------------------------------------
(* Every action keeps the invariant.                                       *)

\* The module's names for what the configuration fixes.
LEMMA NamesAgree ==
    /\ Kinds = Order(config) /\ Worker = Ranks(config) /\ Everyone = WorldList(config)
    /\ DeviceBackend = Backend(config) /\ WarmUpBackend = Backend(config)
  <1>1. Kinds = Order(config)
    BY Zenon DEF Kinds, Order
  <1>2. Worker = Ranks(config) /\ Everyone = WorldList(config)
    BY Zenon DEF Worker, Ranks, Everyone, WorldList
  <1>3. DeviceBackend = Backend(config) /\ WarmUpBackend = Backend(config)
    BY Zenon DEF DeviceBackend, WarmUpBackend, Backend
  <1> QED BY <1>1, <1>2, <1>3

\* Only worker r has taken a step.
OnlyAt(r) ==
    /\ config' = config
    /\ DOMAIN pc' = DOMAIN pc /\ DOMAIN round' = DOMAIN round /\ DOMAIN stage' = DOMAIN stage
    /\ DOMAIN lists' = DOMAIN lists /\ DOMAIN row' = DOMAIN row /\ DOMAIN own' = DOMAIN own
    /\ DOMAIN groups' = DOMAIN groups /\ DOMAIN counter' = DOMAIN counter
    /\ DOMAIN made' = DOMAIN made /\ DOMAIN call' = DOMAIN call
    /\ \A p \in Worker \ {r} :
        /\ pc'[p] = pc[p] /\ round'[p] = round[p] /\ stage'[p] = stage[p] /\ lists'[p] = lists[p]
        /\ row'[p] = row[p] /\ own'[p] = own[p] /\ groups'[p] = groups[p]
        /\ counter'[p] = counter[p] /\ made'[p] = made[p] /\ call'[p] = call[p]

\* So it is its part of the invariant that is at stake.
LEMMA StepOfOne ==
    ASSUME IInv, NEW r \in Worker, OnlyAt(r), Here(r)'
    PROVE  IInv'
  <1>1. config' = config /\ Worker' = Worker
    BY Zenon DEF OnlyAt, Worker
  <1>2. config' \in Configs
    BY <1>1 DEF IInv
  <1>3. Domains'
    BY <1>1, Zenon DEF IInv, Domains, OnlyAt
  <1>4. ASSUME NEW p \in Worker, p # r
        PROVE  Here(p)'
    <2>1. Here(p)
      BY Zenon DEF IInv
    <2>2. /\ pc'[p] = pc[p] /\ round'[p] = round[p] /\ stage'[p] = stage[p] /\ lists'[p] = lists[p]
          /\ row'[p] = row[p] /\ own'[p] = own[p] /\ groups'[p] = groups[p]
          /\ counter'[p] = counter[p] /\ made'[p] = made[p] /\ call'[p] = call[p]
      <3>1. p \in Worker \ {r}
        BY <1>4
      <3> QED BY <3>1, Zenon DEF OnlyAt
    <2> QED BY <1>1, <2>1, <2>2, Zenon DEF Here
  <1>5. \A p \in Worker' : Here(p)'
    BY <1>1, <1>4, Zenon
  <1> QED BY <1>2, <1>3, <1>5, Zenon DEF IInv

\* What the invariant says of a worker.
LEMMA Situation ==
    ASSUME IInv, NEW r \in Worker
    PROVE  /\ config \in Configs /\ r \in Ranks(config)
           /\ r \in DOMAIN pc /\ r \in DOMAIN round /\ r \in DOMAIN stage /\ r \in DOMAIN lists
           /\ r \in DOMAIN row /\ r \in DOMAIN own /\ r \in DOMAIN groups
           /\ r \in DOMAIN counter /\ r \in DOMAIN made /\ r \in DOMAIN call
           /\ Where(config, r, pc[r], round[r], stage[r], row[r], lists[r], own[r], groups[r],
                    counter[r], made[r], call[r])
  <1>1. config \in Configs /\ Domains /\ Here(r)
    BY Zenon DEF IInv
  <1> QED BY <1>1, NamesAgree, Zenon DEF Domains, Here

\* At the start.
LEMMA InitHolds == Init => IInv
  <1> SUFFICES ASSUME Init PROVE IInv
    OBVIOUS
  <1>1. config \in Configs /\ Domains
    BY DEF Init, Domains
  <1>2. ASSUME NEW r \in Worker
        PROVE  Here(r)
    <2>1. PICK g : g = [kind \in GroupKinds |-> None]
      OBVIOUS
    <2>2. PICK count : count = [kind \in GroupKinds |-> 0]
      OBVIOUS
    <2>3. /\ pc[r] = "boot" /\ round[r] = 0 /\ stage[r] = 1 /\ lists[r] = <<>> /\ row[r] = 1
          /\ own[r] = <<>> /\ groups[r] = g /\ counter[r] = count /\ made[r] = 0 /\ call[r] = None
      BY <2>1, <2>2 DEF Init
    <2>4. 0 \in 0..config.restarts /\ 1 \in 1..LastStage(config)
      BY <1>1, ConfigFacts, StagesCounted
    <2>5. Placed(config, "boot", 0, 1, 1, 0)
      <3>1. PICK all \in Nat : all = PerStart(config)
        BY <1>1, StartsCounted
      <3>2. 0 * all = 0
        OBVIOUS
      <3>3. Times(0, PerStart(config)) = 0
        BY <3>1, <3>2, Zenon DEF Times
      <3>4. Done(config, "boot", 1, 1) = 0
        BY DoneAt
      <3>5. 0 = Times(0, PerStart(config)) + Done(config, "boot", 1, 1)
        BY <3>3, <3>4
      <3> QED BY <2>4, <3>5 DEF Placed, Building
    <2>6. Kept(config, r, 0, None)
      BY DEF Kept
    <2>7. Listed(config, r, "boot", 1, 1, <<>>, <<>>)
      BY DEF Listed, Building
    <2>8. \A i \in 1..Len(Order(config)) : Order(config)[i] \in GroupKinds /\ ~(i < 1)
      <3>1. PICK size \in Nat : size = Len(Order(config))
        BY <1>1, StagesCounted
      <3>2. \A i \in 1..size : Order(config)[i] \in GroupKinds
        BY <1>1, <3>1, KindFacts
      <3> QED BY <3>1, <3>2
    <2>9. Global(config, r, 0, 1, g)
      <3>1. DOMAIN g = GroupKinds /\ \A kind \in GroupKinds : g[kind] = None
        BY <2>1
      <3>2. "inner" \in GroupKinds
        BY DEF GroupKinds
      <3>3. ~(1 > (IF config.dp > 1 THEN 2 ELSE 1))
        OBVIOUS
      <3> QED BY <2>8, <3>1, <3>2, <3>3, Zenon DEF Global
    <2>10. Numbered(config, "boot", 0, 1, count)
      <3>1. DOMAIN count = GroupKinds /\ \A kind \in GroupKinds : count[kind] = 0
        BY <2>2
      <3>2. "boot" \notin Building
        BY DEF Building
      <3> QED BY <2>8, <3>1, <3>2, Zenon DEF Numbered
    <2>11. Reached("boot", 1) = 1
      BY DEF Reached
    <2>12. Where(config, r, "boot", 0, 1, 1, <<>>, <<>>, g, count, 0, None)
      BY <2>5, <2>6, <2>7, <2>9, <2>10, <2>11, Zenon DEF Where
    <2> QED BY <2>3, <2>12, Zenon DEF Here
  <1> QED BY <1>1, <1>2 DEF IInv

\* init_process_group.
LEMMA InitProcessGroupKeeps ==
    ASSUME IInv, NEW r \in Worker, config' = config, InitProcessGroup(r)
    PROVE  IInv'
  <1>1. OnlyAt(r)
    BY DEF OnlyAt, InitProcessGroup, Enter
  <1>2. /\ pc[r] = "boot" /\ pc'[r] = "joining" /\ stage'[r] = 1 /\ made'[r] = made[r] + 1
        /\ call'[r] = Blocking("init_process_group", Everyone, DeviceBackend)
        /\ round'[r] = round[r] /\ lists'[r] = lists[r] /\ row'[r] = row[r] /\ own'[r] = own[r]
        /\ groups'[r] = groups[r] /\ counter'[r] = counter[r]
    BY Situation DEF InitProcessGroup, Enter
  <1>3. Where(config, r, "joining", round[r], 1, row[r], lists[r], own[r], groups[r], counter[r],
              made[r] + 1, Blocking("init_process_group", WorldList(config), Backend(config)))
    BY <1>2, Situation, WorldIsJoined
  <1>4. call'[r] = Blocking("init_process_group", WorldList(config), Backend(config))
    BY <1>2, NamesAgree, Zenon
  <1>5. Here(r)'
    BY <1>2, <1>3, <1>4, Zenon DEF Here
  <1> QED BY <1>1, <1>5, StepOfOne

\* It is over.
LEMMA ProcessGroupReadyKeeps ==
    ASSUME IInv, NEW r \in Worker, config' = config, ProcessGroupReady(r)
    PROVE  IInv'
  <1>1. OnlyAt(r)
    BY DEF OnlyAt, ProcessGroupReady
  <1>2. /\ pc[r] = "joining" /\ pc'[r] = "idle"
        /\ <<round, stage, lists, row, own, groups, counter, made, call>>' =
                <<round, stage, lists, row, own, groups, counter, made, call>>
    BY Situation DEF ProcessGroupReady
  <1>3. Where(config, r, "idle", round[r], stage[r], row[r], lists[r], own[r], groups[r],
              counter[r], made[r], call[r])
    BY <1>2, Situation, WorldIsReady
  <1>4. Here(r)'
    BY <1>2, <1>3, Zenon DEF Here
  <1> QED BY <1>1, <1>4, StepOfOne

\* All lists are used, from the first to the last.
LEMMA RowsInOrder ==
    /\ \A r, all, j : RowsFrom(r, all, j) = j..Len(all)
    /\ \A j, n \in Nat : j <= n => First(j..n) = j
  <1>1. \A r, all, j : RowsFrom(r, all, j) = j..Len(all)
    BY DEF RowsFrom, MakesGroup
  <1>2. ASSUME NEW j \in Nat, NEW n \in Nat, j <= n
        PROVE  First(j..n) = j
    <2>1. j \in j..n /\ \A k \in j..n : j <= k
      BY <1>2
    <2>2. PICK i : i = First(j..n)
      OBVIOUS
    <2>3. i \in j..n /\ \A k \in j..n : i <= k
      BY <2>1, <2>2, Zenon DEF First
    <2>4. i = j
      BY <2>1, <2>3
    <2> QED BY <2>2, <2>4
  <1> QED BY <1>1, <1>2

\* The first new_group of a coordinator; its assert never ends a process.
LEMMA BeginKeeps ==
    ASSUME IInv, NEW r \in Worker, config' = config, Begin(r)
    PROVE  IInv'
  <1>1. PICK kind, s : kind = Order(config)[s] /\ s = stage[r]
    OBVIOUS
  <1>2. Kinds[stage[r]] = kind /\ Len(Kinds) = Len(Order(config))
    BY <1>1, NamesAgree, Zenon
  <1>3. pc[r] = "idle" /\ s <= Len(Order(config))
    BY <1>1, <1>2 DEF Begin
  <1>4. PICK all : all = Laid[config][kind]
    OBVIOUS
  <1>5. config \in Configs /\ r \in Ranks(config)
        /\ Where(config, r, "idle", round[r], s, row[r], lists[r], own[r], groups[r],
                 counter[r], made[r], call[r])
    BY <1>1, <1>3, Situation, Zenon
  <1>6. /\ kind = "inner" \/ groups[r][kind] = None
        /\ Where(config, r, "device", round[r], s, 1, all, <<>>, groups[r],
                 [counter[r] EXCEPT ![kind] = @ + 1], made[r] + 1, NewGroup(all[1], Backend(config)))
    <2>1. PICK c, n, j, l, o, g, count, m, x :
                /\ c \in Configs /\ c = config /\ n = round[r] /\ j = row[r] /\ l = lists[r]
                /\ o = own[r] /\ g = groups[r] /\ count = counter[r] /\ m = made[r] /\ x = call[r]
      BY <1>5, Zenon
    <2>2. /\ Where(c, r, "idle", n, s, j, l, o, g, count, m, x)
          /\ c \in Configs /\ r \in Ranks(c) /\ s <= Len(Order(c))
      BY <1>3, <1>5, <2>1, Zenon
    <2>3. /\ Order(c)[s] = "inner" \/ g[Order(c)[s]] = None
          /\ Where(c, r, "device", n, s, 1, Laid[c][Order(c)[s]], <<>>, g,
                   [count EXCEPT ![Order(c)[s]] = @ + 1], m + 1,
                   NewGroup(Laid[c][Order(c)[s]][1], Backend(c)))
      BY <2>2, KindIsBegun
    <2> QED BY <1>1, <1>4, <2>1, <2>3, Zenon
  <1>7. MayBuild(r)
    BY <1>2, <1>6, Zenon DEF MayBuild
  <1>8. First(RowsFrom(r, all, 1)) = 1
    <2>1. s \in 1..Len(Order(config))
      <3>1. s \in 1..LastStage(config)
        BY <1>5 DEF Where, Placed
      <3> QED BY <1>3, <1>5, <3>1, StagesCounted
    <2>2. NumLists(config, kind) \in Nat /\ NumLists(config, kind) >= 1
      BY <1>1, <1>5, <2>1, CallsOfKind
    <2>3. PICK num \in Nat : num = Len(all) /\ 1 <= num
      BY <1>4, <2>2 DEF NumLists
    <2>4. RowsFrom(r, all, 1) = 1..num
      BY <2>3, RowsInOrder, Zenon
    <2>5. First(1..num) = 1
      BY <2>3, RowsInOrder
    <2> QED BY <2>4, <2>5, Zenon
  <1>9. /\ counter' = [counter EXCEPT ![r][kind] = @ + 1] /\ own' = [own EXCEPT ![r] = <<>>]
        /\ lists' = [lists EXCEPT ![r] = all] /\ row' = [row EXCEPT ![r] = 1]
        /\ pc' = [pc EXCEPT ![r] = "device"] /\ Enter(r, NewGroup(all[1], DeviceBackend))
        /\ stage' = stage /\ round' = round /\ groups' = groups
    BY <1>2, <1>4, <1>7, <1>8, Zenon DEF Begin
  <1>10. OnlyAt(r)
    BY <1>9 DEF OnlyAt, Enter
  <1>11. /\ pc'[r] = "device" /\ stage'[r] = stage[r] /\ made'[r] = made[r] + 1
         /\ call'[r] = NewGroup(all[1], DeviceBackend)
         /\ round'[r] = round[r] /\ lists'[r] = all /\ row'[r] = 1 /\ own'[r] = <<>>
         /\ groups'[r] = groups[r] /\ counter'[r] = [counter[r] EXCEPT ![kind] = @ + 1]
    BY <1>9, Situation DEF Enter
  <1>12. call'[r] = NewGroup(all[1], Backend(config))
    BY <1>11, NamesAgree, Zenon
  <1>13. Here(r)'
    BY <1>1, <1>6, <1>11, <1>12, Zenon DEF Here
  <1> QED BY <1>10, <1>13, StepOfOne

\* The gloo group after the device group.
LEMMA DeviceGroupReadyKeeps ==
    ASSUME IInv, NEW r \in Worker, config' = config, DeviceGroupReady(r)
    PROVE  IInv'
  <1>1. OnlyAt(r)
    BY DEF OnlyAt, DeviceGroupReady, Enter
  <1>2. /\ pc[r] = "device" /\ pc'[r] = "cpu" /\ made'[r] = made[r] + 1
        /\ call'[r] = NewGroup(lists[r][row[r]], "gloo")
        /\ <<round, stage, lists, row, own, groups, counter>>' =
                <<round, stage, lists, row, own, groups, counter>>
    BY Situation DEF DeviceGroupReady, Enter
  <1>3. Where(config, r, "cpu", round[r], stage[r], row[r], lists[r], own[r], groups[r], counter[r],
              made[r] + 1, NewGroup(lists[r][row[r]], "gloo"))
    BY <1>2, Situation, DeviceIsReady
  <1>4. Here(r)'
    BY <1>2, <1>3, Zenon DEF Here
  <1> QED BY <1>1, <1>4, StepOfOne

\* The end of a constructor.
LEMMA BuiltKeeps ==
    ASSUME IInv, NEW r \in Worker, config' = config, Ready(config, pc[r], stage[r], row[r]),
           NEW mine, mine = IF pc[r] = "cpu" THEN OwnAfter(r) ELSE own[r],
           own'[r] = mine, DOMAIN own' = DOMAIN own, \A p \in Worker \ {r} : own'[p] = own[p],
           Built(r, mine),
           <<round, lists, row, counter>>' = <<round, lists, row, counter>>
    PROVE  IInv'
  <1>1. PICK kind, s : kind = Order(config)[s] /\ s = stage[r]
    OBVIOUS
  <1>2. Kinds[stage[r]] = kind
    BY <1>1, NamesAgree, Zenon
  <1>3. PICK new : new = [name |-> kind, number |-> counter[r][kind] - 1, ranks |-> mine]
    OBVIOUS
  <1>4. config \in Configs /\ r \in Ranks(config)
        /\ Where(config, r, pc[r], round[r], s, row[r], lists[r], own[r], groups[r],
                 counter[r], made[r], call[r])
    BY <1>1, Situation, Zenon
  <1>5. Ready(config, pc[r], s, row[r])
    BY <1>1, Zenon
  <1>6. PICK c, p, n, j, l, o, g, count, m, x :
            /\ c \in Configs /\ c = config /\ p = pc[r] /\ n = round[r] /\ j = row[r]
            /\ l = lists[r] /\ o = own[r] /\ g = groups[r] /\ count = counter[r] /\ m = made[r] /\ x = call[r]
    BY <1>4, Zenon
  <1>7. Complete(c, r, p, n, s, j, mine, g, count, m, x)
    <2>1. /\ Where(c, r, p, n, s, j, l, o, g, count, m, x) /\ Ready(c, p, s, j)
          /\ c \in Configs /\ r \in Ranks(c)
      BY <1>4, <1>5, <1>6, Zenon
    <2>2. Complete(c, r, p, n, s, j,
                   IF p = "cpu" THEN IF r \in Range(l[j]) THEN l[j] ELSE o ELSE o, g, count, m, x)
      BY <2>1, ReadyToBuild
    <2>3. mine = IF p = "cpu" THEN IF r \in Range(l[j]) THEN l[j] ELSE o ELSE o
      BY <1>6, Zenon DEF OwnAfter
    <2> QED BY <2>2, <2>3, Zenon
  <1>8. PICK h : h = SetGlobal(c, kind, g, new)
    OBVIOUS
  <1>9. IF kind = "world" /\ ~c.many
        THEN Where(c, r, "counting", n, s + 1, j, l, mine, h, count, m + 1,
                   Blocking("node_count", mine, "gloo"))
        ELSE Where(c, r, "idle", n, s + 1, j, l, mine, h, count, m, x)
    <2>1. new = [name |-> Order(c)[s], number |-> count[Order(c)[s]] - 1, ranks |-> mine]
      BY <1>1, <1>3, <1>6, Zenon
    <2>2. c \in Configs /\ r \in Ranks(c)
      BY <1>4, <1>6, Zenon
    <2>3. IF Order(c)[s] = "world" /\ ~c.many
          THEN Where(c, r, "counting", n, s + 1, j, l, mine, SetGlobal(c, Order(c)[s], g, new), count,
                     m + 1, Blocking("node_count", mine, "gloo"))
          ELSE Where(c, r, "idle", n, s + 1, j, l, mine, SetGlobal(c, Order(c)[s], g, new), count, m, x)
      BY <1>7, <2>1, <2>2, KindIsBuilt
    <2> QED BY <1>1, <1>6, <1>8, <2>3, Zenon
  <1>10. /\ groups' = [groups EXCEPT ![r] = h]
         /\ stage' = [stage EXCEPT ![r] = @ + 1]
         /\ IF kind = "world" /\ ~config.many
            THEN /\ pc' = [pc EXCEPT ![r] = "counting"]
                 /\ Enter(r, Blocking("node_count", mine, "gloo"))
            ELSE pc' = [pc EXCEPT ![r] = "idle"] /\ made' = made /\ call' = call
    <2>1. groups' = [groups EXCEPT ![r] = SetGlobal(config, kind, groups[r], new)]
      BY <1>2, <1>3, Zenon DEF Built, SetGlobal
    <2>2. groups' = [groups EXCEPT ![r] = h]
      BY <1>6, <1>8, <2>1, Zenon
    <2>3. /\ stage' = [stage EXCEPT ![r] = @ + 1]
          /\ IF kind = "world" /\ ~config.many
             THEN /\ pc' = [pc EXCEPT ![r] = "counting"]
                  /\ Enter(r, Blocking("node_count", mine, "gloo"))
             ELSE pc' = [pc EXCEPT ![r] = "idle"] /\ made' = made /\ call' = call
      BY <1>2, Zenon DEF Built
    <2> QED BY <2>2, <2>3, Zenon
  <1>11. OnlyAt(r)
    <2>1. CASE kind = "world" /\ ~config.many
      <3>1. /\ pc' = [pc EXCEPT ![r] = "counting"]
            /\ Enter(r, Blocking("node_count", mine, "gloo"))
        BY <1>10, <2>1, Zenon
      <3> QED BY <1>10, <3>1 DEF OnlyAt, Enter
    <2>2. CASE ~(kind = "world" /\ ~config.many)
      <3>1. pc' = [pc EXCEPT ![r] = "idle"] /\ made' = made /\ call' = call
        BY <1>10, <2>2, Zenon
      <3> QED BY <1>10, <3>1 DEF OnlyAt
    <2> QED BY <2>1, <2>2
  <1>12. /\ round'[r] = round[r] /\ stage'[r] = s + 1 /\ row'[r] = row[r] /\ lists'[r] = lists[r]
         /\ own'[r] = mine /\ groups'[r] = h /\ counter'[r] = counter[r]
    BY <1>1, <1>10, Situation
  <1>13. CASE kind = "world" /\ ~config.many
    <2>1. /\ pc'[r] = "counting" /\ made'[r] = made[r] + 1
          /\ call'[r] = Blocking("node_count", mine, "gloo")
      BY <1>10, <1>13, Situation DEF Enter
    <2>2. Here(r)'
      BY <1>6, <1>9, <1>12, <1>13, <2>1, Zenon DEF Here
    <2> QED BY <1>11, <2>2, StepOfOne
  <1>14. CASE ~(kind = "world" /\ ~config.many)
    <2>1. pc'[r] = "idle" /\ made'[r] = made[r] /\ call'[r] = call[r]
      BY <1>10, <1>14, Situation
    <2>2. Here(r)'
      BY <1>6, <1>9, <1>12, <1>14, <2>1, Zenon DEF Here
    <2> QED BY <1>11, <2>2, StepOfOne
  <1> QED BY <1>13, <1>14

\* The next list, the manager, the queue, or the end of the constructor.
LEMMA CpuGroupReadyKeeps ==
    ASSUME IInv, NEW r \in Worker, config' = config, CpuGroupReady(r)
    PROVE  IInv'
  <1>1. PICK kind, s : kind = Order(config)[s] /\ s = stage[r]
    OBVIOUS
  <1>2. Kinds[stage[r]] = kind
    BY <1>1, NamesAgree, Zenon
  <1>3. PICK l, j : l = lists[r] /\ j = row[r]
    OBVIOUS
  <1>4. PICK mine : mine = IF r \in Range(l[j]) THEN l[j] ELSE own[r]
    OBVIOUS
  <1>5. OwnAfter(r) = mine
    BY <1>3, <1>4, Zenon DEF OwnAfter
  <1>6. config \in Configs /\ r \in Ranks(config) /\ pc[r] = "cpu"
        /\ Where(config, r, "cpu", round[r], s, j, l, own[r], groups[r],
                 counter[r], made[r], call[r])
    <2>1. pc[r] = "cpu"
      BY DEF CpuGroupReady
    <2> QED BY <1>1, <1>3, <2>1, Situation, Zenon
  <1>7. ListDone(config, r, round[r], s, j, l, mine, groups[r], counter[r], made[r], kind)
    BY <1>1, <1>4, <1>6, OwnIsFound, Zenon
  <1>8. PICK num \in Nat : num = NumLists(config, kind) /\ num = Len(l) /\ j \in 1..num
    BY <1>7, Zenon DEF ListDone, NumLists
  <1>9. RowsFrom(r, l, j + 1) = j + 1..num
    BY <1>8, RowsInOrder, Zenon
  <1>10. own' = [own EXCEPT ![r] = mine] /\ <<round, lists, counter>>' = <<round, lists, counter>>
    BY <1>5 DEF CpuGroupReady
  <1>11. CASE /\ j + 1..num # {}
              /\ row' = [row EXCEPT ![r] = First(j + 1..num)]
              /\ pc' = [pc EXCEPT ![r] = "device"]
              /\ Enter(r, NewGroup(l[First(j + 1..num)], DeviceBackend))
              /\ <<stage, groups>>' = <<stage, groups>>
    <2>1. j + 1 <= num /\ j + 1 \in Nat
      BY <1>8, <1>11
    <2>2. First(j + 1..num) = j + 1
      BY <2>1, RowsInOrder
    <2>3. Where(config, r, "device", round[r], s, j + 1, l, mine, groups[r], counter[r],
                made[r] + 1, NewGroup(l[j + 1], Backend(config)))
      <3>1. j + 1 <= Len(l)
        BY <1>8, <2>1, Zenon
      <3> QED BY <1>4, <1>6, <3>1, ListIsNext, Zenon
    <2>4. OnlyAt(r)
      BY <1>10, <1>11 DEF OnlyAt, Enter
    <2>5. /\ pc'[r] = "device" /\ row'[r] = j + 1 /\ made'[r] = made[r] + 1
          /\ call'[r] = NewGroup(l[j + 1], DeviceBackend)
          /\ own'[r] = mine /\ round'[r] = round[r] /\ lists'[r] = l /\ counter'[r] = counter[r]
          /\ stage'[r] = s /\ groups'[r] = groups[r]
      BY <1>1, <1>3, <1>10, <1>11, <2>2, Situation DEF Enter
    <2>6. call'[r] = NewGroup(l[j + 1], Backend(config))
      BY <2>5, NamesAgree, Zenon
    <2>7. Here(r)'
      BY <2>3, <2>5, <2>6, Zenon DEF Here
    <2> QED BY <2>4, <2>7, StepOfOne
  <1>12. ASSUME j + 1..num = {}
         PROVE  j = num /\ mine = ListOf(config, kind, r) /\ Len(mine) = SizeOf(kind, config)
                /\ SizeOf(kind, config) \in Nat
    <2>1. j = num
      <3>1. ASSUME j # num PROVE FALSE
        <4>1. j + 1 \in j + 1..num
          BY <1>8, <3>1
        <4> QED BY <1>12, <4>1
      <3> QED BY <3>1
    <2>2. RowOf(config, kind, r) < j + 1
      <3>1. RowOf(config, kind, r) \in 1..num
        BY <1>7, <1>8, Zenon DEF ListDone
      <3> QED BY <2>1, <3>1
    <2>3. mine = ListOf(config, kind, r)
      BY <1>7, <2>2, Zenon DEF ListDone
    <2> QED BY <1>7, <2>1, <2>3, Zenon DEF ListDone, OwnList
  <1>13. ASSUME NEW p \in {"mq", "all2all"}, p = "mq" <=> WantsMq(kind), Couples(config, kind),
                j + 1..num = {},
                pc' = [pc EXCEPT ![r] = p],
                Enter(r, Blocking(IF p = "mq" THEN "mq" ELSE "same_node", mine, "gloo")),
                <<stage, row, groups>>' = <<stage, row, groups>>
         PROVE  IInv'
    <2>1. Where(config, r, p, round[r], s, j, l, mine, groups[r], counter[r], made[r] + 1,
                Blocking(IF p = "mq" THEN "mq" ELSE "same_node", mine, "gloo"))
      <3>1. j = Len(l)
        BY <1>8, <1>12, <1>13
      <3>2. PICK c, n, o, g, count, m, x :
                /\ c \in Configs /\ c = config /\ n = round[r] /\ o = own[r]
                /\ g = groups[r] /\ count = counter[r] /\ m = made[r] /\ x = call[r]
        BY <1>6, Zenon
      <3>3. /\ Where(c, r, "cpu", n, s, j, l, o, g, count, m, x)
            /\ c \in Configs /\ r \in Ranks(c)
            /\ Couples(c, Order(c)[s]) /\ (p = "mq" <=> WantsMq(Order(c)[s]))
        BY <1>1, <1>6, <1>13, <3>2, Zenon
      <3>4. Where(c, r, p, n, s, j, l, IF r \in Range(l[j]) THEN l[j] ELSE o, g, count, m + 1,
                  Blocking(IF p = "mq" THEN "mq" ELSE "same_node",
                           IF r \in Range(l[j]) THEN l[j] ELSE o, "gloo"))
        BY <3>1, <3>3, MembersMeet
      <3> QED BY <1>4, <3>2, <3>4, Zenon
    <2>2. OnlyAt(r)
      BY <1>10, <1>13 DEF OnlyAt, Enter
    <2>3. /\ pc'[r] = p /\ made'[r] = made[r] + 1
          /\ call'[r] = Blocking(IF p = "mq" THEN "mq" ELSE "same_node", mine, "gloo")
          /\ own'[r] = mine /\ round'[r] = round[r] /\ lists'[r] = l /\ counter'[r] = counter[r]
          /\ stage'[r] = s /\ groups'[r] = groups[r] /\ row'[r] = j
      BY <1>1, <1>3, <1>10, <1>13, Situation DEF Enter
    <2>4. Here(r)'
      BY <2>1, <2>3, Zenon DEF Here
    <2> QED BY <2>2, <2>4, StepOfOne
  <1>14. CASE /\ j + 1..num = {} /\ UsesAll2All(kind) /\ Len(mine) > 1
              /\ MakeManager(r, mine)
              /\ <<stage, row, groups>>' = <<stage, row, groups>>
    <2>1. kind = "ep" /\ Couples(config, kind) /\ ~WantsMq(kind)
      BY <1>12, <1>14 DEF UsesAll2All, Couples, WantsMq
    <2>2. groups[r]["dp"] # None /\ groups[r]["tp"] # None
      BY <1>1, <1>6, <1>7, <2>1, ManagersAreServed DEF ListDone
    <2>3. pc' = [pc EXCEPT ![r] = "all2all"] /\ Enter(r, Blocking("same_node", mine, "gloo"))
      BY <1>14, <2>2, Zenon DEF MakeManager
    <2>4. PICK p \in {"mq", "all2all"} : p = "all2all"
      OBVIOUS
    <2>5. p # "mq"
      BY <2>4
    <2>6. Blocking(IF p = "mq" THEN "mq" ELSE "same_node", mine, "gloo") =
                Blocking("same_node", mine, "gloo")
      BY <2>5, Zenon
    <2>7. pc' = [pc EXCEPT ![r] = p]
          /\ Enter(r, Blocking(IF p = "mq" THEN "mq" ELSE "same_node", mine, "gloo"))
      BY <2>3, <2>4, <2>6, Zenon
    <2> QED BY <1>13, <1>14, <2>1, <2>5, <2>7, Zenon
  <1>15. CASE /\ j + 1..num = {} /\ WantsMq(kind) /\ Len(mine) > 1
              /\ pc' = [pc EXCEPT ![r] = "mq"]
              /\ Enter(r, Blocking("mq", mine, "gloo"))
              /\ <<stage, row, groups>>' = <<stage, row, groups>>
    <2>1. Couples(config, kind)
      BY <1>12, <1>15 DEF Couples
    <2>2. PICK p \in {"mq", "all2all"} : p = "mq"
      OBVIOUS
    <2>3. Blocking(IF p = "mq" THEN "mq" ELSE "same_node", mine, "gloo") =
                Blocking("mq", mine, "gloo")
      BY <2>2, Zenon
    <2>4. pc' = [pc EXCEPT ![r] = p]
          /\ Enter(r, Blocking(IF p = "mq" THEN "mq" ELSE "same_node", mine, "gloo"))
      BY <1>15, <2>2, <2>3, Zenon
    <2> QED BY <1>13, <1>15, <2>1, <2>2, <2>4, Zenon
  <1>16. CASE /\ j + 1..num = {} /\ ((WantsMq(kind) \/ UsesAll2All(kind)) => Len(mine) = 1)
              /\ Built(r, mine)
              /\ row' = row
    <2>1. ~Couples(config, kind)
      <3>1. PICK size \in Nat : size = SizeOf(kind, config) /\ size = Len(mine)
        BY <1>12, <1>16
      <3>2. (WantsMq(kind) \/ (kind = "ep" /\ config.dp > 1)) => ~(size > 1)
        BY <1>16, <3>1 DEF UsesAll2All
      <3> QED BY <3>1, <3>2, Zenon DEF Couples
    <2>2. Ready(config, pc[r], stage[r], row[r])
      BY <1>1, <1>3, <1>6, <1>8, <1>12, <1>16, <2>1, Zenon DEF Ready
    <2>3. mine = IF pc[r] = "cpu" THEN OwnAfter(r) ELSE own[r]
      BY <1>5, <1>6, Zenon
    <2>4. <<round, lists, row, counter>>' = <<round, lists, row, counter>>
      BY <1>10, <1>16
    <2>5. own'[r] = mine /\ DOMAIN own' = DOMAIN own /\ \A p \in Worker \ {r} : own'[p] = own[p]
      BY <1>10, Situation
    <2> QED BY <1>16, <2>2, <2>3, <2>4, <2>5, BuiltKeeps, Zenon
  <1> QED BY <1>2, <1>3, <1>5, <1>9, <1>11, <1>14, <1>15, <1>16, Zenon DEF CpuGroupReady

\* The manager is there.
LEMMA ManagerReadyKeeps ==
    ASSUME IInv, NEW r \in Worker, config' = config, ManagerReady(r)
    PROVE  IInv'
  <1>1. pc[r] = "all2all" /\ Built(r, own[r])
        /\ <<round, lists, row, counter>>' = <<round, lists, row, counter>>
    BY DEF ManagerReady
  <1>2. PICK mine : mine = own[r]
    OBVIOUS
  <1>3. own'[r] = mine /\ DOMAIN own' = DOMAIN own /\ \A p \in Worker \ {r} : own'[p] = own[p]
    BY <1>2 DEF ManagerReady
  <1>4. Ready(config, pc[r], stage[r], row[r])
    BY <1>1 DEF Ready
  <1>5. mine = IF pc[r] = "cpu" THEN OwnAfter(r) ELSE own[r]
    BY <1>1, <1>2
  <1> QED BY <1>1, <1>2, <1>3, <1>4, <1>5, BuiltKeeps, Zenon

\* The queue is there.
LEMMA MqReadyKeeps ==
    ASSUME IInv, NEW r \in Worker, config' = config, MqReady(r)
    PROVE  IInv'
  <1>1. pc[r] = "mq" /\ Built(r, own[r])
        /\ <<round, lists, row, counter>>' = <<round, lists, row, counter>>
    BY DEF MqReady
  <1>2. PICK mine : mine = own[r]
    OBVIOUS
  <1>3. own'[r] = mine /\ DOMAIN own' = DOMAIN own /\ \A p \in Worker \ {r} : own'[p] = own[p]
    BY <1>2 DEF MqReady
  <1>4. Ready(config, pc[r], stage[r], row[r])
    BY <1>1 DEF Ready
  <1>5. mine = IF pc[r] = "cpu" THEN OwnAfter(r) ELSE own[r]
    BY <1>1, <1>2
  <1> QED BY <1>1, <1>2, <1>3, <1>4, <1>5, BuiltKeeps, Zenon

\* The nodes are counted.
LEMMA NodesCountedKeeps ==
    ASSUME IInv, NEW r \in Worker, config' = config, NodesCounted(r)
    PROVE  IInv'
  <1>1. OnlyAt(r)
    BY DEF OnlyAt, NodesCounted
  <1>2. /\ pc[r] = "counting" /\ pc'[r] = "idle"
        /\ <<round, stage, lists, row, own, groups, counter, made, call>>' =
                <<round, stage, lists, row, own, groups, counter, made, call>>
    BY Situation DEF NodesCounted
  <1>3. Where(config, r, "idle", round[r], stage[r], row[r], lists[r], own[r], groups[r],
              counter[r], made[r], call[r])
    BY <1>2, Situation, NodesAreCounted
  <1>4. Here(r)'
    BY <1>2, <1>3, Zenon DEF Here
  <1> QED BY <1>1, <1>4, StepOfOne

\* The warm-up.
LEMMA WarmUpKeeps ==
    ASSUME IInv, NEW r \in Worker, config' = config, WarmUp(r)
    PROVE  IInv'
  <1>1. OnlyAt(r)
    <2>1. <<round, stage, lists, row, own, groups, counter>>' =
                <<round, stage, lists, row, own, groups, counter>>
      BY DEF WarmUp
    <2>2. CASE config.staged \/ config.xccl
      <3>1. /\ pc' = [pc EXCEPT ![r] = "warming"] /\ made' = [made EXCEPT ![r] = @ + 1]
            /\ call' = [call EXCEPT ![r] = Blocking("all_reduce", Everyone, WarmUpBackend)]
        BY <2>2, Zenon DEF WarmUp, Enter
      <3> QED BY <2>1, <3>1 DEF OnlyAt
    <2>3. CASE ~(config.staged \/ config.xccl)
      <3>1. pc' = [pc EXCEPT ![r] = "raised"] /\ made' = made /\ call' = call
        BY <2>3 DEF WarmUp
      <3> QED BY <2>1, <3>1 DEF OnlyAt
    <2> QED BY <2>2, <2>3
  <1>2. /\ pc[r] = "idle" /\ stage[r] = Len(Kinds) + 1
        /\ <<round, stage, lists, row, own, groups, counter>>' =
                <<round, stage, lists, row, own, groups, counter>>
    BY DEF WarmUp
  <1>3. stage[r] = LastStage(config)
    BY <1>2, NamesAgree, Zenon DEF LastStage
  <1>4. CASE config.staged \/ config.xccl
    <2>1. /\ pc'[r] = "warming" /\ made'[r] = made[r] + 1
          /\ call'[r] = Blocking("all_reduce", Everyone, WarmUpBackend)
      BY <1>4, Situation DEF WarmUp, Enter
    <2>2. Where(config, r, "warming", round[r], stage[r], row[r], lists[r], own[r], groups[r],
                counter[r], made[r] + 1, Blocking("all_reduce", WorldList(config), Backend(config)))
      BY <1>2, <1>3, Situation, WorkerWarmsUp
    <2>3. call'[r] = Blocking("all_reduce", WorldList(config), Backend(config))
      BY <2>1, NamesAgree, Zenon
    <2>4. Here(r)'
      BY <1>2, <2>1, <2>2, <2>3, Zenon DEF Here
    <2> QED BY <1>1, <2>4, StepOfOne
  <1>5. CASE ~(config.staged \/ config.xccl)
    <2>1. pc'[r] = "raised" /\ made' = made /\ call' = call
      BY <1>5, Situation DEF WarmUp
    <2>2. Where(config, r, "raised", round[r], stage[r], row[r], lists[r], own[r], groups[r],
                counter[r], made[r], call[r])
      BY <1>2, <1>3, <1>5, Situation, WorkerRaises
    <2>3. Here(r)'
      BY <1>2, <2>1, <2>2, Zenon DEF Here
    <2> QED BY <1>1, <2>3, StepOfOne
  <1> QED BY <1>4, <1>5

\* The end of a start.
LEMMA StartKeeps ==
    ASSUME IInv, NEW r \in Worker, config' = config, Start(r)
    PROVE  IInv'
  <1>1. OnlyAt(r)
    BY DEF OnlyAt, Start
  <1>2. /\ pc[r] = "warming" /\ pc'[r] = "started"
        /\ <<round, stage, lists, row, own, groups, counter, made, call>>' =
                <<round, stage, lists, row, own, groups, counter, made, call>>
    BY Situation DEF Start
  <1>3. Where(config, r, "started", round[r], stage[r], row[r], lists[r], own[r], groups[r],
              counter[r], made[r], call[r])
    BY <1>2, Situation, WorkerStarts
  <1>4. Here(r)'
    BY <1>2, <1>3, Zenon DEF Here
  <1> QED BY <1>1, <1>4, StepOfOne

\* The way back.
LEMMA TeardownKeeps ==
    ASSUME IInv, NEW r \in Worker, config' = config, Teardown(r)
    PROVE  IInv'
  <1>1. OnlyAt(r)
    BY DEF OnlyAt, Teardown
  <1>2. PICK g : g = groups[r]
    OBVIOUS
  <1>3. PICK h : h = [kind \in GroupKinds |-> IF kind \in Survivors THEN g[kind] ELSE None]
    OBVIOUS
  <1>4. /\ pc[r] = "started" /\ pc'[r] = "boot" /\ round[r] < config.restarts
        /\ round'[r] = round[r] + 1
        /\ <<stage, lists, row, own, counter, made, call>>' =
                <<stage, lists, row, own, counter, made, call>>
    BY Situation DEF Teardown
  <1>5. groups'[r] = h
    BY <1>2, <1>3, Situation DEF Teardown
  <1>6. Where(config, r, "boot", round[r] + 1, stage[r], row[r], lists[r], own[r], h,
              counter[r], made[r], call[r])
    <2>1. Where(config, r, "boot", round[r] + 1, stage[r], row[r], lists[r], own[r],
                [kind \in GroupKinds |-> IF kind \in Survivors THEN g[kind] ELSE None],
                counter[r], made[r], call[r])
      BY <1>2, <1>4, Situation, WorkerStartsOver
    <2> QED BY <1>3, <2>1, Zenon
  <1>7. Here(r)'
    BY <1>4, <1>5, <1>6, Zenon DEF Here
  <1> QED BY <1>1, <1>7, StepOfOne

\* Every step keeps the invariant.
LEMMA StepsKeep ==
    ASSUME IInv, [Next]_vars
    PROVE  IInv'
  <1>1. CASE UNCHANGED vars
    <2>1. ASSUME NEW r \in Worker
          PROVE  Here(r)'
      <3>1. Here(r)
        BY DEF IInv
      <3> QED BY <1>1, <3>1, Zenon DEF vars, Here
    <2>2. Worker' = Worker /\ config' = config /\ Domains'
      BY <1>1, Zenon DEF IInv, vars, Worker, Domains
    <2>3. \A r \in Worker' : Here(r)'
      BY <2>1, <2>2, Zenon
    <2>4. config' \in Configs
      BY <2>2 DEF IInv
    <2> QED BY <2>2, <2>3, <2>4, Zenon DEF IInv
  <1>2. ASSUME NEW r \in Worker, Step(r)
        PROVE  IInv'
    <2>1. config' = config
      BY <1>2 DEF Step
    <2>2. CASE InitProcessGroup(r)
      BY <2>1, <2>2, InitProcessGroupKeeps
    <2>3. CASE ProcessGroupReady(r)
      BY <2>1, <2>3, ProcessGroupReadyKeeps
    <2>4. CASE Begin(r)
      BY <2>1, <2>4, BeginKeeps
    <2>5. CASE DeviceGroupReady(r)
      BY <2>1, <2>5, DeviceGroupReadyKeeps
    <2>6. CASE CpuGroupReady(r)
      BY <2>1, <2>6, CpuGroupReadyKeeps
    <2>7. CASE ManagerReady(r)
      BY <2>1, <2>7, ManagerReadyKeeps
    <2>8. CASE MqReady(r)
      BY <2>1, <2>8, MqReadyKeeps
    <2>9. CASE NodesCounted(r)
      BY <2>1, <2>9, NodesCountedKeeps
    <2>10. CASE WarmUp(r)
      BY <2>1, <2>10, WarmUpKeeps
    <2>11. CASE Start(r)
      BY <2>1, <2>11, StartKeeps
    <2>12. CASE Teardown(r)
      BY <2>1, <2>12, TeardownKeeps
    <2> QED BY <1>2, <2>2, <2>3, <2>4, <2>5, <2>6, <2>7, <2>8, <2>9, <2>10, <2>11, <2>12, Zenon
            DEF Step
  <1>3. Next \/ UNCHANGED vars
    BY Zenon
  <1> QED BY <1>1, <1>2, <1>3, Zenon DEF Next, Rest

\* At every moment each worker is where the number of its blocking calls says it is in the
\* program that the configuration fixes, with the lists, the globals and the names that
\* belong there: initialize_model_parallel and its surroundings, in any layout, with any
\* interleaving of the workers and any number of teardowns.
THEOREM Invariance == Spec => []IInv
  <1>1. Init => IInv
    BY InitHolds
  <1>2. IInv /\ [Next]_vars => IInv'
    BY StepsKeep
  <1> QED BY <1>1, <1>2, PTL DEF Spec

---------------------------------------------------------------------------
(* What follows from it.                                                   *)

\* The variables have the values they should.
THEOREM TypesHold == Spec => []TypeOK
  <1>1. ASSUME IInv PROVE TypeOK
    <2>1. config \in Configs /\ DOMAIN pc = Worker /\ DOMAIN groups = Worker
      BY <1>1 DEF IInv, Domains
    <2>2. ASSUME NEW r \in Worker
          PROVE  /\ pc[r] \in {"boot", "joining", "idle", "device", "cpu", "all2all", "mq",
                               "counting", "warming", "started", "raised"}
                 /\ stage[r] \in 1..Len(Kinds) + 1
                 /\ round[r] \in 0..config.restarts
                 /\ own[r] # <<>> => r \in Range(own[r])
                 /\ DOMAIN groups[r] = GroupKinds
      <3>1. /\ Placed(config, pc[r], round[r], stage[r], row[r], made[r])
            /\ Listed(config, r, pc[r], stage[r], row[r], lists[r], own[r])
            /\ Global(config, r, round[r], Reached(pc[r], stage[r]), groups[r])
        BY <1>1, Zenon DEF IInv, Here, Where
      <3>2. /\ pc[r] \in Building \cup {"boot", "joining", "idle", "counting", "warming", "started", "raised"}
            /\ round[r] \in 0..config.restarts /\ stage[r] \in 1..LastStage(config)
        BY <3>1, Zenon DEF Placed
      <3>3. own[r] # <<>> => r \in Range(own[r])
        BY <3>1, Zenon DEF Listed
      <3>4. DOMAIN groups[r] = GroupKinds
        BY <3>1, Zenon DEF Global
      <3>5. stage[r] \in 1..Len(Kinds) + 1
        BY <3>2, NamesAgree, Zenon DEF LastStage
      <3> QED BY <3>2, <3>3, <3>4, <3>5 DEF Building
    <2> QED BY <2>1, <2>2, Zenon DEF TypeOK
  <1> QED BY <1>1, Invariance, PTL

\* The world has one list.
LEMMA WorldIsOneList ==
    ASSUME NEW c \in Configs
    PROVE  NumLists(c, "world") = 1
  <1>1. Laid[c]["world"] = GroupRanks("world", c)
    <2>1. "world" \in GroupKinds
      BY DEF GroupKinds
    <2> QED BY <2>1, Zenon DEF Laid
  <1>2. GroupRanks("world", c) = <<[i \in 1..WorldOf(c) |-> i - 1]>>
    BY DEF GroupRanks
  <1>3. PICK list : list = [i \in 1..WorldOf(c) |-> i - 1]
    OBVIOUS
  <1>4. Len(<<list>>) = 1
    OBVIOUS
  <1> QED BY <1>1, <1>2, <1>3, <1>4, Zenon DEF NumLists

\* What two workers do in one call: the same, or the same among the members of a group.
Alike(x, y, p) ==
    IF x.name \in OfGroup
    THEN y.name = x.name /\ (p \in Range(x.members) => y = x)
    ELSE y = x

\* The k-th call of a stage is that on every worker.
LEMMA CallsAreAlike ==
    ASSUME NEW c \in Configs, NEW r \in Ranks(c), NEW p \in Ranks(c),
           NEW s \in 0..LastStage(c), NEW k \in Nat
    PROVE  Alike(CallIn(c, r, s, k), CallIn(c, p, s, k), p)
  <1>1. CASE CallIn(c, p, s, k) = CallIn(c, r, s, k)
    BY <1>1, Zenon DEF Alike
  <1>2. CASE CallIn(c, p, s, k) # CallIn(c, r, s, k)
    <2>1. s # 0 /\ s # LastStage(c)
      <3>1. CASE s = 0
        BY <1>2, <3>1, Zenon DEF CallIn
      <3>2. CASE s = LastStage(c)
        BY <1>2, <3>2, Zenon DEF CallIn
      <3> QED BY <3>1, <3>2
    <2>2. PICK kind : kind = Order(c)[s]
      OBVIOUS
    <2>3. s \in 1..Len(Order(c))
      BY <2>1, StagesCounted
    <2>4. Used(c, kind) /\ OwnList(c, kind, r) /\ OwnList(c, kind, p)
      BY <2>2, <2>3, OrderIsUsed, LaidFacts
    <2>5. ~(k <= 2 * NumLists(c, kind))
      BY <1>2, <2>1, <2>2, Zenon DEF CallIn
    <2>6. ASSUME NEW q
          PROVE  CallIn(c, q, s, k) =
                    IF kind = "world" THEN Blocking("node_count", ListOf(c, kind, q), "gloo")
                    ELSE Blocking(IF WantsMq(kind) THEN "mq" ELSE "same_node",
                                  ListOf(c, kind, q), "gloo")
      BY <2>1, <2>2, <2>5, Zenon DEF CallIn
    <2>7. kind # "world"
      <3> SUFFICES ASSUME kind = "world" PROVE FALSE
        OBVIOUS
      <3>1. RowOf(c, kind, r) \in 1..1 /\ RowOf(c, kind, p) \in 1..1
        BY <2>4, WorldIsOneList, Zenon DEF OwnList
      <3>2. RowOf(c, kind, r) = RowOf(c, kind, p)
        BY <3>1
      <3>3. ListOf(c, kind, r) = ListOf(c, kind, p)
        BY <3>2, Zenon DEF ListOf
      <3> QED BY <1>2, <2>6, <3>3, Zenon
    <2>8. PICK name \in OfGroup : name = IF WantsMq(kind) THEN "mq" ELSE "same_node"
      BY DEF OfGroup
    <2>9. PICK a, b : a = ListOf(c, kind, r) /\ b = ListOf(c, kind, p)
      OBVIOUS
    <2>10. /\ CallIn(c, r, s, k) = Blocking(name, a, "gloo")
           /\ CallIn(c, p, s, k) = Blocking(name, b, "gloo")
      BY <2>6, <2>7, <2>8, <2>9, Zenon
    <2>11. p \in Range(a) => b = a
      BY <2>4, <2>9, Zenon DEF OwnList
    <2>12. Alike(Blocking(name, a, "gloo"), Blocking(name, b, "gloo"), p)
      <3>1. /\ Blocking(name, a, "gloo").name = name /\ Blocking(name, b, "gloo").name = name
            /\ Blocking(name, a, "gloo").members = a
        BY DEF Blocking
      <3> QED BY <2>11, <3>1, Zenon DEF Alike
    <2> QED BY <2>10, <2>12, Zenon
  <1> QED BY <1>1, <1>2

\* The n-th blocking call of every worker is the same one: all groups are created in the same
\* order everywhere, and queues and managers are set up at the same point by the members.
THEOREM NthCallsMatch == Spec => []CallsMatch
  <1>1. ASSUME IInv PROVE CallsMatch
    <2>1. ASSUME NEW r \in Worker, NEW p \in Worker, made[r] = made[p], made[r] > 0
          PROVE  Alike(call[r], call[p], p)
      <3>1. PICK c, m, x, y : c = config /\ m = made[r] /\ m = made[p] /\ x = call[r] /\ y = call[p]
        BY <2>1
      <3>2. c \in Configs /\ r \in Ranks(c) /\ p \in Ranks(c)
        BY <1>1, <3>1, Situation, Zenon
      <3>3. Kept(c, r, m, x) /\ Kept(c, p, m, y)
        <4>1. Kept(config, r, made[r], call[r]) /\ Kept(config, p, made[p], call[p])
          BY <1>1, Zenon DEF IInv, Here, Where
        <4> QED BY <3>1, <4>1, Zenon
      <3>4. m # 0
        BY <2>1, <3>1
      <3>5. PICK n \in 0..c.restarts, s \in 0..LastStage(c) : \E k \in 1..Weight(c, s) :
                m = Times(n, PerStart(c)) + CallsBefore(c, s) + k /\ x = CallIn(c, r, s, k)
        BY <3>3, <3>4, Zenon DEF Kept
      <3>6. PICK k \in 1..Weight(c, s) :
                m = Times(n, PerStart(c)) + CallsBefore(c, s) + k /\ x = CallIn(c, r, s, k)
        BY <3>5
      <3>7. PICK i \in 0..c.restarts, t \in 0..LastStage(c) : \E l \in 1..Weight(c, t) :
                m = Times(i, PerStart(c)) + CallsBefore(c, t) + l /\ y = CallIn(c, p, t, l)
        BY <3>3, <3>4, Zenon DEF Kept
      <3>8. PICK l \in 1..Weight(c, t) :
                m = Times(i, PerStart(c)) + CallsBefore(c, t) + l /\ y = CallIn(c, p, t, l)
        BY <3>7
      <3>9. n \in Nat /\ i \in Nat /\ k \in Nat
        <4>1. c.restarts \in Nat
          BY <3>2, ConfigFacts
        <4>2. Weight(c, s) \in Nat
          <5>1. s \in 0..10
            <6>1. LastStage(c) \in 7..10
              BY <3>2, StagesCounted, Zenon
            <6> QED BY <6>1
          <5> QED BY <3>2, <5>1, WeightType
        <4> QED BY <4>1, <4>2
      <3>10. s = t /\ k = l
        <4>1. Times(n, PerStart(c)) + CallsBefore(c, s) + k
                = Times(i, PerStart(c)) + CallsBefore(c, t) + l
          BY <3>6, <3>8, Zenon
        <4> QED BY <3>2, <3>9, <4>1, SameNumber
      <3>11. Alike(CallIn(c, r, s, k), CallIn(c, p, s, k), p)
        BY <3>2, <3>9, CallsAreAlike
      <3> QED BY <3>1, <3>6, <3>8, <3>10, <3>11, Zenon
    <2> QED BY <2>1, Zenon DEF CallsMatch, Alike
  <1> QED BY <1>1, Invariance, PTL

\* The coordinator that the global of a kind is: _INNER_DP_WORLD may be the world's.
KindOf(c, kind) == IF kind # "inner" THEN kind ELSE IF c.dp > 1 THEN "inner" ELSE "world"

\* Any global is the coordinator that was built for it, in this start or, _INNER_DP_WORLD
\* before it is set again, in an earlier one.
LEMMA GlobalsAreBuilt ==
    ASSUME IInv, NEW r \in Worker, NEW kind \in GroupKinds, groups[r][kind] # None
    PROVE  /\ Used(config, KindOf(config, kind))
           /\ \E n \in 0..config.restarts :
                /\ groups[r][kind] = GroupOf(config, KindOf(config, kind), n, r)
                /\ kind # "inner" \/ pc[r] = "started" => n = round[r]
  <1>1. PICK c, n, g, s : c = config /\ n = round[r] /\ g = groups[r] /\ s = Reached(pc[r], stage[r])
    OBVIOUS
  <1>2. c \in Configs /\ r \in Ranks(c)
    BY <1>1, Situation, Zenon
  <1>3. Global(c, r, n, s, g) /\ n \in 0..c.restarts
    BY <1>1, Situation, Zenon DEF Where, Placed
  <1>4. CASE kind # "inner"
    <2>1. KindOf(c, kind) = kind /\ Used(c, kind)
      BY <1>4, Zenon DEF KindOf, Used
    <2>2. PICK i \in 1..Len(Order(c)) : Order(c)[i] = kind
      <3>1. g[kind] # None /\ kind \in GroupKinds \ {"inner"}
        BY <1>1, <1>4
      <3> QED BY <1>3, <3>1, Zenon DEF Global
    <2>3. g[kind] = GroupOf(c, kind, n, r)
      <3>1. g[kind] = IF i < s THEN GroupOf(c, kind, n, r) ELSE None
        BY <1>3, <1>4, <2>2, Zenon DEF Global
      <3> QED BY <1>1, <3>1, Zenon
    <2> QED BY <1>1, <1>3, <2>1, <2>3, Zenon
  <1>5. CASE kind = "inner"
    <2>1. c.inner
      BY <1>1, <1>3, <1>5, Zenon DEF Global
    <2>2. PICK name : name = IF c.dp > 1 THEN "inner" ELSE "world"
      OBVIOUS
    <2>3. KindOf(c, kind) = name
      BY <1>5, <2>2, Zenon DEF KindOf
    <2>4. Used(c, name)
      <3>1. c.ext = 1
        BY <1>2, <2>1, ConfigFacts
      <3>2. name \in GroupKinds
        BY <2>2 DEF GroupKinds
      <3> QED BY <3>1, <3>2, Zenon DEF Used
    <2>5. IF s > (IF c.dp > 1 THEN 2 ELSE 1) THEN g["inner"] = GroupOf(c, name, n, r)
          ELSE g["inner"] = None \/ \E k \in 0..c.restarts : g["inner"] = GroupOf(c, name, k, r)
      BY <1>3, <2>1, <2>2, Zenon DEF Global
    <2>6. CASE pc[r] = "started"
      <3>1. s = LastStage(c)
        BY <1>1, <2>6, Situation DEF Where, Placed, Reached
      <3>2. s > (IF c.dp > 1 THEN 2 ELSE 1)
        <4>1. LastStage(c) \in 7..10
          BY <1>2, StagesCounted, Zenon
        <4> QED BY <3>1, <4>1
      <3> QED BY <1>1, <1>3, <1>5, <2>3, <2>4, <2>5, <3>2, Zenon
    <2>7. CASE pc[r] # "started"
      <3>1. PICK k \in 0..c.restarts : g["inner"] = GroupOf(c, name, k, r)
        BY <1>1, <1>3, <1>5, <2>5, Zenon
      <3> QED BY <1>1, <1>5, <2>3, <2>4, <2>7, <3>1, Zenon
    <2> QED BY <2>6, <2>7
  <1> QED BY <1>4, <1>5

\* The members of a group have the same group under that global, with the same ranks in the same
\* order and the same unique name, whenever they have one of the same start.
THEOREM MembersHaveOneGroup == Spec => []MembersAgree
  <1>1. ASSUME IInv PROVE MembersAgree
    <2> SUFFICES ASSUME NEW r \in Worker, NEW kind \in GroupKinds, groups[r][kind] # None,
                        NEW p \in Range(groups[r][kind].ranks),
                        round[p] = round[r], groups[p][kind] # None,
                        kind = "inner" => pc[r] = "started" /\ pc[p] = "started"
                 PROVE  groups[p][kind] = groups[r][kind]
      BY Zenon DEF MembersAgree
    <2>1. PICK c, name, list : c = config /\ name = KindOf(c, kind) /\ list = ListOf(c, name, r)
      OBVIOUS
    <2>2. c \in Configs /\ r \in Ranks(c)
      BY <1>1, <2>1, Situation, Zenon
    <2>3. Used(c, name) /\ groups[r][kind] = GroupOf(c, name, round[r], r)
      BY <1>1, <2>1, GlobalsAreBuilt
    <2>4. groups[r][kind].ranks = list
      BY <2>1, <2>3 DEF GroupOf
    <2>5. p \in Ranks(c) /\ ListOf(c, name, p) = list
      <3>1. OwnList(c, name, r)
        BY <2>2, <2>3, LaidFacts
      <3>2. p \in Range(ListOf(c, name, r))
        BY <2>1, <2>4, Zenon
      <3> QED BY <2>1, <3>1, <3>2, Zenon DEF OwnList
    <2>6. p \in Worker
      BY <2>1, <2>5, NamesAgree, Zenon
    <2>7. groups[p][kind] = GroupOf(c, name, round[p], p)
      BY <1>1, <2>1, <2>6, GlobalsAreBuilt
    <2> QED BY <2>1, <2>3, <2>5, <2>7, Zenon DEF GroupOf
  <1> QED BY <1>1, Invariance, PTL

\* The group of a kind holds the ranks that differ in the dimensions of that kind only, and a
\* member's position in it is its coordinate.
THEOREM GroupsAreIntended == Spec => []GroupsAreCoordinates
  <1>1. ASSUME IInv PROVE GroupsAreCoordinates
    <2>1. ASSUME NEW r \in Worker, stage[r] > 1, groups[r][Kinds[stage[r] - 1]] # None,
                 CanSplit(Kinds[stage[r] - 1], config)
          PROVE  groups[r][Kinds[stage[r] - 1]].ranks = IntendedGroup(Kinds[stage[r] - 1], config, r)
      <3>1. PICK c, i, kind : c = config /\ i = stage[r] - 1 /\ kind = Kinds[i]
        OBVIOUS
      <3>2. c \in Configs /\ r \in Ranks(c)
        BY <1>1, <3>1, Situation, Zenon
      <3>3. i \in 1..Len(Order(c))
        <4>1. stage[r] \in 1..LastStage(c)
          BY <1>1, <3>1, Situation, Zenon DEF Where, Placed
        <4>2. PICK t \in 1..LastStage(c) : t = stage[r]
          BY <4>1
        <4> QED BY <2>1, <3>1, <3>2, <4>2, StagesCounted
      <3>4. kind = Order(c)[i]
        BY <3>1, NamesAgree, Zenon
      <3>5. kind \in GroupKinds /\ KindOf(c, kind) = kind
        <4>1. kind \in GroupKinds /\ (kind = "inner" => c.dp > 1)
          BY <3>2, <3>3, <3>4, KindFacts
        <4> QED BY <4>1, Zenon DEF KindOf
      <3>6. groups[r][kind] # None
        BY <2>1, <3>1, Zenon
      <3>7. Used(c, kind) /\ \E n \in 0..c.restarts : groups[r][kind] = GroupOf(c, kind, n, r)
        <4>1. /\ Used(config, KindOf(config, kind))
              /\ \E n \in 0..config.restarts :
                    /\ groups[r][kind] = GroupOf(config, KindOf(config, kind), n, r)
                    /\ kind # "inner" \/ pc[r] = "started" => n = round[r]
          BY <1>1, <3>5, <3>6, GlobalsAreBuilt
        <4> QED BY <3>1, <3>5, <4>1, Zenon
      <3>8. groups[r][kind].ranks = ListOf(c, kind, r)
        BY <3>7 DEF GroupOf
      <3>9. ListOf(c, kind, r) = IntendedGroup(kind, c, r)
        <4>1. CanSplit(kind, c)
          BY <2>1, <3>1, Zenon
        <4>2. OwnList(c, kind, r)
          BY <3>2, <3>7, LaidFacts
        <4> QED BY <4>1, <4>2, Zenon DEF OwnList
      <3> QED BY <3>1, <3>8, <3>9, Zenon
    <2>2. ASSUME NEW kind \in Range(Kinds), CanSplit(kind, config),
                 NEW list \in Range(Laid[config][kind]), NEW r \in Range(list)
          PROVE  list = IntendedGroup(kind, config, r)
      <3>1. PICK c : c = config /\ c \in Configs
        BY <1>1 DEF IInv
      <3>2. PICK i \in 1..Len(Order(c)) : kind = Order(c)[i]
        <4>1. DOMAIN Order(c) = 1..Len(Order(c))
          BY <3>1, OrderIsOrdered, Zenon DEF Ordered
        <4>2. kind \in Range(Order(c))
          BY <3>1, NamesAgree, Zenon
        <4> QED BY <4>1, <4>2, Zenon DEF Range
      <3>3. Used(c, kind)
        BY <3>1, <3>2, OrderIsUsed, Zenon
      <3>4. PICK p : p \in Ranks(c)
        <4>1. IsLayout(c)
          BY <3>1, ConfigFacts
        <4>2. PICK n \in Positive : n = WorldOf(c)
          BY <4>1, LaidOut
        <4>3. 0 \in Ranks(c)
          BY <4>2 DEF Ranks, Positive
        <4> QED BY <4>3
      <3>5. OwnList(c, kind, p)
        BY <3>1, <3>3, <3>4, LaidFacts
      <3>6. PICK all : all = Laid[c][kind]
        OBVIOUS
      <3>7. all \in Seq(Seq(Ranks(c))) /\ NumLists(c, kind) = Len(all)
        BY <3>5, <3>6, Zenon DEF OwnList, NumLists
      <3>8. DOMAIN all = 1..Len(all)
        BY <3>7
      <3>9. PICK j \in 1..Len(all) : list = all[j]
        BY <3>1, <3>6, <3>8, Zenon DEF Range
      <3> QED BY <2>2, <3>1, <3>5, <3>6, <3>7, <3>9, Zenon DEF OwnList
    <2> QED BY <2>1, <2>2, Zenon DEF GroupsAreCoordinates
  <1> QED BY <1>1, Invariance, PTL

\* A worker that serves has the groups of this start under all its globals.
THEOREM ServesOnFreshGroups == Spec => []StartedOnFreshGroups
  <1>1. ASSUME IInv PROVE StartedOnFreshGroups
    <2> SUFFICES ASSUME NEW r \in Worker, pc[r] = "started", NEW i \in 1..Len(Kinds)
                 PROVE  groups[r][Kinds[i]].number = round[r]
      BY Zenon DEF StartedOnFreshGroups
    <2>1. PICK c, kind : c = config /\ kind = Order(c)[i]
      OBVIOUS
    <2>2. c \in Configs /\ r \in Ranks(c) /\ i \in 1..Len(Order(c)) /\ kind = Kinds[i]
      BY <1>1, <2>1, Situation, NamesAgree, Zenon
    <2>3. stage[r] = LastStage(c) /\ Reached(pc[r], stage[r]) = LastStage(c)
      BY <1>1, <2>1, Situation DEF Where, Placed, Reached
    <2>4. Global(c, r, round[r], LastStage(c), groups[r])
      BY <1>1, <2>1, <2>3, Situation, Zenon DEF Where
    <2>5. groups[r][kind] = GroupOf(c, kind, round[r], r)
      <3>1. i < LastStage(c) /\ LastStage(c) > 2
        BY <2>2, StagesCounted
      <3>2. kind # "inner" => groups[r][kind] = GroupOf(c, kind, round[r], r)
        BY <2>1, <2>2, <2>4, <3>1, Zenon DEF Global
      <3>3. CASE kind = "inner"
        <4>1. c.inner /\ c.dp > 1
          <5>1. \A k \in 1..Len(Order(c)) : Order(c)[k] = "inner" => c.inner /\ c.dp > 1
            BY <2>2, KindFacts
          <5> QED BY <2>1, <2>2, <3>3, <5>1, Zenon
        <4> QED BY <2>4, <3>1, <3>3, <4>1, Zenon DEF Global
      <3> QED BY <3>2, <3>3
    <2>6. GroupOf(c, kind, round[r], r).number = round[r]
      BY DEF GroupOf
    <2> QED BY <2>2, <2>5, <2>6, Zenon
  <1> QED BY <1>1, Invariance, PTL

\* No assert of the constructors ends a process: neither does a kind's global exist when its
\* coordinator is to be built, nor is a group missing that a manager looks for.  What may is
\* the warm-up, and only where torch has no xccl and the flag is not set.
THEOREM ConstructorsDoNotRaise ==
    Spec => [](\A r \in Worker :
                pc[r] = "raised" => ~config.staged /\ ~config.xccl /\ stage[r] = Len(Kinds) + 1)
  <1>1. ASSUME IInv
        PROVE  \A r \in Worker :
                pc[r] = "raised" => ~config.staged /\ ~config.xccl /\ stage[r] = Len(Kinds) + 1
    <2> SUFFICES ASSUME NEW r \in Worker, pc[r] = "raised"
                 PROVE  ~config.staged /\ ~config.xccl /\ stage[r] = Len(Kinds) + 1
      OBVIOUS
    <2>1. Placed(config, pc[r], round[r], stage[r], row[r], made[r])
      BY <1>1, Zenon DEF IInv, Here, Where
    <2>2. ~config.staged /\ ~config.xccl /\ stage[r] = LastStage(config)
      BY <2>1 DEF Placed
    <2> QED BY <2>2, NamesAgree, Zenon DEF LastStage
  <1> QED BY <1>1, Invariance, PTL
============================================================================
